----------------------------- MODULE RelayProofs -----------------------------
(* What TLAPS proves of Relay, for any tunnels, domains, files and names.      *)
EXTENDS Relay, SequenceTheorems, WellFoundedInduction, TLAPS

USE DomainsAssumption, NamesAssumption, FilesAssumption, NoneAssumption

-----------------------------------------------------------------------------
(* Names and patterns.                                                       *)

LEMMA LeastIsLeast ==
    ASSUME NEW S \in SUBSET Nat, S # {}
    PROVE  Least(S) \in S /\ \A k \in S : Least(S) <= k
<1> DEFINE R == OpToRel(<, Nat)
<1>1. \E x \in S : \A y \in S : ~(<<y, x>> \in R)
      BY NatLessThanWellFounded, WFMin
<1>2. \A x, y \in Nat : y < x => <<y, x>> \in R
      BY DEF OpToRel
<1> HIDE DEF R
<1>3. \E x \in S : \A y \in S : x <= y
  <2>1. PICK x \in S : \A y \in S : ~(<<y, x>> \in R)
        BY <1>1
  <2>2. \A y \in S : x \in Nat /\ y \in Nat /\ ~(y < x)
        BY <1>2, <2>1
  <2> QED BY <2>2
<1> QED BY <1>3 DEF Least

LEMMA FromProperties ==
    ASSUME NEW h \in Seq(STRING), NEW i \in 1 .. Len(h) + 1
    PROVE  /\ From(h, i) \in Seq(STRING)
           /\ Len(From(h, i)) = Len(h) - i + 1
           /\ \A k \in 1 .. Len(h) - i + 1 : From(h, i)[k] = h[i + k - 1]
<1>1. \A k \in i .. Len(h) : h[k] \in STRING
      BY ElementOfSeq
<1> QED BY <1>1, SubSeqProperties DEF From

LEMMA FromFirst ==
    ASSUME NEW h \in Seq(STRING)
    PROVE  From(h, 1) = h
BY SubSeqFull DEF From

\* Of two ends of a name, the shorter is an end of the longer.
LEMMA EndsNest ==
    ASSUME NEW h \in Seq(STRING), NEW i \in 1 .. Len(h) + 1, NEW j \in i .. Len(h) + 1
    PROVE  Within(From(h, i), From(h, j))
<1> DEFINE d == From(h, i)
           e == From(h, j)
           m == Len(d) - Len(e) + 1
<1>0. Len(h) \in Nat
      BY LenProperties
<1>1. j \in 1 .. Len(h) + 1
      BY <1>0
<1>2. /\ d \in Seq(STRING) /\ Len(d) = Len(h) - i + 1
      /\ \A k \in 1 .. Len(h) - i + 1 : d[k] = h[i + k - 1]
      BY FromProperties
<1>3. /\ e \in Seq(STRING) /\ Len(e) = Len(h) - j + 1
      /\ \A k \in 1 .. Len(h) - j + 1 : e[k] = h[j + k - 1]
      BY <1>1, FromProperties
<1> HIDE DEF d, e
<1>4. m = j - i + 1 /\ m \in 1 .. Len(d) + 1
      BY <1>0, <1>2, <1>3
<1>5. /\ From(d, m) \in Seq(STRING) /\ Len(From(d, m)) = Len(d) - m + 1
      /\ \A k \in 1 .. Len(d) - m + 1 : From(d, m)[k] = d[m + k - 1]
      BY <1>2, <1>4, FromProperties
<1>6. Len(From(d, m)) = Len(e)
      BY <1>0, <1>2, <1>3, <1>4, <1>5
<1>7. ASSUME NEW k \in 1 .. Len(From(d, m))
      PROVE  From(d, m)[k] = e[k]
  <2>1. From(d, m)[k] = d[m + k - 1] /\ m + k - 1 \in 1 .. Len(h) - i + 1
        BY <1>0, <1>2, <1>3, <1>4, <1>5, <1>6
  <2>2. d[m + k - 1] = h[j + k - 1]
    <3>1. i + (m + k - 1) - 1 = j + k - 1
          BY <1>0, <1>1, <1>4
    <3>2. d[m + k - 1] = h[i + (m + k - 1) - 1]
          BY <1>2, <2>1
    <3> QED BY <3>1, <3>2
  <2>3. e[k] = h[j + k - 1]
        BY <1>3, <1>6
  <2> QED BY <2>1, <2>2, <2>3
<1>8. From(d, m) = e
      BY <1>3, <1>5, <1>6, <1>7, SeqEqual
<1>9. Len(d) >= Len(e)
      BY <1>0, <1>2, <1>3
<1> QED BY <1>8, <1>9 DEF Within, d, e

\* A domain of h is the end of h from some label on.
LEMMA WithinIsEnd ==
    ASSUME NEW h \in Seq(STRING), NEW d \in Seq(STRING), Within(h, d)
    PROVE  \E i \in 1 .. Len(h) + 1 :
              i = Len(h) - Len(d) + 1 /\ d = From(h, i)
<1>1. Len(h) \in Nat /\ Len(d) \in Nat
      BY LenProperties
<1> QED BY <1>1 DEF Within

LEMMA EndIsWithin ==
    ASSUME NEW h \in Seq(STRING), NEW i \in 1 .. Len(h) + 1
    PROVE  Within(h, From(h, i))
<1>1. From(h, 1) = h /\ Len(h) \in Nat
      BY FromFirst, LenProperties
<1> QED BY <1>1, EndsNest

LEMMA WithinComparable ==
    ASSUME NEW h \in Seq(STRING), NEW d \in Seq(STRING), NEW e \in Seq(STRING),
           Within(h, d), Within(h, e), Len(e) <= Len(d)
    PROVE  Within(d, e)
<1>1. PICK i \in 1 .. Len(h) + 1 : i = Len(h) - Len(d) + 1 /\ d = From(h, i)
      BY WithinIsEnd
<1>2. PICK j \in 1 .. Len(h) + 1 : j = Len(h) - Len(e) + 1 /\ e = From(h, j)
      BY WithinIsEnd
<1>3. j \in i .. Len(h) + 1
  <2>1. Len(h) \in Nat /\ Len(d) \in Nat /\ Len(e) \in Nat
        BY LenProperties
  <2> QED BY <1>1, <1>2, <2>1
<1>4. Within(From(h, i), From(h, j))
      BY <1>3, EndsNest
<1> QED BY <1>1, <1>2, <1>4

-----------------------------------------------------------------------------
(* Match.                                                                    *)

Pattern == [star : BOOLEAN, name : Hostname]

\* The keys that cover h are those the loop of Match can meet.
LEMMA CoveringKeys ==
    ASSUME NEW table_ \in SUBSET Pattern, NEW h \in Hostname,
           NEW key \in table_, Covers(key, h)
    PROVE  \/ key = Exact(h)
           \/ /\ key.star
              /\ \E i \in WildcardsAt(table_, h) : key = Star(From(h, i)) /\ Len(key.name) = Len(h) - i + 1
<1>1. key = [star |-> key.star, name |-> key.name] /\ key.star \in BOOLEAN /\ key.name \in Hostname
      BY DEF Pattern
<1>2. CASE ~key.star
      BY <1>1, <1>2 DEF Covers, Exact
<1>3. CASE key.star
  <2>1. key.name \in Seq(STRING) /\ h \in Seq(STRING) /\ Within(h, key.name) /\ h # key.name
        BY <1>1, <1>3 DEF Covers, Under, Hostname
  <2>2. PICK i \in 1 .. Len(h) + 1 : i = Len(h) - Len(key.name) + 1 /\ key.name = From(h, i)
        BY <2>1, WithinIsEnd
  <2>3. i # 1
        BY <2>1, <2>2, FromFirst
  <2>4. Len(h) \in Nat /\ Len(key.name) \in Nat /\ Len(key.name) # 0
        BY <1>1, <2>1, LenProperties, EmptySeq DEF Hostname
  <2>5. i \in 2 .. Len(h) /\ Len(key.name) = Len(h) - i + 1
    <3>1. i = Len(h) - Len(key.name) + 1
          BY <2>2
    <3>2. i >= 1 /\ i <= Len(h) + 1 /\ i \in Int
      <4>1. \A n \in Nat : \A k \in 1 .. n + 1 : k >= 1 /\ k <= n + 1 /\ k \in Int
            OBVIOUS
      <4> QED BY <2>4, <4>1
    <3> HIDE DEF Pattern
    <3> QED BY <2>3, <2>4, <3>1, <3>2
  <2>6. key = Star(From(h, i))
        BY <1>1, <1>3, <2>2 DEF Star
  <2> QED BY <1>3, <2>5, <2>6 DEF WildcardsAt
<1> QED BY <1>1, <1>2, <1>3

\* The pattern that decides on h is in the table, covers h, and no other does
\* more precisely; without one, nothing in the table covers h.
LEMMA MatchIsMostSpecific ==
    ASSUME NEW table_ \in SUBSET Pattern, NEW h \in Hostname
    PROVE  /\ Match(table_, h) # NoMatch =>
                 Match(table_, h) \in table_ /\ Match(table_, h) \in MostSpecific(table_, h)
           /\ Match(table_, h) = NoMatch => \A key \in table_ : ~Covers(key, h)
<1> DEFINE at == WildcardsAt(table_, h)
<1>0. h \in Seq(STRING) /\ h # <<>> /\ Len(h) \in Nat
      BY LenProperties DEF Hostname
<1>1. CASE Exact(h) \in table_
  <2>1. Match(table_, h) = Exact(h) /\ Exact(h) # NoMatch /\ ~Exact(h).star /\ Exact(h).name = h
        BY <1>0, <1>1 DEF Match, Exact, NoMatch
  <2> QED BY <1>1, <2>1 DEF MostSpecific, Covers
<1>2. CASE Exact(h) \notin table_ /\ at = {}
      BY <1>2, CoveringKeys DEF Match
<1>3. CASE Exact(h) \notin table_ /\ at # {}
  <2> DEFINE m == Least(at)
             key == Star(From(h, m))
  <2>1. at \in SUBSET Nat /\ \A i \in at : i \in 2 .. Len(h) /\ Star(From(h, i)) \in table_
        BY <1>0 DEF WildcardsAt
  <2>2. m \in at /\ \A i \in at : m <= i
        BY <1>3, <2>1, LeastIsLeast
  <2>3. Match(table_, h) = key /\ key \in table_ /\ key.star /\ key.name = From(h, m) /\ key # NoMatch
        BY <1>3, <2>1, <2>2 DEF Match, Star, NoMatch
  <2>4. m \in 1 .. Len(h) + 1 /\ m \in Nat /\ m >= 2
        BY <1>0, <2>1, <2>2
  <2>5. Len(From(h, m)) = Len(h) - m + 1 /\ Within(h, From(h, m))
        BY <1>0, <2>4, FromProperties, EndIsWithin
  <2>6. Covers(key, h)
        BY <1>0, <2>3, <2>4, <2>5 DEF Covers, Under
  <2>7. ASSUME NEW other \in table_, Covers(other, h)
        PROVE  other.star /\ Len(other.name) <= Len(key.name)
    <3>1. PICK i \in at : other.star /\ Len(other.name) = Len(h) - i + 1
          BY <1>3, <2>7, CoveringKeys
    <3> QED BY <1>0, <2>1, <2>2, <2>3, <2>4, <2>5, <3>1
  <2> QED BY <2>3, <2>6, <2>7 DEF MostSpecific
<1> QED BY <1>1, <1>2, <1>3

\* One of the most precise patterns of a table, in a part of it: the part has
\* a most precise pattern of the whole.
LEMMA PartMatch ==
    ASSUME NEW table_ \in SUBSET Pattern, NEW part \in SUBSET table_, NEW h \in Hostname,
           NEW best \in part, best \in MostSpecific(table_, h)
    PROVE  Match(part, h) \in MostSpecific(table_, h)
<1> DEFINE key == Match(part, h)
<1>1. Covers(best, h) /\ part \in SUBSET Pattern
      BY DEF MostSpecific
<1>2. key \in part /\ key \in MostSpecific(part, h)
      BY <1>1, MatchIsMostSpecific
<1> HIDE DEF key
<1>3. ASSUME NEW other \in table_, Covers(other, h)
      PROVE  ~key.star \/ (other.star /\ Len(other.name) <= Len(key.name))
  <2>1. ~key.star \/ (best.star /\ Len(best.name) <= Len(key.name))
        BY <1>1, <1>2 DEF MostSpecific
  <2>2. ~best.star \/ (other.star /\ Len(other.name) <= Len(best.name))
        BY <1>3 DEF MostSpecific
  <2>3. Len(key.name) \in Nat /\ Len(best.name) \in Nat /\ Len(other.name) \in Nat
        BY <1>1, <1>2, <1>3, LenProperties DEF Pattern, Hostname
  <2> QED BY <2>1, <2>2, <2>3
<1>4. key \in table_ /\ Covers(key, h)
      BY <1>2 DEF MostSpecific
<1> QED BY <1>3, <1>4 DEF MostSpecific, key

\* What else covers a name lies above the most precise pattern.
LEMMA OthersLieAbove ==
    ASSUME NEW table_ \in SUBSET Pattern, NEW h \in Hostname,
           NEW best \in MostSpecific(table_, h), NEW other \in table_, Covers(other, h), other # best
    PROVE  other.star /\ Under(best.name, other.name)
<1>1. /\ best = [star |-> best.star, name |-> best.name] /\ best.star \in BOOLEAN
      /\ other = [star |-> other.star, name |-> other.name] /\ other.star \in BOOLEAN
      /\ best.name \in Seq(STRING) /\ other.name \in Seq(STRING) /\ h \in Seq(STRING)
      BY DEF Pattern, Hostname, MostSpecific
<1>2. /\ Covers(best, h)
      /\ ~best.star \/ (other.star /\ Len(other.name) <= Len(best.name))
      BY DEF MostSpecific
<1>3. CASE ~best.star
  <2>1. best.name = h
        BY <1>2, <1>3 DEF Covers
  <2>2. other.star
        BY <1>1, <1>3, <2>1 DEF Covers
  <2> QED BY <2>1, <2>2 DEF Covers
<1>4. CASE best.star
  <2>1. other.star /\ Within(h, best.name) /\ Within(h, other.name)
        BY <1>2, <1>4 DEF Covers, Under
  <2>2. Within(best.name, other.name)
        BY <1>1, <1>2, <1>4, <2>1, WithinComparable
  <2>3. best.name # other.name
        BY <1>1, <1>4, <2>1
  <2> QED BY <2>1, <2>2, <2>3 DEF Under
<1> QED BY <1>1, <1>3, <1>4

-----------------------------------------------------------------------------
(* The node's table, and the names a tunnel may answer a challenge for.      *)

LEMMA NodeRoutesType ==
    ASSUME NEW t \in Tunnels
    PROVE  NodeRoutes(Domain[t]) \in SUBSET Pattern
<1>1. Domain[t] \in Hostname
      OBVIOUS
<1> HIDE DEF Hostname
<1> QED BY <1>1 DEF NodeRoutes, Exact, Star, Pattern

LEMMA OwnerOf ==
    ASSUME NEW t \in Tunnels, NEW key \in NodeRoutes(Domain[t])
    PROVE  Owner(key) = t
<1>1. ASSUME NEW u \in Tunnels, key \in NodeRoutes(Domain[u])
      PROVE  u = t
  <2>1. Domain[u] = Domain[t] /\ Domain[t] \in Seq(STRING)
        BY <1>1 DEF NodeRoutes, Exact, Star, Hostname
  <2>2. Within(Domain[u], Domain[t])
        BY <2>1, FromFirst, LenProperties DEF Within
  <2> QED BY <2>2
<1> QED BY <1>1 DEF Owner

LEMMA CoveredIsWithin ==
    ASSUME NEW t \in Tunnels, NEW key \in NodeRoutes(Domain[t]), NEW h \in Hostname, Covers(key, h)
    PROVE  Within(h, Domain[t])
<1>1. Domain[t] \in Seq(STRING) /\ key.name = Domain[t]
      BY DEF NodeRoutes, Exact, Star, Hostname
<1>2. Within(Domain[t], Domain[t])
      BY <1>1, FromFirst, LenProperties DEF Within
<1> QED BY <1>1, <1>2 DEF Covers, Under

\* Who a table of tunnels sends a name to.
LEMMA TableMatch ==
    ASSUME NEW T \in SUBSET Tunnels, NEW h \in Hostname,
           Match(UNION {NodeRoutes(Domain[t]) : t \in T}, h) # NoMatch
    PROVE  LET o == Owner(Match(UNION {NodeRoutes(Domain[t]) : t \in T}, h))
           IN  o \in T /\ Within(h, Domain[o])
<1> DEFINE tab == UNION {NodeRoutes(Domain[t]) : t \in T}
           key == Match(tab, h)
<1>1. tab \in SUBSET Pattern
      BY NodeRoutesType
<1>2. key \in tab /\ Covers(key, h)
      BY <1>1, MatchIsMostSpecific DEF MostSpecific
<1>3. PICK t \in T : key \in NodeRoutes(Domain[t])
  <2>1. \A k \in tab : \E t \in T : k \in NodeRoutes(Domain[t])
        OBVIOUS
  <2> HIDE DEF tab, key
  <2> QED BY <1>2, <2>1
<1>4. Owner(key) = t
      BY <1>3, OwnerOf
<1>5. Within(h, Domain[t])
      BY <1>2, <1>3, CoveredIsWithin
<1> QED BY <1>4, <1>5

LEMMA ChallengesFollow == ChallengesFollowRoutes
<1> SUFFICES ASSUME NEW t \in Tunnels, NEW n \in Names, validACMEDNSName(n, Domain[t])
             PROVE  LET key == Match(UNION {NodeRoutes(Domain[u]) : u \in Tunnels}, Tail(n))
                    IN  key # NoMatch /\ Owner(key) = t
    BY DEF ChallengesFollowRoutes
<1> DEFINE h == Tail(n)
           tab == UNION {NodeRoutes(Domain[u]) : u \in Tunnels}
           key == Match(tab, h)
<1>1. n \in Seq(STRING) /\ n # <<>> /\ Within(h, Domain[t])
      BY DEF validACMEDNSName
<1>2. Domain[t] \in Seq(STRING) /\ Len(Domain[t]) \in Nat \ {0}
      BY EmptySeq DEF Hostname
<1>3. h \in Hostname
  <2>1. h \in Seq(STRING)
        BY <1>1, HeadTailProperties
  <2>2. Len(h) # 0
        BY <1>1, <1>2, <2>1, LenProperties DEF Within
  <2> QED BY <2>1, <2>2, EmptySeq DEF Hostname
<1>4. tab \in SUBSET Pattern
      BY NodeRoutesType
<1>5. \E k \in tab : Covers(k, h)
  <2>1. Exact(Domain[t]) \in tab /\ Star(Domain[t]) \in tab
        BY DEF NodeRoutes
  <2>2. CASE h = Domain[t]
        BY <2>1, <2>2 DEF Covers, Exact
  <2>3. CASE h # Domain[t]
        BY <1>1, <2>1, <2>3 DEF Covers, Star, Under
  <2> QED BY <2>2, <2>3
<1> HIDE DEF h, tab
<1>6. key # NoMatch
      BY <1>3, <1>4, <1>5, MatchIsMostSpecific
<1> DEFINE o == Owner(key)
<1>7. o \in Tunnels /\ Within(h, Domain[o])
      BY <1>3, <1>6, TableMatch DEF tab
<1>8. h \in Seq(STRING) /\ Domain[o] \in Seq(STRING)
      BY <1>3, <1>7 DEF Hostname
<1>9. Within(Domain[o], Domain[t]) \/ Within(Domain[t], Domain[o])
  <2>1. Len(Domain[t]) <= Len(Domain[o]) \/ Len(Domain[o]) <= Len(Domain[t])
        BY <1>2, <1>8, LenProperties
  <2> HIDE DEF o
  <2> QED BY <1>1, <1>2, <1>7, <1>8, <2>1, WithinComparable
<1>10. o = t
      BY <1>7, <1>9
<1> QED BY <1>6, <1>10 DEF h, tab

-----------------------------------------------------------------------------
(* The routes of a session.                                                  *)

LEMMA ResolvedHost ==
    ASSUME NEW spec \in RouteSpec, NEW domain \in Hostname, ResolveHost(spec.host, domain) # NoMatch
    PROVE  /\ ResolveHost(spec.host, domain) \in Pattern
           /\ Within(ResolveHost(spec.host, domain).name, domain)
<1> DEFINE hst == spec.host
           name == IF hst.star /\ hst.name = <<>> THEN domain
                   ELSE IF hst.name = <<At>> THEN domain
                   ELSE IF Len(hst.name) = 1 THEN hst.name \o domain
                   ELSE hst.name
<1>1. hst.star \in BOOLEAN /\ hst.name \in Seq(STRING) /\ domain \in Seq(STRING)
      BY DEF RouteSpec, Hostname
<1>2. name \in Seq(STRING)
      BY <1>1, ConcatProperties
<1>3. ResolveHost(hst, domain) = [star |-> hst.star, name |-> name] /\ Within(name, domain)
      BY DEF ResolveHost
<1>4. name # <<>>
  <2>1. Len(domain) \in Nat /\ Len(domain) # 0 /\ Len(name) \in Nat
        BY <1>1, <1>2, EmptySeq, LenProperties DEF Hostname
  <2>2. Len(name) # 0
        BY <1>3, <2>1 DEF Within
  <2> QED BY <2>2, EmptySeq
<1> QED BY <1>1, <1>2, <1>3, <1>4 DEF Pattern, Hostname

LEMMA RoutesOf ==
    ASSUME TypeOK, NEW t \in Tunnels, CanResolve(file[t], Domain[t])
    PROVE  /\ DOMAIN Routes(t) \in SUBSET Pattern
           /\ \A k \in DOMAIN Routes(t) :
                 Within(k.name, Domain[t]) /\ Routes(t)[k] \in Specs /\ Routes(t)[k] \in RouteSpec
<1>1. file[t] \in Files /\ file[t] \subseteq Specs /\ file[t] \subseteq RouteSpec /\ Domain[t] \in Hostname
      BY DEF TypeOK, Specs
<1>2. DOMAIN Routes(t) = {ResolveHost(r.host, Domain[t]) : r \in file[t]}
      BY DEF Routes, Resolve
<1>3. ASSUME NEW k \in DOMAIN Routes(t)
      PROVE  /\ k \in Pattern /\ Within(k.name, Domain[t])
             /\ Routes(t)[k] \in file[t]
  <2>1. PICK r \in file[t] : k = ResolveHost(r.host, Domain[t])
        BY <1>2, <1>3
  <2>2. k # NoMatch
        BY <2>1 DEF CanResolve
  <2>3. Routes(t)[k] \in file[t]
        BY <1>2, <1>3, <2>1 DEF Routes, Resolve
  <2> QED BY <1>1, <2>1, <2>2, <2>3, ResolvedHost
<1> QED BY <1>1, <1>3

-----------------------------------------------------------------------------
(* The inductive invariant.                                                  *)

TcpKey  == Match(tcpTargets(tunnel), host)
HttpKey == Match(proxies(tunnel), host)
Found   == Routes(tunnel)[Key]

\* Where the handlers are in one journey: the agent's has begun once the node
\* has dialled, and what the two go by no longer changes then.
JourneyInv ==
    /\ \A t \in sessions : CanResolve(file[t], Domain[t])
    /\ node \in {"idle", "peek", "lookup", "dialLocal"} => tunnel = NoTunnel
    /\ node \in {"idle", "peek", "lookup", "dialLocal", "dial"} => agent = "idle" /\ backend = NoBackend
    /\ node \in {"lookup", "dialLocal", "dial"} => host \in Hosts
    /\ node = "dial" => tunnel # NoTunnel
    /\ node = "header" => agent # "idle"
    /\ tunnel # NoTunnel => host \in Hosts /\ Within(host, Domain[tunnel])
    /\ agent # "idle" => tunnel # NoTunnel /\ CanResolve(file[tunnel], Domain[tunnel])

\* What is left in the stream, by how far the agent has read.
StreamInv ==
    /\ node = "header" \/ agent = "idle" => stream = <<>>
    /\ agent \in {"accepted", "header"} => stream \in {<<>>, <<"PROXY", "hello">>}
    /\ agent \in {"peek", "route", "dial", "forward", "terminate", "push", "serve", "handshake"} =>
          stream = <<"hello">>
    /\ agent = "dialTcp" => stream = <<"data">>

\* What the agent has found out about the name on its way.
RouteInv ==
    /\ agent \in {"dial", "forward", "terminate", "push", "serve", "handshake", "dialTcp"} => Key # NoMatch
    /\ agent \in {"dial", "forward"} => Found.mode = "passthrough"
    /\ agent = "forward" => backend = Found /\ backend.proxy
    /\ agent \in {"terminate", "push", "serve", "handshake", "dialTcp"} =>
          Found.mode # "passthrough"
    /\ agent \in {"push", "serve"} => TcpKey = NoMatch
    /\ agent \in {"handshake", "dialTcp"} => TcpKey # NoMatch

\* Which sockets a handler can have, by where it is.
SocketInv ==
    /\ node = "idle" => open = {}
    /\ node \in {"peek", "lookup", "dialLocal", "dial"} => "up" \notin open
    /\ node = "done" => open \cap {"visitor", "up"} = {}
    /\ agent \in {"idle", "done"} => open \cap {"in", "to"} = {}
    /\ agent \notin {"forward", "join"} => "to" \notin open

Inv == TypeOK /\ JourneyInv /\ StreamInv /\ RouteInv /\ BackendReads /\ SocketInv

\* What a table has for the visitor's name.
LEMMA KeyTypes ==
    ASSUME TypeOK, JourneyInv, agent # "idle"
    PROVE  /\ host \in Hostname /\ tunnel \in Tunnels /\ DOMAIN Routes(tunnel) \in SUBSET Pattern
           /\ Key # NoMatch => Key \in DOMAIN Routes(tunnel) /\ Found \in Specs /\ Found \in RouteSpec
           /\ TcpKey # NoMatch =>
                 /\ TcpKey \in DOMAIN Routes(tunnel) /\ Routes(tunnel)[TcpKey] \in Specs
                 /\ Routes(tunnel)[TcpKey].mode = "tcp"
           /\ HttpKey # NoMatch =>
                 /\ HttpKey \in DOMAIN Routes(tunnel) /\ Routes(tunnel)[HttpKey] \in Specs
                 /\ Routes(tunnel)[HttpKey].mode = "http"
<1>1. host \in Hostname /\ tunnel \in Tunnels /\ CanResolve(file[tunnel], Domain[tunnel])
      BY DEF JourneyInv, TypeOK
<1>2. /\ DOMAIN Routes(tunnel) \in SUBSET Pattern
      /\ \A k \in DOMAIN Routes(tunnel) : Routes(tunnel)[k] \in Specs /\ Routes(tunnel)[k] \in RouteSpec
      BY <1>1, RoutesOf
<1>3. Key # NoMatch => Key \in DOMAIN Routes(tunnel)
      BY <1>1, <1>2, MatchIsMostSpecific DEF Key
<1>4. \A modes : InMode(tunnel, modes) \in SUBSET Pattern
      BY <1>2 DEF InMode
<1>5. TcpKey # NoMatch => TcpKey \in tcpTargets(tunnel)
      BY <1>1, <1>4, MatchIsMostSpecific DEF TcpKey, tcpTargets
<1>6. HttpKey # NoMatch => HttpKey \in proxies(tunnel)
      BY <1>1, <1>4, MatchIsMostSpecific DEF HttpKey, proxies
<1> QED BY <1>1, <1>2, <1>3, <1>5, <1>6 DEF Found, tcpTargets, proxies, InMode

LEMMA Unmoved ==
    ASSUME UNCHANGED <<file, tunnel, host>>
    PROVE  UNCHANGED <<Key, TcpKey, HttpKey, Found>>
BY DEF Key, TcpKey, HttpKey, Found, Routes, tcpTargets, proxies, InMode

LEMMA AgentFrame ==
    ASSUME AgentStep
    PROVE  AgentOnly /\ agent # "idle" /\ agent' # "idle"
BY DEF AgentStep, AgentGoto, DialTo, isGateway, NotAGateway, ReadHeader, PeekHello, ReadFails,
       FindRoute, NoAgentRoute, DialRoute, ForwardHeader, ForwardFails, TerminateTcp,
       TerminateHttp, Accept, PushRefused, Handshake, DialTcp, serveHTTP, HandleFails,
       AgentJoinEnds

LEMMA HelloSeq ==
    /\ Tail(<<"PROXY", "hello">>) = <<"hello">>
    /\ <<"PROXY">> \o <<"hello">> = <<"PROXY", "hello">>
<1> DEFINE s == <<"PROXY", "hello">>
           t == <<"hello">>
           u == <<"PROXY">>
<1>1. s \in Seq(Items) /\ t \in Seq(Items) /\ u \in Seq(Items)
      BY DEF Items
<1>2. /\ Len(s) = 2 /\ s[1] = "PROXY" /\ s[2] = "hello"
      /\ Len(t) = 1 /\ t[1] = "hello" /\ Len(u) = 1 /\ u[1] = "PROXY"
      OBVIOUS
<1> HIDE DEF s, t, u
<1>3. s # <<>>
      BY <1>1, <1>2, EmptySeq
<1>4. Tail(s) \in Seq(Items) /\ Len(Tail(s)) = 2 - 1 /\ \A i \in 1 .. Len(Tail(s)) : Tail(s)[i] = s[i + 1]
      BY <1>1, <1>2, <1>3, HeadTailProperties
<1>5. Len(Tail(s)) = 1 /\ Tail(s)[1] = s[1 + 1]
      BY <1>4
<1>6. \A i \in 1 .. Len(Tail(s)) : Tail(s)[i] = t[i]
  <2>1. \A i \in 1 .. Len(Tail(s)) : i = 1
        BY <1>5
  <2> QED BY <1>2, <1>5, <2>1
<1>7. Tail(s) = t
      BY <1>1, <1>2, <1>4, <1>5, <1>6, SeqEqual
<1>8. u \o t \in Seq(Items) /\ Len(u \o t) = 2 /\ (u \o t)[1] = "PROXY" /\ (u \o t)[2] = "hello"
  <2>1. /\ u \o t \in Seq(Items) /\ Len(u \o t) = Len(u) + Len(t)
        /\ \A i \in 1 .. Len(u) + Len(t) : (u \o t)[i] = IF i <= Len(u) THEN u[i] ELSE t[i - Len(u)]
        BY ONLY <1>1, ConcatProperties
  <2>2. Len(u) + Len(t) = 2 /\ Len(u) = 1
        BY <1>2
  <2>3. (u \o t)[1] = u[1] /\ (u \o t)[2] = t[2 - 1]
        BY <2>1, <2>2
  <2> QED BY <1>2, <2>1, <2>2, <2>3
<1>9. \A i \in 1 .. Len(s) : (u \o t)[i] = s[i]
      BY <1>2, <1>8
<1>10. u \o t = s
      BY <1>1, <1>2, <1>8, <1>9, SeqEqual
<1> QED BY <1>7, <1>10 DEF s, t, u

LEMMA AgentKeeps ==
    ASSUME Inv, AgentStep
    PROVE  TypeOK' /\ StreamInv' /\ RouteInv' /\ BackendReads' /\ SocketInv'
<1> USE DEF Inv, StreamInv, RouteInv, BackendReads, SocketInv, Close, AgentGoto, AgentAt, Sockets, NodeAt, Items
<1>0. /\ UNCHANGED <<file, table, sessions, gateways, host, node, tunnel, ln>>
      /\ agent # "idle"
      BY AgentFrame DEF AgentOnly, control, nodeVars
<1>1. UNCHANGED <<Key, TcpKey, HttpKey, Found>>
      BY <1>0, Unmoved
<1>2. node \in NodeAt /\ node \notin {"idle", "peek", "lookup", "dialLocal", "dial"} /\ tunnel # NoTunnel
      BY <1>0 DEF TypeOK, JourneyInv
<1>3. ASSUME agent' \in AgentAt \ {"idle"}, open' \subseteq Sockets,
             Len(stream') <= 2, \A i \in DOMAIN stream' : stream'[i] \in Items,
             Len(reads') <= 2, \A i \in DOMAIN reads' : reads'[i] \in Items,
             backend' \in Specs \cup {Local, NoBackend}
      PROVE  TypeOK'
      BY <1>0, <1>2, <1>3 DEF TypeOK
<1>4. /\ open \subseteq Sockets /\ backend \in Specs \cup {Local, NoBackend} /\ agent \in AgentAt
      /\ Len(stream) <= 2 /\ \A i \in DOMAIN stream : stream[i] \in Items
      /\ Len(reads) <= 2 /\ \A i \in DOMAIN reads : reads[i] \in Items
      BY DEF TypeOK
<1>5. CASE isGateway
  <2>1. agent = "accepted" /\ agent' = "header" /\ UNCHANGED <<stream, backend, reads, open>>
        BY <1>5 DEF isGateway
  <2>2. TypeOK'
        BY <1>3, <1>4, <2>1
  <2> QED BY <1>0, <1>1, <1>2, <2>1, <2>2
<1>6. CASE NotAGateway
  <2>1. agent = "accepted" /\ agent' = "done" /\ open' = open \ {"in"} /\ UNCHANGED <<stream, backend, reads>>
        BY <1>6 DEF NotAGateway
  <2>2. TypeOK'
        BY <1>3, <1>4, <2>1
  <2> QED BY <1>0, <1>1, <1>2, <2>1, <2>2
<1>7. CASE ReadHeader
  <2>1. /\ agent = "header" /\ agent' = "peek" /\ stream # <<>> /\ stream' = Tail(stream)
        /\ UNCHANGED <<backend, reads, open>>
        BY <1>7 DEF ReadHeader
  <2>3. stream = <<"PROXY", "hello">> /\ stream' = <<"hello">> /\ node # "header"
        BY <2>1, HelloSeq
  <2>2. TypeOK'
        BY <1>3, <1>4, <2>1, <2>3
  <2> QED BY <1>0, <1>1, <1>2, <2>1, <2>2, <2>3
<1>8. CASE PeekHello
  <2>1. agent = "peek" /\ agent' = "route" /\ UNCHANGED <<stream, backend, reads, open>>
        BY <1>8 DEF PeekHello
  <2>2. TypeOK'
        BY <1>3, <1>4, <2>1
  <2> QED BY <1>0, <1>1, <1>2, <2>1, <2>2
<1>9. CASE ReadFails
  <2>1. agent \in {"header", "peek"} /\ agent' = "done" /\ open' = open \ {"in"} /\ UNCHANGED <<stream, backend, reads>>
        BY <1>9 DEF ReadFails
  <2>2. TypeOK'
        BY <1>3, <1>4, <2>1
  <2> QED BY <1>0, <1>1, <1>2, <2>1, <2>2
<1>10. CASE FindRoute
  <2>1. /\ agent = "route" /\ Key # NoMatch /\ UNCHANGED <<stream, backend, reads, open>>
        /\ agent' = IF Found.mode = "passthrough" THEN "dial" ELSE "terminate"
        BY <1>10 DEF FindRoute, Found
  <2>2. TypeOK'
        BY <1>3, <1>4, <2>1
  <2> QED BY <1>0, <1>1, <1>2, <2>1, <2>2
<1>11. CASE NoAgentRoute
  <2>1. agent = "route" /\ agent' = "done" /\ open' = open \ {"in"} /\ UNCHANGED <<stream, backend, reads>>
        BY <1>11 DEF NoAgentRoute
  <2>2. TypeOK'
        BY <1>3, <1>4, <2>1
  <2> QED BY <1>0, <1>1, <1>2, <2>1, <2>2
<1>12. CASE DialRoute
  <2>1. /\ agent = "dial" /\ open' = open \cup {"to"} /\ backend' = Found /\ UNCHANGED stream
        /\ Found.proxy => agent' = "forward" /\ reads' = <<>>
        /\ ~Found.proxy => agent' = "join" /\ reads' = stream
        BY <1>12 DEF DialRoute, DialTo, Found
  <2>3. Found \in Specs /\ Found.mode = "passthrough" /\ stream = <<"hello">> /\ Found.proxy \in BOOLEAN
        BY <1>0, <2>1, KeyTypes DEF RouteSpec
  <2>4. CASE Found.proxy
    <3>1. TypeOK'
          BY <1>3, <1>4, <2>1, <2>3, <2>4
    <3> QED BY <1>0, <1>1, <1>2, <2>1, <2>3, <2>4, <3>1
  <2>5. CASE ~Found.proxy
    <3>1. TypeOK'
          BY <1>3, <1>4, <2>1, <2>3, <2>5
    <3> QED BY <1>0, <1>1, <1>2, <2>1, <2>3, <2>5, <3>1
  <2> QED BY <2>3, <2>4, <2>5
<1>13. CASE ForwardHeader
  <2>1. agent = "forward" /\ agent' = "join" /\ reads' = <<"PROXY">> \o stream /\ UNCHANGED <<stream, backend, open>>
        BY <1>13 DEF ForwardHeader
  <2>3. reads' = <<"PROXY", "hello">>
        BY <2>1, HelloSeq
  <2>2. TypeOK'
        BY <1>3, <1>4, <2>1, <2>3
  <2> QED BY <1>0, <1>1, <1>2, <2>1, <2>2, <2>3
<1>14. CASE ForwardFails
  <2>1. agent = "forward" /\ agent' = "done" /\ open' = open \ {"in", "to"} /\ UNCHANGED <<stream, backend, reads>>
        BY <1>14 DEF ForwardFails
  <2>2. TypeOK'
        BY <1>3, <1>4, <2>1
  <2> QED BY <1>0, <1>1, <1>2, <2>1, <2>2
<1>15. CASE TerminateTcp
  <2>1. agent = "terminate" /\ agent' = "handshake" /\ TcpKey # NoMatch /\ UNCHANGED <<stream, backend, reads, open>>
        BY <1>15 DEF TerminateTcp, TcpKey
  <2>2. TypeOK'
        BY <1>3, <1>4, <2>1
  <2> QED BY <1>0, <1>1, <1>2, <2>1, <2>2
<1>16. CASE TerminateHttp
  <2>1. agent = "terminate" /\ agent' = "push" /\ TcpKey = NoMatch /\ UNCHANGED <<stream, backend, reads, open>>
        BY <1>16 DEF TerminateHttp, TcpKey
  <2>2. TypeOK'
        BY <1>3, <1>4, <2>1
  <2> QED BY <1>0, <1>1, <1>2, <2>1, <2>2
<1>17. CASE Accept
  <2>1. agent = "push" /\ agent' = "serve" /\ UNCHANGED <<stream, backend, reads, open>>
        BY <1>17 DEF Accept
  <2>2. TypeOK'
        BY <1>3, <1>4, <2>1
  <2> QED BY <1>0, <1>1, <1>2, <2>1, <2>2
<1>18. CASE PushRefused
  <2>1. agent = "push" /\ agent' = "done" /\ open' = open \ {"in"} /\ UNCHANGED <<stream, backend, reads>>
        BY <1>18 DEF PushRefused
  <2>2. TypeOK'
        BY <1>3, <1>4, <2>1
  <2> QED BY <1>0, <1>1, <1>2, <2>1, <2>2
<1>19. CASE Handshake
  <2>1. agent = "handshake" /\ agent' = "dialTcp" /\ stream' = <<"data">> /\ UNCHANGED <<backend, reads, open>>
        BY <1>19 DEF Handshake
  <2>2. TypeOK'
        BY <1>3, <1>4, <2>1
  <2> QED BY <1>0, <1>1, <1>2, <2>1, <2>2
<1>20. CASE DialTcp
  <2>1. /\ agent = "dialTcp" /\ agent' = "join" /\ open' = open \cup {"to"}
        /\ backend' = Routes(tunnel)[TcpKey] /\ reads' = stream /\ UNCHANGED stream
        BY <1>20 DEF DialTcp, DialTo, TcpKey
  <2>3. backend' \in Specs /\ backend'.mode = "tcp" /\ stream = <<"data">>
        BY <1>0, <2>1, KeyTypes
  <2>2. TypeOK'
        BY <1>3, <1>4, <2>1, <2>3
  <2>4. BackendReads'
        BY <2>1, <2>3
  <2>5. SocketInv'
        BY <1>0, <1>2, <2>1
  <2> QED BY <1>0, <1>1, <1>2, <2>1, <2>2, <2>3, <2>4, <2>5
<1>21. CASE serveHTTP
  <2>1. /\ agent = "serve" /\ agent' = "join" /\ open' = open \cup {"to"} /\ HttpKey # NoMatch
        /\ backend' = Routes(tunnel)[HttpKey] /\ reads' = <<"data">> /\ stream' = <<"data">>
        BY <1>21 DEF serveHTTP, DialTo, HttpKey
  <2>3. backend' \in Specs /\ backend'.mode = "http"
        BY <1>0, <2>1, KeyTypes
  <2>2. TypeOK'
        BY <1>3, <1>4, <2>1, <2>3
  <2>4. BackendReads'
        BY <2>1, <2>3
  <2>5. SocketInv'
        BY <1>0, <1>2, <2>1
  <2> QED BY <1>0, <1>1, <1>2, <2>1, <2>2, <2>3, <2>4, <2>5
<1>22. CASE HandleFails
  <2>1. agent \in {"dial", "dialTcp", "handshake", "serve"} /\ agent' = "done" /\ open' = open \ {"in"} /\ UNCHANGED <<stream, backend, reads>>
        BY <1>22 DEF HandleFails
  <2>2. TypeOK'
        BY <1>3, <1>4, <2>1
  <2> QED BY <1>0, <1>1, <1>2, <2>1, <2>2
<1>23. CASE AgentJoinEnds
  <2>1. agent = "join" /\ agent' = "done" /\ open' = open \ {"in", "to"} /\ UNCHANGED <<stream, backend, reads>>
        BY <1>23 DEF AgentJoinEnds
  <2>2. TypeOK'
        BY <1>3, <1>4, <2>1
  <2> QED BY <1>0, <1>1, <1>2, <2>1, <2>2
<1> QED BY <1>5, <1>6, <1>7, <1>8, <1>9, <1>10, <1>11, <1>12, <1>13, <1>14, <1>15, <1>16, <1>17, <1>18, <1>19, <1>20, <1>21, <1>22, <1>23 DEF AgentStep

LEMMA AgentJourney ==
    ASSUME Inv, AgentStep
    PROVE  JourneyInv'
<1>1. /\ UNCHANGED <<file, table, sessions, gateways, host, node, tunnel, ln>>
      /\ agent # "idle" /\ agent' # "idle"
      BY AgentFrame DEF AgentOnly, control, nodeVars
<1> QED BY <1>1 DEF Inv, JourneyInv

\* The node's steps.
LEMMA NodeKeeps ==
    ASSUME Inv, NodeStep
    PROVE  Inv'
<1> USE DEF Inv, NodeGoto, NodeAt, Sockets, Close, NodeOnly, control, agentVars
<1>0. /\ TypeOK /\ JourneyInv /\ StreamInv /\ RouteInv /\ BackendReads /\ SocketInv
      /\ open \subseteq Sockets
      BY DEF TypeOK
\* The agent has not begun, and does not.
<1>1. ASSUME agent = "idle", UNCHANGED <<file, table, sessions, gateways, agent, stream, ln>>,
             backend' \in {backend, Local}, reads' \in {reads, <<"hello">>},
             node' \in NodeAt \ {"header"}, host' \in Hosts \cup {NoHost}, tunnel' \in Tunnels \cup {NoTunnel},
             open' \subseteq Sockets, JourneyInv', SocketInv'
      PROVE  Inv'
  <2>1. Len(<<"hello">>) <= 2 /\ \A i \in DOMAIN <<"hello">> : <<"hello">>[i] \in Items
        BY DEF Items
  <2>2. Len(reads') <= 2 /\ \A i \in DOMAIN reads' : reads'[i] \in Items
        BY <1>1, <2>1 DEF TypeOK
  <2>3. TypeOK'
        BY <1>1, <2>2 DEF TypeOK
  <2>4. StreamInv'
        BY <1>1 DEF StreamInv
  <2>5. RouteInv' /\ BackendReads'
        BY <1>1 DEF RouteInv, BackendReads
  <2> QED BY <1>1, <2>3, <2>4, <2>5
\* What the agent goes by stays.
<1>2. ASSUME UNCHANGED <<file, table, sessions, gateways, host, tunnel, agent, stream, backend, reads, ln>>,
             node \notin {"idle", "peek", "lookup", "dialLocal"},
             node' = "done", open' \subseteq Sockets, SocketInv'
      PROVE  Inv'
  <2>1. UNCHANGED <<Key, TcpKey, HttpKey, Found>>
        BY <1>2, Unmoved
  <2>2. TypeOK'
        BY <1>2 DEF TypeOK
  <2>3. JourneyInv'
        BY <1>2 DEF JourneyInv
  <2>4. StreamInv'
        BY <1>2 DEF StreamInv
  <2>5. RouteInv'
        BY <1>2, <2>1 DEF RouteInv
  <2>6. BackendReads'
        BY <1>2 DEF BackendReads
  <2> QED BY <1>2, <2>2, <2>3, <2>4, <2>5, <2>6
<1>3. CASE Visit
  <2>1. /\ node = "idle" /\ node' = "peek" /\ host' \in Hosts \cup {NoHost} /\ open' = {"visitor"}
        /\ UNCHANGED <<tunnel, file, table, sessions, gateways, agent, stream, backend, reads, ln>>
        BY <1>3 DEF Visit
  <2>2. JourneyInv' /\ SocketInv' /\ agent = "idle"
        BY <1>0, <2>1 DEF JourneyInv, SocketInv
  <2> QED BY <1>1, <2>1, <2>2 DEF TypeOK
<1>4. CASE Peek \/ RouteLocally
  <2>1. /\ UNCHANGED <<host, tunnel, open, file, table, sessions, gateways, agent, stream, backend, reads, ln>>
        /\ host # NoHost /\ node \in {"peek", "lookup"} /\ node' \in {"lookup", "dialLocal"}
        BY <1>0, <1>4 DEF Peek, RouteLocally, JourneyInv
  <2>2. host \in Hosts
        BY <2>1 DEF TypeOK
  <2>3. JourneyInv' /\ SocketInv' /\ agent = "idle"
        BY <1>0, <2>1, <2>2 DEF JourneyInv, SocketInv
  <2> QED BY <1>0, <1>1, <2>1, <2>3 DEF TypeOK
<1>5. CASE PeekFails \/ NoRoute
  <2>1. /\ UNCHANGED <<host, tunnel, file, table, sessions, gateways, agent, stream, backend, reads, ln>>
        /\ node \in {"peek", "lookup"} /\ node' = "done" /\ open' = open \ {"visitor"}
        BY <1>5 DEF PeekFails, NoRoute
  <2>2. JourneyInv' /\ SocketInv' /\ agent = "idle"
        BY <1>0, <2>1 DEF JourneyInv, SocketInv
  <2> QED BY <1>0, <1>1, <2>1, <2>2 DEF TypeOK
<1>6. CASE Route
  <2>1. /\ node = "lookup" /\ node' = "dial" /\ Match(Table, host) # NoMatch
        /\ tunnel' = Owner(Match(Table, host))
        /\ UNCHANGED <<host, open, file, table, sessions, gateways, agent, stream, backend, reads, ln>>
        BY <1>6 DEF Route
  <2>2. host \in Hostname /\ host \in Hosts /\ table \in SUBSET Tunnels
        BY <1>0, <2>1 DEF JourneyInv, TypeOK
  <2>3. tunnel' \in Tunnels /\ Within(host, Domain[tunnel'])
        BY <2>1, <2>2, TableMatch DEF Table
  <2>4. JourneyInv' /\ SocketInv' /\ agent = "idle"
        BY <1>0, <2>1, <2>2, <2>3 DEF JourneyInv, SocketInv
  <2> QED BY <1>0, <1>1, <2>1, <2>2, <2>3, <2>4
<1>7. CASE DialLocal
  <2>1. /\ node = "dialLocal" /\ node' = "join" /\ open' = open \cup {"up"} /\ backend' = Local
        /\ reads' = <<"hello">>
        /\ UNCHANGED <<host, tunnel, file, table, sessions, gateways, agent, stream, ln>>
        BY <1>7 DEF DialLocal
  <2>2. JourneyInv' /\ SocketInv' /\ agent = "idle"
        BY <1>0, <2>1 DEF JourneyInv, SocketInv
  <2> QED BY <1>0, <1>1, <2>1, <2>2 DEF TypeOK
<1>8. CASE Dial
  <2>1. /\ node = "dial" /\ node' = "header" /\ tunnel \in sessions /\ open' = open \cup {"up", "in"}
        /\ agent' = "accepted"
        /\ UNCHANGED <<host, tunnel, file, table, sessions, gateways, stream, backend, reads, ln>>
        BY <1>8 DEF Dial
  <2>2. agent = "idle" /\ tunnel # NoTunnel /\ CanResolve(file[tunnel], Domain[tunnel]) /\ stream = <<>>
        BY <1>0, <2>1 DEF JourneyInv, StreamInv
  <2>3. TypeOK'
        BY <2>1, <2>2 DEF TypeOK, AgentAt
  <2>4. JourneyInv' /\ StreamInv' /\ SocketInv'
        BY <1>0, <2>1, <2>2 DEF JourneyInv, StreamInv, SocketInv
  <2>5. RouteInv' /\ BackendReads'
        BY <2>1 DEF RouteInv, BackendReads
  <2> QED BY <2>3, <2>4, <2>5
<1>9. CASE DialFails
  <2>1. /\ node \in {"dialLocal", "dial"} /\ node' = "done" /\ open' = open \ {"visitor"}
        /\ UNCHANGED <<host, tunnel, file, table, sessions, gateways, agent, stream, backend, reads, ln>>
        BY <1>9 DEF DialFails
  <2>2. JourneyInv' /\ SocketInv' /\ agent = "idle"
        BY <1>0, <2>1 DEF JourneyInv, SocketInv
  <2> QED BY <1>0, <1>1, <2>1, <2>2 DEF TypeOK
<1>10. CASE WriteHeader
  <2>1. /\ node = "header" /\ node' = "join" /\ stream' = <<"PROXY", "hello">>
        /\ UNCHANGED <<host, tunnel, file, table, sessions, gateways, agent, backend, reads, ln, open>>
        BY <1>10 DEF WriteHeader
  <2>2. stream = <<>>
        BY <1>0, <2>1 DEF StreamInv
  <2>3. UNCHANGED <<Key, TcpKey, HttpKey, Found>>
        BY <2>1, Unmoved
  <2>4. Len(stream') <= 2 /\ \A i \in DOMAIN stream' : stream'[i] \in Items
        BY <2>1 DEF Items
  <2>5. TypeOK'
        BY <2>1, <2>4 DEF TypeOK
  <2>6. agent # "idle" /\ StreamInv'
        BY <1>0, <2>1, <2>2 DEF JourneyInv, StreamInv
  <2>7. JourneyInv' /\ SocketInv'
        BY <1>0, <2>1 DEF JourneyInv, SocketInv
  <2>8. RouteInv' /\ BackendReads'
        BY <1>0, <2>1, <2>3 DEF RouteInv, BackendReads
  <2> QED BY <2>5, <2>6, <2>7, <2>8
<1>11. CASE WriteHeaderFails \/ JoinEnds
  <2>1. /\ node \in {"header", "join"} /\ node' = "done" /\ open' = open \ {"visitor", "up"}
        /\ UNCHANGED <<host, tunnel, file, table, sessions, gateways, agent, stream, backend, reads, ln>>
        BY <1>11 DEF WriteHeaderFails, JoinEnds
  <2>2. SocketInv'
        BY <1>0, <2>1 DEF SocketInv
  <2> QED BY <1>0, <1>2, <2>1, <2>2
<1> QED BY <1>3, <1>4, <1>5, <1>6, <1>7, <1>8, <1>9, <1>10, <1>11 DEF NodeStep

\* The tables change under the handlers: other leases, sessions, gateways, and
\* the HTTP server that stops.
TableStep == StoreRoutes \/ ServerStops \/ (\E t \in Tunnels : Session(t))

LEMMA TablesKeep ==
    ASSUME Inv, TableStep
    PROVE  Inv' /\ UNCHANGED <<file, host, node, tunnel, agent, stream, backend, reads, open>>
<1>1. UNCHANGED <<file, host, node, tunnel, agent, stream, backend, reads, open>>
      BY DEF TableStep, Session, StoreRoutes, ServerStops, Listen, setNodes, SessionEnds, nodeVars,
             agentVars, control
<1>2. /\ table' \subseteq Tunnels /\ sessions' \subseteq Tunnels /\ gateways' \subseteq sessions'
      /\ ln' \in {"open", "closing", "closed"}
      /\ \A t \in sessions' : t \in sessions \/ CanResolve(file[t], Domain[t])
  <2>1. CASE StoreRoutes
        BY <2>1 DEF StoreRoutes, Inv, TypeOK
  <2>2. CASE ServerStops
        BY <2>2 DEF ServerStops, Inv, TypeOK, control
  <2>3. ASSUME NEW t \in Tunnels, Session(t)
        PROVE  /\ table' \subseteq Tunnels /\ sessions' \subseteq Tunnels /\ gateways' \subseteq sessions'
               /\ ln' \in {"open", "closing", "closed"}
               /\ \A u \in sessions' : u \in sessions \/ CanResolve(file[u], Domain[u])
        BY <2>3 DEF Session, Listen, setNodes, SessionEnds, Inv, TypeOK
  <2> QED BY <2>1, <2>2, <2>3 DEF TableStep
<1>3. UNCHANGED <<Key, TcpKey, HttpKey, Found>>
      BY <1>1, Unmoved
<1>4. TypeOK'
      BY <1>1, <1>2 DEF Inv, TypeOK
<1>5. JourneyInv'
      BY <1>1, <1>2 DEF Inv, JourneyInv
<1>6. StreamInv' /\ SocketInv'
      BY <1>1 DEF Inv, StreamInv, SocketInv
<1>7. RouteInv' /\ BackendReads'
      BY <1>1, <1>3 DEF Inv, RouteInv, BackendReads
<1> QED BY <1>1, <1>4, <1>5, <1>6, <1>7 DEF Inv

LEMMA Invariant == Spec => []Inv
<1>1. Init => Inv
  <2> SUFFICES ASSUME Init PROVE Inv
      OBVIOUS
  <2>1. stream = <<>> /\ reads = <<>> /\ Len(<<>>) = 0 /\ \A i \in DOMAIN <<>> : FALSE
        BY DEF Init
  <2>2. Len(stream) <= 2 /\ (\A i \in DOMAIN stream : stream[i] \in Items)
        /\ Len(reads) <= 2 /\ (\A i \in DOMAIN reads : reads[i] \in Items)
        BY <2>1
  <2>3. TypeOK
        BY <2>2 DEF Init, TypeOK, NodeAt, AgentAt
  <2>4. JourneyInv /\ StreamInv /\ SocketInv
        BY DEF Init, JourneyInv, StreamInv, SocketInv
  <2>5. RouteInv /\ BackendReads
        BY DEF Init, RouteInv, BackendReads
  <2> QED BY <2>3, <2>4, <2>5 DEF Inv
<1>2. Inv /\ [Next]_vars => Inv'
  <2> SUFFICES ASSUME Inv, [Next]_vars PROVE Inv'
      OBVIOUS
  <2>1. CASE NodeStep
        BY <2>1, NodeKeeps
  <2>2. CASE AgentStep
        BY <2>2, AgentKeeps, AgentJourney DEF Inv
  <2>3. CASE TableStep
        BY <2>3, TablesKeep
  <2>4. CASE UNCHANGED vars
    <3>1. /\ UNCHANGED <<file, table, sessions, gateways, host, node, tunnel, agent, stream, backend,
                         reads, ln, open>>
          BY <2>4 DEF vars, control, nodeVars, agentVars
    <3>2. UNCHANGED <<Key, TcpKey, HttpKey, Found>>
          BY <3>1, Unmoved
    <3> QED BY <3>1, <3>2 DEF Inv, TypeOK, JourneyInv, StreamInv, RouteInv, BackendReads, SocketInv
  <2> QED BY <2>1, <2>2, <2>3, <2>4 DEF Next, TableStep
<1> QED BY <1>1, <1>2, PTL DEF Spec

-----------------------------------------------------------------------------
(* The backend.                                                              *)

\* In no file does a wildcard to tcp:// lie above a route to http://.  Resolve does
\* not check it, and without it RightBackend is false (the run relay_tcp), for
\* terminator.handle asks the table of tcp:// first.
NoTcpAboveHttp ==
    \A f \in Files, t \in Tunnels :
        LET R == Resolve(f, Domain[t])
        IN  CanResolve(f, Domain[t]) =>
                \A k, m \in DOMAIN R :
                    k.star /\ R[k].mode = "tcp" /\ R[m].mode = "http" => ~Under(m.name, k.name)

\* The route the agent is about to dial is a most precise one.
LEMMA DialledIsMostSpecific ==
    ASSUME NoTcpAboveHttp, Inv
    PROVE  LET best == MostSpecific(DOMAIN Routes(tunnel), host)
           IN  /\ agent = "dial" => Key \in best
               /\ agent = "dialTcp" => TcpKey \in best
               /\ agent = "serve" => HttpKey \in best
<1> SUFFICES ASSUME agent \in {"dial", "dialTcp", "serve"}
             PROVE  LET best == MostSpecific(DOMAIN Routes(tunnel), host)
                    IN  /\ agent = "dial" => Key \in best
                        /\ agent = "dialTcp" => TcpKey \in best
                        /\ agent = "serve" => HttpKey \in best
    OBVIOUS
<1> DEFINE table_ == DOMAIN Routes(tunnel)
           best == MostSpecific(table_, host)
<1>1. TypeOK /\ JourneyInv /\ RouteInv /\ agent # "idle"
      BY DEF Inv
<1>2. /\ host \in Hostname /\ tunnel \in Tunnels /\ table_ \in SUBSET Pattern
      /\ Key # NoMatch /\ Key \in table_ /\ Found \in RouteSpec
      BY <1>1, KeyTypes DEF RouteInv
<1>3. Key \in best
      BY <1>2, MatchIsMostSpecific DEF Key
<1>4. /\ tcpTargets(tunnel) \in SUBSET table_ /\ proxies(tunnel) \in SUBSET table_
      /\ tcpTargets(tunnel) \in SUBSET Pattern
      BY <1>2 DEF tcpTargets, proxies, InMode
<1>5. Found.mode \in {"passthrough", "http", "tcp"}
      BY <1>2 DEF RouteSpec
<1>6. ASSUME agent = "dialTcp"
      PROVE  TcpKey \in best
  <2>1. TcpKey # NoMatch /\ Found.mode # "passthrough"
        BY <1>1, <1>6 DEF RouteInv
  <2>2. TcpKey \in tcpTargets(tunnel) /\ Covers(TcpKey, host)
        BY <1>2, <1>4, <2>1, MatchIsMostSpecific DEF TcpKey, MostSpecific
  <2>3. TcpKey \in table_ /\ Routes(tunnel)[TcpKey].mode = "tcp"
        BY <2>2 DEF tcpTargets, InMode
  <2>4. CASE Found.mode = "tcp"
    <3>1. Key \in tcpTargets(tunnel)
          BY <1>2, <2>4 DEF tcpTargets, InMode, Found
    <3> QED BY <1>2, <1>3, <1>4, <3>1, PartMatch DEF TcpKey
  <2>5. CASE Found.mode = "http"
    <3>1. Routes(tunnel)[Key].mode = "http" /\ TcpKey # Key
          BY <2>3, <2>5 DEF Found
    <3>2. TcpKey.star /\ Under(Key.name, TcpKey.name)
          BY <1>2, <1>3, <2>2, <2>3, <3>1, OthersLieAbove
    <3>3. file[tunnel] \in Files /\ CanResolve(file[tunnel], Domain[tunnel])
          BY <1>1, <1>2 DEF TypeOK, JourneyInv
    <3> QED BY <1>2, <2>3, <3>1, <3>2, <3>3 DEF NoTcpAboveHttp, Routes
  <2> QED BY <1>5, <2>1, <2>4, <2>5
<1>7. ASSUME agent = "serve"
      PROVE  HttpKey \in best
  <2>1. TcpKey = NoMatch /\ Found.mode # "passthrough"
        BY <1>1, <1>7 DEF RouteInv
  <2>2. \A k \in tcpTargets(tunnel) : ~Covers(k, host)
        BY <1>2, <1>4, <2>1, MatchIsMostSpecific DEF TcpKey
  <2>3. Found.mode # "tcp"
        BY <1>2, <1>3, <2>2 DEF tcpTargets, InMode, Found, MostSpecific
  <2>4. Key \in proxies(tunnel)
        BY <1>2, <1>5, <2>1, <2>3 DEF proxies, InMode, Found
  <2> QED BY <1>2, <1>3, <1>4, <2>4, PartMatch DEF HttpKey
<1> QED BY <1>3, <1>6, <1>7

LEMMA RightBackendKept ==
    ASSUME NoTcpAboveHttp, Inv, RightBackend, [Next]_vars
    PROVE  RightBackend'
<1> DEFINE best == MostSpecific(DOMAIN Routes(tunnel), host)
<1>1. ASSUME UNCHANGED <<file, host, tunnel>>
      PROVE  UNCHANGED best /\ \A k : UNCHANGED Routes(tunnel)[k]
      BY <1>1 DEF Routes
<1>2. ASSUME UNCHANGED <<file, host, tunnel>>,
             backend' \in {backend, Local} \/ \E k \in best : backend' = Routes(tunnel)[k]
      PROVE  RightBackend'
  <2>1. UNCHANGED best /\ \A k : UNCHANGED Routes(tunnel)[k]
        BY <1>1, <1>2
  <2> HIDE DEF best
  <2>2. CASE backend' = backend
        BY <2>1, <2>2 DEF RightBackend, best
  <2>3. CASE backend' = Local
        BY <2>3 DEF RightBackend
  <2>4. CASE \E k \in best : backend' = Routes(tunnel)[k]
        BY <2>1, <2>4 DEF RightBackend, best
  <2> QED BY <1>2, <2>2, <2>3, <2>4
<1>3. CASE Visit \/ Route
  <2>1. backend = NoBackend
        BY <1>3 DEF Inv, JourneyInv, Visit, Route, NodeGoto
  <2>2. backend' = backend
        BY <1>3 DEF Visit, Route, NodeOnly, agentVars
  <2> QED BY <2>1, <2>2 DEF RightBackend
<1>4. CASE NodeStep /\ ~Visit /\ ~Route
  <2>1. UNCHANGED <<file, host, tunnel>> /\ backend' \in {backend, Local}
        BY <1>4 DEF NodeStep, Peek, PeekFails, RouteLocally, NoRoute, DialLocal, Dial, DialFails,
                    WriteHeader, WriteHeaderFails, JoinEnds, NodeOnly, control, agentVars
  <2> QED BY <1>2, <2>1
<1>5. CASE AgentStep
  <2>1. UNCHANGED <<file, host, tunnel>>
        BY <1>5, AgentFrame DEF AgentOnly, control, nodeVars
  <2>2. /\ DialRoute => agent = "dial" /\ backend' = Routes(tunnel)[Key]
        /\ DialTcp => agent = "dialTcp" /\ backend' = Routes(tunnel)[TcpKey]
        /\ serveHTTP => agent = "serve" /\ backend' = Routes(tunnel)[HttpKey]
        BY DEF DialRoute, DialTcp, serveHTTP, DialTo, TcpKey, HttpKey
  <2>3. CASE DialRoute \/ DialTcp \/ serveHTTP
    <3>1. \E k \in best : backend' = Routes(tunnel)[k]
          BY <2>2, <2>3, DialledIsMostSpecific
    <3> QED BY <1>2, <2>1, <3>1
  <2>4. CASE ~DialRoute /\ ~DialTcp /\ ~serveHTTP
    <3>1. backend' = backend
          BY <1>5, <2>4 DEF AgentStep, isGateway, NotAGateway, ReadHeader, PeekHello, ReadFails,
             FindRoute, NoAgentRoute, ForwardHeader, ForwardFails, TerminateTcp, TerminateHttp,
             Accept, PushRefused, Handshake, HandleFails, AgentJoinEnds
    <3> QED BY <1>2, <2>1, <3>1
  <2> QED BY <2>3, <2>4
<1>6. CASE TableStep
      BY <1>2, <1>6, TablesKeep
<1>7. CASE UNCHANGED vars
      BY <1>2, <1>7 DEF vars, control, nodeVars, agentVars
<1> QED BY <1>3, <1>4, <1>5, <1>6, <1>7 DEF Next, TableStep

-----------------------------------------------------------------------------
(* The theorems.                                                             *)

\* The places of the handlers, the streams and the tables stay within what the
\* code can hold, for any number of tunnels and any files.
THEOREM TypeCorrect == Spec => []TypeOK
<1>1. Inv => TypeOK
      BY DEF Inv
<1> QED BY <1>1, Invariant, PTL

\* The destination the agent dials is that of a most precise route for the name,
\* whichever of its three tables decides, if the files keep to NoTcpAboveHttp.
THEOREM BackendIsRight ==
    ASSUME NoTcpAboveHttp
    PROVE  Spec => []RightBackend
<1>1. Init => RightBackend
      BY DEF Init, RightBackend
<1>2. Inv /\ RightBackend /\ [Next]_vars => RightBackend'
      BY RightBackendKept
<1> QED BY <1>1, <1>2, Invariant, PTL DEF Spec

\* A visitor is sent to a tunnel only if the name it asked for is in the
\* tunnel's domain, however old the node's table is, and no session has a route
\* for a name outside its own domain, whatever its wgrelay.yml says.
THEOREM OnlyOwnTunnel == Spec => []OwnTunnelOnly
<1>1. Inv => OwnTunnelOnly
      BY RoutesOf DEF Inv, TypeOK, JourneyInv, OwnTunnelOnly
<1> QED BY <1>1, Invariant, PTL

\* The backend reads the ClientHello that two Peeks took, once, after one PROXY
\* header if the route has proxy; of a terminated connection, the inside only.
THEOREM BackendReadsTheHello == Spec => []BackendReads
<1>1. Inv => BackendReads
      BY DEF Inv
<1> QED BY <1>1, Invariant, PTL

\* Every return of handleTLS and of handle has closed what it had opened.
THEOREM SocketsAreClosed == Spec => []NoSocketLeft
<1>1. Inv => NoSocketLeft
      BY DEF Inv, SocketInv, NoSocketLeft
<1> QED BY <1>1, Invariant, PTL

\* acmeDNSCreate lets a tunnel answer for a name only if the nodes send the
\* visitors of that name to it: one test walks up the labels, the other looks
\* patterns up, and the two agree for every name and any number of domains.
THEOREM ChallengesAreRouted == Spec => []ChallengesFollowRoutes
BY ChallengesFollow, PTL
=============================================================================
