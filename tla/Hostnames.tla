------------------------------ MODULE Hostnames ------------------------------
(***************************************************************************)
(* Hostnames and the tables they are looked up in: sni.Match, the routes   *)
(* NodeConfig gives a tunnel, agent.Resolve and validACMEDNSName.          *)
(*                                                                         *)
(* A hostname is the sequence of its labels, in lower case; a key of a     *)
(* table is a pattern: "a.b" or the wildcard "*.a.b".                      *)
(***************************************************************************)
LOCAL INSTANCE Naturals
LOCAL INSTANCE Sequences
LOCAL INSTANCE FiniteSets

Exact(h) == [star |-> FALSE, name |-> h]
Star(h)  == [star |-> TRUE,  name |-> h]

\* From label i on.
From(h, i) == SubSeq(h, i, Len(h))

Least(S) == CHOOSE i \in S : \A k \in S : i <= k

NoMatch == [star |-> FALSE, name |-> <<>>]

\* The wildcards of the table that the loop of Match meets, by the label at
\* which their name begins.
WildcardsAt(table, h) == {i \in 2 .. Len(h) : Star(From(h, i)) \in table}

\* Mutant of Match: the wildcards from the shortest on.
MatchShortest(table, h) ==
    LET at == WildcardsAt(table, h)
    IN  IF Exact(h) \in table THEN Exact(h)
        ELSE IF at = {} THEN NoMatch
        ELSE Star(From(h, CHOOSE i \in at : \A k \in at : i >= k))

\* The key of the table that decides on h: h itself, else the wildcards,
\* dropping one label at a time.
Match(table, h) ==
    LET at == WildcardsAt(table, h)
    IN  IF Exact(h) \in table THEN Exact(h)
        ELSE IF at = {} THEN NoMatch
        ELSE Star(From(h, Least(at)))

-----------------------------------------------------------------------------
(* What the tables mean. *)

\* h is d or a name under it.
Within(h, d) == Len(h) >= Len(d) /\ From(h, Len(h) - Len(d) + 1) = d

Under(h, d) == Within(h, d) /\ h # d

Covers(key, h) == IF key.star THEN Under(h, key.name) ELSE h = key.name

\* The keys that no other one makes more precise.
MostSpecific(table, h) ==
    {key \in table :
        /\ Covers(key, h)
        /\ \A other \in table :
              Covers(other, h) => \/ ~key.star
                                  \/ other.star /\ Len(other.name) <= Len(key.name)}

-----------------------------------------------------------------------------
(* The tables of the program. *)

\* Mutant of NodeRoutes: the wildcard of the base domain.
NodeRoutesOfBase(domain) == {Exact(domain), Star(From(domain, 2))}

\* Store.NodeConfig, for a tunnel with a live lease.
NodeRoutes(domain) == {Exact(domain), Star(domain)}

At == "@"

\* Mutant of ResolveHost: names with dots are taken as they are.
ResolveHostAnywhere(h, domain) ==
    IF h.star /\ h.name = <<>> THEN Star(domain)
    ELSE IF h.name = <<At>> THEN (IF h.star THEN NoMatch ELSE Exact(domain))
    ELSE [h EXCEPT !.name = IF Len(h.name) = 1 THEN h.name \o domain ELSE h.name]

\* One host of wgrelay.yml: "*" has no labels of its own; a single label is
\* relative to the domain, "@" is the domain, and several labels must be
\* within it.  NoMatch is the error.
ResolveHost(h, domain) ==
    LET name == IF h.star /\ h.name = <<>> THEN domain
                ELSE IF h.name = <<At>> THEN domain
                ELSE IF Len(h.name) = 1 THEN h.name \o domain
                ELSE h.name
    IN  IF (h.star /\ h.name = <<At>>) \/ ~Within(name, domain)
           THEN NoMatch
           ELSE [star |-> h.star, name |-> name]

\* Resolve fails on an invalid host and on two specs with one name; otherwise
\* every spec has a key of its own.
CanResolve(specs, domain) ==
    /\ \A r \in specs : ResolveHost(r.host, domain) # NoMatch
    /\ \A r, s \in specs :
          ResolveHost(r.host, domain) = ResolveHost(s.host, domain) => r = s

Resolve(specs, domain) ==
    [key \in {ResolveHost(r.host, domain) : r \in specs} |->
        CHOOSE r \in specs : ResolveHost(r.host, domain) = key]

\* Mutant of validACMEDNSName: the base domain is enough.
validACMEDNSNameOfBase(fqdn, domain) ==
    fqdn # <<>> /\ Head(fqdn) = "_acme-challenge" /\ Within(Tail(fqdn), Tail(domain))

validACMEDNSName(fqdn, domain) ==
    /\ fqdn # <<>>
    /\ Head(fqdn) = "_acme-challenge"
    /\ Within(Tail(fqdn), domain)
=============================================================================
