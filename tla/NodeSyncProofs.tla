---------------------------- MODULE NodeSyncProofs ----------------------------
(* What TLAPS proves of NodeSync, for any tunnels, keys and records.           *)
EXTENDS NodeSync, FiniteSetTheorems, TLAPS

USE CapacitiesAssumption, KeysAssumption, TxtsAssumption, NoneAssumption

-----------------------------------------------------------------------------
(* Configurations.                                                           *)

\* wg_pubkey is UNIQUE: no two tunnels have one key.
Distinct(leases) ==
    \A t, u \in Tunnels : leases[t] = leases[u] /\ leases[t] # None => t = u

Good(c) == c \in Configs /\ Distinct(c.leases)

RoutesOf(c) == {t \in Tunnels : c.leases[t] # None}

\* The tunnels whose address some peer of f may use.
Reached(f) == {t \in Tunnels : \E k \in DOMAIN f : f[k] = t}

\* The keys SetPeers has to write a line for.
Differ(c) == {k \in DOMAIN Wanted(c) : ~Agrees(Wanted(c), peers, k)}

LEMMA WantedFacts ==
    ASSUME NEW c, Good(c)
    PROVE  /\ DOMAIN Wanted(c) \subseteq Keys
           /\ Wanted(c) \in [DOMAIN Wanted(c) -> Tunnels]
           /\ \A t \in Tunnels : c.leases[t] # None =>
                 c.leases[t] \in DOMAIN Wanted(c) /\ Wanted(c)[c.leases[t]] = t
           /\ \A k \in DOMAIN Wanted(c) : c.leases[Wanted(c)[k]] = k
<1>1. c.leases \in [Tunnels -> Keys \cup {None}]
      BY DEF Good, Configs, Leases
<1>2. DOMAIN Wanted(c) = {c.leases[t] : t \in Tunnels} \ {None}
      BY DEF Wanted
<1>3. ASSUME NEW k \in DOMAIN Wanted(c)
      PROVE  Wanted(c)[k] \in Tunnels /\ c.leases[Wanted(c)[k]] = k
  <2>1. PICK t \in Tunnels : c.leases[t] = k
        BY <1>2, <1>3
  <2>2. Wanted(c)[k] = CHOOSE u \in Tunnels : c.leases[u] = k
        BY <1>2, <1>3 DEF Wanted
  <2> QED BY <2>1, <2>2
<1>4. ASSUME NEW t \in Tunnels, c.leases[t] # None
      PROVE  c.leases[t] \in DOMAIN Wanted(c) /\ Wanted(c)[c.leases[t]] = t
  <2>1. c.leases[t] \in DOMAIN Wanted(c)
        BY <1>2, <1>4
  <2>2. Wanted(c)[c.leases[t]] \in Tunnels /\ c.leases[Wanted(c)[c.leases[t]]] = c.leases[t]
        BY <1>3, <2>1
  <2> QED BY <1>4, <2>1, <2>2 DEF Good, Distinct
<1>5. Wanted(c) \in [DOMAIN Wanted(c) -> Tunnels]
      BY <1>3 DEF Wanted
<1> QED BY <1>1, <1>2, <1>3, <1>4, <1>5

\* Two keys are never wanted for one address.
LEMMA WantedApart ==
    ASSUME NEW c, Good(c), NEW k \in DOMAIN Wanted(c), NEW q \in DOMAIN Wanted(c),
           Wanted(c)[k] = Wanted(c)[q]
    PROVE  k = q
BY WantedFacts

LEMMA ReachedByWanted ==
    ASSUME NEW c, Good(c)
    PROVE  Reached(Wanted(c)) = RoutesOf(c)
<1>1. ASSUME NEW t \in Reached(Wanted(c))
      PROVE  t \in RoutesOf(c)
  <2>1. PICK k \in DOMAIN Wanted(c) : Wanted(c)[k] = t
        BY <1>1 DEF Reached
  <2> QED BY <1>1, <2>1, WantedFacts DEF Reached, RoutesOf
<1>2. ASSUME NEW t \in RoutesOf(c)
      PROVE  t \in Reached(Wanted(c))
      BY <1>2, WantedFacts DEF Reached, RoutesOf
<1> QED BY <1>1, <1>2

LEMMA PeerMapIs ==
    ASSUME NEW A, NEW f
    PROVE  f \in PeerMaps(A) <=> DOMAIN f \subseteq Keys /\ f \in [DOMAIN f -> A]
BY DEF PeerMaps

-----------------------------------------------------------------------------
(* What a step may change.                                                   *)

\* Steps that leave the node's variables alone.
Outside == \/ ApiRestarts \/ Settles \/ Api \/ SendPoll \/ ReceiveNothing
           \/ \E t \in Tunnels : LeaseChanges(t)
           \/ \E table \in TxtTables : ChallengesChange(table)

LEMMA OutsideStep ==
    ASSUME Outside
    PROVE  UNCHANGED <<node, capacity>>
BY DEF Outside, Api, ApiRestarts, Settles, ReadLeases, ReadRecords, PollFails, SendPoll,
       ReceiveNothing, LeaseChanges, ChallengesChange, database

\* The steps of apply leave the rest alone.
LEMMA ApplyStep ==
    ASSUME Apply
    PROVE  UNCHANGED <<database, poll, settled>>
BY DEF Apply, BeginSetPeers, EndSetPeers, StoreRoutes, SetZone, RemoveLine, SetLine, LineFails

-----------------------------------------------------------------------------
(* The long-poll, and types.                                                 *)

\* A configuration is a snapshot of leases that are distinct, and only one is
\* on its way: syncLoop does not ask while it applies.
PollInv ==
    /\ Distinct(db)
    /\ poll.phase \in {"records", "answer"} => Good(poll.cfg)
    /\ step # "poll" => poll = NoPoll /\ Good(cfg)

LEMMA OutsideTypes ==
    ASSUME TypeOK, PollInv, Outside
    PROVE  TypeOK'
<1> USE DEF TypeOK
<1>1. UNCHANGED <<node, capacity>>
      BY OutsideStep
<1>2. CASE ApiRestarts \/ PollFails \/ ReceiveNothing
  <2>1. poll' \in {poll, NoPoll, NoAnswer}
        BY <1>2 DEF ApiRestarts, PollFails, ReceiveNothing
  <2>2. poll' \in [phase : PollPhases, since : Configs \cup {None}, cfg : Configs \cup {None}]
        BY <2>1 DEF NoAnswer, NoPoll, PollPhases
  <2>3. dnsOn' \in BOOLEAN /\ UNCHANGED <<db, txts, settled>>
        BY <1>2 DEF ApiRestarts, PollFails, ReceiveNothing, database
  <2> QED BY <1>1, <2>2, <2>3 DEF node
<1>7. CASE Settles
      BY <1>1, <1>7 DEF Settles, node, database
<1>8. CASE SendPoll
      BY <1>1, <1>8 DEF SendPoll, node, database, PollPhases
<1>3. CASE ReadLeases
  <2>1. [leases |-> db, dns |-> None] \in Configs
        BY DEF Configs
  <2> QED BY <1>1, <1>3, <2>1 DEF ReadLeases, node, database, PollPhases
<1>4. CASE ReadRecords
  <2>1. Snapshot \in Configs
        BY <1>4 DEF ReadRecords, Snapshot, PollInv, Good, Configs
  <2> QED BY <1>1, <1>4, <2>1 DEF ReadRecords, node, database, PollPhases, NoAnswer, NoPoll
<1>5. ASSUME NEW t \in Tunnels, LeaseChanges(t)
      PROVE  TypeOK'
      BY <1>1, <1>5 DEF LeaseChanges, Leases, node, database
<1>6. ASSUME NEW table \in TxtTables, ChallengesChange(table)
      PROVE  TypeOK'
      BY <1>1, <1>6 DEF ChallengesChange, node, database
<1> QED BY <1>2, <1>3, <1>4, <1>5, <1>6, <1>7, <1>8 DEF Outside, Api

LEMMA LineTypes ==
    ASSUME TypeOK, NEW k \in Keys, step = "ipc", Good(cfg), lines.set \subseteq DOMAIN Wanted(cfg),
           RemoveLine(k) \/ SetLine(k)
    PROVE  dev' \in PeerMaps(Tunnels \cup {None}) /\ lines' \in [remove : SUBSET Keys, set : SUBSET Keys]
<1>1. DOMAIN dev \subseteq Keys /\ dev \in [DOMAIN dev -> Tunnels \cup {None}]
      BY PeerMapIs DEF TypeOK
<1>2. lines' \in [remove : SUBSET Keys, set : SUBSET Keys]
      BY DEF RemoveLine, SetLine, TypeOK
<1>3. CASE RemoveLine(k)
      BY <1>1, <1>2, <1>3, PeerMapIs DEF RemoveLine
<1>4. CASE SetLine(k)
  <2>1. Wanted(cfg)[k] \in Tunnels
        BY <1>4, WantedFacts DEF SetLine
  <2>2. /\ DOMAIN dev' = DOMAIN dev \cup {k}
        /\ dev' \in [DOMAIN dev \cup {k} -> Tunnels \cup {None}]
        BY <1>1, <1>4, <2>1 DEF SetLine
  <2>3. DOMAIN dev' \subseteq Keys /\ dev' \in [DOMAIN dev' -> Tunnels \cup {None}]
        BY <1>1, <2>2
  <2> QED BY <1>2, <2>3, PeerMapIs
<1> QED BY <1>3, <1>4

LEMMA PollStep ==
    ASSUME TypeOK, PollInv, Next
    PROVE  PollInv'
<1> USE DEF PollInv, NoPoll, NoAnswer
<1>1. ASSUME NEW t \in Tunnels, LeaseChanges(t)
      PROVE  PollInv'
  <2>1. PICK k \in {None} \cup {f \in Keys : \A u \in Tunnels : db[u] # f} :
           db' = [db EXCEPT ![t] = k]
        BY <1>1 DEF LeaseChanges
  <2>2. Distinct(db')
        BY <2>1 DEF Distinct, TypeOK, Leases
  <2> QED BY <1>1, <2>2 DEF LeaseChanges, node
<1>2. CASE ReadLeases
  <2>1. [leases |-> db, dns |-> None] \in Configs
        BY DEF Configs, TypeOK
  <2>2. Good([leases |-> db, dns |-> None])
        BY <2>1 DEF Good
  <2> QED BY <1>2, <2>2 DEF ReadLeases, node, database, TypeOK
<1>3. CASE ReadRecords
  <2>1. Good(poll.cfg) /\ step = "poll"
        BY <1>3 DEF ReadRecords
  <2>2. Good(Snapshot)
    <3>1. Snapshot \in Configs /\ Snapshot.leases = poll.cfg.leases
          BY <2>1 DEF Snapshot, Good, Configs, TypeOK
    <3> QED BY <2>1, <3>1 DEF Good
  <2>3. \/ poll' = [poll EXCEPT !.phase = "answer", !.cfg = Snapshot]
        \/ poll' = [poll EXCEPT !.phase = "leases", !.cfg = None]
        \/ poll' = NoAnswer
        BY <1>3 DEF ReadRecords
  <2> QED BY <1>3, <2>1, <2>2, <2>3 DEF ReadRecords, node, database, TypeOK
<1>4. CASE ReceiveConfig
      BY <1>4 DEF ReceiveConfig, database
<1>5. CASE Apply
  <2>1. step # "poll" /\ UNCHANGED <<database, poll>>
        BY <1>5, ApplyStep DEF Apply, BeginSetPeers, EndSetPeers, StoreRoutes, SetZone,
              RemoveLine, SetLine, LineFails, NextLine
  <2>2. step' # "poll" => cfg' = cfg
        BY <1>5 DEF Apply, BeginSetPeers, EndSetPeers, StoreRoutes, SetZone,
              RemoveLine, SetLine, LineFails
  <2> QED BY <2>1, <2>2 DEF database
<1>6. CASE NodeRestarts
      BY <1>6 DEF NodeRestarts, database
<1>7. CASE ApiRestarts
      BY <1>7 DEF ApiRestarts, node
<1>8. CASE Settles \/ \E table \in TxtTables : ChallengesChange(table)
      BY <1>8 DEF Settles, ChallengesChange, node, database
<1>9. CASE PollFails \/ SendPoll \/ ReceiveNothing
      BY <1>9 DEF PollFails, SendPoll, ReceiveNothing, node, database
<1> QED BY <1>1, <1>2, <1>3, <1>4, <1>5, <1>6, <1>7, <1>8, <1>9 DEF Next, Database, Api, Node

-----------------------------------------------------------------------------
(* The lines of an IpcSet.                                                   *)

\* While the device runs them, only keys that are not wanted are removed, and
\* a key whose line is done has the address it is to have.
LinesInv ==
    step = "ipc" =>
        /\ lines.remove \subseteq DOMAIN peers \ DOMAIN Wanted(cfg)
        /\ lines.set \subseteq Differ(cfg)
        /\ \A k \in Differ(cfg) \ lines.set : k \in DOMAIN dev /\ dev[k] = Wanted(cfg)[k]

\* No line takes the address of a key that has the one it is to have.
LEMMA LineKeeps ==
    ASSUME TypeOK, PollInv, LinesInv, NEW k \in Keys, RemoveLine(k) \/ SetLine(k),
           NEW q \in DOMAIN Wanted(cfg), q \in DOMAIN dev, dev[q] = Wanted(cfg)[q]
    PROVE  q \in DOMAIN dev' /\ dev'[q] = Wanted(cfg)[q]
<1>1. step = "ipc" /\ Good(cfg)
      BY DEF RemoveLine, SetLine, NextLine, PollInv
<1>2. CASE RemoveLine(k)
  <2>1. k # q
        BY <1>1, <1>2 DEF RemoveLine, LinesInv
  <2> QED BY <1>2, <2>1 DEF RemoveLine
<1>3. CASE SetLine(k)
  <2>1. k \in DOMAIN Wanted(cfg)
        BY <1>1, <1>3 DEF SetLine, LinesInv, Differ
  <2>2. k # q => Wanted(cfg)[k] # Wanted(cfg)[q]
        BY <1>1, <2>1, WantedApart
  <2>3. Wanted(cfg)[q] # None
        BY <1>1, WantedFacts
  <2> QED BY <1>3, <2>1, <2>2 DEF SetLine
<1> QED BY <1>2, <1>3

\* The key of a line that is done has the address it is to have.
LEMMA LineSets ==
    ASSUME NEW k \in Keys, SetLine(k)
    PROVE  k \in DOMAIN dev' /\ dev'[k] = Wanted(cfg)[k]
BY DEF SetLine

LEMMA LinesStep ==
    ASSUME TypeOK, PollInv, LinesInv, Next
    PROVE  LinesInv'
<1>1. CASE Outside
      BY <1>1, OutsideStep DEF node, LinesInv, Differ
<1>2. CASE BeginSetPeers
      BY <1>2 DEF BeginSetPeers, LinesInv, Differ
<1>3. ASSUME NEW k \in Keys, RemoveLine(k) \/ SetLine(k)
      PROVE  LinesInv'
  <2>1. UNCHANGED <<step, cfg, peers>> /\ step = "ipc" /\ lines' \in [remove : SUBSET lines.remove, set : SUBSET lines.set]
        BY <1>3 DEF RemoveLine, SetLine, NextLine, TypeOK
  <2>2. lines.set \ lines'.set \subseteq {k}
        BY <1>3 DEF RemoveLine, SetLine, TypeOK
  <2>3. ASSUME NEW q \in Differ(cfg) \ lines'.set
        PROVE  q \in DOMAIN dev' /\ dev'[q] = Wanted(cfg)[q]
    <3>1. CASE q \in lines.set
      <4>1. q = k /\ SetLine(k)
            BY <1>3, <2>2, <2>3, <3>1 DEF RemoveLine, SetLine, TypeOK
      <4> QED BY <4>1, LineSets
    <3>2. CASE q \notin lines.set
      <4>1. q \in DOMAIN Wanted(cfg) /\ q \in DOMAIN dev /\ dev[q] = Wanted(cfg)[q]
            BY <2>1, <2>3, <3>2 DEF LinesInv, Differ
      <4> QED BY <1>3, <4>1, LineKeeps
    <3> QED BY <3>1, <3>2
  <2>4. lines'.remove \subseteq DOMAIN peers \ DOMAIN Wanted(cfg) /\ lines'.set \subseteq Differ(cfg)
        BY <2>1 DEF LinesInv
  <2>5. Differ(cfg)' = Differ(cfg) /\ Wanted(cfg)' = Wanted(cfg)
        BY <2>1 DEF Differ
  <2> QED BY <2>1, <2>3, <2>4, <2>5 DEF LinesInv
<1>4. ASSUME ReceiveConfig \/ NodeRestarts \/ EndSetPeers \/ StoreRoutes \/ SetZone
             \/ \E k \in Keys : LineFails(k)
      PROVE  LinesInv'
  <2>1. step' # "ipc"
        BY <1>4 DEF ReceiveConfig, NodeRestarts, EndSetPeers, StoreRoutes, SetZone, LineFails
  <2> QED BY <2>1 DEF LinesInv
<1> QED BY <1>1, <1>2, <1>3, <1>4 DEF Next, Database, Api, Node, Apply, Outside

LEMMA TypeStep ==
    ASSUME TypeOK, PollInv, LinesInv, Next
    PROVE  TypeOK'
<1>1. CASE Outside
      BY <1>1, OutsideTypes
<1>2. CASE ReceiveConfig
  <2>1. poll' \in [phase : PollPhases, since : Configs \cup {None}, cfg : Configs \cup {None}]
        BY <1>2 DEF ReceiveConfig, NoPoll, PollPhases
  <2> QED BY <1>2, <2>1 DEF ReceiveConfig, TypeOK, Steps, database
<1>3. ASSUME Apply
      PROVE  TypeOK'
  <2>1. step # "poll" /\ UNCHANGED <<database, poll, settled>>
        BY <1>3, ApplyStep DEF Apply, BeginSetPeers, EndSetPeers, StoreRoutes, SetZone,
              RemoveLine, SetLine, LineFails, NextLine
  <2>2. cfg \in Configs /\ Good(cfg)
        BY <2>1 DEF PollInv, Good
  <2>3. cfg.dns \in TxtTables \cup {None}
        BY <2>2 DEF Configs
  <2>4. DOMAIN Wanted(cfg) \subseteq Keys /\ Wanted(cfg) \in PeerMaps(Tunnels)
        BY <2>2, WantedFacts, PeerMapIs
  <2>5. DOMAIN peers \subseteq Keys
        BY PeerMapIs DEF TypeOK
  <2>6. CASE BeginSetPeers
        BY <2>1, <2>4, <2>5, <2>6 DEF BeginSetPeers, TypeOK, Steps, database
  <2>7. CASE EndSetPeers
        BY <2>1, <2>4, <2>7 DEF EndSetPeers, TypeOK, Steps, database
  <2>8. CASE StoreRoutes
        BY <2>1, <2>8 DEF StoreRoutes, TypeOK, Steps, database
  <2>9. CASE SetZone
        BY <2>1, <2>2, <2>3, <2>9 DEF SetZone, TypeOK, Steps, database
  <2>10. ASSUME NEW k \in Keys, RemoveLine(k) \/ SetLine(k)
         PROVE  TypeOK'
    <3>1. step = "ipc" /\ lines.set \subseteq DOMAIN Wanted(cfg)
          BY <2>10 DEF RemoveLine, SetLine, NextLine, LinesInv, Differ
    <3>2. dev' \in PeerMaps(Tunnels \cup {None}) /\ lines' \in [remove : SUBSET Keys, set : SUBSET Keys]
          BY <2>2, <2>10, <3>1, LineTypes
    <3> QED BY <2>1, <2>10, <3>2 DEF RemoveLine, SetLine, TypeOK, database
  <2>12. Touched \subseteq Keys
         BY <2>4, <2>5 DEF Touched
  <2>11. ASSUME NEW k \in Keys, LineFails(k)
         PROVE  TypeOK'
         BY <2>1, <2>11, <2>12 DEF LineFails, TypeOK, Steps, NoLines, database
  <2> QED BY <1>3, <2>6, <2>7, <2>8, <2>9, <2>10, <2>11 DEF Apply
<1>4. CASE NodeRestarts
  <2>1. NoPeers \in PeerMaps(Tunnels) /\ NoPeers \in PeerMaps(Tunnels \cup {None})
        BY PeerMapIs DEF NoPeers
  <2> QED BY <1>4, <2>1 DEF NodeRestarts, TypeOK, Steps, database, NoPoll, NoLines, PollPhases
<1> QED BY <1>1, <1>2, <1>3, <1>4 DEF Next, Database, Api, Node, Outside

-----------------------------------------------------------------------------
(* What the version stands for.                                              *)

\* The configuration of the version is applied until the next one replaces it
\* part by part: peers, then routes, then zone.  The routes always lead to
\* Net.peers, or, between the two, to what the device has.
VersionInv ==
    /\ step \in {"poll", "peers", "ipc"} => routes = Reached(peers)
    /\ step \in {"poll", "peers", "ipc"} /\ version # None => peers = Wanted(version)
    /\ step \in {"poll", "peers", "ipc", "routes"} /\ version # None => routes = RoutesOf(version)
    /\ version # None /\ version.dns # None => zone = version.dns
    /\ step \in {"routes", "zone"} => peers = Wanted(cfg)
    /\ step = "routes" => RoutesOf(cfg) \ routes \subseteq Reached(dev)
    /\ step = "zone" => routes = RoutesOf(cfg)

\* When IpcSet ends, a wanted tunnel without a route has a peer in the device.
LEMMA RoutesReached ==
    ASSUME TypeOK, PollInv, LinesInv, VersionInv, EndSetPeers
    PROVE  RoutesOf(cfg) \ routes \subseteq Reached(dev)
<1>1. step = "ipc" /\ Good(cfg) /\ lines.set = {} /\ routes = Reached(peers)
      BY DEF EndSetPeers, PollInv, NoLines, VersionInv
<1>2. SUFFICES ASSUME NEW t \in RoutesOf(cfg), t \notin Reached(peers)
               PROVE  t \in Reached(dev)
      BY <1>1
<1> DEFINE k == cfg.leases[t]
<1>3. k \in DOMAIN Wanted(cfg) /\ Wanted(cfg)[k] = t
      BY <1>1, WantedFacts DEF RoutesOf
<1>4. k \in Differ(cfg)
      BY <1>2, <1>3 DEF Differ, Agrees, Reached, RoutesOf
<1>5. k \in DOMAIN dev /\ dev[k] = t
      BY <1>1, <1>3, <1>4 DEF LinesInv
<1> QED BY <1>5 DEF Reached, RoutesOf

LEMMA VersionStep ==
    ASSUME TypeOK, PollInv, LinesInv, VersionInv, Next
    PROVE  VersionInv'
<1> USE DEF Reached, RoutesOf
<1>1. CASE Outside
      BY <1>1, OutsideStep DEF node, VersionInv
<1>2. CASE ReceiveConfig
  <2>1. step = "poll"
        BY <1>2 DEF ReceiveConfig, PollInv, NoPoll, TypeOK, Steps
  <2> QED BY <1>2, <2>1 DEF ReceiveConfig, VersionInv
<1>3. CASE BeginSetPeers
      BY <1>3 DEF BeginSetPeers, VersionInv
<1>4. ASSUME NEW k \in Keys, RemoveLine(k) \/ SetLine(k) \/ LineFails(k)
      PROVE  VersionInv'
  <2>1. step = "ipc" /\ step' \in {"poll", "ipc"} /\ UNCHANGED <<peers, routes, version, zone>>
        BY <1>4 DEF RemoveLine, SetLine, LineFails, NextLine
  <2> QED BY <2>1 DEF VersionInv
<1>5. CASE EndSetPeers
  <2>1. RoutesOf(cfg) \ routes \subseteq Reached(dev)
        BY <1>5, RoutesReached
  <2>2. Wanted(cfg)' = Wanted(cfg)
        BY <1>5 DEF EndSetPeers
  <2> QED BY <1>5, <2>1, <2>2 DEF EndSetPeers, VersionInv
<1>6. CASE StoreRoutes
      BY <1>6 DEF StoreRoutes, VersionInv
<1>7. CASE SetZone
  <2>1. Good(cfg) /\ peers = Wanted(cfg) /\ routes = RoutesOf(cfg)
        BY <1>7 DEF SetZone, PollInv, VersionInv
  <2>2. Reached(peers) = RoutesOf(cfg)
        BY <2>1, ReachedByWanted
  <2> QED BY <1>7, <2>1, <2>2 DEF SetZone, VersionInv
<1>8. CASE NodeRestarts
      BY <1>8 DEF NodeRestarts, VersionInv, NoPeers
<1> QED BY <1>1, <1>2, <1>3, <1>4, <1>5, <1>6, <1>7, <1>8
        DEF Next, Database, Api, Node, Apply, Outside

-----------------------------------------------------------------------------
(* What the device has.                                                      *)

\* Between two IpcSets the device has what Net.peers says of every key that is
\* not damaged.  While one runs that is so of the keys without a line; a key to
\* remove whose line is done is gone, and one to set is as wanted (LinesInv).
\* Nothing is damaged while the device has room.
DeviceInv ==
    /\ step # "ipc" => \A k \in Keys \ damaged : Alike(dev, peers, k)
    /\ step = "ipc" =>
          /\ \A k \in Keys \ (damaged \cup Touched) : Alike(dev, peers, k)
          /\ \A k \in (DOMAIN peers \ DOMAIN Wanted(cfg)) \ lines.remove : k \notin DOMAIN dev
    /\ Roomy => damaged = {}

\* A device with room for every key never refuses a line.
LEMMA RoomyNeverFails ==
    ASSUME TypeOK, Roomy, NEW k \in Keys
    PROVE  CanFind(k)
<1>1. DOMAIN dev \subseteq Keys
      BY PeerMapIs DEF TypeOK
<1>2. CASE k \notin DOMAIN dev
  <2>1. DOMAIN dev \subseteq Keys \ {k} /\ IsFiniteSet(Keys \ {k})
        BY <1>1, <1>2, FS_Subset
  <2>2. /\ Cardinality(DOMAIN dev) \in Nat
        /\ Cardinality(Keys \ {k}) \in Nat
        /\ Cardinality(DOMAIN dev) <= Cardinality(Keys \ {k})
        BY <2>1, FS_Subset, FS_CardinalityType
  <2>3. Cardinality(Keys) \in Nat /\ Cardinality(Keys \ {k}) = Cardinality(Keys) - 1
        BY FS_RemoveElement, FS_CardinalityType
  <2>4. capacity \in Nat
        BY DEF TypeOK
  <2> QED BY <2>2, <2>3, <2>4 DEF CanFind, Roomy
<1> QED BY <1>2 DEF CanFind

\* A line leaves alone a key that has none.
LEMMA LineSpares ==
    ASSUME TypeOK, PollInv, LinesInv, DeviceInv, NEW k \in Keys, RemoveLine(k) \/ SetLine(k),
           NEW q \in Keys \ (damaged \cup Touched)
    PROVE  Alike(dev', peers, q)
<1>1. step = "ipc" /\ Alike(dev, peers, q) /\ k \in Touched
      BY DEF RemoveLine, SetLine, NextLine, DeviceInv, LinesInv, Differ, Touched
<1>2. CASE q \in DOMAIN peers
  <2>1. q \in DOMAIN Wanted(cfg) /\ Agrees(Wanted(cfg), peers, q)
        BY <1>2 DEF Touched
  <2>2. q \in DOMAIN dev /\ dev[q] = peers[q] /\ dev[q] = Wanted(cfg)[q]
        BY <1>1, <1>2, <2>1 DEF Alike, Agrees
  <2>3. q \in DOMAIN dev' /\ dev'[q] = Wanted(cfg)[q]
        BY <2>1, <2>2, LineKeeps
  <2> QED BY <1>2, <2>2, <2>3 DEF Alike, Agrees
<1>3. CASE q \notin DOMAIN peers
  <2>1. q \notin DOMAIN dev /\ q # k
        BY <1>1, <1>3 DEF Alike, Agrees
  <2>2. q \notin DOMAIN dev'
        BY <2>1 DEF RemoveLine, SetLine
  <2> QED BY <1>3, <2>2 DEF Alike, Agrees
<1> QED BY <1>2, <1>3

\* When IpcSet ends, the keys it had lines for are right, damaged or not.
LEMMA EndIsRight ==
    ASSUME TypeOK, LinesInv, DeviceInv, EndSetPeers,
           NEW k \in Keys, k \notin damaged \/ k \in Touched
    PROVE  Alike(dev, Wanted(cfg), k)
<1>1. step = "ipc" /\ lines.set = {} /\ lines.remove = {}
      BY DEF EndSetPeers, NoLines
<1>2. CASE k \in Differ(cfg)
  <2>1. k \in DOMAIN Wanted(cfg) /\ k \in DOMAIN dev /\ dev[k] = Wanted(cfg)[k]
        BY <1>1, <1>2 DEF LinesInv, Differ
  <2> QED BY <2>1 DEF Alike, Agrees
<1>3. CASE k \in DOMAIN peers \ DOMAIN Wanted(cfg)
      BY <1>1, <1>3 DEF DeviceInv, Alike, Agrees
<1>4. CASE k \notin Touched
  <2>1. Alike(dev, peers, k)
        BY <1>1, <1>4 DEF DeviceInv
  <2>2. Alike(peers, Wanted(cfg), k)
        BY <1>4 DEF Touched, Alike, Agrees
  <2> QED BY <2>1, <2>2 DEF Alike, Agrees
<1> QED BY <1>2, <1>3, <1>4 DEF Touched, Differ

LEMMA DeviceStep ==
    ASSUME TypeOK, PollInv, LinesInv, DeviceInv, Next
    PROVE  DeviceInv'
<1>0. capacity' = capacity
      BY OutsideStep, ApplyStep DEF Next, Database, Api, Node, Outside, ReceiveConfig,
         NodeRestarts, database
<1>1. Roomy' = Roomy
      BY <1>0 DEF Roomy
<1>2. CASE Outside
      BY <1>1, <1>2, OutsideStep DEF node, DeviceInv, Touched, Alike, Agrees
<1>3. CASE ReceiveConfig
  <2>1. step = "poll"
        BY <1>3 DEF ReceiveConfig, PollInv, NoPoll, TypeOK, Steps
  <2> QED BY <1>1, <1>3, <2>1 DEF ReceiveConfig, DeviceInv, Alike, Agrees
<1>4. CASE BeginSetPeers
  <2>1. step = "peers" /\ step' = "ipc" /\ UNCHANGED <<dev, peers, cfg, damaged>>
        BY <1>4 DEF BeginSetPeers
  <2>2. lines'.remove = DOMAIN peers \ DOMAIN Wanted(cfg)
        BY <1>4 DEF BeginSetPeers
  <2>3. Wanted(cfg)' = Wanted(cfg)
        BY <2>1
  <2>4. \A k \in Keys \ (damaged \cup Touched) : Alike(dev, peers, k)
        BY <2>1 DEF DeviceInv
  <2>5. \A k \in Keys \ (damaged \cup Touched)' : Alike(dev, peers, k)'
        BY <2>1, <2>3, <2>4 DEF Touched, Alike, Agrees
  <2> QED BY <1>1, <2>1, <2>2, <2>3, <2>5 DEF DeviceInv
<1>5. ASSUME NEW k \in Keys, RemoveLine(k) \/ SetLine(k)
      PROVE  DeviceInv'
  <2>1. UNCHANGED <<step, cfg, peers, damaged>> /\ step = "ipc"
        BY <1>5 DEF RemoveLine, SetLine, NextLine
  <2>2. Wanted(cfg)' = Wanted(cfg)
        BY <2>1
  <2>3. Touched' = Touched
        BY <2>1, <2>2 DEF Touched, Agrees
  <2>4. \A q \in Keys \ (damaged \cup Touched) : Alike(dev', peers, q)
        BY <1>5, LineSpares
  <2>5. \A q \in Keys \ (damaged \cup Touched)' : Alike(dev, peers, q)'
        BY <2>1, <2>3, <2>4 DEF Alike, Agrees
  <2>6. ASSUME NEW q \in (DOMAIN peers \ DOMAIN Wanted(cfg)) \ lines'.remove
        PROVE  q \notin DOMAIN dev'
    <3>1. CASE RemoveLine(k)
          BY <2>1, <2>6, <3>1 DEF RemoveLine, DeviceInv, TypeOK
    <3>2. CASE SetLine(k)
          BY <2>1, <2>6, <3>2 DEF SetLine, DeviceInv, TypeOK, LinesInv, Differ
    <3> QED BY <1>5, <3>1, <3>2
  <2> QED BY <1>1, <2>1, <2>2, <2>5, <2>6 DEF DeviceInv
<1>6. ASSUME NEW k \in Keys, LineFails(k)
      PROVE  DeviceInv'
  <2>1. step = "ipc" /\ step' = "poll" /\ UNCHANGED <<dev, peers>> /\ damaged' = damaged \cup Touched
        BY <1>6 DEF LineFails, NextLine
  <2>2. ~Roomy
        BY <1>6, RoomyNeverFails DEF LineFails
  <2>3. \A q \in Keys \ damaged' : Alike(dev, peers, q)'
        BY <2>1 DEF DeviceInv, Alike, Agrees
  <2> QED BY <1>1, <2>1, <2>2, <2>3 DEF DeviceInv
<1>7. CASE EndSetPeers
  <2>1. /\ step = "ipc" /\ step' = "routes" /\ dev' = dev /\ peers' = Wanted(cfg)
        /\ damaged' = damaged \ Touched
        BY <1>7 DEF EndSetPeers
  <2>2. \A k \in Keys \ damaged' : Alike(dev, Wanted(cfg), k)
        BY <1>7, <2>1, EndIsRight
  <2>3. \A k \in Keys \ damaged' : Alike(dev, peers, k)'
        BY <2>1, <2>2 DEF Alike, Agrees
  <2> QED BY <1>1, <2>1, <2>3 DEF DeviceInv
<1>8. CASE StoreRoutes \/ SetZone
      BY <1>1, <1>8 DEF StoreRoutes, SetZone, DeviceInv, Alike, Agrees
<1>9. CASE NodeRestarts
      BY <1>9 DEF NodeRestarts, DeviceInv, Alike, NoPeers
<1> QED BY <1>2, <1>3, <1>4, <1>5, <1>6, <1>7, <1>8, <1>9
        DEF Next, Database, Api, Node, Apply, Outside

-----------------------------------------------------------------------------
(* The theorems.                                                             *)

IInv == TypeOK /\ PollInv /\ LinesInv /\ VersionInv /\ DeviceInv

LEMMA InitIInv == Init => IInv
<1> SUFFICES ASSUME Init PROVE IInv
    OBVIOUS
<1>1. TypeOK
  <2>1. NoPeers \in PeerMaps(Tunnels) /\ NoPeers \in PeerMaps(Tunnels \cup {None})
        BY PeerMapIs DEF NoPeers
  <2> QED BY <2>1 DEF Init, NodeInit, TypeOK, Leases, NoPoll, NoLines, PollPhases, Steps
<1>2. PollInv
      BY DEF Init, NodeInit, PollInv, NoPoll, Distinct
<1>3. LinesInv
      BY DEF Init, NodeInit, LinesInv
<1>4. VersionInv
      BY DEF Init, NodeInit, VersionInv, NoPeers, Reached
<1>5. DeviceInv
      BY DEF Init, NodeInit, DeviceInv, Alike, NoPeers
<1> QED BY <1>1, <1>2, <1>3, <1>4, <1>5 DEF IInv

LEMMA NextIInv == IInv /\ [Next]_vars => IInv'
<1> SUFFICES ASSUME IInv, [Next]_vars PROVE IInv'
    OBVIOUS
<1>1. CASE Next
      BY <1>1, TypeStep, PollStep, LinesStep, VersionStep, DeviceStep DEF IInv
<1>2. CASE UNCHANGED vars
      BY <1>2 DEF vars, database, node, IInv, TypeOK, PollInv, LinesInv, VersionInv, DeviceInv,
         Roomy, Differ, Touched, Alike, Agrees, Reached, RoutesOf
<1> QED BY <1>1, <1>2

LEMMA IInvHolds == Spec => []IInv
BY InitIInv, NextIInv, PTL DEF Spec

\* Type correctness: a configuration in flight is a snapshot of the leases
\* (Store.NodeConfig), and what SetPeers builds from it are peers.
THEOREM TypeCorrect == Spec => []TypeOK
<1>1. IInv => TypeOK
      BY DEF IInv
<1> QED BY <1>1, IInvHolds, PTL

\* What the device has, whenever no IpcSet runs, is what Net.peers says, so that
\* the differences SetPeers computes are complete: for any number of tunnels and
\* keys, in any order of the lines, and for every key that no failed IpcSet left
\* damaged; none is while the device has room for every key.
THEOREM DeviceAlwaysFollows == Spec => []DeviceFollowsPeers
<1>1. ASSUME TypeOK, DeviceInv, step # "ipc", Roomy
      PROVE  dev = peers
  <2>1. \A k \in Keys : Alike(dev, peers, k)
        BY <1>1 DEF DeviceInv
  <2>2. /\ DOMAIN dev \subseteq Keys /\ dev \in [DOMAIN dev -> Tunnels \cup {None}]
        /\ DOMAIN peers \subseteq Keys /\ peers \in [DOMAIN peers -> Tunnels]
        BY <1>1, PeerMapIs DEF TypeOK
  <2>3. DOMAIN dev = DOMAIN peers
        BY <2>1, <2>2 DEF Alike, Agrees
  <2>4. \A k \in DOMAIN dev : dev[k] = peers[k]
        BY <2>1, <2>2 DEF Alike, Agrees
  <2> QED BY <2>2, <2>3, <2>4
<1>2. IInv => DeviceFollowsPeers
      BY <1>1 DEF IInv, DeviceInv, DeviceFollowsPeers
<1> QED BY <1>2, IInvHolds, PTL

\* The version of the next poll stands for what was applied (syncLoop keeps it
\* only when apply returns nil): the routes, the zone and, but for the keys a
\* failed IpcSet left damaged, the device itself.
THEOREM VersionAlwaysApplied == Spec => []VersionIsApplied
<1>1. ASSUME IInv, step = "poll", version # None
      PROVE  peers = Wanted(version) /\ \A k \in Keys \ damaged : Alike(dev, Wanted(version), k)
  <2>1. peers = Wanted(version)
        BY <1>1 DEF IInv, VersionInv
  <2>2. \A k \in Keys \ damaged : Alike(dev, peers, k)
        BY <1>1 DEF IInv, DeviceInv
  <2> QED BY <2>1, <2>2
<1>2. IInv => VersionIsApplied
      BY <1>1 DEF IInv, VersionInv, VersionIsApplied, RoutesOf
<1> QED BY <1>2, IInvHolds, PTL

\* apply stores the routing table after SetPeers, never before: whatever the
\* device refused, a new route leads to a peer it has.
THEOREM NewRoutesLeadToPeers == Spec => RoutesFollowPeers
<1> DEFINE A == \A t \in routes' \ routes : \E k \in DOMAIN dev : dev[k] = t
<1>1. ASSUME IInv, [Next]_vars
      PROVE  A
  <2>1. CASE StoreRoutes
    <3>1. RoutesOf(cfg) \ routes \subseteq Reached(dev)
          BY <1>1, <2>1 DEF IInv, VersionInv, StoreRoutes
    <3>2. routes' = RoutesOf(cfg)
          BY <2>1 DEF StoreRoutes, RoutesOf
    <3> QED BY <3>1, <3>2 DEF Reached
  <2>2. CASE NodeRestarts
        BY <2>2 DEF NodeRestarts
  <2>3. CASE ReceiveConfig \/ BeginSetPeers \/ EndSetPeers \/ SetZone
             \/ \E k \in Keys : RemoveLine(k) \/ SetLine(k) \/ LineFails(k)
        BY <2>3 DEF ReceiveConfig, BeginSetPeers, EndSetPeers, SetZone, RemoveLine, SetLine, LineFails
  <2>4. CASE Outside \/ UNCHANGED vars
        BY <2>4, OutsideStep DEF node, vars
  <2> QED BY <1>1, <2>1, <2>2, <2>3, <2>4 DEF Next, Database, Api, Node, Apply, Outside
<1>2. IInv /\ [Next]_vars => [A]_vars
      BY <1>1
<1> QED BY <1>2, IInvHolds, PTL DEF Spec, RoutesFollowPeers

\* "los peers que no cambian conservan su sesión" (wgnet.go): no line of an
\* IpcSet takes out, or takes the address of, a key that has the one it is to
\* have, even when the addresses of others move.
THEOREM SessionsSurvive == Spec => UnchangedPeersStay
<1> DEFINE A == step = "ipc" /\ step' = "ipc" =>
                  \A k \in DOMAIN dev : Agrees(dev, Wanted(cfg), k) => Agrees(dev', dev, k)
<1>1. ASSUME IInv, [Next]_vars, step = "ipc", step' = "ipc",
             NEW k \in DOMAIN dev, Agrees(dev, Wanted(cfg), k)
      PROVE  Agrees(dev', dev, k)
  <2>1. ASSUME NEW q \in Keys, RemoveLine(q) \/ SetLine(q)
        PROVE  Agrees(dev', dev, k)
        BY <1>1, <2>1, LineKeeps DEF IInv, Agrees
  <2>2. CASE Outside \/ UNCHANGED vars
        BY <2>2, OutsideStep DEF node, vars, Agrees
  <2>3. ~(ReceiveConfig \/ BeginSetPeers \/ EndSetPeers \/ StoreRoutes \/ SetZone \/ NodeRestarts
          \/ \E q \in Keys : LineFails(q))
        BY <1>1 DEF ReceiveConfig, BeginSetPeers, EndSetPeers, StoreRoutes, SetZone, NodeRestarts, LineFails
  <2> QED BY <1>1, <2>1, <2>2, <2>3 DEF Next, Database, Api, Node, Apply, Outside
<1>2. IInv /\ [Next]_vars => [A]_vars
      BY <1>1
<1> QED BY <1>2, IInvHolds, PTL DEF Spec, UnchangedPeersStay
=============================================================================
