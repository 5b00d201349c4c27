------------------------------- MODULE NodeSync -------------------------------
(***************************************************************************)
(* How one edge node follows the control plane: Store.NodeConfig and the   *)
(* long-poll of internal/api (nodeConfig), the loop syncLoop/apply of      *)
(* internal/node, SetPeers of internal/wgnet over the WireGuard device,    *)
(* and the zone of the node's own DNS.                                     *)
(*                                                                         *)
(* A configuration is the key of the live lease of every tunnel and, when  *)
(* the API serves DNS, the TXT records of the pending challenges.  Its     *)
(* version is a hash of the content, so here the content itself is the     *)
(* version.  The leases and the records are read by two statements, and    *)
(* the database may change between them.                                   *)
(*                                                                         *)
(* "settled" ends the changes and the failures, for the liveness           *)
(* properties.                                                             *)
(***************************************************************************)
EXTENDS Naturals, FiniteSets

CONSTANTS
    Tunnels,    \* tunnels; each has one VPN address and two route hostnames
    Keys,       \* public keys agents register
    Txts,       \* values of ACME challenges, all of one fqdn
    TxtTables,  \* the sets of them that dns_challenge may hold
    Capacities, \* numbers of peers the WireGuard device may accept
    None        \* no live lease, address, DNS section, version or answer

ASSUME CapacitiesAssumption == Capacities \subseteq Nat
ASSUME KeysAssumption == IsFiniteSet(Keys)
ASSUME TxtsAssumption == {} \in TxtTables /\ TxtTables \subseteq SUBSET Txts
ASSUME NoneAssumption  == None \notin Keys \cup Tunnels

Leases  == [Tunnels -> Keys \cup {None}]
Configs == [leases : Leases, dns : TxtTables \cup {None}]

VARIABLES
    db,       \* live leases, in Postgres
    txts,     \* rows of dns_challenge
    dnsOn,    \* the API was started with nameservers (WGRELAY_DNS_NS_NAMES)
    capacity, \* device.MaxPeers
    poll,     \* the node's GET /v1/node/config
    step,     \* where syncLoop is
    cfg,      \* the configuration syncLoop is applying
    version,  \* syncLoop's version
    peers,    \* Net.peers: what SetPeers believes the device has
    dev,      \* the device: its peers, and the tunnel whose address each may use
    lines,    \* lines of the running IpcSet still to do
    routes,   \* tunnels in the routing table
    zone,     \* records the DNS server answers with, None before any SetZone
    damaged,  \* keys a failed IpcSet had lines for, until a complete one has
    settled   \* no more changes or failures

database == <<db, txts, dnsOn, capacity>>
node     == <<step, cfg, version, peers, dev, lines, routes, zone, damaged>>
vars     == <<database, poll, node, settled>>

\* idle: no request; leases: about to read the leases (every tick begins
\* there); records: leases read; answer: a configuration; nothing: a 304 or a
\* failure.
PollPhases == {"idle", "leases", "records", "answer", "nothing"}

\* poll: waiting for the API; the others: inside apply, ipc being SetPeers's
\* call of the device.
Steps == {"poll", "peers", "ipc", "routes", "zone"}

PeerMaps(addresses) == UNION {[K -> addresses] : K \in SUBSET Keys}

TypeOK ==
    /\ db      \in Leases
    /\ txts    \in TxtTables
    /\ dnsOn   \in BOOLEAN
    /\ capacity \in Capacities
    /\ poll    \in [phase : PollPhases, since : Configs \cup {None},
                    cfg : Configs \cup {None}]
    /\ step    \in Steps
    /\ cfg     \in Configs \cup {None}
    /\ version \in Configs \cup {None}
    /\ peers   \in PeerMaps(Tunnels)
    /\ dev     \in PeerMaps(Tunnels \cup {None})
    /\ lines   \in [remove : SUBSET Keys, set : SUBSET Keys]
    /\ routes  \subseteq Tunnels
    /\ zone    \in TxtTables \cup {None}
    /\ damaged \subseteq Keys
    /\ settled \in BOOLEAN

NoPeers == [k \in {} |-> None]
NoLines == [remove |-> {}, set |-> {}]
NoPoll  == [phase |-> "idle", since |-> None, cfg |-> None]
NoAnswer  == [NoPoll EXCEPT !.phase = "nothing"]

NodeInit ==
    /\ step    = "poll"
    /\ cfg     = None
    /\ version = None
    /\ peers   = NoPeers
    /\ dev     = NoPeers
    /\ lines   = NoLines
    /\ routes  = {}
    /\ zone    = None
    /\ damaged = {}

Init ==
    /\ db      = [t \in Tunnels |-> None]
    /\ txts    = {}
    /\ dnsOn   \in BOOLEAN
    /\ capacity \in Capacities
    /\ poll    = NoPoll
    /\ settled = FALSE
    /\ NodeInit

-----------------------------------------------------------------------------
(* The database changes: a session registers a fresh key, or a lease is    *)
(* released, rotated away or expires; a challenge comes or goes; the API   *)
(* is restarted with or without its DNS.                                   *)

LeaseChanges(t) ==
    /\ ~settled
    /\ \E k \in {None} \cup {f \in Keys : \A u \in Tunnels : db[u] # f} :
          db[t] # k /\ db' = [db EXCEPT ![t] = k]
    /\ UNCHANGED <<txts, dnsOn, capacity, poll, node, settled>>

ChallengesChange(table) ==
    /\ ~settled
    /\ table # txts
    /\ txts' = table
    /\ UNCHANGED <<db, dnsOn, capacity, poll, node, settled>>

\* A restart of the API breaks the connection of the long-poll.
ApiRestarts ==
    /\ ~settled
    /\ dnsOn' \in BOOLEAN
    /\ poll' = IF poll.phase = "idle" THEN poll ELSE NoAnswer
    /\ UNCHANGED <<db, txts, capacity, node, settled>>

Settles == ~settled /\ settled' = TRUE /\ UNCHANGED <<database, poll, node>>

-----------------------------------------------------------------------------
(* nodeConfig, in the API. *)

ReadLeases ==
    /\ poll.phase = "leases"
    /\ poll' = [poll EXCEPT !.phase = "records",
                            !.cfg = [leases |-> db, dns |-> None]]
    /\ UNCHANGED <<database, node, settled>>

\* The records complete the leases that were read before them.
Snapshot == [poll.cfg EXCEPT !.dns = IF dnsOn THEN txts ELSE None]

\* The records are ordered by fqdn only: values of one name come in any order,
\* and another order is another version.
MayReorder(snapshot) == snapshot.dns # None /\ Cardinality(snapshot.dns) > 1

\* Mutant of ReadRecords: the version leaves the records out.
ReadRecordsUnversioned ==
    /\ poll.phase = "records"
    /\ IF poll.since = None \/ Snapshot.leases # poll.since.leases
          THEN poll' = [poll EXCEPT !.phase = "answer", !.cfg = Snapshot]
          ELSE poll' = NoAnswer
    /\ UNCHANGED <<database, node, settled>>

\* The snapshot is sent when it differs from what the node has; otherwise the
\* handler waits for the next tick or, at the end of the long-poll, answers 304.
ReadRecords ==
    /\ poll.phase = "records"
    /\ \/ /\ Snapshot # poll.since \/ MayReorder(Snapshot)
          /\ poll' = [poll EXCEPT !.phase = "answer", !.cfg = Snapshot]
       \/ /\ Snapshot = poll.since
          /\ poll' \in {[poll EXCEPT !.phase = "leases", !.cfg = None], NoAnswer}
    /\ UNCHANGED <<database, node, settled>>

\* A database error, or the connection breaks before the answer arrives.
PollFails ==
    /\ ~settled
    /\ poll \notin {NoPoll, NoAnswer}
    /\ poll' = NoAnswer
    /\ UNCHANGED <<database, node, settled>>

-----------------------------------------------------------------------------
(* syncLoop, in the node. *)

SendPoll ==
    /\ step = "poll"
    /\ poll.phase = "idle"
    /\ poll' = [phase |-> "leases", since |-> version, cfg |-> None]
    /\ UNCHANGED <<database, node, settled>>

\* 304 and errors leave the node as it is; syncLoop asks again.
ReceiveNothing ==
    /\ poll = NoAnswer
    /\ poll' = NoPoll
    /\ UNCHANGED <<database, node, settled>>

\* Mutant of ReceiveConfig: apply stores the routes before it sets the peers.
ReceiveConfigRoutesFirst ==
    /\ poll.phase = "answer"
    /\ step' = "peers"
    /\ cfg'  = poll.cfg
    /\ routes' = {t \in Tunnels : poll.cfg.leases[t] # None}
    /\ poll' = NoPoll
    /\ UNCHANGED <<database, version, peers, dev, lines, zone, damaged, settled>>

ReceiveConfig ==
    /\ poll.phase = "answer"
    /\ step' = "peers"
    /\ cfg'  = poll.cfg
    /\ poll' = NoPoll
    /\ UNCHANGED <<database, version, peers, dev, lines, routes, zone, damaged, settled>>

\* Mutant of Wanted: tunnels without a live lease give a peer too.
WantedDeadToo(c) ==
    [k \in {c.leases[t] : t \in Tunnels} |->
        CHOOSE t \in Tunnels : c.leases[t] = k]

\* The peers of a configuration: every live key may use its tunnel's address.
Wanted(c) ==
    [k \in {c.leases[t] : t \in Tunnels} \ {None} |->
        CHOOSE t \in Tunnels : c.leases[t] = k]

Agrees(f, g, k) == k \in DOMAIN f /\ k \in DOMAIN g /\ f[k] = g[k]

\* Mutants of BeginSetPeers: no removals, or the whole set replaced.
BeginAddPeers ==
    /\ step = "peers"
    /\ step' = "ipc"
    /\ lines' = [remove |-> {}, set |-> DOMAIN Wanted(cfg)]
    /\ UNCHANGED <<database, poll, cfg, version, peers, dev, routes, zone, damaged, settled>>

BeginReplacePeers ==
    /\ step = "peers"
    /\ step' = "ipc"
    /\ lines' = [remove |-> DOMAIN peers, set |-> DOMAIN Wanted(cfg)]
    /\ UNCHANGED <<database, poll, cfg, version, peers, dev, routes, zone, damaged, settled>>

\* SetPeers compares the configuration with Net.peers, never with the device,
\* and writes the lines of one IpcSet.
BeginSetPeers ==
    /\ step = "peers"
    /\ step' = "ipc"
    /\ lines' = [remove |-> DOMAIN peers \ DOMAIN Wanted(cfg),
                 set    |-> {k \in DOMAIN Wanted(cfg) : ~Agrees(Wanted(cfg), peers, k)}]
    /\ UNCHANGED <<database, poll, cfg, version, peers, dev, routes, zone, damaged, settled>>

\* The device looks the key of a line up or creates a peer for it, which
\* fails when it is full (device.MaxPeers).
CanFind(k) == k \in DOMAIN dev \/ Cardinality(DOMAIN dev) < capacity

\* The removals come first; inside each group the order is a map's.
NextLine(k) ==
    /\ step = "ipc"
    /\ k \in IF lines.remove # {} THEN lines.remove ELSE lines.set

RemoveLine(k) ==
    /\ NextLine(k) /\ k \in lines.remove
    /\ CanFind(k)
    /\ dev' = [q \in DOMAIN dev \ {k} |-> dev[q]]
    /\ lines' = [lines EXCEPT !.remove = @ \ {k}]
    /\ UNCHANGED <<database, poll, step, cfg, version, peers, routes, zone, damaged, settled>>

\* An address moves to the last key that claims it, and the peer that had it
\* stays without one.
SetLine(k) ==
    /\ NextLine(k) /\ k \in lines.set
    /\ CanFind(k)
    /\ LET t == Wanted(cfg)[k]
       IN  dev' = [q \in DOMAIN dev \cup {k} |->
                      IF q = k THEN t ELSE IF dev[q] = t THEN None ELSE dev[q]]
    /\ lines' = [lines EXCEPT !.set = @ \ {k}]
    /\ UNCHANGED <<database, poll, step, cfg, version, peers, routes, zone, damaged, settled>>

\* The keys this IpcSet has, or had, a line for.
Touched == (DOMAIN peers \ DOMAIN Wanted(cfg)) \cup
           {k \in DOMAIN Wanted(cfg) : ~Agrees(Wanted(cfg), peers, k)}

\* Mutant of LineFails: syncLoop keeps the version it could not apply.
LineFailsVersioned(k) ==
    /\ NextLine(k)
    /\ ~CanFind(k)
    /\ step' = "poll"
    /\ cfg' = None
    /\ lines' = NoLines
    /\ version' = cfg
    /\ damaged' = damaged \cup Touched
    /\ UNCHANGED <<database, poll, peers, dev, routes, zone, settled>>

\* IpcSet stops at the line: what it did stays, Net.peers is not updated, and
\* syncLoop asks again with the version it had.
LineFails(k) ==
    /\ NextLine(k)
    /\ ~CanFind(k)
    /\ step' = "poll"
    /\ cfg' = None
    /\ lines' = NoLines
    /\ damaged' = damaged \cup Touched
    /\ UNCHANGED <<database, poll, version, peers, dev, routes, zone, settled>>

EndSetPeers ==
    /\ step = "ipc"
    /\ lines = NoLines
    /\ peers' = Wanted(cfg)
    /\ damaged' = damaged \ Touched
    /\ step' = "routes"
    /\ UNCHANGED <<database, poll, cfg, version, dev, routes, zone, lines, settled>>

StoreRoutes ==
    /\ step = "routes"
    /\ routes' = {t \in Tunnels : cfg.leases[t] # None}
    /\ step' = "zone"
    /\ UNCHANGED <<database, poll, cfg, version, peers, dev, zone, lines, damaged, settled>>

\* A configuration without a DNS section leaves the zone alone.
SetZone ==
    /\ step = "zone"
    /\ zone' = IF cfg.dns # None THEN cfg.dns ELSE zone
    /\ version' = cfg
    /\ step' = "poll"
    /\ cfg' = None
    /\ UNCHANGED <<database, poll, peers, dev, routes, lines, damaged, settled>>

\* The node keeps nothing on disk: a restart begins from nothing.
NodeRestarts ==
    /\ ~settled
    /\ step'    = "poll"  /\ cfg'   = None    /\ lines'  = NoLines
    /\ version' = None    /\ peers' = NoPeers /\ dev'    = NoPeers
    /\ routes'  = {}      /\ zone'  = None    /\ poll'   = NoPoll
    /\ damaged' = {}
    /\ UNCHANGED <<database, settled>>

-----------------------------------------------------------------------------
Database == \/ ApiRestarts \/ Settles
            \/ \E t \in Tunnels : LeaseChanges(t)
            \/ \E table \in TxtTables : ChallengesChange(table)

Api == ReadLeases \/ ReadRecords \/ PollFails

Apply == \/ BeginSetPeers \/ EndSetPeers \/ StoreRoutes \/ SetZone
         \/ \E k \in Keys : RemoveLine(k) \/ SetLine(k) \/ LineFails(k)

Node == SendPoll \/ ReceiveNothing \/ ReceiveConfig \/ Apply \/ NodeRestarts

Next == Database \/ Api \/ Node

Spec == Init /\ [][Next]_vars

\* The API ticks and syncLoop runs; nothing outside the two is owed.
Fairness == WF_vars(ReadLeases \/ ReadRecords) /\
            WF_vars(SendPoll \/ ReceiveNothing \/ ReceiveConfig \/ Apply)

FairSpec == Spec /\ Fairness

-----------------------------------------------------------------------------
(* Properties. *)

Alike(f, g, k) == k \in DOMAIN f \cup DOMAIN g => Agrees(f, g, k)

\* The device has room for every key.
Roomy == capacity >= Cardinality(Keys)

\* Outside a running IpcSet, Net.peers, which the differences of SetPeers are
\* computed against, is what the device has, whatever addresses and keys moved
\* between tunnels: everywhere while the device refuses no line, and otherwise
\* for every key that no failed IpcSet had a line for since the last complete
\* one that had.  Those the failed one had lines for may differ until then, or
\* until the node restarts: SetPeers does not look at the device.
DeviceFollowsPeers ==
    step # "ipc" =>
        /\ \A k \in Keys \ damaged : Alike(dev, peers, k)
        /\ Roomy => dev = peers

\* The version the node asks with is what the routing table and the zone were
\* last given, and what the device has, but for the keys a failed IpcSet left
\* damaged (wgnet.go:147): a 304 hides nothing else of a configuration that was
\* only half applied.
VersionIsApplied ==
    step = "poll" /\ version # None =>
        /\ peers = Wanted(version)
        /\ \A k \in Keys \ damaged : Alike(dev, Wanted(version), k)
        /\ routes = {t \in Tunnels : version.leases[t] # None}
        /\ version.dns # None => zone = version.dns

\* A route appears only after the peer it leads to: a visitor never finds the
\* way to a tunnel whose agent the device would still refuse.
RoutesFollowPeers ==
    [][\A t \in routes' \ routes : \E k \in DOMAIN dev : dev[k] = t]_vars

\* "los peers que no cambian conservan su sesión" (wgnet.go:118): while a
\* configuration is applied, a key that had the address it is to have is never
\* taken out of the device, not even for a moment.
UnchangedPeersStay ==
    [][step = "ipc" /\ step' = "ipc" =>
          \A k \in DOMAIN dev : Agrees(dev, Wanted(cfg), k) => Agrees(dev', dev, k)]_vars

\* Once the database rests the node reaches it: every live lease is a peer and
\* a route, every other one is neither, and the DNS answers the pending
\* challenges.
InSync ==
    /\ dev = Wanted([leases |-> db, dns |-> None])
    /\ routes = {t \in Tunnels : db[t] # None}
    /\ dnsOn => zone = txts

NodeConverges == (settled /\ Roomy) ~> []InSync
=============================================================================
