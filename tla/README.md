# A TLA+ verification of wg-relay

wg-relay publishes services behind NAT. Edge **nodes** with public addresses
accept the visitors' TLS connections, read the SNI and pass them through a
WireGuard tunnel to **agents** at the customers' sites; a **control plane**
(the API over Postgres) says which agent operates which tunnel and which nodes
there are. This directory holds TLA+ models of the parts where the order of
events, lost calls, restarts and stale copies decide whether it works, the TLC
runs that check them, and proofs that TLAPS checks.

Run `tlc -config X.cfg M` for a run of `PROJECT.json` and `tlapm M.tla` for a
module of proofs.

## Inventory

| Part (source) | State | Operations | Modelled in |
|---|---|---|---|
| Lease of a tunnel (`internal/store`, `internal/api`) | rows `token`, `agent_lease` | register, heartbeat, release, rotate-token | `Lease`, `TunnelLock`, `LeaseTiming` |
| Agent session (`internal/agent/agent.go`, `internal/apiclient`) | instance, key of the session, nodes, gateways | `Run`, `session`, `register`, `heartbeat`, `setNodes` | `Lease`, `LeaseTiming` |
| Node configuration (`NodeConfig`, `nodeConfig`) | none: a snapshot of the database | long-poll by version | `NodeSync` |
| Node sync (`internal/node`, `internal/wgnet`) | version, `Net.peers`, the device, routes, zone | `syncLoop`, `apply`, `SetPeers`, restart | `NodeSync` |
| SNI router (`handleTLS`, `internal/sni`, `internal/proxyproto`) | routes, sockets | peek, match, dial, PROXY header, join | `Relay`, `Hostnames` |
| Agent handlers (`handle`, `terminate.go`, `config.go`) | routes, three tables, gateways, the terminator's listener | accept, match, dial, terminate, join, close | `Relay`, `Hostnames` |
| Delegated DNS-01 (`dns01.go`, `acmeDNSCreate`, `acmeDNSDelete`) | ids in the agent, rows `dns_challenge`, external TXT | append, delete | `AcmeDns` |
| Certificate storage (`storage.go`, `storagePut`...) | rows `agent_storage`, locks of the process | Store, Load, Exists, Delete, List, Lock, Unlock | `CertStore`, `Listing` |
| Exported certificates (`exportcert.go`) | two files | export on `cert_obtained` | `CertStore` |
| Pipe (`internal/pipe`) | two sockets | copy, half-close, close | `Pipe`, `Stream`; in `Relay` as a whole |
| DNS of the nodes (`internal/dnsserver`) | zone | `SetZone`, `Answer` | `DnsAnswer` |
| Tunnels, nodes, migrations (`store.go`, `cmd/wgrelay-api`) | accounts, tunnels, tokens, nodes, sequences, schema | `Migrate`, `CreateTunnel`, `RotateToken`, `CreateNode`, `dns sync` | `Registry` |
| DNS providers (`internal/cloudflare`, `dnsprovider`) | none; records outside | `EnsureCNAME`, `CreateTXT`, `DeleteRecord` | `Registry`, `AcmeDns` |
| `auth`, the other programs of `cmd`, e2e | | hashing, flags, test programs | not modelled |

How they interact: agents and nodes call the API over HTTP, with a timeout of
45 s; the API keeps nothing but Postgres (and a rate limiter); nodes learn of
leases only by the long-poll; visitors meet whatever table the node has at the
moment, and whatever session the agent has. certmagic, inside the agent, calls
back into the storage, the DNS provider and the event hook.

What is hard about each: two agents with one token; an API handler that is two
statements with anything in between; a call that is executed after its caller
gave up; a configuration that is applied halfway; a visitor that crosses the
end of a session; a half-close that travels through two pipes; TXT records with
one name; a rotation that makes the stored blobs unreadable; commands that
migrate, create and rotate side by side and stop anywhere. `PROJECT.json` lists these hazards at their lines with the
properties aimed at them.

What makes each part correct: one process operates a tunnel and the nodes
route to the key its device has; a revoked agent ends and a live one comes to
operate; a node reaches the state of the database and never keeps a version it
has not applied; a visitor reaches the backend of the most precise route of
the tunnel that owns the name, with the bytes it sent, and leaves no socket
behind, and hears the end when there is one; a presented TXT is there, and is
answered, until its order ends, and no TXT stays; locks exclude, and the files
of a certificate belong together; the tables agree, and a token that was shown
works.

## The modules

**`TunnelLock`** is what the lease promises: an owner who appears only while
there is none, and can be lost at any time.

**`Lease`** has the token and lease rows, and for every agent process where it
is in `Run`/`session`/`register`/`heartbeat`, its key and the call it waits
for. A handler of the API is three steps: `AuthAgent`, the statement
(`AcquireLease`, `RenewLease`, `ReleaseLease`), and the answer read by the
agent. The agent may stop waiting at any of them (`CallFails`, `Shutdown`,
`Crash`); what the server has not finished then is lost or goes to `late`, up
to `MaxLate` calls. Every session draws a fresh key, every process is a new
instance. `calm` is eventual stability: afterwards no call fails and rows
expire only when their process is gone.

**`LeaseTiming`** relates the durations: the TTL, the interval (which
`interval` shortens while there are no nodes), how long a turn of the loop
takes (up to the 45 s after which the HTTP client gives up) and how many
heartbeats fail in a row. `setNodes`, which is part of a turn, also resolves the
nodes' endpoints; no timeout of the agent's own bounds that.

**`NodeSync`** has the database (the key of each tunnel's live lease, the
challenges, whether the API serves DNS), one long-poll, and the node: the
version, `Net.peers`, the WireGuard device, routes and zone. Leases and
challenges are read by two statements. `SetPeers` compares with `Net.peers`
and hands the device one line after another; a line fails when the device is
full, the one failure that well-formed lines have. The keys such an `IpcSet` had
lines for are `damaged` until an `IpcSet` that ends well has a line for them or
the node restarts. The version is a hash of the content, modelled as the content; the query leaves the order of two values
of one name open, so a node may be sent what it has (`MayReorder`).

**`AcmeDns`** has ACME orders, the `ids` map of the agent, the two handlers,
an external provider and the zone of a node. A provider that answers with an
error may have done what it was asked (`do`). The agent may end and start again
at any step, which forgets `ids` but not the calls under way, and the token may
be rotated, from which moment `AuthAgent` turns the old agent's calls away. The
operator may have a provider, a node with a public address, both or neither. What
else goes wrong is counted, so that properties can say how much damage a failure
does.

**`DnsAnswer`** are pure operators: the map of challenges a node builds,
`normalize`, `Answer`, and `Resolves`, what a resolver of the CA makes of the
answers.

**`CertStore`** has the two blobs (chain and key) of one hostname, processes
with a token each, certmagic jobs that load, lock, issue and store, and the
files on the disk of each process, which the process after it inherits. A
process may end at any step, also between two writes, and its locks with it; one
whose token was replaced may go on. Failed calls were carried out at once or
never are. certmagic is external: its definitions follow from how the agent uses
it, and are marked so in the map. Four variables only record: what a token has
cost the CA (`costs`), whether jobs of two processes were ever under way
together (`met`), what was cut short in the store (`cut`) and on a disk (`torn`).

**`Listing`** is `List`: `starts_with` and `childKeys` over keys as text, where
`/` is one piece of text among others, and beside it what a listing means by
names. `CertStore` applies it to whatever the store has at the moment, and assumes
that the names of its paths have no `/` of their own and are not empty.

**`Hostnames`** are pure operators: `Match`, the routes of a tunnel,
`Resolve`, `validACMEDNSName`, and the reference `MostSpecific`.

**`Relay`** is one visitor's journey through `handleTLS` and `handle`, with
the table, sessions and gateways changing between any two steps. One visitor
is enough because handlers share nothing else; several tunnels are needed,
for one must not get another's visitors. The HTTP `Host` is taken to be the
SNI.

**`Stream`** is what one direction of a joined connection promises, and
**`Pipe`** implements it twice: the visitor, the `Join` of the node, the tunnel,
the `Join` of the agent, the backend. A `Join` is two `copyAndClose` that share
two sockets and know nothing else of each other. TCP is external: a FIN that
waits behind the data, a close with data unread that becomes a reset, a reset
that destroys what was not read yet, a connection that breaks.

**`Registry`** has processes of `wgrelay-api` that migrate and then run a
command each, the tables, the sequences and the CNAMEs of the provider.
Transactions are invisible until they commit and wait for each other at row
locks and unique keys; `nextval` is not taken back. A command that would break
a unique key nothing guards goes to "duplicate", which `NoDuplicateKey`
forbids. A commit, an insert or a correction whose answer is lost has been done,
and its command ends with an error; so does `node create` with a name that is in
use, an error of the operator which the code hands on.

The modules meet at small interfaces: the live rows of `Lease` are `db` of
`NodeSync` (which therefore lets any tunnel change to any fresh key at any
time), its `routes` are `table` of `Relay`, the rows of `AcmeDns` are its
`txts`, `JoinEnds` of `Relay` is a `Join` of `Pipe`, the tokens of `Registry` are those
of `Lease`, whose end of the lease is left out there. `Sync` of `AcmeDns` is the
way from the table to a node in one step; `NodeConverges` is why it may be fair. Each module lets its environment do more than the other module does,
so what is checked holds for the composition.

## Runs

| Run | Bounds | Checks |
|---|---|---|
| `lease` | 2 processes, 4 keys, 1 rotation, no late call, fairness | `TypeOK`, `RefusalsAreTrue`, `KeyAgreement`, `StableOperator`, `RevokedAgentExits`, `RevokedRowFades`, `TunnelGetsOperated` |
| `lease_late` | 2 processes, 5 keys, 1 rotation, 1 late call | `UnauthorizedIsTrue`, `ImplementsLock`, `ServingKeepsRow` |
| `lease_timing` | seconds: TTL 45, every 15, fast 3 and turns up to 45 as in the code; 2 misses in a row, the first beat within 60; a turn over 13 and a first beat after 16 are called slow | `LapsesHaveACause`, `OutageIsBounded` |
| `node_sync` | 2 tunnels, 2 keys, 2 TXT of one name, a device for 1 or 2 peers, fairness | `TypeOK`, `DeviceFollowsPeers`, `VersionIsApplied`, `RoutesFollowPeers`, `UnchangedPeersStay`, `NodeConverges` |
| `acme_dns` | 3 orders, 2 with one name, 1 failure, 3 setups, restarts and rotations at any step, fairness | `PresentedIsStored`, `LeaksNeedFailures`, `PresentedIsAnswered` |
| `cert_store` | 2 processes with 2 and 1 jobs and one disk, ends at any step, 1 rotation, 3 certificates, 1 failure, 2 other keys, fairness | `LocksExclude`, `OneCertificate`, `ExportedTogether`, `ListIsExact`, `WaitersGoOn` |
| `relay` | 2 tunnels, 6 files, 6 names, fairness | `OwnTunnelOnly`, `RightBackend`, `BackendReads`, `NoSocketLeft`, `ChallengesFollowRoutes`, `HandlersEnd` |
| `pipe` | 4 hosts, 2 messages one way, 1 in flight per connection, 1 break, fairness | `ImplementsStreams`, `ConnectionsEnd` |
| `registry` | 3 commands (builds of 1, 2 and 2 migrations), 2 emails, 2 labels and attempts, 2 addresses, 2 gateways, 1 failure or lost answer, fairness | `TablesAgree`, `NoDuplicateKey`, `MigratedInOrder`, `PrintedTokensWork`, `EnsuredNamesResolve`, `CommandsEnd` |

Three more runs, `lease_stale_key`, `cert_store_rotated` and `relay_tcp`, end in a counterexample: see below.

Bounds. Two processes are enough to fight over a row, and the safety properties of
`lease` and `lease_late` are proved for any number; one rotation makes an
old and a new token; one late call is one more than the agents know of, and
the violated `lease_stale_key` shows that it is reached. Keys are reused when
nobody has them any more; there are enough for a fresh one always to exist. Two
tunnels are enough for an address to move, for two of them to swap keys and for
a key to belong to the wrong one. Two orders share a name, the third is apart.
Two jobs of one process wait for each other; the third, of another process,
comes after them or meets them. Relay's names reach the apex, one and two labels
below it, another tunnel, the base and a local route. The chain of `pipe`
has both pipes and both of their neighbours; two messages are one to lose and
one to overtake, and one break is enough since every break ends the chain. In
`registry` two creates and a rotation, or two rotations and a create, or three
migrations meet; the third create finds the pool empty, and with two accounts two
creates are inside their transactions at once and may want one label. The device of
`node_sync` that holds one peer is the one that refuses. The listing is asked for
every directory of every key, with and without the final separator, recursive
and not; one key's name begins with another's. CHECK_DEADLOCK is
FALSE where the system may stop: every process has exited, every order is over,
a visitor has left; `lease_timing`, which never may, has it on. Symmetry is used in `lease_late` only, which checks no liveness.

Fairness. In `Lease` the clock, the server's steps and the agent's own steps
are weakly fair: each is a goroutine that has something to do and no condition
that can be taken from it. Failures, crashes, rotations and starts are never
owed. In `NodeSync` the tick of the long-poll and `syncLoop` are; in `AcmeDns`
only `Sync`. In `Pipe` the copies run and the two ends go on reading, which is
what a peer that is still there does; that they shut or close is not assumed. In
`Registry` a command goes on unless another has what it waits for. In
`CertStore` some job goes on while one can, which is less than the goroutine of
each gives; that a process stops and the 30 s timeout of `Lock` are not owed,
so `WaitersGoOn` says that owners wake their waiters, again and again until
nobody waits. In `Relay` handlers go
on because every wait has a deadline, but for `push`, which is the point of
`HandlersEnd`, and for the copies: that visitors and backends leave in the end
is assumed, since `Join` has no idle timeout. A host that vanishes without a word
is a host that takes no more steps. `Pipe` allows that, and what it says of the
data holds then too; that `ConnectionsEnd` owes a broken connection to both its
sockets is an assumption, for TCP inside the tunnel has no keepalive and a socket
nobody writes to may never learn of it.

## What the code does otherwise

Three runs show what a comment or document says and the code does not do; each
is a `finding` of `PROJECT.json` with the line it quotes.

* `lease_stale_key`: a register executed late puts the key of a dead session
  in the row, and heartbeats, which look at the instance only, keep it there.
* `cert_store_rotated`: after a rotation the agent ends over blobs it cannot
  open.
* `relay_tcp`: a `tcp://` wildcard takes the visitors of a name with an
  `http://` route of its own. The passing run `relay` has wildcards of `http://`
  and `tcp://` above routes of other modes, but not that one.

Other things the models do on purpose, because the code does them:

* rotate-token does not always take the tunnel at once (`store.go:173` says it
  does): a register that has passed `AuthAgent` gives the row back to the old
  token. `RevokedRowFades` says that this ends.
* A release or a register that the server executes late takes the live row of the
  next session of the same process, or gives it an old key: both statements match
  the instance and never look at the key (`store.go:219`, `store.go:249`), and the
  agent gives a release up after 5 s (`agent.go:128`), then registers again with
  the same instance. The log then says that the tunnel goes on while the lease
  does (`agent.go:232`), the next heartbeat that it was superseded.
  `ServingKeepsRow` names these two calls as what a serving process can lose its
  row to, besides rotate-token; nothing else takes it, and without the exception
  TLC finds a late release at `MaxLate = 1`.
* The HTTP client gives up after 45 s, the TTL of the lease: one hung heartbeat
  may cost the lease. `OutageIsBounded` says for how long, 45 s of timeout
  included; `LapsesHaveACause` that nothing but a slow turn, a slow first beat or
  two failures in a row does it.
* An `IpcSet` that fails halfway leaves the device different from `Net.peers`, and
  `SetPeers`, which never asks the device, does not see it. If the next
  configuration is the one `Net.peers` still has (the change was undone), a 304
  or an empty difference keeps it that way. `DeviceFollowsPeers` and
  `VersionIsApplied` therefore leave out the keys of the failed `IpcSet`, until a
  complete one has a line for them or the node restarts: what they say is that the
  damage stays with these keys, and that there is none while the device has room.
* After a lease expires two agents serve until the first has a heartbeat
  answered, and a job goes on when its session, and with it the lease, is gone: the
  process-local lock of `storage.go:185-187` is not protected by the lease as
  the comment there says. With jobs of two processes under way for one hostname
  each may issue, and the blobs and the exported files may be the chain of one
  and the key of the other, without anything failing. `OneCertificate` and
  `ExportedTogether` are about every other history (`~met`): restarts, sessions
  one after another, takeovers from a process that is gone.
* A process whose token was replaced is told by `Exists` that nothing is in the
  store (a 401 is no answer to it), and each of its jobs asks the CA for another
  certificate, which it cannot store. `costs` counts the certificates of jobs
  with the tunnel's token.
* A process that ends between the two `WriteFile` calls, or one of these that
  fails, leaves files that do not belong together or half of them
  (`exportcert.go:121-124`). Nothing looks at them again before the next
  `cert_obtained`; until then the disk is `torn`.
* A lost answer leaves a TXT in `dns_challenge` for ever. So do, at once for every
  order under way, the end of the agent, which keeps the ids in memory only
  (`dns01.go:29`), and a rotation, after which `DeleteRecords` has forgotten the id
  before the API answers 401 (`dns01.go:73`). No code sweeps the table.
  `LeaksNeedFailures` says that nothing else leaks.
* Files are exported on `cert_obtained` only: a server that takes over and
  finds the certificate in the store writes them at the next renewal.
* `apply` calls `SetZone` only when the configuration has a DNS section, so a
  node goes on answering its last zone after the operator disables the DNS,
  until it restarts. `InSync` speaks of the zone only while the DNS is enabled.
* Without a provider the API accepts a challenge as soon as there is a node
  with a public address, whether or not the DNS of the nodes is enabled:
  `PresentedIsAnswered` is about an API and nodes that serve it (`served`).
* A rotation that waited for another one ends with `ErrNotFound`: its DELETE
  found the row it waited for gone and does not see the new one. Nothing is
  wrong then but the message.
* Two commands may both find no CNAME and both create it; the second fails,
  although the record is right.
* A half-closed connection whose other side never ends keeps `Join` and its two
  sockets: `ConnectionsEnd` asks for a cut, or for both ends to have stopped
  writing. A cut is passed on as an error, or as a FIN where the kernel
  delivered one.
* `List("/")` would return nothing, for no key begins with `/`, while
  `List("")` returns all; certmagic asks with the second form. `Stat` sends a
  HEAD, whose 404 has no body, so a key that is missing is an error of another
  kind than `fs.ErrNotExist`; nothing is changed by it and it is not modelled.

## Proofs

`LeaseProofs` is about `Lease` with any instances, keys, number of rotations
and late calls.

* `TypeCorrect`: `TypeOK` is inductive. It says that a process that has begun
  has a key and that calls carry the key of a process.
* `LeaseImplementsLock`: every step maps to `Take`, `Lose` or a stutter. The
  one that could break it is the upsert, which changes the owner of a live row
  only to its own instance; this holds for late calls too (`HandleTakesOrLoses`).
* `RefusedTokensWereReplaced`: `UnauthorizedIsTrue` needs that a call carries
  the token of its process, and that tokens only grow (`TokenInv`).
* `ServingProcessKeepsRow` holds for any number of late calls, and says which of
  them can take the row: the step lemmas go through every writer of the row.
* `SessionsKeepTheirKey`, `RefusalsStayTrue` and `OperatorIsStable` assume
  `MaxLate = 0`, and the run `lease_stale_key` shows that the assumption is
  needed. The invariant `SessionInv` says what the row of a process may be in
  each state of the session: with no late calls, only the call a process waits
  for can write its row, and that call carries the key of the session.

`LeaseTimingProofs` is about `LeaseTiming` with any durations.

* `OutagesAreBounded` assumes nothing. The invariant `Within` bounds the age of
  the row by `Reach`, the longest way to the beat after so many failures, plus
  what the turn has taken; `Timer` says that wait and turn overlap, so that a
  failure costs the longer of the two.
* `LapsesAreCaused` assumes `Budget` of the durations that are not called slow,
  and no more: turns may hang for as long as they like, and the theorem says that
  a lapse then has one of them, or the failures, behind it. It is the same
  `Within`, for `Prompt` and `Early` and as long as nothing was slow. The budget
  is what an operator should read: 15 s and 45 s leave room for one heartbeat that
  fails, if turns end within 15 s.

`RegistryProofs` is about `Registry` with any commands, builds, pools, names and
number of failures, and proves all its safety properties.

* `TypeCorrect`: a command inside a transaction has what the statements before
  drew.
* `SchemaIsComplete` and `KeysNeverCollide` rest on `MigrationInv` (one command
  at most is between the advisory lock and its commit, and what it is about to
  apply is exactly what is missing) and `FlightInv` (every address in a tunnel or
  a transaction is below the sequence, and no two are equal). `NodeInv` says the
  same of gateways. Neither follows from the tables alone: the addresses of
  transactions that have not committed are what two creates would collide on.
* `TablesAlwaysAgree` and `ShownTokensWork` also need that a token is drawn once
  (`FreshInv`: what a command has not committed is in no table) and that two
  rotations that hold the same row do not both get past the DELETE
  (`RotationInv`).
* `EnsuredNamesStay` is an invariant of its own, `EnsureInv`: what an ensureDNS
  no longer has to do is right, and a CNAME that is right stays right.

`NodeSyncProofs` is about `NodeSync` with any tunnels, records and capacities and
any finite set of keys (they have 32 bytes), and proves its safety properties.

* `TypeCorrect` needs that a configuration on its way is a snapshot of leases
  with distinct keys (`PollInv`; `wg_pubkey` is UNIQUE). That is also why no two
  wanted peers claim one address (`WantedApart`).
* `SessionsSurvive` follows from `LinesInv`: the lines that remove are of keys no
  longer wanted, and a key whose line is done has its address. Another line
  could take that address away only if two wanted keys had it (`LineKeeps`).
* `VersionAlwaysApplied` and `NewRoutesLeadToPeers` rest on `VersionInv`, which
  says, for every step of `apply`, which of peers, routes and zone belong to the
  version and which to the configuration being applied, and that the routes are
  always those of `Net.peers`. A wanted tunnel without a route is therefore one
  whose key got a line, and the line is done when `IpcSet` ends
  (`RoutesReached`). None of this assumes that the device has room.
* `DeviceAlwaysFollows`, and the device in `VersionAlwaysApplied`, rest on
  `DeviceInv`, which gives for every key that is not damaged what the device has
  in the middle of an `IpcSet`, from the lines still to do. A refused line damages
  the keys of the whole `IpcSet`, a complete one heals those it had lines for, and
  a device with room for every key refuses none (`RoomyNeverFails`).

`CertStoreProofs` is about `CertStore` with any processes, jobs, keys, rotations
and failures.

* `TypeCorrect` needs `PairInv`: a job that is about to store, write or use a
  pair has one, whether it came from the store before the lock, from the store
  after it, or from the CA.
* `LocksAlwaysExclude`: whoever is between `Lock` and `Unlock` is the owner the
  map of its process names (`LockInv`). A waiter that was woken looks at the map
  again, and a job that timed out never becomes an owner.
* `OneCertificateIsIssued` and `ExportsAreAPair` are about any number of processes
  that end, start and follow each other, as long as no two of them ever had jobs
  under way together; `AloneInv` says that then whoever is inside a lock is alone
  in the whole system, which is what the local lock cannot say by itself.
* `IssueInv` says what a token has cost when something can still be stored, and
  where what was paid for is: in the store, in the hands of the job inside the
  lock, or gone by a failure or an end that is counted (`Paid`, `Slack`).
* `ExportInv` follows the pair from the store through `Load` of the two blobs to
  the two files of a disk: a rotation between the two reads ends in a read that
  fails and not in a mixed pair, whoever is inside the lock is the only one who
  writes the store, and an end between the two writes marks the disk.
* `ListingsAreExact` is about `Listing`, for any set of paths whose names are not
  empty and have no `/` (`NamesAssumption`: certmagic makes its keys so). What
  has to be shown is that a text says which path it came from. The names of a
  path are put together by `FlattenSeq`, a recursive function: that it exists,
  that what it gives for the first texts does not depend on the rest, and that
  one more text is appended, are `FlattenExists`, `FlattensAlike` and
  `FlattenFacts`. `FirstSlash` says that the first `/` is where the first name
  ends, `Decodes` that a text which begins with the text of a directory *and a
  `/`* belongs to a path under that directory, and `Under` what `Rest` and
  `childKeys` make of such a text. The library's induction theorems take an
  operator and cannot be used; `Induction` says the same of a set of numbers,
  and follows from `WFMin` and `NatLessThanWellFounded`.

`AcmeDnsProofs` is about `AcmeDns` with any orders, names, providers and number
of failures.

* `TypeCorrect` and `PresentedStaysStored` rest on `OrderInv`, which says for
  every place of an order what is in `ids`, in the table and at the provider,
  and whose they are. Orders of one name do not disturb each other because a key
  of `ids` has the value in it (`IdsInv`) and a row has an id of its own.
* `LeaksAreCounted`: an order is `Damaged` when its TXT may stay for good.
  `CountInv` says that but for the interrupted orders there are no more of these
  than failures; every handler is shown to damage at most one order, its own, and
  only when it fails or is turned away, and a restart or a rotation only orders
  that it interrupts.

`RelayProofs` is about `Relay` with any tunnels, files and names, and any domains
of which none is within another (`DomainsAssumption`: the subdomain is UNIQUE and
one label, the base the same for all).

* The first part is about `Hostnames`. `MatchIsMostSpecific` says that the loop
  of `Match`, which drops one label at a time, finds a pattern no other one is
  more precise than, and fails only when nothing covers the name: the patterns
  that cover a name are its own and those of its ends, and the ends of a name
  are nested (`EndsNest`, `WithinComparable`).
* `ChallengesAreRouted` compares it with `validACMEDNSName`: if the name of a
  challenge is within the tunnel's domain, something in the table covers it,
  and what `Match` finds belongs to a domain that is comparable with it, so to
  the same tunnel.
* `OnlyOwnTunnel`, `BackendReadsTheHello` and `SocketsAreClosed` follow from one
  invariant: where the two handlers can be together (`JourneyInv`), what is left
  in the stream at each place (`StreamInv`), what the agent knows of the name
  (`RouteInv`) and which sockets it can have (`SocketInv`), while the tables
  change in any way.
* `BackendIsRight` assumes `NoTcpAboveHttp`: no file has a wildcard to `tcp://`
  above a route to `http://`. The run `relay_tcp` shows that the assumption is
  needed. With it the three tables agree: `PartMatch` says that a part of a
  table that has a most precise pattern of the whole finds one, and
  `OthersLieAbove` that whatever else covers the name is a wildcard above it.

`PipeProofs` is about `Pipe` with chains of any length, any amount of data and
any room in the connections.

* `ChainIsStreams`: every step is a step of both streams or a stutter. Its
  invariant `Inv` counts, for each socket, the messages its reader took (`f`).
  `OrderInv` says that an inbox goes on from there without a gap, that a copy
  which can still write has filled the next inbox up to what it took, and that
  an inbox nobody can write to any more may have lost its tail, but only the
  tail. The data a failed copy holds and what a reset destroys are such tails.
* `CalmInv` is about the time before the cut, and is what keeps an end from
  hearing too soon: nothing is reset, no copy fails, a FIN is behind the last
  message of its source, and a socket closes when both directions are over.
  `CalmNeverFails` is the point of `closeWrite`: a half-close by itself never
  makes a copy fail, in any order of the copies of the chain.
* TCP is used through one fact for all that closes, shuts, fails or breaks
  (`Sinks`): sockets go down and inboxes stay, end with a FIN or lose a tail.

Only model-checked: all liveness (TLAPS has no ENABLED). Every safety property of
the passing runs is the statement of a theorem. The type invariants of
`LeaseTiming`, `AcmeDns`, `CertStore`, `Relay`, `Pipe` and `Registry` are in the modules and
in no run; all are proved, that of `LeaseTiming` as the lemma `TimingType`.

The proofs made three things in the models precise: what a constant may be (the
`...Assumption`s that say that "none" is no value, that names have labels, and
that a name of a key has no `/`),
that `RouteSpec` is a set and not a habit, and an order of two cases of
`BackendReads` that both applied to a terminated route with `proxy_protocol`.

## Not modelled

The webhook provider, `auth`, flags and printing of the programs of `cmd`, and
the e2e tests: conversions and calls to services outside the repository. Values
of certificates, of packets and of TLS: the cryptography is taken to work.
Clock skew between API replicas: all times come from Postgres. Operations that
are one statement with nothing to interleave (`SetNodePublicIP`,
`SetNodeEndpoint`, the lists). The listeners of the DNS server, the HTTP
redirector of the node and the certificate of the API itself (`autocert`).

## Plan

1. `NodeSync` with the edge addresses (`dnsActiveNodeIPs`, `TouchNode`,
   `nodeHello`), and the agent's side of `SetPeers` (`setNodes` leaves out a node
   whose endpoint does not resolve).
2. Theorems about the parts added then.
