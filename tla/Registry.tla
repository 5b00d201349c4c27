------------------------------ MODULE Registry ------------------------------
(***************************************************************************)
(* Processes of wgrelay-api side by side: each migrates the database       *)
(* (Store.Migrate) and then runs its command: serve, tunnel create, tunnel *)
(* rotate-token, node create or dns sync (cmd/wgrelay-api, CreateTunnel,   *)
(* RotateToken, CreateNode, ensureDNS, EnsureCNAME).                       *)
(*                                                                         *)
(* Postgres is external: READ COMMITTED transactions that nobody sees      *)
(* before they commit, whose unique keys and row locks make others wait    *)
(* for their end, and sequences, which no rollback takes back.  A command  *)
(* that would break a unique key nothing guards ends as "duplicate".       *)
(*                                                                         *)
(* A tunnel is named by the command that creates it, a token by the        *)
(* command that draws it.  "failures" counts what goes wrong, up to        *)
(* MaxFailures: an error of the database or the provider, a process that   *)
(* is killed, a commit whose answer is lost.                               *)
(***************************************************************************)
EXTENDS Naturals, FiniteSets

CONSTANTS
    Commands,    \* processes of wgrelay-api
    Build,       \* how many migrations the build of each has
    Emails, Labels, NodeNames,
    PoolSize,    \* addresses of clientPool: 2^(32 - bits)
    MaxGw,       \* MAXVALUE of node_gw_seq
    Attempts,    \* subdomains CreateTunnel tries
    MaxFailures,
    None         \* no email, label or tunnel; and no DNS record

ASSUME BuildAssumption  == Build \in [Commands -> Nat]
ASSUME BoundsAssumption == {PoolSize, MaxGw, Attempts, MaxFailures} \subseteq Nat

VARIABLES
    at,        \* where each command is
    tx,        \* what its transaction or its ensureDNS has so far
    applied,   \* schema_migrations
    accounts, tunnels, tokens, nodes,  \* the tables
    ipSeq, gwSeq,                      \* the next value of each sequence
    provider,  \* there is an external DNS provider
    cnames,    \* its CNAME records: right, wrong or None
    printed,   \* commands that showed their token to the operator
    replaced,  \* tokens a rotation has deleted
    failures

tables  == <<applied, accounts, tunnels, tokens, nodes>>
dns     == <<provider, cnames>>
history == <<printed, replaced>>
vars == <<at, tx, tables, ipSeq, gwSeq, dns, history, failures>>

Phases == {"open", "migrating", "ready", "address", "insert", "token",
           "delete", "newtoken", "lookup", "write", "done", "failed", "duplicate"}

Tunnel == [id : Commands, email : Emails, label : Labels, ip : Nat]
Token  == [tunnel : Commands, token : Commands]

ASSUME NoneAssumption == None \notin Emails \cup Labels \cup Commands \cup Token

\* ensureDNS wants a name and its wildcard for every domain.
DnsNames == Labels \X {"apex", "star"}

Tx == [pending : SUBSET Nat,            \* Migrate: the migrations it applies
       email : Emails \cup {None}, ip : Nat, label : Labels \cup {None},
       tries : Nat,                     \* CreateTunnel
       row : Token \cup {None},         \* RotateToken: the row it deletes
       domains : SUBSET Labels, todo : SUBSET DnsNames]   \* ensureDNS

NoTx == [pending |-> {}, email |-> None, ip |-> 0, label |-> None, tries |-> 0,
         row |-> None, domains |-> {}, todo |-> {}]

TypeOK ==
    /\ at       \in [Commands -> Phases]
    /\ tx       \in [Commands -> Tx]
    /\ \A c \in Commands :
          /\ at[c] \in {"address", "insert", "token"} => tx[c].email # None
          /\ at[c] = "token" => tx[c].label # None
          /\ at[c] \in {"delete", "newtoken"} => tx[c].row # None
    /\ applied  \subseteq Nat
    /\ accounts \subseteq Emails
    /\ tunnels  \subseteq Tunnel
    /\ tokens   \subseteq Token
    /\ nodes    \subseteq [name : NodeNames, gw : 1 .. MaxGw]
    /\ ipSeq \in Nat /\ gwSeq \in 1 .. MaxGw + 1
    /\ provider \in BOOLEAN
    /\ cnames   \in [DnsNames -> {"right", "wrong", None}]
    /\ printed \subseteq Commands /\ replaced \subseteq Commands
    /\ failures \in 0 .. MaxFailures

\* A database whose schema any build has left, and a DNS zone that has none of
\* the records, or those of an edge that has moved.
Init ==
    /\ at       = [c \in Commands |-> "open"]
    /\ tx       = [c \in Commands |-> NoTx]
    /\ applied  = {}
    /\ accounts = {} /\ tunnels = {} /\ tokens = {} /\ nodes = {}
    /\ ipSeq = 2 /\ gwSeq = 1
    /\ provider \in BOOLEAN
    /\ \E r \in {"wrong", None} : cnames = [n \in DnsNames |-> r]
    /\ printed = {} /\ replaced = {}
    /\ failures = 0

Goto(c, from, to) == at[c] = from /\ at' = [at EXCEPT ![c] = to]

End(c, how) == at' = [at EXCEPT ![c] = how] /\ tx' = [tx EXCEPT ![c] = NoTx]

Fails == failures < MaxFailures /\ failures' = failures + 1

\* The command ends its statement or transaction as it should, or its answer is
\* lost and it ends with an error, whatever was done.
Answered(c, how) == \/ End(c, how) /\ UNCHANGED failures
                    \/ End(c, "failed") /\ Fails

\* An error ends the command, and its transaction is rolled back.
CommandFails(c) ==
    /\ at[c] \notin {"done", "failed", "duplicate"}
    /\ Fails
    /\ End(c, "failed")
    /\ UNCHANGED <<tables, ipSeq, gwSeq, dns, history>>

-----------------------------------------------------------------------------
(* Migrate: one transaction under the advisory lock. *)

\* Mutant of MigrateLock: the lock is not taken.
MigrateNoLock(c) ==
    /\ Goto(c, "open", "migrating")
    /\ tx' = [tx EXCEPT ![c].pending = 1 .. Build[c] \ applied]
    /\ UNCHANGED <<tables, ipSeq, gwSeq, dns, history, failures>>

\* What is missing is looked up after the lock.
MigrateLock(c) ==
    /\ \A d \in Commands : at[d] # "migrating"
    /\ Goto(c, "open", "migrating")
    /\ tx' = [tx EXCEPT ![c].pending = 1 .. Build[c] \ applied]
    /\ UNCHANGED <<tables, ipSeq, gwSeq, dns, history, failures>>

\* Mutant of MigrateCommit: a migration that fails is left out.
MigrateCommitSome(c) ==
    /\ at[c] = "migrating"
    /\ \E some \in SUBSET tx[c].pending : applied' = applied \cup some
    /\ End(c, "ready")
    /\ UNCHANGED <<accounts, tunnels, tokens, nodes, ipSeq, gwSeq, dns, history, failures>>

\* A migration that is applied already fails: its tables are there.
MigrateCommit(c) ==
    /\ at[c] = "migrating"
    /\ IF tx[c].pending \cap applied = {}
          THEN applied' = applied \cup tx[c].pending /\ Answered(c, "ready")
          ELSE UNCHANGED <<applied, failures>> /\ End(c, "duplicate")
    /\ UNCHANGED <<accounts, tunnels, tokens, nodes, ipSeq, gwSeq, dns, history>>

-----------------------------------------------------------------------------
(* tunnel create. *)

InTunnelTx(c) == at[c] \in {"address", "insert", "token"}

\* The upsert locks the row of the account until the transaction ends.
UpsertAccount(c, e) ==
    /\ \A d \in Commands : InTunnelTx(d) => tx[d].email # e
    /\ Goto(c, "ready", "address")
    /\ tx' = [tx EXCEPT ![c].email = e]
    /\ UNCHANGED <<tables, ipSeq, gwSeq, dns, history, failures>>

\* The offset is neither the network's nor past the pool.
offsetAddr(off) == off \in 1 .. PoolSize - 1

\* nextval, which no rollback takes back, and offsetAddr.
NextAddress(c) ==
    /\ at[c] = "address"
    /\ ipSeq' = ipSeq + 1
    /\ IF offsetAddr(ipSeq)
          THEN Goto(c, "address", "insert") /\ tx' = [tx EXCEPT ![c].ip = ipSeq]
          ELSE End(c, "failed")
    /\ UNCHANGED <<tables, gwSeq, dns, history, failures>>

\* Another transaction that has the label, or the address, is waited for.
MayInsert(c, l) ==
    \A d \in Commands \ {c} :
        at[d] = "token" => tx[d].label # l /\ tx[d].ip # tx[c].ip

\* Mutant of LabelTaken: the loop has no limit.
LabelTakenForEver(c, l) ==
    /\ at[c] = "insert" /\ MayInsert(c, l)
    /\ \E t \in tunnels : t.label = l
    /\ tx' = [tx EXCEPT ![c].tries = (@ + 1) % Attempts]
    /\ UNCHANGED <<at, tables, ipSeq, gwSeq, dns, history, failures>>

\* ON CONFLICT DO NOTHING: up to Attempts random subdomains are tried.
LabelTaken(c, l) ==
    /\ at[c] = "insert" /\ MayInsert(c, l)
    /\ \E t \in tunnels : t.label = l
    /\ IF tx[c].tries + 1 < Attempts
          THEN tx' = [tx EXCEPT ![c].tries = @ + 1] /\ UNCHANGED at
          ELSE End(c, "failed")
    /\ UNCHANGED <<tables, ipSeq, gwSeq, dns, history, failures>>

InsertTunnel(c, l) ==
    /\ at[c] = "insert" /\ MayInsert(c, l)
    /\ \A t \in tunnels : t.label # l
    /\ IF \E t \in tunnels : t.ip = tx[c].ip
          THEN End(c, "duplicate")
          ELSE Goto(c, "insert", "token") /\ tx' = [tx EXCEPT ![c].label = l]
    /\ UNCHANGED <<tables, ipSeq, gwSeq, dns, history, failures>>

\* The operator is shown the token, if the answer to the commit arrives, and
\* ensureDNS begins.
ShowAndEnsure(c, domains) ==
    \/ /\ printed' = printed \cup {c}
       /\ at' = [at EXCEPT ![c] = IF provider /\ domains # {} THEN "lookup" ELSE "done"]
       /\ tx' = [tx EXCEPT ![c] = [NoTx EXCEPT !.domains = domains,
                                               !.todo = domains \X {"apex", "star"}]]
       /\ UNCHANGED failures
    \/ Fails /\ End(c, "failed") /\ UNCHANGED printed

\* Mutant of CommitTunnel: the row of the token is written after the commit.
CommitTunnelOnly(c) ==
    /\ at[c] = "token"
    /\ accounts' = accounts \cup {tx[c].email}
    /\ tunnels' = tunnels \cup {[id |-> c, email |-> tx[c].email,
                                 label |-> tx[c].label, ip |-> tx[c].ip]}
    /\ IF failures = 0 THEN tokens' = tokens \cup {[tunnel |-> c, token |-> c]}
                       ELSE UNCHANGED tokens
    /\ ShowAndEnsure(c, {tx[c].label})
    /\ UNCHANGED <<applied, nodes, ipSeq, gwSeq, dns, replaced>>

\* The token, and the commit of the four statements.
CommitTunnel(c) ==
    /\ at[c] = "token"
    /\ accounts' = accounts \cup {tx[c].email}
    /\ tunnels' = tunnels \cup {[id |-> c, email |-> tx[c].email,
                                 label |-> tx[c].label, ip |-> tx[c].ip]}
    /\ tokens' = tokens \cup {[tunnel |-> c, token |-> c]}
    /\ ShowAndEnsure(c, {tx[c].label})
    /\ UNCHANGED <<applied, nodes, ipSeq, gwSeq, dns, replaced>>

-----------------------------------------------------------------------------
(* tunnel rotate-token. *)

\* The DELETE finds its row and waits for whoever has it locked.
FindToken(c, row) ==
    /\ row \in tokens
    /\ Goto(c, "ready", "delete")
    /\ tx' = [tx EXCEPT ![c].row = row]
    /\ UNCHANGED <<tables, ipSeq, gwSeq, dns, history, failures>>

\* A row that went away meanwhile is not deleted, and the one that took its
\* place is not seen: ErrNotFound.
DeleteToken(c) ==
    /\ at[c] = "delete"
    /\ \A d \in Commands : at[d] = "newtoken" => tx[d].row # tx[c].row
    /\ IF tx[c].row \in tokens
          THEN Goto(c, "delete", "newtoken") /\ UNCHANGED tx
          ELSE End(c, "failed")
    /\ UNCHANGED <<tables, ipSeq, gwSeq, dns, history, failures>>

\* Mutant of CommitRotation: the token is shown, and the commit may fail.
CommitRotationShownFirst(c) ==
    /\ at[c] = "newtoken"
    /\ \/ /\ tokens' = (tokens \ {tx[c].row})
                          \cup {[tunnel |-> tx[c].row.tunnel, token |-> c]}
          /\ replaced' = replaced \cup {tx[c].row.token}
          /\ UNCHANGED failures
       \/ Fails /\ UNCHANGED <<tokens, replaced>>
    /\ printed' = printed \cup {c}
    /\ End(c, "done")
    /\ UNCHANGED <<applied, accounts, tunnels, nodes, ipSeq, gwSeq, dns>>

\* The new row, the lease's end (see Lease) and the commit.
CommitRotation(c) ==
    /\ at[c] = "newtoken"
    /\ tokens' = (tokens \ {tx[c].row})
                    \cup {[tunnel |-> tx[c].row.tunnel, token |-> c]}
    /\ replaced' = replaced \cup {tx[c].row.token}
    /\ ShowAndEnsure(c, {})
    /\ UNCHANGED <<applied, accounts, tunnels, nodes, ipSeq, gwSeq, dns>>

-----------------------------------------------------------------------------
(* node create: one statement, which has taken its gateway address from the *)
(* sequence when the name turns out to be in use: a name an operator gives  *)
(* twice is an error the code hands on.                                     *)

CreateNode(c, name) ==
    /\ at[c] = "ready"
    /\ gwSeq' = IF gwSeq <= MaxGw THEN gwSeq + 1 ELSE gwSeq
    /\ IF gwSeq <= MaxGw /\ \A n \in nodes : n.name # name
          THEN nodes' = nodes \cup {[name |-> name, gw |-> gwSeq]} /\ Answered(c, "done")
          ELSE UNCHANGED <<nodes, failures>> /\ End(c, "failed")
    /\ UNCHANGED <<applied, accounts, tunnels, tokens, ipSeq, dns, history>>

-----------------------------------------------------------------------------
(* serve, dns sync and ensureDNS. *)

Serve(c) ==
    /\ at[c] = "ready"
    /\ End(c, "done")
    /\ UNCHANGED <<tables, ipSeq, gwSeq, dns, history, failures>>

ListTunnels(c) ==
    /\ provider /\ tunnels # {}
    /\ Goto(c, "ready", "lookup")
    /\ LET domains == {t.label : t \in tunnels}
       IN  tx' = [tx EXCEPT ![c].domains = domains,
                            ![c].todo = domains \X {"apex", "star"}]
    /\ UNCHANGED <<tables, ipSeq, gwSeq, dns, history, failures>>

\* The next name to ensure: the names of a domain together, the domains in
\* some order.
Names(c) == {n \in tx[c].todo : n[2] = "apex" \/ <<n[1], "apex">> \notin tx[c].todo}

Ensured(c, n) ==
    /\ tx' = [tx EXCEPT ![c].todo = @ \ {n}]
    /\ at' = [at EXCEPT ![c] = IF tx[c].todo = {n} THEN "done" ELSE "lookup"]

\* Mutant of LookupCNAME: a record that exists is good enough.
LookupAnyCNAME(c, n) ==
    /\ at[c] = "lookup" /\ n \in Names(c)
    /\ IF cnames[n] # None THEN Ensured(c, n) /\ UNCHANGED cnames
                           ELSE Goto(c, "lookup", "write") /\ UNCHANGED <<tx, cnames>>
    /\ UNCHANGED <<tables, ipSeq, gwSeq, provider, history, failures>>

\* EnsureCNAME asks for the record, and corrects it by its id, or goes on to
\* create it.  The answer to a correction may be lost.  (Nothing deletes a
\* record, and what a correction writes is the same whenever it comes.)
LookupCNAME(c, n) ==
    /\ at[c] = "lookup" /\ n \in Names(c)
    /\ IF cnames[n] = None
          THEN Goto(c, "lookup", "write") /\ UNCHANGED <<tx, cnames, failures>>
          ELSE /\ cnames' = [cnames EXCEPT ![n] = "right"]
               /\ \/ Ensured(c, n) /\ UNCHANGED failures
                  \/ cnames[n] = "wrong" /\ Fails /\ End(c, "failed")
    /\ UNCHANGED <<tables, ipSeq, gwSeq, provider, history>>

\* The provider refuses a second record of the name.  The answer to a record it
\* has created may be lost.
PostCNAME(c, n) ==
    /\ at[c] = "write" /\ n \in Names(c)
    /\ IF cnames[n] = None
          THEN /\ cnames' = [cnames EXCEPT ![n] = "right"]
               /\ \/ Ensured(c, n) /\ UNCHANGED failures
                  \/ Fails /\ End(c, "failed")
          ELSE End(c, "failed") /\ UNCHANGED <<cnames, failures>>
    /\ UNCHANGED <<tables, ipSeq, gwSeq, provider, history>>

-----------------------------------------------------------------------------
Command(c) ==
    \/ MigrateLock(c) \/ MigrateCommit(c) \/ NextAddress(c) \/ CommitTunnel(c)
    \/ DeleteToken(c) \/ CommitRotation(c) \/ Serve(c) \/ ListTunnels(c)
    \/ \E e \in Emails : UpsertAccount(c, e)
    \/ \E l \in Labels : LabelTaken(c, l) \/ InsertTunnel(c, l)
    \/ \E row \in tokens : FindToken(c, row)
    \/ \E name \in NodeNames : CreateNode(c, name)
    \/ \E n \in DnsNames : LookupCNAME(c, n) \/ PostCNAME(c, n)

Next == \E c \in Commands : Command(c) \/ CommandFails(c)

Spec == Init /\ [][Next]_vars

\* A command goes on while nobody has what it waits for.
FairSpec == Spec /\ \A c \in Commands : WF_vars(Command(c))

-----------------------------------------------------------------------------
(* Properties. *)

\* Whatever fails in the middle, the tables agree: every tunnel has an
\* account, an address of the pool that no other tunnel ever gets ("Nunca se
\* reutiliza una IP", 001_init.sql:8) and exactly one token; no account is
\* there without a tunnel; nodes have gateways of their own.
AddressesApart ==
    /\ \A t, u \in tunnels : t.ip = u.ip \/ t.label = u.label => t = u
    /\ \A t \in tunnels : t.ip \in 1 .. PoolSize - 1
    /\ \A n, m \in nodes : n.gw = m.gw \/ n.name = m.name => n = m
OneTokenEach ==
    /\ {r.tunnel : r \in tokens} = {t.id : t \in tunnels}
    /\ \A r, s \in tokens : r.tunnel = s.tunnel \/ r.token = s.token => r = s
TablesAgree == /\ AddressesApart /\ OneTokenEach
               /\ accounts = {t.email : t \in tunnels}

\* No unique key is ever hit that the code does not handle: the sequences, the
\* advisory lock and ON CONFLICT leave nothing to it, however many replicas
\* and commands start at once and whatever was rolled back (Migrate,
\* CreateTunnel).
NoDuplicateKey == \A c \in Commands : at[c] # "duplicate"

\* Migrations are applied in order, without a gap, also when an old build
\* starts after a new one; and no command runs before its own are there.
MigratedInOrder ==
    /\ \A m \in applied : 1 .. m \subseteq applied
    /\ \A c \in Commands :
          at[c] \in Phases \ {"open", "migrating", "failed", "duplicate"} =>
              1 .. Build[c] \subseteq applied

\* A token the operator was shown works until a rotation replaces it, and a
\* replaced one never works again ("el anterior ya no funciona", main.go:276).
PrintedTokensWork ==
    /\ \A c \in printed : c \in replaced \/ \E r \in tokens : r.token = c
    /\ \A r \in tokens : r.token \notin replaced

\* A command that ends well leaves every domain it was about resolvable, name
\* and wildcard, whatever the zone had before and whoever else was at it.
EnsuredNamesResolve ==
    \A c \in Commands :
        at[c] = "done" => \A l \in tx[c].domains, kind \in {"apex", "star"} :
                              provider => cnames[<<l, kind>>] = "right"

\* Commands never wait for each other for ever, and none tries for ever.
CommandsEnd == \A c \in Commands : <>(at[c] \in {"done", "failed"})
=============================================================================
