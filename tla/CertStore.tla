------------------------------ MODULE CertStore ------------------------------
(***************************************************************************)
(* Where the agents of one tunnel keep the certificate of one hostname:    *)
(* the storage of internal/agent over the API's opaque key-value store     *)
(* (Store, Load, Exists, Delete; storagePut, storageGet, storageDelete),   *)
(* its process-local Lock, and the files exportOnEvent writes for a route  *)
(* with export_cert.                                                       *)
(*                                                                         *)
(* certmagic is external.  Each of its jobs loads the key and the chain;   *)
(* asks for a certificate when Load says fs.ErrNotExist, and only then;    *)
(* does so between Lock and Unlock, after looking again with Exists;       *)
(* stores the key and the chain, and reports "cert_obtained".  A process   *)
(* has several jobs for a hostname: they outlive the session that began    *)
(* them, the storage and its locks are the process's.                      *)
(*                                                                         *)
(* A process is one run of the agent: it may end at any moment, and the    *)
(* next one is another process, with the same disk if it has the same      *)
(* volume.  The lease says which process registers, and is not here: the   *)
(* row may pass on at any moment, and the jobs live as long as their       *)
(* process (newTerminator and newExporter give them its ctx).              *)
(*                                                                         *)
(* A blob is sealed with a key derived from the token, so it carries the   *)
(* token's generation.  What goes wrong is counted in "failures"; a call   *)
(* that fails was carried out at once or never.                            *)
(***************************************************************************)
EXTENDS Naturals, FiniteSets

CONSTANTS
    Processes,    \* runs of the agent, one after another or at once
    Disks,        \* volumes of export_cert
    DiskOf,       \* the volume of each process
    Jobs,         \* certmagic jobs of all of them
    ProcessOf,    \* the process of each job
    PathOf,       \* the storage path of each of the two files, see Listing
    OtherPaths,   \* paths of other hostnames, which stay in the store
    MaxToken,     \* how many times the operator rotates the token
    MaxPairs,     \* how many certificates the CA issues
    MaxFailures,
    None          \* no blob, no file, no owner, no pair

ASSUME ProcessAssumption ==
    ProcessOf \in [Jobs -> Processes] /\ DiskOf \in [Processes -> Disks]
ASSUME PathAssumption    == DOMAIN PathOf = {"chain", "key"}
ASSUME BoundsAssumption  == {MaxToken, MaxPairs, MaxFailures} \subseteq Nat

VARIABLES
    token,     \* generation of the valid token
    blobs,     \* agent_storage: the blob of each of the two keys, or None
    issued,    \* pairs the CA issued so far
    proc,      \* new, running, fatal (Run returned ErrFatal), or ended
    tok,       \* the token of each process
    lock,      \* storage.locks[name]: the job inside, by process
    job,       \* where each job is
    pair,      \* what each job read or was issued: a pair for each file
    files,     \* fullchain.pem and privkey.pem on each disk
    failures,
    \* What has happened so far; no action reads it.
    costs,     \* certificates issued to jobs with the valid token, by token
    met,       \* whether two processes have had jobs under way at once
    cut,       \* processes that stopped between a certificate and its blobs
    torn       \* disks whose last export failed or was cut short

server  == <<token, blobs, issued, costs>>
process == <<proc, tok, files, met, cut, torn>>
vars    == <<server, process, lock, job, pair, failures>>

Keys == INSTANCE Listing

\* certmagic joins its names with "/"; none is empty or has a "/" of its own.
ASSUME NamesAssumption ==
    OtherPaths \cup {PathOf[f] : f \in DOMAIN PathOf} \subseteq Keys!Path

Files == {"chain", "key"}
Pairs == 1 .. MaxPairs
Blob  == [pair : Pairs, token : 0 .. MaxToken]

ASSUME NoneAssumption == None \notin Jobs \cup Pairs \cup Blob

\* Before Lock, blocked on the channel of the lock's owner, between Lock and
\* Unlock, and over: with a certificate in use or without.
Outside == {"new", "loadkey", "loadchain", "lock", "wait", "reload"}
Inside  == {"exists", "issue", "putkey", "putchain", "rollback", "getchain",
            "getkey", "writechain", "writekey", "unlock"}
Over    == {"ready", "gaveup"}

TypeOK ==
    /\ token  \in 0 .. MaxToken
    /\ blobs  \in [Files -> Blob \cup {None}]
    /\ issued \in 0 .. MaxPairs
    /\ proc   \in [Processes -> {"new", "running", "fatal", "ended"}]
    /\ tok    \in [Processes -> 0 .. MaxToken]
    /\ lock   \in [Processes -> Jobs \cup {None}]
    /\ job    \in [Jobs -> Outside \cup Inside \cup Over]
    /\ pair   \in [Jobs -> [Files -> Pairs \cup {None}]]
    /\ \A j \in Jobs : job[j] = "ready" => pair[j]["key"] # None
    /\ files  \in [Disks -> [Files -> Pairs \cup {None}]]
    /\ failures \in 0 .. MaxFailures
    /\ costs  \in [0 .. MaxToken -> Nat]
    /\ met    \in BOOLEAN
    /\ cut    \in Nat
    /\ torn   \subseteq Disks

Empty == [f \in Files |-> None]

Init ==
    /\ token  = 0
    /\ blobs  = Empty
    /\ issued = 0
    /\ proc   = [p \in Processes |-> "new"]
    /\ tok    = [p \in Processes |-> 0]
    /\ lock   = [p \in Processes |-> None]
    /\ job    = [j \in Jobs |-> "new"]
    /\ pair   = [j \in Jobs |-> Empty]
    /\ files  = [d \in Disks |-> Empty]
    /\ failures = 0
    /\ costs  = [t \in 0 .. MaxToken |-> 0]
    /\ met    = FALSE
    /\ cut    = 0
    /\ torn   = {}

P(j) == ProcessOf[j]
D(j) == DiskOf[P(j)]

At(j, state) == proc[P(j)] = "running" /\ job[j] = state

Goto(j, state) == job' = [job EXCEPT ![j] = state]

Fails == failures < MaxFailures /\ failures' = failures + 1

-----------------------------------------------------------------------------
(* The storage, as one job calls it. *)

\* The API answers 401 to a replaced token.
Authorized(j) == tok[P(j)] = token

CanOpen(j, f) == blobs[f].token = tok[P(j)]

\* What Load returns, unless the call itself fails: the blob of another token
\* does not open, and that is not fs.ErrNotExist.
Loaded(j, f) ==
    IF ~Authorized(j) THEN "error"
    ELSE IF blobs[f] = None THEN "notexist"
    ELSE IF CanOpen(j, f) THEN "ok"
    ELSE "error"

Load(j, f, result) ==
    \/ result = Loaded(j, f) /\ UNCHANGED failures
    \/ result = "error" /\ Fails

Read(j, f) == pair' = [pair EXCEPT ![j][f] = blobs[f].pair]

RotateToken ==
    /\ token < MaxToken
    /\ token' = token + 1
    /\ UNCHANGED <<blobs, issued, costs, process, lock, job, pair, failures>>

-----------------------------------------------------------------------------
(* Lock and Unlock. *)

\* Mutant of Lock: nobody looks at the channel of the owner.
LockAnyway(j) ==
    /\ At(j, "lock")
    /\ lock' = [lock EXCEPT ![P(j)] = j]
    /\ Goto(j, "exists")
    /\ UNCHANGED <<server, process, pair, failures>>

Lock(j) ==
    /\ At(j, "lock")
    /\ IF lock[P(j)] = None
          THEN lock' = [lock EXCEPT ![P(j)] = j] /\ Goto(j, "exists")
          ELSE Goto(j, "wait") /\ UNCHANGED lock
    /\ UNCHANGED <<server, process, pair, failures>>

\* 30 s; certmagic ends the job.
LockTimeout(j) ==
    /\ At(j, "wait")
    /\ Goto(j, "gaveup")
    /\ UNCHANGED <<server, process, lock, pair, failures>>

\* A job leaves with a certificate, with an error, or, when it found one in
\* the store, to load it.
Leaves(j, next) ==
    IF pair[j]["key"] # None THEN next = "ready" ELSE next \in {"gaveup", "reload"}

\* Mutant of Unlock: the channel is not closed.
UnlockSilently(j) ==
    /\ At(j, "unlock")
    /\ lock' = [lock EXCEPT ![P(j)] = None]
    /\ \E next \in Outside \cup Over : Leaves(j, next) /\ Goto(j, next)
    /\ UNCHANGED <<server, process, pair, failures>>

\* close(ch) wakes every job that waits; each looks at the map again.
Unlock(j) ==
    /\ At(j, "unlock")
    /\ lock' = [lock EXCEPT ![P(j)] = None]
    /\ \E next \in Outside \cup Over :
          /\ Leaves(j, next)
          /\ job' = [k \in Jobs |->
                IF k = j THEN next
                ELSE IF P(k) = P(j) /\ job[k] = "wait" THEN "lock"
                ELSE job[k]]
    /\ UNCHANGED <<server, process, pair, failures>>

-----------------------------------------------------------------------------
(* A process starts, its sessions begin jobs (newTerminator and            *)
(* newExporter, ManageAsync), and it stops.                                *)

\* The operator starts an agent with the valid token.
Start(p) ==
    /\ proc[p] = "new"
    /\ proc' = [proc EXCEPT ![p] = "running"]
    /\ tok' = [tok EXCEPT ![p] = token]
    /\ UNCHANGED <<server, lock, job, pair, files, failures, met, cut, torn>>

\* p has a job under way.
Active(p) == \E k \in Jobs : P(k) = p /\ job[k] \notin {"new"} \cup Over

Manage(j) ==
    /\ At(j, "new")
    /\ Goto(j, "loadkey")
    /\ met' = (met \/ \E p \in Processes \ {P(j)} : Active(p))
    /\ UNCHANGED <<server, proc, tok, files, cut, torn, lock, pair, failures>>

\* A process stops, wherever its jobs are, and nothing is left of its memory.
Stop(p, how) ==
    LET had(states) == \E k \in Jobs : P(k) = p /\ job[k] \in states
    IN  /\ proc' = [proc EXCEPT ![p] = how]
        /\ job'  = [k \in Jobs |-> IF P(k) = p THEN "gaveup" ELSE job[k]]
        /\ pair' = [k \in Jobs |-> IF P(k) = p THEN Empty ELSE pair[k]]
        /\ lock' = [lock EXCEPT ![p] = None]
        /\ cut'  = IF had({"putkey", "putchain"}) THEN cut + 1 ELSE cut
        /\ torn' = IF had({"writechain", "writekey"}) THEN torn \cup {DiskOf[p]} ELSE torn
        /\ UNCHANGED <<server, tok, files, met>>

\* ctx is cancelled, or the host is gone.
End(p) ==
    /\ proc[p] = "running"
    /\ Stop(p, "ended")
    /\ UNCHANGED failures

\* Any other error is ManageAsync's, and session makes it fatal.
LoadEnds(j) == Stop(P(j), "fatal")

LoadKey(j) ==
    /\ At(j, "loadkey")
    /\ \/ /\ \/ Load(j, "key", "ok")       /\ Goto(j, "loadchain") /\ Read(j, "key")
             \/ Load(j, "key", "notexist") /\ Goto(j, "lock")      /\ UNCHANGED pair
          /\ UNCHANGED <<server, process, lock>>
       \/ Load(j, "key", "error") /\ LoadEnds(j)

\* A chain that is not the key's is an error too.
LoadChain(j) ==
    /\ At(j, "loadchain")
    /\ LET fits == blobs["chain"].pair = pair[j]["key"]
       IN  \/ /\ \/ Load(j, "chain", "ok") /\ fits /\ Goto(j, "ready") /\ Read(j, "chain")
                 \/ /\ Load(j, "chain", "notexist")
                    /\ Goto(j, "lock") /\ pair' = [pair EXCEPT ![j] = Empty]
              /\ UNCHANGED <<server, process, lock>>
           \/ /\ Load(j, "chain", "error") \/ (Load(j, "chain", "ok") /\ ~fits)
              /\ LoadEnds(j)

\* In the background an error ends the job only.
Reload(j) ==
    /\ At(j, "reload")
    /\ \/ /\ \A f \in Files : Loaded(j, f) = "ok"
          /\ blobs["chain"].pair = blobs["key"].pair
          /\ Goto(j, "ready")
          /\ pair' = [pair EXCEPT ![j] = [f \in Files |-> blobs[f].pair]]
          /\ UNCHANGED failures
       \/ /\ \/ \E f \in Files : Load(j, f, "error") \/ Load(j, f, "notexist")
             \/ /\ \A f \in Files : Load(j, f, "ok")
                /\ blobs["chain"].pair # blobs["key"].pair
          /\ Goto(j, "gaveup")
          /\ UNCHANGED pair
    /\ UNCHANGED <<server, process, lock>>

-----------------------------------------------------------------------------
(* Between Lock and Unlock. *)

\* Mutant of Exists: nobody looks again.
ExistsAlways(j) ==
    /\ At(j, "exists")
    /\ Goto(j, "issue")
    /\ UNCHANGED <<server, process, lock, pair, failures>>

\* Exists is "no error": a failed call or a 401 says that nothing is there,
\* and a blob nobody can open is there.
Exists(j) ==
    /\ At(j, "exists")
    /\ \/ /\ Goto(j, IF Authorized(j) /\ \A f \in Files : blobs[f] # None
                        THEN "unlock" ELSE "issue")
          /\ UNCHANGED failures
       \/ Fails /\ Goto(j, "issue")
    /\ UNCHANGED <<server, process, lock, pair>>

Issue(j) ==
    /\ At(j, "issue")
    /\ \/ /\ issued < MaxPairs
          /\ issued' = issued + 1
          /\ costs' = IF Authorized(j) THEN [costs EXCEPT ![token] = @ + 1] ELSE costs
          /\ pair' = [pair EXCEPT ![j] = [f \in Files |-> issued']]
          /\ Goto(j, "putkey")
          /\ UNCHANGED failures
       \/ Fails /\ Goto(j, "unlock") /\ UNCHANGED <<issued, costs, pair>>
    /\ UNCHANGED <<token, blobs, process, lock>>

\* Store of one file; a call that fails may have been carried out.
Put(j, f, next, failed) ==
    LET stored == [blobs EXCEPT ![f] = [pair |-> pair[j][f], token |-> tok[P(j)]]]
    IN  \/ Authorized(j)  /\ blobs' = stored /\ Goto(j, next) /\ UNCHANGED failures
        \/ ~Authorized(j) /\ UNCHANGED <<blobs, failures>> /\ Goto(j, failed)
        \/ /\ Fails
           /\ Goto(j, failed)
           /\ UNCHANGED blobs \/ (Authorized(j) /\ blobs' = stored)

PutKey(j) ==
    /\ At(j, "putkey")
    /\ Put(j, "key", "putchain", "unlock")
    /\ pair' = IF job'[j] = "unlock" THEN [pair EXCEPT ![j] = Empty] ELSE pair
    /\ UNCHANGED <<token, issued, costs, process, lock>>

PutChain(j) ==
    /\ At(j, "putchain")
    /\ Put(j, "chain", "getchain", "rollback")
    /\ pair' = IF job'[j] = "rollback" THEN [pair EXCEPT ![j] = Empty] ELSE pair
    /\ UNCHANGED <<token, issued, costs, process, lock>>

\* certmagic deletes what it stored before the failure.
Rollback(j) ==
    /\ At(j, "rollback")
    /\ Goto(j, "unlock")
    /\ \/ /\ blobs' = IF Authorized(j) THEN [blobs EXCEPT !["key"] = None] ELSE blobs
          /\ UNCHANGED failures
       \/ Fails /\ UNCHANGED blobs
    /\ UNCHANGED <<token, issued, costs, process, lock, pair>>

-----------------------------------------------------------------------------
(* exportOnEvent: both files are read back before any is written; an error *)
(* ends it, and certmagic goes on.                                         *)

\* Mutant of GetChain: each file is written as soon as it is read.
GetChainAndWrite(j) ==
    /\ At(j, "getchain")
    /\ \/ /\ Load(j, "chain", "ok") /\ Goto(j, "getkey")
          /\ files' = [files EXCEPT ![D(j)]["chain"] = blobs["chain"].pair]
       \/ /\ \E r \in {"notexist", "error"} : Load(j, "chain", r)
          /\ Goto(j, "unlock") /\ UNCHANGED files
    /\ UNCHANGED <<server, proc, tok, met, cut, torn, lock, pair>>

Get(j, f, next) ==
    /\ \/ Load(j, f, "ok") /\ Goto(j, next) /\ Read(j, f)
       \/ /\ \E r \in {"notexist", "error"} : Load(j, f, r)
          /\ Goto(j, "unlock") /\ UNCHANGED pair
    /\ UNCHANGED <<server, process, lock>>

GetChain(j) == At(j, "getchain") /\ Get(j, "chain", "getkey")
GetKey(j)   == At(j, "getkey")   /\ Get(j, "key", "writechain")

\* WriteFile truncates before it writes: a file is lost when it fails.
Write(j, f, next) ==
    /\ \/ /\ files' = [files EXCEPT ![D(j)][f] = pair[j][f]]
          /\ torn' = IF f = "key" THEN torn \ {D(j)} ELSE torn
          /\ Goto(j, next)
          /\ UNCHANGED failures
       \/ /\ Fails
          /\ files' \in {files, [files EXCEPT ![D(j)][f] = None]}
          /\ torn' = torn \cup {D(j)}
          /\ Goto(j, "unlock")
    /\ UNCHANGED <<server, proc, tok, met, cut, lock, pair>>

WriteChain(j) == At(j, "writechain") /\ Write(j, "chain", "writekey")
WriteKey(j)   == At(j, "writekey")   /\ Write(j, "key", "unlock")

-----------------------------------------------------------------------------
Work(j) == \/ LoadKey(j) \/ LoadChain(j) \/ Reload(j) \/ Lock(j) \/ Exists(j) \/ Issue(j)
           \/ PutKey(j) \/ PutChain(j) \/ Rollback(j) \/ GetChain(j) \/ GetKey(j)
           \/ WriteChain(j) \/ WriteKey(j) \/ Unlock(j)

Next ==
    \/ RotateToken
    \/ \E p \in Processes : Start(p) \/ End(p)
    \/ \E j \in Jobs : Manage(j) \/ Work(j) \/ LockTimeout(j)

Spec == Init /\ [][Next]_vars

\* While some job can go on, one does, which is less than a goroutine for each
\* gives; nothing makes a waiting job time out, and nothing makes a process stop.
Fairness == WF_vars(\E j \in Jobs : Work(j))

FairSpec == Spec /\ Fairness

-----------------------------------------------------------------------------
(* Properties. *)

\* However many jobs of a process meet at a hostname, and whatever order their
\* channels are made, closed and dropped in, one at a time is between Lock and
\* Unlock.
LocksExclude ==
    \A j, k \in Jobs :
        P(j) = P(k) /\ job[j] \in Inside /\ job[k] \in Inside => j = k

\* While no two processes have had jobs for a hostname under way at once, it
\* costs the CA one certificate for each token, one more for each thing that
\* fails and one for each process that stops before its certificate is stored:
\* restarts, the jobs of successive sessions and a process that takes over from
\* one that is gone share it.  A process whose token was replaced is not counted:
\* Exists tells it that nothing is there, and each of its jobs asks for another.
OneCertificate ==
    ~met => \A t \in 0 .. MaxToken : costs[t] <= 1 + failures + cut

\* While no two processes have had jobs for a hostname under way at once, the
\* two files on a disk are of one certificate whenever nobody is between the two
\* writes, unless the last export was cut short there or a write of it failed:
\* whatever calls fail and whenever the token is rotated, and also after a
\* restart on the same disk.
ExportedTogether ==
    \A d \in Disks \ torn :
        (~met /\ \A j \in Jobs : D(j) = d => job[j] # "writekey") =>
            files[d]["chain"] = files[d]["key"]

\* Nobody waits for a channel that will never be closed, and no two jobs keep
\* each other waiting by turns: again and again nobody waits at all.
WaitersGoOn == []<>(\A j \in Jobs : ~At(j, "wait"))

\* List gives what is in the store under a directory, whatever other names
\* begin like it and however far a job has come with its two files: whenever
\* what the store holds has changed.
Paths == OtherPaths \cup {PathOf[f] : f \in {g \in Files : blobs[g] # None}}

ListIsExact ==
    Keys!Exact(Paths) /\ [][blobs' # blobs => Keys!Exact(Paths')]_blobs

\* What the document says and the code does not do; see the README.

\* DESIGN.md:406-407, "Rotar el token vuelve ilegible lo guardado: el agente
\* simplemente emite certificados nuevos": a process with the valid token, all
\* of whose calls go well, does not end over what it finds in the store.
RotationOnlyReissues ==
    \A p \in Processes : proc[p] = "fatal" => failures > 0 \/ tok[p] < token
=============================================================================
