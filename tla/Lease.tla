-------------------------------- MODULE Lease --------------------------------
(***************************************************************************)
(* The agent lease of one tunnel: the rows token and agent_lease of the    *)
(* control plane (internal/store), the three handlers that touch them      *)
(* (internal/api: register, heartbeat, release) and the session loop of    *)
(* every agent process started with a token of the tunnel                  *)
(* (internal/agent).                                                       *)
(*                                                                         *)
(* A handler is not one transaction.  It reads the token row (AuthAgent),  *)
(* then runs its own statement, then answers; anything may happen between  *)
(* the three, and the client may stop waiting at any of them.  A call the  *)
(* client abandoned may still be executed by the server: it is then in     *)
(* "late", which holds at most MaxLate calls.                              *)
(*                                                                         *)
(* Time is abstract.  A row is live until LeaseExpires; module LeaseTiming *)
(* relates the two durations of the code.  "calm" is the usual eventual    *)
(* stability: once TRUE no call fails and a row expires only when the      *)
(* process behind it has gone.                                             *)
(***************************************************************************)
EXTENDS Naturals, FiniteSets

CONSTANTS
    Instances,  \* agent processes; a restarted agent is another instance
    Keys,       \* WireGuard key pairs, one fresh for every session
    MaxToken,   \* how many times the operator rotates the token
    MaxLate,    \* how many abandoned calls the server may still execute
    NoLease,    \* no row in agent_lease
    NoCall,     \* the agent waits for no answer
    NoKey       \* the process has had no session yet

Tokens == 0 .. MaxToken
Ops    == {"register", "heartbeat", "release"}
Codes  == {"ok", "unauthorized", "lease_held", "superseded", "internal"}

\* A call in the server, before the token was read, after, and answered.
Call == [op : Ops, inst : Instances, tok : Tokens, key : Keys,
         phase : {"sent", "authed", "done"}, code : Codes \cup {"none"}]

Row == [inst : Instances, key : Keys, live : BOOLEAN]

ASSUME LateAssumption  == MaxLate \in Nat
ASSUME TokenAssumption == MaxToken \in Nat
ASSUME NullAssumption  == /\ NoLease \notin Row \cup Instances
                          /\ NoCall \notin Call
                          /\ NoKey \notin Keys

VARIABLES
    token,  \* the token row: which generation is valid
    lease,  \* the agent_lease row, or NoLease
    proc,   \* where each process is in Run/session
    tok,    \* the token each process was started with
    key,    \* the key of each process's current session
    call,   \* the call each process is waiting for
    late,   \* abandoned calls the server may still execute
    calm    \* no more failures

vars  == <<token, lease, proc, tok, key, call, late, calm>>
agent == <<proc, tok, key>>

\* new: not started; register: inside register(); setup: registered, building
\* the device; serving: in the heartbeat loop; closing and stopping: in the
\* deferred release, before another session or before the exit.
ProcStates == {"new", "register", "setup", "serving", "closing", "stopping",
               "exited"}

TypeOK ==
    /\ token \in Tokens
    /\ lease \in Row \cup {NoLease}
    /\ proc  \in [Instances -> ProcStates]
    /\ tok   \in [Instances -> Tokens]
    /\ key   \in [Instances -> Keys \cup {NoKey}]
    /\ \A i \in Instances : IF proc[i] = "new" THEN call[i] = NoCall ELSE key[i] \in Keys
    /\ call  \in [Instances -> Call \cup {NoCall}]
    /\ late  \subseteq Call
    /\ calm  \in BOOLEAN

Init ==
    /\ token = 0
    /\ lease = NoLease
    /\ proc  = [i \in Instances |-> "new"]
    /\ tok   = [i \in Instances |-> 0]
    /\ key   = [i \in Instances |-> NoKey]
    /\ call  = [i \in Instances |-> NoCall]
    /\ late  = {}
    /\ calm  = FALSE

HeldBy(i) == lease # NoLease /\ lease.inst = i

-----------------------------------------------------------------------------
(* The statements of the store. *)

\* Mutants of CanAcquire: nobody's row is respected, or an expired row is.
AcquireAnyRow(i)  == TRUE
AcquireOwnRow(i)  == lease # NoLease => lease.inst = i
CanAcquire(i) == lease # NoLease => lease.inst = i \/ ~lease.live

\* Mutant of AcquireLease: the upsert does not replace the public key.
AcquireLeaseKeepingKey(r, code) ==
    IF CanAcquire(r.inst)
       THEN /\ lease' = [inst |-> r.inst, live |-> TRUE,
                         key |-> IF HeldBy(r.inst) THEN lease.key ELSE r.key]
            /\ code = "ok"
       ELSE code = "lease_held" /\ UNCHANGED lease

\* The upsert; when ActiveNodes fails after it the answer is "internal" and
\* the row stays.
AcquireLease(r, code) ==
    \/ /\ CanAcquire(r.inst)
       /\ lease' = [inst |-> r.inst, key |-> r.key, live |-> TRUE]
       /\ code \in {"ok"} \cup IF calm THEN {} ELSE {"internal"}
    \/ /\ ~CanAcquire(r.inst)
       /\ code = "lease_held"
       /\ UNCHANGED lease

\* Mutant of RenewLease: an expired row is not renewed.
RenewLiveLease(r, code) ==
    IF HeldBy(r.inst) /\ lease.live
       THEN lease' = lease /\ code = "ok"
       ELSE code = "superseded" /\ UNCHANGED lease

\* The update looks at the instance only: neither the key nor expires_at.
RenewLease(r, code) ==
    \/ /\ HeldBy(r.inst)
       /\ lease' = [lease EXCEPT !.live = TRUE]
       /\ code \in {"ok"} \cup IF calm THEN {} ELSE {"internal"}
    \/ /\ ~HeldBy(r.inst)
       /\ code = "superseded"
       /\ UNCHANGED lease

\* Mutant of ReleaseLease: the row goes, whoever has it.
ReleaseAnyLease(r, code) == lease' = NoLease /\ code = "ok"

ReleaseLease(r, code) ==
    /\ lease' = IF HeldBy(r.inst) THEN NoLease ELSE lease
    /\ code = "ok"

Handle(r, code) ==
    \/ r.op = "register"  /\ AcquireLease(r, code)
    \/ r.op = "heartbeat" /\ RenewLease(r, code)
    \/ r.op = "release"   /\ ReleaseLease(r, code)

\* "wgrelay-api tunnel rotate-token": one transaction over both rows.
RotateToken ==
    /\ token < MaxToken
    /\ token' = token + 1
    /\ lease' = NoLease
    /\ UNCHANGED <<agent, call, late, calm>>

LeaseExpires ==
    /\ lease # NoLease
    /\ lease.live
    /\ calm => proc[lease.inst] = "exited"
    /\ lease' = [lease EXCEPT !.live = FALSE]
    /\ UNCHANGED <<token, agent, call, late, calm>>

-----------------------------------------------------------------------------
(* The API server, for the calls somebody waits for. *)

InPhase(i, phase) == call[i] # NoCall /\ call[i].phase = phase

Answer(i, code) ==
    call' = [call EXCEPT ![i].phase = "done", ![i].code = code]

\* Mutant of AuthAgent: a replaced token is still accepted.
AuthAnyToken(i) ==
    /\ InPhase(i, "sent")
    /\ call' = [call EXCEPT ![i].phase = "authed"]
    /\ UNCHANGED <<token, lease, agent, late, calm>>

AuthAgent(i) ==
    /\ InPhase(i, "sent")
    /\ IF call[i].tok = token
          THEN call' = [call EXCEPT ![i].phase = "authed"]
          ELSE Answer(i, "unauthorized")
    /\ UNCHANGED <<token, lease, agent, late, calm>>

Execute(i) ==
    /\ InPhase(i, "authed")
    /\ \E code \in Codes : Handle(call[i], code) /\ Answer(i, code)
    /\ UNCHANGED <<token, agent, late, calm>>

\* Mutant of ServerFails: AuthAgent maps every error to ErrUnauthorized.
ServerFailsUnauthorized(i) ==
    /\ ~calm
    /\ InPhase(i, "sent")
    /\ Answer(i, "unauthorized")
    /\ UNCHANGED <<token, lease, agent, late, calm>>

\* The database failed before the statement took effect.
ServerFails(i) ==
    /\ ~calm
    /\ InPhase(i, "sent") \/ InPhase(i, "authed")
    /\ Answer(i, "internal")
    /\ UNCHANGED <<token, lease, agent, late, calm>>

(* ... and for the calls nobody waits for any more. *)

LateAuthAgent(r) ==
    /\ r.phase = "sent"
    /\ late' = (late \ {r}) \cup
               IF r.tok = token THEN {[r EXCEPT !.phase = "authed"]} ELSE {}
    /\ UNCHANGED <<token, lease, agent, call, calm>>

LateExecute(r) ==
    /\ r.phase = "authed"
    /\ \E code \in Codes : Handle(r, code)
    /\ late' = late \ {r}
    /\ UNCHANGED <<token, agent, call, calm>>

LateLost(r) ==
    /\ late' = late \ {r}
    /\ UNCHANGED <<token, lease, agent, call, calm>>

-----------------------------------------------------------------------------
(* The agent process. *)

\* A key nobody knows yet: keys are 32 random bytes.
Fresh(k) ==
    /\ \A i \in Instances : key[i] # k
    /\ lease # NoLease => lease.key # k
    /\ \A r \in late : r.key # k

Send(i, op) ==
    call' = [call EXCEPT ![i] =
              [op |-> op, inst |-> i, tok |-> tok[i], key |-> key[i],
               phase |-> "sent", code |-> "none"]]

\* The client stops waiting: what the server has not answered yet is lost or
\* goes on without it.
Abandon(i) ==
    /\ call' = [call EXCEPT ![i] = NoCall]
    /\ \/ late' = late
       \/ /\ InPhase(i, "sent") \/ InPhase(i, "authed")
          /\ Cardinality(late) < MaxLate
          /\ late' = late \cup {call[i]}

\* Mutant of BeginSession: the session generates no key.
BeginSessionSameKey(i) == proc' = [proc EXCEPT ![i] = "register"] /\ UNCHANGED key

BeginSession(i) ==
    /\ proc' = [proc EXCEPT ![i] = "register"]
    /\ \E k \in Keys : Fresh(k) /\ key' = [key EXCEPT ![i] = k]

Goto(i, state) == proc' = [proc EXCEPT ![i] = state] /\ UNCHANGED key

\* The operator starts an agent, with the current token or with an old one.
Start(i) ==
    /\ proc[i] = "new"
    /\ \E t \in 0 .. token : tok' = [tok EXCEPT ![i] = t]
    /\ BeginSession(i)
    /\ UNCHANGED <<token, lease, call, late, calm>>

\* register() sends the same request until it is answered; the other two are
\* sent once each time.
SendCall(i) ==
    /\ call[i] = NoCall
    /\ \/ proc[i] = "register" /\ Send(i, "register")
       \/ proc[i] = "serving"  /\ Send(i, "heartbeat")
       \/ proc[i] \in {"closing", "stopping"} /\ Send(i, "release")
    /\ UNCHANGED <<token, lease, agent, late, calm>>

\* The session is over: Run begins another one, or the process ends.
AfterRelease(i) ==
    \/ proc[i] = "closing"  /\ BeginSession(i)
    \/ proc[i] = "stopping" /\ Goto(i, "exited")

OnRegister(i, code) ==
    \/ code = "ok"           /\ Goto(i, "setup")
    \/ code = "unauthorized" /\ Goto(i, "exited")
    \/ code = "lease_held"   /\ UNCHANGED <<proc, key>>
    \/ code = "internal"     /\ BeginSession(i)

\* Mutant of OnHeartbeat: an unauthorized heartbeat is only a warning.
OnHeartbeatWarn(i, code) ==
    \/ code # "superseded" /\ UNCHANGED <<proc, key>>
    \/ code = "superseded" /\ Goto(i, "closing")

OnHeartbeat(i, code) ==
    \/ code \in {"ok", "internal"} /\ UNCHANGED <<proc, key>>
    \/ code = "superseded"         /\ Goto(i, "closing")
    \/ code = "unauthorized"       /\ Goto(i, "stopping")

ReceiveAnswer(i) ==
    /\ InPhase(i, "done")
    /\ \/ call[i].op = "register"  /\ OnRegister(i, call[i].code)
       \/ call[i].op = "heartbeat" /\ OnHeartbeat(i, call[i].code)
       \/ call[i].op = "release"   /\ AfterRelease(i)
    /\ call' = [call EXCEPT ![i] = NoCall]
    /\ UNCHANGED <<token, lease, tok, late, calm>>

\* A timeout or a broken connection: register() and the heartbeat loop try
\* again, a failed release is ignored.
CallFails(i) ==
    /\ ~calm
    /\ call[i] # NoCall
    /\ Abandon(i)
    /\ \/ call[i].op \in {"register", "heartbeat"} /\ UNCHANGED <<proc, key>>
       \/ call[i].op = "release" /\ AfterRelease(i)
    /\ UNCHANGED <<token, lease, tok, calm>>

SetUp(i) ==
    /\ proc[i] = "setup"
    /\ Goto(i, "serving")
    /\ UNCHANGED <<token, lease, tok, call, late, calm>>

\* session() returns before its release is deferred: a wrong configuration is
\* fatal, a failed device or listener is not.
SetUpFails(i) ==
    /\ proc[i] = "setup"
    /\ Goto(i, "exited") \/ (~calm /\ BeginSession(i))
    /\ UNCHANGED <<token, lease, tok, call, late, calm>>

\* SIGTERM cancels the context: register() gives up without a release, the
\* heartbeat loop returns and the deferred release runs.
Shutdown(i) ==
    /\ \/ proc[i] = "register" /\ Goto(i, "exited")   /\ Abandon(i)
       \/ proc[i] = "serving"  /\ Goto(i, "stopping") /\ Abandon(i)
       \/ proc[i] = "setup"    /\ Goto(i, "stopping") /\ UNCHANGED <<call, late>>
       \/ proc[i] = "closing"  /\ Goto(i, "stopping") /\ UNCHANGED <<call, late>>
    /\ UNCHANGED <<token, lease, tok, calm>>

Crash(i) ==
    /\ proc[i] \notin {"new", "exited"}
    /\ Goto(i, "exited")
    /\ Abandon(i)
    /\ UNCHANGED <<token, lease, tok, calm>>

-----------------------------------------------------------------------------
CalmsDown == ~calm /\ calm' = TRUE /\ UNCHANGED <<token, lease, agent, call, late>>

Server(i) == AuthAgent(i) \/ Execute(i) \/ ServerFails(i)
Client(i) == \/ Start(i) \/ SendCall(i) \/ ReceiveAnswer(i) \/ CallFails(i)
             \/ SetUp(i) \/ SetUpFails(i) \/ Shutdown(i) \/ Crash(i)
Late(r)   == LateAuthAgent(r) \/ LateExecute(r) \/ LateLost(r)

Next ==
    \/ RotateToken
    \/ LeaseExpires
    \/ CalmsDown
    \/ \E i \in Instances : Server(i) \/ Client(i)
    \/ \E r \in late : Late(r)

Spec == Init /\ [][Next]_vars

\* The clock runs, the server answers, and a process that has something to do
\* does it; failures, crashes, rotations and new processes are never owed.
Fairness ==
    /\ WF_vars(LeaseExpires)
    /\ \A i \in Instances :
          WF_vars(AuthAgent(i) \/ Execute(i) \/ SendCall(i) \/ ReceiveAnswer(i) \/ SetUp(i))

FairSpec == Spec /\ Fairness

-----------------------------------------------------------------------------
(* Properties. *)

\* No agent acts on a refusal that is not so: "superseded" and "lease_held"
\* reach an agent only while the row is not its own, although the row may
\* change between the statement and the moment the agent reads the answer.
\* (The agent drops its tunnel on the first.)
RefusalsAreTrue ==
    \A i \in Instances :
        InPhase(i, "done") /\ call[i].code \in {"superseded", "lease_held"} => ~HeldBy(i)

\* ErrUnauthorized ends the agent process for good, so it is only ever given
\* to a process whose token really was replaced, whatever rotation, retry or
\* failure the answer crossed on its way.
UnauthorizedIsTrue ==
    \A i \in Instances :
        InPhase(i, "done") /\ call[i].code = "unauthorized" => tok[i] < token

\* A session that believes it is registered and whose process has the row has
\* registered the key its device uses: the nodes route to this very device.
\* The row is written by AcquireLease only; heartbeats renew it blindly.
KeyAgreement ==
    \A i \in Instances :
        proc[i] \in {"setup", "serving"} /\ HeldBy(i) => lease.key = key[i]

\* While a process serves, its live row stays, with its key, whatever the
\* other instances call, in time or late, and whatever the session itself
\* calls: the row goes by rotate-token, or by a register or release of the
\* process's own earlier session that the server executes late: AcquireLease
\* and ReleaseLease match the instance and never look at the key.
ServingKeepsRow ==
    [][\A i \in Instances :
          proc[i] = "serving" /\ HeldBy(i) /\ lease.live =>
              \/ HeldBy(i)' /\ lease'.key = lease.key
              \/ token' # token
              \/ \E r \in late \ late' :
                    r.inst = i /\ r.phase = "authed" /\ r.op \in {"register", "release"}]_vars

Alive(i) == proc[i] \in {"register", "setup", "serving", "closing"} /\ tok[i] = token

\* The tunnel works: a live row, for a serving process, with its key.
OperatedBy(i) ==
    /\ proc[i] = "serving" /\ tok[i] = token
    /\ HeldBy(i) /\ lease.live /\ lease.key = key[i]

\* Two servers with one token do not fight over the tunnel: once calls stop
\* failing the operating process keeps it until it stops or is revoked.
StableOperator ==
    [][\A i \in Instances : calm /\ OperatedBy(i) => (OperatedBy(i) \/ ~Alive(i))']_vars

\* The owner the nodes see (NodeConfig reads live rows only).
Lock == INSTANCE TunnelLock
          WITH owner <- IF lease # NoLease /\ lease.live THEN lease.inst ELSE NoLease,
               NoOwner <- NoLease

\* The lease implements the lock, abandoned calls included.
ImplementsLock == Lock!Spec

Revoked(i) == tok[i] < token

\* The agents whose token was rotated end, whatever they were doing.
RevokedAgentExits ==
    LET Left == \E i \in Instances : Revoked(i) /\ proc[i] \notin {"new", "exited"}
    IN  (calm /\ Left) ~> ~Left

\* ... and the row does not stay with one of them for ever.
RevokedRowFades ==
    LET Has == \E i \in Instances : Revoked(i) /\ HeldBy(i) /\ lease.live
    IN  (calm /\ Has) ~> ~Has

\* Failover: while some process with the valid token keeps trying, the tunnel
\* comes to be operated, whoever crashed holding it.
TunnelGetsOperated ==
    LET Tries    == \E i \in Instances : Alive(i)
        Operated == \E i \in Instances : OperatedBy(i)
    IN  (calm /\ Tries) ~> (Operated \/ ~Tries)
=============================================================================
