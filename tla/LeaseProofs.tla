----------------------------- MODULE LeaseProofs -----------------------------
(* What TLAPS proves of Lease for any instances, keys, rotations and delays. *)
EXTENDS Lease, FiniteSetTheorems, TLAPS

USE TokenAssumption, LateAssumption, NullAssumption

-----------------------------------------------------------------------------
(* Type correctness. *)

LEMMA HandleTypes ==
    ASSUME TypeOK, NEW r \in Call, NEW code \in Codes, Handle(r, code)
    PROVE  lease' \in Row \cup {NoLease}
<1>1. CASE AcquireLease(r, code)
  <2>1. lease' = lease \/ lease' = [inst |-> r.inst, key |-> r.key, live |-> TRUE]
        BY <1>1 DEF AcquireLease
  <2>2. [inst |-> r.inst, key |-> r.key, live |-> TRUE] \in Row
        BY DEF Call, Row
  <2> QED BY <2>1, <2>2 DEF TypeOK
<1>2. CASE RenewLease(r, code)
      BY <1>2 DEF RenewLease, HeldBy, TypeOK, Row
<1>3. CASE ReleaseLease(r, code)
      BY <1>3 DEF ReleaseLease, TypeOK
<1> QED BY <1>1, <1>2, <1>3 DEF Handle

LEMMA AbandonTypes ==
    ASSUME TypeOK, NEW i \in Instances, Abandon(i)
    PROVE  call' \in [Instances -> Call \cup {NoCall}] /\ late' \subseteq Call
BY DEF Abandon, TypeOK, InPhase

LEMMA AnswerTypes ==
    ASSUME TypeOK, NEW i \in Instances, NEW code \in Codes, NEW phase,
           InPhase(i, phase), Answer(i, code)
    PROVE  /\ call' \in [Instances -> Call \cup {NoCall}]
           /\ \A j \in Instances : call[j] = NoCall => call'[j] = NoCall
<1>1. call[i] \in Call
      BY DEF TypeOK, InPhase
<1>2. [call[i] EXCEPT !.phase = "done", !.code = code] \in Call
      BY <1>1 DEF Call
<1> QED BY <1>2 DEF Answer, TypeOK, InPhase

\* Every step of a started process leaves it started, with a key.
LEMMA ClientTypes ==
    ASSUME TypeOK, NEW i \in Instances, proc[i] # "new",
           \/ BeginSession(i) \/ UNCHANGED <<proc, key>>
           \/ \E s \in ProcStates \ {"new"} : Goto(i, s)
    PROVE  /\ proc' \in [Instances -> ProcStates]
           /\ key' \in [Instances -> Keys \cup {NoKey}]
           /\ \A j \in Instances : j # i => proc'[j] = proc[j] /\ key'[j] = key[j]
           /\ proc'[i] # "new" /\ key'[i] \in Keys
<1>1. CASE BeginSession(i)
      BY <1>1 DEF BeginSession, TypeOK, ProcStates
<1>2. CASE UNCHANGED <<proc, key>>
      BY <1>2 DEF TypeOK
<1>3. CASE \E s \in ProcStates \ {"new"} : Goto(i, s)
      BY <1>3 DEF Goto, TypeOK
<1> QED BY <1>1, <1>2, <1>3

LEMMA TypeInit == Init => TypeOK
<1> SUFFICES ASSUME Init PROVE TypeOK
    OBVIOUS
<1>1. token \in Tokens
      BY DEF Init, Tokens
<1>2. key \in [Instances -> Keys \cup {NoKey}]
      BY DEF Init
<1>3. call \in [Instances -> Call \cup {NoCall}]
      BY DEF Init
<1>4. proc \in [Instances -> ProcStates] /\ \A i \in Instances : proc[i] = "new"
      BY DEF Init, ProcStates
<1>5. tok \in [Instances -> Tokens]
      BY DEF Init, Tokens
<1> QED BY <1>1, <1>2, <1>3, <1>4, <1>5 DEF Init, TypeOK

LEMMA TypeStep == TypeOK /\ [Next]_vars => TypeOK'
<1> SUFFICES ASSUME TypeOK, [Next]_vars PROVE TypeOK'
    OBVIOUS
<1> USE DEF agent
<1>1. CASE UNCHANGED vars
      BY <1>1 DEF vars, TypeOK
<1>2. CASE RotateToken
      BY <1>2 DEF RotateToken, TypeOK, Tokens
<1>3. CASE LeaseExpires
  <2>1. lease \in Row
        BY <1>3 DEF LeaseExpires, TypeOK
  <2>2. [lease EXCEPT !.live = FALSE] \in Row
        BY <2>1 DEF Row
  <2> QED BY <1>3, <2>2 DEF LeaseExpires, TypeOK
<1>4. CASE CalmsDown
      BY <1>4 DEF CalmsDown, TypeOK
<1>5. ASSUME NEW i \in Instances, Server(i)
      PROVE  TypeOK'
  <2>1. CASE AuthAgent(i)
    <3>1. call[i] \in Call
          BY <2>1 DEF AuthAgent, InPhase, TypeOK
    <3>2. [call[i] EXCEPT !.phase = "authed"] \in Call
          BY <3>1 DEF Call
    <3>3. "unauthorized" \in Codes
          BY DEF Codes
    <3>4. /\ call' \in [Instances -> Call \cup {NoCall}]
             /\ \A j \in Instances : call[j] = NoCall => call'[j] = NoCall
      <4>1. CASE call[i].tok = token
            BY <4>1, <2>1, <3>2 DEF AuthAgent, InPhase, TypeOK
      <4>2. CASE call[i].tok # token
            BY <4>2, <2>1, <3>3, AnswerTypes DEF AuthAgent
      <4> QED BY <4>1, <4>2
    <3> QED BY <2>1, <3>4 DEF AuthAgent, TypeOK
  <2>2. CASE Execute(i)
    <3>1. PICK code \in Codes : Handle(call[i], code) /\ Answer(i, code)
          BY <2>2 DEF Execute
    <3>2. call[i] \in Call
          BY <2>2 DEF Execute, InPhase, TypeOK
    <3>3. lease' \in Row \cup {NoLease}
          BY <3>1, <3>2, HandleTypes
    <3>4. /\ call' \in [Instances -> Call \cup {NoCall}]
             /\ \A j \in Instances : call[j] = NoCall => call'[j] = NoCall
          BY <2>2, <3>1, AnswerTypes DEF Execute
    <3> QED BY <2>2, <3>3, <3>4 DEF Execute, TypeOK
  <2>3. CASE ServerFails(i)
    <3>1. /\ call' \in [Instances -> Call \cup {NoCall}]
             /\ \A j \in Instances : call[j] = NoCall => call'[j] = NoCall
          BY <2>3, AnswerTypes DEF ServerFails, Codes
    <3> QED BY <2>3, <3>1 DEF ServerFails, TypeOK
  <2> QED BY <1>5, <2>1, <2>2, <2>3 DEF Server
<1>6. ASSUME NEW i \in Instances, Client(i)
      PROVE  TypeOK'
  <2>1. CASE Start(i)
    <3>1. tok' \in [Instances -> Tokens]
          BY <2>1 DEF Start, TypeOK, Tokens
    <3> QED BY <2>1, <3>1 DEF Start, BeginSession, TypeOK, ProcStates
  <2>2. CASE SendCall(i)
    <3>1. PICK op \in Ops : Send(i, op) /\ proc[i] # "new"
          BY <2>2 DEF SendCall, Ops
    <3>2. [op |-> op, inst |-> i, tok |-> tok[i], key |-> key[i],
           phase |-> "sent", code |-> "none"] \in Call
          BY <3>1 DEF TypeOK, Call
    <3> QED BY <2>2, <3>1, <3>2 DEF SendCall, Send, TypeOK
  <2>3. CASE ReceiveAnswer(i)
    <3>1. call[i] # NoCall /\ proc[i] # "new" /\ key[i] \in Keys
          BY <2>3 DEF ReceiveAnswer, InPhase, TypeOK
    <3>2. BeginSession(i) \/ UNCHANGED <<proc, key>>
          \/ \E s \in ProcStates \ {"new"} : Goto(i, s)
          BY <2>3 DEF ReceiveAnswer, OnRegister, OnHeartbeat, AfterRelease, ProcStates
    <3>3. call' = [call EXCEPT ![i] = NoCall]
          BY <2>3 DEF ReceiveAnswer
    <3> QED BY <2>3, <3>1, <3>2, <3>3, ClientTypes DEF ReceiveAnswer, TypeOK
  <2>4. CASE CallFails(i)
    <3>1. proc[i] # "new"
          BY <2>4 DEF CallFails, TypeOK
    <3>2. BeginSession(i) \/ UNCHANGED <<proc, key>>
          \/ \E s \in ProcStates \ {"new"} : Goto(i, s)
          BY <2>4 DEF CallFails, AfterRelease, ProcStates
    <3> QED BY <2>4, <3>1, <3>2, ClientTypes, AbandonTypes DEF CallFails, Abandon, TypeOK
  <2>5. CASE SetUp(i)
    <3>1. \E s \in ProcStates \ {"new"} : Goto(i, s)
          BY <2>5 DEF SetUp, ProcStates
    <3> QED BY <2>5, <3>1, ClientTypes DEF SetUp, TypeOK
  <2>6. CASE SetUpFails(i)
    <3>1. BeginSession(i) \/ \E s \in ProcStates \ {"new"} : Goto(i, s)
          BY <2>6 DEF SetUpFails, ProcStates
    <3> QED BY <2>6, <3>1, ClientTypes DEF SetUpFails, TypeOK
  <2>7. CASE Shutdown(i)
    <3>1. proc[i] # "new" /\ \E s \in ProcStates \ {"new"} : Goto(i, s)
          BY <2>7 DEF Shutdown, ProcStates
    <3>2. Abandon(i) \/ UNCHANGED <<call, late>>
          BY <2>7 DEF Shutdown
    <3> QED BY <2>7, <3>1, <3>2, ClientTypes, AbandonTypes DEF Shutdown, Abandon, TypeOK
  <2>8. CASE Crash(i)
    <3>1. proc[i] # "new" /\ \E s \in ProcStates \ {"new"} : Goto(i, s)
          BY <2>8 DEF Crash, ProcStates
    <3> QED BY <2>8, <3>1, ClientTypes, AbandonTypes DEF Crash, Abandon, TypeOK
  <2> QED BY <1>6, <2>1, <2>2, <2>3, <2>4, <2>5, <2>6, <2>7, <2>8 DEF Client
<1>7. ASSUME NEW r \in late, Late(r)
      PROVE  TypeOK'
  <2>1. CASE LateAuthAgent(r)
        BY <2>1 DEF LateAuthAgent, TypeOK, Call
  <2>2. CASE LateExecute(r)
    <3>1. lease' \in Row \cup {NoLease}
          BY <2>2, HandleTypes DEF LateExecute, TypeOK
    <3> QED BY <2>2, <3>1 DEF LateExecute, TypeOK
  <2>3. CASE LateLost(r)
        BY <2>3 DEF LateLost, TypeOK
  <2> QED BY <1>7, <2>1, <2>2, <2>3 DEF Late
<1> QED BY <1>1, <1>2, <1>3, <1>4, <1>5, <1>6, <1>7 DEF Next

\* Lease is well typed: every row, call and process state stays in its set.
THEOREM TypeCorrect == Spec => []TypeOK
BY TypeInit, TypeStep, PTL DEF Spec

-----------------------------------------------------------------------------
(* The lock. *)

Owner == IF lease # NoLease /\ lease.live THEN lease.inst ELSE NoLease

LEMMA HandleTakesOrLoses ==
    ASSUME TypeOK, NEW r \in Call, NEW code \in Codes, Handle(r, code)
    PROVE  Owner' = Owner \/ Owner = NoLease \/ Owner' = NoLease
<1> USE DEF Owner
<1>1. CASE AcquireLease(r, code)
      BY <1>1 DEF AcquireLease, CanAcquire, TypeOK, Call, Row
<1>2. CASE RenewLease(r, code)
      BY <1>2 DEF RenewLease, HeldBy, TypeOK, Row
<1>3. CASE ReleaseLease(r, code)
      BY <1>3 DEF ReleaseLease, HeldBy, TypeOK
<1> QED BY <1>1, <1>2, <1>3 DEF Handle

LEMMA OwnerStep ==
    ASSUME TypeOK, [Next]_vars
    PROVE  Owner' = Owner \/ Owner = NoLease \/ Owner' = NoLease
<1>1. CASE UNCHANGED lease
      BY <1>1 DEF Owner
<1>2. CASE RotateToken \/ LeaseExpires
      BY <1>2 DEF RotateToken, LeaseExpires, Owner, TypeOK, Row
<1>3. ASSUME NEW i \in Instances, Execute(i)
      PROVE  Owner' = Owner \/ Owner = NoLease \/ Owner' = NoLease
      BY <1>3, HandleTakesOrLoses DEF Execute, InPhase, TypeOK
<1>4. ASSUME NEW r \in late, LateExecute(r)
      PROVE  Owner' = Owner \/ Owner = NoLease \/ Owner' = NoLease
      BY <1>4, HandleTakesOrLoses DEF LateExecute, TypeOK
<1>5. ASSUME NEW i \in Instances, Server(i) \/ Client(i)
      PROVE  UNCHANGED lease \/ Execute(i)
      BY <1>5 DEF Server, Client, AuthAgent, ServerFails, Start, SendCall,
                  ReceiveAnswer, CallFails, SetUp, SetUpFails, Shutdown, Crash
<1>6. ASSUME NEW r \in late, Late(r)
      PROVE  UNCHANGED lease \/ LateExecute(r)
      BY <1>6 DEF Late, LateAuthAgent, LateLost
<1> QED BY <1>1, <1>2, <1>3, <1>4, <1>5, <1>6 DEF Next, CalmsDown, vars

\* AcquireLease hands the tunnel over only when it is free: seen through
\* NodeConfig's "expires_at > now()" the lease is a lock that never passes
\* from one instance to another in one step, however calls are delayed.
THEOREM LeaseImplementsLock == Spec => ImplementsLock
<1>1. Init => Lock!Init
      BY DEF Init, Lock!Init, Lock!Free
<1>2. TypeOK /\ TypeOK' /\ [Next]_vars => [Lock!Next]_Owner
  <2> SUFFICES ASSUME TypeOK, TypeOK', [Next]_vars, Owner' # Owner
               PROVE  Lock!Next
      BY DEF Lock!Next
  <2>1. Owner \in Instances \cup {NoLease} /\ Owner' \in Instances \cup {NoLease}
        BY DEF TypeOK, Row, Owner
  <2>2. CASE Owner = NoLease
        BY <2>1, <2>2 DEF Lock!Next, Lock!Take, Lock!Free, Owner
  <2>3. CASE Owner' = NoLease /\ Owner # NoLease
        BY <2>3 DEF Lock!Next, Lock!Lose, Lock!Free, Owner
  <2> QED BY <2>2, <2>3, OwnerStep
<1> QED BY <1>1, <1>2, TypeInit, TypeStep, PTL DEF Spec, ImplementsLock, Lock!Spec, Owner

-----------------------------------------------------------------------------
(* Authorization. *)

\* Tokens are never ahead of the table, a call carries its process's token.
TokenInv ==
    /\ \A i \in Instances : tok[i] <= token
    /\ \A i \in Instances : call[i] # NoCall => call[i].tok = tok[i]
    /\ UnauthorizedIsTrue

\* What a call becomes in one step: itself, a longer-lived form of itself, a
\* new call of the same process, or nothing.
LEMMA CallStep ==
    ASSUME TypeOK, [Next]_vars, NEW i \in Instances, call'[i] # NoCall
    PROVE  \/ call'[i] = call[i]
           \/ /\ call[i] = NoCall /\ SendCall(i)
              /\ \E op \in Ops :
                    call'[i] = [op |-> op, inst |-> i, tok |-> tok[i], key |-> key[i],
                                phase |-> "sent", code |-> "none"]
           \/ /\ InPhase(i, "sent")
              /\ call[i].tok = token
              /\ call'[i] = [call[i] EXCEPT !.phase = "authed"]
           \/ /\ InPhase(i, "sent")
              /\ call[i].tok # token
              /\ call'[i] = [call[i] EXCEPT !.phase = "done", !.code = "unauthorized"]
           \/ /\ InPhase(i, "authed")
              /\ \E code \in Codes :
                    /\ Handle(call[i], code)
                    /\ call'[i] = [call[i] EXCEPT !.phase = "done", !.code = code]
           \/ /\ call[i] # NoCall
              /\ call'[i] = [call[i] EXCEPT !.phase = "done", !.code = "internal"]
<1>1. CASE UNCHANGED call
      BY <1>1
<1>2. ASSUME NEW j \in Instances, j # i, Server(j) \/ Client(j)
      PROVE  call'[i] = call[i]
      BY <1>2 DEF Server, Client, AuthAgent, Execute, ServerFails, Answer, Start, SendCall, Send,
                  ReceiveAnswer, CallFails, SetUp, SetUpFails, Shutdown, Crash, Abandon, TypeOK
<1>3. CASE AuthAgent(i)
      BY <1>3 DEF AuthAgent, Answer, TypeOK
<1>4. CASE Execute(i)
      BY <1>4 DEF Execute, Answer, TypeOK
<1>5. CASE ServerFails(i)
      BY <1>5 DEF ServerFails, InPhase, Answer, TypeOK
<1>6. CASE SendCall(i)
      BY <1>6 DEF SendCall, Send, TypeOK, Ops
<1>7. CASE ReceiveAnswer(i) \/ CallFails(i) \/ Crash(i) \/ Shutdown(i)
      BY <1>7 DEF ReceiveAnswer, CallFails, Shutdown, Crash, Abandon, TypeOK
<1>8. Client(i) => \/ UNCHANGED call \/ SendCall(i)
                   \/ ReceiveAnswer(i) \/ CallFails(i) \/ Crash(i) \/ Shutdown(i)
      BY DEF Client, Start, SetUp, SetUpFails
<1>9. RotateToken \/ LeaseExpires \/ CalmsDown \/ (\E r \in late : Late(r)) => UNCHANGED call
      BY DEF RotateToken, LeaseExpires, CalmsDown, Late, LateAuthAgent, LateExecute, LateLost
<1> QED BY <1>1, <1>2, <1>3, <1>4, <1>5, <1>6, <1>7, <1>8, <1>9 DEF Next, Server, vars

LEMMA TokenStep == TypeOK /\ TokenInv /\ [Next]_vars => TokenInv'
<1> SUFFICES ASSUME TypeOK, TypeOK', TokenInv, [Next]_vars PROVE TokenInv'
    BY TypeStep
<1> USE DEF TokenInv, agent
<1>1. token \in Nat /\ token' \in Nat /\ token' >= token
  <2>1. token' = token \/ token' = token + 1
        BY DEF Next, vars, RotateToken, LeaseExpires, CalmsDown, Server, Client, Late, AuthAgent,
               Execute, ServerFails, LateAuthAgent, LateExecute, LateLost, Start, SendCall,
               ReceiveAnswer, CallFails, SetUp, SetUpFails, Shutdown, Crash
  <2> QED BY <2>1 DEF TypeOK, Tokens
<1>2. ASSUME NEW i \in Instances
      PROVE  \/ tok'[i] = tok[i]
             \/ tok'[i] \in 0 .. token /\ call[i] = NoCall /\ call' = call
  <2>1. ASSUME NEW j \in Instances, Start(j)
        PROVE  \/ tok'[i] = tok[i]
               \/ tok'[i] \in 0 .. token /\ call[i] = NoCall /\ call' = call
        BY <2>1 DEF Start, TypeOK
  <2>2. (\E j \in Instances : Start(j)) \/ UNCHANGED tok
        BY DEF Next, vars, RotateToken, LeaseExpires, CalmsDown, Server, Client, Late, AuthAgent,
               Execute, ServerFails, LateAuthAgent, LateExecute, LateLost, SendCall,
               ReceiveAnswer, CallFails, SetUp, SetUpFails, Shutdown, Crash
  <2> QED BY <2>1, <2>2
<1>3. \A i \in Instances : tok'[i] <= token'
      BY <1>1, <1>2 DEF TypeOK, Tokens
<1>4. ASSUME NEW i \in Instances, call'[i] # NoCall
      PROVE  /\ call'[i].tok = tok'[i]
             /\ call'[i].phase = "done" /\ call'[i].code = "unauthorized" => tok'[i] < token'
  <2>1. CASE call'[i] = call[i]
        BY <1>1, <1>2, <1>4, <2>1 DEF UnauthorizedIsTrue, InPhase, TypeOK, Tokens
  <2>2. CASE call'[i] # call[i]
    <3>1. CASE call[i] = NoCall
      <4>1. tok'[i] = tok[i]
            BY <1>2, <2>2
      <4>2. \E op \in Ops :
              call'[i] = [op |-> op, inst |-> i, tok |-> tok[i], key |-> key[i],
                          phase |-> "sent", code |-> "none"]
            BY <1>4, <2>2, <3>1, CallStep DEF InPhase
      <4> QED BY <4>1, <4>2
    <3>2. CASE call[i] # NoCall
      <4>1. tok'[i] = tok[i] /\ call[i].tok = tok[i] /\ call[i] \in Call
            BY <1>2, <3>2 DEF TypeOK
      <4>2. call'[i].tok = tok'[i]
        <5>1. \/ call'[i] = [call[i] EXCEPT !.phase = "authed"]
              \/ \E code \in Codes : call'[i] = [call[i] EXCEPT !.phase = "done", !.code = code]
              BY <1>4, <2>2, <3>2, CallStep DEF Codes
        <5> QED BY <4>1, <5>1 DEF Call
      <4>3. ASSUME call'[i].phase = "done", call'[i].code = "unauthorized"
            PROVE  call[i].tok # token
        <5>1. ASSUME NEW code \in Codes, Handle(call[i], code)
              PROVE  code # "unauthorized"
              BY <5>1 DEF Handle, AcquireLease, RenewLease, ReleaseLease
        <5>2. ASSUME call'[i] = [call[i] EXCEPT !.phase = "authed"]
              PROVE  FALSE
              BY <4>1, <4>3, <5>2 DEF Call
        <5>3. ASSUME NEW code \in Codes,
                     call'[i] = [call[i] EXCEPT !.phase = "done", !.code = code]
              PROVE  code = "unauthorized"
              BY <4>1, <4>3, <5>3 DEF Call
        <5> QED BY <1>4, <2>2, <3>2, <5>1, <5>2, <5>3, CallStep DEF Codes
      <4> QED BY <1>1, <4>1, <4>2, <4>3 DEF TypeOK, Tokens
    <3> QED BY <3>1, <3>2
  <2> QED BY <2>1, <2>2
<1> QED BY <1>3, <1>4 DEF UnauthorizedIsTrue, InPhase

\* AuthAgent answers "unauthorized" only to a token that rotate-token replaced,
\* and no interleaving makes the answer stale: tokens do not come back.
THEOREM RefusedTokensWereReplaced == Spec => []UnauthorizedIsTrue
<1>1. Init => TokenInv
      BY DEF Init, TokenInv, UnauthorizedIsTrue, InPhase
<1> QED BY <1>1, TypeInit, TypeStep, TokenStep, PTL DEF Spec, TokenInv

-----------------------------------------------------------------------------
(* Sessions, when abandoned calls have no effect (MaxLate = 0). *)

\* What session j knows about its own calls and its own row.
SessionOK(j) ==
    /\ call[j] # NoCall =>
         /\ call[j].inst = j
         /\ call[j].op = "register"  => proc[j] = "register" /\ call[j].key = key[j]
         /\ call[j].op = "heartbeat" => proc[j] = "serving"
         /\ call[j].op = "release"   => proc[j] \in {"closing", "stopping"}
    /\ HeldBy(j) =>
         /\ proc[j] \in {"setup", "serving"} => lease.key = key[j]
         /\ InPhase(j, "done") =>
              /\ call[j].code \notin {"superseded", "lease_held"}
              /\ call[j].op = "register" /\ call[j].code = "ok" => lease.key = key[j]

SessionInv == late = {} /\ \A j \in Instances : SessionOK(j)

LEMMA NothingLate ==
    ASSUME MaxLate = 0, SessionInv, NEW i \in Instances, Abandon(i)
    PROVE  late' = {}
BY FS_EmptySet DEF Abandon, SessionInv

\* Who can come to hold the row, with which key.
LEMMA RowStep ==
    ASSUME TypeOK, SessionInv, [Next]_vars, NEW j \in Instances, HeldBy(j)'
    PROVE  \/ HeldBy(j) /\ lease'.key = lease.key
           \/ /\ Execute(j) /\ call[j].op = "register"
              /\ lease'.key = call[j].key
<1>1. CASE UNCHANGED lease
      BY <1>1 DEF HeldBy
<1>2. CASE RotateToken \/ LeaseExpires
      BY <1>2 DEF RotateToken, LeaseExpires, HeldBy, TypeOK, Row
<1>3. ASSUME NEW i \in Instances, Execute(i)
      PROVE  \/ HeldBy(j) /\ lease'.key = lease.key
             \/ i = j /\ call[i].op = "register" /\ lease'.key = call[i].key
  <2>1. call[i] \in Call /\ call[i].inst = i
        BY <1>3 DEF Execute, InPhase, TypeOK, SessionInv, SessionOK
  <2>2. PICK code \in Codes : Handle(call[i], code)
        BY <1>3 DEF Execute
  <2>3. CASE call[i].op = "register" /\ AcquireLease(call[i], code)
        BY <2>1, <2>3 DEF AcquireLease, HeldBy
  <2>4. CASE RenewLease(call[i], code)
        BY <2>4 DEF RenewLease, HeldBy, TypeOK, Row
  <2>5. CASE ReleaseLease(call[i], code)
        BY <2>5 DEF ReleaseLease, HeldBy
  <2> QED BY <2>2, <2>3, <2>4, <2>5 DEF Handle
<1>4. ASSUME NEW i \in Instances, Server(i) \/ Client(i)
      PROVE  UNCHANGED lease \/ Execute(i)
      BY <1>4 DEF Server, Client, AuthAgent, ServerFails, Start, SendCall,
                  ReceiveAnswer, CallFails, SetUp, SetUpFails, Shutdown, Crash
<1>5. late = {}
      BY DEF SessionInv
<1> QED BY <1>1, <1>2, <1>3, <1>4, <1>5 DEF Next, CalmsDown, vars

LEMMA SessionInit == Init => SessionInv
BY DEF Init, SessionInv, SessionOK, HeldBy, InPhase

\* A process that does not act keeps its session: nobody else writes its key.
LEMMA IdleSession ==
    ASSUME TypeOK, SessionInv, [Next]_vars, NEW j \in Instances,
           proc'[j] = proc[j], key'[j] = key[j], call'[j] = call[j], ~Execute(j)
    PROVE  SessionOK(j)'
BY RowStep DEF SessionInv, SessionOK, HeldBy, InPhase

LEMMA OthersIdle ==
    ASSUME TypeOK, NEW i \in Instances, Server(i) \/ Client(i),
           NEW j \in Instances, j # i
    PROVE  proc'[j] = proc[j] /\ key'[j] = key[j] /\ call'[j] = call[j] /\ ~Execute(j)
<1>1. ASSUME Execute(j)
      PROVE  FALSE
  <2>1. call'[j].phase = "done" /\ call[j].phase = "authed"
        BY <1>1 DEF Execute, InPhase, Answer, TypeOK, Call
  <2>2. call'[j] = call[j]
        BY DEF Server, Client, AuthAgent, Execute, ServerFails, Answer, Start, SendCall, Send,
               ReceiveAnswer, CallFails, SetUp, SetUpFails, Shutdown, Crash, Abandon, TypeOK
  <2> QED BY <2>1, <2>2
<1>2. proc'[j] = proc[j] /\ key'[j] = key[j] /\ call'[j] = call[j]
  <2>1. Server(i) => proc'[j] = proc[j] /\ key'[j] = key[j] /\ call'[j] = call[j]
        BY DEF Server, AuthAgent, Execute, ServerFails, Answer, TypeOK, agent
  <2>2. Client(i) => proc'[j] = proc[j] /\ key'[j] = key[j]
        BY DEF Client, Start, SendCall, ReceiveAnswer, CallFails, SetUp, SetUpFails, Shutdown,
               Crash, OnRegister, OnHeartbeat, AfterRelease, BeginSession, Goto, TypeOK, agent
  <2>3. Client(i) => call'[j] = call[j]
        BY DEF Client, Start, SendCall, Send, ReceiveAnswer, CallFails, SetUp, SetUpFails,
               Shutdown, Crash, Abandon, TypeOK
  <2> QED BY <2>1, <2>2, <2>3
<1> QED BY <1>1, <1>2

LEMMA ServerSession ==
    ASSUME TypeOK, SessionInv, [Next]_vars, NEW i \in Instances, Server(i)
    PROVE  SessionOK(i)' /\ late' = {}
<1> USE DEF agent
<1>1. call[i] \in Call /\ SessionOK(i) /\ late' = late /\ late = {}
      BY DEF Server, AuthAgent, Execute, ServerFails, InPhase, TypeOK, SessionInv
<1>2. proc'[i] = proc[i] /\ key'[i] = key[i]
      BY DEF Server, AuthAgent, Execute, ServerFails
<1>3. CASE AuthAgent(i)
  <2>1. lease' = lease
        BY <1>3 DEF AuthAgent
  <2>2. \/ call'[i] = [call[i] EXCEPT !.phase = "authed"]
        \/ call'[i] = [call[i] EXCEPT !.phase = "done", !.code = "unauthorized"]
        BY <1>3 DEF AuthAgent, Answer, TypeOK
  <2> QED BY <1>1, <1>2, <2>1, <2>2 DEF SessionOK, HeldBy, InPhase, Call
<1>4. CASE ServerFails(i)
  <2>1. lease' = lease
        BY <1>4 DEF ServerFails
  <2>2. call'[i] = [call[i] EXCEPT !.phase = "done", !.code = "internal"]
        BY <1>4 DEF ServerFails, Answer, TypeOK
  <2> QED BY <1>1, <1>2, <2>1, <2>2 DEF SessionOK, HeldBy, InPhase, Call
<1>5. CASE Execute(i)
  <2>1. PICK code \in Codes :
             /\ Handle(call[i], code)
             /\ call'[i] = [call[i] EXCEPT !.phase = "done", !.code = code]
        BY <1>5 DEF Execute, Answer, TypeOK
  <2>2. /\ call'[i].op = call[i].op /\ call'[i].inst = call[i].inst /\ call'[i].key = call[i].key
        /\ call'[i].code = code
        BY <1>1, <2>1 DEF Call
  <2>3. ASSUME HeldBy(i)'
        PROVE  code \notin {"superseded", "lease_held"}
    <3>1. CASE AcquireLease(call[i], code)
          BY <1>1, <2>3, <3>1 DEF AcquireLease, CanAcquire, HeldBy, SessionOK
    <3>2. CASE RenewLease(call[i], code)
          BY <1>1, <2>3, <3>2 DEF RenewLease, HeldBy, SessionOK
    <3>3. CASE ReleaseLease(call[i], code)
          BY <3>3 DEF ReleaseLease
    <3> QED BY <2>1, <3>1, <3>2, <3>3 DEF Handle
  <2>4. ASSUME HeldBy(i)', call[i].op = "register"
        PROVE  lease'.key = key[i]
    <3>1. code \notin {"superseded", "lease_held"}
          BY <2>3, <2>4
    <3>2. AcquireLease(call[i], code)
          BY <2>1, <2>4 DEF Handle
    <3> QED BY <1>1, <3>1, <3>2, <2>4 DEF AcquireLease, SessionOK
  <2>5. ASSUME HeldBy(i)', proc[i] \in {"setup", "serving"}
        PROVE  lease'.key = key[i]
    <3>1. (HeldBy(i) /\ lease'.key = lease.key) \/ call[i].op = "register"
          BY <2>5, RowStep
    <3> QED BY <1>1, <2>4, <2>5, <3>1 DEF SessionOK
  <2> QED BY <1>1, <1>2, <2>2, <2>3, <2>4, <2>5 DEF SessionOK
<1> QED BY <1>3, <1>4, <1>5 DEF Server

LEMMA ClientSession ==
    ASSUME MaxLate = 0, TypeOK, SessionInv, [Next]_vars, NEW i \in Instances, Client(i)
    PROVE  SessionOK(i)' /\ late' = {}
<1> USE DEF agent
<1>1. SessionOK(i) /\ late = {} /\ lease' = lease
      BY DEF SessionInv, Client, Start, SendCall, ReceiveAnswer, CallFails, SetUp, SetUpFails,
             Shutdown, Crash
<1>2. late' = {}
      BY <1>1, NothingLate DEF Client, Start, SendCall, ReceiveAnswer, CallFails, SetUp,
                               SetUpFails, Shutdown, Crash
<1>3. BeginSession(i) => proc'[i] = "register"
      BY DEF BeginSession, TypeOK
<1>4. \A s \in ProcStates : Goto(i, s) => proc'[i] = s /\ key'[i] = key[i]
      BY DEF Goto, TypeOK
<1>5. Abandon(i) => call'[i] = NoCall
      BY DEF Abandon, TypeOK
<1>6. HeldBy(i)' <=> HeldBy(i)
      BY <1>1 DEF HeldBy
<1>7. CASE Start(i)
  <2>1. call'[i] = NoCall /\ proc'[i] = "register"
        BY <1>3, <1>7 DEF Start, TypeOK
  <2> QED BY <1>2, <2>1 DEF SessionOK, InPhase
<1>8. CASE SendCall(i)
  <2>1. PICK op \in Ops :
             /\ call'[i] = [op |-> op, inst |-> i, tok |-> tok[i], key |-> key[i],
                            phase |-> "sent", code |-> "none"]
             /\ op = "register"  => proc[i] = "register"
             /\ op = "heartbeat" => proc[i] = "serving"
             /\ op = "release"   => proc[i] \in {"closing", "stopping"}
        BY <1>8 DEF SendCall, Send, TypeOK, Ops
  <2>2. proc' = proc /\ key' = key
        BY <1>8 DEF SendCall
  <2> QED BY <1>1, <1>2, <1>6, <2>1, <2>2 DEF SessionOK, InPhase
<1>9. CASE ReceiveAnswer(i)
  <2>1. call'[i] = NoCall
        BY <1>9 DEF ReceiveAnswer, TypeOK
  <2>2. ASSUME HeldBy(i), proc'[i] \in {"setup", "serving"}
        PROVE  lease.key = key'[i]
    <3>1. call[i] # NoCall /\ InPhase(i, "done")
          BY <1>9 DEF ReceiveAnswer, InPhase
    <3>2. CASE call[i].op = "register"
      <4>1. call[i].code = "ok" /\ key'[i] = key[i]
            BY <1>1, <1>3, <1>4, <1>9, <2>2, <3>1, <3>2
               DEF ReceiveAnswer, OnRegister, SessionOK, ProcStates
      <4> QED BY <1>1, <2>2, <3>1, <3>2, <4>1 DEF SessionOK
    <3>3. CASE call[i].op = "heartbeat"
      <4>1. proc[i] = "serving" /\ key'[i] = key[i]
            BY <1>1, <1>4, <1>9, <3>1, <3>3
               DEF ReceiveAnswer, OnHeartbeat, SessionOK, ProcStates
      <4> QED BY <1>1, <2>2, <4>1 DEF SessionOK
    <3>4. CASE call[i].op = "release"
          BY <1>3, <1>4, <1>9, <2>2, <3>4 DEF ReceiveAnswer, AfterRelease, ProcStates
    <3> QED BY <1>9, <3>2, <3>3, <3>4 DEF ReceiveAnswer
  <2> QED BY <1>1, <1>2, <1>6, <2>1, <2>2 DEF SessionOK, InPhase
<1>10. CASE CallFails(i)
  <2>1. call'[i] = NoCall
        BY <1>5, <1>10 DEF CallFails
  <2>2. ASSUME proc'[i] \in {"setup", "serving"}
        PROVE  proc'[i] = proc[i] /\ key'[i] = key[i]
        BY <1>3, <1>4, <1>10, <2>2 DEF CallFails, AfterRelease, ProcStates
  <2> QED BY <1>1, <1>2, <1>6, <2>1, <2>2 DEF SessionOK, InPhase
<1>11. CASE SetUp(i)
  <2>1. proc'[i] = "serving" /\ key'[i] = key[i] /\ call' = call /\ proc[i] = "setup"
        BY <1>4, <1>11 DEF SetUp, ProcStates
  <2> QED BY <1>1, <1>2, <1>6, <2>1 DEF SessionOK, InPhase, TypeOK, Call, Ops
<1>12. CASE SetUpFails(i)
  <2>1. proc'[i] \in {"exited", "register"} /\ call' = call /\ proc[i] = "setup"
        BY <1>3, <1>4, <1>12 DEF SetUpFails, ProcStates
  <2>2. call[i] = NoCall
        BY <1>1, <2>1 DEF SessionOK, TypeOK, Call, Ops
  <2> QED BY <1>2, <2>1, <2>2 DEF SessionOK, InPhase
<1>13. CASE Shutdown(i)
  <2>1. proc'[i] \in {"exited", "stopping"} /\ key'[i] = key[i]
        BY <1>4, <1>13 DEF Shutdown, ProcStates
  <2>2. call'[i] = NoCall \/ (call' = call /\ proc[i] \in {"setup", "closing"} /\ proc'[i] = "stopping")
        BY <1>4, <1>5, <1>13 DEF Shutdown, ProcStates
  <2> QED BY <1>1, <1>2, <1>6, <2>1, <2>2 DEF SessionOK, InPhase
<1>14. CASE Crash(i)
  <2>1. proc'[i] = "exited" /\ call'[i] = NoCall
        BY <1>4, <1>5, <1>14 DEF Crash, ProcStates
  <2> QED BY <1>2, <2>1 DEF SessionOK, InPhase
<1> QED BY <1>7, <1>8, <1>9, <1>10, <1>11, <1>12, <1>13, <1>14 DEF Client

LEMMA SessionStep ==
    ASSUME MaxLate = 0, TypeOK, SessionInv, [Next]_vars
    PROVE  SessionInv'
<1>1. ASSUME NEW i \in Instances, Server(i) \/ Client(i)
      PROVE  SessionInv'
  <2>1. SessionOK(i)' /\ late' = {}
        BY <1>1, ServerSession, ClientSession
  <2>2. ASSUME NEW j \in Instances, j # i
        PROVE  SessionOK(j)'
        BY <1>1, <2>2, OthersIdle, IdleSession
  <2> QED BY <2>1, <2>2 DEF SessionInv
<1>2. CASE RotateToken \/ LeaseExpires \/ CalmsDown \/ UNCHANGED vars
  <2>1. proc' = proc /\ key' = key /\ call' = call /\ late' = late
        BY <1>2 DEF RotateToken, LeaseExpires, CalmsDown, vars, agent
  <2>2. ASSUME NEW j \in Instances, Execute(j)
        PROVE  FALSE
    <3>1. call'[j].phase = "done" /\ call[j].phase = "authed"
          BY <2>2 DEF Execute, InPhase, Answer, TypeOK, Call
    <3> QED BY <2>1, <3>1
  <2> QED BY <2>1, <2>2, IdleSession DEF SessionInv
<1>3. ~ \E r \in late : Late(r)
      BY DEF SessionInv
<1> QED BY <1>1, <1>2, <1>3 DEF Next

\* A registered session that has the row is the one whose key is in it:
\* register, heartbeat and release of one process follow each other, so the
\* blind renewal of RenewLease never revives another session's key.
THEOREM SessionsKeepTheirKey ==
    ASSUME MaxLate = 0 PROVE Spec => []KeyAgreement
<1>1. TypeOK /\ SessionInv => KeyAgreement
      BY DEF SessionInv, SessionOK, KeyAgreement
<1> QED BY <1>1, TypeInit, TypeStep, SessionInit, SessionStep, PTL DEF Spec

\* "superseded" and "lease_held" are still true when the agent reads them.
THEOREM RefusalsStayTrue ==
    ASSUME MaxLate = 0 PROVE Spec => []RefusalsAreTrue
<1>1. TypeOK /\ SessionInv => RefusalsAreTrue
      BY DEF SessionInv, SessionOK, RefusalsAreTrue, InPhase
<1> QED BY <1>1, TypeInit, TypeStep, SessionInit, SessionStep, PTL DEF Spec

-----------------------------------------------------------------------------
(* The row of a serving process, whatever is still executed late. *)

\* What a process can be waiting for.
OwnCall(j) ==
    call[j] # NoCall =>
        /\ call[j].inst = j
        /\ call[j].op = "register"  => proc[j] = "register"
        /\ call[j].op = "heartbeat" => proc[j] = "serving"
        /\ call[j].op = "release"   => proc[j] \in {"closing", "stopping"}

OwnCalls == \A j \in Instances : OwnCall(j)

LEMMA OwnCallStep ==
    ASSUME TypeOK, OwnCalls, [Next]_vars, NEW j \in Instances
    PROVE  OwnCall(j)'
<1> SUFFICES ASSUME call'[j] # NoCall PROVE OwnCall(j)'
    BY DEF OwnCall
<1> USE DEF agent
<1>1. \A s \in ProcStates : Goto(j, s) => proc'[j] = s
      BY DEF Goto, TypeOK
<1>2. \/ proc'[j] = proc[j]
      \/ proc[j] = "closing" /\ proc'[j] = "stopping" /\ call'[j] = call[j]
  <2>1. ASSUME NEW i \in Instances, i # j, Server(i) \/ Client(i)
        PROVE  proc'[j] = proc[j]
        BY <2>1, OthersIdle
  <2>2. Server(j) \/ SendCall(j) => proc' = proc
        BY DEF Server, AuthAgent, Execute, ServerFails, SendCall
  <2>3. ~Start(j)
        BY DEF Start, TypeOK
  <2>4. ~ReceiveAnswer(j) /\ ~CallFails(j) /\ ~Crash(j)
        BY DEF ReceiveAnswer, CallFails, Crash, Abandon, TypeOK
  <2>5. ~SetUp(j) /\ ~SetUpFails(j)
        BY DEF SetUp, SetUpFails, OwnCalls, OwnCall, TypeOK, Call, Ops
  <2>6. CASE Shutdown(j)
    <3>1. ~Abandon(j) /\ proc[j] # "setup"
          BY <2>6 DEF Shutdown, Abandon, OwnCalls, OwnCall, TypeOK, Call, Ops
    <3> QED BY <1>1, <2>6, <3>1 DEF Shutdown, ProcStates
  <2>7. RotateToken \/ LeaseExpires \/ CalmsDown \/ UNCHANGED vars => UNCHANGED proc
        BY DEF RotateToken, LeaseExpires, CalmsDown, vars
  <2>8. ASSUME NEW r \in late, Late(r)
        PROVE  UNCHANGED proc
        BY <2>8 DEF Late, LateAuthAgent, LateExecute, LateLost
  <2> QED BY <2>1, <2>2, <2>3, <2>4, <2>5, <2>6, <2>7, <2>8 DEF Next, Client
<1>3. CASE call'[j] = call[j]
      BY <1>2, <1>3 DEF OwnCalls, OwnCall
<1>4. CASE call[j] = NoCall /\ SendCall(j)
      BY <1>4 DEF SendCall, Send, OwnCall, TypeOK
<1>5. CASE /\ call[j] # NoCall
           /\ \/ call'[j] = [call[j] EXCEPT !.phase = "authed"]
              \/ \E code \in Codes : call'[j] = [call[j] EXCEPT !.phase = "done", !.code = code]
  <2>1. call[j] \in Call
        BY <1>5 DEF TypeOK
  <2>2. call'[j].inst = call[j].inst /\ call'[j].op = call[j].op
        BY <1>5, <2>1 DEF Call
  <2> QED BY <1>2, <1>5, <2>2 DEF OwnCalls, OwnCall
<1> QED BY <1>3, <1>4, <1>5, CallStep DEF InPhase, Codes

\* Which statements leave a live row of process j alone.
LEMMA HandleKeepsRow ==
    ASSUME TypeOK, NEW r \in Call, NEW code \in Codes, Handle(r, code),
           NEW j \in Instances, HeldBy(j), lease.live, r.inst = j => r.op = "heartbeat"
    PROVE  HeldBy(j)' /\ lease'.key = lease.key
<1>1. lease \in Row
      BY DEF HeldBy, TypeOK
<1>2. CASE r.op = "register" /\ AcquireLease(r, code)
      BY <1>2 DEF AcquireLease, CanAcquire, HeldBy
<1>3. CASE RenewLease(r, code)
  <2>1. lease' = lease \/ lease' = [lease EXCEPT !.live = TRUE]
        BY <1>3 DEF RenewLease
  <2>2. lease' \in Row /\ lease'.inst = lease.inst /\ lease'.key = lease.key
        BY <1>1, <2>1 DEF Row
  <2> QED BY <2>2 DEF HeldBy
<1>4. CASE r.op = "release" /\ ReleaseLease(r, code)
      BY <1>4 DEF ReleaseLease, HeldBy
<1> QED BY <1>2, <1>3, <1>4 DEF Handle

LEMMA RowKept ==
    ASSUME TypeOK, OwnCalls, [Next]_vars, NEW j \in Instances,
           proc[j] = "serving", HeldBy(j), lease.live, token' = token
    PROVE  \/ HeldBy(j)' /\ lease'.key = lease.key
           \/ \E r \in late \ late' :
                 r.inst = j /\ r.phase = "authed" /\ r.op \in {"register", "release"}
<1>1. CASE UNCHANGED lease
      BY <1>1 DEF HeldBy
<1>2. ASSUME NEW i \in Instances, Execute(i)
      PROVE  HeldBy(j)' /\ lease'.key = lease.key
  <2>1. PICK code \in Codes : Handle(call[i], code)
        BY <1>2 DEF Execute
  <2>2. call[i] \in Call /\ call[i].inst = i /\ (i = j => call[i].op = "heartbeat")
        BY <1>2 DEF Execute, InPhase, TypeOK, Call, Ops, OwnCalls, OwnCall
  <2> QED BY <2>1, <2>2, HandleKeepsRow
<1>3. ASSUME NEW r \in late, LateExecute(r)
      PROVE  \/ HeldBy(j)' /\ lease'.key = lease.key
             \/ /\ r \in late \ late' /\ r.inst = j /\ r.phase = "authed"
                /\ r.op \in {"register", "release"}
  <2>1. PICK code \in Codes : Handle(r, code)
        BY <1>3 DEF LateExecute
  <2>2. r \in Call /\ r.phase = "authed" /\ r \notin late'
        BY <1>3 DEF LateExecute, TypeOK
  <2>3. CASE r.inst = j /\ r.op # "heartbeat"
        BY <2>2, <2>3 DEF Call, Ops
  <2>4. CASE r.inst = j => r.op = "heartbeat"
        BY <2>1, <2>2, <2>4, HandleKeepsRow
  <2> QED BY <2>3, <2>4
<1>4. ~RotateToken
      BY DEF RotateToken, TypeOK, Tokens
<1>5. CASE LeaseExpires
      BY <1>5 DEF LeaseExpires, HeldBy, TypeOK, Row
<1>6. ASSUME NEW i \in Instances, Server(i) \/ Client(i)
      PROVE  UNCHANGED lease \/ Execute(i)
      BY <1>6 DEF Server, Client, AuthAgent, ServerFails, Start, SendCall,
                  ReceiveAnswer, CallFails, SetUp, SetUpFails, Shutdown, Crash
<1>7. ASSUME NEW r \in late, Late(r)
      PROVE  UNCHANGED lease \/ LateExecute(r)
      BY <1>7 DEF Late, LateAuthAgent, LateLost
<1> QED BY <1>1, <1>2, <1>3, <1>4, <1>5, <1>6, <1>7 DEF Next, CalmsDown, vars

\* For any number of late calls: while a process serves, its live row goes or
\* changes its key by rotate-token or by a late register or release of an
\* earlier session of this same process, and by nothing else.  AcquireLease
\* refuses the other instances, ReleaseLease does not match their rows, and
\* the calls of the session itself are heartbeats.
THEOREM ServingProcessKeepsRow == Spec => ServingKeepsRow
<1>1. Init => OwnCalls
      BY DEF Init, OwnCalls, OwnCall
<1>2. TypeOK /\ OwnCalls /\ [Next]_vars => OwnCalls'
      BY OwnCallStep DEF OwnCalls
<1>3. TypeOK /\ OwnCalls /\ [Next]_vars =>
        [\A i \in Instances :
            proc[i] = "serving" /\ HeldBy(i) /\ lease.live =>
                \/ HeldBy(i)' /\ lease'.key = lease.key
                \/ token' # token
                \/ \E r \in late \ late' :
                      r.inst = i /\ r.phase = "authed" /\ r.op \in {"register", "release"}]_vars
      BY RowKept
<1> QED BY <1>1, <1>2, <1>3, TypeInit, TypeStep, PTL DEF Spec, ServingKeepsRow

-----------------------------------------------------------------------------
(* The operating process, when abandoned calls have no effect. *)

\* Only a stop, a crash or a refused token ends the session of the operating
\* process: it is not told that it was superseded.
LEMMA OperatorGoesOn ==
    ASSUME TypeOK, SessionInv, NEW i \in Instances, calm, OperatedBy(i), Server(i) \/ Client(i)
    PROVE  /\ (proc'[i] = "serving" /\ key'[i] = key[i]) \/ proc'[i] \in {"stopping", "exited"}
           /\ tok'[i] = tok[i]
<1>1. proc[i] = "serving" /\ SessionOK(i) /\ HeldBy(i)
      BY DEF OperatedBy, SessionInv
<1>2. \A s \in ProcStates : Goto(i, s) => proc'[i] = s /\ key'[i] = key[i]
      BY DEF Goto, TypeOK
<1>3. CASE Server(i) \/ SendCall(i)
      BY <1>1, <1>3 DEF Server, AuthAgent, Execute, ServerFails, SendCall, agent
<1>4. CASE ReceiveAnswer(i)
  <2>1. call[i] # NoCall /\ InPhase(i, "done") /\ tok' = tok
        BY <1>4 DEF ReceiveAnswer, InPhase
  <2>2. call[i].op = "heartbeat" /\ call[i].code # "superseded"
        BY <1>1, <1>4, <2>1 DEF SessionOK, ReceiveAnswer, AfterRelease
  <2>3. OnHeartbeat(i, call[i].code)
        BY <1>4, <2>2 DEF ReceiveAnswer
  <2> QED BY <1>1, <1>2, <2>1, <2>2, <2>3 DEF OnHeartbeat, ProcStates
<1>5. CASE Shutdown(i)
      BY <1>1, <1>2, <1>5 DEF Shutdown, ProcStates
<1>6. CASE Crash(i)
      BY <1>2, <1>6 DEF Crash, ProcStates
<1>7. ~Start(i) /\ ~CallFails(i) /\ ~SetUp(i) /\ ~SetUpFails(i)
      BY <1>1 DEF Start, CallFails, SetUp, SetUpFails
<1> QED BY <1>3, <1>4, <1>5, <1>6, <1>7 DEF Client

\* Nor does its row expire: only the row of a process that has gone does.
LEMMA OperatorStep ==
    ASSUME MaxLate = 0, TypeOK, SessionInv, [Next]_vars, NEW i \in Instances, calm, OperatedBy(i)
    PROVE  (OperatedBy(i) \/ ~Alive(i))'
<1> USE DEF agent
<1>1. /\ proc[i] = "serving" /\ tok[i] = token /\ HeldBy(i) /\ lease.live /\ lease.key = key[i]
      /\ token \in Nat /\ lease \in Row
      BY DEF OperatedBy, HeldBy, TypeOK, Tokens
<1>2. \/ proc'[i] = "serving" /\ key'[i] = key[i]
      \/ proc'[i] \in {"stopping", "exited"}
  <2>1. ASSUME NEW j \in Instances, Server(j) \/ Client(j)
        PROVE  \/ proc'[i] = "serving" /\ key'[i] = key[i]
               \/ proc'[i] \in {"stopping", "exited"}
    <3>1. CASE j = i
          BY <2>1, <3>1, OperatorGoesOn
    <3>2. CASE j # i
          BY <1>1, <2>1, <3>2, OthersIdle
    <3> QED BY <3>1, <3>2
  <2>2. RotateToken \/ LeaseExpires \/ CalmsDown \/ UNCHANGED vars => UNCHANGED <<proc, key>>
        BY DEF RotateToken, LeaseExpires, CalmsDown, vars
  <2> QED BY <1>1, <2>1, <2>2 DEF Next, SessionInv
<1>3. tok'[i] = tok[i]
  <2>1. ASSUME NEW j \in Instances, Start(j)
        PROVE  tok'[i] = tok[i]
        BY <1>1, <2>1 DEF Start, TypeOK
  <2>2. (\E j \in Instances : Start(j)) \/ UNCHANGED tok
        BY DEF Next, vars, RotateToken, LeaseExpires, CalmsDown, Server, Client, Late, AuthAgent,
               Execute, ServerFails, LateAuthAgent, LateExecute, LateLost, SendCall,
               ReceiveAnswer, CallFails, SetUp, SetUpFails, Shutdown, Crash
  <2> QED BY <2>1, <2>2
<1>4. CASE token' # token
      BY <1>1, <1>3, <1>4 DEF Alive
<1>5. CASE token' = token
  <2>1. HeldBy(i)' /\ lease'.key = lease.key
        BY <1>1, <1>5, RowKept DEF SessionInv, SessionOK, OwnCalls, OwnCall
  <2>2. lease'.live
    <3>1. CASE UNCHANGED lease
          BY <1>1, <3>1
    <3>2. ASSUME NEW j \in Instances, Execute(j)
          PROVE  lease'.live
      <4>1. PICK code \in Codes : Handle(call[j], code)
            BY <3>2 DEF Execute
      <4>2. CASE AcquireLease(call[j], code)
            BY <1>1, <4>2 DEF AcquireLease
      <4>3. CASE RenewLease(call[j], code)
            BY <1>1, <4>3 DEF RenewLease, Row
      <4>4. CASE ReleaseLease(call[j], code)
            BY <1>1, <2>1, <4>4 DEF ReleaseLease, HeldBy
      <4> QED BY <4>1, <4>2, <4>3, <4>4 DEF Handle
    <3>3. ~LeaseExpires
          BY <1>1 DEF LeaseExpires, HeldBy
    <3>4. ~RotateToken
      <4>1. token' # token + 1
            BY <1>1, <1>5
      <4> QED BY <4>1 DEF RotateToken
    <3>5. ASSUME NEW j \in Instances, Server(j) \/ Client(j)
          PROVE  UNCHANGED lease \/ Execute(j)
          BY <3>5 DEF Server, Client, AuthAgent, ServerFails, Start, SendCall,
                      ReceiveAnswer, CallFails, SetUp, SetUpFails, Shutdown, Crash
    <3> QED BY <3>1, <3>2, <3>3, <3>4, <3>5 DEF Next, CalmsDown, vars, SessionInv
  <2>3. CASE proc'[i] = "serving" /\ key'[i] = key[i]
        BY <1>1, <1>3, <1>5, <2>1, <2>2, <2>3 DEF OperatedBy
  <2>4. CASE proc'[i] \in {"stopping", "exited"}
        BY <2>4 DEF Alive
  <2> QED BY <1>2, <2>3, <2>4
<1> QED BY <1>4, <1>5

\* Once calls do not fail any more, the process that operates the tunnel keeps
\* it until it stops or its token is rotated, whatever other processes with the
\* same token try.
THEOREM OperatorIsStable ==
    ASSUME MaxLate = 0 PROVE Spec => StableOperator
<1>1. TypeOK /\ SessionInv /\ [Next]_vars =>
        [\A i \in Instances : calm /\ OperatedBy(i) => (OperatedBy(i) \/ ~Alive(i))']_vars
      BY OperatorStep
<1> QED BY <1>1, TypeInit, TypeStep, SessionInit, SessionStep, PTL DEF Spec, StableOperator
=============================================================================
