---------------------------- MODULE AcmeDnsProofs ----------------------------
(* What TLAPS proves of AcmeDns, for any orders, names and number of failures. *)
EXTENDS AcmeDns, FiniteSetTheorems, TLAPS

USE NamesAssumption, SetupsAssumption, FailuresAssumption, NoCallAssumption

-----------------------------------------------------------------------------
(* What a step may change.                                                   *)

\* The agent keeps the ids of its own challenges under their own keys.
IdsInv == \A k \in DOMAIN ids : k = challengeKey(ids[k])

Recorded(c) == [id |-> c, record |-> TRUE] \in rows

\* A step of one order is its own, even when two orders share a name.
LEMMA Frame ==
    ASSUME TypeOK, IdsInv, NEW c \in Challenges, Api(c) \/ Agent(c),
           NEW d \in Challenges, d # c
    PROVE  /\ job'[d] = job[d] /\ call'[d] = call[d]
           /\ HasRow(d)' <=> HasRow(d)
           /\ Recorded(d)' <=> Recorded(d)
           /\ d \in external' <=> d \in external
           /\ challengeKey(d) \in DOMAIN ids =>
                 challengeKey(d) \in DOMAIN ids' /\ ids'[challengeKey(d)] = ids[challengeKey(d)]
<1> USE DEF TypeOK, agent, HasRow, Recorded, challengeKey
<1>1. CASE Unauthorized(c) \/ Refuse(c) \/ DNSChallenge(c) \/ StoreFails(c) \/ CallLost(c) \/ AnswerLost(c)
      BY <1>1 DEF Unauthorized, Refuse, DNSChallenge, StoreFails, CallLost, AnswerLost, Answer
<1>2. CASE CreateTXT(c) \/ DeleteRecord(c)
      BY <1>2 DEF CreateTXT, DeleteRecord, Answer, do
<1>3. CASE CreateDNSChallenge(c) \/ DeleteDNSChallenge(c)
      BY <1>3 DEF CreateDNSChallenge, DeleteDNSChallenge, Answer
<1>4. CASE AppendRecords(c) \/ Deleted(c) \/ CallFails(c)
      BY <1>4 DEF AppendRecords, Deleted, CallFails, Goto, Send
<1>5. CASE Appended(c)
      BY <1>5 DEF Appended, Goto
<1>6. CASE DeleteRecords(c)
  <2>1. CASE challengeKey(c) \in DOMAIN ids
    <3>1. ids[challengeKey(c)] = c
          BY <2>1 DEF IdsInv
    <3> QED BY <1>6, <2>1, <3>1 DEF DeleteRecords, Goto, Send
  <2>2. CASE challengeKey(c) \notin DOMAIN ids
        BY <1>6, <2>2 DEF DeleteRecords, Goto
  <2> QED BY <2>1, <2>2
<1> QED BY <1>1, <1>2, <1>3, <1>4, <1>5, <1>6 DEF Api, Agent

-----------------------------------------------------------------------------
(* Types.                                                                    *)

\* What the record of a call becomes in a step of the API, and of the agent.
LEMMA Answers ==
    ASSUME TypeOK, NEW c \in Challenges, call[c] # NoCall, NEW ok \in BOOLEAN, Answer(c, ok)
    PROVE  /\ call' \in [Challenges -> Call \cup {NoCall}]
           /\ \A d \in Challenges : d # c => call'[d] = call[d]
           /\ call[c] \in Call /\ call'[c] \in Call /\ call'[c] # NoCall
           /\ call'[c].phase = "answered" /\ call'[c].ok = ok
           /\ call'[c].op = call[c].op /\ call'[c].record = call[c].record /\ call'[c].heard = call[c].heard
<1>1. call[c] \in Call /\ call' = [call EXCEPT ![c].phase = "answered", ![c].ok = ok]
      BY DEF TypeOK, Answer
<1>2. call' = [call EXCEPT ![c] = [call[c] EXCEPT !.phase = "answered", !.ok = ok]]
      BY <1>1 DEF TypeOK
<1>3. [call[c] EXCEPT !.phase = "answered", !.ok = ok] \in Call
      BY <1>1 DEF Call, Phases
<1>4. call' \in [Challenges -> Call \cup {NoCall}] /\ call'[c] = [call[c] EXCEPT !.phase = "answered", !.ok = ok]
      BY <1>2, <1>3 DEF TypeOK
<1> QED BY <1>1, <1>2, <1>3, <1>4 DEF TypeOK, Call

LEMMA Advances ==
    ASSUME TypeOK, NEW c \in Challenges, call[c] # NoCall, NEW phase \in Phases, NEW record \in BOOLEAN,
           call' = [call EXCEPT ![c].phase = phase, ![c].record = record]
    PROVE  /\ call' \in [Challenges -> Call \cup {NoCall}]
           /\ \A d \in Challenges : d # c => call'[d] = call[d]
           /\ call[c] \in Call /\ call'[c] \in Call /\ call'[c] # NoCall
           /\ call'[c].phase = phase /\ call'[c].record = record
           /\ call'[c].op = call[c].op /\ call'[c].ok = call[c].ok /\ call'[c].heard = call[c].heard
<1>1. call[c] \in Call
      BY DEF TypeOK
<1>2. call' = [call EXCEPT ![c] = [call[c] EXCEPT !.phase = phase, !.record = record]]
      BY <1>1 DEF TypeOK
<1>3. [call[c] EXCEPT !.phase = phase, !.record = record] \in Call
      BY <1>1 DEF Call
<1>4. call' \in [Challenges -> Call \cup {NoCall}] /\ call'[c] = [call[c] EXCEPT !.phase = phase, !.record = record]
      BY <1>2, <1>3 DEF TypeOK
<1> QED BY <1>1, <1>2, <1>3, <1>4 DEF TypeOK, Call

\* One call of the provider.
LEMMA Provider ==
    ASSUME TypeOK, NEW effect \in SUBSET Challenges, NEW ok \in BOOLEAN, do(effect, ok)
    PROVE  /\ external' \in {external, effect} /\ external' \subseteq Challenges
           /\ failures' \in 0 .. MaxFailures
           /\ ok => external' = effect /\ failures' = failures
           /\ ~ok => failures' = failures + 1
BY DEF do, Fails, TypeOK

LEMMA Sends ==
    ASSUME TypeOK, NEW c \in Challenges, NEW op \in {"create", "delete"}, Send(c, op)
    PROVE  /\ call' \in [Challenges -> Call \cup {NoCall}]
           /\ \A d \in Challenges : d # c => call'[d] = call[d]
           /\ call'[c] \in Call /\ call'[c] # NoCall /\ call'[c].heard
           /\ call'[c].op = op /\ call'[c].phase = (IF valid THEN "sent" ELSE "revoked")
           /\ ~call'[c].record
<1> DEFINE r == [op |-> op, phase |-> IF valid THEN "sent" ELSE "revoked",
                 record |-> FALSE, ok |-> FALSE, heard |-> TRUE]
<1>1. r \in Call
      BY DEF Call, Phases
<1>2. call' = [call EXCEPT ![c] = r]
      BY DEF Send
<1>3. /\ r # NoCall /\ r.heard /\ r.op = op /\ ~r.record
      /\ r.phase = (IF valid THEN "sent" ELSE "revoked")
      BY <1>1
<1> HIDE DEF r
<1>4. call'[c] = r /\ \A d \in Challenges : d # c => call'[d] = call[d]
      BY <1>2 DEF TypeOK
<1>5. call' \in [Challenges -> Call \cup {NoCall}]
      BY <1>1, <1>2 DEF TypeOK
<1> QED BY <1>1, <1>3, <1>4, <1>5

\* The parts of TypeOK that a step of one order changes.
LEMMA OwnTypes ==
    ASSUME TypeOK, NEW c \in Challenges,
           call' \in [Challenges -> Call \cup {NoCall}],
           \A d \in Challenges : d # c => call'[d] = call[d],
           NEW state \in Jobs, job' = [job EXCEPT ![c] = state],
           (call'[c] # NoCall /\ call'[c].heard) <=> state \in {"appending", "deleting"},
           DOMAIN ids' \subseteq Keys, \A k \in DOMAIN ids' : ids'[k] \in Challenges,
           rows' \subseteq Row, external' \subseteq Challenges, failures' \in 0 .. MaxFailures,
           UNCHANGED dns
    PROVE  TypeOK'
BY DEF TypeOK, dns, setup

LEMMA StepTypes ==
    ASSUME TypeOK, IdsInv, NEW c \in Challenges, Api(c) \/ Agent(c)
    PROVE  TypeOK' /\ IdsInv'
<1> USE DEF agent
<1>0. /\ job[c] \in Jobs /\ job = [job EXCEPT ![c] = job[c]] /\ rows \subseteq Row
      /\ call[c] # NoCall => call[c] \in Call
      /\ (call[c] # NoCall /\ call[c].heard) <=> job[c] \in {"appending", "deleting"}
      /\ external \subseteq Challenges /\ failures \in 0 .. MaxFailures
      /\ DOMAIN ids \subseteq Keys /\ \A k \in DOMAIN ids : ids[k] \in Challenges
      BY DEF TypeOK
<1>1. ASSUME NEW ok \in BOOLEAN, call[c] # NoCall, Answer(c, ok), UNCHANGED <<agent, dns>>,
             rows' \subseteq Row, external' \subseteq Challenges, failures' \in 0 .. MaxFailures
      PROVE  TypeOK' /\ IdsInv'
  <2>1. /\ call' \in [Challenges -> Call \cup {NoCall}]
        /\ \A d \in Challenges : d # c => call'[d] = call[d]
        /\ call'[c] # NoCall /\ call'[c].heard = call[c].heard
        BY <1>1, Answers DEF Call
  <2>2. TypeOK'
        BY <1>0, <1>1, <2>1, OwnTypes
  <2> QED BY <1>1, <2>2 DEF IdsInv, challengeKey
<1>2. ASSUME NEW phase \in Phases, NEW known \in BOOLEAN, call[c] # NoCall,
             call' = [call EXCEPT ![c].phase = phase, ![c].record = known],
             UNCHANGED <<agent, dns, rows>>,
             external' \subseteq Challenges, failures' \in 0 .. MaxFailures
      PROVE  TypeOK' /\ IdsInv'
  <2>1. /\ call' \in [Challenges -> Call \cup {NoCall}]
        /\ \A d \in Challenges : d # c => call'[d] = call[d]
        /\ call'[c] # NoCall /\ call'[c].heard = call[c].heard
        BY <1>2, Advances DEF Call
  <2>2. TypeOK'
    <3>1. job' = [job EXCEPT ![c] = job[c]] /\ ids' = ids /\ rows' \subseteq Row /\ UNCHANGED dns
          BY <1>0, <1>2
    <3>2. external' \subseteq Challenges /\ failures' \in 0 .. MaxFailures
          BY <1>2
    <3>3. (call'[c] # NoCall /\ call'[c].heard) <=> job[c] \in {"appending", "deleting"}
          BY <1>0, <1>2, <2>1
    <3> QED BY <1>0, <2>1, <3>1, <3>2, <3>3, OwnTypes
  <2> QED BY <1>2, <2>2 DEF IdsInv, challengeKey
<1>3. CASE Refuse(c) \/ Unauthorized(c)
      BY <1>0, <1>1, <1>3 DEF Refuse, Unauthorized, At
<1>4. CASE CreateTXT(c)
  <2>1. PICK ok \in BOOLEAN : do(external \cup {c}, ok)
        BY <1>4 DEF CreateTXT
  <2>2. external' \subseteq Challenges /\ failures' \in 0 .. MaxFailures
        BY <1>0, <2>1, Provider
  <2>3. call[c] # NoCall /\ UNCHANGED <<agent, dns, rows>>
        BY <1>4 DEF CreateTXT, At
  <2>4. CASE call' = [call EXCEPT ![c].phase = "external", ![c].record = TRUE]
        BY <1>2, <2>2, <2>3, <2>4 DEF Phases
  <2>5. CASE Answer(c, FALSE)
        BY <1>0, <1>1, <2>2, <2>3, <2>5
  <2> QED BY <1>4, <2>4, <2>5 DEF CreateTXT
<1>5. CASE CreateDNSChallenge(c)
  <2>1. call[c] # NoCall /\ [id |-> c, record |-> call[c].record] \in Row
        BY <1>0, <1>5 DEF CreateDNSChallenge, At, Call, Row
  <2>2. rows' \subseteq Row /\ failures' \in 0 .. MaxFailures
        BY <1>0, <1>5, <2>1 DEF CreateDNSChallenge, Fails
  <2> QED BY <1>0, <1>1, <1>5, <2>1, <2>2 DEF CreateDNSChallenge
<1>6. CASE DNSChallenge(c)
  <2>1. call[c] # NoCall /\ UNCHANGED <<agent, dns, rows, external, failures>>
        BY <1>6 DEF DNSChallenge, At
  <2>2. CASE HasRow(c)
    <3> DEFINE record == [id |-> c, record |-> TRUE] \in rows
    <3>1. call' = [call EXCEPT ![c].phase = "external", ![c].record = record] /\ record \in BOOLEAN
          BY <1>6, <2>2 DEF DNSChallenge
    <3> HIDE DEF record
    <3> QED BY <1>0, <1>2, <2>1, <3>1 DEF Phases
  <2>3. CASE ~HasRow(c)
        BY <1>0, <1>1, <1>6, <2>1, <2>3 DEF DNSChallenge
  <2> QED BY <2>2, <2>3
<1>7. CASE DeleteRecord(c)
  <2>1. call[c] # NoCall /\ call[c].phase = "external"
        BY <1>7 DEF DeleteRecord, At
  <2>2. external' \subseteq Challenges /\ failures' \in 0 .. MaxFailures
        BY <1>0, <1>7, Provider DEF DeleteRecord
  <2>3. call' = [call EXCEPT ![c].phase = "external", ![c].record = FALSE]
    <3>1. call' = [call EXCEPT ![c].record = FALSE] /\ call[c] \in Call
          BY <1>0, <1>7, <2>1 DEF DeleteRecord
    <3>2. [call EXCEPT ![c].phase = "external"] = call
          BY <2>1, <3>1 DEF TypeOK, Call
    <3> QED BY <3>1, <3>2
  <2> QED BY <1>2, <1>7, <2>1, <2>2, <2>3 DEF DeleteRecord, Phases
<1>8. CASE DeleteDNSChallenge(c)
      BY <1>0, <1>1, <1>8 DEF DeleteDNSChallenge, At
<1>9. CASE StoreFails(c)
  <2>1. failures' \in 0 .. MaxFailures
        BY <1>0, <1>9 DEF StoreFails, Fails
  <2> QED BY <1>0, <1>1, <1>9, <2>1 DEF StoreFails
<1>10. ASSUME NEW state \in Jobs, job' = [job EXCEPT ![c] = state], call' = [call EXCEPT ![c] = NoCall],
              state \notin {"appending", "deleting"},
              DOMAIN ids' \subseteq Keys, \A k \in DOMAIN ids' : ids'[k] \in Challenges,
              UNCHANGED <<rows, external, dns, failures>>
       PROVE  TypeOK'
  <2>1. /\ call' \in [Challenges -> Call \cup {NoCall}] /\ call'[c] = NoCall
        /\ \A d \in Challenges : d # c => call'[d] = call[d]
        BY <1>10 DEF TypeOK
  <2> QED BY <1>0, <1>10, <2>1, OwnTypes
<1>11. CASE CallLost(c) \/ AnswerLost(c)
  <2>1. job[c] \notin {"appending", "deleting"}
        BY <1>0, <1>11 DEF CallLost, AnswerLost
  <2>2. TypeOK'
        BY <1>0, <1>10, <1>11, <2>1 DEF CallLost, AnswerLost
  <2> QED BY <1>11, <2>2 DEF CallLost, AnswerLost, IdsInv, challengeKey
<1>12. CASE AppendRecords(c)
  <2>1. TypeOK'
    <3>1. Send(c, "create") /\ job' = [job EXCEPT ![c] = "appending"] /\ "appending" \in Jobs
          BY <1>12 DEF AppendRecords, Goto, Jobs
    <3>2. /\ call' \in [Challenges -> Call \cup {NoCall}] /\ call'[c] # NoCall /\ call'[c].heard
          /\ \A d \in Challenges : d # c => call'[d] = call[d]
          BY <3>1, Sends
    <3> QED BY <1>0, <1>12, <3>1, <3>2, OwnTypes DEF AppendRecords
  <2> QED BY <1>12, <2>1 DEF AppendRecords, IdsInv, challengeKey
<1>13. CASE Appended(c)
  <2>1. /\ DOMAIN ids' \subseteq Keys
        /\ \A k \in DOMAIN ids' : ids'[k] \in Challenges /\ k = challengeKey(ids'[k])
        BY <1>0, <1>13 DEF Appended, Keys, IdsInv
  <2>2. TypeOK'
        BY <1>0, <1>10, <1>13, <2>1 DEF Appended, Goto, Jobs
  <2> QED BY <2>1, <2>2 DEF IdsInv, challengeKey
<1>14. CASE DeleteRecords(c)
  <2>1. /\ DOMAIN ids' \subseteq Keys
        /\ \A k \in DOMAIN ids' : ids'[k] \in Challenges /\ k = challengeKey(ids'[k])
        BY <1>0, <1>14 DEF DeleteRecords, IdsInv
  <2>2. CASE challengeKey(c) \in DOMAIN ids
    <3>1. ids[challengeKey(c)] = c
          BY <2>2 DEF IdsInv, challengeKey
    <3>2. TypeOK'
          BY <1>0, <1>14, <2>1, <2>2, <3>1, Sends, OwnTypes DEF DeleteRecords, Goto, Jobs
    <3> QED BY <2>1, <3>2 DEF IdsInv, challengeKey
  <2>3. CASE challengeKey(c) \notin DOMAIN ids
    <3>1. UNCHANGED call /\ job' = [job EXCEPT ![c] = "finished"] /\ ~(call[c] # NoCall /\ call[c].heard)
          BY <1>0, <1>14, <2>3 DEF DeleteRecords, Goto
    <3>2. call \in [Challenges -> Call \cup {NoCall}]
          BY DEF TypeOK
    <3>3. TypeOK'
          BY <1>0, <1>14, <2>1, <3>1, <3>2, OwnTypes DEF DeleteRecords, Jobs
    <3> QED BY <2>1, <3>3 DEF IdsInv, challengeKey
  <2> QED BY <2>2, <2>3
<1>15. CASE Deleted(c)
  <2>1. TypeOK'
        BY <1>0, <1>10, <1>15 DEF Deleted, Goto, Jobs
  <2> QED BY <1>15, <2>1 DEF Deleted, IdsInv, challengeKey
<1>16. CASE CallFails(c)
  <2>1. /\ call' \in [Challenges -> Call \cup {NoCall}] /\ ~call'[c].heard
        /\ \A d \in Challenges : d # c => call'[d] = call[d]
        BY <1>0, <1>16 DEF CallFails, TypeOK, Call
  <2>2. failures' \in 0 .. MaxFailures
        BY <1>0, <1>16 DEF CallFails, Fails
  <2>3. TypeOK'
        BY <1>0, <1>16, <2>1, <2>2, OwnTypes DEF CallFails, Goto, Jobs
  <2> QED BY <1>16, <2>3 DEF CallFails, IdsInv, challengeKey
<1> QED BY <1>3, <1>4, <1>5, <1>6, <1>7, <1>8, <1>9, <1>11, <1>12, <1>13, <1>14, <1>15, <1>16 DEF Api, Agent

LEMMA InitTypes == Init => TypeOK /\ IdsInv
<1> SUFFICES ASSUME Init PROVE TypeOK /\ IdsInv
    OBVIOUS
<1>1. DOMAIN ids = {} /\ IdsInv
      BY DEF Init, IdsInv
<1>2. setup \in BOOLEAN \X BOOLEAN \X BOOLEAN /\ valid \in BOOLEAN /\ interrupted \subseteq Challenges
  <2>1. PICK s \in Setups : provider = s[1] /\ public = s[2] /\ served = s[3]
        BY DEF Init
  <2>2. setup \in BOOLEAN \X BOOLEAN \X BOOLEAN
        BY <2>1 DEF setup
  <2> QED BY <2>2 DEF Init
<1>3. /\ job \in [Challenges -> Jobs] /\ call \in [Challenges -> Call \cup {NoCall}]
      /\ \A c \in Challenges : (call[c] # NoCall /\ call[c].heard) <=> job[c] \in {"appending", "deleting"}
      BY DEF Init, Jobs
<1>4. rows \subseteq Row /\ external \subseteq Challenges /\ zone = NoCall /\ failures = 0
      BY DEF Init
<1>5. zone \in (SUBSET Challenges) \cup {NoCall}
      BY <1>4
<1>6. failures \in 0 .. MaxFailures
      BY <1>4
<1>7. DOMAIN ids \subseteq Keys /\ \A k \in DOMAIN ids : ids[k] \in Challenges
      BY <1>1
<1> QED BY <1>1, <1>2, <1>3, <1>4, <1>5, <1>6, <1>7 DEF TypeOK

-----------------------------------------------------------------------------
(* What the steps of an order and of its call have left behind, by where the *)
(* two are, whatever failed before.                                          *)

\* The row and the external record of c are there, and the row says so.
Stored(c) ==
    /\ HasRow(c)
    /\ Recorded(c) <=> c \in external
    /\ Recorded(c) => provider

Nothing(c) == ~HasRow(c) /\ c \notin external

CallInv(c) ==
    LET r == call[c]
    IN  /\ job[c] \in {"finished", IF r.op = "create" THEN "appending" ELSE "deleting"}
        /\ r.op = "create" /\ r.phase \in {"sent", "revoked"} => Nothing(c) /\ ~r.record
        /\ r.op = "create" /\ r.phase = "external" =>
              ~HasRow(c) /\ c \in external /\ r.record /\ provider
        /\ r.op = "create" /\ r.phase = "answered" /\ r.ok => Stored(c)

\* Since the token changed, an order that was not under way then is turned away
\* before it has stored anything, and none is there to be deleted.
TurnedAway(c) ==
    /\ job[c] = "appending" /\ ~valid =>
          call[c].phase = "revoked" \/ (call[c].phase = "answered" /\ ~call[c].ok)
    /\ job[c] = "presented" => valid
    /\ job[c] = "deleting"  => call[c].phase # "revoked"

OrderInv(c) ==
    /\ job[c] = "new" => call[c] = NoCall /\ Nothing(c)
    /\ job[c] = "presented" =>
          /\ call[c] = NoCall /\ Stored(c)
          /\ challengeKey(c) \in DOMAIN ids /\ ids[challengeKey(c)] = c
    /\ call[c] # NoCall => CallInv(c)
    /\ c \in interrupted \/ TurnedAway(c)

\* Nothing has gone wrong for c that could leave a TXT behind.
Clean(c) ==
    /\ job[c] = "appending" /\ call[c].phase = "answered" /\ ~call[c].ok => Nothing(c)
    /\ job[c] = "deleting" =>
          /\ call[c].phase = "sent"     => Stored(c)
          /\ call[c].phase = "external" => (c \in external => call[c].record /\ provider)
          /\ call[c].phase = "answered" => Nothing(c)
    /\ job[c] = "finished" => call[c] = NoCall /\ Nothing(c)

\* ... but for a restart or a rotation while it was under way.
Sound(c) == c \in interrupted \/ Clean(c)

\* The order that steps: it keeps to its protocol, and what can leave a TXT
\* behind counts as a failure.
LEMMA OwnStep ==
    ASSUME TypeOK, IdsInv, NEW c \in Challenges, OrderInv(c), Api(c) \/ Agent(c)
    PROVE  /\ OrderInv(c)'
           /\ \/ failures' = failures /\ (Sound(c) => Sound(c)')
              \/ failures' = failures + 1
<1> USE DEF agent, dns, setup, OrderInv, CallInv, TurnedAway, Sound, Clean, Stored, Nothing
<1>0. /\ call[c] # NoCall => call[c] \in Call
      /\ (call[c] # NoCall /\ call[c].heard) <=> job[c] \in {"appending", "deleting"}
      /\ call[c] # NoCall => /\ call[c].op \in {"create", "delete"} /\ call[c].phase \in Phases
                             /\ call[c].record \in BOOLEAN /\ call[c].ok \in BOOLEAN
      /\ failures \in Nat
      BY DEF TypeOK, Call
<1>1. rows' = rows => (HasRow(c)' <=> HasRow(c)) /\ (Recorded(c)' <=> Recorded(c))
      BY DEF HasRow, Recorded
<1>2. ASSUME NEW s, Goto(c, s)
      PROVE  job'[c] = s
      BY <1>2 DEF Goto, TypeOK
<1>16. CASE Unauthorized(c)
  <2>1. /\ call[c] # NoCall /\ call[c].phase = "revoked" /\ Answer(c, FALSE)
        /\ UNCHANGED <<agent, rows, external, dns, failures>>
        BY <1>16 DEF Unauthorized
  <2> QED BY <1>0, <1>1, <2>1, Answers
<1>3. CASE Refuse(c)
  <2>1. At(c, "create", "sent") /\ Answer(c, FALSE) /\ UNCHANGED <<agent, rows, external, dns, failures>>
        BY <1>3 DEF Refuse
  <2> QED BY <1>0, <1>1, <2>1, Answers DEF At
<1>4. CASE CreateTXT(c)
  <2>1. At(c, "create", "sent") /\ provider /\ UNCHANGED <<agent, rows, dns>>
        BY <1>4 DEF CreateTXT
  <2>2. CASE do(external \cup {c}, TRUE) /\ call' = [call EXCEPT ![c].phase = "external", ![c].record = TRUE]
    <3>1. external' = external \cup {c} /\ failures' = failures
          BY <2>2 DEF do
    <3>2. "external" \in Phases /\ TRUE \in BOOLEAN /\ call[c] # NoCall
          BY <2>1 DEF At, Phases
    <3>3. /\ call'[c] \in Call /\ call'[c] # NoCall
          /\ call'[c].phase = "external" /\ call'[c].record = TRUE
          /\ call'[c].op = call[c].op /\ call'[c].ok = call[c].ok /\ call'[c].heard = call[c].heard
          BY <2>2, <3>2, Advances
    <3>4. job' = job /\ rows' = rows /\ UNCHANGED <<agent, dns>> /\ provider' = provider
          BY <2>1
    <3> QED BY <1>0, <1>1, <2>1, <3>1, <3>3, <3>4 DEF At, Phases
  <2>3. CASE do(external \cup {c}, FALSE) /\ Answer(c, FALSE)
    <3>1. failures' = failures + 1
          BY <2>3 DEF do, Fails
    <3> QED BY <1>0, <1>1, <2>1, <2>3, <3>1, Answers DEF At
  <2> QED BY <1>4, <2>2, <2>3 DEF CreateTXT
<1>5. CASE CreateDNSChallenge(c)
  <2>1. /\ At(c, "create", IF provider THEN "external" ELSE "sent")
        /\ rows' = rows \cup {[id |-> c, record |-> call[c].record]}
        /\ Answer(c, TRUE) /\ UNCHANGED <<agent, external, dns>>
        BY <1>5 DEF CreateDNSChallenge
  <2>2. /\ ~HasRow(c) /\ (call[c].record <=> provider) /\ (c \in external <=> provider)
    <3>1. CASE provider
          BY <2>1, <3>1 DEF At
    <3>2. CASE ~provider
          BY <1>0, <2>1, <3>2 DEF At
    <3> QED BY <3>1, <3>2
  <2>3. HasRow(c)' /\ (Recorded(c)' <=> provider)
    <3>1. HasRow(c)'
      <4>1. [id |-> c, record |-> call[c].record] \in rows'
            BY <2>1
      <4>2. [id |-> c, record |-> call[c].record].id = c
            OBVIOUS
      <4> QED BY <4>1, <4>2 DEF HasRow
    <3>2. [id |-> c, record |-> TRUE] \notin rows
          BY <2>2 DEF HasRow
    <3>3. call[c].record = TRUE <=> provider
          BY <1>0, <2>1, <2>2 DEF At
    <3>4. [id |-> c, record |-> TRUE] = [id |-> c, record |-> call[c].record] <=> call[c].record = TRUE
          OBVIOUS
    <3> QED BY <2>1, <3>1, <3>2, <3>3, <3>4 DEF Recorded
  <2>4. failures' \in {failures, failures + 1}
        BY <1>5 DEF CreateDNSChallenge, Fails
  <2> QED BY <1>0, <2>1, <2>2, <2>3, <2>4, Answers DEF At
<1>6. CASE DNSChallenge(c)
  <2>1. At(c, "delete", "sent") /\ UNCHANGED <<agent, rows, external, dns, failures>>
        BY <1>6 DEF DNSChallenge
  <2>2. CASE HasRow(c)
    <3> DEFINE known == [id |-> c, record |-> TRUE] \in rows
    <3>1. call' = [call EXCEPT ![c].phase = "external", ![c].record = known] /\ known \in BOOLEAN
          BY <1>6, <2>2 DEF DNSChallenge
    <3>2. known <=> Recorded(c)
          BY DEF Recorded
    <3> HIDE DEF known
    <3>3. /\ call'[c] # NoCall /\ call'[c].phase = "external" /\ call'[c].record = known
          /\ call'[c].op = call[c].op
          BY <2>1, <3>1, Advances DEF At, Phases
    <3> QED BY <1>0, <1>1, <2>1, <3>2, <3>3 DEF At
  <2>3. CASE ~HasRow(c)
    <3>1. Answer(c, TRUE)
          BY <1>6, <2>3 DEF DNSChallenge
    <3> QED BY <1>0, <1>1, <2>1, <2>3, <3>1, Answers DEF At
  <2> QED BY <2>2, <2>3
<1>7. CASE DeleteRecord(c)
  <2>1. At(c, "delete", "external") /\ provider /\ UNCHANGED <<agent, rows, dns>>
        BY <1>7 DEF DeleteRecord
  <2>2. /\ call'[c] # NoCall /\ call'[c].phase = "external"
        /\ call'[c].op = call[c].op
        BY <1>0, <1>7, <2>1 DEF DeleteRecord, TypeOK, Call, At
  <2>3. (failures' = failures /\ external' = external \ {c}) \/ failures' = failures + 1
        BY <1>7 DEF DeleteRecord, do, Fails
  <2> QED BY <1>0, <1>1, <2>1, <2>2, <2>3 DEF At
<1>8. CASE DeleteDNSChallenge(c)
  <2>1. /\ At(c, "delete", "external") /\ ~(call[c].record /\ provider)
        /\ Answer(c, TRUE) /\ UNCHANGED <<agent, external, dns, failures>>
        BY <1>8 DEF DeleteDNSChallenge
  <2>2. ~HasRow(c)'
        BY <1>8 DEF DeleteDNSChallenge, HasRow
  <2> QED BY <1>0, <2>1, <2>2, Answers DEF At
<1>9. CASE StoreFails(c)
  <2>1. /\ call[c] # NoCall /\ call[c].phase # "answered" /\ Answer(c, FALSE)
        /\ UNCHANGED <<agent, rows, external, dns>> /\ failures' = failures + 1
        BY <1>9 DEF StoreFails, Fails
  <2> QED BY <1>0, <1>1, <2>1, Answers
<1>10. CASE CallLost(c) \/ AnswerLost(c)
  <2>1. /\ call[c] # NoCall /\ ~call[c].heard /\ UNCHANGED <<agent, rows, external, dns, failures>>
        /\ call'[c] = NoCall
        BY <1>10 DEF CallLost, AnswerLost, TypeOK
  <2> QED BY <1>0, <1>1, <2>1
<1>11. CASE AppendRecords(c)
  <2>1. /\ job[c] = "new" /\ job'[c] = "appending" /\ Send(c, "create")
        /\ UNCHANGED <<ids, rows, external, dns, failures>>
        BY <1>2, <1>11 DEF AppendRecords
  <2> QED BY <1>0, <1>1, <2>1, Sends
<1>12. CASE Appended(c)
  <2>1. /\ job[c] = "appending" /\ At(c, "create", "answered") /\ call'[c] = NoCall
        /\ UNCHANGED <<rows, external, dns, failures>>
        BY <1>12 DEF Appended, TypeOK
  <2>2. CASE call[c].ok
    <3>1. /\ job'[c] = "presented" /\ challengeKey(c) \in DOMAIN ids'
          /\ ids'[challengeKey(c)] = c /\ challengeKey(c)' = challengeKey(c)
          BY <1>2, <1>12, <2>2 DEF Appended, challengeKey
    <3> QED BY <1>0, <1>1, <2>1, <2>2, <3>1 DEF At
  <2>3. CASE ~call[c].ok
    <3>1. job'[c] = "finished"
          BY <1>2, <1>12, <2>3 DEF Appended
    <3> QED BY <1>0, <1>1, <2>1, <2>3, <3>1 DEF At
  <2> QED BY <2>2, <2>3
<1>13. CASE DeleteRecords(c)
  <2>1. /\ job[c] = "presented" /\ UNCHANGED <<rows, external, dns, failures>>
        /\ challengeKey(c) \in DOMAIN ids /\ ids[challengeKey(c)] = c
        BY <1>13 DEF DeleteRecords
  <2>2. job'[c] = "deleting" /\ Send(c, "delete")
        BY <1>2, <1>13, <2>1 DEF DeleteRecords
  <2> QED BY <1>0, <1>1, <2>1, <2>2, Sends
<1>14. CASE Deleted(c)
  <2>1. /\ job[c] = "deleting" /\ job'[c] = "finished" /\ At(c, "delete", "answered") /\ call'[c] = NoCall
        /\ UNCHANGED <<ids, rows, external, dns, failures>>
        BY <1>2, <1>14 DEF Deleted, TypeOK
  <2> QED BY <1>0, <1>1, <2>1 DEF At
<1>15. CASE CallFails(c)
  <2>1. /\ call[c] # NoCall /\ job'[c] = "finished" /\ UNCHANGED <<ids, rows, external, dns>>
        /\ failures' = failures + 1
        BY <1>2, <1>15 DEF CallFails, Fails
  <2>2. /\ call'[c].op = call[c].op /\ call'[c].phase = call[c].phase
        /\ call'[c].record = call[c].record /\ call'[c].ok = call[c].ok
        BY <1>0, <1>15 DEF CallFails, TypeOK, Call
  <2> QED BY <1>0, <1>1, <2>1, <2>2
<1> QED BY <1>3, <1>4, <1>5, <1>6, <1>7, <1>8, <1>9, <1>10, <1>11, <1>12, <1>13, <1>14, <1>15, <1>16 DEF Api, Agent

-----------------------------------------------------------------------------
(* The theorems.                                                             *)

Damaged == {c \in Challenges : ~Sound(c)}

\* Each TXT that may stay for good has cost a failure of its own.
CountInv == IsFiniteSet(Damaged) /\ Cardinality(Damaged) <= failures

Inv == TypeOK /\ IdsInv /\ (\A c \in Challenges : OrderInv(c)) /\ CountInv

\* The other orders are where they were.
LEMMA OthersStep ==
    ASSUME TypeOK, IdsInv, NEW c \in Challenges, Api(c) \/ Agent(c), UNCHANGED dns,
           NEW d \in Challenges, d # c
    PROVE  (OrderInv(d) => OrderInv(d)') /\ (Sound(d)' <=> Sound(d))
BY Frame DEF OrderInv, CallInv, TurnedAway, Sound, Clean, Stored, Nothing, dns, setup, challengeKey

LEMMA SetupStays ==
    ASSUME NEW c \in Challenges, Api(c) \/ Agent(c)
    PROVE  UNCHANGED dns
BY DEF Api, Agent, Unauthorized, Refuse, CreateTXT, CreateDNSChallenge, DNSChallenge, DeleteRecord,
       DeleteDNSChallenge, StoreFails, CallLost, AnswerLost, AppendRecords, Appended,
       DeleteRecords, Deleted, CallFails

LEMMA StepCounts ==
    ASSUME Inv, NEW c \in Challenges, Api(c) \/ Agent(c)
    PROVE  CountInv'
<1>1. TypeOK /\ IdsInv /\ OrderInv(c) /\ UNCHANGED dns /\ IsFiniteSet(Damaged)
      BY SetupStays DEF Inv, CountInv
<1>2. \A d \in Challenges : d # c => (Sound(d)' <=> Sound(d))
      BY <1>1, OthersStep
<1>3. failures \in Nat /\ Cardinality(Damaged) \in Nat /\ Cardinality(Damaged) <= failures
      BY <1>1, FS_CardinalityType DEF Inv, CountInv, TypeOK
<1>4. CASE failures' = failures /\ (Sound(c) => Sound(c)')
  <2>1. Damaged' \subseteq Damaged
        BY <1>2, <1>4 DEF Damaged
  <2>2. IsFiniteSet(Damaged') /\ Cardinality(Damaged') <= Cardinality(Damaged)
        BY <1>1, <2>1, FS_Subset
  <2>3. Cardinality(Damaged') \in Nat
        BY <2>2, FS_CardinalityType
  <2> QED BY <1>3, <1>4, <2>2, <2>3 DEF CountInv
<1>5. CASE failures' = failures + 1
  <2>1. Damaged' \subseteq Damaged \cup {c}
        BY <1>2 DEF Damaged
  <2>2. /\ IsFiniteSet(Damaged \cup {c})
        /\ Cardinality(Damaged \cup {c}) \in {Cardinality(Damaged), Cardinality(Damaged) + 1}
        BY <1>1, FS_AddElement
  <2>3. IsFiniteSet(Damaged') /\ Cardinality(Damaged') <= Cardinality(Damaged \cup {c})
        BY <2>1, <2>2, FS_Subset
  <2>4. Cardinality(Damaged') \in Nat
        BY <2>3, FS_CardinalityType
  <2> QED BY <1>3, <1>5, <2>2, <2>3, <2>4 DEF CountInv
<1> QED BY <1>1, <1>4, <1>5, OwnStep

\* A restart or a rotation: what was under way is excused, and the rest is new
\* or finished.
LEMMA InterruptionStep ==
    ASSUME Inv, AgentRestarts \/ RotateToken
    PROVE  Inv'
<1>1. /\ UNCHANGED <<rows, external, zone, setup, failures>>
      /\ valid' \in BOOLEAN /\ interrupted' = interrupted \cup UnderWay
      BY DEF AgentRestarts, RotateToken
<1>2. \A c \in Challenges : HasRow(c)' = HasRow(c) /\ Recorded(c)' = Recorded(c)
      BY <1>1 DEF HasRow, Recorded
<1>3. ASSUME NEW c \in Challenges
      PROVE  /\ job'[c] = IF AgentRestarts /\ c \in UnderWay THEN "finished" ELSE job[c]
             /\ call[c] = NoCall => call'[c] = NoCall
             /\ call[c] # NoCall =>
                   /\ call'[c] \in Call /\ call[c] \in Call
                   /\ call'[c].op = call[c].op /\ call'[c].ok = call[c].ok
                   /\ call'[c].record = call[c].record
                   /\ \/ call'[c].phase = call[c].phase
                      \/ call[c].phase = "sent" /\ call'[c].phase = "revoked"
                   /\ call'[c].heard <=> call[c].heard /\ ~AgentRestarts
  <2>1. call[c] # NoCall => call[c] \in Call
        BY DEF Inv, TypeOK
  <2>2. CASE AgentRestarts
    <3>1. call'[c] = IF call[c] = NoCall THEN NoCall ELSE [call[c] EXCEPT !.heard = FALSE]
          BY <2>2 DEF AgentRestarts
    <3>2. call[c] # NoCall => [call[c] EXCEPT !.heard = FALSE] \in Call
          BY <2>1 DEF Call
    <3>3. job'[c] = IF c \in UnderWay THEN "finished" ELSE job[c]
          BY <2>2 DEF AgentRestarts
    <3> QED BY <2>1, <2>2, <3>1, <3>2, <3>3 DEF Call
  <2>3. CASE ~AgentRestarts /\ RotateToken
    <3>1. PICK late \in SUBSET {d \in Challenges : Revocable(d)} :
             call' = [d \in Challenges |->
                         IF d \in late THEN [call[d] EXCEPT !.phase = "revoked"] ELSE call[d]]
          BY <2>3 DEF RotateToken
    <3>2. job' = job
          BY <2>3 DEF RotateToken, agent
    <3>3. CASE c \in late
      <4>1. call[c] # NoCall /\ call[c].phase = "sent" /\ call'[c] = [call[c] EXCEPT !.phase = "revoked"]
            BY <3>1, <3>3 DEF Revocable
      <4>2. [call[c] EXCEPT !.phase = "revoked"] \in Call
            BY <2>1, <4>1 DEF Call, Phases
      <4> QED BY <2>1, <2>3, <3>2, <4>1, <4>2 DEF Call
    <3>4. CASE c \notin late
          BY <2>1, <2>3, <3>1, <3>2, <3>4 DEF Call
    <3> QED BY <3>3, <3>4
  <2> QED BY <2>2, <2>3
<1>4. job' \in [Challenges -> Jobs] /\ call' \in [Challenges -> Call \cup {NoCall}]
  <2>1. DOMAIN job' = Challenges /\ job' = [c \in Challenges |-> job'[c]]
        BY DEF AgentRestarts, RotateToken, agent, Inv, TypeOK
  <2>2. call' = [c \in Challenges |-> call'[c]]
        BY DEF AgentRestarts, RotateToken
  <2>3. \A c \in Challenges : job'[c] \in Jobs /\ call'[c] \in Call \cup {NoCall}
        BY <1>3 DEF Inv, TypeOK, Jobs
  <2> QED BY <2>1, <2>2, <2>3
<1>5. ASSUME NEW c \in Challenges
      PROVE  (call'[c] # NoCall /\ call'[c].heard) <=> job'[c] \in {"appending", "deleting"}
  <2>1. (call[c] # NoCall /\ call[c].heard) <=> job[c] \in {"appending", "deleting"}
        BY DEF Inv, TypeOK
  <2>2. call'[c] # NoCall <=> call[c] # NoCall
        BY <1>3
  <2>3. CASE AgentRestarts
    <3>1. job'[c] \notin {"appending", "deleting"}
          BY <1>3, <2>3 DEF UnderWay
    <3> QED BY <1>3, <2>2, <2>3, <3>1
  <2>4. CASE ~AgentRestarts
        BY <1>3, <2>1, <2>2, <2>4
  <2> QED BY <2>3, <2>4
<1>6. /\ DOMAIN ids' \subseteq Keys /\ \A k \in DOMAIN ids' : ids'[k] \in Challenges
      /\ IdsInv'
      BY DEF AgentRestarts, RotateToken, agent, Inv, TypeOK, IdsInv, challengeKey
<1>7. TypeOK' /\ IdsInv'
      BY <1>1, <1>4, <1>5, <1>6 DEF Inv, TypeOK, UnderWay, setup
<1>8. ASSUME NEW c \in Challenges
      PROVE  OrderInv(c)' /\ (Sound(c) => Sound(c)')
  <2>1. OrderInv(c) /\ job[c] \in Jobs
        BY DEF Inv, TypeOK
  <2>2. c \notin interrupted' => job[c] \in {"new", "finished"} /\ job'[c] = job[c]
        BY <1>1, <1>3, <2>1 DEF UnderWay, Jobs
  <2>3. Nothing(c)' = Nothing(c) /\ Stored(c)' = Stored(c)
        BY <1>1, <1>2 DEF Nothing, Stored, setup
  <2>4. call'[c] # NoCall => CallInv(c)'
    <3> SUFFICES ASSUME call'[c] # NoCall PROVE CallInv(c)'
        OBVIOUS
    <3>1. call[c] # NoCall /\ CallInv(c)
          BY <1>3, <2>1 DEF OrderInv
    <3>2. job'[c] \in {job[c], "finished"}
          BY <1>3
    <3>3. /\ call'[c].op = call[c].op /\ call'[c].ok = call[c].ok /\ call'[c].record = call[c].record
          /\ \/ call'[c].phase = call[c].phase
             \/ call[c].phase = "sent" /\ call'[c].phase = "revoked"
          BY <1>3, <3>1
    <3>4. provider' = provider /\ external' = external /\ HasRow(c)' = HasRow(c)
          BY <1>1, <1>2 DEF setup
    <3> QED BY <2>3, <3>1, <3>2, <3>3, <3>4 DEF CallInv
  <2>5. job'[c] = "presented" =>
           /\ call'[c] = NoCall /\ Stored(c)'
           /\ challengeKey(c) \in DOMAIN ids' /\ ids'[challengeKey(c)] = c
    <3> SUFFICES ASSUME job'[c] = "presented"
                 PROVE  /\ call'[c] = NoCall /\ Stored(c)'
                        /\ challengeKey(c) \in DOMAIN ids' /\ ids'[challengeKey(c)] = c
        OBVIOUS
    <3>1. job[c] = "presented" /\ ~AgentRestarts
          BY <1>3 DEF UnderWay
    <3>2. ids' = ids
          BY <3>1 DEF RotateToken, agent
    <3> QED BY <1>3, <2>1, <2>3, <3>1, <3>2 DEF OrderInv
  <2>6. job'[c] = "new" => call'[c] = NoCall /\ Nothing(c)'
        BY <1>3, <2>1, <2>3 DEF OrderInv
  <2>7. c \in interrupted' \/ TurnedAway(c)'
        BY <2>2 DEF TurnedAway
  <2>8. OrderInv(c)'
        BY <2>4, <2>5, <2>6, <2>7 DEF OrderInv, challengeKey
  <2>9. Sound(c) => Sound(c)'
        BY <1>1, <1>3, <2>2, <2>3 DEF Sound, Clean
  <2> QED BY <2>8, <2>9
<1>9. CountInv'
  <2>1. Damaged' \subseteq Damaged /\ IsFiniteSet(Damaged) /\ Cardinality(Damaged) <= failures
        BY <1>8 DEF Damaged, Inv, CountInv
  <2>2. IsFiniteSet(Damaged') /\ Cardinality(Damaged') <= Cardinality(Damaged)
        BY <2>1, FS_Subset
  <2>3. Cardinality(Damaged') \in Nat /\ Cardinality(Damaged) \in Nat /\ failures \in Nat
        BY <2>1, <2>2, FS_CardinalityType DEF Inv, TypeOK
  <2> QED BY <1>1, <2>1, <2>2, <2>3 DEF CountInv
<1> QED BY <1>7, <1>8, <1>9 DEF Inv

LEMMA Invariant == Spec => []Inv
<1>1. Init => Inv
  <2> SUFFICES ASSUME Init PROVE Inv
      OBVIOUS
  <2>1. TypeOK /\ IdsInv
        BY InitTypes
  <2>2. \A c \in Challenges : OrderInv(c) /\ Sound(c)
        BY DEF Init, OrderInv, TurnedAway, Sound, Clean, Nothing, HasRow
  <2>3. Damaged = {} /\ failures = 0
        BY <2>2 DEF Damaged, Init
  <2> QED BY <2>1, <2>2, <2>3, FS_EmptySet DEF Inv, CountInv
<1>2. Inv /\ [Next]_vars => Inv'
  <2> SUFFICES ASSUME Inv, [Next]_vars PROVE Inv'
      OBVIOUS
  <2>1. ASSUME NEW c \in Challenges, Api(c) \/ Agent(c)
        PROVE  Inv'
    <3>1. TypeOK /\ IdsInv /\ OrderInv(c) /\ UNCHANGED dns
          BY <2>1, SetupStays DEF Inv
    <3>2. TypeOK' /\ IdsInv'
          BY <2>1, <3>1, StepTypes
    <3>3. OrderInv(c)' /\ \A d \in Challenges : d # c => OrderInv(d)'
          BY <2>1, <3>1, OwnStep, OthersStep DEF Inv
    <3> QED BY <2>1, <3>2, <3>3, StepCounts DEF Inv
  <2>2. CASE Sync \/ UNCHANGED vars
    <3>1. UNCHANGED <<agent, call, rows, external, setup, valid, interrupted, failures>>
          BY <2>2 DEF Sync, vars, dns
    <3>2. zone' \in (SUBSET Challenges) \cup {NoCall}
      <4>1. \A r \in rows : r.id \in Challenges
            BY DEF Inv, TypeOK, Row
      <4>2. CASE zone' = {r.id : r \in rows}
            BY <4>1, <4>2
      <4>3. CASE zone' = zone
            BY <4>3 DEF Inv, TypeOK
      <4> QED BY <2>2, <4>2, <4>3 DEF Sync, vars, dns
    <3>3. TypeOK' /\ IdsInv'
          BY <3>1, <3>2 DEF Inv, TypeOK, IdsInv, agent, challengeKey, setup
    <3>4. \A c \in Challenges : OrderInv(c)' <=> OrderInv(c)
          BY <3>1 DEF OrderInv, CallInv, TurnedAway, Stored, Nothing, HasRow, Recorded, agent, setup, challengeKey
    <3>5. \A c \in Challenges : Sound(c)' <=> Sound(c)
          BY <3>1 DEF Sound, Clean, Stored, Nothing, HasRow, Recorded, agent, setup
    <3>6. Damaged' = Damaged
          BY <3>5 DEF Damaged
    <3> QED BY <3>1, <3>3, <3>4, <3>6 DEF Inv, CountInv
  <2> QED BY <2>1, <2>2, InterruptionStep DEF Next
<1> QED BY <1>1, <1>2, PTL DEF Spec

\* Every variable keeps its type, in particular an order waits for an answer
\* exactly while its call has somebody to answer to.
THEOREM TypeCorrect == Spec => []TypeOK
<1>1. Inv => TypeOK
      BY DEF Inv
<1> QED BY <1>1, Invariant, PTL

\* A TXT that certmagic was told is there stays, with its external record if the
\* row names one, until its own order deletes it: orders that share the name do
\* not take it away, since keys carry the value and rows have ids of their own.
THEOREM PresentedStaysStored == Spec => []PresentedIsStored
<1>1. Inv => PresentedIsStored
      BY DEF Inv, OrderInv, Stored, Recorded, PresentedIsStored
<1> QED BY <1>1, Invariant, PTL

\* Once the orders are over, the TXT left in the table or in the external
\* provider belong to orders that were under way when the agent ended or its
\* token was rotated, or there is a failure for each of them: no sequence of
\* handlers loses track of two records for one error.
THEOREM LeaksAreCounted == Spec => []LeaksNeedFailures
<1>1. Inv => LeaksNeedFailures
  <2> SUFFICES ASSUME Inv PROVE LeaksNeedFailures
      OBVIOUS
  <2> DEFINE Orphans == {c \in Challenges : Orphan(c)} \ interrupted
  <2>1. Orphans \subseteq Damaged
        BY DEF Orphan, Damaged, Sound, Clean, Nothing
  <2>2. IsFiniteSet(Damaged) /\ Cardinality(Damaged) <= failures /\ failures \in Nat
        BY DEF Inv, CountInv, TypeOK
  <2>3. IsFiniteSet(Orphans) /\ Cardinality(Orphans) <= Cardinality(Damaged)
        BY <2>1, <2>2, FS_Subset
  <2>4. Cardinality(Orphans) \in Nat /\ Cardinality(Damaged) \in Nat
        BY <2>2, <2>3, FS_CardinalityType
  <2>5. Cardinality(Orphans) <= failures
        BY <2>2, <2>3, <2>4
  <2> QED BY <2>5 DEF LeaksNeedFailures
<1> QED BY <1>1, Invariant, PTL
=============================================================================
