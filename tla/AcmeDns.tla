------------------------------- MODULE AcmeDns -------------------------------
(***************************************************************************)
(* Delegated DNS-01: the libdns provider of the agent (internal/agent,     *)
(* AppendRecords and DeleteRecords), the two handlers of the API           *)
(* (acmeDNSCreate, acmeDNSDelete), the table dns_challenge, the external   *)
(* DNS provider when one is configured, and what the nodes' own DNS        *)
(* answers (module DnsAnswer).  NodeSync has the steps by which a change   *)
(* of the table reaches a node; here it is one step, Sync.                 *)
(*                                                                         *)
(* Every challenge is an ACME order of certmagic, which calls              *)
(* AppendRecords, waits for the CA as long as it likes and then calls      *)
(* DeleteRecords, once.  Orders run side by side, and the apex and the     *)
(* wildcard of one domain share a name and differ in the value only.       *)
(*                                                                         *)
(* The opaque id the API draws for a row, and the id of the external       *)
(* record, are the challenge itself: a challenge is created once.          *)
(*                                                                         *)
(* The agent keeps the ids in memory and nowhere else: a process that ends *)
(* leaves its orders, and the one started after it knows nothing of them.  *)
(* A rotation of the token turns away every call of the process that has   *)
(* the old one, until it ends.  Neither is counted; what else goes wrong   *)
(* is, in "failures", of which there are at most MaxFailures: a database   *)
(* or provider error, a lost call or answer.                               *)
(***************************************************************************)
EXTENDS Naturals, FiniteSets

CONSTANTS
    Challenges,   \* orders; each has its own key authorization (the value)
    Names,        \* _acme-challenge names of the tunnel's domain, as labels
    NameOf,       \* the name of each challenge
    Base,         \* WGRELAY_BASE_DOMAIN, the zone of the nodes
    Setups,       \* how the API is set up: provider, public and served
    MaxFailures,
    NoCall        \* no call of this challenge in the API

ASSUME NamesAssumption    == NameOf \in [Challenges -> Names]
ASSUME SetupsAssumption   == Setups \subseteq BOOLEAN \X BOOLEAN \X BOOLEAN
ASSUME FailuresAssumption == MaxFailures \in Nat

VARIABLES
    job,       \* where the order of each challenge is
    ids,       \* dns01Provider.ids: challengeKey -> id of the row
    valid,     \* the agent has the token the tunnel has now
    call,      \* its call in the API
    rows,      \* dns_challenge
    external,  \* TXT records in the external provider
    zone,      \* challenges in the zone a node last applied; NoCall: none yet
    provider,  \* s.DNSProvider # nil
    public,    \* HasPublicNode
    served,    \* the API has nameservers and the nodes listen for DNS
    interrupted, \* orders under way when the agent ended or the token changed
    failures

agent == <<job, ids>>
setup == <<provider, public, served>>
dns   == <<zone, setup, valid, interrupted>>
vars  == <<agent, call, rows, external, dns, failures>>

Dns == INSTANCE DnsAnswer

Jobs   == {"new", "appending", "presented", "deleting", "finished"}

\* sent: up to the first statement after AuthAgent, which reads the token;
\* revoked: AuthAgent will find that the token is no longer the tunnel's.
Phases == {"sent", "revoked", "external", "answered"}

\* record: the external id, known after CreateTXT or from the row; heard: the
\* agent still waits for the answer.
Call == [op : {"create", "delete"}, phase : Phases, record : BOOLEAN,
         ok : BOOLEAN, heard : BOOLEAN]

ASSUME NoCallAssumption == NoCall \notin Call

\* A row says whether provider_record_id is set.
Row == [id : Challenges, record : BOOLEAN]

\* Mutant of challengeKey: the name alone.
NameKey(c) == NameOf[c]

\* fqdn + "\x00" + value.
challengeKey(c) == <<NameOf[c], c>>

Keys == {challengeKey(c) : c \in Challenges}

TypeOK ==
    /\ job      \in [Challenges -> Jobs]
    /\ DOMAIN ids \subseteq Keys /\ \A k \in DOMAIN ids : ids[k] \in Challenges
    /\ call     \in [Challenges -> Call \cup {NoCall}]
    /\ \A c \in Challenges : (call[c] # NoCall /\ call[c].heard)
                               <=> job[c] \in {"appending", "deleting"}
    /\ rows     \subseteq Row
    /\ external \subseteq Challenges
    /\ zone     \in (SUBSET Challenges) \cup {NoCall}
    /\ setup    \in BOOLEAN \X BOOLEAN \X BOOLEAN
    /\ valid    \in BOOLEAN
    /\ interrupted \subseteq Challenges
    /\ failures \in 0 .. MaxFailures

Init ==
    /\ job      = [c \in Challenges |-> "new"]
    /\ ids      = [k \in {} |-> NoCall]
    /\ call     = [c \in Challenges |-> NoCall]
    /\ rows     = {}
    /\ external = {}
    /\ zone     = NoCall
    /\ \E s \in Setups : provider = s[1] /\ public = s[2] /\ served = s[3]
    /\ valid    = TRUE
    /\ interrupted = {}
    /\ failures = 0

HasRow(c) == \E r \in rows : r.id = c

Fails == failures < MaxFailures /\ failures' = failures + 1

-----------------------------------------------------------------------------
(* The API.  A step of a handler that fails ends it with an error answer.  *)

At(c, op, phase) == call[c] # NoCall /\ call[c].op = op /\ call[c].phase = phase

Answer(c, ok) ==
    call' = [call EXCEPT ![c].phase = "answered", ![c].ok = ok]

\* AuthAgent, before anything else.
Unauthorized(c) ==
    /\ call[c] # NoCall /\ call[c].phase = "revoked"
    /\ Answer(c, FALSE)
    /\ UNCHANGED <<agent, rows, external, dns, failures>>

\* One call of the provider.  An error leaves open whether it had its effect.
do(effect, ok) ==
    IF ok THEN external' = effect /\ UNCHANGED failures
          ELSE Fails /\ external' \in {external, effect}

\* Nowhere to publish the record, the limiter, an invalid name or value.
Refuse(c) ==
    /\ At(c, "create", "sent")
    /\ Answer(c, FALSE)
    /\ UNCHANGED <<agent, rows, external, dns, failures>>

CreateTXT(c) ==
    /\ At(c, "create", "sent")
    /\ provider
    /\ \/ /\ do(external \cup {c}, TRUE)
          /\ call' = [call EXCEPT ![c].phase = "external", ![c].record = TRUE]
       \/ do(external \cup {c}, FALSE) /\ Answer(c, FALSE)
    /\ UNCHANGED <<agent, rows, dns>>

\* Without a provider the request goes on if there is a public node, or if the
\* query that looks for one fails.
CreateDNSChallenge(c) ==
    /\ At(c, "create", IF provider THEN "external" ELSE "sent")
    /\ IF provider \/ public THEN UNCHANGED failures ELSE Fails
    /\ rows' = rows \cup {[id |-> c, record |-> call[c].record]}
    /\ Answer(c, TRUE)
    /\ UNCHANGED <<agent, external, dns>>

\* Mutant of DNSChallenge: the query returns the value only.
DNSChallengeNoRecord(c) ==
    /\ At(c, "delete", "sent")
    /\ IF HasRow(c)
          THEN call' = [call EXCEPT ![c].phase = "external", ![c].record = FALSE]
          ELSE Answer(c, TRUE)
    /\ UNCHANGED <<agent, rows, external, dns, failures>>

\* The row tells whether there is an external record; without a row there is
\* nothing left to do.
DNSChallenge(c) ==
    /\ At(c, "delete", "sent")
    /\ IF HasRow(c)
          THEN call' = [call EXCEPT ![c].phase = "external",
                                    ![c].record = [id |-> c, record |-> TRUE] \in rows]
          ELSE Answer(c, TRUE)
    /\ UNCHANGED <<agent, rows, external, dns, failures>>

\* An error of the provider is a warning: the record may stay, the row goes.
DeleteRecord(c) ==
    /\ At(c, "delete", "external")
    /\ call[c].record /\ provider
    /\ \E ok \in BOOLEAN : do(external \ {c}, ok)
    /\ call' = [call EXCEPT ![c].record = FALSE]
    /\ UNCHANGED <<agent, rows, dns>>

DeleteDNSChallenge(c) ==
    /\ At(c, "delete", "external")
    /\ ~(call[c].record /\ provider)
    /\ rows' = {r \in rows : r.id # c}
    /\ Answer(c, TRUE)
    /\ UNCHANGED <<agent, external, dns, failures>>

StoreFails(c) ==
    /\ call[c] # NoCall /\ call[c].phase # "answered"
    /\ Fails
    /\ Answer(c, FALSE)
    /\ UNCHANGED <<agent, rows, external, dns>>

\* The call never reached the API, or its process ended in the middle.
CallLost(c) ==
    /\ call[c] # NoCall /\ call[c].phase # "answered" /\ ~call[c].heard
    /\ call' = [call EXCEPT ![c] = NoCall]
    /\ UNCHANGED <<agent, rows, external, dns, failures>>

\* An answer nobody waits for.
AnswerLost(c) ==
    /\ call[c] # NoCall /\ call[c].phase = "answered" /\ ~call[c].heard
    /\ call' = [call EXCEPT ![c] = NoCall]
    /\ UNCHANGED <<agent, rows, external, dns, failures>>

-----------------------------------------------------------------------------
(* The agent. *)

Send(c, op) ==
    call' = [call EXCEPT ![c] =
                [op |-> op, phase |-> IF valid THEN "sent" ELSE "revoked",
                 record |-> FALSE, ok |-> FALSE, heard |-> TRUE]]

Goto(c, state) == job' = [job EXCEPT ![c] = state]

AppendRecords(c) ==
    /\ job[c] = "new"
    /\ Goto(c, "appending")
    /\ Send(c, "create")
    /\ UNCHANGED <<ids, rows, external, dns, failures>>

\* certmagic deletes what was appended, and nothing else: an order whose
\* AppendRecords failed is over.
Appended(c) ==
    /\ job[c] = "appending"
    /\ At(c, "create", "answered") /\ call[c].heard
    /\ IF call[c].ok
          THEN /\ Goto(c, "presented")
               /\ ids' = [k \in DOMAIN ids \cup {challengeKey(c)} |->
                             IF k = challengeKey(c) THEN c ELSE ids[k]]
          ELSE Goto(c, "finished") /\ UNCHANGED ids
    /\ call' = [call EXCEPT ![c] = NoCall]
    /\ UNCHANGED <<rows, external, dns, failures>>

\* The id is forgotten before the API is asked.
DeleteRecords(c) ==
    /\ job[c] = "presented"
    /\ IF challengeKey(c) \in DOMAIN ids
          THEN /\ Goto(c, "deleting")
               /\ ids' = [k \in DOMAIN ids \ {challengeKey(c)} |-> ids[k]]
               /\ Send(ids[challengeKey(c)], "delete")
          ELSE Goto(c, "finished") /\ UNCHANGED <<ids, call>>
    /\ UNCHANGED <<rows, external, dns, failures>>

Deleted(c) ==
    /\ job[c] = "deleting"
    /\ At(c, "delete", "answered") /\ call[c].heard
    /\ Goto(c, "finished")
    /\ call' = [call EXCEPT ![c] = NoCall]
    /\ UNCHANGED <<ids, rows, external, dns, failures>>

\* A timeout or a broken connection, at any moment of the call; both
\* functions return the error and the order ends.
CallFails(c) ==
    /\ call[c] # NoCall /\ call[c].heard
    /\ job[c] \in {"appending", "deleting"}
    /\ Fails
    /\ Goto(c, "finished")
    /\ call' = [call EXCEPT ![c].heard = FALSE]
    /\ UNCHANGED <<ids, rows, external, dns>>

UnderWay == {c \in Challenges : job[c] \in {"appending", "presented", "deleting"}}

\* The process ends, however it does, and is started again with the token the
\* tunnel has now: the orders and the ids of the old one are gone, its calls go
\* on in the API.
AgentRestarts ==
    /\ job' = [c \in Challenges |-> IF c \in UnderWay THEN "finished" ELSE job[c]]
    /\ ids' = [k \in {} |-> NoCall]
    /\ valid' = TRUE
    /\ call' = [c \in Challenges |->
                   IF call[c] = NoCall THEN NoCall ELSE [call[c] EXCEPT !.heard = FALSE]]
    /\ interrupted' = interrupted \cup UnderWay
    /\ UNCHANGED <<rows, external, zone, setup, failures>>

Revocable(c) == call[c] # NoCall /\ call[c].phase = "sent" /\ call[c].heard

\* rotate-token: each call may have passed AuthAgent or not.  A call nobody
\* waits for that has not is as good as lost, and another rotation before the
\* agent is restarted changes nothing for it.
RotateToken ==
    /\ valid
    /\ valid' = FALSE
    /\ \E late \in SUBSET {c \in Challenges : Revocable(c)} :
          call' = [c \in Challenges |->
                      IF c \in late THEN [call[c] EXCEPT !.phase = "revoked"] ELSE call[c]]
    /\ interrupted' = interrupted \cup UnderWay
    /\ UNCHANGED <<agent, rows, external, zone, setup, failures>>

-----------------------------------------------------------------------------
Api(c) == \/ Unauthorized(c) \/ Refuse(c)
          \/ CreateTXT(c) \/ CreateDNSChallenge(c)
          \/ DNSChallenge(c) \/ DeleteRecord(c) \/ DeleteDNSChallenge(c)
          \/ StoreFails(c) \/ CallLost(c) \/ AnswerLost(c)

Agent(c) == \/ AppendRecords(c) \/ Appended(c) \/ DeleteRecords(c) \/ Deleted(c)
            \/ CallFails(c)

\* A node applies a configuration read from the rows as they are.
Sync ==
    /\ served
    /\ zone' = {r.id : r \in rows}
    /\ UNCHANGED <<agent, call, rows, external, setup, valid, interrupted, failures>>

Next == Sync \/ AgentRestarts \/ RotateToken \/ \E c \in Challenges : Api(c) \/ Agent(c)

Spec == Init /\ [][Next]_vars

\* The nodes follow the table (NodeSync!NodeConverges); the CA, the agent and
\* the API owe nothing.
FairSpec == Spec /\ WF_vars(Sync)

-----------------------------------------------------------------------------
(* Properties. *)

\* While certmagic waits for the CA, the TXT it was promised is there: orders
\* that share the name and finish earlier take only their own away.
PresentedIsStored ==
    \A c \in Challenges :
        job[c] = "presented" =>
            /\ HasRow(c)
            /\ [id |-> c, record |-> TRUE] \in rows => c \in external

\* What nothing will ever delete: the order is over, and so is its call.
Orphan(c) ==
    /\ job[c] = "finished" /\ call[c] = NoCall
    /\ HasRow(c) \/ c \in external

\* Every TXT left behind, in the table or in the provider, belongs to an order
\* that was under way when the agent ended or its token was rotated -- one such
\* moment may leave one for every order, since the ids are in memory only
\* (dns01.go:29) and forgotten before a 401 (dns01.go:73) -- or has cost a
\* failure of its own: no interleaving of orders and handlers loses track of a
\* record, and no other failure leaks twice.
LeaksNeedFailures ==
    Cardinality({c \in Challenges : Orphan(c)} \ interrupted) <= failures

\* The zone a node answers with.
Zone ==
    IF zone = NoCall THEN Dns!NoZone
    ELSE Dns!normalize(
            [Dns!NoZone EXCEPT
                !.name = Dns!Name(Base),
                !.challenges = Dns!dnsChallenges(
                    {[fqdn |-> Dns!Name(NameOf[c]), value |-> c] : c \in zone})])

Answered(c) ==
    LET z == Zone IN \A upper \in BOOLEAN : Dns!Resolves(z, NameOf[c], upper, c)

\* A presented TXT comes to be answered to a resolver that asks label by label
\* and in any case, beside another value of the same name; orders that come
\* and go before the CA looks do not keep it from that.
PresentedIsAnswered ==
    \A c \in Challenges :
        (served /\ job[c] = "presented") ~> (job[c] # "presented" \/ Answered(c))
=============================================================================
