----------------------------- MODULE LeaseTiming -----------------------------
(***************************************************************************)
(* The clocks behind the lease: the TTL that register and heartbeat give   *)
(* the row (api.LeaseTTL), and the heartbeat loop of internal/agent, which *)
(* sets the next timer before it calls the API and then waits for the      *)
(* call, for as long as the HTTP client of apiclient does.                 *)
(*                                                                         *)
(* One session, from the statement of its register on; all variables but   *)
(* loop, misses and slow are durations in one unit of time, so Tick lets   *)
(* one unit pass.  Other processes are in module Lease, where a row may    *)
(* expire at any time.                                                     *)
(***************************************************************************)
EXTENDS Naturals

CONSTANTS
    TTL,        \* api.LeaseTTL
    Every,      \* api.HeartbeatEvery
    Fast,       \* the interval while there are no nodes
    Turn,       \* longest turn of the loop: the client's timeout
    Lead,       \* longest time from register's statement to the first beat
    MaxMisses,  \* heartbeats that may fail in a row
    Prompt,     \* a turn that is not slow
    Early,      \* a first beat that is not slow
    Tolerated   \* heartbeats in a row that the lease is meant to survive

ASSUME DurationAssumption ==
    /\ TTL \in Nat /\ Every \in Nat /\ Turn \in Nat /\ Lead \in Nat /\ MaxMisses \in Nat
    /\ Prompt \in Nat /\ Early \in Nat /\ Tolerated \in Nat
    /\ Fast \in 0 .. Every

VARIABLES
    since,   \* time since the row was renewed: it expires at TTL
    wait,    \* time until the timer fires
    loop,    \* idle in the select, sent before and done after the statement
    age,     \* how long the turn has lasted
    misses,  \* heartbeats failed since the last renewal
    slow     \* since then a turn, or the way to the first beat, took too long

vars == <<since, wait, loop, age, misses, slow>>

TypeOK ==
    /\ since  \in Nat
    /\ wait   \in Nat
    /\ loop   \in {"idle", "sent", "done"}
    /\ age    \in 0 .. Turn
    /\ misses \in 0 .. MaxMisses
    /\ slow   \in BOOLEAN

Init ==
    /\ since = 0
    /\ wait \in 0 .. Lead
    /\ loop = "idle"
    /\ age = 0
    /\ misses = 0
    /\ slow \in BOOLEAN /\ (slow <=> wait > Early)

Less(n) == IF n = 0 THEN 0 ELSE n - 1

\* Time does not pass a timer that is due nor a turn that must have ended.
Tick ==
    /\ IF loop = "idle" THEN wait > 0 ELSE age < Turn
    /\ since' = since + 1
    /\ wait' = Less(wait)
    /\ age' = IF loop = "idle" THEN 0 ELSE age + 1
    /\ slow' = (slow \/ age' > Prompt)
    /\ UNCHANGED <<loop, misses>>

Beat ==
    /\ loop = "idle" /\ wait = 0
    /\ loop' = "sent"
    /\ wait' \in {Fast, Every}
    /\ UNCHANGED <<since, age, misses, slow>>

\* The row is extended even if it has expired, unless somebody took it.
RenewLease ==
    /\ loop = "sent"
    /\ loop' = "done"
    /\ since' = 0
    /\ misses' = 0
    /\ slow' = FALSE
    /\ UNCHANGED <<wait, age>>

\* Mutant of EndTurn: the timer is set after the turn.
EndTurnThenWait ==
    /\ loop = "done"
    /\ loop' = "idle"
    /\ age' = 0
    /\ wait' = Every
    /\ UNCHANGED <<since, misses, slow>>

\* The turn ends with the new nodes, or with a lost answer and a warning.
EndTurn ==
    /\ loop = "done"
    /\ loop' = "idle"
    /\ age' = 0
    /\ UNCHANGED <<since, wait, misses, slow>>

\* Mutant of Miss: after a failure the loop waits a whole interval.
MissThenWait ==
    /\ loop = "sent"
    /\ misses < MaxMisses
    /\ misses' = misses + 1
    /\ loop' = "idle"
    /\ age' = 0
    /\ wait' = Every
    /\ UNCHANGED <<since, slow>>

\* The call fails, by an answer or by the client's timeout, before it renews
\* anything; the loop goes on.
Miss ==
    /\ loop = "sent"
    /\ misses < MaxMisses
    /\ misses' = misses + 1
    /\ loop' = "idle"
    /\ age' = 0
    /\ UNCHANGED <<since, wait, slow>>

Next == Tick \/ Beat \/ RenewLease \/ EndTurn \/ Miss

Spec == Init /\ [][Next]_vars

-----------------------------------------------------------------------------
(* Properties. *)

Longer(a, b) == IF a >= b THEN a ELSE b

\* From one beat to the next, if no turn is longer than t.
Period(t) == Longer(Every, t)

\* What the durations must satisfy for prompt turns: after a renewal, or after
\* a register, Tolerated beats fail and the next one takes a whole turn.
Budget == Longer(Early, Period(Prompt)) + Tolerated * Period(Prompt) + Prompt < TTL

\* The row of a session expires only behind a turn that hung or more failures
\* in a row than Tolerated: a lost heartbeat costs nothing by itself.
LapsesHaveACause == since >= TTL => slow \/ misses > Tolerated

\* However long calls hang, up to the client's timeout, a session that goes on
\* is renewed again: the timer runs during the turn, so every failure costs one
\* turn or one interval, never both.  What exceeds TTL is how long the nodes
\* may be without the tunnel.
OutageIsBounded == since <= Longer(Lead, Period(Turn)) + misses * Period(Turn) + Turn
=============================================================================
