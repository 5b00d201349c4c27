-------------------------- MODULE LeaseTimingProofs --------------------------
(* How long a session goes without a renewal, for any durations.             *)
EXTENDS LeaseTiming, TLAPS

USE DurationAssumption DEF DurationAssumption

LEMMA PeriodFacts ==
    ASSUME NEW t \in Nat
    PROVE  Period(t) \in Nat /\ Period(t) >= Every /\ Period(t) >= t
BY DEF Period, Longer

\* The longest time until a beat when n beats before it failed, if the first
\* comes within f and no turn is longer than t.
Reach(n, f, t) == Longer(f, Period(t)) + n * Period(t)

LEMMA ReachFacts ==
    ASSUME NEW n \in Nat, NEW f \in Nat, NEW t \in Nat
    PROVE  /\ Reach(n, f, t) \in Nat
           /\ Reach(n, f, t) >= f /\ Reach(n, f, t) >= Period(t)
           /\ Reach(n + 1, f, t) = Reach(n, f, t) + Period(t)
<1>1. Period(t) \in Nat
      BY PeriodFacts
<1>2. n * Period(t) \in Nat /\ (n + 1) * Period(t) = n * Period(t) + Period(t)
      BY <1>1
<1>3. /\ Longer(f, Period(t)) \in Nat
      /\ Longer(f, Period(t)) >= f /\ Longer(f, Period(t)) >= Period(t)
      BY <1>1 DEF Longer
<1> QED BY <1>1, <1>2, <1>3 DEF Reach

\* Where a session is between two renewals when its first beat came within f
\* and no turn was longer than t.
Within(f, t) ==
    /\ loop = "idle" => since + wait <= Reach(misses, f, t)
    /\ loop = "sent" => age <= t /\ since <= Reach(misses, f, t) + age
    /\ loop = "done" => since <= t /\ since + wait <= Period(t)

\* The timer of a turn was set when the turn began.
Timer ==
    /\ loop = "idle" => age = 0
    /\ loop = "done" => misses = 0 /\ since <= age
    /\ loop # "idle" => wait = 0 \/ wait + age <= Every

Inv == Timer /\ Within(Lead, Turn) /\ (~slow => Within(Early, Prompt))

LEMMA TimingType == TypeOK /\ [Next]_vars => TypeOK'
<1> SUFFICES ASSUME TypeOK, [Next]_vars PROVE TypeOK'
    OBVIOUS
<1> DEFINE Clocks == /\ since \in Nat /\ wait \in Nat /\ loop \in {"idle", "sent", "done"}
                      /\ age \in 0 .. Turn /\ misses \in 0 .. MaxMisses
<1>0. Clocks /\ slow \in BOOLEAN
      BY DEF TypeOK
<1>1. ASSUME Tick PROVE Clocks'
      BY <1>0, <1>1 DEF Tick, Less
<1>2. ASSUME Beat PROVE Clocks'
      BY <1>0, <1>2 DEF Beat
<1>3. ASSUME RenewLease PROVE Clocks'
      BY <1>0, <1>3 DEF RenewLease
<1>4. ASSUME EndTurn PROVE Clocks'
      BY <1>0, <1>4 DEF EndTurn
<1>5. ASSUME Miss PROVE Clocks'
      BY <1>0, <1>5 DEF Miss
<1>6. ASSUME UNCHANGED vars PROVE Clocks'
      BY <1>0, <1>6 DEF vars
<1>7. Clocks'
      BY <1>1, <1>2, <1>3, <1>4, <1>5, <1>6 DEF Next
<1>8. slow' \in BOOLEAN
      BY <1>0, Zenon DEF Next, Tick, Beat, RenewLease, EndTurn, Miss, vars
<1> QED BY <1>7, <1>8 DEF TypeOK

LEMMA TurnBegins ==
    ASSUME NEW w \in 0 .. Every, NEW a \in Nat, a = 0
    PROVE  w + a <= Every
OBVIOUS

LEMMA TimerStep == TypeOK /\ Timer /\ [Next]_vars => Timer'
<1> SUFFICES ASSUME TypeOK, Timer, [Next]_vars PROVE Timer'
    OBVIOUS
<1>1. CASE Tick
      BY <1>1 DEF Tick, Less, TypeOK, Timer
<1>2. CASE Beat
  <2>1. age' = 0 /\ loop' = "sent" /\ wait' \in 0 .. Every
        BY <1>2 DEF Beat, Timer
  <2>2. wait' + age' <= Every
        BY <2>1, TurnBegins
  <2> QED BY <2>1, <2>2 DEF Timer
<1>3. CASE RenewLease
      BY <1>3 DEF RenewLease, TypeOK, Timer
<1>4. CASE EndTurn \/ Miss \/ UNCHANGED vars
      BY <1>4 DEF EndTurn, Miss, vars, TypeOK, Timer
<1> QED BY <1>1, <1>2, <1>3, <1>4 DEF Next

\* One step of the loop, in a turn that is not longer than t.
LEMMA WithinStep ==
    ASSUME NEW f \in Nat, NEW t \in Nat, TypeOK, Timer, [Next]_vars,
           Within(f, t) \/ RenewLease, Tick => age' <= t
    PROVE  Within(f, t)'
<1>1. /\ Period(t) \in Nat /\ Period(t) >= Every /\ Period(t) >= t
      /\ Reach(misses, f, t) \in Nat /\ Reach(misses, f, t) >= Period(t)
      /\ Reach(misses + 1, f, t) = Reach(misses, f, t) + Period(t)
  <2>1. misses \in Nat
        BY DEF TypeOK
  <2> QED BY <2>1, PeriodFacts, ReachFacts
<1>2. CASE Tick
  <2>1. misses' = misses /\ Reach(misses, f, t)' = Reach(misses, f, t)
        BY <1>2 DEF Tick, Reach
  <2> QED BY <1>1, <1>2, <2>1 DEF Tick, RenewLease, Less, TypeOK, Timer, Within
<1>3. CASE Beat
  <2>1. misses' = misses /\ Reach(misses, f, t)' = Reach(misses, f, t)
        BY <1>3 DEF Beat, Reach
  <2> QED BY <1>1, <1>3, <2>1 DEF Beat, RenewLease, TypeOK, Timer, Within
<1>4. CASE RenewLease
      BY <1>1, <1>4 DEF RenewLease, TypeOK, Timer, Within
<1>5. CASE EndTurn
  <2>1. misses' = misses /\ Reach(misses, f, t)' = Reach(misses, f, t)
        BY <1>5 DEF EndTurn, Reach
  <2> QED BY <1>1, <1>5, <2>1 DEF EndTurn, RenewLease, TypeOK, Timer, Within
<1>6. CASE Miss
  <2>1. Reach(misses, f, t)' = Reach(misses + 1, f, t)
        BY <1>6 DEF Miss, Reach
  <2>2. wait + age <= Period(t) \/ (wait = 0 /\ age <= Period(t))
        BY <1>1, <1>6 DEF Miss, RenewLease, TypeOK, Timer, Within
  <2>3. since <= Reach(misses, f, t) + age
        BY <1>6 DEF Miss, RenewLease, Within
  <2>4. since + wait <= Reach(misses + 1, f, t)
        BY <1>1, <2>2, <2>3 DEF TypeOK
  <2> QED BY <1>6, <2>1, <2>4 DEF Miss, Within
<1>7. CASE UNCHANGED vars
  <2>1. Reach(misses, f, t)' = Reach(misses, f, t)
        BY <1>7 DEF vars, Reach
  <2> QED BY <1>7, <2>1 DEF vars, RenewLease, Within
<1> QED BY <1>2, <1>3, <1>4, <1>5, <1>6, <1>7 DEF Next

LEMMA InvStep == TypeOK /\ Inv /\ [Next]_vars => Inv'
<1> SUFFICES ASSUME TypeOK, TypeOK', Inv, [Next]_vars PROVE Inv'
    BY TimingType
<1>1. Timer'
      BY TimerStep DEF Inv
<1>2. Within(Lead, Turn)'
  <2>1. age' <= Turn
        BY DEF TypeOK
  <2> QED BY <2>1, WithinStep DEF Inv
<1>3. ASSUME ~slow'
      PROVE  Within(Early, Prompt)'
  <2>1. RenewLease \/ ~slow
        BY <1>3 DEF Next, Tick, Beat, EndTurn, Miss, vars
  <2>2. Tick => age' <= Prompt
    <3>1. Tick => ~(age' > Prompt)
          BY <1>3, Zenon DEF Tick
    <3> QED BY <3>1 DEF TypeOK
  <2> QED BY <2>1, <2>2, WithinStep DEF Inv
<1> QED BY <1>1, <1>2, <1>3 DEF Inv

LEMMA InvHolds == Spec => [](TypeOK /\ Inv)
<1>1. Init => TypeOK /\ Inv
  <2> SUFFICES ASSUME Init PROVE TypeOK /\ Inv
      OBVIOUS
  <2>1. Reach(0, Lead, Turn) \in Nat /\ Reach(0, Lead, Turn) >= Lead
        BY ReachFacts
  <2>2. Reach(0, Early, Prompt) \in Nat /\ Reach(0, Early, Prompt) >= Early
        BY ReachFacts
  <2>3. slow \in BOOLEAN /\ (~slow => wait <= Early)
    <3>1. (slow <=> wait > Early) /\ slow \in BOOLEAN
          BY Zenon DEF Init
    <3>2. wait \in Nat
          BY DEF Init
    <3> QED BY <3>1, <3>2
  <2> QED BY <2>1, <2>2, <2>3 DEF Init, TypeOK, Inv, Timer, Within
<1> QED BY <1>1, TimingType, InvStep, PTL DEF Spec

\* Since the timer of the next heartbeat runs while the call of this one is
\* waited for, n failures in a row cost n times the longer of the two and not
\* their sum.  With a call that hangs for the 45 s of apiclient's client the
\* bound exceeds the 45 s of LeaseTTL: one such call may cost the row, and the
\* next beat gives it back if nobody took it.
THEOREM OutagesAreBounded == Spec => []OutageIsBounded
<1>1. TypeOK /\ Inv => OutageIsBounded
  <2> SUFFICES ASSUME TypeOK, Inv PROVE OutageIsBounded
      OBVIOUS
  <2>1. /\ Reach(misses, Lead, Turn) \in Nat /\ Reach(misses, Lead, Turn) >= Period(Turn)
        /\ Period(Turn) \in Nat
        BY ReachFacts, PeriodFacts DEF TypeOK
  <2>2. since <= Reach(misses, Lead, Turn) + Turn
        BY <2>1 DEF TypeOK, Inv, Within
  <2> QED BY <2>2 DEF OutageIsBounded, Reach
<1> QED BY <1>1, InvHolds, PTL

\* Within the budget (the code's 45 s and 15 s leave room for one failure and
\* turns of less than 15 s) the row of a session that goes on expires only
\* behind a slow turn, a slow start, or more failures in a row than that; turns
\* may last as long as they like for this to be true.
THEOREM LapsesAreCaused ==
    ASSUME Budget PROVE Spec => []LapsesHaveACause
<1>1. TypeOK /\ Inv => LapsesHaveACause
  <2> SUFFICES ASSUME TypeOK, Inv, ~slow, misses <= Tolerated PROVE since < TTL
      BY DEF LapsesHaveACause, TypeOK
  <2> DEFINE R(n) == Reach(n, Early, Prompt)
  <2>1. /\ Period(Prompt) \in Nat /\ R(misses) \in Nat /\ R(Tolerated) \in Nat
        /\ R(misses) >= Period(Prompt) /\ Period(Prompt) >= Prompt
    <3>1. misses \in Nat
          BY DEF TypeOK
    <3>2. Prompt \in Nat /\ Early \in Nat /\ Tolerated \in Nat
          BY DurationAssumption
    <3> QED BY <3>1, <3>2, ReachFacts, PeriodFacts
  <2>2. since <= R(misses) + Prompt
        BY <2>1 DEF TypeOK, Inv, Within
  <2>3. R(misses) <= R(Tolerated)
    <3> DEFINE P == Period(Prompt)
               d == Tolerated - misses
    <3>1. d \in Nat /\ P \in Nat /\ Tolerated = misses + d
          BY <2>1 DEF TypeOK
    <3>2. (misses + d) * P = misses * P + d * P /\ misses * P \in Nat /\ d * P \in Nat
          BY <3>1 DEF TypeOK
    <3>3. misses * P <= Tolerated * P
          BY <3>1, <3>2
    <3>4. Longer(Early, P) \in Nat /\ misses * P \in Nat /\ Tolerated * P \in Nat
          BY <3>1, <3>2 DEF Longer
    <3> QED BY <3>3, <3>4 DEF Reach
  <2>4. R(Tolerated) + Prompt < TTL
        BY DEF Budget, Reach
  <2> QED BY <2>1, <2>2, <2>3, <2>4 DEF TypeOK
<1> QED BY <1>1, InvHolds, PTL
=============================================================================
