----------------------- MODULE ScrapeInterval_proofs -----------------------
(***************************************************************************)
(* Proofs about ScrapeInterval: the gaps between ticks are bounded, and    *)
(* activity brings the normal interval back, for any intervals, multiplier *)
(* and timeouts.                                                           *)
(***************************************************************************)
EXTENDS ScrapeInterval, TLAPS

\* What scrapeBackends knows of the interval, and what the ticker is set to.
IntervalInv ==
    /\ ~reloaded => newInterval = IF shouldSlowDown THEN Slow(interval) ELSE interval
    /\ at # "adjust" => scrapeInterval = newInterval
    /\ period \in {scrapeInterval, interval}

\* The next tick comes within a period of the last one; one that waits came so,
\* or the checks it waits for go on.
GapInv ==
    /\ at = "adjust" => sinceTick = 0
    /\ (~reloaded /\ ~pending /\ at # "adjust") => sinceTick + due <= period
    /\ (~reloaded /\ pending) => sinceTick <= Larger(Slow(interval), MaxCheck)

\* A record was not active for longer than since the tick that slowed it down, or
\* since the reload that set the ticker.
CalmInv ==
    /\ Idle => calm = 0
    /\ (shouldSlowDown \/ reloaded) => calm <= sinceTick
    /\ (reloaded /\ ~pending /\ at # "adjust") => calm + due <= period
    /\ (reloaded /\ pending) => calm <= Larger(period, MaxCheck)

IInv == TypeOK /\ IntervalInv /\ GapInv /\ CalmInv

----------------------------------------------------------------------------
(***************************************************************************)
(* The slow interval is all that is needed of the multiplication.          *)
(***************************************************************************)

LEMMA SlowIsSlower ==
    ASSUME NEW i \in Intervals
    PROVE  i \in Nat /\ i > 0 /\ Slow(i) \in Nat /\ i <= Slow(i) /\ Slow(i) < Horizon
<1>1. i \in Nat /\ i > 0 /\ Multiplier \in Nat /\ Multiplier > 0
  BY ConstantsAssumption
<1>2. Multiplier * i = i + (Multiplier - 1) * i /\ (Multiplier - 1) * i >= 0
  BY <1>1
<1>3. Slow(i) \in Nat /\ i <= Slow(i)
  BY <1>1, <1>2 DEF Slow
<1>4. Larger(Slow(i), MaxCheck) < Horizon
  BY ConstantsAssumption
<1>5. QED
  BY <1>1, <1>3, <1>4, ConstantsAssumption DEF Larger

\* A period is positive and at most the slow form of some interval.
LEMMA PeriodsArePositive ==
    ASSUME NEW p \in Periods
    PROVE  /\ p \in Nat /\ p > 0
           /\ \E i \in Intervals : p <= Slow(i)
  BY SlowIsSlower DEF Periods

----------------------------------------------------------------------------
(***************************************************************************)
(* Type correctness.                                                       *)
(***************************************************************************)

LEMMA TypeInit == Init => TypeOK
<1>1. SUFFICES ASSUME Init PROVE TypeOK
  OBVIOUS
<1>2. interval \in Intervals /\ interval \in Periods /\ interval \in 1..interval
  BY <1>1, SlowIsSlower DEF Init, Periods
<1>3. Horizon \in Nat /\ 0 \in 0..Horizon
  BY ConstantsAssumption
<1>4. QED
  BY <1>1, <1>2, <1>3 DEF Init, TypeOK

LEMMA TypeStep == TypeOK /\ [Next]_vars => TypeOK'
<1>1. SUFFICES ASSUME TypeOK, [Next]_vars PROVE TypeOK'
  OBVIOUS
<1>2. /\ \A p \in Periods : p \in Nat /\ p > 0
      /\ \A i \in Intervals : i \in Periods /\ Slow(i) \in Periods
  BY PeriodsArePositive DEF Periods
<1>3. Horizon \in Nat /\ IdleTimeout \in Nat /\ Never \notin Nat
  BY ConstantsAssumption
<1>4. CASE TickBegin
  <2>1. shouldSlowDown' \in BOOLEAN
    BY <1>4 DEF TickBegin, Idle
  <2>2. newInterval' \in Periods
    BY <1>1, <1>2, <1>4 DEF TypeOK, TickBegin
  <2>3. sinceTick' \in 0..Horizon
    BY <1>3, <1>4 DEF TickBegin
  <2>4. QED
    BY <1>1, <1>4, <2>1, <2>2, <2>3 DEF TypeOK, TickBegin
<1>5. CASE Adjust
  <2>1. period' \in Periods /\ due' \in 1..period' /\ pending' \in BOOLEAN
    <3>1. CASE newInterval # scrapeInterval
      <4>1. period' = newInterval /\ due' = newInterval /\ pending' = FALSE
        BY <1>5, <3>1 DEF Adjust, Reset
      <4>2. newInterval \in Periods /\ newInterval \in 1..newInterval
        BY <1>1, <1>2 DEF TypeOK
      <4>3. QED
        BY <4>1, <4>2
    <3>2. CASE newInterval = scrapeInterval
      <4>1. period' = period /\ due' = due /\ pending' = pending
        BY <1>5, <3>2 DEF Adjust, tickerVars
      <4>2. QED
        BY <1>1, <4>1 DEF TypeOK
    <3>3. QED
      BY <3>1, <3>2
  <2>2. QED
    BY <1>1, <1>5, <2>1 DEF TypeOK, Adjust, history
<1>6. CASE TickEnd
  BY <1>1, <1>6 DEF TypeOK, TickEnd, tickerVars, history
<1>7. CASE Resolve
  BY <1>1, <1>3, <1>7 DEF TypeOK, Resolve, tickVars, tickerVars, history
<1>8. ASSUME NEW i \in Intervals, Reload(i) PROVE TypeOK'
  <2>1. period' \in Periods /\ due' \in 1..period' /\ calm' \in 0..Horizon
    BY <1>2, <1>3, <1>8 DEF Reload, Reset
  <2>2. QED
    BY <1>1, <1>8, <2>1 DEF TypeOK, Reload, Reset, tickVars
<1>9. CASE Elapse
  <2>1. due' \in 1..period'
    BY <1>1, <1>2, <1>9 DEF TypeOK, Elapse, tickVars
  <2>2. age' \in 0..(IdleTimeout + 1) \cup {Never}
    BY <1>1, <1>3, <1>9 DEF TypeOK, Elapse, Idle
  <2>3. sinceTick' \in 0..Horizon /\ calm' \in 0..Horizon
    BY <1>1, <1>3, <1>9 DEF TypeOK, Elapse, Clock
  <2>4. QED
    BY <1>1, <1>9, <2>1, <2>2, <2>3 DEF TypeOK, Elapse, tickVars
<1>10. CASE UNCHANGED vars
  BY <1>1, <1>10 DEF TypeOK, vars, tickVars, tickerVars, history
<1>11. QED
  BY <1>1, <1>4, <1>5, <1>6, <1>7, <1>8, <1>9, <1>10 DEF Next

\* Every reachable state of the ticker is well typed.
THEOREM TypeCorrect == Spec => []TypeOK
  BY TypeInit, TypeStep, PTL DEF Spec

----------------------------------------------------------------------------
(***************************************************************************)
(* The inductive invariant.                                                *)
(***************************************************************************)

LEMMA InvInit == Init => IInv
<1>1. SUFFICES ASSUME Init PROVE IInv
  OBVIOUS
<1>2. interval \in Nat /\ Slow(interval) \in Nat /\ interval <= Slow(interval)
  BY <1>1, SlowIsSlower DEF Init
<1>3. Never \notin Nat
  BY ConstantsAssumption
<1>4. QED
  BY <1>1, <1>2, <1>3, TypeInit DEF Init, IInv, IntervalInv, GapInv, CalmInv, Idle

\* The numbers a step is about.
LEMMA Numbers ==
    ASSUME TypeOK
    PROVE  /\ period \in Nat /\ due \in Nat /\ 0 < due /\ due <= period
           /\ interval \in Nat /\ Slow(interval) \in Nat /\ interval <= Slow(interval)
           /\ Slow(interval) < Horizon
           /\ sinceTick \in Nat /\ calm \in Nat
           /\ MaxCheck \in Nat /\ Horizon \in Nat
<1>1. period \in Nat /\ due \in 1..period
  BY PeriodsArePositive DEF TypeOK
<1>2. QED
  BY <1>1, SlowIsSlower, ConstantsAssumption DEF TypeOK

LEMMA IntervalStep == TypeOK /\ IntervalInv /\ [Next]_vars => IntervalInv'
<1>1. SUFFICES ASSUME TypeOK, IntervalInv, [Next]_vars PROVE IntervalInv'
  OBVIOUS
<1>2. CASE TickBegin
  BY <1>1, <1>2 DEF TypeOK, IntervalInv, TickBegin
<1>3. CASE Adjust
  BY <1>1, <1>3 DEF IntervalInv, Adjust, Reset, tickerVars, history
<1>4. CASE TickEnd
  BY <1>1, <1>4 DEF IntervalInv, TickEnd, tickerVars, history
<1>5. CASE Resolve
  BY <1>1, <1>5 DEF IntervalInv, Resolve, tickVars, tickerVars, history
<1>6. ASSUME NEW i \in Intervals, Reload(i) PROVE IntervalInv'
  BY <1>1, <1>6 DEF IntervalInv, Reload, Reset, tickVars
<1>7. CASE Elapse
  BY <1>1, <1>7 DEF IntervalInv, Elapse, tickVars
<1>8. CASE UNCHANGED vars
  BY <1>1, <1>8 DEF IntervalInv, vars, tickVars, tickerVars, history
<1>9. QED
  BY <1>1, <1>2, <1>3, <1>4, <1>5, <1>6, <1>7, <1>8 DEF Next

\* Unless a reload came, the ticker is at one of the two forms of the interval.
LEMMA PeriodIsBounded ==
    ASSUME TypeOK, IntervalInv, ~reloaded, at # "adjust"
    PROVE  period <= Slow(interval)
  BY Numbers DEF IntervalInv

LEMMA GapStep == TypeOK /\ IntervalInv /\ GapInv /\ [Next]_vars => GapInv'
<1>1. SUFFICES ASSUME TypeOK, IntervalInv, GapInv, [Next]_vars PROVE GapInv'
  OBVIOUS
<1>2. TypeOK'
  BY <1>1, TypeStep
<1>3. CASE TickBegin
  BY <1>1, <1>3, Numbers DEF GapInv, TickBegin, Larger
<1>4. CASE Adjust
  <2>1. /\ sinceTick = 0 /\ sinceTick' = 0 /\ interval' = interval
        /\ at' = "checking"
    BY <1>1, <1>4 DEF GapInv, Adjust, history
  <2>2. due' \in Nat /\ due' <= period'
    BY <1>2, PeriodsArePositive DEF TypeOK
  <2>3. 0 <= Larger(Slow(interval), MaxCheck)
    BY <1>1, Numbers DEF Larger
  <2>4. QED
    BY <2>1, <2>2, <2>3 DEF GapInv
<1>5. CASE TickEnd
  BY <1>1, <1>5 DEF GapInv, TickEnd, tickerVars, history
<1>6. CASE Resolve
  BY <1>1, <1>6 DEF GapInv, Resolve, tickVars, tickerVars, history
<1>7. ASSUME NEW i \in Intervals, Reload(i) PROVE GapInv'
  BY <1>1, <1>7 DEF GapInv, Reload, Reset, tickVars
<1>8. CASE Elapse
  <2>1. /\ at # "adjust" /\ at' = at /\ reloaded' = reloaded
        /\ interval' = interval /\ period' = period
        /\ pending' = (pending \/ due = 1)
        /\ due' = IF due = 1 THEN period ELSE due - 1
        /\ sinceTick' <= sinceTick + 1 /\ sinceTick' \in Nat
    BY <1>1, <1>8, Numbers DEF Elapse, MayElapse, Clock, tickVars
  <2>2. pending => at = "checking" /\ sinceTick < MaxCheck
    BY <1>1, <1>8 DEF TypeOK, Elapse, MayElapse
  <2>3. ~reloaded => period <= Slow(interval)
    BY <1>1, <2>1, PeriodIsBounded
  <2>4. ASSUME ~reloaded, ~pending' PROVE sinceTick' + due' <= period'
    <3>1. ~pending /\ due # 1
      BY <2>1, <2>4
    <3>2. sinceTick + due <= period
      BY <1>1, <2>1, <2>4, <3>1 DEF GapInv
    <3>3. QED
      BY <1>1, <2>1, <3>1, <3>2, Numbers
  <2>5. ASSUME ~reloaded, pending' PROVE sinceTick' <= Larger(Slow(interval), MaxCheck)
    <3>1. CASE pending
      BY <1>1, <2>1, <2>2, <3>1, Numbers DEF Larger
    <3>2. CASE ~pending
      BY <1>1, <2>1, <2>3, <2>5, <3>2, Numbers DEF TypeOK, GapInv, Larger
    <3>3. QED
      BY <3>1, <3>2
  <2>6. QED
    BY <2>1, <2>4, <2>5 DEF GapInv
<1>9. CASE UNCHANGED vars
  BY <1>1, <1>9 DEF GapInv, vars, tickVars, tickerVars, history
<1>10. QED
  BY <1>1, <1>3, <1>4, <1>5, <1>6, <1>7, <1>8, <1>9 DEF Next

LEMMA CalmStep ==
    TypeOK /\ IntervalInv /\ GapInv /\ CalmInv /\ [Next]_vars => CalmInv'
<1>1. SUFFICES ASSUME TypeOK, IntervalInv, GapInv, CalmInv, [Next]_vars PROVE CalmInv'
  OBVIOUS
<1>2. TypeOK'
  BY <1>1, TypeStep
<1>3. CASE TickBegin
  <2>1. /\ shouldSlowDown' = Idle /\ Idle' = Idle /\ calm' = calm
        /\ ~pending' /\ ~reloaded' /\ sinceTick' = 0
    BY <1>3 DEF TickBegin, Idle
  <2>2. Idle => calm = 0
    BY <1>1 DEF CalmInv
  <2>3. shouldSlowDown' => calm' <= sinceTick'
    BY <2>1, <2>2
  <2>4. QED
    BY <2>1, <2>2, <2>3 DEF CalmInv
<1>4. CASE Adjust
  <2>1. sinceTick = 0
    BY <1>1, <1>4 DEF GapInv, Adjust
  <2>2. reloaded => calm = 0
    BY <1>1, <2>1, Numbers DEF CalmInv
  <2>3. period' \in Nat /\ due' \in Nat /\ due' <= period'
    BY <1>2, Numbers, PeriodsArePositive DEF TypeOK
  <2>4. QED
    BY <1>1, <1>4, <2>1, <2>2, <2>3, Numbers
       DEF CalmInv, Adjust, Reset, tickerVars, history, Idle, Larger
<1>5. CASE TickEnd
  BY <1>1, <1>5 DEF CalmInv, TickEnd, tickerVars, history, Idle
<1>6. CASE Resolve
  BY <1>1, <1>6, ConstantsAssumption DEF CalmInv, Resolve, tickVars, tickerVars, history, Idle
<1>7. ASSUME NEW i \in Intervals, Reload(i) PROVE CalmInv'
  BY <1>1, <1>7, Numbers, SlowIsSlower DEF CalmInv, Reload, Reset, tickVars, Idle
<1>8. CASE Elapse
  <2>1. /\ at # "adjust" /\ at' = at /\ reloaded' = reloaded /\ period' = period
        /\ shouldSlowDown' = shouldSlowDown
        /\ pending' = (pending \/ due = 1)
        /\ due' = IF due = 1 THEN period ELSE due - 1
    BY <1>8 DEF Elapse, MayElapse, tickVars
  <2>2. pending => at = "checking" /\ sinceTick < MaxCheck
    BY <1>1, <1>8 DEF TypeOK, Elapse, MayElapse
  <2>3. Idle' => calm' = 0
    BY <1>8 DEF Elapse, Idle
  <2>4. calm' \in {0, Clock(calm)} /\ sinceTick' = Clock(sinceTick)
    BY <1>8 DEF Elapse
  <2>5. calm' <= calm + 1 /\ calm' \in Nat /\ sinceTick' <= sinceTick + 1
    BY <1>1, <2>4, Numbers DEF Clock
  <2>6. calm <= sinceTick => calm' <= sinceTick'
    BY <1>1, <2>4, Numbers DEF Clock
  <2>7. ASSUME reloaded, ~pending' PROVE calm' + due' <= period'
    <3>1. ~pending /\ due # 1
      BY <2>1, <2>7
    <3>2. calm + due <= period
      BY <1>1, <2>1, <2>7, <3>1 DEF CalmInv
    <3>3. QED
      BY <1>1, <2>1, <2>5, <3>1, <3>2, Numbers
  <2>8. ASSUME reloaded, pending' PROVE calm' <= Larger(period', MaxCheck)
    <3>1. CASE pending
      BY <1>1, <2>1, <2>2, <2>5, <2>8, <3>1, Numbers DEF CalmInv, Larger
    <3>2. CASE ~pending
      BY <1>1, <2>1, <2>5, <2>8, <3>2, Numbers DEF TypeOK, CalmInv, Larger
    <3>3. QED
      BY <3>1, <3>2
  <2>9. QED
    BY <1>1, <2>1, <2>3, <2>6, <2>7, <2>8 DEF CalmInv
<1>9. CASE UNCHANGED vars
  BY <1>1, <1>9 DEF CalmInv, vars, tickVars, tickerVars, history, Idle
<1>10. QED
  BY <1>1, <1>3, <1>4, <1>5, <1>6, <1>7, <1>8, <1>9 DEF Next

LEMMA InvHolds == Spec => []IInv
<1>1. IInv /\ [Next]_vars => IInv'
  BY TypeStep, IntervalStep, GapStep, CalmStep DEF IInv
<1>2. QED
  BY InvInit, <1>1, PTL DEF Spec

----------------------------------------------------------------------------
\* Unless a reload changes the interval, one tick follows another after the slow
\* interval or the checks of a tick.
THEOREM GapAlwaysBounded == Spec => []GapBounded
<1>1. IInv => GapBounded
  <2>1. SUFFICES ASSUME IInv, ~reloaded
                 PROVE  sinceTick <= Larger(Slow(interval), MaxCheck)
    BY DEF GapBounded
  <2>2. CASE at = "adjust"
    BY <2>1, <2>2, Numbers DEF IInv, GapInv, Larger
  <2>3. CASE at # "adjust" /\ ~pending
    BY <2>1, <2>3, Numbers, PeriodIsBounded DEF IInv, GapInv, Larger
  <2>4. CASE at # "adjust" /\ pending
    BY <2>1, <2>4 DEF IInv, GapInv
  <2>5. QED
    BY <2>1, <2>2, <2>3, <2>4 DEF IInv, TypeOK
<1>2. QED
  BY InvHolds, <1>1, PTL

LEMMA IntervalInvIsFast == IntervalInv => ActiveIsFast
  BY DEF IntervalInv, ActiveIsFast

\* A record that has been active long enough is checked at the normal interval,
\* whatever was reloaded and when.
THEOREM ActiveAlwaysBecomesFast == Spec => []ActiveBecomesFast
<1>1. IInv => ActiveBecomesFast
  <2>1. SUFFICES ASSUME IInv, at # "adjust",
                        \A i \in Intervals : calm > Larger(Slow(i), MaxCheck)
                 PROVE  period = interval
    BY DEF ActiveBecomesFast
  <2>2. PICK i \in Intervals : period <= Slow(i)
    BY <2>1, PeriodsArePositive DEF IInv, TypeOK
  <2>3. calm > period /\ calm > MaxCheck
    BY <2>1, <2>2, Numbers, SlowIsSlower DEF IInv, Larger
  <2>4. ~reloaded
    BY <2>1, <2>3, Numbers DEF IInv, TypeOK, CalmInv, Larger
  <2>5. calm > Larger(Slow(interval), MaxCheck)
    BY <2>1 DEF IInv, TypeOK
  <2>6. sinceTick <= Larger(Slow(interval), MaxCheck)
    <3>1. CASE pending
      BY <2>1, <2>4, <3>1 DEF IInv, GapInv
    <3>2. CASE ~pending
      BY <2>1, <2>4, <3>2, Numbers, PeriodIsBounded DEF IInv, GapInv, Larger
    <3>3. QED
      BY <3>1, <3>2
  <2>7. ~shouldSlowDown
    BY <2>1, <2>5, <2>6, Numbers DEF IInv, CalmInv, Larger
  <2>8. QED
    BY <2>1, <2>4, <2>7, IntervalInvIsFast DEF IInv, ActiveIsFast
<1>2. QED
  BY InvHolds, <1>1, PTL
=============================================================================
