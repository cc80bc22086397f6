--------------------------- MODULE ScrapeInterval ---------------------------
(***************************************************************************)
(* When the backends of one record are checked: the ticker of              *)
(* scrapeBackends, its adaptation to the queries for the record            *)
(* (record.go:180-209) and the reset by a reload that changes              *)
(* scrape_interval (record.go:97-101).                                     *)
(*                                                                         *)
(* Time passes in units.  A goroutine that can run does so before time     *)
(* passes; only the checks of a tick take time, each backend's one after   *)
(* the other.  A tick that comes while one is served waits, a further one  *)
(* is dropped, and Reset drops the one that waits (time.Ticker since Go    *)
(* 1.23).                                                                  *)
(***************************************************************************)
EXTENDS Integers

CONSTANTS
    Intervals,   \* the values of scrape_interval
    Multiplier,  \* healthcheck_idle_multiplier
    IdleTimeout, \* resolution_idle_timeout
    MaxCheck,    \* the longest time the checks of a tick take: the timeouts of all backends
    Never,       \* the name was never asked for
    Horizon      \* bound: where the clocks of the history stop

Slow(i) == Multiplier * i

Larger(a, b) == IF a < b THEN b ELSE a

ASSUME ConstantsAssumption ==
    /\ Intervals \subseteq Nat \ {0}
    /\ Multiplier \in Nat \ {0}
    /\ IdleTimeout \in Nat
    /\ MaxCheck \in Nat
    /\ Never \notin Nat
    /\ Horizon \in Nat
    /\ \A i \in Intervals : Larger(Slow(i), MaxCheck) < Horizon

VARIABLES
    interval,       \* Record.ScrapeInterval
    scrapeInterval, \* the variable of scrapeBackends: what it last set the ticker to
    newInterval,    \* the one of a tick
    shouldSlowDown, \* the one of a tick
    at,             \* where scrapeBackends is
    period,         \* of the ticker
    due,            \* the time to its next tick
    pending,        \* a tick waits to be served
    age,            \* the time since LastResolution, as far as it matters
    sinceTick,      \* history: the time since a tick was last begun
    reloaded,       \* history: scrape_interval was changed since then
    calm            \* history: how long the record has been active, without such a change

tickerVars == <<period, due, pending>>
tickVars == <<scrapeInterval, newInterval, shouldSlowDown, at>>
history == <<sinceTick, reloaded, calm>>
vars == <<interval, tickVars, tickerVars, age, history>>

Init ==
    /\ interval \in Intervals
    /\ scrapeInterval = interval
    /\ newInterval = interval
    /\ shouldSlowDown = FALSE
    /\ at = "select"
    /\ period = interval
    /\ due = interval
    /\ pending = FALSE
    /\ age = Never
    /\ sinceTick = 0
    /\ reloaded = FALSE
    /\ calm = 0

\* time.Ticker.Reset
Reset(d) ==
    /\ period' = d
    /\ due' = d
    /\ pending' = FALSE

\* Mutant of Idle: one unit too late.
IdleLate == age # Never /\ age > IdleTimeout + 1

\* A name that was never asked for counts as active.
Idle == age # Never /\ age > IdleTimeout

\* Mutant of TickBegin: the comparison is turned round.
TickBeginInverted ==
    /\ at = "select"
    /\ pending
    /\ pending' = FALSE
    /\ shouldSlowDown' = (age # Never /\ ~Idle)
    /\ newInterval' = IF shouldSlowDown' THEN Slow(interval) ELSE interval
    /\ at' = "adjust"
    /\ sinceTick' = 0
    /\ reloaded' = FALSE
    /\ UNCHANGED <<interval, scrapeInterval, period, due, age, calm>>

\* case <-r.ticker.C, down to newInterval
TickBegin ==
    /\ at = "select"
    /\ pending
    /\ pending' = FALSE
    /\ shouldSlowDown' = Idle
    /\ newInterval' = IF Idle THEN Slow(interval) ELSE interval
    /\ at' = "adjust"
    /\ sinceTick' = 0
    /\ reloaded' = FALSE
    /\ UNCHANGED <<interval, scrapeInterval, period, due, age, calm>>

\* if newInterval != scrapeInterval.  A reload may have set the ticker since the
\* interval was read.
Adjust ==
    /\ at = "adjust"
    /\ at' = "checking"
    /\ scrapeInterval' = newInterval
    /\ IF newInterval # scrapeInterval THEN Reset(newInterval) ELSE UNCHANGED tickerVars
    /\ UNCHANGED <<interval, newInterval, shouldSlowDown, age, history>>

\* The checks and the gauges are done.
TickEnd ==
    /\ at = "checking"
    /\ at' = "select"
    /\ UNCHANGED <<interval, scrapeInterval, newInterval, shouldSlowDown, tickerVars,
                   age, history>>

\* updateLastResolutionTime, for a query of any type.
Resolve ==
    /\ age # 0
    /\ age' = 0
    /\ UNCHANGED <<interval, tickVars, tickerVars, history>>

\* updateRecord with another scrape_interval.
Reload(i) ==
    /\ i # interval
    /\ interval' = i
    /\ Reset(i)
    /\ reloaded' = TRUE
    /\ calm' = 0
    /\ UNCHANGED <<tickVars, age, sinceTick>>

Clock(t) == IF t < Horizon THEN t + 1 ELSE t

\* Mutant of MayElapse: the checks of a tick have no timeout.
MayElapseLong ==
    /\ at = "select" => ~pending
    /\ at # "adjust"

\* Nothing can be done at this time any more, and the checks of a tick end in time.
MayElapse ==
    /\ at = "select" => ~pending
    /\ at # "adjust"
    /\ at = "checking" => sinceTick < MaxCheck

Elapse ==
    /\ MayElapse
    /\ due' = IF due = 1 THEN period ELSE due - 1
    /\ pending' = (pending \/ due = 1)
    /\ age' = IF age = Never \/ Idle THEN age ELSE age + 1
    /\ sinceTick' = Clock(sinceTick)
    /\ calm' = IF age' = Never \/ age' > IdleTimeout THEN 0 ELSE Clock(calm)
    /\ UNCHANGED <<interval, tickVars, period, reloaded>>

Next ==
    \/ TickBegin
    \/ Adjust
    \/ TickEnd
    \/ Resolve
    \/ \E i \in Intervals : Reload(i)
    \/ Elapse

Spec == Init /\ [][Next]_vars

----------------------------------------------------------------------------
Periods == Intervals \cup {Slow(i) : i \in Intervals}

\* Every variable stays in its type.
TypeOK ==
    /\ interval \in Intervals
    /\ scrapeInterval \in Periods
    /\ newInterval \in Periods
    /\ shouldSlowDown \in BOOLEAN
    /\ at \in {"select", "adjust", "checking"}
    /\ period \in Periods
    /\ due \in 1..period
    /\ pending \in BOOLEAN
    /\ age \in 0..(IdleTimeout + 1) \cup {Never}
    /\ sinceTick \in 0..Horizon
    /\ reloaded \in BOOLEAN
    /\ calm \in 0..Horizon

\* Unless a reload changes the interval in between, one tick follows another
\* after the slow interval at most, or as soon as its checks are done if they
\* take longer: no adaptation, overrun or lost reset leaves a record unchecked.
GapBounded ==
    ~reloaded => sinceTick <= Larger(Slow(interval), MaxCheck)

\* After a tick that found the record active the ticker is at the normal
\* interval, although scrapeBackends compares the interval only with its own
\* variable, which the resets by reloads do not touch.
ActiveIsFast ==
    (at # "adjust" /\ ~shouldSlowDown /\ ~reloaded) => period = interval

\* A record that has been active for as long as the longest slow interval (or the
\* checks of a tick) is checked at the normal interval again, also when a reload
\* set the ticker between a tick's look at the interval and its own reset.
ActiveBecomesFast ==
    (at # "adjust" /\ \A i \in Intervals : calm > Larger(Slow(i), MaxCheck))
        => period = interval

----------------------------------------------------------------------------
\* docs/healthchecks.md:69: "As soon as a DNS query is received for the record,
\* the interval returns to its normal value".
QueryRestores == (age = 0 /\ ~reloaded) => period = interval

\* docs/healthchecks.md:68: for a record not resolved for longer than the timeout
\* the interval "is multiplied".
IdleIsSlow ==
    (at # "adjust" /\ shouldSlowDown /\ ~reloaded) => period = Slow(interval)

\* docs/healthchecks.md:66: the interval is adapted "based on recent resolution
\* activity"; whatever is reloaded, it is at most the slow one.
CheckedInTime ==
    \E i \in Intervals : sinceTick <= Larger(Slow(i), MaxCheck)
=============================================================================
