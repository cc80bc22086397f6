---------------------------- MODULE BackendCheck ----------------------------
(***************************************************************************)
(* The health checks of one backend (backend.go): runHealthChecks, which   *)
(* gives every check a goroutine and a timeout and publishes Alive, run by *)
(* the scraper of the record at each tick and, once, by the reload that    *)
(* added the backend; and updateBackend and removeBackend, called by later *)
(* reloads while runs are in progress.                                     *)
(*                                                                         *)
(* runHealthChecks reads b.HealthChecks with no lock, first to size its    *)
(* results and again to range over it, and updateBackend assigns the slice *)
(* while holding a lock the reader ignores.  The assignment has two steps  *)
(* here, and a read that falls between them may see the old or the new     *)
(* array with the old or the new length: the outcomes of the data race.    *)
(***************************************************************************)
EXTENDS Integers, Sequences, Functions

CONSTANTS
    Checks,     \* the health checks a configuration may give the backend
    Lists,      \* the lists of health checks it may give
    MaxChecks,  \* bound: the longest of them
    Conditions, \* what may be true of a probed service, see AllConditions
    NoUpdate    \* no assignment of b.HealthChecks is in progress

\* What a probe would do now: pass or fail well before the timeout of the check,
\* or be slow, which is to answer either way, before the timeout, with it or
\* after it.
AllConditions == {"up", "down", "slow"}

ASSUME ConstantsAssumption ==
    /\ Conditions \subseteq AllConditions
    /\ MaxChecks \in Nat
    /\ \A l \in Lists : l \in Seq(Checks) /\ Len(l) <= MaxChecks
    /\ NoUpdate \notin Lists

VARIABLES
    enable,   \* b.Enable
    alive,    \* b.Alive
    checks,   \* b.HealthChecks
    incoming, \* the list being assigned to it by updateBackend
    attached, \* the backend is in its record's Backends
    world,    \* what a probe of each check would find now
    phase,    \* where each run is
    size,     \* len(results) of the run
    snap,     \* the list the run ranges over
    slot,     \* each check of the run: its goroutine, channel and result
    said,     \* history: what the run's own probe answered
    late,     \* a probe that nobody waits for any more is still under way
    crashed   \* a goroutine panicked: the process is gone

runVars == <<phase, size, snap, slot, said, late>>
confVars == <<enable, checks, incoming, attached>>
vars == <<confVars, runVars, alive, world, crashed>>

\* "scraper": the runs of the record's scraper, one after the other.
\* "adder": the goroutine started by updateRecord for a backend it adds.
Runs == {"scraper", "adder"}

Indices == 1..MaxChecks

\* "idle": no run.  "ranged": the tick's loop has reached the backend.
\* "chosen": it was enabled when looked at.  "sized": results was made.
\* "launched": every check has its goroutine, the run is in wg.Wait.
Phases == {"idle", "ranged", "chosen", "sized", "launched"}

\* "none": no goroutine.  "waiting": in the select.  "yes", "no": the answer
\* lies in the buffered channel.  "true", "false": stored in results.
Slots == {"none", "waiting", "yes", "no", "true", "false"}

Init ==
    /\ enable \in BOOLEAN
    /\ alive = FALSE
    /\ checks \in Lists
    /\ incoming = NoUpdate
    /\ attached = TRUE
    /\ world \in [Checks -> Conditions]
    /\ \E added \in BOOLEAN :
         phase = [r \in Runs |-> IF r = "adder" /\ added /\ enable THEN "chosen"
                                                                    ELSE "idle"]
    /\ size = [r \in Runs |-> 0]
    /\ snap = [r \in Runs |-> <<>>]
    /\ slot = [r \in Runs |-> [i \in Indices |-> "none"]]
    /\ said = [r \in Runs |-> [i \in Indices |-> "none"]]
    /\ late = [r \in Runs |-> [i \in Indices |-> FALSE]]
    /\ crashed = FALSE

----------------------------------------------------------------------------
(***************************************************************************)
(* The scraper's tick (record.go:213): it ranges over r.Backends, looks at *)
(* IsEnabled under the lock, and runs the checks after releasing it.       *)
(***************************************************************************)

TickReaches ==
    /\ ~crashed
    /\ phase["scraper"] = "idle"
    /\ attached
    /\ phase' = [phase EXCEPT !["scraper"] = "ranged"]
    /\ UNCHANGED <<confVars, size, snap, slot, said, late, alive, world, crashed>>

TickTestsEnabled ==
    /\ ~crashed
    /\ phase["scraper"] = "ranged"
    /\ phase' = [phase EXCEPT !["scraper"] = IF enable THEN "chosen" ELSE "idle"]
    /\ UNCHANGED <<confVars, size, snap, slot, said, late, alive, world, crashed>>

----------------------------------------------------------------------------
(***************************************************************************)
(* runHealthChecks.                                                        *)
(***************************************************************************)

\* The arrays and lengths an unlocked read of b.HealthChecks may see.
Arrays == {checks} \cup (IF incoming = NoUpdate THEN {} ELSE {incoming})

Lengths == {Len(l) : l \in Arrays}

\* Mutant of BeginRun: one result too many is made.
BeginRunTooLong(r) ==
    /\ ~crashed
    /\ phase[r] = "chosen"
    /\ \E n \in Lengths : size' = [size EXCEPT ![r] = n + 1]
    /\ phase' = [phase EXCEPT ![r] = "sized"]
    /\ UNCHANGED <<confVars, snap, slot, said, late, alive, world, crashed>>

\* results := make([]bool, len(b.HealthChecks)).  The loop that follows, over the
\* types of the checks, only logs; read where Launch reads, it panics where
\* Launch does, and is no step of its own.
BeginRun(r) ==
    /\ ~crashed
    /\ phase[r] = "chosen"
    /\ \E n \in Lengths : size' = [size EXCEPT ![r] = n]
    /\ phase' = [phase EXCEPT ![r] = "sized"]
    /\ UNCHANGED <<confVars, snap, slot, said, late, alive, world, crashed>>

\* for i, hc := range b.HealthChecks { go ... }: a length beyond the array
\* makes the loop take garbage for a check, and calling it panics.
Launch(r) ==
    /\ ~crashed
    /\ phase[r] = "sized"
    /\ \E array \in Arrays, n \in Lengths :
         /\ crashed' = (n > Len(array))
         /\ snap' = [snap EXCEPT ![r] = IF n > Len(array) THEN array ELSE SubSeq(array, 1, n)]
    /\ slot' = [slot EXCEPT ![r] =
                  [i \in Indices |-> IF i <= Len(snap'[r]) THEN "waiting" ELSE "none"]]
    /\ said' = [said EXCEPT ![r] = [i \in Indices |-> "none"]]
    /\ phase' = [phase EXCEPT ![r] = "launched"]
    /\ UNCHANGED <<confVars, size, late, alive, world>>

\* resultChan <- hc.PerformCheck(...), in time for its run.
Answer(r, i) ==
    /\ ~crashed
    /\ slot[r][i] = "waiting"
    /\ \E answer \in {"yes", "no"} :
         /\ world[snap[r][i]] = "up" => answer = "yes"
         /\ world[snap[r][i]] = "down" => answer = "no"
         /\ slot' = [slot EXCEPT ![r][i] = answer]
         /\ said' = [said EXCEPT ![r][i] = answer]
    /\ UNCHANGED <<confVars, phase, size, snap, late, alive, world, crashed>>

\* Storing a result: an index beyond len(results) panics.
Store(r, i, result) ==
    /\ slot' = [slot EXCEPT ![r][i] = result]
    /\ crashed' = (i > size[r])

\* case results[i] = <-resultChan
Receive(r, i) ==
    /\ ~crashed
    /\ slot[r][i] \in {"yes", "no"}
    /\ Store(r, i, IF slot[r][i] = "yes" THEN "true" ELSE "false")
    /\ UNCHANGED <<confVars, phase, size, snap, said, late, alive, world>>

\* Mutant of Timeout: the select has no ctx.Done case.
TimeoutMissing(r, i) == FALSE /\ UNCHANGED vars

\* case <-ctx.Done(): results[i] = false; select may take it though the answer
\* has just come.  A probe without an answer goes on for nobody.
Timeout(r, i) ==
    /\ ~crashed
    /\ slot[r][i] \in {"waiting", "yes", "no"}
    /\ world[snap[r][i]] = "slow"
    /\ Store(r, i, "false")
    /\ late' = [late EXCEPT ![r][i] = @ \/ slot[r][i] = "waiting"]
    /\ UNCHANGED <<confVars, phase, size, snap, said, alive, world>>

\* Mutant of LateAnswer: the runs of a check share one channel.
LateAnswerShared(r, i) ==
    /\ ~crashed
    /\ late[r][i]
    /\ late' = [late EXCEPT ![r][i] = FALSE]
    /\ slot' = [slot EXCEPT ![r][i] = IF @ = "waiting" THEN "yes" ELSE @]
    /\ UNCHANGED <<confVars, phase, size, snap, said, alive, world, crashed>>

\* The abandoned probe answers into the buffered channel of its own run, which
\* nobody reads.
LateAnswer(r, i) ==
    /\ ~crashed
    /\ late[r][i]
    /\ late' = [late EXCEPT ![r][i] = FALSE]
    /\ UNCHANGED <<confVars, phase, size, snap, slot, said, alive, world, crashed>>

\* The run returns and its locals are gone.
EndRun(r) ==
    /\ phase' = [phase EXCEPT ![r] = "idle"]
    /\ size' = [size EXCEPT ![r] = 0]
    /\ snap' = [snap EXCEPT ![r] = <<>>]
    /\ slot' = [slot EXCEPT ![r] = [i \in Indices |-> "none"]]
    /\ said' = [said EXCEPT ![r] = [i \in Indices |-> "none"]]

\* wg.Wait() has returned.
AllStored(r) == \A i \in 1..Len(snap[r]) : slot[r][i] \in {"true", "false"}

\* Mutant of Publish: only a passing run assigns Alive.
PublishLatched(r) ==
    /\ ~crashed
    /\ phase[r] = "launched"
    /\ AllStored(r)
    /\ alive' = (alive \/ \A i \in 1..size[r] : slot[r][i] = "true")
    /\ EndRun(r)
    /\ UNCHANGED <<confVars, late, world, crashed>>

\* alive := every element of results; the elements nobody stored are false.
Publish(r) ==
    /\ ~crashed
    /\ phase[r] = "launched"
    /\ AllStored(r)
    /\ alive' = (\A i \in 1..size[r] : slot[r][i] = "true")
    /\ EndRun(r)
    /\ UNCHANGED <<confVars, late, world, crashed>>

----------------------------------------------------------------------------
(***************************************************************************)
(* A reload that still has the backend (updateBackend) and one that does   *)
(* not (removeBackend and the removal from r.Backends).                    *)
(***************************************************************************)

\* Enable is copied; a list that differs starts being assigned.
UpdateBackend(e, l) ==
    /\ ~crashed
    /\ attached
    /\ incoming = NoUpdate
    /\ enable' = e
    /\ incoming' = IF l = checks THEN NoUpdate ELSE l
    /\ UNCHANGED <<checks, attached, runVars, alive, world, crashed>>

\* The assignment of b.HealthChecks is complete.
UpdateEnd ==
    /\ ~crashed
    /\ incoming # NoUpdate
    /\ checks' = incoming
    /\ incoming' = NoUpdate
    /\ UNCHANGED <<enable, attached, runVars, alive, world, crashed>>

\* removeBackend logs; updateRecord takes the backend out of r.Backends.
RemoveBackend ==
    /\ ~crashed
    /\ attached
    /\ incoming = NoUpdate
    /\ attached' = FALSE
    /\ UNCHANGED <<enable, checks, incoming, runVars, alive, world, crashed>>

\* The world: a check starts to pass, to fail or to take long.
WorldChanges(c, w) ==
    /\ ~crashed
    /\ world[c] # w
    /\ world' = [world EXCEPT ![c] = w]
    /\ UNCHANGED <<confVars, runVars, alive, crashed>>

----------------------------------------------------------------------------
Respond(r, i) == Answer(r, i) \/ Receive(r, i) \/ Timeout(r, i)

Run(r) == BeginRun(r) \/ Launch(r) \/ Publish(r)

Tick == TickReaches \/ TickTestsEnabled

\* A panic of any goroutine ends the process.
Down == crashed /\ UNCHANGED vars

Next ==
    \/ Tick
    \/ \E r \in Runs : Run(r)
    \/ \E r \in Runs, i \in Indices : Respond(r, i) \/ LateAnswer(r, i)
    \/ \E e \in BOOLEAN, l \in Lists : UpdateBackend(e, l)
    \/ UpdateEnd
    \/ RemoveBackend
    \/ \E c \in Checks, w \in Conditions : WorldChanges(c, w)
    \/ Down

\* What a waiting check is sure to get: the answer of a service that is not
\* slow, or its timeout.
Due(r, i) ==
    \/ Answer(r, i) /\ world[snap[r][i]] # "slow"
    \/ Receive(r, i)
    \/ Timeout(r, i)

(***************************************************************************)
(* The ticker fires, goroutines that can run are run, and every check gets *)
(* its answer or its timeout.  Nothing obliges a slow probe to answer, a   *)
(* file to change or the world to move.                                    *)
(***************************************************************************)
Fairness ==
    /\ WF_vars(Tick)
    /\ WF_vars(UpdateEnd)
    /\ \A r \in Runs : WF_vars(Run(r))
    /\ \A r \in Runs, i \in Indices : WF_vars(Due(r, i))

Spec == Init /\ [][Next]_vars

FairSpec == Spec /\ Fairness

----------------------------------------------------------------------------
\* Every variable stays in its type.
TypeOK ==
    /\ enable \in BOOLEAN
    /\ alive \in BOOLEAN
    /\ checks \in Lists
    /\ incoming \in Lists \cup {NoUpdate}
    /\ attached \in BOOLEAN
    /\ world \in [Checks -> Conditions]
    /\ phase \in [Runs -> Phases]
    /\ size \in [Runs -> 0..MaxChecks]
    /\ snap \in [Runs -> Seq(Checks)]
    /\ \A r \in Runs : Len(snap[r]) <= MaxChecks
    /\ slot \in [Runs -> [Indices -> Slots]]
    /\ said \in [Runs -> [Indices -> {"none", "yes", "no"}]]
    /\ late \in [Runs -> [Indices -> BOOLEAN]]
    /\ crashed \in BOOLEAN

\* A backend turns healthy only when a run ends in which every check of the
\* list it ranged over was answered positively by the probe of that very run
\* and before its timeout: an answer that comes late, that belongs to another
\* run or that an assignment of the list left out never counts.
AliveIsEarned ==
    [][ (~alive /\ alive') =>
          \E r \in Runs :
             /\ phase[r] = "launched" /\ phase'[r] = "idle"
             /\ size[r] = Len(snap[r])
             /\ \A i \in 1..size[r] : said[r][i] = "yes" ]_vars

\* A run ends whatever its probes do: a check that hangs is given up.
RunEnds ==
    \A r \in Runs : (phase[r] = "launched") ~> (phase[r] = "idle" \/ crashed)

\* The backend stays in the record, enabled, and its list of checks is stable.
Settled == attached /\ enable /\ incoming = NoUpdate /\ ~crashed

\* A backend with a check that stays down is found unhealthy and stays so,
\* whatever the runs in progress when the check went down still publish.
DownIsDetected ==
    \A c \in Checks :
        <>[](Settled /\ c \in Range(checks) /\ world[c] = "down") => <>[]~alive

\* A backend all of whose checks stay up is found healthy and stays so, even
\* after a run that raced a change of its list has published false.
UpIsDetected ==
    <>[](Settled /\ \A c \in Checks : world[c] = "up") => <>[]alive

\* A lasting change of a service is detected in both directions, and not undone by
\* an older run that publishes last.
ChangesAreDetected == DownIsDetected /\ UpIsDetected

----------------------------------------------------------------------------
\* docs/configuration.md:3: changes of the configuration are applied at
\* runtime: changing the list of checks of a backend does not take CoreDNS down.
UpdateNeverCrashes == ~crashed

\* backend.go:173: "removeBackend stops the health check and performs cleanup
\* for the backend": no check is launched for a backend that was removed.
RemovedIsQuiet ==
    [][ ~attached =>
          \A r \in Runs : phase'[r] = "launched" => phase[r] = "launched" ]_vars
=============================================================================
