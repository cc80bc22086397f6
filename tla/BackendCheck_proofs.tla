------------------------ MODULE BackendCheck_proofs ------------------------
(***************************************************************************)
(* Proofs about BackendCheck, for every set of checks and every set of     *)
(* lists of them.                                                          *)
(***************************************************************************)
EXTENDS BackendCheck, TLAPS

\* The slots of a run: none outside a launched run or beyond its list; a
\* positive slot is the answer of the run's own probe; a result is stored only
\* where results has room.
SlotInv(r) ==
    /\ phase[r] # "launched" => \A i \in Indices : slot[r][i] = "none"
    /\ phase[r] = "launched" =>
         \A i \in Indices :
            /\ slot[r][i] # "none" => i <= Len(snap[r])
            /\ slot[r][i] \in {"yes", "true"} => said[r][i] = "yes"
            /\ slot[r][i] \in {"true", "false"} => i <= size[r]

IInv == TypeOK /\ (~crashed => \A r \in Runs : SlotInv(r))

----------------------------------------------------------------------------
\* What an unlocked read of the list may combine stays within the bounds.
LEMMA ArraysType ==
    ASSUME TypeOK
    PROVE  /\ Arrays \subseteq Lists
           /\ \A l \in Arrays : l \in Seq(Checks) /\ Len(l) \in 0..MaxChecks
           /\ Lengths \subseteq 0..MaxChecks
  <1>1. Arrays \subseteq Lists
    BY DEF TypeOK, Arrays
  <1>2. \A l \in Lists : l \in Seq(Checks) /\ Len(l) \in 0..MaxChecks
    BY ConstantsAssumption
  <1>3. QED
    BY <1>1, <1>2 DEF Lengths

LEMMA InitIInv == ASSUME Init PROVE IInv
  <1>1. TypeOK
    <2>1. phase \in [Runs -> Phases]
      BY DEF Init, Phases
    <2>2. snap \in [Runs -> Seq(Checks)] /\ \A r \in Runs : Len(snap[r]) <= MaxChecks
      BY ConstantsAssumption DEF Init
    <2>3. size \in [Runs -> 0..MaxChecks]
      BY ConstantsAssumption DEF Init
    <2>4. QED
      BY <2>1, <2>2, <2>3 DEF Init, TypeOK, Slots
  <1>2. \A r \in Runs : SlotInv(r)
    BY DEF Init, SlotInv
  <1>3. QED
    BY <1>1, <1>2 DEF IInv

\* A step that touches the local state of no run keeps the invariant.
LEMMA OtherStepKeepsInvariant ==
    ASSUME IInv, TypeOK', ~crashed,
           UNCHANGED <<size, snap, slot, said>>,
           \A r \in Runs : phase'[r] = "launched" <=> phase[r] = "launched"
    PROVE  IInv'
  BY DEF IInv, SlotInv

\* A step on the slot i of the run r keeps the slots of every other run.
LEMMA SlotStepKeepsInvariant ==
    ASSUME IInv, TypeOK', ~crashed,
           NEW r \in Runs, NEW i \in Indices, NEW v \in Slots \ {"none"},
           NEW a \in {"none", "yes", "no"},
           slot[r][i] # "none",
           v \in {"yes", "true"} => a = "yes",
           v \in {"true", "false"} => (i <= size[r] \/ crashed'),
           slot' = [slot EXCEPT ![r][i] = v],
           said' = [said EXCEPT ![r][i] = a],
           UNCHANGED <<phase, size, snap>>
    PROVE  IInv'
  <1>1. ASSUME ~crashed', NEW p \in Runs
        PROVE  SlotInv(p)'
    <2>1. SlotInv(p) /\ SlotInv(r)
      BY DEF IInv
    <2>2. phase[r] = "launched"
      BY <2>1 DEF SlotInv
    <2>3. CASE p # r
      BY <2>1, <2>3 DEF SlotInv, IInv, TypeOK
    <2>4. CASE p = r
      <3>1. ASSUME NEW j \in Indices
            PROVE  /\ slot'[r][j] # "none" => j <= Len(snap[r])
                   /\ slot'[r][j] \in {"yes", "true"} => said'[r][j] = "yes"
                   /\ slot'[r][j] \in {"true", "false"} => j <= size[r]
        <4>1. CASE j = i
          BY <1>1, <2>1, <2>2, <4>1 DEF SlotInv, IInv, TypeOK
        <4>2. CASE j # i
          BY <2>1, <2>2, <4>2 DEF SlotInv, IInv, TypeOK
        <4>3. QED
          BY <4>1, <4>2
      <3>2. QED
        BY <2>2, <2>4, <3>1 DEF SlotInv
    <2>5. QED
      BY <2>3, <2>4
  <1>2. QED
    BY <1>1 DEF IInv

LEMMA TickKeepsInvariant == ASSUME IInv, Tick PROVE IInv'
  <1>1. CASE TickReaches
    <2>1. TypeOK'
      BY <1>1 DEF TickReaches, IInv, TypeOK, confVars, Phases
    <2>2. QED
      BY <1>1, <2>1, OtherStepKeepsInvariant DEF TickReaches, IInv, TypeOK
  <1>2. CASE TickTestsEnabled
    <2>1. TypeOK'
      BY <1>2 DEF TickTestsEnabled, IInv, TypeOK, confVars, Phases
    <2>2. QED
      BY <1>2, <2>1, OtherStepKeepsInvariant DEF TickTestsEnabled, IInv, TypeOK
  <1>3. QED
    BY <1>1, <1>2 DEF Tick

LEMMA RespondKeepsInvariant ==
    ASSUME IInv, NEW r \in Runs, NEW i \in Indices, Respond(r, i)
    PROVE  IInv'
  <1>1. CASE Answer(r, i)
    <2>1. PICK answer \in {"yes", "no"} :
            /\ slot' = [slot EXCEPT ![r][i] = answer]
            /\ said' = [said EXCEPT ![r][i] = answer]
      BY <1>1 DEF Answer
    <2>2. TypeOK'
      BY <1>1, <2>1 DEF Answer, IInv, TypeOK, confVars, Slots
    <2>3. QED
      BY <1>1, <2>1, <2>2, SlotStepKeepsInvariant DEF Answer, Slots
  <1>2. CASE Receive(r, i)
    <2>1. PICK v \in {"true", "false"} :
            /\ v = "true" => slot[r][i] = "yes"
            /\ slot' = [slot EXCEPT ![r][i] = v]
            /\ crashed' = (i > size[r])
      BY <1>2 DEF Receive, Store
    <2>2. TypeOK'
      BY <1>2, <2>1 DEF Receive, IInv, TypeOK, confVars, Slots
    <2>3. v = "true" => said[r][i] = "yes"
      BY <1>2, <2>1 DEF Receive, IInv, SlotInv
    <2>4. said[r][i] \in {"none", "yes", "no"} /\ said' = [said EXCEPT ![r][i] = said[r][i]]
      BY <1>2 DEF Receive, IInv, TypeOK
    <2>5. i <= size[r] \/ crashed'
      <3>1. i \in Nat /\ size[r] \in Nat
        BY ConstantsAssumption DEF IInv, TypeOK, Indices
      <3>2. CASE i > size[r]
        BY <2>1, <3>2
      <3>3. QED
        BY <3>1, <3>2
    <2>6. QED
      BY <1>2, <2>1, <2>2, <2>3, <2>4, <2>5, SlotStepKeepsInvariant DEF Receive, Slots
  <1>3. CASE Timeout(r, i)
    <2>1. slot' = [slot EXCEPT ![r][i] = "false"] /\ crashed' = (i > size[r])
      BY <1>3 DEF Timeout, Store
    <2>2. TypeOK'
      BY <1>3, <2>1 DEF Timeout, IInv, TypeOK, confVars, Slots
    <2>3. said[r][i] \in {"none", "yes", "no"} /\ said' = [said EXCEPT ![r][i] = said[r][i]]
      BY <1>3 DEF Timeout, IInv, TypeOK
    <2>4. i <= size[r] \/ crashed'
      <3>1. i \in Nat /\ size[r] \in Nat
        BY ConstantsAssumption DEF IInv, TypeOK, Indices
      <3>2. CASE i > size[r]
        BY <2>1, <3>2
      <3>3. QED
        BY <3>1, <3>2
    <2>5. QED
      BY <1>3, <2>1, <2>2, <2>3, <2>4, SlotStepKeepsInvariant DEF Timeout, Slots
  <1>4. QED
    BY <1>1, <1>2, <1>3 DEF Respond

LEMMA BeginRunKeepsInvariant ==
    ASSUME IInv, NEW r \in Runs, BeginRun(r)
    PROVE  IInv'
  <1>1. PICK n \in 0..MaxChecks : size' = [size EXCEPT ![r] = n]
    BY ArraysType DEF BeginRun, IInv
  <1>2. TypeOK'
    BY <1>1 DEF BeginRun, IInv, TypeOK, confVars, Phases
  <1>3. ASSUME NEW p \in Runs PROVE SlotInv(p)'
    BY <1>1 DEF BeginRun, IInv, TypeOK, SlotInv
  <1>4. QED
    BY <1>2, <1>3 DEF IInv

LEMMA LaunchKeepsInvariant ==
    ASSUME IInv, NEW r \in Runs, Launch(r)
    PROVE  IInv'
  <1>1. PICK array \in Arrays, n \in Lengths :
          /\ crashed' = (n > Len(array))
          /\ snap' = [snap EXCEPT ![r] = IF n > Len(array) THEN array ELSE SubSeq(array, 1, n)]
    BY DEF Launch
  <1>2. /\ array \in Seq(Checks) /\ Len(array) \in 0..MaxChecks
        /\ n \in 0..MaxChecks
    BY ArraysType DEF IInv
  <1>3. snap'[r] \in Seq(Checks) /\ Len(snap'[r]) <= MaxChecks
    <2>1. CASE n > Len(array)
      BY <1>1, <1>2, <2>1 DEF IInv, TypeOK
    <2>2. CASE ~(n > Len(array))
      <3>1. SubSeq(array, 1, n) \in Seq(Checks) /\ Len(SubSeq(array, 1, n)) = n
        BY <1>2, <2>2
      <3>2. QED
        BY <1>1, <1>2, <2>2, <3>1 DEF IInv, TypeOK
    <2>3. QED
      BY <2>1, <2>2
  <1>4. TypeOK'
    <2>1. snap' \in [Runs -> Seq(Checks)] /\ \A p \in Runs : Len(snap'[p]) <= MaxChecks
      BY <1>1, <1>3 DEF IInv, TypeOK
    <2>2. slot' \in [Runs -> [Indices -> Slots]]
      BY DEF Launch, IInv, TypeOK, Slots
    <2>3. said' \in [Runs -> [Indices -> {"none", "yes", "no"}]]
      BY DEF Launch, IInv, TypeOK
    <2>4. phase' \in [Runs -> Phases]
      BY DEF Launch, IInv, TypeOK, Phases
    <2>5. crashed' \in BOOLEAN
      BY <1>1
    <2>6. QED
      BY <2>1, <2>2, <2>3, <2>4, <2>5 DEF Launch, IInv, TypeOK, confVars
  <1>5. ASSUME NEW p \in Runs PROVE SlotInv(p)'
    <2>1. CASE p = r
      <3>1. \A i \in Indices : slot'[r][i] = IF i <= Len(snap'[r]) THEN "waiting" ELSE "none"
        BY DEF Launch, IInv, TypeOK
      <3>2. phase'[r] = "launched"
        BY DEF Launch, IInv, TypeOK
      <3>3. QED
        BY <2>1, <3>1, <3>2 DEF SlotInv
    <2>2. CASE p # r
      <3>1. SlotInv(p)
        BY DEF Launch, IInv
      <3>2. /\ slot'[p] = slot[p] /\ said'[p] = said[p] /\ snap'[p] = snap[p]
            /\ phase'[p] = phase[p] /\ size' = size
        BY <1>1, <2>2 DEF Launch, IInv, TypeOK
      <3>3. QED
        BY <3>1, <3>2 DEF SlotInv
    <2>3. QED
      BY <2>1, <2>2
  <1>6. QED
    BY <1>4, <1>5 DEF IInv

LEMMA PublishKeepsInvariant ==
    ASSUME IInv, NEW r \in Runs, Publish(r)
    PROVE  IInv'
  <1>1. TypeOK'
    <2>1. phase' \in [Runs -> Phases] /\ alive' \in BOOLEAN
      BY DEF Publish, EndRun, IInv, TypeOK, Phases
    <2>2. size' \in [Runs -> 0..MaxChecks]
      BY ConstantsAssumption DEF Publish, EndRun, IInv, TypeOK
    <2>3. snap' \in [Runs -> Seq(Checks)] /\ \A p \in Runs : Len(snap'[p]) <= MaxChecks
      BY ConstantsAssumption DEF Publish, EndRun, IInv, TypeOK
    <2>4. /\ slot' \in [Runs -> [Indices -> Slots]]
          /\ said' \in [Runs -> [Indices -> {"none", "yes", "no"}]]
      BY DEF Publish, EndRun, IInv, TypeOK, Slots
    <2>5. QED
      BY <2>1, <2>2, <2>3, <2>4 DEF Publish, IInv, TypeOK, confVars
  <1>2. ASSUME NEW p \in Runs PROVE SlotInv(p)'
    <2>1. CASE p = r
      BY <2>1 DEF Publish, EndRun, IInv, TypeOK, SlotInv
    <2>2. CASE p # r
      <3>1. SlotInv(p)
        BY DEF Publish, IInv
      <3>2. /\ slot'[p] = slot[p] /\ said'[p] = said[p] /\ snap'[p] = snap[p]
            /\ phase'[p] = phase[p] /\ size'[p] = size[p]
        BY <2>2 DEF Publish, EndRun, IInv, TypeOK
      <3>3. QED
        BY <3>1, <3>2 DEF SlotInv
    <2>3. QED
      BY <2>1, <2>2
  <1>3. QED
    BY <1>1, <1>2 DEF IInv

\* Reloads, the world and abandoned probes do not touch the runs.
LEMMA EnvironmentKeepsInvariant ==
    ASSUME IInv,
           \/ \E e \in BOOLEAN, l \in Lists : UpdateBackend(e, l)
           \/ UpdateEnd
           \/ RemoveBackend
           \/ \E c \in Checks, w \in Conditions : WorldChanges(c, w)
           \/ \E r \in Runs, i \in Indices : LateAnswer(r, i)
    PROVE  IInv'
  <1>1. CASE \E e \in BOOLEAN, l \in Lists : UpdateBackend(e, l)
    <2>1. TypeOK'
      BY <1>1 DEF UpdateBackend, runVars, IInv, TypeOK
    <2>2. QED
      BY <1>1, <2>1, OtherStepKeepsInvariant DEF UpdateBackend, runVars
  <1>2. CASE UpdateEnd
    <2>1. TypeOK'
      BY <1>2 DEF UpdateEnd, runVars, IInv, TypeOK
    <2>2. QED
      BY <1>2, <2>1, OtherStepKeepsInvariant DEF UpdateEnd, runVars
  <1>3. CASE RemoveBackend
    <2>1. TypeOK'
      BY <1>3 DEF RemoveBackend, runVars, IInv, TypeOK
    <2>2. QED
      BY <1>3, <2>1, OtherStepKeepsInvariant DEF RemoveBackend, runVars
  <1>4. CASE \E c \in Checks, w \in Conditions : WorldChanges(c, w)
    <2>1. TypeOK'
      BY <1>4 DEF WorldChanges, runVars, confVars, IInv, TypeOK
    <2>2. QED
      BY <1>4, <2>1, OtherStepKeepsInvariant DEF WorldChanges, runVars
  <1>5. CASE \E r \in Runs, i \in Indices : LateAnswer(r, i)
    <2>1. TypeOK'
      BY <1>5 DEF LateAnswer, confVars, IInv, TypeOK
    <2>2. QED
      BY <1>5, <2>1, OtherStepKeepsInvariant DEF LateAnswer
  <1>6. QED
    BY <1>1, <1>2, <1>3, <1>4, <1>5

LEMMA NextKeepsInvariant == IInv /\ [Next]_vars => IInv'
  <1> SUFFICES ASSUME IInv, [Next]_vars PROVE IInv'
    OBVIOUS
  <1>1. CASE Tick
    BY <1>1, TickKeepsInvariant
  <1>2. ASSUME NEW r \in Runs, Run(r) PROVE IInv'
    BY <1>2, BeginRunKeepsInvariant, LaunchKeepsInvariant, PublishKeepsInvariant DEF Run
  <1>3. ASSUME NEW r \in Runs, NEW i \in Indices, Respond(r, i) PROVE IInv'
    BY <1>3, RespondKeepsInvariant
  <1>4. CASE UNCHANGED vars
    BY <1>4 DEF vars, confVars, runVars, IInv, TypeOK, SlotInv
  <1>5. QED
    BY <1>1, <1>2, <1>3, <1>4, EnvironmentKeepsInvariant DEF Next, Down

----------------------------------------------------------------------------
\* The slots of the runs are consistent in every reachable state.
LEMMA InductiveInvariant == Spec => []IInv
  <1>1. Init => IInv
    BY InitIInv
  <1>2. QED
    BY <1>1, NextKeepsInvariant, PTL DEF Spec

\* Type correctness of the backend and of its runs.
THEOREM TypeCorrect == Spec => []TypeOK
  <1>1. IInv => TypeOK
    BY DEF IInv
  <1>2. QED
    BY <1>1, InductiveInvariant, PTL

\* Only Publish makes a backend healthy, and then results was exactly as long
\* as the list the run ranged over and every probe of the run said yes.
LEMMA PublishedAliveIsEarned ==
    ASSUME IInv, NEW r \in Runs, Publish(r), alive'
    PROVE  /\ phase[r] = "launched" /\ phase'[r] = "idle"
           /\ size[r] = Len(snap[r])
           /\ \A i \in 1..size[r] : said[r][i] = "yes"
  <1>1. /\ phase[r] = "launched" /\ phase'[r] = "idle" /\ AllStored(r) /\ SlotInv(r)
        /\ \A i \in 1..size[r] : slot[r][i] = "true"
    BY DEF Publish, EndRun, IInv, TypeOK
  <1>2. size[r] \in 0..MaxChecks /\ Len(snap[r]) \in 0..MaxChecks
    BY DEF IInv, TypeOK
  <1>3. size[r] <= Len(snap[r])
    <2>1. CASE size[r] = 0
      BY <1>2, <2>1
    <2>2. CASE size[r] # 0
      <3>1. size[r] \in Indices /\ slot[r][size[r]] = "true"
        BY <1>1, <1>2, <2>2 DEF Indices
      <3>2. QED
        BY <1>1, <3>1 DEF SlotInv
    <2>3. QED
      BY <2>1, <2>2
  <1>4. Len(snap[r]) <= size[r]
    <2>1. CASE Len(snap[r]) = 0
      BY <1>2, <2>1
    <2>2. CASE Len(snap[r]) # 0
      <3>1. /\ Len(snap[r]) \in Indices
            /\ slot[r][Len(snap[r])] \in {"true", "false"}
        BY <1>1, <1>2, <2>2 DEF Indices, AllStored
      <3>2. QED
        BY <1>1, <3>1 DEF SlotInv
    <2>3. QED
      BY <2>1, <2>2
  <1>5. ASSUME NEW i \in 1..size[r]
        PROVE  said[r][i] = "yes"
    <2>1. i \in Indices /\ slot[r][i] = "true"
      BY <1>1, <1>2, ConstantsAssumption DEF Indices
    <2>2. QED
      BY <1>1, <2>1 DEF SlotInv
  <1>6. QED
    BY <1>1, <1>2, <1>3, <1>4, <1>5

\* No late answer, no answer of another run and no change of the list during
\* the run ever makes a backend healthy.
THEOREM AliveIsAlwaysEarned == Spec => AliveIsEarned
  <1> DEFINE Earned ==
        (~alive /\ alive') =>
          \E r \in Runs :
             /\ phase[r] = "launched" /\ phase'[r] = "idle"
             /\ size[r] = Len(snap[r])
             /\ \A i \in 1..size[r] : said[r][i] = "yes"
  <1>1. IInv /\ [Next]_vars => Earned
    <2> SUFFICES ASSUME IInv, [Next]_vars, ~alive, alive' PROVE Earned
      OBVIOUS
    <2>1. PICK r \in Runs : Publish(r)
      BY DEF Next, Tick, TickReaches, TickTestsEnabled, Run, BeginRun, Launch,
             Respond, Answer, Receive, Timeout, LateAnswer, UpdateBackend,
             UpdateEnd, RemoveBackend, WorldChanges, Down, vars
    <2>2. QED
      BY <2>1, PublishedAliveIsEarned
  <1>2. IInv /\ [Next]_vars => [Earned]_vars
    BY <1>1
  <1>3. QED
    BY <1>2, InductiveInvariant, PTL DEF Spec, AliveIsEarned
=============================================================================
