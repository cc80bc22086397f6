---------------------------- MODULE Probe_proofs ----------------------------
(***************************************************************************)
(* Proofs about Probe: verdicts, counters and durations, for any values of *)
(* scrape_retries and of the timeout, and any behaviour of the service.    *)
(***************************************************************************)
EXTENDS Probe, TLAPS

StageStates ==
    [waits : {"no", "deadline", "forever"}, refuses : BOOLEAN, reason : Reasons \cup {"none"}]

\* Nothing is counted before the probe returns.
CountInv == at \in {"idle", "stage"} => failures = <<>> /\ observed = <<>>

\* What the history says of the service.
ServiceInv ==
    /\ at = "idle" => ~steady
    /\ at = "stage" => config = "none" /\ Last >= 0
    /\ at = "stage" /\ Good(service) => wasUp
    /\ at = "stage" /\ steady => Good(service) /\ left > 0

----------------------------------------------------------------------------
(***************************************************************************)
(* The table of stages, and sequences of one element.                      *)
(***************************************************************************)

LEMMA StageTyped ==
    \A w \in {"no", "deadline", "forever"}, f \in BOOLEAN, r \in Reasons \cup {"none"} :
        Stage(w, f, r) \in StageStates
  BY DEF Stage, StageStates

\* A sequence of one to four elements has a length, and those elements.
LEMMA ShortSequences ==
    ASSUME NEW S, NEW a \in S, NEW b \in S, NEW c \in S, NEW d \in S,
           NEW s \in {<<a>>, <<a, b>>, <<a, b, c>>, <<a, b, c, d>>}
    PROVE  Len(s) \in Nat /\ Len(s) > 0 /\ \A i \in 1..Len(s) : s[i] \in S
<1>1. CASE s = <<a>>
  BY <1>1
<1>2. CASE s = <<a, b>>
  BY <1>2
<1>3. CASE s = <<a, b, c>>
  BY <1>3
<1>4. CASE s = <<a, b, c, d>>
  BY <1>4
<1>5. QED
  BY <1>1, <1>2, <1>3, <1>4

LEMMA StagesTyped ==
    ASSUME NEW t \in Types
    PROVE  /\ Len(Stages[t]) \in Nat /\ Len(Stages[t]) > 0
           /\ \A i \in 1..Len(Stages[t]) : Stages[t][i] \in StageStates
<1>0. {"connection", "protocol"} \subseteq Reasons
  BY DEF Reasons
<1>1. CASE t = "http"
  <2> DEFINE a == Stage("deadline", TRUE, "connection")
             b == Stage("no", TRUE, "protocol")
  <2>1. Stages[t] = <<a, b>>
    BY <1>1 DEF Stages, HttpStages
  <2>2. a \in StageStates /\ b \in StageStates
    BY <1>0, StageTyped
  <2> HIDE DEF a, b
  <2>3. QED
    BY <2>1, <2>2, ShortSequences
<1>1b. CASE t = "httpBody"
  <2> DEFINE a == Stage("deadline", TRUE, "connection")
             b == Stage("no", TRUE, "protocol")
             c == Stage("deadline", TRUE, "protocol")
  <2>1. Stages[t] = <<a, b, c>>
    BY <1>1b DEF Stages, HttpBodyStages
  <2>2. a \in StageStates /\ b \in StageStates /\ c \in StageStates
    BY <1>0, StageTyped
  <2> HIDE DEF a, b, c
  <2>3. QED
    BY <2>1, <2>2, ShortSequences
<1>2. CASE t = "tcp"
  <2> DEFINE a == Stage("deadline", TRUE, "connection")
  <2>1. Stages[t] = <<a>>
    BY <1>2 DEF Stages, TcpStages
  <2>2. a \in StageStates
    BY <1>0, StageTyped
  <2> HIDE DEF a
  <2>3. QED
    BY <2>1, <2>2, ShortSequences
<1>3. CASE t = "icmp"
  <2> DEFINE a == Stage("no", TRUE, "connection")
             b == Stage("no", TRUE, "connection")
             c == Stage("deadline", FALSE, "none")
  <2>1. Stages[t] = <<a, b, c>>
    BY <1>3 DEF Stages, IcmpStages
  <2>2. a \in StageStates /\ b \in StageStates /\ c \in StageStates
    BY <1>0, StageTyped
  <2> HIDE DEF a, b, c
  <2>3. QED
    BY <2>1, <2>2, ShortSequences
<1>4. CASE t = "mysql"
  <2> DEFINE a == Stage("no", TRUE, "connection")
             b == Stage("deadline", TRUE, "connection")
             c == Stage("forever", TRUE, "connection")
             d == Stage("forever", TRUE, "protocol")
  <2>1. Stages[t] = <<a, b, c, d>>
    BY <1>4 DEF Stages, MysqlStages
  <2>2. a \in StageStates /\ b \in StageStates /\ c \in StageStates /\ d \in StageStates
    BY <1>0, StageTyped
  <2> HIDE DEF a, b, c, d
  <2>3. QED
    BY <2>1, <2>2, ShortSequences
<1>5. CASE t = "grpc"
  <2> DEFINE a == Stage("no", TRUE, "connection")
             b == Stage("deadline", TRUE, "connection")
             c == Stage("no", TRUE, "protocol")
  <2>1. Stages[t] = <<a, b, c>>
    BY <1>5 DEF Stages, GrpcStages
  <2>2. a \in StageStates /\ b \in StageStates /\ c \in StageStates
    BY <1>0, StageTyped
  <2> HIDE DEF a, b, c
  <2>3. QED
    BY <2>1, <2>2, ShortSequences
<1>6. CASE t = "lua"
  <2> DEFINE a == Stage("forever", TRUE, "none")
             b == Stage("no", TRUE, "none")
  <2>1. Stages[t] = <<a, b>>
    BY <1>6 DEF Stages, LuaStages
  <2>2. a \in StageStates /\ b \in StageStates
    BY <1>0, StageTyped
  <2> HIDE DEF a, b
  <2>3. QED
    BY <2>1, <2>2, ShortSequences
<1>7. QED
  BY <1>1, <1>1b, <1>2, <1>3, <1>4, <1>5, <1>6 DEF Types, Http

LEMMA CurrentTyped ==
    ASSUME TypeOK
    PROVE  Current \in StageStates
  BY StagesTyped DEF TypeOK, Current

LEMMA LastIsInt ==
    ASSUME TypeOK
    PROVE  Last \in Int
  BY ConstantsAssumption DEF TypeOK, Last

LEMMA OneElement ==
    ASSUME NEW S, NEW x \in S
    PROVE  /\ <<>> \o <<x>> = <<x>> /\ <<>> \o <<>> = <<>> /\ Append(<<>>, x) = <<x>>
           /\ <<x>> \in Seq(S) /\ <<>> \in Seq(S) /\ Len(<<x>>) = 1 /\ Len(<<>>) = 0
  OBVIOUS

----------------------------------------------------------------------------
(***************************************************************************)
(* The three ways on from an attempt: an end, a panic, another attempt.    *)
(***************************************************************************)

Returned(res) ==
    /\ at' = "done" /\ result' = res
    /\ failures' \in Seq(Reasons) /\ observed' \in Seq(BOOLEAN)
    /\ CountedOnce'
    /\ UNCHANGED <<retry, stage, left, steady>>

Panicked ==
    /\ at' = "panicked"
    /\ UNCHANGED <<retry, stage, left, result, counters, steady>>

LEMMA ReturnReturns ==
    ASSUME CountInv, at \in {"idle", "stage"}, UNCHANGED settings,
           NEW res \in BOOLEAN, NEW reason \in Reasons,
           Return(res, IF res THEN <<>> ELSE <<reason>>)
    PROVE  Returned(res)
<1>1. failures = <<>> /\ observed = <<>>
  BY DEF CountInv
<1>2. type' = type
  BY DEF settings
<1>3. observed' = IF type = "grpc" THEN <<>> ELSE <<res>>
  BY <1>1, OneElement DEF Return
<1>4. failures' = IF type = "lua" \/ res THEN <<>> ELSE <<reason>>
  <2>1. CASE type = "lua"
    BY <2>1 DEF Return
  <2>2. CASE type # "lua"
    BY <1>1, <2>2, OneElement DEF Return
  <2>3. QED
    BY <2>1, <2>2
<1>5. failures' \in Seq(Reasons) /\ observed' \in Seq(BOOLEAN)
  BY <1>3, <1>4, OneElement
<1>6. result' = res
  BY DEF Return
<1>7. type' \in CountsFailures => Len(failures') = IF result' THEN 0 ELSE 1
  BY <1>2, <1>4, <1>6, OneElement DEF CountsFailures
<1>8. type' \in CountsVerdicts => observed' = <<result'>>
  BY <1>2, <1>3, <1>6 DEF CountsVerdicts
<1>9. QED
  BY <1>5, <1>6, <1>7, <1>8 DEF Return, Returned, CountedOnce

LEMMA FallOutEnds ==
    ASSUME CountInv, at \in {"idle", "stage"}, UNCHANGED settings, FallOut
    PROVE  Panicked \/ Returned(FALSE)
<1>1. CASE type \in Http
  BY <1>1 DEF FallOut, Panicked
<1>2. CASE type \notin Http
  <2>1. Return(FALSE, IF FALSE THEN <<>> ELSE <<"other">>)
    BY <1>2 DEF FallOut
  <2>2. QED
    BY <2>1, ReturnReturns DEF Reasons
<1>3. QED
  BY <1>1, <1>2

LEMMA StageFailsEnds ==
    ASSUME TypeOK, CountInv, at = "stage", UNCHANGED settings, StageFails
    PROVE  \/ Panicked
           \/ Returned(FALSE) /\ retry = Last
           \/ retry < Last /\ type \in Http /\ Attempt(retry + 1, left)
           \/ retry < Last /\ type \notin Http /\ Attempt(retry + 1, Timeout)
<1>1. retry \in Nat /\ Last \in Int /\ retry <= Last
  BY LastIsInt DEF TypeOK
<1>2. CASE Current.reason # "none" /\ retry = Last
  <2>1. Current.reason \in Reasons
    BY <1>2, CurrentTyped DEF StageStates
  <2>2. Return(FALSE, IF FALSE THEN <<>> ELSE <<Current.reason>>)
    BY <1>2 DEF StageFails
  <2>3. QED
    BY <1>2, <2>1, <2>2, ReturnReturns
<1>3. CASE retry < Last
  <2>1. retry # Last
    BY <1>1, <1>3
  <2>2. Attempt(retry + 1, IF SharesDeadline THEN left ELSE Timeout)
    BY <1>3, <2>1 DEF StageFails
  <2>3. CASE SharesDeadline
    BY <1>3, <2>2, <2>3 DEF SharesDeadline
  <2>4. CASE ~SharesDeadline
    BY <1>3, <2>2, <2>4 DEF SharesDeadline
  <2>5. QED
    BY <2>3, <2>4
<1>4. CASE Current.reason = "none" /\ retry = Last
  <2>1. ~(retry < Last)
    BY <1>1, <1>4
  <2>2. FallOut
    BY <1>4, <2>1 DEF StageFails
  <2>3. QED
    BY <1>4, <2>2, FallOutEnds
<1>5. retry < Last \/ retry = Last
  BY <1>1
<1>6. QED
  BY <1>2, <1>3, <1>4, <1>5

LEMMA BeginEnds ==
    ASSUME TypeOK, CountInv, Begin
    PROVE  \/ Panicked
           \/ Returned(FALSE) /\ (config # "none" \/ Last < 0)
           \/ config = "none" /\ Last >= 0 /\ Attempt(0, Timeout)
<1>1. at = "idle" /\ UNCHANGED settings /\ Last \in Int
  BY LastIsInt DEF Begin
<1>2. CASE config # "none"
  <2>1. config \in Reasons
    BY <1>2 DEF TypeOK, Faults, Types, Reasons
  <2>2. Return(FALSE, IF FALSE THEN <<>> ELSE <<config>>)
    BY <1>2 DEF Begin
  <2>3. QED
    BY <1>1, <1>2, <2>1, <2>2, ReturnReturns
<1>3. CASE config = "none" /\ Last < 0
  <2>1. FallOut
    BY <1>3 DEF Begin
  <2>2. QED
    BY <1>1, <1>3, <2>1, FallOutEnds
<1>4. CASE config = "none" /\ Last >= 0
  <2>1. ~(Last < 0)
    BY <1>1, <1>4
  <2>2. Attempt(0, Timeout)
    BY <1>4, <2>1 DEF Begin
  <2>3. QED
    BY <1>4, <2>2
<1>5. Last < 0 \/ Last >= 0
  BY <1>1
<1>6. QED
  BY <1>2, <1>3, <1>4, <1>5

LEMMA PassEnds ==
    ASSUME TypeOK, CountInv, Pass
    PROVE  \/ Returned(TRUE) /\ service.good >= Len(Stages[type])
           \/ /\ stage' = stage + 1 /\ stage # Len(Stages[type])
              /\ UNCHANGED <<at, retry, left, result, counters, steady>>
<1>1. at = "stage" /\ UNCHANGED settings /\ service.good >= stage
  BY DEF Pass
<1>2. CASE stage = Len(Stages[type])
  <2>1. Return(TRUE, IF TRUE THEN <<>> ELSE <<"other">>)
    BY <1>2 DEF Pass
  <2>2. Returned(TRUE)
    BY <1>1, <2>1, ReturnReturns DEF Reasons
  <2>3. QED
    BY <1>1, <1>2, <2>2
<1>3. CASE stage # Len(Stages[type])
  BY <1>3 DEF Pass
<1>4. QED
  BY <1>2, <1>3

----------------------------------------------------------------------------
(***************************************************************************)
(* Type correctness.                                                       *)
(***************************************************************************)

\* Every state of the service, and every one of the settings, will do.
Settled == UNCHANGED settings /\ service' \in Services /\ elapsed' \in 0..Horizon /\ wasUp' \in BOOLEAN

LEMMA LastStays ==
    ASSUME UNCHANGED settings
    PROVE  Last' = Last /\ Faults(type') = Faults(type) /\ Stages[type'] = Stages[type]
  BY DEF settings, Last, Repeats

LEMMA ReturnedType ==
    ASSUME TypeOK, Settled, NEW res \in BOOLEAN, Returned(res)
    PROVE  TypeOK' /\ CountInv'
  BY LastStays DEF Settled, settings, Returned, TypeOK, CountInv

LEMMA PanickedType ==
    ASSUME TypeOK, Settled, Panicked
    PROVE  TypeOK' /\ CountInv'
  BY LastStays DEF Settled, settings, Panicked, counters, TypeOK, CountInv

LEMMA AttemptType ==
    ASSUME TypeOK, CountInv, at \in {"idle", "stage"}, Settled,
           NEW n \in Nat, n <= Last, NEW t \in 0..Timeout, Attempt(n, t)
    PROVE  TypeOK' /\ CountInv'
<1>1. 1 \in 1..Len(Stages[type])
  BY StagesTyped DEF TypeOK
<1>2. steady' \in BOOLEAN
  BY DEF Attempt, Good
<1>3. QED
  BY <1>1, <1>2, LastStays DEF Settled, settings, Attempt, counters, TypeOK, CountInv

LEMMA TypeInit == Init => TypeOK /\ CountInv
<1>1. SUFFICES ASSUME Init PROVE TypeOK /\ CountInv
  OBVIOUS
<1>2. 1 \in 1..Len(Stages[type])
  BY <1>1, StagesTyped DEF Init
<1>3. failures \in Seq(Reasons) /\ observed \in Seq(BOOLEAN)
  BY <1>1 DEF Init
<1>4. 0 \in 0..Timeout /\ 0 \in 0..Horizon /\ 0 \in Nat
  BY ConstantsAssumption
<1>5. QED
  BY <1>1, <1>2, <1>3, <1>4 DEF Init, TypeOK, CountInv

LEMMA TypeStep == TypeOK /\ CountInv /\ [Next]_vars => TypeOK' /\ CountInv'
<1>1. SUFFICES ASSUME TypeOK, CountInv, [Next]_vars PROVE TypeOK' /\ CountInv'
  OBVIOUS
<1>2. /\ Timeout \in Nat /\ Timeout \in 0..Timeout /\ left \in 0..Timeout
      /\ 0 \in Nat /\ retry + 1 \in Nat /\ retry \in Nat /\ Last \in Int
      /\ service \in Services /\ elapsed \in 0..Horizon /\ wasUp \in BOOLEAN
  BY <1>1, LastIsInt, ConstantsAssumption DEF TypeOK
<1>3. CASE Begin
  <2>1. Settled /\ at = "idle"
    BY <1>2, <1>3 DEF Begin, Settled, Good
  <2>2. QED
    BY <1>1, <1>2, <1>3, <2>1, BeginEnds, ReturnedType, PanickedType, AttemptType
<1>4. CASE Pass
  <2>1. Settled /\ at = "stage"
    BY <1>2, <1>4 DEF Pass, Settled
  <2>2. CASE Returned(TRUE)
    BY <1>1, <2>1, <2>2, ReturnedType
  <2>3. CASE /\ stage' = stage + 1 /\ stage # Len(Stages[type])
             /\ UNCHANGED <<at, retry, left, result, counters, steady>>
    <3>1. stage' \in 1..Len(Stages[type])
      BY <1>1, <2>3, StagesTyped DEF TypeOK
    <3>2. QED
      BY <1>1, <2>1, <2>3, <3>1, LastStays DEF Settled, settings, counters, TypeOK, CountInv
  <2>4. QED
    BY <1>1, <1>4, <2>2, <2>3, PassEnds
<1>5. CASE Fail \/ DeadlinePasses
  <2>1. Settled /\ at = "stage" /\ StageFails
    BY <1>2, <1>5 DEF Fail, DeadlinePasses, Settled
  <2>2. \/ Panicked
        \/ Returned(FALSE)
        \/ retry < Last /\ (Attempt(retry + 1, left) \/ Attempt(retry + 1, Timeout))
    BY <1>1, <2>1, StageFailsEnds DEF Settled
  <2>3. retry < Last => retry + 1 <= Last
    BY <1>2
  <2>4. QED
    BY <1>1, <1>2, <2>1, <2>2, <2>3, ReturnedType, PanickedType, AttemptType
<1>6. CASE Elapse
  <2>1. left' \in 0..Timeout /\ elapsed' \in 0..Horizon
    BY <1>1, <1>2, <1>6, ConstantsAssumption DEF Elapse
  <2>2. UNCHANGED settings
    BY <1>6 DEF Elapse
  <2>3. QED
    BY <1>1, <1>6, <2>1, <2>2, LastStays DEF Elapse, settings, counters, TypeOK, CountInv
<1>7. CASE Finish
  <2>1. 1 \in 1..Len(Stages[type])
    BY <1>1, StagesTyped DEF TypeOK
  <2>2. failures' \in Seq(Reasons) /\ observed' \in Seq(BOOLEAN)
    BY <1>7 DEF Finish
  <2>3. UNCHANGED settings
    BY <1>7 DEF Finish
  <2>4. 0 \in 0..Timeout /\ 0 \in 0..Horizon /\ 0 \in Nat
    BY ConstantsAssumption
  <2>5. QED
    BY <1>1, <1>7, <2>1, <2>2, <2>3, <2>4, LastStays DEF Finish, settings, TypeOK, CountInv
<1>8. CASE ServiceChanges
  <2>1. UNCHANGED settings /\ wasUp' \in BOOLEAN /\ steady' \in BOOLEAN
    BY <1>1, <1>8 DEF ServiceChanges, TypeOK, Good
  <2>2. QED
    BY <1>1, <1>8, <2>1, LastStays DEF ServiceChanges, settings, counters, TypeOK, CountInv
<1>9. CASE Down \/ UNCHANGED vars
  <2>1. UNCHANGED vars /\ UNCHANGED settings
    BY <1>9 DEF Down, vars
  <2>2. QED
    BY <1>1, <2>1, LastStays DEF vars, settings, counters, TypeOK, CountInv
<1>10. QED
  BY <1>1, <1>3, <1>4, <1>5, <1>6, <1>7, <1>8, <1>9 DEF Next

\* Every reachable state of the probes is well typed.
THEOREM TypeCorrect == Spec => []TypeOK
<1>1. Spec => [](TypeOK /\ CountInv)
  BY TypeInit, TypeStep, PTL DEF Spec
<1>2. QED
  BY <1>1, PTL

----------------------------------------------------------------------------
(***************************************************************************)
(* The counters.                                                           *)
(***************************************************************************)

LEMMA CountStep == TypeOK /\ CountInv /\ CountedOnce /\ [Next]_vars => CountedOnce'
<1>1. SUFFICES ASSUME TypeOK, CountInv, CountedOnce, [Next]_vars PROVE CountedOnce'
  OBVIOUS
<1>2. ASSUME Panicked \/ (\E n, t : Attempt(n, t)) PROVE CountedOnce'
  BY <1>2 DEF Panicked, Attempt, CountedOnce
<1>3. ASSUME NEW res, Returned(res) PROVE CountedOnce'
  BY <1>3 DEF Returned
<1>4. CASE Begin
  BY <1>1, <1>2, <1>3, <1>4, BeginEnds
<1>5. CASE Pass
  <2>1. CASE at' = at
    BY <1>5, <2>1 DEF Pass, CountedOnce
  <2>2. QED
    BY <1>1, <1>3, <1>5, <2>1, PassEnds
<1>6. CASE Fail \/ DeadlinePasses
  <2>1. at = "stage" /\ StageFails /\ UNCHANGED settings
    BY <1>6 DEF Fail, DeadlinePasses
  <2>2. QED
    BY <1>1, <1>2, <1>3, <2>1, StageFailsEnds
<1>7. CASE Elapse \/ Finish \/ ServiceChanges \/ Down \/ UNCHANGED vars
  BY <1>1, <1>7 DEF Elapse, Finish, ServiceChanges, Down, vars, settings, counters, CountedOnce
<1>8. QED
  BY <1>1, <1>4, <1>5, <1>6, <1>7 DEF Next

\* Whatever attempts a probe makes and whatever way it returns: of a type that
\* counts failures (all but Lua), one reason if it fails and none if it succeeds;
\* of a type that counts verdicts (all but gRPC), the verdict it returns, once.
THEOREM AlwaysCountedOnce == Spec => []CountedOnce
<1>1. Init => CountedOnce
  BY DEF Init, CountedOnce
<1>2. Spec => [](TypeOK /\ CountInv /\ CountedOnce)
  BY <1>1, TypeInit, TypeStep, CountStep, PTL DEF Spec
<1>3. QED
  BY <1>2, PTL

----------------------------------------------------------------------------
(***************************************************************************)
(* The verdict.                                                            *)
(***************************************************************************)

\* A new attempt starts with the history it should have.
LEMMA AttemptServes ==
    ASSUME UNCHANGED settings, service' = service, config = "none", Last >= 0,
           Good(service) => wasUp', NEW n, NEW t, Attempt(n, t)
    PROVE  ServiceInv' /\ VerdictIsEarned'
<1>1. at' = "stage" /\ left' = t /\ steady' = (Good(service) /\ t > 0)
  BY DEF Attempt
<1>2. Good(service)' = Good(service)
  BY LastStays DEF Good
<1>3. Last' = Last /\ config' = config
  BY LastStays DEF settings
<1>4. steady' => Good(service)' /\ left' > 0
  BY <1>1, <1>2
<1>5. QED
  BY <1>1, <1>2, <1>3, <1>4 DEF ServiceInv, VerdictIsEarned

LEMMA PanickedServes ==
    ASSUME Panicked
    PROVE  ServiceInv' /\ VerdictIsEarned'
  BY DEF Panicked, ServiceInv, VerdictIsEarned

LEMMA VerdictStep ==
    ASSUME TypeOK, CountInv, ServiceInv, VerdictIsEarned, [Next]_vars
    PROVE  ServiceInv' /\ VerdictIsEarned'
<1>1. Last \in Int /\ stage \in 1..Len(Stages[type]) /\ Len(Stages[type]) \in Nat
      /\ service.good \in 0..4 /\ left \in Nat
  BY LastIsInt, StagesTyped, ConstantsAssumption DEF TypeOK, Services
<1>2. CASE Begin
  <2>1. /\ at = "idle" /\ ~steady /\ UNCHANGED settings /\ service' = service
        /\ wasUp' = Good(service)
    BY <1>2 DEF Begin, ServiceInv
  <2>2. ASSUME Returned(FALSE), config # "none" \/ Last < 0
        PROVE  ServiceInv' /\ VerdictIsEarned'
    <3>1. at' = "done" /\ ~steady' /\ ~result'
      BY <2>1, <2>2 DEF Returned
    <3>2. config' # "none" \/ ~(Last' >= 0)
      BY <1>1, <2>1, <2>2, LastStays DEF settings
    <3>3. QED
      BY <3>1, <3>2 DEF ServiceInv, VerdictIsEarned
  <2>3. QED
    BY <1>2, <2>1, <2>2, BeginEnds, PanickedServes, AttemptServes
<1>3. CASE Pass
  <2>1. /\ at = "stage" /\ UNCHANGED settings /\ service' = service /\ wasUp' = wasUp
    BY <1>3 DEF Pass
  <2>2. Good(service)' = Good(service)
    BY <2>1, LastStays DEF Good
  <2>3. ASSUME Returned(TRUE), service.good >= Len(Stages[type])
        PROVE  ServiceInv' /\ VerdictIsEarned'
    <3>1. wasUp'
      BY <2>1, <2>3 DEF ServiceInv, Good
    <3>2. at' = "done" /\ result' = TRUE
      BY <2>3 DEF Returned
    <3>3. QED
      BY <3>1, <3>2 DEF ServiceInv, VerdictIsEarned
  <2>4. ASSUME UNCHANGED <<at, retry, left, result, counters, steady>>
        PROVE  ServiceInv' /\ VerdictIsEarned'
    BY <2>1, <2>2, <2>4, LastStays DEF ServiceInv, VerdictIsEarned, settings
  <2>5. QED
    BY <1>3, <2>3, <2>4, PassEnds
<1>4. CASE Fail \/ DeadlinePasses
  <2>1. /\ at = "stage" /\ StageFails /\ UNCHANGED settings /\ service' = service
        /\ wasUp' = wasUp
    BY <1>4 DEF Fail, DeadlinePasses
  <2>2. ~steady
    <3>1. CASE Fail
      BY <1>1, <2>1, <3>1 DEF Fail, ServiceInv, Good
    <3>2. CASE DeadlinePasses
      BY <1>1, <2>1, <3>2 DEF DeadlinePasses, ServiceInv
    <3>3. QED
      BY <1>4, <3>1, <3>2
  <2>3. config = "none" /\ Last >= 0 /\ (Good(service) => wasUp')
    BY <2>1 DEF ServiceInv
  <2>4. ASSUME Returned(FALSE), retry = Last
        PROVE  ServiceInv' /\ VerdictIsEarned'
    <3>1. at' = "done" /\ result' = FALSE /\ retry' = retry /\ steady' = steady
      BY <2>4 DEF Returned
    <3>2. Last' = Last
      BY <2>1, LastStays
    <3>3. QED
      BY <2>2, <2>4, <3>1, <3>2 DEF ServiceInv, VerdictIsEarned
  <2>5. QED
    BY <2>1, <2>3, <2>4, StageFailsEnds, PanickedServes, AttemptServes
<1>5. CASE Elapse
  <2>1. /\ at = "stage" /\ at' = at /\ service' = service /\ UNCHANGED settings
        /\ wasUp' = wasUp /\ steady' = steady /\ service.good < stage
    BY <1>5 DEF Elapse, Waits
  <2>2. ~Good(service)
    BY <1>1, <2>1 DEF Good
  <2>3. Good(service)' = Good(service) /\ Last' = Last /\ config' = config
    BY <2>1, LastStays DEF Good, settings
  <2>4. QED
    BY <2>1, <2>2, <2>3 DEF ServiceInv, VerdictIsEarned
<1>6. CASE Finish
  BY <1>6 DEF Finish, ServiceInv, VerdictIsEarned
<1>7. CASE ServiceChanges
  <2>1. /\ at \in {"idle", "stage"} /\ at' = at /\ UNCHANGED settings /\ left' = left
        /\ wasUp' = (wasUp \/ (at = "stage" /\ Good(service')))
        /\ steady' = (steady /\ Good(service'))
    BY <1>7 DEF ServiceChanges
  <2>2. Good(service)' = Good(service') /\ Last' = Last /\ config' = config
    BY <2>1, LastStays DEF Good, settings
  <2>3. /\ at = "stage" /\ Good(service') => wasUp'
        /\ steady' => steady /\ Good(service')
    BY <2>1
  <2>4. QED
    BY <2>1, <2>2, <2>3 DEF ServiceInv, VerdictIsEarned
<1>8. CASE Down \/ UNCHANGED vars
  <2>1. UNCHANGED vars /\ UNCHANGED settings
    BY <1>8 DEF Down, vars
  <2>2. Good(service)' = Good(service) /\ Last' = Last
    BY <2>1, LastStays DEF Good, vars
  <2>3. QED
    BY <2>1, <2>2 DEF vars, settings, ServiceInv, VerdictIsEarned
<1>9. QED
  BY <1>2, <1>3, <1>4, <1>5, <1>6, <1>7, <1>8 DEF Next

\* A probe succeeds only if the service was good during it, succeeds if it was so
\* throughout an attempt with time left, and gives up only after the last attempt.
THEOREM VerdictAlwaysEarned == Spec => []VerdictIsEarned
<1>1. Init => TypeOK /\ CountInv /\ ServiceInv /\ VerdictIsEarned
  BY TypeInit DEF Init, ServiceInv, VerdictIsEarned
<1>2. Spec => [](TypeOK /\ CountInv /\ ServiceInv /\ VerdictIsEarned)
  BY <1>1, TypeStep, VerdictStep, PTL DEF Spec
<1>3. QED
  BY <1>2, PTL
----------------------------------------------------------------------------
(***************************************************************************)
(* The time a probe takes.                                                 *)
(***************************************************************************)

\* What has passed and what is left are within the deadlines given out so far.
TimeInv ==
    /\ at = "idle" => elapsed = 0
    /\ Last >= 0 => retry <= Last
    /\ type \in Http => elapsed + left <= Timeout
    /\ type \in {"tcp", "icmp", "grpc"} => elapsed + left <= (retry + 1) * Timeout

\* Only MySQL and Lua have a stage at which a probe waits without a deadline.
LEMMA WaitsEnd ==
    ASSUME NEW t \in Http \cup {"tcp", "icmp", "grpc"}, NEW i \in 1..Len(Stages[t])
    PROVE  Stages[t][i].waits \in {"no", "deadline"}
<1> DEFINE Ending == {s \in StageStates : s.waits \in {"no", "deadline"}}
<1>1. \A w \in {"no", "deadline"}, f \in BOOLEAN, r \in {"connection", "protocol", "none"} :
          Stage(w, f, r) \in Ending
  BY DEF Stage, StageStates, Reasons
<1> HIDE DEF Ending
<1>2. Stages[t][i] \in Ending
  <2>1. CASE t = "http"
    <3> DEFINE a == Stage("deadline", TRUE, "connection")
               b == Stage("no", TRUE, "protocol")
    <3>1. Stages[t] = <<a, b>>
      BY <2>1 DEF Stages, HttpStages
    <3>2. a \in Ending /\ b \in Ending
      BY <1>1
    <3> HIDE DEF a, b
    <3>3. QED
      BY <3>1, <3>2, ShortSequences
  <2>1b. CASE t = "httpBody"
    <3> DEFINE a == Stage("deadline", TRUE, "connection")
               b == Stage("no", TRUE, "protocol")
               c == Stage("deadline", TRUE, "protocol")
    <3>1. Stages[t] = <<a, b, c>>
      BY <2>1b DEF Stages, HttpBodyStages
    <3>2. a \in Ending /\ b \in Ending /\ c \in Ending
      BY <1>1
    <3> HIDE DEF a, b, c
    <3>3. QED
      BY <3>1, <3>2, ShortSequences
  <2>2. CASE t = "tcp"
    <3> DEFINE a == Stage("deadline", TRUE, "connection")
    <3>1. Stages[t] = <<a>>
      BY <2>2 DEF Stages, TcpStages
    <3>2. a \in Ending
      BY <1>1
    <3> HIDE DEF a
    <3>3. QED
      BY <3>1, <3>2, ShortSequences
  <2>3. CASE t = "icmp"
    <3> DEFINE a == Stage("no", TRUE, "connection")
               b == Stage("no", TRUE, "connection")
               c == Stage("deadline", FALSE, "none")
    <3>1. Stages[t] = <<a, b, c>>
      BY <2>3 DEF Stages, IcmpStages
    <3>2. a \in Ending /\ b \in Ending /\ c \in Ending
      BY <1>1
    <3> HIDE DEF a, b, c
    <3>3. QED
      BY <3>1, <3>2, ShortSequences
  <2>4. CASE t = "grpc"
    <3> DEFINE a == Stage("no", TRUE, "connection")
               b == Stage("deadline", TRUE, "connection")
               c == Stage("no", TRUE, "protocol")
    <3>1. Stages[t] = <<a, b, c>>
      BY <2>4 DEF Stages, GrpcStages
    <3>2. a \in Ending /\ b \in Ending /\ c \in Ending
      BY <1>1
    <3> HIDE DEF a, b, c
    <3>3. QED
      BY <3>1, <3>2, ShortSequences
  <2>5. QED
    BY <2>1, <2>1b, <2>2, <2>3, <2>4 DEF Http
<1>3. QED
  BY <1>2 DEF Ending

LEMMA OneMore == \A n, t \in Nat : (n + 1 + 1) * t = (n + 1) * t + t /\ (n + 1) * t \in Nat
  OBVIOUS

LEMMA NoLess == \A m, n, t \in Nat : m <= n => m * t <= n * t
  OBVIOUS

LEMMA SpentWithin ==
    \A e, l, f, m, bound \in Nat : f + m <= e + l /\ e + l <= bound => f + m <= bound
  OBVIOUS

\* Outside an attempt that begins, and while no time passes, nothing is spent.
LEMMA TimeStays ==
    ASSUME TimeInv, UNCHANGED <<settings, elapsed, retry, left>>, at' # "idle" \/ at' = at
    PROVE  TimeInv'
  BY LastStays DEF TimeInv, settings

LEMMA TimeStep == TypeOK /\ CountInv /\ TimeInv /\ [Next]_vars => TimeInv'
<1>1. SUFFICES ASSUME TypeOK, CountInv, TimeInv, [Next]_vars PROVE TimeInv'
  OBVIOUS
<1>2. /\ retry \in Nat /\ left \in Nat /\ elapsed \in Nat /\ Timeout \in Nat /\ left <= Timeout
      /\ Last \in Int /\ type \in Types
  BY <1>1, LastIsInt, ConstantsAssumption DEF TypeOK
<1>3. ASSUME UNCHANGED <<settings, elapsed>>, Panicked \/ \E res : Returned(res)
      PROVE  TimeInv'
  BY <1>1, <1>3, TimeStays DEF Panicked, Returned
<1>4. CASE Begin
  <2>1. at = "idle" /\ elapsed = 0 /\ UNCHANGED <<settings, elapsed>>
    BY <1>1, <1>4 DEF Begin, TimeInv
  <2>2. ASSUME Attempt(0, Timeout), Last >= 0 PROVE TimeInv'
    <3>1. at' = "stage" /\ retry' = 0 /\ left' = Timeout /\ elapsed' = 0
      BY <2>1, <2>2 DEF Attempt
    <3>2. 0 + Timeout <= (0 + 1) * Timeout
      BY <1>2
    <3>3. QED
      BY <1>2, <2>1, <2>2, <3>1, <3>2, LastStays DEF TimeInv
  <2>3. QED
    BY <1>1, <1>3, <1>4, <2>1, <2>2, BeginEnds
<1>5. CASE Pass
  <2>1. UNCHANGED <<settings, elapsed>>
    BY <1>5 DEF Pass
  <2>2. QED
    BY <1>1, <1>3, <1>5, <2>1, PassEnds, TimeStays
<1>6. CASE Fail \/ DeadlinePasses
  <2>1. at = "stage" /\ StageFails /\ UNCHANGED <<settings, elapsed>>
    BY <1>6 DEF Fail, DeadlinePasses
  <2>2. retry < Last => (Last' >= 0 => retry + 1 <= Last')
    BY <1>2, <2>1, LastStays
  <2>3. ASSUME retry < Last, type \in Http, Attempt(retry + 1, left) PROVE TimeInv'
    <3>1. /\ at' = "stage" /\ retry' = retry + 1 /\ left' = left /\ elapsed' = elapsed
          /\ type' = type
      BY <2>1, <2>3 DEF Attempt, settings
    <3>2. elapsed' + left' <= Timeout
      BY <1>1, <2>3, <3>1 DEF TimeInv
    <3>3. type' \notin {"tcp", "icmp", "grpc"}
      BY <2>3, <3>1 DEF Http
    <3>4. QED
      BY <2>2, <2>3, <3>1, <3>2, <3>3 DEF TimeInv
  <2>4. ASSUME retry < Last, type \notin Http, Attempt(retry + 1, Timeout) PROVE TimeInv'
    <3>1. /\ at' = "stage" /\ retry' = retry + 1 /\ left' = Timeout /\ elapsed' = elapsed
          /\ type' = type
      BY <2>1, <2>4 DEF Attempt, settings
    <3>2. CASE type \in {"tcp", "icmp", "grpc"}
      <4> DEFINE spent == (retry + 1) * Timeout
      <4>1. elapsed + left <= spent
        BY <1>1, <3>2 DEF TimeInv
      <4>2. (retry + 1 + 1) * Timeout = spent + Timeout /\ spent \in Nat
        BY <1>2, OneMore
      <4> HIDE DEF spent
      <4>3. elapsed' + left' <= (retry' + 1) * Timeout
        <5>1. elapsed + Timeout <= spent + Timeout
          BY <1>2, <4>1, <4>2
        <5>2. QED
          BY <3>1, <4>2, <5>1
      <4>4. QED
        BY <2>2, <2>4, <3>1, <4>3 DEF TimeInv
    <3>3. CASE type \notin {"tcp", "icmp", "grpc"}
      BY <2>2, <2>4, <3>1, <3>3 DEF TimeInv
    <3>4. QED
      BY <3>2, <3>3
  <2>5. QED
    BY <1>1, <1>3, <2>1, <2>3, <2>4, StageFailsEnds
<1>7. CASE Elapse
  <2>1. UNCHANGED <<settings, retry, at>> /\ at = "stage" /\ Last' = Last /\ type' = type
    BY <1>7, LastStays DEF Elapse, Waits, settings
  <2>2. ASSUME type \in Http \cup {"tcp", "icmp", "grpc"} PROVE elapsed' + left' <= elapsed + left
    <3>1. Current.waits = "deadline"
      BY <1>1, <1>7, <2>2, WaitsEnd DEF Elapse, Waits, Current, TypeOK
    <3>2. left > 0
      BY <1>7, <3>1 DEF Elapse, InTime
    <3>3. QED
      BY <1>2, <1>7, <3>2 DEF Elapse
  <2>3. elapsed' \in Nat /\ left' \in Nat
    BY <1>2, <1>7 DEF Elapse
  <2>4. PICK budget \in Nat : budget = (retry + 1) * Timeout
    BY <1>2, OneMore
  <2>5. \A bound \in Nat : /\ elapsed' + left' <= elapsed + left
                            /\ elapsed + left <= bound
                            => elapsed' + left' <= bound
    BY <1>2, <2>3, SpentWithin
  <2>6. type \in {"tcp", "icmp", "grpc"} => elapsed' + left' <= budget
    <3>1. type \in {"tcp", "icmp", "grpc"} => elapsed + left <= budget
      BY <1>1, <2>4 DEF TimeInv
    <3>2. QED
      BY <2>2, <2>5, <3>1
  <2>7. type \in Http => elapsed' + left' <= Timeout
    <3>1. type \in Http => elapsed + left <= Timeout
      BY <1>1 DEF TimeInv
    <3>2. QED
      BY <1>2, <2>2, <2>5, <3>1
  <2>8. QED
    BY <1>1, <2>1, <2>4, <2>6, <2>7 DEF TimeInv
<1>8. CASE Finish
  <2>1. at' = "idle" /\ elapsed' = 0 /\ retry' = 0 /\ left' = 0
    BY <1>8 DEF Finish
  <2>2. 0 + 0 <= Timeout /\ 0 + 0 <= (0 + 1) * Timeout
    BY <1>2
  <2>3. QED
    BY <2>1, <2>2 DEF TimeInv
<1>9. CASE ServiceChanges \/ Down \/ UNCHANGED vars
  BY <1>1, <1>9, TimeStays DEF ServiceChanges, Down, vars
<1>10. QED
  BY <1>1, <1>4, <1>5, <1>6, <1>7, <1>8, <1>9 DEF Next

\* No number of attempts, however they end, takes a probe with deadlines past
\* those of its attempts, and HTTP past the one its attempts share.
THEOREM AlwaysEndsInTime == Spec => []EndsInTime
<1>1. Init => TimeInv
  <2>1. ASSUME Init PROVE 0 + 0 <= Timeout /\ 0 + 0 <= (0 + 1) * Timeout
    BY ConstantsAssumption
  <2>2. QED
    BY <2>1 DEF Init, TimeInv
<1>2. TypeOK /\ TimeInv => EndsInTime
  <2>1. SUFFICES ASSUME TypeOK, TimeInv PROVE EndsInTime
    OBVIOUS
  <2>2. retry \in Nat /\ left \in Nat /\ elapsed \in Nat /\ Timeout \in Nat /\ Last \in Int
    BY <2>1, LastIsInt, ConstantsAssumption DEF TypeOK
  <2>3. ASSUME type \in {"tcp", "icmp", "grpc"}, Last >= 0
        PROVE  elapsed <= (Last + 1) * Timeout
    <3>1. elapsed + left <= (retry + 1) * Timeout /\ retry <= Last
      BY <2>1, <2>3 DEF TimeInv
    <3>2. retry + 1 \in Nat /\ Last + 1 \in Nat /\ retry + 1 <= Last + 1
      BY <2>2, <2>3, <3>1
    <3>3. (retry + 1) * Timeout <= (Last + 1) * Timeout
      BY <2>2, <3>2, NoLess
    <3> DEFINE r == (retry + 1) * Timeout
               l == (Last + 1) * Timeout
    <3>4. r \in Nat /\ l \in Nat
      BY <2>2, <3>2
    <3> HIDE DEF r, l
    <3>5. elapsed + left <= r /\ r <= l
      BY <3>1, <3>3 DEF r, l
    <3>6. elapsed <= l
      BY <2>2, <3>4, <3>5
    <3>7. QED
      BY <3>6 DEF l
  <2>4. type \in Http => elapsed <= Timeout
    BY <2>1, <2>2 DEF TimeInv
  <2>5. QED
    BY <2>3, <2>4 DEF EndsInTime
<1>3. Spec => [](TypeOK /\ CountInv /\ TimeInv)
  BY <1>1, TypeInit, TypeStep, TimeStep, PTL DEF Spec
<1>4. QED
  BY <1>2, <1>3, PTL
=============================================================================
