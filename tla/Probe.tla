-------------------------------- MODULE Probe --------------------------------
(***************************************************************************)
(* One call of PerformCheck after the other: the attempts of an HTTP, TCP, *)
(* ICMP, MySQL, gRPC or Lua probe against a service that changes while it  *)
(* is probed, the deadlines, the verdict and the counters.                 *)
(*                                                                         *)
(* An attempt is a sequence of stages.  At each one the service may do as  *)
(* the probe wants, refuse, or keep silent.  What waits for what, under    *)
(* which deadline and with which reason a failure is counted is the table  *)
(* Stages.  Time passes in units while a probe waits for a silent service. *)
(***************************************************************************)
EXTENDS Integers, Sequences

CONSTANTS
    Retries, \* the values of scrape_retries
    Timeout, \* the timeout of a probe
    Horizon  \* bound: where the clock of the history stops

ASSUME ConstantsAssumption ==
    /\ Retries \subseteq Int
    /\ Timeout \in Nat
    /\ Horizon \in Nat
    /\ \A n \in Retries : (n + 1) * Timeout < Horizon

VARIABLES
    type,     \* the type of the health check
    config,   \* what is wrong with its parameters
    retries,  \* maxRetries
    service,  \* how many stages it lets pass; whether it then keeps silent
    at,       \* where the probe is
    retry,    \* the attempt
    stage,    \* its stage
    left,     \* what is left of the deadline in force
    result,   \* what PerformCheck returns
    failures, \* the reasons counted by IncHealthcheckFailures for this probe
    observed, \* the results counted by ObserveHealthcheck for this probe
    elapsed,  \* history: how long the probe has taken
    wasUp,    \* history: the service was good at some time of the probe
    steady    \* history: it is good since the attempt began, which had time left

settings == <<type, config, retries>>
counters == <<failures, observed>>
vars == <<settings, service, at, retry, stage, left, result, counters, elapsed, wasUp, steady>>

\* An HTTP check that expects something of the body is a type of its own.
Http == {"http", "httpBody"}

Types == Http \cup {"tcp", "icmp", "mysql", "grpc", "lua"}

Reasons == {"timeout", "connection", "protocol", "other"}

\* waits: the service can keep the probe waiting, for as long as the deadline
\* allows or for ever.  refuses: it can fail at once.  A failure for which there
\* is no reason leads to the next attempt without a test for the last one.
Stage(waits, refuses, reason) == [waits |-> waits, refuses |-> refuses, reason |-> reason]

\* client.Do; the status code
HttpStages == << Stage("deadline", TRUE, "connection"), Stage("no", TRUE, "protocol") >>

\* ... and the body, when one is expected
HttpBodyStages ==
    << Stage("deadline", TRUE, "connection"), Stage("no", TRUE, "protocol"),
       Stage("deadline", TRUE, "protocol") >>

\* net.DialTimeout
TcpStages == << Stage("deadline", TRUE, "connection") >>

\* createPinger; pinger.Run; PacketsRecv
IcmpStages ==
    << Stage("no", TRUE, "connection"), Stage("no", TRUE, "connection"),
       Stage("deadline", FALSE, "none") >>

\* sql.Open; dialling, then the handshake, of Ping; the query
MysqlStages ==
    << Stage("no", TRUE, "connection"), Stage("deadline", TRUE, "connection"),
       Stage("forever", TRUE, "connection"), Stage("forever", TRUE, "protocol") >>

\* NewClient; client.Check; the status
GrpcStages ==
    << Stage("no", TRUE, "connection"), Stage("deadline", TRUE, "connection"),
       Stage("no", TRUE, "protocol") >>

\* DoString; the value it leaves
LuaStages == << Stage("forever", TRUE, "none"), Stage("no", TRUE, "none") >>

Stages == [http |-> HttpStages, httpBody |-> HttpBodyStages,
           tcp |-> TcpStages, icmp |-> IcmpStages,
           mysql |-> MysqlStages, grpc |-> GrpcStages, lua |-> LuaStages]

\* gRPC and Lua ignore maxRetries.
Repeats(t) == t \notin {"grpc", "lua"}

Last == IF Repeats(type) THEN retries ELSE 0

\* Mutant of SharesDeadline: every attempt has a deadline of its own.
SharesNever == FALSE

\* One context for all attempts; the others set a timeout for each.
SharesDeadline == type \in Http

Current == Stages[type][stage]

Services == [good : 0..4, silent : BOOLEAN]

Good(s) == s.good >= Len(Stages[type])

\* What can be wrong with the parameters: a timeout that does not parse, for the
\* types that parse it; a request that cannot be built.
Faults(t) ==
    CASE t \in Http                    -> {"none", "timeout", "other"}
      [] t \in {"tcp", "icmp", "mysql"} -> {"none", "timeout"}
      [] OTHER                          -> {"none"}

Init ==
    /\ type \in Types
    /\ config \in Faults(type)
    /\ retries \in Retries
    /\ service \in Services
    /\ at = "idle"
    /\ retry = 0 /\ stage = 1 /\ left = 0
    /\ result = FALSE
    /\ failures = <<>> /\ observed = <<>>
    /\ elapsed = 0 /\ wasUp = FALSE /\ steady = FALSE

----------------------------------------------------------------------------
(***************************************************************************)
(* Ends.                                                                   *)
(***************************************************************************)

\* gRPC does not call ObserveHealthcheck, Lua not IncHealthcheckFailures.
Return(res, reasons) ==
    /\ at' = "done"
    /\ result' = res
    /\ failures' = IF type = "lua" THEN <<>> ELSE failures \o reasons
    /\ observed' = IF type = "grpc" THEN <<>> ELSE Append(observed, res)
    /\ UNCHANGED <<retry, stage, left, steady>>

\* Mutant of FallOut: nothing is counted behind the loop.
FallOutUncounted ==
    IF type \in Http
    THEN /\ at' = "panicked"
         /\ UNCHANGED <<retry, stage, left, result, counters, steady>>
    ELSE Return(FALSE, <<>>)

\* Behind the loop.  For HTTP no response and no error are left, and PerformCheck
\* closes the body of the response.
FallOut ==
    IF type \in Http
    THEN /\ at' = "panicked"
         /\ UNCHANGED <<retry, stage, left, result, counters, steady>>
    ELSE Return(FALSE, <<"other">>)

\* Attempt n begins, with the time t left.
Attempt(n, t) ==
    /\ at' = "stage"
    /\ retry' = n
    /\ stage' = 1
    /\ left' = t
    /\ steady' = (Good(service) /\ t > 0)
    /\ UNCHANGED <<result, counters>>

\* Mutant of StageFails: there is one attempt too many.
StageFailsLate ==
    IF Current.reason # "none" /\ retry > Last THEN Return(FALSE, <<Current.reason>>)
    ELSE IF retry <= Last THEN Attempt(retry + 1, IF SharesDeadline THEN left ELSE Timeout)
    ELSE FallOut

\* Another attempt, or the last one is over.
StageFails ==
    IF Current.reason # "none" /\ retry = Last THEN Return(FALSE, <<Current.reason>>)
    ELSE IF retry < Last THEN Attempt(retry + 1, IF SharesDeadline THEN left ELSE Timeout)
    ELSE FallOut

----------------------------------------------------------------------------
(***************************************************************************)
(* The probe.                                                              *)
(***************************************************************************)

\* PerformCheck up to its loop.
Begin ==
    /\ at = "idle"
    /\ IF config # "none" THEN Return(FALSE, <<config>>)
       ELSE IF Last < 0 THEN FallOut
       ELSE Attempt(0, Timeout)
    /\ wasUp' = Good(service)
    /\ UNCHANGED <<settings, service, elapsed>>

\* The stage can still be passed.
InTime == Current.waits = "deadline" => left > 0

\* Mutant of Pass: the last stage is not looked at.
PassShort ==
    /\ at = "stage"
    /\ service.good >= stage
    /\ InTime
    /\ IF stage + 1 >= Len(Stages[type]) THEN Return(TRUE, <<>>)
       ELSE /\ stage' = stage + 1
            /\ UNCHANGED <<at, retry, left, result, counters, steady>>
    /\ UNCHANGED <<settings, service, elapsed, wasUp>>

Pass ==
    /\ at = "stage"
    /\ service.good >= stage
    /\ InTime
    /\ IF stage = Len(Stages[type]) THEN Return(TRUE, <<>>)
       ELSE /\ stage' = stage + 1
            /\ UNCHANGED <<at, retry, left, result, counters, steady>>
    /\ UNCHANGED <<settings, service, elapsed, wasUp>>

Fail ==
    /\ at = "stage"
    /\ service.good < stage
    /\ Current.refuses
    /\ service.silent => Current.waits = "no"
    /\ StageFails
    /\ UNCHANGED <<settings, service, elapsed, wasUp>>

\* The context or the dialler gives up.
DeadlinePasses ==
    /\ at = "stage"
    /\ Current.waits = "deadline"
    /\ left = 0
    /\ StageFails
    /\ UNCHANGED <<settings, service, elapsed, wasUp>>

\* The service keeps the probe waiting.
Waits ==
    /\ at = "stage"
    /\ service.good < stage
    /\ Current.waits # "no"
    /\ service.silent \/ ~Current.refuses

Elapse ==
    /\ Waits
    /\ InTime
    /\ left' = IF left > 0 THEN left - 1 ELSE 0
    /\ elapsed' = IF elapsed < Horizon THEN elapsed + 1 ELSE elapsed
    /\ UNCHANGED <<settings, service, at, retry, stage, result, counters, wasUp, steady>>

\* The next tick.
Finish ==
    /\ at = "done"
    /\ at' = "idle"
    /\ result' = FALSE
    /\ failures' = <<>> /\ observed' = <<>>
    /\ elapsed' = 0 /\ wasUp' = FALSE /\ steady' = FALSE
    /\ retry' = 0 /\ stage' = 1 /\ left' = 0
    /\ UNCHANGED <<settings, service>>

----------------------------------------------------------------------------
ServiceChanges ==
    /\ at \in {"idle", "stage"}
    /\ service' \in Services \ {service}
    /\ wasUp' = (wasUp \/ (at = "stage" /\ Good(service')))
    /\ steady' = (steady /\ Good(service'))
    /\ UNCHANGED <<settings, at, retry, stage, left, result, counters, elapsed>>

\* A panic of the probe's goroutine ends the process.
Down == at = "panicked" /\ UNCHANGED vars

Next ==
    \/ Begin
    \/ Pass
    \/ Fail
    \/ DeadlinePasses
    \/ Elapse
    \/ Finish
    \/ ServiceChanges
    \/ Down

Spec == Init /\ [][Next]_vars

----------------------------------------------------------------------------
\* Every variable stays in its type.
TypeOK ==
    /\ type \in Types
    /\ config \in Faults(type)
    /\ retries \in Retries
    /\ service \in Services
    /\ at \in {"idle", "stage", "done", "panicked"}
    /\ retry \in Nat
    /\ at = "stage" => retry <= Last
    /\ stage \in 1..Len(Stages[type])
    /\ left \in 0..Timeout
    /\ result \in BOOLEAN
    /\ failures \in Seq(Reasons)
    /\ observed \in Seq(BOOLEAN)
    /\ elapsed \in 0..Horizon
    /\ wasUp \in BOOLEAN
    /\ steady \in BOOLEAN

\* A probe succeeds only if the service was good at some time of it, and it does
\* succeed if the service was good throughout an attempt that had time left:
\* what the earlier attempts met is forgotten, and the stages of different
\* attempts do not add up.  It gives up only after the last attempt.
VerdictIsEarned ==
    at = "done" =>
        /\ result => wasUp
        /\ steady => result
        /\ (~result /\ config = "none" /\ Last >= 0) => retry = Last

\* The types of probes that count their failures, and those that count verdicts.
CountsFailures == Types \ {"lua"}
CountsVerdicts == Types \ {"grpc"}

\* However many attempts a probe makes and whatever stage each of them fails at,
\* and whether it returns from its loop, behind it or before it: if its type
\* counts failures, a failed probe is counted with one reason and a successful
\* one with none; if its type counts verdicts, its verdict is counted once and is
\* the one returned.  It says nothing of a probe that panics, and Lua's failures
\* and gRPC's verdicts are not counted (EveryFailureIsCounted, EveryProbeIsCounted).
CountedOnce ==
    at = "done" =>
        /\ type \in CountsFailures => Len(failures) = IF result THEN 0 ELSE 1
        /\ type \in CountsVerdicts => observed = <<result>>

\* The retries of a probe with deadlines do not add up to more than its attempts,
\* those of HTTP to no more than one.
EndsInTime ==
    /\ type \in {"tcp", "icmp", "grpc"} /\ Last >= 0 => elapsed <= (Last + 1) * Timeout
    /\ type \in Http => elapsed <= Timeout

----------------------------------------------------------------------------
\* docs/healthchecks.md:141: the timeout of a MySQL check is a "Connection/query
\* timeout": its attempts take no longer.
QueryTimeoutIsKept ==
    (type = "mysql" /\ Last >= 0) => elapsed <= (Last + 1) * Timeout

\* docs/observability.md:20: gslb_healthcheck_total is the "Total number of
\* healthchecks performed".
EveryProbeIsCounted == at = "done" => observed = <<result>>

\* docs/observability.md:22: gslb_healthcheck_failures_total is the "Total number
\* of healthcheck failures", with a reason.
EveryFailureIsCounted == at = "done" /\ ~result => Len(failures) = 1

\* docs/configuration.md:3: configuration updates are applied at runtime,
\* "without restarting CoreDNS": no value of scrape_retries ends the process.
ProbesNeverPanic == at # "panicked"
=============================================================================
