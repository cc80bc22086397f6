----------------------------- MODULE RoundRobin -----------------------------
(***************************************************************************)
(* pickBackendWithRoundRobin (gslb_mode.go) for one domain.  The whole     *)
(* function holds g.Mutex, so a query is one step.  What its scan of       *)
(* record.Backends collects for a record type is `healthy`: health checks, *)
(* the API and reloads change it in any way between two queries.           *)
(*                                                                         *)
(* The plugin keeps one index per domain, used for A and AAAA alike.       *)
(*                                                                         *)
(* Names that every component has carry the prefix Robin:                  *)
(* SharedState_proofs extends this module and two others.                  *)
(***************************************************************************)
EXTENDS Integers, Sequences, Functions

CONSTANTS
    Types,     \* the record types answered: A and AAAA
    Backends,  \* the addresses of the record's backends
    Lists,     \* what the scan may collect for each type, [Types -> sets of lists]
    NoBackend, \* no query was answered yet
    NoType

ASSUME ListsAssumption ==
    /\ Lists \in [Types -> SUBSET Seq(Backends)]
    /\ \A t \in Types : \A l \in Lists[t] : IsInjective(l)
    /\ NoBackend \notin Backends
    /\ NoType \notin Types

VARIABLES
    healthy,   \* healthyBackends as a query of each type would collect it
    index,     \* g.RoundRobinIndex of the domain; 0 when there is no entry
    last,      \* history: the answer to the last query of each type, while
               \* healthy did not change since
    round,     \* history: what the queries of the current round returned, in order
    roundType  \* history: the type of the queries of the current round

robinVars == <<healthy, index, last, round, roundType>>

\* Everything a scan may collect.
AnyList == UNION {Lists[t] : t \in Types}

RobinInit ==
    /\ healthy \in [Types -> AnyList]
    /\ \A t \in Types : healthy[t] \in Lists[t]
    /\ index = 0
    /\ last = [t \in Types |-> NoBackend]
    /\ round = <<>>
    /\ roundType = NoType

----------------------------------------------------------------------------
\* selectedBackend := healthyBackends[index%len(healthyBackends)]
Selected(t) == healthy[t][(index % Len(healthy[t])) + 1]

\* A round is a run of queries of one type, with no change of the healthy
\* backends of that type, in which each of them can be returned once.
RoundGoesOn(t) == roundType = t /\ Len(round) < Len(healthy[t])

\* Mutant of Advance: the index goes down and is not brought back to the list.
AdvanceDown(t) == (index % Len(healthy[t])) - 1

\* Mutant of Advance: the index is kept where the shorter list ended.
AdvanceStuck(t) == IF index + 1 < Len(healthy[t]) THEN index + 1 ELSE index

\* g.RoundRobinIndex.Store(domain, (index+1)%len(healthyBackends))
Advance(t) == (index + 1) % Len(healthy[t])

\* A query that finds a healthy backend.
Query(t) ==
    /\ healthy[t] # <<>>
    /\ index' = Advance(t)
    /\ last' = [last EXCEPT ![t] = Selected(t)]
    /\ round' = Append(IF RoundGoesOn(t) THEN round ELSE <<>>, Selected(t))
    /\ roundType' = t
    /\ UNCHANGED healthy

\* A query that finds none returns an error and stores nothing.
QueryFails(t) ==
    /\ healthy[t] = <<>>
    /\ UNCHANGED robinVars

\* A backend is found up or down, enabled, disabled, added or removed.
HealthChanges(t) ==
    /\ \E l \in Lists[t] :
         /\ l # healthy[t]
         /\ healthy' = [healthy EXCEPT ![t] = l]
    /\ last' = [last EXCEPT ![t] = NoBackend]
    /\ IF roundType = t THEN round' = <<>> /\ roundType' = NoType
                        ELSE UNCHANGED <<round, roundType>>
    /\ UNCHANGED index

RobinNext == \E t \in Types : Query(t) \/ QueryFails(t) \/ HealthChanges(t)

RobinSpec == RobinInit /\ [][RobinNext]_robinVars

----------------------------------------------------------------------------
\* Every variable stays in its type.
RobinTypeOK ==
    /\ healthy \in [Types -> AnyList]
    /\ \A t \in Types : healthy[t] \in Lists[t]
    /\ index \in Nat
    /\ last \in [Types -> Backends \cup {NoBackend}]
    /\ round \in Seq(Backends)
    /\ roundType \in Types \cup {NoType}

\* Whatever index the queries before left, in n consecutive queries of one
\* type with the same n healthy backends every one of them is returned, and
\* none twice, before the next round begins.
RoundsAreFair == IsInjective(round)

----------------------------------------------------------------------------
\* docs/modes.md:21: the mode "cycles through all healthy backends in order,
\* returning a different one for each query": with two healthy backends or
\* more and no change, the next query of a type gets another backend than the
\* last one.
DifferentEachQuery ==
    [][ \A t \in Types :
          Query(t) /\ Len(healthy[t]) > 1 => Selected(t) # last[t] ]_robinVars
=============================================================================
