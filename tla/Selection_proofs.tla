-------------------------- MODULE Selection_proofs --------------------------
(***************************************************************************)
(* Proofs about Selection, for any list of backends, any values of their   *)
(* fields, any client and any number of changes: no mode answers with a    *)
(* backend that was down during the whole query (ServedInv), and what a    *)
(* pass owes to the backends that stay healthy, as long as no priority,    *)
(* weight, response time or distance changes (ScanInv), and that each      *)
(* backend has its share of the wheel (BallInv).                           *)
(***************************************************************************)
EXTENDS Selection, FiniteSetTheorems, WellFoundedInduction, TLAPS

\* The backends a pass may take.
Allowed(pass) == IF pass = "all" THEN seen.enabled ELSE seen.healthy

\* What a query has picked was allowed when it was picked; while the query goes
\* on the history keeps up with the backends; the wheel holds what was picked.
ServedInv ==
    /\ query.at # "idle" => Range(query.picked) \subseteq Allowed(query.pass)
    /\ InProgress => Healthy \subseteq seen.healthy /\ Enabled \subseteq seen.enabled
    /\ query.at = "wheel" =>
         query.pass # "all" /\ Range(query.todo) \subseteq Range(query.picked)

IInv == TypeOK /\ ServedInv

----------------------------------------------------------------------------
(***************************************************************************)
(* Sequences.                                                              *)
(***************************************************************************)

LEMMA RangeAppend ==
    ASSUME NEW S, NEW s \in Seq(S), NEW e \in S
    PROVE  Append(s, e) \in Seq(S) /\ Range(Append(s, e)) \subseteq Range(s) \cup {e}
  BY DEF Range

LEMMA RangeTail ==
    ASSUME NEW S, NEW s \in Seq(S), s # <<>>
    PROVE  /\ Head(s) \in S /\ Head(s) \in Range(s)
           /\ Tail(s) \in Seq(S) /\ Range(Tail(s)) \subseteq Range(s)
  BY DEF Range

LEMMA RangeOne ==
    ASSUME NEW S, NEW e \in S
    PROVE  <<e>> \in Seq(S) /\ Range(<<e>>) = {e}
  BY DEF Range

LEMMA RangeNone ==
    ASSUME NEW S
    PROVE  <<>> \in Seq(S) /\ Range(<<>>) = {}
  BY DEF Range

\* The elements of a sequence, in any order.
LEMMA Permuted ==
    ASSUME NEW S, NEW s \in Seq(S), NEW t \in SetToSeqs(Range(s))
    PROVE  t \in Seq(S) /\ Range(t) \subseteq Range(s)
<1>1. Range(s) \subseteq S
  BY DEF Range
<1>2. s \in Surjection(1..Len(s), Range(s))
  BY DEF Surjection, Range
<1>3. IsFiniteSet(1..Len(s))
  BY FS_Interval
<1>4. IsFiniteSet(Range(s))
  BY <1>2, <1>3, FS_Surjection
<1>5. Cardinality(Range(s)) \in Nat
  BY <1>4, FS_CardinalityType
<1>6. t \in [1..Cardinality(Range(s)) -> Range(s)]
  BY DEF SetToSeqs
<1>7. t \in Seq(Range(s))
  BY <1>5, <1>6
<1>8. QED
  BY <1>1, <1>6, <1>7 DEF Range

LEMMA OrderTyped == Order \in Seq(Backends)
  BY ConstantsAssumption

----------------------------------------------------------------------------
(***************************************************************************)
(* Type correctness and ServedInv, action by action.                       *)
(***************************************************************************)

LEMMA ModeTyped ==
    ASSUME mode \in Modes
    PROVE  /\ Switches \subseteq BOOLEAN /\ Priorities \subseteq Int /\ Weights \subseteq Int
           /\ ResponseTimes \subseteq 0..(Infinity - 1)
           /\ Distances \subseteq 0..Infinity /\ BackendLabels \subseteq LabelType
           /\ Clients \subseteq ClientType /\ Clients # {}
  BY ConstantsAssumption
     DEF IsRanges, Switches, Priorities, Weights, ResponseTimes, Distances, BackendLabels,
         Clients

LEMMA NoQueryTyped ==
    ASSUME NEW c \in Clients
    PROVE  NoQuery(c) \in QueryStates /\ NoQuery(c).at = "idle"
<1>1. 0 \in 0..Infinity
  BY ConstantsAssumption
<1>2. QED
  BY <1>1, RangeNone DEF NoQuery, QueryStates, Passes

\* The start of a pass.
LEMMA PassTyped ==
    ASSUME NEW q \in QueryStates, NEW p \in Passes
    PROVE  /\ Pass(q, p) \in QueryStates
           /\ Pass(q, p).at \in {"sort", "visit"}
           /\ Pass(q, p).picked = <<>>
<1>1. Infinity \in 0..Infinity
  BY ConstantsAssumption
<1>2. QED
  BY <1>1, OrderTyped, RangeNone DEF Pass, QueryStates

LEMMA PassesTyped ==
    /\ \A p \in Passes : After(p) \in Passes
    /\ \A m \in Modes, c \in Clients : FirstPass(m, c) \in Passes
  BY ConstantsAssumption DEF Passes, After, FirstPass, NearestPass, AllModes, SupportedModes

LEMMA InitIInv == Init => IInv
<1>1. SUFFICES ASSUME Init PROVE IInv
  OBVIOUS
<1>2. mode \in Modes
  BY <1>1 DEF Init
<1>3. (CHOOSE c \in Clients : TRUE) \in Clients
  BY <1>2, ModeTyped
<1>4. query \in QueryStates /\ query.at = "idle"
  BY <1>1, <1>3, NoQueryTyped DEF Init
<1>5. seen \in SeenStates
  BY <1>1, ConstantsAssumption DEF Init, NothingSeen, Seen, SeenStates
<1>6. TypeOK
  BY <1>1, <1>2, <1>4, <1>5 DEF Init, TypeOK
<1>7. QED
  BY <1>4, <1>6 DEF IInv, ServedInv, InProgress

\* The backends do not change: what is said of them stays true.
LEMMA SameBackends ==
    ASSUME TypeOK, UNCHANGED <<mode, backendVars>>
    PROVE  /\ QueryStates' = QueryStates /\ SeenStates' = SeenStates
           /\ Healthy' = Healthy /\ Enabled' = Enabled
           /\ query' \in QueryStates /\ seen' \in SeenStates => TypeOK'
  BY DEF TypeOK, QueryStates, SeenStates, Healthy, Enabled, backendVars, Switches,
         Priorities, Weights, ResponseTimes, Distances, BackendLabels, Clients

LEMMA ArriveIInv ==
    ASSUME IInv, NEW t \in Range(Family), NEW c \in Clients, Arrive(t, c)
    PROVE  IInv'
<1> DEFINE q == [query EXCEPT !.type = t, !.client = c]
<1>1. q \in QueryStates
  BY DEF IInv, TypeOK, QueryStates
<1>2. FirstPass(mode, c) \in Passes
  BY PassesTyped DEF IInv, TypeOK
<1>3. query' = Pass(q, FirstPass(mode, c))
  BY DEF Arrive
<1>4. query' \in QueryStates /\ query'.at \in {"sort", "visit"} /\ query'.picked = <<>>
  BY <1>1, <1>2, <1>3, PassTyped
<1>5. seen' = [changes |-> 0, moved |-> FALSE, steady |-> Healthy,
               healthy |-> Healthy, enabled |-> Enabled]
  BY DEF Arrive, Seen
<1>6. seen' \in SeenStates
  BY <1>5, ConstantsAssumption DEF SeenStates, Healthy, Enabled
<1>7. TypeOK' /\ Healthy' = Healthy /\ Enabled' = Enabled
  BY <1>4, <1>6, SameBackends DEF IInv, Arrive
<1>8. Range(query'.picked) = {}
  BY <1>4, RangeNone
<1>9. QED
  BY <1>4, <1>5, <1>7, <1>8 DEF IInv, ServedInv, InProgress, Allowed

\* A step of the query alone that goes on within the same history.
LEMMA QueryStep ==
    ASSUME IInv, UNCHANGED <<mode, backendVars, seen>>, InProgress,
           query' \in QueryStates,
           query'.at # "idle" => Range(query'.picked) \subseteq Allowed(query'.pass),
           query'.at = "wheel" =>
               query'.pass # "all" /\ Range(query'.todo) \subseteq Range(query'.picked)
    PROVE  IInv'
<1>1. TypeOK' /\ Healthy' = Healthy /\ Enabled' = Enabled
  BY SameBackends DEF IInv, TypeOK
<1>2. QED
  BY <1>1 DEF IInv, ServedInv, Allowed, InProgress

LEMMA SortIInv ==
    ASSUME IInv, Sort
    PROVE  IInv'
<1>1. PICK order \in SetToSeqs(Backends) : query' = [query EXCEPT !.at = "visit", !.todo = order]
  BY DEF Sort
<1>2. order \in Seq(Backends)
  BY <1>1, OrderTyped, Permuted DEF Backends
<1>3. query' \in QueryStates /\ query'.at = "visit" /\ query'.picked = query.picked
      /\ query'.pass = query.pass
  BY <1>1, <1>2 DEF IInv, TypeOK, QueryStates
<1>4. InProgress /\ query.at # "idle"
  BY DEF Sort, InProgress
<1>5. QED
  BY <1>3, <1>4, QueryStep DEF IInv, ServedInv, Sort

\* What every visit does: it goes on to the next backends of the pass, and takes
\* none but the current one, if the pass allows it.
Visited ==
    /\ query' \in QueryStates
    /\ query'.at = "visit" /\ query'.pass = query.pass
    /\ Range(query'.picked) \subseteq Range(query.picked) \cup Allowed(query.pass)

LEMMA TakenTyped ==
    ASSUME IInv, query.at = "visit", query.todo # <<>>
    PROVE  /\ Current \in Backends
           /\ Passed(query) \in QueryStates
           /\ Passed(query).at = "visit" /\ Passed(query).pass = query.pass
           /\ Passed(query).picked = query.picked
           /\ Taken(query) \in QueryStates
           /\ Taken(query).at = "visit" /\ Taken(query).pass = query.pass
           /\ Range(Taken(query).picked) \subseteq Range(query.picked) \cup {Current}
<1>1. query.todo \in Seq(Backends) /\ query.picked \in Seq(Backends)
  BY DEF IInv, TypeOK, QueryStates
<1>2. Current \in Backends /\ Tail(query.todo) \in Seq(Backends)
  BY <1>1, RangeTail DEF Current
<1>3. /\ Append(query.picked, Current) \in Seq(Backends)
      /\ Range(Append(query.picked, Current)) \subseteq Range(query.picked) \cup {Current}
  BY <1>1, <1>2, RangeAppend
<1>4. QED
  BY <1>1, <1>2, <1>3 DEF IInv, TypeOK, QueryStates, Passed, Taken, Current

LEMMA ImprovedTyped ==
    ASSUME IInv, query.at = "visit", query.todo # <<>>, NEW value \in 0..Infinity
    PROVE  /\ Improved(query, value) \in QueryStates
           /\ Improved(query, value).at = "visit" /\ Improved(query, value).pass = query.pass
           /\ Range(Improved(query, value).picked) = {Current}
<1>1. query.todo \in Seq(Backends)
  BY DEF IInv, TypeOK, QueryStates
<1>2. Current \in Backends /\ Tail(query.todo) \in Seq(Backends)
  BY <1>1, RangeTail DEF Current
<1>3. <<Current>> \in Seq(Backends) /\ Range(<<Current>>) = {Current}
  BY <1>2, RangeOne
<1>4. QED
  BY <1>2, <1>3 DEF IInv, TypeOK, QueryStates, Improved, Current

LEMMA PassedVisited ==
    ASSUME IInv, query.at = "visit", query.todo # <<>>, query' = Passed(query)
    PROVE  Visited
  BY TakenTyped DEF Visited

LEMMA TakenVisited ==
    ASSUME IInv, query.at = "visit", query.todo # <<>>, query' = Taken(query),
           Current \in Allowed(query.pass)
    PROVE  Visited
  BY TakenTyped DEF Visited

LEMMA ImprovedVisited ==
    ASSUME IInv, query.at = "visit", query.todo # <<>>, NEW value \in 0..Infinity,
           query' = Improved(query, value), Current \in Allowed(query.pass)
    PROVE  Visited
  BY ImprovedTyped DEF Visited

\* A backend that is healthy, or enabled in the last pass, is allowed.
LEMMA HealthyAllowed ==
    ASSUME IInv, query.at = "visit", query.pass # "all", Current \in Healthy
    PROVE  Current \in Allowed(query.pass)
  BY DEF IInv, ServedInv, InProgress, Allowed

LEMMA VisitFailoverVisited ==
    ASSUME IInv, VisitFailover
    PROVE  Visited
<1>1. query.at = "visit" /\ query.pass = "failover" /\ query.todo # <<>>
  BY DEF VisitFailover, Visiting
<1>2. Current \in Backends /\ query.best \in Priorities \cup 0..Infinity \cup {NoPriority}
  BY <1>1, TakenTyped DEF IInv, TypeOK, QueryStates
<1> DEFINE min == IF query.best = NoPriority THEN priority[Current] ELSE query.best
<1>3. min \in Priorities \cup 0..Infinity \cup {NoPriority}
  BY <1>2 DEF IInv, TypeOK
<1> HIDE DEF min
<1>4. query' = IF ~Candidate THEN Passed(query)
               ELSE IF priority[Current] = min
               THEN [Taken(query) EXCEPT !.best = min]
               ELSE [query EXCEPT !.todo = <<>>]
  BY DEF VisitFailover, min
<1>5. CASE ~Candidate
  BY <1>1, <1>4, <1>5, PassedVisited
<1>6. CASE Candidate /\ priority[Current] = min
  <2>1. query' = [Taken(query) EXCEPT !.best = min]
    BY <1>4, <1>6
  <2>2. Current \in Allowed(query.pass)
    BY <1>1, <1>6, HealthyAllowed DEF Candidate
  <2>3. /\ Taken(query) \in QueryStates
        /\ Taken(query).at = "visit" /\ Taken(query).pass = query.pass
        /\ Range(Taken(query).picked) \subseteq Range(query.picked) \cup {Current}
    BY <1>1, TakenTyped
  <2>4. query'.picked = Taken(query).picked
    BY <2>1, <2>3 DEF QueryStates
  <2>5. QED
    BY <1>3, <2>1, <2>2, <2>3, <2>4 DEF Visited, QueryStates
<1>7. CASE Candidate /\ priority[Current] # min
  <2>1. query' = [query EXCEPT !.todo = <<>>]
    BY <1>4, <1>7
  <2>2. QED
    BY <1>1, <2>1, RangeNone DEF Visited, IInv, TypeOK, QueryStates
<1>8. QED
  BY <1>5, <1>6, <1>7

LEMMA VisitPoolVisited ==
    ASSUME IInv, VisitPool
    PROVE  Visited
<1>1. query.at = "visit" /\ query.pass # "all" /\ query.todo # <<>>
  BY DEF VisitPool, Visiting
<1>2. QED
  BY <1>1, PassedVisited, TakenVisited, HealthyAllowed DEF VisitPool, Candidate

LEMMA VisitWeightedVisited ==
    ASSUME IInv, VisitWeighted
    PROVE  Visited
<1>1. query.at = "visit" /\ query.pass # "all" /\ query.todo # <<>>
  BY DEF VisitWeighted, Visiting
<1>2. CASE ~Candidate
  BY <1>1, <1>2, PassedVisited DEF VisitWeighted
<1>3. CASE Candidate
  <2>1. query' = [Taken(query) EXCEPT !.total = @ + GetWeight(Current)]
    BY <1>3 DEF VisitWeighted
  <2>2. Current \in Allowed(query.pass)
    BY <1>1, <1>3, HealthyAllowed DEF Candidate
  <2>3. /\ Current \in Backends
        /\ Taken(query) \in QueryStates
        /\ Taken(query).at = "visit" /\ Taken(query).pass = query.pass
        /\ Range(Taken(query).picked) \subseteq Range(query.picked) \cup {Current}
    BY <1>1, TakenTyped
  <2>4. GetWeight(Current) \in Nat
    BY <2>3, ModeTyped DEF IInv, TypeOK, GetWeight
  <2>5. Taken(query).total + GetWeight(Current) \in Nat
    BY <2>3, <2>4 DEF QueryStates
  <2>6. query'.picked = Taken(query).picked
    BY <2>1, <2>3 DEF QueryStates
  <2>7. QED
    BY <2>1, <2>2, <2>3, <2>5, <2>6 DEF Visited, QueryStates
<1>4. QED
  BY <1>2, <1>3

LEMMA VisitNearestVisited ==
    ASSUME IInv, VisitNearest
    PROVE  Visited
<1>1. query.at = "visit" /\ query.pass # "all" /\ query.todo # <<>>
  BY DEF VisitNearest, Visiting
<1>2. distance[Current] \in 0..Infinity
  BY <1>1, TakenTyped, ModeTyped DEF IInv, TypeOK
<1>3. QED
  BY <1>1, <1>2, PassedVisited, ImprovedVisited, HealthyAllowed DEF VisitNearest, Candidate

LEMMA VisitFastestVisited ==
    ASSUME IInv, VisitFastest
    PROVE  Visited
<1>1. query.at = "visit" /\ query.pass # "all" /\ query.todo # <<>>
  BY DEF VisitFastest, Visiting
<1>2. responseTime[Current] \in 0..Infinity
  BY <1>1, TakenTyped, ModeTyped, ConstantsAssumption DEF IInv, TypeOK
<1>3. QED
  BY <1>1, <1>2, PassedVisited, TakenVisited, ImprovedVisited, HealthyAllowed
     DEF VisitFastest, Candidate

LEMMA VisitLabelledVisited ==
    ASSUME IInv, VisitLabelled
    PROVE  Visited
<1>1. query.at = "visit" /\ query.pass # "all" /\ query.todo # <<>>
  BY DEF VisitLabelled, Visiting
<1>2. CASE query' = Passed(query)
  BY <1>1, <1>2, PassedVisited
<1>3. CASE Current \in Healthy /\ query' = [Taken(query) EXCEPT !.todo = <<>>]
  <2>1. Current \in Allowed(query.pass)
    BY <1>1, <1>3, HealthyAllowed
  <2>2. /\ Taken(query) \in QueryStates
        /\ Taken(query).at = "visit" /\ Taken(query).pass = query.pass
        /\ Range(Taken(query).picked) \subseteq Range(query.picked) \cup {Current}
    BY <1>1, TakenTyped
  <2>3. query'.picked = Taken(query).picked
    BY <1>3, <2>2 DEF QueryStates
  <2>4. QED
    BY <1>3, <2>1, <2>2, <2>3, RangeNone DEF Visited, QueryStates
<1>4. QED
  BY <1>2, <1>3 DEF VisitLabelled

LEMMA VisitLocatedVisited ==
    ASSUME IInv, VisitLocated
    PROVE  Visited
<1>1. query.at = "visit" /\ query.pass # "all" /\ query.todo # <<>>
  BY DEF VisitLocated, Visiting
<1>2. QED
  BY <1>1, PassedVisited, TakenVisited, HealthyAllowed DEF VisitLocated

LEMMA VisitAnyVisited ==
    ASSUME IInv, VisitAny
    PROVE  Visited
<1>1. query.at = "visit" /\ query.pass = "all" /\ query.todo # <<>>
  BY DEF VisitAny, Visiting
<1>2. enable[Current] => Current \in Allowed(query.pass)
  BY <1>1, TakenTyped DEF IInv, ServedInv, InProgress, Allowed, Enabled
<1>3. QED
  BY <1>1, <1>2, PassedVisited, TakenVisited DEF VisitAny

LEMMA VisitVisited ==
    ASSUME IInv, Visit
    PROVE  Visited
  BY VisitFailoverVisited, VisitPoolVisited, VisitWeightedVisited, VisitNearestVisited,
     VisitFastestVisited, VisitLabelledVisited, VisitLocatedVisited, VisitAnyVisited
     DEF Visit

LEMMA VisitIInv ==
    ASSUME IInv, Visit
    PROVE  IInv'
<1>1. Visited
  BY VisitVisited
<1>2. query.at = "visit" /\ UNCHANGED <<mode, backendVars, seen>>
  BY DEF Visit, VisitFailover, VisitPool, VisitWeighted, VisitNearest, VisitFastest,
         VisitLabelled, VisitLocated, VisitAny, Visiting
<1>3. Range(query.picked) \subseteq Allowed(query.pass)
  BY <1>2 DEF IInv, ServedInv
<1>4. QED
  BY <1>1, <1>2, <1>3, QueryStep DEF Visited, InProgress

----------------------------------------------------------------------------
(***************************************************************************)
(* The end of a pass.                                                      *)
(***************************************************************************)

\* The next pass begins.
LEMMA PassIInv ==
    ASSUME IInv, InProgress, UNCHANGED <<mode, backendVars, seen>>,
           NEW p \in Passes, query' = Pass(query, p)
    PROVE  IInv'
<1>1. query' \in QueryStates /\ query'.at \in {"sort", "visit"} /\ query'.picked = <<>>
  BY PassTyped DEF IInv, TypeOK
<1>2. Range(query'.picked) = {}
  BY <1>1, RangeNone
<1>3. QED
  BY <1>1, <1>2, QueryStep

\* The query is answered with some of what was picked.
LEMMA AnswerIInv ==
    ASSUME IInv, InProgress, UNCHANGED <<mode, backendVars, seen>>,
           NEW addresses \in Seq(Backends), Range(addresses) \subseteq Range(query.picked),
           Answer(addresses)
    PROVE  IInv'
<1>1. /\ query' \in QueryStates /\ query'.at = "answered"
      /\ query'.picked = addresses /\ query'.pass = query.pass
  BY DEF IInv, TypeOK, QueryStates, Answer
<1>2. Range(query.picked) \subseteq Allowed(query.pass)
  BY DEF IInv, ServedInv, InProgress
<1>3. QED
  BY <1>1, <1>2, QueryStep

LEMMA EndOfPassIInv ==
    ASSUME IInv, EndOfPass
    PROVE  IInv'
<1>1. /\ query.pass \in Passes /\ query.todo \in Seq(Backends)
      /\ query.picked \in Seq(Backends) /\ query.total \in Nat /\ query.sum \in Nat
      /\ query.client \in Clients
  BY DEF IInv, TypeOK, QueryStates
<1>2. InProgress /\ UNCHANGED <<mode, backendVars, seen>>
  BY DEF EndOfPass, NothingFound, AnswerPicked, AnswerFastest, AnswerRandom,
         AnswerRoundRobin, ThrowBall, TurnWheel, WheelFails, PassOver, InProgress
<1>3. Range(query.picked) \subseteq Allowed(query.pass)
  BY <1>2 DEF IInv, ServedInv, InProgress
<1>4. ASSUME NothingFound PROVE IInv'
  <2>1. CASE query.pass = "all"
    <3>1. query' = [query EXCEPT !.at = "answered"]
      BY <1>4, <2>1 DEF NothingFound
    <3>2. /\ query' \in QueryStates /\ query'.at = "answered"
          /\ query'.picked = query.picked /\ query'.pass = query.pass
      BY <3>1 DEF IInv, TypeOK, QueryStates
    <3>3. QED
      BY <1>2, <1>3, <3>2, QueryStep
  <2>2. CASE query.pass # "all"
    <3>1. query' = Pass(query, After(query.pass)) /\ After(query.pass) \in Passes
      BY <1>1, <1>4, <2>2, PassesTyped DEF NothingFound
    <3>2. QED
      BY <1>2, <3>1, PassIInv
  <2>3. QED
    BY <2>1, <2>2
<1>5. ASSUME AnswerPicked PROVE IInv'
  BY <1>1, <1>2, <1>5, AnswerIInv DEF AnswerPicked
<1>6. ASSUME AnswerFastest PROVE IInv'
  <2>1. "failover" \in Passes
    BY DEF Passes
  <2>2. QED
    BY <1>1, <1>2, <1>6, <2>1, AnswerIInv, PassIInv DEF AnswerFastest
<1>7. ASSUME AnswerRandom PROVE IInv'
  <2>1. PICK shuffled \in SetToSeqs(Range(query.picked)) : Answer(shuffled)
    BY <1>7 DEF AnswerRandom
  <2>2. shuffled \in Seq(Backends) /\ Range(shuffled) \subseteq Range(query.picked)
    BY <1>1, <2>1, Permuted
  <2>3. QED
    BY <1>2, <2>1, <2>2, AnswerIInv
<1>8. ASSUME AnswerRoundRobin PROVE IInv'
  <2>1. PICK i \in DOMAIN query.picked : Answer(<<query.picked[i]>>)
    BY <1>8 DEF AnswerRoundRobin
  <2>2. query.picked[i] \in Backends /\ query.picked[i] \in Range(query.picked)
    BY <1>1, <2>1 DEF Range
  <2>3. /\ <<query.picked[i]>> \in Seq(Backends)
        /\ Range(<<query.picked[i]>>) \subseteq Range(query.picked)
    BY <2>2, RangeOne
  <2>4. QED
    BY <1>2, <2>1, <2>3, AnswerIInv
<1>9. ASSUME ThrowBall PROVE IInv'
  <2>1. PICK ball \in 0..(query.total - 1) :
          query' = [query EXCEPT !.at = "wheel", !.todo = query.picked,
                                 !.ball = ball, !.sum = 0]
    BY <1>9 DEF ThrowBall
  <2>2. ball \in Nat
    BY <1>1, <2>1
  <2>3. /\ query' \in QueryStates /\ query'.at = "wheel" /\ query'.pass = query.pass
        /\ query'.todo = query.picked /\ query'.picked = query.picked
    BY <1>1, <2>1, <2>2 DEF IInv, TypeOK, QueryStates
  <2>4. query.pass # "all"
    BY <1>9 DEF ThrowBall, PassOver
  <2>5. QED
    BY <1>2, <1>3, <2>3, <2>4, QueryStep
<1>10. ASSUME TurnWheel PROVE IInv'
  <2>1. /\ query.at = "wheel" /\ query.todo # <<>>
        /\ query.pass # "all" /\ Range(query.todo) \subseteq Range(query.picked)
    BY <1>10 DEF TurnWheel, IInv, ServedInv
  <2>2. /\ Current \in Backends /\ Current \in Range(query.picked)
        /\ Tail(query.todo) \in Seq(Backends)
        /\ Range(Tail(query.todo)) \subseteq Range(query.picked)
    BY <1>1, <2>1, RangeTail DEF Current
  <2> DEFINE cumulative == query.sum + GetWeight(Current)
  <2>3. cumulative \in Nat
    BY <1>1, <2>2, ModeTyped DEF IInv, TypeOK, GetWeight
  <2> HIDE DEF cumulative
  <2>4. CASE Answer(<<Current>>)
    <3>1. <<Current>> \in Seq(Backends) /\ Range(<<Current>>) \subseteq Range(query.picked)
      BY <2>2, RangeOne
    <3>2. QED
      BY <1>2, <2>4, <3>1, AnswerIInv
  <2>5. CASE query' = [Passed(query) EXCEPT !.sum = cumulative]
    <3>1. query' = [query EXCEPT !.todo = Tail(query.todo), !.sum = cumulative]
      BY <2>5 DEF Passed, IInv, TypeOK, QueryStates
    <3>2. /\ query' \in QueryStates /\ query'.at = "wheel" /\ query'.pass = query.pass
          /\ query'.picked = query.picked /\ query'.todo = Tail(query.todo)
      BY <2>1, <2>2, <2>3, <3>1 DEF IInv, TypeOK, QueryStates
    <3>3. QED
      BY <1>2, <1>3, <2>1, <2>2, <3>2, QueryStep
  <2>6. QED
    BY <1>10, <2>4, <2>5 DEF TurnWheel, cumulative
<1>11. ASSUME WheelFails PROVE IInv'
  <2>1. "weighted" \in Passes
    BY DEF Passes
  <2>2. After("weighted") \in Passes
    BY <2>1, PassesTyped
  <2>3. QED
    BY <1>2, <1>11, <2>2, PassIInv DEF WheelFails
<1>12. QED
  BY <1>4, <1>5, <1>6, <1>7, <1>8, <1>9, <1>10, <1>11 DEF EndOfPass

LEMMA LeaveIInv ==
    ASSUME IInv, Leave
    PROVE  IInv'
<1>1. query.client \in Clients
  BY DEF IInv, TypeOK, QueryStates
<1>2. query' \in QueryStates /\ query'.at = "idle"
  BY <1>1, NoQueryTyped DEF Leave
<1>3. seen' \in SeenStates
  BY ConstantsAssumption DEF Leave, NothingSeen, Seen, SeenStates
<1>4. TypeOK'
  BY <1>2, <1>3, SameBackends DEF Leave, IInv
<1>5. QED
  BY <1>2, <1>4 DEF IInv, ServedInv, InProgress

----------------------------------------------------------------------------
(***************************************************************************)
(* Changes of the backends.                                                *)
(***************************************************************************)

\* The history takes the change in, and the query keeps what it has picked.
LEMMA RecordIInv ==
    ASSUME IInv, InProgress, NEW moved \in BOOLEAN, Record(moved),
           seen.changes < MaxChanges, mode' = mode,
           alive' \in [Backends -> BOOLEAN], enable' \in [Backends -> Switches],
           priority' \in [Backends -> Priorities], weight' \in [Backends -> Weights \cup {1}],
           responseTime' \in [Backends -> ResponseTimes],
           distance' \in [Backends -> Distances], label' \in [Backends -> BackendLabels],
           query' \in QueryStates, query'.at = query.at \/ query'.at = "disturbed",
           query'.picked = query.picked, query'.pass = query.pass, query'.todo = query.todo
    PROVE  IInv'
<1>1. Healthy' \subseteq Backends /\ Enabled' \subseteq Backends
  BY DEF Healthy, Enabled
<1>2. seen' = [changes |-> seen.changes + 1, moved |-> seen.moved \/ moved,
               steady |-> seen.steady \cap Healthy', healthy |-> seen.healthy \cup Healthy',
               enabled |-> seen.enabled \cup Enabled']
  BY DEF Record, Seen
<1>3. seen \in SeenStates
  BY DEF IInv, TypeOK
<1>4. seen.changes + 1 \in 0..MaxChanges
  BY <1>3, ConstantsAssumption DEF SeenStates
<1>5. seen' \in SeenStates
  BY <1>1, <1>2, <1>3, <1>4 DEF SeenStates
<1>6. QueryStates' = QueryStates /\ SeenStates' = SeenStates
  BY DEF QueryStates, SeenStates, Priorities, Clients
<1>7. TypeOK'
  BY <1>5, <1>6 DEF IInv, TypeOK, Switches, Priorities, Weights, ResponseTimes, Distances,
                   BackendLabels
<1>8. Range(query.picked) \subseteq Allowed(query.pass)
  BY DEF IInv, ServedInv, InProgress
<1>9. seen.healthy \subseteq seen'.healthy /\ seen.enabled \subseteq seen'.enabled
      /\ Healthy' \subseteq seen'.healthy /\ Enabled' \subseteq seen'.enabled
  BY <1>2
<1>10. Range(query'.picked) \subseteq Allowed(query.pass)'
  BY <1>8, <1>9 DEF Allowed
<1>11. QED
  BY <1>7, <1>9, <1>10 DEF IInv, ServedInv

LEMMA PublishIInv ==
    ASSUME IInv, NEW b \in Backends, NEW a \in BOOLEAN, NEW rt \in ResponseTimes,
           Publish(b, a, rt)
    PROVE  IInv'
<1>1. alive' \in [Backends -> BOOLEAN] /\ responseTime' \in [Backends -> ResponseTimes]
  BY DEF Publish, IInv, TypeOK
<1>2. QED
  BY <1>1, RecordIInv DEF Publish, IInv, TypeOK

LEMMA UpdateIInv ==
    ASSUME IInv, NEW b \in Backends, NEW e \in Switches, NEW p \in Priorities,
           NEW w \in Weights, NEW d \in Distances, NEW l \in BackendLabels,
           UpdateBackend(b, e, p, w, d, l)
    PROVE  IInv'
<1>1. /\ enable' \in [Backends -> Switches] /\ priority' \in [Backends -> Priorities]
      /\ weight' \in [Backends -> Weights \cup {1}]
      /\ distance' \in [Backends -> Distances] /\ label' \in [Backends -> BackendLabels]
  BY DEF UpdateBackend, IInv, TypeOK
<1>2. /\ query' \in QueryStates
      /\ query'.at = query.at \/ query'.at = "disturbed"
      /\ query'.picked = query.picked /\ query'.pass = query.pass
      /\ query'.todo = query.todo
  BY DEF UpdateBackend, IInv, TypeOK, QueryStates
<1> DEFINE moved == <<priority, weight, distance, label>>' # <<priority, weight, distance, label>>
<1>3. moved \in BOOLEAN /\ Record(moved) /\ InProgress /\ seen.changes < MaxChanges
  BY DEF UpdateBackend
<1>4. /\ mode' = mode /\ alive' \in [Backends -> BOOLEAN]
      /\ responseTime' \in [Backends -> ResponseTimes]
  BY DEF UpdateBackend, IInv, TypeOK
<1> HIDE DEF moved
<1>5. QED
  BY <1>1, <1>2, <1>3, <1>4, RecordIInv

----------------------------------------------------------------------------
(***************************************************************************)
(* The theorems.                                                           *)
(***************************************************************************)

LEMMA StepIInv == IInv /\ [Next]_vars => IInv'
<1>1. SUFFICES ASSUME IInv, [Next]_vars PROVE IInv'
  OBVIOUS
<1>2. CASE \E t \in Range(Family), c \in Clients : Arrive(t, c)
  BY <1>1, <1>2, ArriveIInv
<1>3. CASE Sort
  BY <1>1, <1>3, SortIInv
<1>4. CASE Visit
  BY <1>1, <1>4, VisitIInv
<1>5. CASE EndOfPass
  BY <1>1, <1>5, EndOfPassIInv
<1>6. CASE Leave
  BY <1>1, <1>6, LeaveIInv
<1>7. CASE Change
  BY <1>1, <1>7, PublishIInv, UpdateIInv DEF Change
<1>8. CASE UNCHANGED vars
  <2>1. TypeOK' /\ Healthy' = Healthy /\ Enabled' = Enabled
    BY <1>1, <1>8, SameBackends DEF IInv, TypeOK, vars
  <2>2. QED
    BY <1>1, <1>8, <2>1 DEF IInv, ServedInv, InProgress, Allowed, vars
<1>9. QED
  BY <1>1, <1>2, <1>3, <1>4, <1>5, <1>6, <1>7, <1>8 DEF Next

\* Every reachable state of the selection is well typed, for any list of backends.
THEOREM TypeCorrect == Spec => []TypeOK
<1>1. IInv => TypeOK
  BY DEF IInv
<1>2. QED
  BY <1>1, InitIInv, StepIInv, PTL DEF Spec

\* No mode answers with a backend that was down during the whole query, nor does
\* the fallback with one that was disabled during the whole query.
THEOREM DownIsNeverServed == Spec => []NeverServedDown
<1>1. IInv => NeverServedDown
  BY DEF IInv, ServedInv, NeverServedDown, Chosen, FellBack, Allowed
<1>2. QED
  BY <1>1, InitIInv, StepIInv, PTL DEF Spec

----------------------------------------------------------------------------
(***************************************************************************)
(* What a pass knows of the backends that stay healthy.  As long as no     *)
(* priority, weight or response time has changed ("moved"), each of them   *)
(* is still to be visited, or picked, or no better than what was picked.   *)
(***************************************************************************)

\* The priority the code uses as a mark is not one of the values.
PrioritiesUnmarked == \A m \in Modes : NoPriority \notin Ranges[m].priority

\* The backends that are still to be visited, and those that were picked.
Todo == Range(query.todo)
Picked == Range(query.picked)

\* No backend is visited or picked twice.
DistinctInv ==
    /\ IsInjective(query.picked)
    /\ query.at \in {"sort", "disturbed", "visit"} =>
         IsInjective(query.todo) /\ Todo \cap Picked = {}

\* Before the sort.
SortInv ==
    query.at \in {"sort", "disturbed"} =>
        /\ query.pass = "failover" /\ query.picked = <<>> /\ query.best = NoPriority
        /\ query.at = "disturbed" => seen.moved

FailoverInv ==
    (query.at = "visit" /\ query.pass = "failover") =>
        /\ \A i, j \in DOMAIN query.todo :
             i < j => priority[query.todo[i]] <= priority[query.todo[j]]
        /\ \A a \in Picked, b \in Todo : priority[a] <= priority[b]
        /\ query.best # NoPriority => \E a \in Picked : priority[a] = query.best
        /\ PrioritiesUnmarked => \A a \in Picked : priority[a] = query.best
        /\ \A b \in Steady : b \in Todo \cup Picked \/ \E a \in Picked : priority[a] < priority[b]

PoolInv ==
    (query.at = "visit" /\ query.pass \in {"roundrobin", "random", "weighted"}) =>
        Steady \subseteq Todo \cup Picked

NearestInv ==
    (query.at = "visit" /\ query.pass = "nearest") =>
        /\ \A a \in Picked : distance[a] = query.best
        /\ \A b \in Steady : b \in Todo \/ query.best <= distance[b]

FastestInv ==
    (query.at = "visit" /\ query.pass = "fastest") =>
        /\ \A a \in Picked : Cost(a) = query.best
        /\ query.picked = <<>> => query.best = Infinity
        /\ \A b \in Steady : b \in Todo \/ (query.picked # <<>> /\ query.best <= Cost(b))

\* pickAllAddresses comes first only in a mode that is not supported.
LastInv ==
    (query.at = "visit" /\ query.pass = "all" /\ mode \in SupportedModes) => Steady = {}

\* The partial sums of the weights of a sequence of backends.
Sums(f, s) ==
    /\ f[0] = 0
    /\ \A i \in 1..Len(s) : f[i] = f[i - 1] + GetWeight(s[i])

WeightedInv ==
    (query.at = "visit" /\ query.pass = "weighted") =>
        \E f \in [0..Len(query.picked) -> Nat] :
            Sums(f, query.picked) /\ f[Len(query.picked)] = query.total

\* The wheel has passed the backends in front of those left, and the ball lies
\* behind their weights.
Wheel(f, n) ==
    /\ Sums(f, query.picked) /\ f[Len(query.picked)] = query.total
    /\ n + Len(query.todo) = Len(query.picked)
    /\ \A i \in 1..Len(query.todo) : query.todo[i] = query.picked[n + i]
    /\ query.sum = f[n]
    /\ query.sum <= query.ball /\ query.ball < query.total

WheelInv ==
    query.at = "wheel" =>
        \E f \in [0..Len(query.picked) -> Nat], n \in 0..Len(query.picked) : Wheel(f, n)

KnownInv ==
    ~seen.moved =>
        /\ FailoverInv /\ PoolInv /\ NearestInv /\ FastestInv /\ LastInv
        /\ WeightedInv /\ WheelInv

ScanInv ==
    /\ InProgress => seen.steady \subseteq Healthy
    /\ query.at = "wheel" => query.pass = "weighted"
    /\ DistinctInv /\ SortInv /\ KnownInv

AnswerInv ==
    /\ SteadyIsEnough /\ NoneForgotten
    /\ PrioritiesUnmarked => NoBetterSteady /\ OnePriority

SInv == IInv /\ ScanInv /\ AnswerInv

----------------------------------------------------------------------------
(***************************************************************************)
(* Sequences without repetition.                                           *)
(***************************************************************************)

LEMMA DistinctTail ==
    ASSUME NEW S, NEW s \in Seq(S), s # <<>>
    PROVE  /\ Range(s) = {Head(s)} \cup Range(Tail(s))
           /\ IsInjective(s) => IsInjective(Tail(s)) /\ Head(s) \notin Range(Tail(s))
<1>1. /\ Len(s) \in Nat \ {0} /\ DOMAIN s = 1..Len(s) /\ Head(s) = s[1]
      /\ DOMAIN Tail(s) = 1..(Len(s) - 1)
      /\ \A i \in 1..(Len(s) - 1) : Tail(s)[i] = s[i + 1]
  OBVIOUS
<1>2. Range(s) \subseteq {Head(s)} \cup Range(Tail(s))
  <2>1. SUFFICES ASSUME NEW i \in 1..Len(s), i # 1 PROVE s[i] \in Range(Tail(s))
    BY <1>1 DEF Range
  <2>2. i - 1 \in 1..(Len(s) - 1) /\ Tail(s)[i - 1] = s[i]
    BY <1>1, <2>1
  <2>3. QED
    BY <1>1, <2>2 DEF Range
<1>3. {Head(s)} \cup Range(Tail(s)) \subseteq Range(s)
  BY RangeTail
<1>4. IsInjective(s) => IsInjective(Tail(s)) /\ Head(s) \notin Range(Tail(s))
  BY <1>1 DEF IsInjective, Range
<1>5. QED
  BY <1>2, <1>3, <1>4

LEMMA TailElements ==
    ASSUME NEW S, NEW s \in Seq(S), s # <<>>
    PROVE  /\ Len(s) \in Nat \ {0} /\ DOMAIN s = 1..Len(s) /\ s[1] = Head(s)
           /\ Len(Tail(s)) = Len(s) - 1 /\ DOMAIN Tail(s) = 1..(Len(s) - 1)
           /\ \A i \in 1..(Len(s) - 1) : Tail(s)[i] = s[i + 1] /\ i + 1 \in DOMAIN s
  OBVIOUS

LEMMA AppendElements ==
    ASSUME NEW S, NEW s \in Seq(S), NEW e \in S
    PROVE  /\ Len(s) \in Nat /\ Append(s, e) # <<>>
           /\ Len(Append(s, e)) = Len(s) + 1 /\ Append(s, e)[Len(s) + 1] = e
           /\ \A i \in 1..Len(s) : Append(s, e)[i] = s[i]
  OBVIOUS

LEMMA DistinctAppend ==
    ASSUME NEW S, NEW s \in Seq(S), NEW e \in S
    PROVE  /\ Range(Append(s, e)) = Range(s) \cup {e}
           /\ IsInjective(s) /\ e \notin Range(s) => IsInjective(Append(s, e))
<1>1. /\ Len(s) \in Nat /\ DOMAIN s = 1..Len(s)
      /\ DOMAIN Append(s, e) = 1..(Len(s) + 1)
      /\ \A i \in 1..Len(s) : Append(s, e)[i] = s[i]
      /\ Append(s, e)[Len(s) + 1] = e
  OBVIOUS
<1>2. Range(s) \cup {e} \subseteq Range(Append(s, e))
  BY <1>1 DEF Range
<1>3. IsInjective(s) /\ e \notin Range(s) => IsInjective(Append(s, e))
  BY <1>1 DEF IsInjective, Range
<1>4. QED
  BY <1>2, <1>3, RangeAppend

\* Nothing is lost by a permutation.
LEMMA PermutedAll ==
    ASSUME NEW S, NEW s \in Seq(S), NEW t \in SetToSeqs(Range(s))
    PROVE  IsInjective(t) /\ Range(t) = Range(s)
<1> DEFINE T == Range(s)
           n == Cardinality(T)
<1>1. s \in Surjection(1..Len(s), T)
  BY DEF Surjection, Range
<1>2. IsFiniteSet(1..Len(s))
  BY FS_Interval
<1>3. IsFiniteSet(T)
  BY <1>1, <1>2, FS_Surjection
<1>4. n \in Nat
  BY <1>3, FS_CardinalityType
<1>5. t \in [1..n -> T] /\ \A i, j \in 1..n : i # j => t[i] # t[j]
  BY DEF SetToSeqs
<1> HIDE DEF T, n
<1>6. IsInjective(t)
  BY <1>5 DEF IsInjective
<1>7. t \in Injection(1..n, T)
  BY <1>5, <1>6 DEF Injection
<1>8. Cardinality(1..n) = n
  BY <1>4, FS_Interval
<1>9. t \in Surjection(1..n, T)
  BY <1>3, <1>7, <1>8, FS_Injection DEF n
<1>10. Range(t) = T
  BY <1>5, <1>9 DEF Surjection, Range
<1>11. QED
  BY <1>6, <1>10 DEF T

LEMMA OneIsDistinct == \A e : IsInjective(<<e>>) /\ IsInjective(<<>>)
  BY DEF IsInjective

----------------------------------------------------------------------------
(***************************************************************************)
(* The start of a pass, and changes of the backends.                       *)
(***************************************************************************)

LEMMA NotAnswered ==
    ASSUME query.at # "answered"
    PROVE  AnswerInv
  BY DEF AnswerInv, SteadyIsEnough, NoneForgotten, NoBetterSteady, OnePriority, Chosen,
         FellBack

LEMMA NotAnsweredNext ==
    ASSUME query'.at # "answered"
    PROVE  AnswerInv'
  BY DEF AnswerInv, SteadyIsEnough, NoneForgotten, NoBetterSteady, OnePriority, Chosen,
         FellBack

LEMMA InitSInv == Init => SInv
<1>1. SUFFICES ASSUME Init PROVE SInv
  OBVIOUS
<1>2. IInv
  BY <1>1, InitIInv
<1>3. query.at = "idle" /\ query.picked = <<>>
  BY <1>1 DEF Init, NoQuery
<1>4. ScanInv
  BY <1>3, OneIsDistinct
     DEF ScanInv, InProgress, DistinctInv, SortInv, KnownInv, FailoverInv, PoolInv,
         NearestInv, FastestInv, LastInv, WeightedInv, WheelInv
<1>5. QED
  BY <1>2, <1>3, <1>4, NotAnswered DEF SInv

\* A pass begins: every backend is still to be visited.
LEMMA StartScan ==
    ASSUME TypeOK', NEW q \in QueryStates, NEW p \in Passes, query' = Pass(q, p),
           (InProgress => seen.steady \subseteq Healthy)',
           p = "all" => (mode \in SupportedModes => seen.moved \/ Steady = {})'
    PROVE  ScanInv' /\ AnswerInv'
<1>1. /\ query'.at = (IF p = "failover" THEN "sort" ELSE "visit")
      /\ query'.pass = p /\ query'.todo = Order /\ query'.picked = <<>> /\ query'.total = 0
      /\ query'.best = (IF p = "failover" THEN NoPriority ELSE Infinity)
  BY DEF Pass, QueryStates
<1>2. IsInjective(Order) /\ IsInjective(<<>>)
  BY ConstantsAssumption, OneIsDistinct
<1>3. Todo' = Backends /\ Picked' = {}
  BY <1>1, RangeNone DEF Todo, Picked, Backends
<1>4. Steady' \subseteq Backends
  BY DEF TypeOK, SeenStates, Steady
<1>5. DistinctInv' /\ SortInv'
  BY <1>1, <1>2, <1>3 DEF DistinctInv, SortInv
<1>6. (FailoverInv /\ PoolInv /\ NearestInv /\ FastestInv)'
  BY <1>1, <1>3, <1>4 DEF FailoverInv, PoolInv, NearestInv, FastestInv
<1>7. (~seen.moved => LastInv)'
  BY <1>1 DEF LastInv
<1>8. WeightedInv'
  <2> DEFINE f == [i \in 0..0 |-> 0]
  <2>1. Len(query'.picked) = 0
    BY <1>1
  <2>2. f \in [0..Len(query'.picked) -> Nat] /\ f[0] = 0
    BY <2>1
  <2>3. Sums(f, query.picked)'
    BY <2>1, <2>2 DEF Sums
  <2>4. f[Len(query'.picked)] = query'.total
    BY <1>1, <2>1, <2>2
  <2> HIDE DEF f
  <2>5. QED
    BY <2>2, <2>3, <2>4 DEF WeightedInv
<1>9. query'.at # "wheel" /\ query'.at # "answered"
  BY <1>1
<1>10. KnownInv'
  BY <1>6, <1>7, <1>8, <1>9 DEF KnownInv, WheelInv
<1>11. ScanInv'
  BY <1>5, <1>9, <1>10 DEF ScanInv
<1>12. QED
  BY <1>9, <1>11, NotAnsweredNext

LEMMA ArriveSInv ==
    ASSUME SInv, NEW t \in Range(Family), NEW c \in Clients, Arrive(t, c)
    PROVE  SInv'
<1> DEFINE q == [query EXCEPT !.type = t, !.client = c]
           p == FirstPass(mode, c)
<1>1. IInv'
  BY ArriveIInv DEF SInv
<1>2. q \in QueryStates
  BY DEF SInv, IInv, TypeOK, QueryStates
<1>3. p \in Passes /\ (mode \in SupportedModes => p # "all")
  BY PassesTyped, ConstantsAssumption
     DEF SInv, IInv, TypeOK, FirstPass, NearestPass, SupportedModes
<1>4. query' = Pass(q, p)
  BY DEF Arrive
<1>5. Healthy' = Healthy /\ seen'.steady = Healthy /\ mode' = mode
  BY SameBackends DEF SInv, IInv, Arrive, Seen
<1> HIDE DEF q, p
<1>6. ScanInv' /\ AnswerInv'
  BY <1>1, <1>2, <1>3, <1>4, <1>5, StartScan DEF IInv
<1>7. QED
  BY <1>1, <1>6 DEF SInv

\* What a pass knows stays true when fewer backends have stayed healthy.
LEMMA FewerSteady ==
    ASSUME SInv, query' = query, mode' = mode, ~seen'.moved, ~seen.moved,
           seen'.steady \subseteq seen.steady,
           UNCHANGED <<priority, weight, responseTime, distance>>
    PROVE  KnownInv'
<1>1. Steady' \subseteq Steady /\ Todo' = Todo /\ Picked' = Picked
  BY DEF Steady, Todo, Picked
<1>2. \A b : Cost(b)' = Cost(b)
  BY DEF Cost
<1>3. \A b : GetWeight(b)' = GetWeight(b)
  BY DEF GetWeight
<1>4. FailoverInv' /\ PoolInv' /\ NearestInv' /\ FastestInv' /\ LastInv'
  BY <1>1, <1>2
     DEF SInv, ScanInv, KnownInv, FailoverInv, PoolInv, NearestInv, FastestInv, LastInv
<1>5. WeightedInv'
  <2>1. SUFFICES ASSUME query.at = "visit", query.pass = "weighted" PROVE WeightedInv'
    BY DEF WeightedInv
  <2>2. PICK f \in [0..Len(query.picked) -> Nat] :
          Sums(f, query.picked) /\ f[Len(query.picked)] = query.total
    BY <2>1 DEF SInv, ScanInv, KnownInv, WeightedInv
  <2>3. Sums(f, query.picked)'
    BY <1>3, <2>2 DEF Sums
  <2>4. QED
    BY <2>2, <2>3 DEF WeightedInv
<1>6. WheelInv'
  <2>1. SUFFICES ASSUME query.at = "wheel" PROVE WheelInv'
    BY DEF WheelInv
  <2>2. PICK f \in [0..Len(query.picked) -> Nat], n \in 0..Len(query.picked) : Wheel(f, n)
    BY <2>1 DEF SInv, ScanInv, KnownInv, WheelInv
  <2>3. Wheel(f, n)'
    BY <1>3, <2>2 DEF Wheel, Sums
  <2>4. QED
    BY <2>3 DEF WheelInv
<1>7. QED
  BY <1>4, <1>5, <1>6 DEF KnownInv

LEMMA RecordScan ==
    ASSUME SInv, InProgress, NEW moved \in BOOLEAN, Record(moved), mode' = mode,
           query' = query \/ query' = [query EXCEPT !.at = "disturbed"],
           query' # query => query.at = "sort" /\ moved,
           ~moved => UNCHANGED <<priority, weight, responseTime, distance>>
    PROVE  ScanInv' /\ AnswerInv'
<1>1. /\ seen'.moved = (seen.moved \/ moved)
      /\ seen'.steady = seen.steady \cap Healthy'
  BY DEF Record, Seen
<1>2. seen.moved \in BOOLEAN /\ query \in QueryStates
  BY DEF SInv, IInv, TypeOK, SeenStates
<1>3. /\ query'.at = query.at \/ (query'.at = "disturbed" /\ query.at = "sort" /\ moved)
      /\ query'.pass = query.pass /\ query'.picked = query.picked
      /\ query'.todo = query.todo /\ query'.best = query.best
  BY <1>2 DEF QueryStates
<1>4. Todo' = Todo /\ Picked' = Picked
  BY <1>3 DEF Todo, Picked
<1>5. DistinctInv' /\ SortInv'
  BY <1>1, <1>2, <1>3, <1>4 DEF SInv, ScanInv, DistinctInv, SortInv
<1>6. KnownInv'
  <2>1. CASE moved \/ seen.moved
    BY <1>1, <2>1 DEF KnownInv
  <2>2. CASE ~moved /\ ~seen.moved
    BY <1>1, <2>2, FewerSteady
  <2>3. QED
    BY <2>1, <2>2
<1>7. ScanInv'
  BY <1>1, <1>3, <1>5, <1>6 DEF SInv, ScanInv, InProgress
<1>8. query'.at # "answered"
  BY <1>3 DEF InProgress
<1>9. QED
  BY <1>7, <1>8, NotAnsweredNext

LEMMA ChangeSInv ==
    ASSUME SInv, Change
    PROVE  SInv'
<1>1. IInv'
  BY PublishIInv, UpdateIInv DEF SInv, Change
<1>2. ScanInv' /\ AnswerInv'
  <2>1. ASSUME NEW b \in Backends, NEW a \in BOOLEAN, NEW rt \in ResponseTimes,
               Publish(b, a, rt)
        PROVE  ScanInv' /\ AnswerInv'
    <3> DEFINE moved == responseTime' # responseTime
    <3>1. moved \in BOOLEAN /\ Record(moved) /\ InProgress /\ mode' = mode /\ query' = query
      BY <2>1 DEF Publish
    <3>2. ~moved => UNCHANGED <<priority, weight, responseTime, distance>>
      BY <2>1 DEF Publish
    <3> HIDE DEF moved
    <3>3. QED
      BY <3>1, <3>2, RecordScan
  <2>2. ASSUME NEW b \in Backends, NEW e \in Switches, NEW p \in Priorities,
               NEW w \in Weights, NEW d \in Distances, NEW l \in BackendLabels,
               UpdateBackend(b, e, p, w, d, l)
        PROVE  ScanInv' /\ AnswerInv'
    <3> DEFINE moved == <<priority, weight, distance, label>>' # <<priority, weight, distance, label>>
    <3>1. moved \in BOOLEAN /\ Record(moved) /\ InProgress /\ mode' = mode
      BY <2>2 DEF UpdateBackend
    <3>2. ~moved => UNCHANGED <<priority, weight, responseTime, distance>>
      BY <2>2 DEF UpdateBackend
    <3>3. /\ query' = query \/ query' = [query EXCEPT !.at = "disturbed"]
          /\ query' # query => query.at = "sort" /\ moved
      BY <2>2 DEF UpdateBackend
    <3> HIDE DEF moved
    <3>4. QED
      BY <3>1, <3>2, <3>3, RecordScan
  <2>3. QED
    BY <2>1, <2>2 DEF Change
<1>3. QED
  BY <1>1, <1>2 DEF SInv

----------------------------------------------------------------------------
(***************************************************************************)
(* Visits.                                                                 *)
(***************************************************************************)

\* The visit of the current backend.
AVisit ==
    /\ SInv
    /\ query.at = "visit" /\ query.todo # <<>>
    /\ UNCHANGED <<mode, backendVars, seen>>
    /\ query'.at = "visit" /\ query'.pass = query.pass /\ query'.type = query.type
    /\ query'.todo \in {Tail(query.todo), <<>>}
    /\ query'.picked \in {query.picked, Append(query.picked, Current), <<Current>>}

LEMMA VisitFacts ==
    ASSUME AVisit
    PROVE  /\ Current \in Backends /\ Current \in Todo /\ Picked \subseteq Backends
           /\ Todo \subseteq Backends
           /\ Steady' = Steady /\ Steady \subseteq Healthy
           /\ \A b \in Steady : b = Current => Candidate
           /\ \A b : Cost(b)' = Cost(b)
           /\ query'.todo = Tail(query.todo) => Todo = {Current} \cup Todo' /\ Current \notin Todo'
           /\ query'.todo = <<>> => Todo' = {}
           /\ query'.picked = query.picked => Picked' = Picked
           /\ query'.picked = Append(query.picked, Current) =>
                Picked' = Picked \cup {Current} /\ query'.picked # <<>>
           /\ query'.picked = <<Current>> => Picked' = {Current} /\ query'.picked # <<>>
<1>1. query.todo \in Seq(Backends) /\ query.picked \in Seq(Backends)
  BY DEF AVisit, SInv, IInv, TypeOK, QueryStates
<1>2. /\ Current \in Backends /\ Todo = {Current} \cup Range(Tail(query.todo))
      /\ Current \notin Range(Tail(query.todo))
  BY <1>1, DistinctTail, RangeTail
     DEF AVisit, SInv, ScanInv, DistinctInv, Current, Todo
<1>3. Todo \subseteq Backends /\ Picked \subseteq Backends
  BY <1>1 DEF Todo, Picked, Range
<1>4. Steady' = Steady /\ Steady \subseteq Healthy
  BY DEF AVisit, Steady, SInv, ScanInv, InProgress
<1>5. \A b \in Steady : b = Current => Candidate
  BY <1>4 DEF Candidate, Steady
<1>6. \A b : Cost(b)' = Cost(b)
  BY DEF Cost, AVisit, backendVars
<1>7. query'.todo = <<>> => Todo' = {}
  <2>1. Range(<<>>) = {}
    BY RangeNone
  <2>2. QED
    BY <2>1 DEF Todo
<1>8. query'.picked = Append(query.picked, Current) =>
        Picked' = Picked \cup {Current} /\ query'.picked # <<>>
  <2>1. /\ Range(Append(query.picked, Current)) = Range(query.picked) \cup {Current}
        /\ Append(query.picked, Current) # <<>>
    BY <1>1, <1>2, DistinctAppend, AppendElements
  <2>2. QED
    BY <2>1 DEF Picked
<1>9. query'.picked = <<Current>> => Picked' = {Current} /\ query'.picked # <<>>
  BY <1>2, RangeOne DEF Picked
<1>10. query'.todo = Tail(query.todo) =>
         Todo = {Current} \cup Todo' /\ Current \notin Todo'
  BY <1>2 DEF Todo
<1>11. query'.picked = query.picked => Picked' = Picked
  BY DEF Picked
<1>12. QED
  BY <1>2, <1>3, <1>4, <1>5, <1>6, <1>7, <1>8, <1>9, <1>10, <1>11

LEMMA VisitDistinct ==
    ASSUME AVisit
    PROVE  DistinctInv'
<1>1. query.todo \in Seq(Backends) /\ query.picked \in Seq(Backends)
  BY DEF AVisit, SInv, IInv, TypeOK, QueryStates
<1>2. /\ IsInjective(query.todo) /\ IsInjective(query.picked) /\ Todo \cap Picked = {}
      /\ query.todo # <<>>
  BY DEF AVisit, SInv, ScanInv, DistinctInv
<1>3. Current \in Backends /\ Current \in Todo
  BY VisitFacts
<1>4. IsInjective(query'.todo)
  <2>1. IsInjective(Tail(query.todo)) /\ IsInjective(<<>>)
    BY <1>1, <1>2, DistinctTail, OneIsDistinct
  <2>2. QED
    BY <2>1 DEF AVisit
<1>5. IsInjective(query'.picked)
  <2>1. Current \notin Range(query.picked)
    BY <1>2, <1>3 DEF Picked
  <2>2. IsInjective(Append(query.picked, Current)) /\ IsInjective(<<Current>>)
    BY <1>1, <1>2, <1>3, <2>1, DistinctAppend, OneIsDistinct
  <2>3. QED
    BY <1>2, <2>2 DEF AVisit
<1>6. Todo' \cap Picked' = {}
  BY <1>2, VisitFacts DEF AVisit
<1>7. QED
  BY <1>4, <1>5, <1>6 DEF DistinctInv

LEMMA VisitScan ==
    ASSUME AVisit,
           ~seen.moved =>
               /\ FailoverInv' /\ PoolInv' /\ NearestInv' /\ FastestInv'
               /\ LastInv' /\ WeightedInv'
    PROVE  ScanInv' /\ AnswerInv'
<1>1. DistinctInv'
  BY VisitDistinct
<1>2. query'.at = "visit" /\ seen' = seen
  BY DEF AVisit
<1>3. Steady' = Steady /\ Healthy' = Healthy /\ seen.steady \subseteq Healthy
  BY SameBackends, VisitFacts DEF AVisit, SInv, IInv, ScanInv, InProgress
<1>4. KnownInv'
  BY <1>2 DEF KnownInv, WheelInv
<1>5. ScanInv'
  BY <1>1, <1>2, <1>3, <1>4 DEF ScanInv, SortInv
<1>6. QED
  BY <1>2, <1>5, NotAnsweredNext

\* The visits of one mode leave the invariants of the others alone.
LEMMA OtherPasses ==
    ASSUME query'.at = "visit"
    PROVE  /\ query'.pass # "failover" => FailoverInv'
           /\ query'.pass \notin {"roundrobin", "random", "weighted"} => PoolInv'
           /\ query'.pass # "nearest" => NearestInv'
           /\ query'.pass # "fastest" => FastestInv'
           /\ query'.pass # "all" => LastInv'
           /\ query'.pass # "weighted" => WeightedInv'
  BY DEF FailoverInv, PoolInv, NearestInv, FastestInv, LastInv, WeightedInv

LEMMA FailoverScan ==
    ASSUME SInv, VisitFailover
    PROVE  ScanInv' /\ AnswerInv'
<1> DEFINE min == IF query.best = NoPriority THEN priority[Current] ELSE query.best
<1>1. /\ query.at = "visit" /\ query.todo # <<>> /\ query.pass = "failover"
      /\ UNCHANGED <<mode, backendVars, seen>>
      /\ query' = IF ~Candidate THEN Passed(query)
                  ELSE IF priority[Current] = min
                  THEN [Taken(query) EXCEPT !.best = min]
                  ELSE [query EXCEPT !.todo = <<>>]
  BY DEF VisitFailover, Visiting
<1>2. query \in QueryStates
  BY DEF SInv, IInv, TypeOK
<1>3. /\ query'.at = "visit" /\ query'.pass = "failover" /\ query'.type = query.type
      /\ ~Candidate => /\ query'.todo = Tail(query.todo) /\ query'.picked = query.picked
                       /\ query'.best = query.best
      /\ Candidate /\ priority[Current] = min =>
           /\ query'.todo = Tail(query.todo)
           /\ query'.picked = Append(query.picked, Current) /\ query'.best = min
      /\ Candidate /\ priority[Current] # min =>
           /\ query'.todo = <<>> /\ query'.picked = query.picked /\ query'.best = query.best
  BY <1>1, <1>2 DEF QueryStates, Passed, Taken, Current
<1>4. AVisit
  BY <1>1, <1>3 DEF AVisit
<1>5. SUFFICES ASSUME ~seen.moved PROVE FailoverInv'
  BY <1>3, <1>4, OtherPasses, VisitScan
<1>6. /\ \A i, j \in DOMAIN query.todo :
           i < j => priority[query.todo[i]] <= priority[query.todo[j]]
      /\ \A a \in Picked, b \in Todo : priority[a] <= priority[b]
      /\ query.best # NoPriority => \E a \in Picked : priority[a] = query.best
      /\ PrioritiesUnmarked => \A a \in Picked : priority[a] = query.best
      /\ \A b \in Steady : b \in Todo \cup Picked \/ \E a \in Picked : priority[a] < priority[b]
  BY <1>1, <1>5 DEF SInv, ScanInv, KnownInv, FailoverInv
<1>7. priority' = priority /\ \A b \in Backends : priority[b] \in Int
  BY <1>1, ModeTyped DEF SInv, IInv, TypeOK, backendVars
<1>8. query.todo \in Seq(Backends)
  BY <1>2 DEF QueryStates
<1>9. \A b \in Todo : priority[Current] <= priority[b]
  <2>1. SUFFICES ASSUME NEW i \in DOMAIN query.todo
                 PROVE  priority[query.todo[1]] <= priority[query.todo[i]]
    BY <1>1, <1>8 DEF Todo, Range, Current
  <2>2. 1 \in DOMAIN query.todo /\ DOMAIN query.todo = 1..Len(query.todo)
    BY <1>1, <1>8
  <2>3. query.todo[i] \in Backends /\ (i = 1 \/ 1 < i)
    BY <1>8, <2>2
  <2>4. QED
    BY <1>6, <1>7, <2>2, <2>3
<1>10. \A i, j \in DOMAIN query'.todo :
         i < j => priority[query'.todo[i]] <= priority[query'.todo[j]]
  <2>1. CASE query'.todo = Tail(query.todo)
    <3> DEFINE n == Len(query.todo)
    <3>1. /\ n \in Nat /\ DOMAIN query.todo = 1..n /\ DOMAIN query'.todo = 1..(n - 1)
          /\ \A i \in 1..(n - 1) : query'.todo[i] = query.todo[i + 1] /\ i + 1 \in 1..n
      <4>1. query.todo \in Seq(Backends) /\ query.todo # <<>>
        BY <1>1, <1>8
      <4>2. QED
        BY <2>1, <4>1, TailElements
    <3> HIDE DEF n
    <3>2. SUFFICES ASSUME NEW i \in 1..(n - 1), NEW j \in 1..(n - 1), i < j
                   PROVE  priority[query'.todo[i]] <= priority[query'.todo[j]]
      BY <3>1
    <3>3. i + 1 < j + 1
      BY <3>1, <3>2
    <3>4. priority[query.todo[i + 1]] <= priority[query.todo[j + 1]]
      BY <1>6, <3>1, <3>3
    <3>5. QED
      BY <3>1, <3>4
  <2>2. CASE query'.todo = <<>>
    BY <2>2
  <2>3. QED
    BY <1>3, <2>1, <2>2
<1>11. CASE ~Candidate
  BY <1>3, <1>4, <1>6, <1>7, <1>10, <1>11, VisitFacts DEF FailoverInv
<1>12. CASE Candidate /\ priority[Current] = min
  <2>1. /\ Todo = {Current} \cup Todo' /\ Picked' = Picked \cup {Current} /\ Steady' = Steady
        /\ query'.best = priority[Current] /\ Current \in Backends /\ Picked \subseteq Backends
    BY <1>3, <1>4, <1>12, VisitFacts
  <2>2. PrioritiesUnmarked => \A a \in Picked : priority[a] = priority[Current]
    <3>1. ASSUME PrioritiesUnmarked, NEW a \in Picked
          PROVE  priority[a] = priority[Current]
      <4>1. priority[a] = query.best
        BY <1>6, <3>1
      <4>2. priority[a] \in Ranges[mode].priority /\ mode \in Modes
        BY <2>1, <3>1 DEF SInv, IInv, TypeOK, Priorities
      <4>3. query.best # NoPriority
        BY <3>1, <4>1, <4>2 DEF PrioritiesUnmarked
      <4>4. QED
        BY <1>12, <4>1, <4>3
    <3>2. QED
      BY <3>1
  <2>3. /\ \A a \in Picked', b \in Todo' : priority[a] <= priority[b]
        /\ \E a \in Picked' : priority[a] = query'.best
        /\ PrioritiesUnmarked => \A a \in Picked' : priority[a] = query'.best
        /\ \A b \in Steady :
             b \in Todo' \cup Picked' \/ \E a \in Picked' : priority[a] < priority[b]
    BY <1>6, <1>9, <2>1, <2>2
  <2>4. QED
    BY <1>7, <1>10, <2>1, <2>3 DEF FailoverInv
<1>13. CASE Candidate /\ priority[Current] # min
  <2>1. /\ Todo' = {} /\ Picked' = Picked /\ Steady' = Steady /\ query'.best = query.best
        /\ Current \in Todo /\ Todo \subseteq Backends /\ Picked \subseteq Backends
    BY <1>3, <1>4, <1>13, VisitFacts
  <2>2. query.best # NoPriority /\ priority[Current] # query.best
    BY <1>13
  <2>3. PICK a \in Picked : priority[a] = query.best
    BY <1>6, <2>2
  <2>4. priority[a] < priority[Current]
    BY <1>6, <1>7, <2>1, <2>2, <2>3
  <2>5. \A b \in Todo : priority[a] < priority[b]
    BY <1>7, <1>9, <2>1, <2>4
  <2>6. \A b \in Steady : b \in Picked \/ \E x \in Picked : priority[x] < priority[b]
    BY <1>6, <2>5
  <2>7. QED
    BY <1>6, <1>7, <1>10, <2>1, <2>6 DEF FailoverInv
<1>14. QED
  BY <1>11, <1>12, <1>13

\* The fields of a query after a visit that takes the backend, or does not.
LEMMA VisitFields ==
    ASSUME query \in QueryStates
    PROVE  /\ Passed(query).at = query.at /\ Passed(query).pass = query.pass
           /\ Passed(query).type = query.type /\ Passed(query).todo = Tail(query.todo)
           /\ Passed(query).picked = query.picked /\ Passed(query).best = query.best
           /\ Passed(query).total = query.total
           /\ Taken(query).at = query.at /\ Taken(query).pass = query.pass
           /\ Taken(query).type = query.type /\ Taken(query).todo = Tail(query.todo)
           /\ Taken(query).picked = Append(query.picked, Current)
           /\ Taken(query).best = query.best
           /\ \A v : /\ Improved(query, v).at = query.at
                     /\ Improved(query, v).pass = query.pass
                     /\ Improved(query, v).type = query.type
                     /\ Improved(query, v).todo = Tail(query.todo)
                     /\ Improved(query, v).picked = <<Current>>
                     /\ Improved(query, v).best = v
  BY DEF QueryStates, Passed, Taken, Improved, Current

LEMMA PoolScan ==
    ASSUME SInv, VisitPool
    PROVE  ScanInv' /\ AnswerInv'
<1>1. /\ query.at = "visit" /\ query.todo # <<>> /\ query.pass \in {"roundrobin", "random"}
      /\ UNCHANGED <<mode, backendVars, seen>>
      /\ query' = IF Candidate THEN Taken(query) ELSE Passed(query)
  BY DEF VisitPool, Visiting
<1>2. query \in QueryStates
  BY DEF SInv, IInv, TypeOK
<1>3. /\ query'.at = "visit" /\ query'.pass = query.pass /\ query'.type = query.type
      /\ query'.todo = Tail(query.todo)
      /\ query'.picked = IF Candidate THEN Append(query.picked, Current) ELSE query.picked
  BY <1>1, <1>2, VisitFields
<1>4. AVisit
  BY <1>1, <1>3 DEF AVisit
<1>5. SUFFICES ASSUME ~seen.moved PROVE PoolInv'
  BY <1>1, <1>3, <1>4, OtherPasses, VisitScan
<1>6. Steady \subseteq Todo \cup Picked
  BY <1>1, <1>5 DEF SInv, ScanInv, KnownInv, PoolInv
<1>7. QED
  BY <1>3, <1>4, <1>6, VisitFacts DEF PoolInv

LEMMA WeightedScan ==
    ASSUME SInv, VisitWeighted
    PROVE  ScanInv' /\ AnswerInv'
<1>1. /\ query.at = "visit" /\ query.todo # <<>> /\ query.pass = "weighted"
      /\ UNCHANGED <<mode, backendVars, seen>>
      /\ query' = IF Candidate
                  THEN [Taken(query) EXCEPT !.total = @ + GetWeight(Current)]
                  ELSE Passed(query)
  BY DEF VisitWeighted, Visiting
<1>2. query \in QueryStates
  BY DEF SInv, IInv, TypeOK
<1>3. /\ query'.at = "visit" /\ query'.pass = query.pass /\ query'.type = query.type
      /\ query'.todo = Tail(query.todo)
      /\ query'.picked = IF Candidate THEN Append(query.picked, Current) ELSE query.picked
      /\ query'.total = IF Candidate THEN query.total + GetWeight(Current) ELSE query.total
  BY <1>1, <1>2 DEF QueryStates, Passed, Taken, Current
<1>4. AVisit
  BY <1>1, <1>3 DEF AVisit
<1>5. SUFFICES ASSUME ~seen.moved PROVE PoolInv' /\ WeightedInv'
  BY <1>1, <1>3, <1>4, OtherPasses, VisitScan
<1>6. Steady \subseteq Todo \cup Picked
  BY <1>1, <1>5 DEF SInv, ScanInv, KnownInv, PoolInv
<1>7. PoolInv'
  BY <1>3, <1>4, <1>6, VisitFacts DEF PoolInv
<1>8. PICK f \in [0..Len(query.picked) -> Nat] :
        Sums(f, query.picked) /\ f[Len(query.picked)] = query.total
  BY <1>1, <1>5 DEF SInv, ScanInv, KnownInv, WeightedInv
<1>9. \A b : GetWeight(b)' = GetWeight(b)
  BY <1>1 DEF GetWeight, backendVars
<1>10. CASE ~Candidate
  <2>1. query'.picked = query.picked /\ query'.total = query.total
    BY <1>3, <1>10
  <2>2. Sums(f, query.picked)'
    BY <1>1, <1>8, <2>1 DEF Sums, GetWeight, backendVars
  <2>3. QED
    BY <1>7, <1>8, <2>1, <2>2 DEF WeightedInv
<1>11. CASE Candidate
  <2> DEFINE n == Len(query.picked)
             w == GetWeight(Current)
  <2>1. query.picked \in Seq(Backends) /\ n \in Nat /\ Current \in Backends
    BY <1>2, <1>4, VisitFacts DEF QueryStates
  <2>2. w \in Nat
    <3>1. weight[Current] \in Int
      BY <2>1, ModeTyped DEF SInv, IInv, TypeOK
    <3>2. QED
      BY <3>1 DEF GetWeight
  <2>3. query'.picked = Append(query.picked, Current) /\ query'.total = query.total + w
    BY <1>3, <1>11
  <2>4. /\ Len(query'.picked) = n + 1 /\ query'.picked[n + 1] = Current
        /\ \A i \in 1..n : query'.picked[i] = query.picked[i]
    BY <2>1, <2>3, AppendElements
  <2> HIDE DEF w
  <2>5. PICK g : g = [i \in 0..(n + 1) |-> IF i = n + 1 THEN f[n] + w ELSE f[i]]
    OBVIOUS
  <2>6. /\ g \in [0..(n + 1) -> Nat]
        /\ g[0] = 0 /\ g[n + 1] = f[n] + w /\ g[n] = f[n]
        /\ \A i \in 1..n : g[i] = g[i - 1] + GetWeight(query.picked[i])
    <3>1. f \in [0..n -> Nat] /\ f[0] = 0
          /\ \A i \in 1..n : f[i] = f[i - 1] + GetWeight(query.picked[i])
      BY <1>8 DEF Sums
    <3> HIDE DEF n
    <3>2. \A i \in 0..n : g[i] = f[i]
      BY <2>1, <2>5
    <3>3. g \in [0..(n + 1) -> Nat] /\ g[n + 1] = f[n] + w
      BY <2>1, <2>2, <2>5, <3>1
    <3>4. \A i \in 1..n : i \in 0..n /\ i - 1 \in 0..n
      BY <2>1
    <3>5. QED
      BY <2>1, <3>1, <3>2, <3>3, <3>4
  <2>7. \A i \in 1..(n + 1) : g[i] = g[i - 1] + GetWeight(query'.picked[i])
    <3>1. ASSUME NEW i \in 1..(n + 1)
          PROVE  g[i] = g[i - 1] + GetWeight(query'.picked[i])
      <4>1. CASE i \in 1..n
        BY <2>4, <2>6, <4>1
      <4>2. CASE i = n + 1
        BY <2>1, <2>4, <2>6, <4>2 DEF w
      <4>3. QED
        BY <2>1, <4>1, <4>2
    <3>2. QED
      BY <3>1
  <2>8. Sums(g, query.picked)'
    BY <1>1, <2>4, <2>6, <2>7 DEF Sums, GetWeight, backendVars
  <2>9. g \in [0..Len(query'.picked) -> Nat] /\ g[Len(query'.picked)] = query'.total
    BY <1>8, <2>3, <2>4, <2>6
  <2>10. QED
    BY <1>7, <2>8, <2>9 DEF WeightedInv
<1>12. QED
  BY <1>10, <1>11

LEMMA NearestScan ==
    ASSUME SInv, VisitNearest
    PROVE  ScanInv' /\ AnswerInv'
<1> DEFINE d == distance[Current]
<1>1. /\ query.at = "visit" /\ query.todo # <<>> /\ query.pass = "nearest"
      /\ UNCHANGED <<mode, backendVars, seen>>
      /\ query' = IF Candidate /\ d < query.best THEN Improved(query, d) ELSE Passed(query)
  BY DEF VisitNearest, Visiting
<1>2. query \in QueryStates
  BY DEF SInv, IInv, TypeOK
<1>3. /\ query'.at = "visit" /\ query'.pass = query.pass /\ query'.type = query.type
      /\ query'.todo = Tail(query.todo)
      /\ Candidate /\ d < query.best => query'.picked = <<Current>> /\ query'.best = d
      /\ ~(Candidate /\ d < query.best) =>
           query'.picked = query.picked /\ query'.best = query.best
  BY <1>1, <1>2, VisitFields
<1>4. AVisit
  BY <1>1, <1>3 DEF AVisit
<1>5. SUFFICES ASSUME ~seen.moved PROVE NearestInv'
  BY <1>1, <1>3, <1>4, OtherPasses, VisitScan
<1>6. /\ \A a \in Picked : distance[a] = query.best
      /\ \A b \in Steady : b \in Todo \/ query.best <= distance[b]
  BY <1>1, <1>5 DEF SInv, ScanInv, KnownInv, NearestInv
<1>7. \A b \in Backends : distance[b] \in Int
  BY ModeTyped, ConstantsAssumption DEF SInv, IInv, TypeOK
<1>8. query.best \in Int
  BY <1>2, ModeTyped, ConstantsAssumption DEF QueryStates, NoPriority, SInv, IInv, TypeOK
<1>9. Steady \subseteq Backends
  BY DEF SInv, IInv, TypeOK, SeenStates, Steady
<1>10. distance' = distance
  BY <1>1 DEF backendVars
<1>11. CASE Candidate /\ d < query.best
  BY <1>3, <1>4, <1>6, <1>7, <1>8, <1>9, <1>10, <1>11, VisitFacts DEF NearestInv
<1>12. CASE ~(Candidate /\ d < query.best)
  BY <1>3, <1>4, <1>6, <1>7, <1>8, <1>9, <1>10, <1>12, VisitFacts DEF NearestInv
<1>13. QED
  BY <1>11, <1>12

LEMMA FastestScan ==
    ASSUME SInv, VisitFastest
    PROVE  ScanInv' /\ AnswerInv'
<1> DEFINE rt == responseTime[Current]
           first == Candidate /\ rt = 0 /\ query.picked = <<>>
           faster == Candidate /\ rt # 0 /\ rt < query.best
<1>1. /\ query.at = "visit" /\ query.todo # <<>> /\ query.pass = "fastest"
      /\ UNCHANGED <<mode, backendVars, seen>>
      /\ query' = IF first THEN Taken(query)
                  ELSE IF faster THEN Improved(query, rt) ELSE Passed(query)
  BY DEF VisitFastest, Visiting
<1>2. query \in QueryStates
  BY DEF SInv, IInv, TypeOK
<1>3. /\ query'.at = "visit" /\ query'.pass = query.pass /\ query'.type = query.type
      /\ query'.todo = Tail(query.todo)
      /\ first => query'.picked = Append(query.picked, Current) /\ query'.best = query.best
      /\ faster => query'.picked = <<Current>> /\ query'.best = rt
      /\ ~first /\ ~faster => query'.picked = query.picked /\ query'.best = query.best
  BY <1>1, <1>2, VisitFields
<1>4. AVisit
  BY <1>1, <1>3 DEF AVisit
<1>5. SUFFICES ASSUME ~seen.moved PROVE FastestInv'
  BY <1>1, <1>3, <1>4, OtherPasses, VisitScan
<1>6. /\ \A a \in Picked : Cost(a) = query.best
      /\ query.picked = <<>> => query.best = Infinity
      /\ \A b \in Steady : b \in Todo \/ (query.picked # <<>> /\ query.best <= Cost(b))
  BY <1>1, <1>5 DEF SInv, ScanInv, KnownInv, FastestInv
<1>7. /\ Infinity \in Nat /\ query.best \in Int
      /\ \A b \in Backends : responseTime[b] \in 0..(Infinity - 1)
  BY <1>2, ModeTyped, ConstantsAssumption DEF QueryStates, NoPriority, SInv, IInv, TypeOK
<1>8. \A b \in Backends :
        /\ Cost(b) = (IF responseTime[b] = 0 THEN Infinity ELSE responseTime[b])
        /\ Cost(b) \in Int /\ Cost(b) <= Infinity
  BY <1>1, <1>7 DEF Cost
<1>9. query.picked # <<>> => query.best <= Infinity
  <2>1. SUFFICES ASSUME query.picked # <<>> PROVE query.best <= Infinity
    OBVIOUS
  <2>2. query.picked[1] \in Picked
    BY <1>2, <2>1 DEF QueryStates, Picked, Range
  <2>3. QED
    BY <1>4, <1>6, <1>8, <2>2, VisitFacts
<1>10. /\ Steady' = Steady /\ Steady \subseteq Backends /\ Picked \subseteq Backends
       /\ \A b : Cost(b)' = Cost(b)
       /\ Todo = {Current} \cup Todo' /\ Current \in Backends
       /\ Current \in Steady => Candidate
       /\ query'.picked = query.picked => Picked' = Picked
       /\ query'.picked = Append(query.picked, Current) =>
            Picked' = Picked \cup {Current} /\ query'.picked # <<>>
       /\ query'.picked = <<Current>> => Picked' = {Current} /\ query'.picked # <<>>
  <2>1. Steady \subseteq Backends
    BY DEF SInv, IInv, TypeOK, SeenStates, Steady
  <2> HIDE DEF rt, first, faster
  <2>2. QED
    BY <1>3, <1>4, <2>1, VisitFacts
<1> HIDE DEF rt
<1>11. CASE first
  <2>1. Picked' = {Current} /\ query'.picked # <<>> /\ query'.best = Infinity
    <3>1. Range(<<>>) = {}
      BY RangeNone
    <3>2. QED
      BY <1>3, <1>6, <1>10, <1>11, <3>1 DEF Picked
  <2>2. Cost(Current) = Infinity
    BY <1>8, <1>10, <1>11 DEF rt
  <2>3. \A b \in Steady : b \in Todo' \/ query'.best <= Cost(b)
    BY <1>6, <1>7, <1>10, <1>11, <2>1, <2>2
  <2>4. QED
    BY <1>10, <2>1, <2>2, <2>3 DEF FastestInv
<1>12. CASE faster
  <2>1. Picked' = {Current} /\ query'.picked # <<>> /\ query'.best = rt
    BY <1>3, <1>10, <1>12
  <2>2. Cost(Current) = rt /\ rt \in Int
    BY <1>8, <1>10, <1>12 DEF rt
  <2>3. \A b \in Steady : b \in Todo' \/ query'.best <= Cost(b)
    BY <1>6, <1>7, <1>8, <1>10, <1>12, <2>1, <2>2
  <2>4. QED
    BY <1>10, <2>1, <2>2, <2>3 DEF FastestInv
<1>13. CASE ~first /\ ~faster
  <2>1. Picked' = Picked /\ query'.picked = query.picked /\ query'.best = query.best
    BY <1>3, <1>10, <1>13
  <2>2. Candidate => query.picked # <<>> /\ query.best <= Cost(Current)
    BY <1>6, <1>7, <1>8, <1>9, <1>10, <1>13 DEF rt
  <2>3. \A b \in Steady : b \in Todo' \/ (query.picked # <<>> /\ query.best <= Cost(b))
    BY <1>6, <1>10, <2>2
  <2>4. QED
    BY <1>6, <1>10, <2>1, <2>3 DEF FastestInv
<1>14. QED
  BY <1>11, <1>12, <1>13

\* The passes of which only the last visit matters, or that promise nothing.
LEMMA PlainScan ==
    ASSUME AVisit, query.pass \in {"country", "city", "asn", "location", "all"}
    PROVE  ScanInv' /\ AnswerInv'
<1>1. query'.at = "visit" /\ query'.pass = query.pass /\ query.at = "visit"
      /\ query'.pass \notin {"failover", "roundrobin", "random", "weighted", "nearest",
                             "fastest"}
  BY DEF AVisit
<1>2. ~seen.moved => LastInv'
  BY <1>1, VisitFacts DEF AVisit, SInv, ScanInv, KnownInv, LastInv
<1>3. QED
  BY <1>1, <1>2, OtherPasses, VisitScan

LEMMA LabelledScan ==
    ASSUME SInv, VisitLabelled
    PROVE  ScanInv' /\ AnswerInv'
<1>1. /\ query.at = "visit" /\ query.todo # <<>> /\ query.pass \in {"country", "city", "asn"}
      /\ UNCHANGED <<mode, backendVars, seen>>
      /\ \/ query' = [Taken(query) EXCEPT !.todo = <<>>]
         \/ query' = Passed(query)
  BY DEF VisitLabelled, Visiting
<1>2. query \in QueryStates
  BY DEF SInv, IInv, TypeOK
<1>3. /\ query'.at = "visit" /\ query'.pass = query.pass /\ query'.type = query.type
      /\ \/ query'.todo = <<>> /\ query'.picked = Append(query.picked, Current)
         \/ query'.todo = Tail(query.todo) /\ query'.picked = query.picked
  BY <1>1, <1>2 DEF QueryStates, Passed, Taken, Current
<1>4. AVisit
  BY <1>1, <1>3 DEF AVisit
<1>5. QED
  BY <1>1, <1>4, PlainScan

LEMMA CollectingScan ==
    ASSUME SInv, VisitLocated \/ VisitAny
    PROVE  ScanInv' /\ AnswerInv'
<1>1. /\ query.at = "visit" /\ query.todo # <<>> /\ query.pass \in {"location", "all"}
      /\ UNCHANGED <<mode, backendVars, seen>>
      /\ query' = Taken(query) \/ query' = Passed(query)
  BY DEF VisitLocated, VisitAny, Visiting
<1>2. query \in QueryStates
  BY DEF SInv, IInv, TypeOK
<1>3. /\ query'.at = "visit" /\ query'.pass = query.pass /\ query'.type = query.type
      /\ query'.todo = Tail(query.todo)
      /\ query'.picked \in {query.picked, Append(query.picked, Current)}
  BY <1>1, <1>2, VisitFields
<1>4. AVisit
  BY <1>1, <1>3 DEF AVisit
<1>5. QED
  BY <1>1, <1>4, PlainScan

LEMMA VisitSInv ==
    ASSUME SInv, Visit
    PROVE  SInv'
<1>1. IInv'
  BY VisitIInv DEF SInv
<1>2. ScanInv' /\ AnswerInv'
  BY FailoverScan, PoolScan, WeightedScan, NearestScan, FastestScan, LabelledScan,
     CollectingScan DEF Visit
<1>3. QED
  BY <1>1, <1>2 DEF SInv

----------------------------------------------------------------------------
(***************************************************************************)
(* The sort, the answers and the wheel.                                    *)
(***************************************************************************)

LEMMA SortSInv ==
    ASSUME SInv, Sort
    PROVE  SInv'
<1>1. PICK order \in SetToSeqs(Backends) :
        /\ query.at = "sort" =>
             \A i, j \in DOMAIN order : i < j => priority[order[i]] <= priority[order[j]]
        /\ query' = [query EXCEPT !.at = "visit", !.todo = order]
  BY DEF Sort
<1>2. IsInjective(order) /\ Range(order) = Backends
  BY <1>1, OrderTyped, PermutedAll DEF Backends
<1>3. query \in QueryStates /\ query.at \in {"sort", "disturbed"}
      /\ UNCHANGED <<mode, backendVars, seen>>
  BY DEF SInv, IInv, TypeOK, Sort
<1>4. /\ query.pass = "failover" /\ query.picked = <<>> /\ query.best = NoPriority
      /\ query.at = "disturbed" => seen.moved
  BY <1>3 DEF SInv, ScanInv, SortInv
<1>5. /\ query'.at = "visit" /\ query'.pass = "failover" /\ query'.picked = <<>>
      /\ query'.best = NoPriority /\ query'.todo = order /\ query'.type = query.type
  BY <1>1, <1>3, <1>4 DEF QueryStates
<1>6. Todo' = Backends /\ Picked' = {}
  BY <1>2, <1>5, RangeNone DEF Todo, Picked
<1>7. Steady' \subseteq Backends /\ Healthy' = Healthy
  BY <1>3, SameBackends DEF SInv, IInv, TypeOK, SeenStates, Steady
<1>8. DistinctInv' /\ SortInv'
  BY <1>2, <1>5, <1>6, OneIsDistinct DEF DistinctInv, SortInv
<1>9. ~seen.moved => FailoverInv'
  <2>1. SUFFICES ASSUME ~seen.moved PROVE FailoverInv'
    OBVIOUS
  <2>2. \A i, j \in DOMAIN order : i < j => priority[order[i]] <= priority[order[j]]
    BY <1>1, <1>3, <1>4, <2>1
  <2>3. priority' = priority
    BY <1>3 DEF backendVars
  <2>4. QED
    BY <1>5, <1>6, <1>7, <2>2, <2>3 DEF FailoverInv
<1>10. KnownInv'
  BY <1>3, <1>5, <1>9, OtherPasses DEF KnownInv, WheelInv
<1>11. ScanInv'
  BY <1>3, <1>5, <1>7, <1>8, <1>10 DEF SInv, ScanInv, InProgress
<1>12. AnswerInv'
  BY <1>5, NotAnsweredNext
<1>13. IInv'
  BY SortIInv DEF SInv
<1>14. QED
  BY <1>11, <1>12, <1>13 DEF SInv

\* The answer is what the pass owes to the backends that stayed healthy.
Right(addresses) ==
    /\ query.pass = "all" /\ mode \in SupportedModes => Steady = {}
    /\ query.pass = "random" => Steady \subseteq Range(addresses)
    /\ query.pass = "failover" =>
         {b \in Steady : \A a \in Range(addresses) : Cost(b) <= Cost(a)} \subseteq Range(addresses)
    /\ PrioritiesUnmarked /\ query.pass # "all" =>
         \A b \in Steady, a \in Range(addresses) : Cost(a) <= Cost(b)
    /\ PrioritiesUnmarked /\ query.pass = "failover" =>
         \A a, b \in Range(addresses) : priority[a] = priority[b]

LEMMA Answered ==
    ASSUME SInv, UNCHANGED <<mode, backendVars, seen>>,
           NEW addresses, IsInjective(addresses), ~seen.moved => Right(addresses),
           query'.at = "answered", query'.pass = query.pass, query'.type = query.type,
           query'.picked = addresses
    PROVE  ScanInv' /\ AnswerInv'
<1>1. Steady' = Steady
  BY DEF Steady
<1>2. \A b : Cost(b)' = Cost(b)
  BY DEF Cost, backendVars
<1>3. ScanInv'
  BY DEF ScanInv, InProgress, DistinctInv, SortInv, KnownInv, FailoverInv, PoolInv,
         NearestInv, FastestInv, LastInv, WeightedInv, WheelInv
<1>4. SteadyIsEnough'
  BY <1>1 DEF SteadyIsEnough, FellBack, Right
<1>5. NoneForgotten'
  BY <1>1, <1>2 DEF NoneForgotten, Chosen, Right
<1>6. PrioritiesUnmarked => NoBetterSteady'
  BY <1>1, <1>2 DEF NoBetterSteady, Chosen, Right
<1>7. PrioritiesUnmarked => OnePriority'
  BY DEF OnePriority, Chosen, Right, backendVars
<1>8. QED
  BY <1>3, <1>4, <1>5, <1>6, <1>7 DEF AnswerInv

\* At the end of a pass what was picked is a right answer.
LEMMA PickedRight ==
    ASSUME SInv, query.at = "visit", query.todo = <<>>, ~seen.moved
    PROVE  Right(query.picked)
<1>1. Todo = {}
  BY RangeNone DEF Todo
<1>2. FailoverInv /\ PoolInv /\ NearestInv /\ FastestInv /\ LastInv
  BY DEF SInv, ScanInv, KnownInv
<1>3. /\ Steady \subseteq Backends /\ Picked \subseteq Backends
      /\ \A b \in Backends : priority[b] \in Int
  BY ModeTyped DEF SInv, IInv, TypeOK, QueryStates, SeenStates, Steady, Picked, Range
<1>4. query.pass = "all" /\ mode \in SupportedModes => Steady = {}
  BY <1>2 DEF LastInv
<1>5. query.pass = "random" => Steady \subseteq Picked
  BY <1>1, <1>2 DEF PoolInv
<1>6. ASSUME query.pass = "failover"
      PROVE  /\ {b \in Steady : \A a \in Picked : Cost(b) <= Cost(a)} \subseteq Picked
             /\ PrioritiesUnmarked =>
                  /\ \A b \in Steady, a \in Picked : Cost(a) <= Cost(b)
                  /\ \A a, b \in Picked : priority[a] = priority[b]
  <2>1. \A b : Cost(b) = priority[b]
    BY <1>6 DEF Cost
  <2>2. \A b \in Steady : b \in Picked \/ \E a \in Picked : priority[a] < priority[b]
    BY <1>1, <1>2, <1>6 DEF FailoverInv
  <2>3. PrioritiesUnmarked => \A a \in Picked : priority[a] = query.best
    BY <1>2, <1>6 DEF FailoverInv
  <2>4. QED
    BY <1>3, <2>1, <2>2, <2>3
<1>7. ASSUME query.pass = "nearest"
      PROVE  \A b \in Steady, a \in Picked : Cost(a) <= Cost(b)
  <2>1. \A b : Cost(b) = distance[b]
    BY <1>7 DEF Cost
  <2>2. QED
    BY <1>1, <1>2, <1>7, <2>1 DEF NearestInv
<1>8. ASSUME query.pass = "fastest"
      PROVE  \A b \in Steady, a \in Picked : Cost(a) <= Cost(b)
  BY <1>1, <1>2, <1>8 DEF FastestInv
<1>9. ASSUME query.pass \notin {"failover", "nearest", "fastest"}
      PROVE  \A b \in Steady, a \in Picked : Cost(a) <= Cost(b)
  BY <1>9 DEF Cost
<1>10. QED
  BY <1>4, <1>5, <1>6, <1>7, <1>8, <1>9 DEF Right, Picked

LEMMA AnswerFields ==
    ASSUME query \in QueryStates, NEW addresses, Answer(addresses)
    PROVE  /\ query'.at = "answered" /\ query'.pass = query.pass
           /\ query'.type = query.type /\ query'.picked = addresses
  BY DEF QueryStates, Answer

\* The next pass is one that promises something, or nothing was to be promised.
LEMMA NextScan ==
    ASSUME SInv, InProgress, UNCHANGED <<mode, backendVars, seen>>, TypeOK',
           NEW p \in Passes, query' = Pass(query, p),
           p = "all" /\ mode \in SupportedModes => seen.moved \/ Steady = {}
    PROVE  ScanInv' /\ AnswerInv'
<1>1. query \in QueryStates
  BY DEF SInv, IInv, TypeOK
<1>2. query'.type = query.type
  BY <1>1 DEF Pass, QueryStates
<1>3. Steady' = Steady /\ (InProgress => seen.steady \subseteq Healthy)'
  BY <1>2, SameBackends DEF Steady, SInv, IInv, ScanInv
<1>4. QED
  BY <1>1, <1>3, StartScan

LEMMA NothingFoundScan ==
    ASSUME SInv, NothingFound, TypeOK'
    PROVE  ScanInv' /\ AnswerInv'
<1>1. /\ query.at = "visit" /\ query.todo = <<>> /\ query.picked = <<>>
      /\ query \in QueryStates /\ query.pass \in Passes
      /\ UNCHANGED <<mode, backendVars, seen>>
  BY DEF NothingFound, PassOver, SInv, IInv, TypeOK
<1>2. Todo = {} /\ Picked = {}
  BY <1>1, RangeNone DEF Todo, Picked
<1>3. ASSUME ~seen.moved, mode \in SupportedModes,
             query.pass = "all" \/ After(query.pass) = "all"
      PROVE  Steady = {}
  <2>1. query.pass \in {"failover", "roundrobin", "random", "weighted", "fastest", "all"}
    BY <1>1, <1>3 DEF Passes, After
  <2>2. FailoverInv /\ PoolInv /\ FastestInv /\ LastInv
    BY <1>3 DEF SInv, ScanInv, KnownInv
  <2>3. QED
    BY <1>1, <1>2, <1>3, <2>1, <2>2 DEF FailoverInv, PoolInv, FastestInv, LastInv
<1>4. CASE query.pass = "all"
  <2>1. query' = [query EXCEPT !.at = "answered"]
    BY <1>4 DEF NothingFound
  <2>2. /\ query'.at = "answered" /\ query'.pass = query.pass
        /\ query'.type = query.type /\ query'.picked = query.picked
    BY <1>1, <2>1 DEF QueryStates
  <2>3. IsInjective(query.picked) /\ (~seen.moved => Right(query.picked))
    BY <1>1, PickedRight, OneIsDistinct
  <2>4. QED
    BY <1>1, <2>2, <2>3, Answered
<1>5. CASE query.pass # "all"
  <2>1. query' = Pass(query, After(query.pass)) /\ After(query.pass) \in Passes
    BY <1>1, <1>5, PassesTyped DEF NothingFound
  <2>2. InProgress
    BY <1>1 DEF InProgress
  <2>3. QED
    BY <1>1, <1>3, <2>1, <2>2, NextScan
<1>6. QED
  BY <1>4, <1>5

LEMMA AnswerScan ==
    ASSUME SInv, TypeOK',
           AnswerPicked \/ AnswerFastest \/ AnswerRandom \/ AnswerRoundRobin
    PROVE  ScanInv' /\ AnswerInv'
<1>1. /\ query.at = "visit" /\ query.todo = <<>> /\ InProgress
      /\ query \in QueryStates /\ query.picked \in Seq(Backends)
      /\ UNCHANGED <<mode, backendVars, seen>>
  BY DEF AnswerPicked, AnswerFastest, AnswerRandom, AnswerRoundRobin, PassOver, SInv, IInv,
         TypeOK, QueryStates, InProgress
<1>2. IsInjective(query.picked) /\ (~seen.moved => Right(query.picked))
  BY <1>1, PickedRight DEF SInv, ScanInv, DistinctInv
<1>3. CASE Answer(query.picked)
  BY <1>1, <1>2, <1>3, AnswerFields, Answered
<1>4. CASE AnswerPicked
  BY <1>3, <1>4 DEF AnswerPicked
<1>5. CASE AnswerFastest
  <2>1. CASE query' = Pass(query, "failover")
    <3>1. "failover" \in Passes
      BY DEF Passes
    <3>2. QED
      BY <1>1, <2>1, <3>1, NextScan
  <2>2. QED
    BY <1>3, <1>5, <2>1 DEF AnswerFastest
<1>6. CASE AnswerRandom
  <2>1. PICK shuffled \in SetToSeqs(Range(query.picked)) : Answer(shuffled)
    BY <1>6 DEF AnswerRandom
  <2>2. IsInjective(shuffled) /\ Range(shuffled) = Range(query.picked)
    BY <1>1, <2>1, PermutedAll
  <2>3. ~seen.moved => Right(shuffled)
    BY <1>2, <2>2 DEF Right
  <2>4. QED
    BY <1>1, <2>1, <2>2, <2>3, AnswerFields, Answered
<1>7. CASE AnswerRoundRobin
  <2>1. PICK i \in DOMAIN query.picked : Answer(<<query.picked[i]>>)
    BY <1>7 DEF AnswerRoundRobin
  <2>2. query.pass = "roundrobin"
    BY <1>7 DEF AnswerRoundRobin, PassOver
  <2>3. Right(<<query.picked[i]>>)
    BY <2>2 DEF Right, Cost
  <2>4. QED
    BY <1>1, <2>1, <2>3, OneIsDistinct, AnswerFields, Answered
<1>8. QED
  BY <1>4, <1>5, <1>6, <1>7

\* The wheel begins to turn, or turns on.
LEMMA OnTheWheel ==
    ASSUME SInv, InProgress, UNCHANGED <<mode, backendVars, seen>>,
           query'.at = "wheel", query'.pass = "weighted", query'.picked = query.picked,
           ~seen.moved => WheelInv'
    PROVE  ScanInv' /\ AnswerInv'
<1>1. (InProgress => seen.steady \subseteq Healthy)'
  BY SameBackends DEF SInv, IInv, ScanInv
<1>2. DistinctInv' /\ SortInv'
  BY DEF SInv, ScanInv, DistinctInv, SortInv
<1>3. KnownInv'
  BY DEF KnownInv, FailoverInv, PoolInv, NearestInv, FastestInv, LastInv, WeightedInv
<1>4. QED
  BY <1>1, <1>2, <1>3, NotAnsweredNext DEF ScanInv

LEMMA ThrowBallScan ==
    ASSUME SInv, ThrowBall
    PROVE  ScanInv' /\ AnswerInv'
<1>1. /\ query.at = "visit" /\ query.pass = "weighted"
      /\ UNCHANGED <<mode, backendVars, seen>>
  BY DEF ThrowBall, PassOver
<1>2. query \in QueryStates /\ query.picked \in Seq(Backends) /\ query.total \in Nat
  BY DEF SInv, IInv, TypeOK, QueryStates
<1>3. PICK ball \in 0..(query.total - 1) :
        query' = [query EXCEPT !.at = "wheel", !.todo = query.picked,
                               !.ball = ball, !.sum = 0]
  BY DEF ThrowBall
<1>4. /\ query'.at = "wheel" /\ query'.pass = "weighted" /\ query'.picked = query.picked
      /\ query'.todo = query.picked /\ query'.ball = ball /\ query'.sum = 0
      /\ query'.total = query.total
  BY <1>1, <1>2, <1>3 DEF QueryStates
<1>5. ASSUME ~seen.moved PROVE WheelInv'
  <2>1. PICK f \in [0..Len(query.picked) -> Nat] :
          Sums(f, query.picked) /\ f[Len(query.picked)] = query.total
    BY <1>1, <1>5 DEF SInv, ScanInv, KnownInv, WeightedInv
  <2>2. Sums(f, query.picked)'
    BY <1>1, <1>4, <2>1 DEF Sums, GetWeight, backendVars
  <2>3. Len(query.picked) \in Nat
    BY <1>2
  <2>4. Wheel(f, 0)'
    BY <1>2, <1>4, <2>1, <2>2, <2>3 DEF Wheel, Sums
  <2>5. f \in [0..Len(query'.picked) -> Nat] /\ 0 \in 0..Len(query'.picked)
    BY <1>4, <2>1, <2>3
  <2>6. QED
    BY <2>4, <2>5 DEF WheelInv
<1>6. InProgress
  BY <1>1 DEF InProgress
<1>7. QED
  BY <1>1, <1>4, <1>5, <1>6, OnTheWheel

LEMMA TurnWheelScan ==
    ASSUME SInv, TurnWheel
    PROVE  ScanInv' /\ AnswerInv'
<1> DEFINE cumulative == query.sum + GetWeight(Current)
<1>1. /\ query.at = "wheel" /\ query.todo # <<>> /\ query.pass = "weighted" /\ InProgress
      /\ UNCHANGED <<mode, backendVars, seen>>
  BY DEF TurnWheel, SInv, ScanInv, InProgress
<1>2. /\ query \in QueryStates /\ query.todo \in Seq(Backends) /\ query.picked \in Seq(Backends)
      /\ query.sum \in Nat /\ query.ball \in Nat
  BY DEF SInv, IInv, TypeOK, QueryStates
<1>3. Current \in Backends
  BY <1>1, <1>2, RangeTail DEF Current
<1>4. GetWeight(Current) \in Nat
  <2>1. weight[Current] \in Int
    BY <1>3, ModeTyped DEF SInv, IInv, TypeOK
  <2>2. QED
    BY <2>1 DEF GetWeight
<1>5. CASE query.ball < cumulative
  <2>1. Answer(<<Current>>)
    BY <1>5 DEF TurnWheel
  <2>2. Right(<<Current>>)
    BY <1>1 DEF Right, Cost
  <2>3. QED
    BY <1>1, <1>2, <2>1, <2>2, OneIsDistinct, AnswerFields, Answered
<1>6. CASE ~(query.ball < cumulative)
  <2>1. query' = [Passed(query) EXCEPT !.sum = cumulative]
    BY <1>6 DEF TurnWheel
  <2> HIDE DEF cumulative
  <2>2. /\ query'.at = "wheel" /\ query'.pass = "weighted" /\ query'.picked = query.picked
        /\ query'.todo = Tail(query.todo) /\ query'.ball = query.ball
        /\ query'.sum = cumulative /\ query'.total = query.total
    BY <1>1, <1>2, <2>1 DEF QueryStates, Passed
  <2>3. ASSUME ~seen.moved PROVE WheelInv'
    <3>1. PICK f \in [0..Len(query.picked) -> Nat], n \in 0..Len(query.picked) : Wheel(f, n)
      BY <1>1, <2>3 DEF SInv, ScanInv, KnownInv, WheelInv
    <3> DEFINE k == Len(query.todo)
               m == Len(query.picked)
    <3>2. /\ k \in Nat \ {0} /\ m \in Nat /\ query.todo[1] = Current
          /\ Len(query'.todo) = k - 1
          /\ \A i \in 1..(k - 1) : query'.todo[i] = query.todo[i + 1]
      BY <1>1, <1>2, <2>2, TailElements DEF Current
    <3>3. /\ n + k = m /\ \A i \in 1..k : query.todo[i] = query.picked[n + i]
          /\ f[0] = 0 /\ f[m] = query.total
          /\ \A i \in 1..m : f[i] = f[i - 1] + GetWeight(query.picked[i])
          /\ query.sum = f[n] /\ query.ball < query.total
      BY <3>1 DEF Wheel, Sums
    <3> HIDE DEF k, m
    <3>4. n + 1 \in 1..m /\ query.picked[n + 1] = Current /\ (n + 1) - 1 = n
      BY <3>1, <3>2, <3>3 DEF m
    <3>5. f[n + 1] = cumulative
      BY <3>3, <3>4 DEF cumulative
    <3>6. cumulative <= query.ball
      BY <1>2, <1>4, <1>6 DEF cumulative
    <3>7. \A i \in 1..(k - 1) : query'.todo[i] = query'.picked[(n + 1) + i]
      <4>1. \A i \in 1..(k - 1) : i + 1 \in 1..k /\ n + (i + 1) = (n + 1) + i
        BY <3>1, <3>2 DEF m
      <4>2. QED
        BY <2>2, <3>2, <3>3, <4>1
    <3>8. (n + 1) + (k - 1) = m
      BY <3>1, <3>2, <3>3 DEF m
    <3>9. Sums(f, query.picked)'
      BY <1>1, <2>2, <3>1 DEF Wheel, Sums, GetWeight, backendVars
    <3>10. Wheel(f, n + 1)'
      BY <2>2, <3>2, <3>3, <3>5, <3>6, <3>7, <3>8, <3>9 DEF Wheel, m
    <3>11. f \in [0..Len(query'.picked) -> Nat] /\ n + 1 \in 0..Len(query'.picked)
      BY <2>2, <3>1, <3>2, <3>4 DEF m
    <3>12. QED
      BY <3>10, <3>11 DEF WheelInv
  <2>4. QED
    BY <1>1, <2>2, <2>3, OnTheWheel
<1>7. QED
  BY <1>5, <1>6

\* As long as nothing has moved the wheel stops before it has passed all.
LEMMA WheelHasRoom ==
    ASSUME SInv, ~seen.moved
    PROVE  WheelStops
<1>1. SUFFICES ASSUME query.at = "wheel", query.todo = <<>> PROVE FALSE
  BY DEF WheelStops
<1>2. query.ball \in Nat /\ query.total \in Nat
  BY DEF SInv, IInv, TypeOK, QueryStates
<1>3. PICK f \in [0..Len(query.picked) -> Nat], n \in 0..Len(query.picked) : Wheel(f, n)
  BY <1>1 DEF SInv, ScanInv, KnownInv, WheelInv
<1>4. Len(query.todo) = 0
  BY <1>1
<1>5. n = Len(query.picked)
  BY <1>3, <1>4 DEF Wheel
<1>6. query.total <= query.ball /\ query.ball < query.total
  BY <1>3, <1>5 DEF Wheel
<1>7. QED
  BY <1>2, <1>6

LEMMA WheelFailsScan ==
    ASSUME SInv, WheelFails, TypeOK'
    PROVE  ScanInv' /\ AnswerInv'
<1>1. /\ query.at = "wheel" /\ query.todo = <<>> /\ InProgress
      /\ query' = Pass(query, After("weighted"))
      /\ UNCHANGED <<mode, backendVars, seen>>
  BY DEF WheelFails, InProgress
<1>2. After("weighted") = "all" /\ "all" \in Passes
  BY DEF After, Passes
<1>3. seen.moved
  BY <1>1, WheelHasRoom DEF WheelStops
<1>4. QED
  BY <1>1, <1>2, <1>3, NextScan

LEMMA EndOfPassSInv ==
    ASSUME SInv, EndOfPass
    PROVE  SInv'
<1>1. IInv' /\ TypeOK'
  BY EndOfPassIInv DEF SInv, IInv
<1>2. ScanInv' /\ AnswerInv'
  BY <1>1, NothingFoundScan, AnswerScan, ThrowBallScan, TurnWheelScan, WheelFailsScan
     DEF EndOfPass
<1>3. QED
  BY <1>1, <1>2 DEF SInv

LEMMA LeaveSInv ==
    ASSUME SInv, Leave
    PROVE  SInv'
<1>1. IInv'
  BY LeaveIInv DEF SInv
<1>2. query'.at = "idle" /\ query'.picked = <<>>
  BY DEF Leave, NoQuery
<1>3. ScanInv'
  BY <1>2, OneIsDistinct
     DEF ScanInv, InProgress, DistinctInv, SortInv, KnownInv, FailoverInv, PoolInv,
         NearestInv, FastestInv, LastInv, WeightedInv, WheelInv
<1>4. AnswerInv'
  BY <1>2, NotAnsweredNext
<1>5. QED
  BY <1>1, <1>3, <1>4 DEF SInv

LEMMA StutterSInv ==
    ASSUME SInv, UNCHANGED vars
    PROVE  SInv'
<1>1. IInv'
  BY StepIInv DEF SInv
<1>2. Steady' = Steady /\ Todo' = Todo /\ Picked' = Picked /\ Healthy' = Healthy
  BY SameBackends DEF vars, SInv, IInv, Steady, Todo, Picked
<1>3. ~seen.moved => KnownInv'
  BY FewerSteady DEF vars, backendVars
<1>4. ScanInv'
  BY <1>2, <1>3 DEF vars, SInv, ScanInv, InProgress, DistinctInv, SortInv, KnownInv
<1>5. AnswerInv'
  <2>1. \A b : Cost(b)' = Cost(b)
    BY DEF Cost, vars, backendVars
  <2>2. query' = query /\ seen' = seen /\ priority' = priority /\ mode' = mode
    BY DEF vars, backendVars
  <2>3. SteadyIsEnough' /\ NoneForgotten'
    BY <1>2, <2>1, <2>2 DEF SInv, AnswerInv, SteadyIsEnough, NoneForgotten, Chosen, FellBack
  <2>4. PrioritiesUnmarked => NoBetterSteady'
    BY <1>2, <2>1, <2>2 DEF SInv, AnswerInv, NoBetterSteady, Chosen
  <2>5. PrioritiesUnmarked => OnePriority'
    BY <2>2 DEF SInv, AnswerInv, OnePriority, Chosen
  <2>6. QED
    BY <2>3, <2>4, <2>5 DEF AnswerInv
<1>6. QED
  BY <1>1, <1>4, <1>5 DEF SInv

LEMMA StepSInv == SInv /\ [Next]_vars => SInv'
<1>1. SUFFICES ASSUME SInv, [Next]_vars PROVE SInv'
  OBVIOUS
<1>2. QED
  BY <1>1, ArriveSInv, SortSInv, VisitSInv, EndOfPassSInv, LeaveSInv, ChangeSInv, StutterSInv
     DEF Next

----------------------------------------------------------------------------
\* In a supported mode, while one backend stays healthy, no query ends in the fallback
\* or SERVFAIL.
THEOREM SteadyAlwaysEnough == Spec => []SteadyIsEnough
<1>1. SInv => SteadyIsEnough
  BY DEF SInv, AnswerInv
<1>2. QED
  BY <1>1, InitSInv, StepSInv, PTL DEF Spec

\* random and failover forget no backend that stays healthy, and name none twice.
THEOREM NoneIsForgotten == Spec => []NoneForgotten
<1>1. SInv => NoneForgotten
  BY DEF SInv, AnswerInv
<1>2. QED
  BY <1>1, InitSInv, StepSInv, PTL DEF Spec

\* No answer of failover, nearest or fastest while a better backend stays healthy, if
\* the priority the code uses as a mark is not one of the values.
THEOREM NoBetterEverSteady ==
    ASSUME PrioritiesUnmarked
    PROVE  Spec => []NoBetterSteady
<1>1. SInv => NoBetterSteady
  BY DEF SInv, AnswerInv
<1>2. QED
  BY <1>1, InitSInv, StepSInv, PTL DEF Spec

\* Under the same assumption failover answers with backends of one priority.
THEOREM OnePriorityUnmarked ==
    ASSUME PrioritiesUnmarked
    PROVE  Spec => []OnePriority
<1>1. SInv => OnePriority
  BY DEF SInv, AnswerInv
<1>2. QED
  BY <1>1, InitSInv, StepSInv, PTL DEF Spec

\* The wheel can pass all backends only when weights have changed under it.
THEOREM WheelStopsUnlessMoved == Spec => [](~seen.moved => WheelStops)
<1>1. SInv => (~seen.moved => WheelStops)
  BY WheelHasRoom
<1>2. QED
  BY <1>1, InitSInv, StepSInv, PTL DEF Spec

----------------------------------------------------------------------------
(***************************************************************************)
(* The levels of geoip: a backend of the client's that stays healthy is    *)
(* still to be visited by the pass of its level, or the pass has found     *)
(* one; no pass after it begins otherwise.                                 *)
(***************************************************************************)

Levels == {"country", "city", "asn", "location"}

\* No backend that stays healthy fits a level before the pass.
Spent == \A b \in seen.steady, level \in LevelsBefore(query.pass) : ~Fits(b, level)

\* One that fits the level of the pass is not passed over.
Owing ==
    (query.at = "visit" /\ query.pass \in Levels) =>
        \A b \in seen.steady :
            Fits(b, query.pass) => b \in Todo \/ query.picked # <<>>

GeoInv ==
    (mode = "geoip" /\ query.at # "idle") =>
        /\ query.pass \in Levels \cup {"failover", "all"}
        /\ ~seen.moved => Spent /\ Owing

\* What fits the client does not change in a step that changes neither the labels
\* nor the client.
LEMMA SameFits ==
    ASSUME query'.client = query.client, label' = label
    PROVE  \A b, level : Fits(b, level)' = Fits(b, level)
  BY DEF Fits, Labelled

\* A step within a pass keeps what earlier passes have found out.
LEMMA GeoStep ==
    ASSUME GeoInv, query.at # "idle", mode' = mode, seen'.moved = FALSE => ~seen.moved,
           seen'.moved \in BOOLEAN, seen'.moved = FALSE => label' = label,
           seen'.moved = FALSE => seen'.steady \subseteq seen.steady,
           query'.client = query.client, query'.pass = query.pass,
           mode = "geoip" /\ ~seen'.moved => Owing'
    PROVE  GeoInv'
<1>1. SUFFICES ASSUME mode = "geoip", ~seen'.moved PROVE Spent'
  BY DEF GeoInv
<1>2. Spent /\ label' = label /\ seen'.steady \subseteq seen.steady
  BY <1>1 DEF GeoInv
<1>3. \A b, level : Fits(b, level)' = Fits(b, level)
  BY <1>2, SameFits
<1>4. QED
  BY <1>2, <1>3 DEF Spent

LEMMA ArriveGeo ==
    ASSUME SInv, NEW t \in Range(Family), NEW c \in Clients, Arrive(t, c)
    PROVE  GeoInv'
<1> DEFINE q == [query EXCEPT !.type = t, !.client = c]
<1>1. SUFFICES ASSUME mode = "geoip"
               PROVE  query'.pass = "country" /\ Spent' /\ Owing'
  BY DEF GeoInv, Levels, Arrive
<1>2. q \in QueryStates /\ query' = Pass(q, "country")
  BY <1>1 DEF Arrive, FirstPass, SInv, IInv, TypeOK, QueryStates
<1> HIDE DEF q
<1>3. query'.pass = "country" /\ query'.todo = Order
  BY <1>2 DEF Pass, QueryStates
<1>4. seen'.steady \subseteq Backends
  BY DEF Arrive, Seen, Healthy
<1>5. Todo' = Backends
  BY <1>3 DEF Todo, Backends
<1>6. QED
  BY <1>3, <1>4, <1>5 DEF Spent, LevelsBefore, Owing

LEMMA SortGeo ==
    ASSUME SInv, GeoInv, Sort
    PROVE  GeoInv'
<1>1. query \in QueryStates /\ seen.moved \in BOOLEAN /\ query.at \in {"sort", "disturbed"}
      /\ UNCHANGED <<mode, backendVars, seen>>
  BY DEF SInv, IInv, TypeOK, SeenStates, Sort
<1>2. query'.client = query.client /\ query'.pass = query.pass
  BY <1>1 DEF Sort, QueryStates
<1>3. query'.pass \notin Levels
  BY <1>1, <1>2 DEF SInv, ScanInv, SortInv, Levels
<1>4. Owing'
  BY <1>3 DEF Owing
<1>5. QED
  BY <1>1, <1>2, <1>4, GeoStep DEF backendVars

\* A visit leaves the client and the pass.
LEMMA VisitClient ==
    ASSUME query \in QueryStates, Visit
    PROVE  query'.client = query.client /\ query'.pass = query.pass
<1>1. /\ Passed(query).client = query.client /\ Passed(query).pass = query.pass
      /\ Taken(query).client = query.client /\ Taken(query).pass = query.pass
      /\ \A v : Improved(query, v).client = query.client /\ Improved(query, v).pass = query.pass
  BY DEF QueryStates, Passed, Taken, Improved
<1>2. CASE VisitFailover
  BY <1>2 DEF VisitFailover, QueryStates, Passed, Taken
<1>3. CASE VisitPool
  BY <1>1, <1>3 DEF VisitPool
<1>4. CASE VisitWeighted
  BY <1>4 DEF VisitWeighted, QueryStates, Passed, Taken
<1>5. CASE VisitNearest
  BY <1>1, <1>5 DEF VisitNearest
<1>6. CASE VisitFastest
  BY <1>1, <1>6 DEF VisitFastest
<1>7. CASE VisitLabelled
  BY <1>7 DEF VisitLabelled, QueryStates, Passed, Taken
<1>8. CASE VisitLocated
  BY <1>1, <1>8 DEF VisitLocated
<1>9. CASE VisitAny
  BY <1>1, <1>9 DEF VisitAny
<1>10. QED
  BY <1>2, <1>3, <1>4, <1>5, <1>6, <1>7, <1>8, <1>9 DEF Visit

\* A visit of a level takes the backend, or leaves one that does not fit or does not
\* stay healthy.
LEMMA LevelVisit ==
    ASSUME SInv, GeoInv, mode = "geoip", query.at = "visit", query.todo # <<>>,
           query.pass \in Levels, UNCHANGED <<mode, backendVars, seen>>,
           query'.client = query.client, query'.pass = query.pass,
           \/ query'.picked = Append(query.picked, Current)
           \/ /\ query'.picked = query.picked /\ query'.todo = Tail(query.todo)
              /\ \A b \in seen.steady : Fits(b, query.pass) => b # Current
    PROVE  GeoInv'
<1>1. /\ query.todo \in Seq(Backends) /\ query.picked \in Seq(Backends)
      /\ seen.moved \in BOOLEAN
  BY DEF SInv, IInv, TypeOK, QueryStates, SeenStates
<1>2. /\ Todo = {Current} \cup Range(Tail(query.todo)) /\ Current \in Backends
      /\ Append(query.picked, Current) # <<>>
  BY <1>1, DistinctTail, RangeTail, AppendElements DEF Todo, Current
<1>3. ASSUME ~seen'.moved, NEW b \in seen.steady, Fits(b, query.pass)
      PROVE  b \in Todo' \/ query'.picked # <<>>
  <2>1. b \in Todo \/ query.picked # <<>>
    BY <1>3 DEF GeoInv, Owing
  <2>2. CASE query'.picked = Append(query.picked, Current)
    BY <1>2, <2>2
  <2>3. CASE /\ query'.picked = query.picked /\ query'.todo = Tail(query.todo)
             /\ b # Current
    BY <1>2, <2>1, <2>3 DEF Todo
  <2>4. QED
    BY <1>3, <2>2, <2>3
<1>4. \A b, level : Fits(b, level)' = Fits(b, level)
  BY SameFits DEF backendVars
<1>5. ~seen'.moved => Owing'
  BY <1>3, <1>4 DEF Owing
<1>6. QED
  BY <1>1, <1>5, GeoStep DEF backendVars

LEMMA VisitGeo ==
    ASSUME SInv, GeoInv, Visit
    PROVE  GeoInv'
<1>1. /\ query.at = "visit" /\ query.todo # <<>>
      /\ UNCHANGED <<mode, backendVars, seen>>
  BY DEF Visit, VisitFailover, VisitPool, VisitWeighted, VisitNearest, VisitFastest,
         VisitLabelled, VisitLocated, VisitAny, Visiting
<1>2. query \in QueryStates /\ seen.moved \in BOOLEAN /\ seen.steady \subseteq Healthy
  BY <1>1 DEF SInv, IInv, TypeOK, SeenStates, ScanInv, InProgress
<1>3. query'.client = query.client /\ query'.pass = query.pass
  BY <1>2, VisitClient
<1>4. SUFFICES ASSUME mode = "geoip" PROVE GeoInv'
  BY <1>1 DEF GeoInv
<1>5. CASE query.pass \notin Levels
  <2>1. Owing'
    BY <1>3, <1>5 DEF Owing
  <2>2. QED
    BY <1>1, <1>2, <1>3, <2>1, GeoStep DEF backendVars
<1>6. CASE query.pass \in Levels
  <2>1. VisitLabelled \/ VisitLocated
    BY <1>6 DEF Visit, VisitFailover, VisitPool, VisitWeighted, VisitNearest, VisitFastest,
                VisitAny, Visiting, Levels
  <2>2. CASE VisitLabelled
    <3>1. query.pass # "location"
      BY <2>2 DEF VisitLabelled, Visiting
    <3>2. CASE Current \in Healthy /\ Labelled(Current, query.pass)
      <4>1. query'.picked = Append(query.picked, Current)
        BY <1>2, <2>2, <3>2 DEF VisitLabelled, QueryStates, Taken, Current
      <4>2. QED
        BY <1>1, <1>3, <1>4, <1>6, <4>1, LevelVisit
    <3>3. CASE ~(Current \in Healthy /\ Labelled(Current, query.pass))
      <4>1. query' = Passed(query)
        BY <2>2, <3>3 DEF VisitLabelled
      <4>2. \A b \in seen.steady : Fits(b, query.pass) => b # Current
        BY <1>2, <3>1, <3>3 DEF Fits
      <4>3. QED
        BY <1>1, <1>2, <1>3, <1>4, <1>6, <4>1, <4>2, LevelVisit, VisitFields
    <3>4. QED
      BY <3>2, <3>3
  <2>3. CASE VisitLocated
    <3>1. query.pass = "location"
      BY <2>3 DEF VisitLocated, Visiting
    <3>2. CASE query' = Taken(query)
      BY <1>1, <1>2, <1>3, <1>4, <1>6, <3>2, LevelVisit, VisitFields
    <3>3. CASE query' = Passed(query) /\ query.client.locations = {}
      <4>1. \A b \in seen.steady : ~Fits(b, query.pass)
        BY <3>1, <3>3 DEF Fits
      <4>2. QED
        BY <1>1, <1>2, <1>3, <1>4, <1>6, <3>3, <4>1, LevelVisit, VisitFields
    <3>4. ASSUME NEW l \in query.client.locations, query' = Passed(query),
                 ~(Current \in Healthy /\ label[Current].location = l)
          PROVE  GeoInv'
      <4>1. \A b \in seen.steady : Fits(b, query.pass) => b # Current
        BY <1>2, <3>1, <3>4 DEF Fits
      <4>2. QED
        BY <1>1, <1>2, <1>3, <1>4, <1>6, <3>4, <4>1, LevelVisit, VisitFields
    <3>5. QED
      BY <2>3, <3>2, <3>3, <3>4 DEF VisitLocated
  <2>4. QED
    BY <2>1, <2>2, <2>3
<1>7. QED
  BY <1>5, <1>6

\* The next level begins only when nobody who stays healthy fits this one.
LEMMA NothingFoundGeo ==
    ASSUME SInv, GeoInv, NothingFound
    PROVE  GeoInv'
<1>1. /\ query.at = "visit" /\ query.todo = <<>> /\ query.picked = <<>>
      /\ query \in QueryStates /\ seen.moved \in BOOLEAN
      /\ UNCHANGED <<mode, backendVars, seen>>
  BY DEF NothingFound, PassOver, SInv, IInv, TypeOK, SeenStates
<1>2. CASE query.pass = "all"
  <2>1. /\ query'.at = "answered" /\ query'.pass = query.pass
        /\ query'.client = query.client
    BY <1>1, <1>2 DEF NothingFound, QueryStates
  <2>2. Owing'
    BY <2>1 DEF Owing
  <2>3. QED
    BY <1>1, <2>1, <2>2, GeoStep DEF backendVars
<1>3. CASE query.pass # "all"
  <2>1. SUFFICES ASSUME mode = "geoip" PROVE GeoInv'
    BY <1>1 DEF GeoInv
  <2>2. query' = Pass(query, After(query.pass))
    BY <1>3 DEF NothingFound
  <2>3. /\ query'.pass = After(query.pass) /\ query'.client = query.client
        /\ query'.todo = Order
    BY <1>1, <2>2 DEF Pass, QueryStates
  <2>4. query.pass \in Levels \cup {"failover"}
    BY <1>1, <1>3, <2>1 DEF GeoInv
  <2>5. /\ After(query.pass) \in Levels \cup {"failover", "all"}
        /\ \A level \in LevelsBefore(After(query.pass)) :
             level \in LevelsBefore(query.pass) \/ (level = query.pass /\ level \in Levels)
    BY <2>4 DEF After, Levels, LevelsBefore
  <2>6. \A b, level : Fits(b, level)' = Fits(b, level)
    BY <1>1, <2>3, SameFits DEF backendVars
  <2>7. SUFFICES ASSUME ~seen'.moved PROVE Spent' /\ Owing'
    BY <1>1, <2>3, <2>5 DEF GeoInv
  <2>8. Spent /\ Owing
    BY <1>1, <2>1, <2>7 DEF GeoInv
  <2>9. Todo = {}
    BY <1>1, RangeNone DEF Todo
  <2>10. Spent'
    BY <1>1, <2>3, <2>5, <2>6, <2>8, <2>9 DEF Spent, Owing
  <2>11. seen'.steady \subseteq Todo'
    BY <1>1, <2>3 DEF SInv, IInv, TypeOK, SeenStates, Todo, Backends
  <2>12. QED
    BY <2>10, <2>11 DEF Owing
<1>4. QED
  BY <1>2, <1>3

LEMMA EndOfPassGeo ==
    ASSUME SInv, GeoInv, EndOfPass
    PROVE  GeoInv'
<1>1. /\ query \in QueryStates /\ seen.moved \in BOOLEAN /\ query.at \in {"visit", "wheel"}
      /\ UNCHANGED <<mode, backendVars, seen>>
  BY DEF EndOfPass, NothingFound, AnswerPicked, AnswerFastest, AnswerRandom,
         AnswerRoundRobin, ThrowBall, TurnWheel, WheelFails, PassOver,
         SInv, IInv, TypeOK, SeenStates
<1>2. SUFFICES ASSUME mode = "geoip" PROVE GeoInv'
  BY <1>1 DEF GeoInv
<1>3. query.pass \in Levels \cup {"failover", "all"} /\ query.at # "wheel"
  BY <1>1, <1>2 DEF GeoInv, Levels, SInv, ScanInv
<1>4. NothingFound \/ AnswerPicked
  BY <1>3 DEF EndOfPass, AnswerFastest, AnswerRandom, AnswerRoundRobin, ThrowBall,
              TurnWheel, WheelFails, PassOver, Levels
<1>5. CASE AnswerPicked
  <2>1. /\ query'.at = "answered" /\ query'.pass = query.pass
        /\ query'.client = query.client
    BY <1>1, <1>5 DEF AnswerPicked, Answer, QueryStates
  <2>2. Owing'
    BY <2>1 DEF Owing
  <2>3. QED
    BY <1>1, <2>1, <2>2, GeoStep DEF backendVars
<1>6. QED
  BY <1>4, <1>5, NothingFoundGeo

LEMMA ChangeGeo ==
    ASSUME SInv, GeoInv, Change
    PROVE  GeoInv'
<1>1. PICK moved \in BOOLEAN :
        /\ Record(moved) /\ (~moved => label' = label) /\ mode' = mode /\ InProgress
        /\ query' = query \/ query' = [query EXCEPT !.at = "disturbed"]
  <2>1. ASSUME NEW b \in Backends, NEW a \in BOOLEAN, NEW rt \in ResponseTimes,
               Publish(b, a, rt)
        PROVE  /\ Record(responseTime' # responseTime) /\ label' = label /\ mode' = mode
               /\ InProgress /\ query' = query
    BY <2>1 DEF Publish
  <2>2. ASSUME NEW b \in Backends, NEW e \in Switches, NEW p \in Priorities,
               NEW w \in Weights, NEW d \in Distances, NEW l \in BackendLabels,
               UpdateBackend(b, e, p, w, d, l)
        PROVE  /\ Record(<<priority, weight, distance, label>>' # <<priority, weight, distance, label>>)
               /\ mode' = mode /\ InProgress
               /\ query' = query \/ query' = [query EXCEPT !.at = "disturbed"]
    BY <2>2 DEF UpdateBackend
  <2>3. QED
    BY <2>1, <2>2 DEF Change
<1>2. /\ seen'.moved = (seen.moved \/ moved) /\ seen'.steady \subseteq seen.steady
      /\ seen.moved \in BOOLEAN /\ query \in QueryStates
  BY <1>1 DEF Record, Seen, SInv, IInv, TypeOK, SeenStates
<1>3. /\ query'.client = query.client /\ query'.pass = query.pass
      /\ query'.todo = query.todo /\ query'.picked = query.picked
      /\ query'.at = query.at \/ query'.at = "disturbed"
  BY <1>1, <1>2 DEF QueryStates
<1>4. query.at # "idle"
  BY <1>1 DEF InProgress
<1>5. ASSUME mode = "geoip", ~seen'.moved PROVE Owing'
  <2>1. Owing /\ label' = label
    BY <1>1, <1>2, <1>4, <1>5 DEF GeoInv
  <2>2. \A b, level : Fits(b, level)' = Fits(b, level)
    BY <1>3, <2>1, SameFits
  <2>3. QED
    BY <1>2, <1>3, <2>1, <2>2 DEF Owing, Todo
<1>6. QED
  BY <1>1, <1>2, <1>3, <1>4, <1>5, GeoStep

LEMMA StepGeo == SInv /\ GeoInv /\ [Next]_vars => GeoInv'
<1>1. SUFFICES ASSUME SInv, GeoInv, [Next]_vars PROVE GeoInv'
  OBVIOUS
<1>2. CASE Leave
  BY <1>2 DEF Leave, NoQuery, GeoInv
<1>3. CASE UNCHANGED vars
  <2>1. /\ query' = query /\ seen' = seen /\ mode' = mode /\ label' = label
    BY <1>3 DEF vars, backendVars
  <2>2. \A b, level : Fits(b, level)' = Fits(b, level)
    BY <2>1, SameFits
  <2>3. QED
    BY <1>1, <2>1, <2>2 DEF GeoInv, Spent, Owing, Todo
<1>4. QED
  BY <1>1, <1>2, <1>3, ArriveGeo, SortGeo, VisitGeo, EndOfPassGeo, ChangeGeo DEF Next

\* geoip answers by its levels in their order, for any labels, any client and any
\* changes of the other backends under its passes.
THEOREM LevelsAlwaysInOrder == Spec => []LevelsInOrder
<1>1. Init => GeoInv
  BY DEF Init, NoQuery, GeoInv
<1>2. GeoInv => LevelsInOrder
  BY DEF GeoInv, Spent, LevelsInOrder
<1>3. QED
  BY <1>1, <1>2, InitSInv, StepSInv, StepGeo, PTL DEF Spec

----------------------------------------------------------------------------
(***************************************************************************)
(* Sums of weights.  The fold of the model is a recursive function, whose  *)
(* value no induction theorem with an operator parameter can reach here;   *)
(* SetInduction, about a set of numbers, takes their place.                *)
(***************************************************************************)

\* Every set of natural numbers has a least element.
LEMMA LeastNatural ==
    ASSUME NEW T \in SUBSET Nat, T # {}
    PROVE  \E n \in T : \A m \in T : n <= m
<1> DEFINE R == OpToRel(<, Nat)
<1>1. IsWellFoundedOn(R, Nat)
  BY NatLessThanWellFounded
<1>2. \A a, b \in Nat : a < b => <<a, b>> \in R
  BY DEF OpToRel
<1> HIDE DEF R
<1>3. PICK n \in T : \A m \in T : ~(<<m, n>> \in R)
  BY <1>1, WFMin
<1>4. ASSUME NEW m \in T PROVE n <= m
  <2>1. m \in Nat /\ n \in Nat /\ ~(m < n)
    BY <1>2, <1>3
  <2>2. QED
    BY <2>1
<1>5. QED
  BY <1>4

\* Induction, for a set of natural numbers.
LEMMA SetInduction ==
    ASSUME NEW T \in SUBSET Nat, 0 \in T, \A n \in T : n + 1 \in T
    PROVE  T = Nat
<1>1. SUFFICES ASSUME Nat \ T # {} PROVE FALSE
  OBVIOUS
<1>2. PICK n \in Nat \ T : \A m \in Nat \ T : n <= m
  BY <1>1, LeastNatural
<1>3. n - 1 \in Nat /\ ~(n <= n - 1) /\ (n - 1) + 1 = n
  BY <1>2
<1>4. n - 1 \in T
  BY <1>2, <1>3
<1>5. QED
  BY <1>2, <1>3, <1>4

\* G maps the sets of backends to the sums of their weights.
Weighs(G, B) ==
    /\ G[{}] = 0
    /\ \A T \in SUBSET B : \A b \in T : G[T] = GetWeight(b) + G[T \ {b}]

\* Whatever the element the fold takes first.
LEMMA FoldOfWeights ==
    ASSUME NEW B, IsFiniteSet(B), NEW G \in [SUBSET B -> Nat], Weighs(G, B)
    PROVE  MapThenSumSet(GetWeight, B) = G[B]
<1> DEFINE F(h) == [T \in SUBSET B |->
                      IF T = {} THEN 0
                      ELSE GetWeight(CHOOSE x \in T : TRUE) + h[T \ {CHOOSE x \in T : TRUE}]]
           iter == CHOOSE h : h = F(h)
<1>1. MapThenSumSet(GetWeight, B) = iter[B]
  BY DEF MapThenSumSet, MapThenFoldSet
<1>2. G = F(G)
  <2>1. ASSUME NEW T \in SUBSET B, T # {}
        PROVE  G[T] = GetWeight(CHOOSE x \in T : TRUE) + G[T \ {CHOOSE x \in T : TRUE}]
    BY <2>1 DEF Weighs
  <2>2. \A T \in SUBSET B : G[T] = F(G)[T]
    BY <2>1 DEF Weighs
  <2> HIDE DEF F
  <2>3. F(G) = [T \in SUBSET B |-> F(G)[T]]
    BY DEF F
  <2>4. G = [T \in SUBSET B |-> G[T]]
    OBVIOUS
  <2>5. QED
    BY <2>2, <2>3, <2>4
<1>3. iter = F(iter)
  BY <1>2
<1> HIDE DEF iter
<1>4. /\ iter[{}] = 0
      /\ \A T \in SUBSET B : T # {} =>
           iter[T] = GetWeight(CHOOSE x \in T : TRUE) + iter[T \ {CHOOSE x \in T : TRUE}]
  <2>1. \A T \in SUBSET B : iter[T] = F(iter)[T]
    BY <1>3
  <2>2. QED
    BY <2>1
<1> HIDE DEF F
<1> DEFINE N == {n \in Nat : \A T \in SUBSET B : Cardinality(T) = n => iter[T] = G[T]}
<1>5. ASSUME NEW T \in SUBSET B
      PROVE  IsFiniteSet(T) /\ Cardinality(T) \in Nat
  BY FS_Subset, FS_CardinalityType
<1>6. 0 \in N
  <2>1. \A T \in SUBSET B : Cardinality(T) = 0 => T = {}
    BY <1>5, FS_EmptySet
  <2>2. QED
    BY <1>4, <2>1 DEF Weighs
<1>7. ASSUME NEW n \in N PROVE n + 1 \in N
  <2>1. SUFFICES ASSUME NEW T \in SUBSET B, Cardinality(T) = n + 1 PROVE iter[T] = G[T]
    OBVIOUS
  <2>2. T # {}
    BY <2>1, FS_EmptySet
  <2> DEFINE b == CHOOSE x \in T : TRUE
  <2>3. b \in T
    BY <2>2
  <2> HIDE DEF b
  <2>4. Cardinality(T \ {b}) = (n + 1) - 1 /\ T \ {b} \in SUBSET B
    BY <1>5, <2>1, <2>3, FS_RemoveElement
  <2>5. (n + 1) - 1 = n
    OBVIOUS
  <2>6. iter[T \ {b}] = G[T \ {b}]
    BY <2>4, <2>5
  <2>7. iter[T] = GetWeight(b) + iter[T \ {b}]
    BY <1>4, <2>2 DEF b
  <2>8. G[T] = GetWeight(b) + G[T \ {b}]
    BY <2>3 DEF Weighs
  <2>9. QED
    BY <2>6, <2>7, <2>8
<1>8. N = Nat
  <2>1. N \in SUBSET Nat
    OBVIOUS
  <2> HIDE DEF N
  <2>2. QED
    BY <1>6, <1>7, <2>1, SetInduction
<1>9. iter[B] = G[B]
  BY <1>5, <1>8
<1>10. QED
  BY <1>1, <1>9

\* The first k elements of a sequence.
FirstOf(s, k) == {s[i] : i \in 1..k}

\* The sums of weights of the first k backends of a sequence agree with f.
Weighed(s, f, k) ==
    \E G \in [SUBSET FirstOf(s, k) -> Nat] :
        Weighs(G, FirstOf(s, k)) /\ f[0] + G[FirstOf(s, k)] = f[k]

\* One more backend.
LEMMA OneMoreWeighed ==
    ASSUME NEW B, NEW G \in [SUBSET B -> Nat], Weighs(G, B), NEW a, a \notin B,
           \A b \in B \cup {a} : GetWeight(b) \in Nat
    PROVE  \E H \in [SUBSET (B \cup {a}) -> Nat] :
             Weighs(H, B \cup {a}) /\ H[B \cup {a}] = GetWeight(a) + G[B]
<1> DEFINE C == B \cup {a}
           V(T) == IF a \in T THEN GetWeight(a) + G[T \ {a}] ELSE G[T]
           H == [T \in SUBSET C |-> V(T)]
<1>1. \A T \in SUBSET C : T \ {a} \in SUBSET B /\ (a \notin T => T \in SUBSET B)
  OBVIOUS
<1>2. a \in C /\ C \ {a} = B /\ \A b \in C : GetWeight(b) \in Nat
  OBVIOUS
<1>3. \A T \in SUBSET B : G[T] \in Nat
  OBVIOUS
<1> HIDE DEF C
<1>4. ASSUME NEW T \in SUBSET C
      PROVE  /\ V(T) \in Nat
             /\ \A b \in T : V(T) = GetWeight(b) + V(T \ {b})
  <2>1. V(T) \in Nat
    <3>1. GetWeight(a) \in Nat /\ G[T \ {a}] \in Nat /\ (a \notin T => G[T] \in Nat)
      BY <1>1, <1>2, <1>3
    <3>2. QED
      BY <3>1
  <2>2. ASSUME NEW b \in T PROVE V(T) = GetWeight(b) + V(T \ {b})
    <3>1. CASE b = a
      BY <3>1
    <3>2. CASE b # a /\ a \notin T
      <4>1. T \in SUBSET B
        BY <1>1, <3>2
      <4>2. G[T] = GetWeight(b) + G[T \ {b}]
        BY <4>1 DEF Weighs
      <4>3. QED
        BY <3>2, <4>2
    <3>3. CASE b # a /\ a \in T
      <4>1. /\ T \ {a} \in SUBSET B /\ b \in T \ {a} /\ (T \ {a}) \ {b} = (T \ {b}) \ {a}
            /\ (T \ {b}) \ {a} \in SUBSET B
        BY <1>1, <3>3
      <4>2. G[T \ {a}] = GetWeight(b) + G[(T \ {b}) \ {a}]
        BY <4>1 DEF Weighs
      <4>3. V(T) = GetWeight(a) + G[T \ {a}] /\ V(T \ {b}) = GetWeight(a) + G[(T \ {b}) \ {a}]
        BY <3>3
      <4>4. GetWeight(a) \in Nat /\ GetWeight(b) \in Nat /\ G[(T \ {b}) \ {a}] \in Nat
        BY <1>2, <1>3, <4>1
      <4> HIDE DEF V
      <4>5. QED
        BY <4>2, <4>3, <4>4
    <3>4. QED
      BY <3>1, <3>2, <3>3
  <2>3. QED
    BY <2>1, <2>2
<1>5. V({}) = 0 /\ V(C) = GetWeight(a) + G[B]
  BY <1>2 DEF Weighs
<1> HIDE DEF V
<1>6. H \in [SUBSET C -> Nat]
  BY <1>4
<1>7. \A T \in SUBSET C : H[T] = V(T)
  OBVIOUS
<1> HIDE DEF H
<1>8. {} \in SUBSET C /\ C \in SUBSET C /\ \A T \in SUBSET C, b \in C : T \ {b} \in SUBSET C
  OBVIOUS
<1>9. Weighs(H, C)
  <2>1. H[{}] = 0
    BY <1>5, <1>7, <1>8
  <2>2. ASSUME NEW T \in SUBSET C, NEW b \in T PROVE H[T] = GetWeight(b) + H[T \ {b}]
    <3>1. T \ {b} \in SUBSET C
      OBVIOUS
    <3>2. QED
      BY <1>4, <1>7, <3>1
  <2>3. QED
    BY <2>1, <2>2 DEF Weighs
<1>10. H[C] = GetWeight(a) + G[B]
  BY <1>5, <1>7, <1>8
<1>11. QED
  BY <1>6, <1>9, <1>10 DEF C

\* f adds up the weights of the backends of a sequence.
LEMMA PrefixWeighs ==
    ASSUME NEW s \in Seq(Backends), IsInjective(s), NEW f \in [0..Len(s) -> Nat],
           \A i \in 1..Len(s) : f[i] = f[i - 1] + GetWeight(s[i]),
           \A b \in Backends : GetWeight(b) \in Nat
    PROVE  \E G \in [SUBSET Range(s) -> Nat] :
             Weighs(G, Range(s)) /\ f[0] + G[Range(s)] = f[Len(s)]
<1> DEFINE N == {k \in Nat : k <= Len(s) => Weighed(s, f, k)}
<1>1. /\ Len(s) \in Nat /\ DOMAIN s = 1..Len(s) /\ \A i \in 1..Len(s) : s[i] \in Backends
      /\ \A i \in 0..Len(s) : f[i] \in Nat
  OBVIOUS
<1>2. FirstOf(s, Len(s)) = Range(s)
  BY <1>1 DEF FirstOf, Range
<1>3. 0 \in N
  <2>1. FirstOf(s, 0) = {}
    BY DEF FirstOf
  <2> DEFINE G == [T \in SUBSET {} |-> 0]
  <2>2. G \in [SUBSET {} -> Nat] /\ Weighs(G, {}) /\ G[{}] = 0
    BY DEF Weighs
  <2>3. f[0] + 0 = f[0]
    BY <1>1
  <2> HIDE DEF G
  <2>4. \E g \in [SUBSET {} -> Nat] : Weighs(g, {}) /\ f[0] + g[{}] = f[0]
    BY <2>2, <2>3
  <2>5. Weighed(s, f, 0)
    BY <2>1, <2>4 DEF Weighed
  <2>6. QED
    BY <2>5
<1>4. ASSUME NEW k \in N PROVE k + 1 \in N
  <2>1. k \in Nat /\ (k <= Len(s) => Weighed(s, f, k))
    OBVIOUS
  <2>2. ASSUME k + 1 <= Len(s) PROVE Weighed(s, f, k + 1)
    <3>1. k <= Len(s) /\ k + 1 \in 1..Len(s) /\ (k + 1) - 1 = k /\ k \in 0..Len(s)
      BY <1>1, <2>1, <2>2
    <3> HIDE DEF N
    <3>2. PICK G \in [SUBSET FirstOf(s, k) -> Nat] :
            Weighs(G, FirstOf(s, k)) /\ f[0] + G[FirstOf(s, k)] = f[k]
      BY <2>1, <3>1 DEF Weighed
    <3>3. PICK a : a = s[k + 1]
      OBVIOUS
    <3>4. PICK B : B = FirstOf(s, k)
      OBVIOUS
    <3>5. FirstOf(s, k + 1) = B \cup {a}
      <4>1. 1..(k + 1) = (1..k) \cup {k + 1}
        <5>1. k \in Nat
          BY <2>1
        <5>2. QED
          BY <5>1
      <4>2. {s[i] : i \in 1..(k + 1)} = {s[i] : i \in 1..k} \cup {s[k + 1]}
        BY <4>1
      <4>3. QED
        BY <3>3, <3>4, <4>2 DEF FirstOf
    <3>6. a \notin B
      <4>1. \A i \in 1..k : i \in 1..Len(s) /\ i # k + 1
        BY <1>1, <2>1, <3>1
      <4>2. \A i \in 1..k : s[i] # s[k + 1]
        BY <1>1, <3>1, <4>1 DEF IsInjective
      <4>3. QED
        BY <3>3, <3>4, <4>2 DEF FirstOf
    <3>7. \A b \in B \cup {a} : b \in Backends
      <4>1. \A i \in 1..k : i \in 1..Len(s)
        BY <1>1, <2>1, <3>1
      <4>2. QED
        BY <1>1, <3>1, <3>3, <3>4, <4>1 DEF FirstOf
    <3>8. PICK H \in [SUBSET (B \cup {a}) -> Nat] :
            Weighs(H, B \cup {a}) /\ H[B \cup {a}] = GetWeight(a) + G[B]
      <4>1. G \in [SUBSET B -> Nat] /\ Weighs(G, B)
        BY <3>2, <3>4
      <4>2. QED
        BY <3>6, <3>7, <4>1, OneMoreWeighed
    <3>9. f[0] + H[B \cup {a}] = f[k + 1]
      <4>1. G[B] \in Nat /\ GetWeight(a) \in Nat /\ f[0] \in Nat /\ f[k] \in Nat
        <5>1. G[B] \in Nat
          BY <3>2, <3>4
        <5>2. 0 \in 0..Len(s)
          BY <1>1
        <5>3. QED
          BY <1>1, <3>1, <3>7, <5>1, <5>2
      <4>2. f[k + 1] = f[k] + GetWeight(a) /\ f[0] + G[B] = f[k]
        BY <3>1, <3>2, <3>3, <3>4
      <4>3. QED
        BY <3>8, <4>1, <4>2
    <3>10. QED
      BY <3>5, <3>8, <3>9 DEF Weighed
  <2>3. QED
    BY <2>1, <2>2
<1>5. N = Nat
  <2>1. N \in SUBSET Nat
    OBVIOUS
  <2> HIDE DEF N
  <2>2. QED
    BY <1>3, <1>4, <2>1, SetInduction
<1>6. Weighed(s, f, Len(s))
  <2>1. Len(s) \in N
    BY <1>1, <1>5
  <2>2. Len(s) <= Len(s)
    BY <1>1
  <2>3. QED
    BY <2>1, <2>2
<1>7. QED
  BY <1>2, <1>6 DEF Weighed

\* What the fold makes of the elements of a sequence.
LEMMA SumOfSequence ==
    ASSUME NEW s \in Seq(Backends), IsInjective(s), NEW f \in [0..Len(s) -> Nat],
           \A i \in 1..Len(s) : f[i] = f[i - 1] + GetWeight(s[i]),
           \A b \in Backends : GetWeight(b) \in Nat
    PROVE  f[0] + MapThenSumSet(GetWeight, Range(s)) = f[Len(s)]
<1>1. PICK G \in [SUBSET Range(s) -> Nat] :
        Weighs(G, Range(s)) /\ f[0] + G[Range(s)] = f[Len(s)]
  BY PrefixWeighs
<1>2. IsFiniteSet(Range(s))
  <2>1. s \in Surjection(1..Len(s), Range(s)) /\ Len(s) \in Nat
    BY DEF Surjection, Range
  <2>2. IsFiniteSet(1..Len(s))
    BY <2>1, FS_Interval
  <2>3. QED
    BY <2>1, <2>2, FS_Surjection
<1>3. QED
  BY <1>1, <1>2, FoldOfWeights

----------------------------------------------------------------------------
(***************************************************************************)
(* The interval of the wheel.                                              *)
(***************************************************************************)

\* The wheel stopped in the interval of the backend it answers with.
BallInv ==
    (~seen.moved /\ Chosen /\ query.pass = "weighted") =>
        query.sum <= query.ball /\ query.ball < query.sum + GetWeight(query.picked[1])

LEMMA WeightsTyped ==
    ASSUME TypeOK
    PROVE  \A b \in Backends : GetWeight(b) \in Nat
<1>1. \A b \in Backends : weight[b] \in Int
  BY ModeTyped DEF TypeOK
<1>2. QED
  BY <1>1 DEF GetWeight

\* What the wheel has passed and what it has still to pass make up the total.
LEMMA WheelCounts ==
    ASSUME SInv, ~seen.moved, query.at = "wheel"
    PROVE  /\ query.sum <= query.ball /\ query.ball < query.total
           /\ query.sum + MapThenSumSet(GetWeight, Range(query.todo)) = query.total
<1>1. PICK f \in [0..Len(query.picked) -> Nat], n \in 0..Len(query.picked) : Wheel(f, n)
  BY DEF SInv, ScanInv, KnownInv, WheelInv
<1>2. query.todo \in Seq(Backends) /\ query.picked \in Seq(Backends)
  BY DEF SInv, IInv, TypeOK, QueryStates
<1>3. PICK k \in Nat : k = Len(query.todo)
  BY <1>2
<1>4. PICK m \in Nat : m = Len(query.picked)
  BY <1>2
<1>5. /\ n + k = m /\ n \in 0..m /\ f \in [0..m -> Nat]
      /\ \A i \in 1..k : query.todo[i] = query.picked[n + i]
      /\ \A i \in 1..m : f[i] = f[i - 1] + GetWeight(query.picked[i])
      /\ query.sum = f[n] /\ query.total = f[m]
      /\ query.sum <= query.ball /\ query.ball < query.total
  BY <1>1, <1>3, <1>4 DEF Wheel, Sums
<1>6. \A i \in 1..k : n + i \in 1..m /\ n + (i - 1) = (n + i) - 1
  BY <1>5
<1>7. IsInjective(query.todo)
  <2>1. /\ DOMAIN query.todo = 1..k /\ DOMAIN query.picked = 1..m
    BY <1>2, <1>3, <1>4
  <2>2. \A i, j \in 1..m : query.picked[i] = query.picked[j] => i = j
    BY <2>1 DEF SInv, ScanInv, DistinctInv, IsInjective
  <2>3. ASSUME NEW i \in 1..k, NEW j \in 1..k, query.todo[i] = query.todo[j] PROVE i = j
    <3>1. query.picked[n + i] = query.picked[n + j]
      BY <1>5, <2>3
    <3>2. n + i \in 1..m /\ n + j \in 1..m
      BY <1>6
    <3>3. n + i = n + j
      BY <2>2, <3>1, <3>2
    <3>4. QED
      BY <1>5, <3>3
  <2>4. QED
    BY <2>1, <2>3 DEF IsInjective
<1> DEFINE G == [i \in 0..k |-> f[n + i]]
<1>8. /\ G \in [0..k -> Nat] /\ G[0] = f[n] /\ G[k] = f[m]
      /\ \A i \in 1..k : G[i] = G[i - 1] + GetWeight(query.todo[i])
  <2>1. \A i \in 0..k : n + i \in 0..m
    BY <1>5
  <2>2. n + 0 = n /\ 0 \in 0..k /\ k \in 0..k
    BY <1>5
  <2>3. \A i \in 1..k : i \in 0..k /\ i - 1 \in 0..k
    BY <1>5
  <2>4. \A i \in 1..k : G[i] = f[n + i] /\ G[i - 1] = f[(n + i) - 1]
    BY <1>6, <2>3
  <2>5. G \in [0..k -> Nat]
    BY <1>5, <2>1
  <2>6. G[0] = f[n] /\ G[k] = f[m]
    BY <1>5, <2>2
  <2> HIDE DEF G
  <2>7. \A i \in 1..k : G[i] = G[i - 1] + GetWeight(query.todo[i])
    BY <1>5, <1>6, <2>4
  <2>8. QED
    BY <2>5, <2>6, <2>7
<1> HIDE DEF G
<1>9. PICK g \in [0..k -> Nat] :
        /\ g[0] = f[n] /\ g[k] = f[m]
        /\ \A i \in 1..k : g[i] = g[i - 1] + GetWeight(query.todo[i])
  BY <1>8
<1>10. \A b \in Backends : GetWeight(b) \in Nat
  BY WeightsTyped DEF SInv, IInv
<1>11. g[0] + MapThenSumSet(GetWeight, Range(query.todo)) = g[k]
  BY <1>2, <1>3, <1>7, <1>9, <1>10, SumOfSequence
<1>12. QED
  BY <1>5, <1>9, <1>11

\* Only the wheel answers for the weighted mode.
LEMMA AnsweredByWheel ==
    ASSUME SInv, Next, query'.at = "answered", query'.pass = "weighted"
    PROVE  TurnWheel /\ query.ball < query.sum + GetWeight(Current) /\ Answer(<<Current>>)
<1>1. query \in QueryStates
  BY DEF SInv, IInv, TypeOK
<1>2. \A q \in QueryStates, p \in Passes : Pass(q, p).at # "answered"
  BY PassTyped
<1>3. ASSUME NEW t \in Range(Family), NEW c \in Clients, Arrive(t, c) PROVE FALSE
  <2>1. [query EXCEPT !.type = t, !.client = c] \in QueryStates
    BY <1>1 DEF QueryStates
  <2>2. FirstPass(mode, c) \in Passes
    BY PassesTyped DEF SInv, IInv, TypeOK
  <2>3. QED
    BY <1>2, <1>3, <2>1, <2>2 DEF Arrive
<1>4. CASE Sort
  BY <1>1, <1>4 DEF Sort, QueryStates
<1>5. CASE Visit
  BY <1>5, VisitVisited DEF SInv, Visited
<1>6. CASE Leave
  BY <1>6 DEF Leave, NoQuery
<1>7. CASE Change
  BY <1>1, <1>7 DEF Change, Publish, UpdateBackend, InProgress, QueryStates
<1>8. CASE EndOfPass
  <2>1. CASE NothingFound
    <3>1. After(query.pass) \in Passes
      BY <1>1, PassesTyped DEF QueryStates
    <3>2. QED
      BY <1>1, <1>2, <2>1, <3>1 DEF NothingFound, QueryStates
  <2>2. ASSUME NEW addresses, Answer(addresses), query.pass # "weighted" PROVE FALSE
    BY <1>1, <2>2, AnswerFields
  <2>3. CASE AnswerPicked \/ AnswerRandom \/ AnswerRoundRobin
    BY <2>2, <2>3 DEF AnswerPicked, AnswerRandom, AnswerRoundRobin, PassOver
  <2>4. CASE AnswerFastest
    <3>1. "failover" \in Passes
      BY DEF Passes
    <3>2. QED
      BY <1>1, <1>2, <2>2, <2>4, <3>1 DEF AnswerFastest, PassOver
  <2>5. CASE ThrowBall
    BY <1>1, <2>5 DEF ThrowBall, QueryStates
  <2>6. CASE TurnWheel
    <3>1. CASE query.ball < query.sum + GetWeight(Current)
      BY <2>6, <3>1 DEF TurnWheel
    <3>2. CASE ~(query.ball < query.sum + GetWeight(Current))
      BY <1>1, <2>6, <3>2 DEF TurnWheel, Passed, QueryStates
    <3>3. QED
      BY <3>1, <3>2
  <2>7. CASE WheelFails
    <3>1. After("weighted") \in Passes
      BY DEF After, Passes
    <3>2. QED
      BY <1>1, <1>2, <2>7, <3>1 DEF WheelFails
  <2>8. QED
    BY <1>8, <2>1, <2>3, <2>4, <2>5, <2>6, <2>7 DEF EndOfPass
<1>9. QED
  BY <1>3, <1>4, <1>5, <1>6, <1>7, <1>8 DEF Next

LEMMA StepBall == SInv /\ BallInv /\ [Next]_vars => BallInv'
<1>1. SUFFICES ASSUME SInv, BallInv, [Next]_vars,
                      (~seen.moved /\ Chosen /\ query.pass = "weighted")'
               PROVE  (/\ query.sum <= query.ball
                       /\ query.ball < query.sum + GetWeight(query.picked[1]))'
  BY DEF BallInv
<1>2. query'.at = "answered" /\ query'.pass = "weighted" /\ ~seen'.moved
  BY <1>1 DEF Chosen
<1>3. CASE Next
  <2>1. /\ query.ball < query.sum + GetWeight(Current)
        /\ query.at = "wheel" /\ UNCHANGED <<mode, backendVars, seen>>
        /\ Answer(<<Current>>)
    BY <1>1, <1>2, <1>3, AnsweredByWheel DEF TurnWheel
  <2>2. query'.sum = query.sum /\ query'.ball = query.ball /\ query'.picked = <<Current>>
    BY <1>1, <2>1 DEF Answer, SInv, IInv, TypeOK, QueryStates
  <2>3. query.sum <= query.ball
    BY <1>1, <1>2, <2>1, WheelCounts
  <2>4. query'.picked[1] = Current
    BY <2>2
  <2>5. GetWeight(query.picked[1])' = GetWeight(Current)
    BY <2>1, <2>4 DEF GetWeight, backendVars
  <2>6. QED
    BY <2>1, <2>2, <2>3, <2>5
<1>4. CASE UNCHANGED vars
  BY <1>1, <1>4 DEF BallInv, Chosen, vars, backendVars, GetWeight
<1>5. QED
  BY <1>1, <1>3, <1>4

\* Every value of the ball belongs to one backend, and a backend of weight w to w
\* values, as long as no weight changes under the query.
THEOREM WheelAlwaysProportional == Spec => []WheelIsProportional
<1>1. Init => BallInv
  BY DEF Init, NoQuery, BallInv, Chosen
<1>2. SInv /\ BallInv => WheelIsProportional
  BY WheelCounts DEF BallInv, WheelIsProportional
<1>3. QED
  BY <1>1, <1>2, InitSInv, StepSInv, StepBall, PTL DEF Spec
=============================================================================
