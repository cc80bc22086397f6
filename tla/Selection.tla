----------------------------- MODULE Selection -----------------------------
(***************************************************************************)
(* The answer to one A or AAAA query for a record (handleIPRecord,         *)
(* pickResponse and the functions of gslb_mode.go), while health checks    *)
(* publish results and a reload updates the backends it reads.             *)
(*                                                                         *)
(* Every mode is a pass over record.Backends that looks at the backends    *)
(* one after the other, under no lock that covers two of them (only        *)
(* roundrobin and random keep a reload out, by holding g.Mutex); a visit   *)
(* of a backend is one step.  A pass that finds nothing is followed by     *)
(* another one: geoip is four passes and failover, nearest ends in         *)
(* failover, and after all comes the pass of pickAllAddresses.             *)
(*                                                                         *)
(* The list of backends is fixed here.  Which of its candidates roundrobin *)
(* takes is left open: that is RoundRobin.tla.                             *)
(***************************************************************************)
EXTENDS Integers, Sequences, FiniteSets, SequencesExt

CONSTANTS
    Order,         \* record.Backends, as a sequence
    Family,        \* the record type each backend's address is for
    Modes,         \* the modes the record may have
    Labels,        \* the values of country, city, ASN and location
    Unknown,       \* what a GeoIP database says of a client it does not know
    Ranges,        \* by mode: the values of the fields of a backend, and the clients
    Infinity,      \* bound: above every distance and response time
    MaxChanges     \* bound: changes of backends during one query

Backends == Range(Order)

\* Country, City, ASN and Location of a backend.
LabelType == [country : Labels, city : Labels, asn : Labels, location : Labels]

\* "country", "city" and "asn": what the GeoIP databases say of the client;
\* "locations": those of the subnets that contain it; "located": the city
\* database knows it.
ClientType ==
    [country : Labels \cup {Unknown}, city : Labels \cup {Unknown},
     asn : Labels \cup {Unknown}, locations : SUBSET Labels, located : BOOLEAN]

\* Bound: a mode needs several values only of what it reads.  A response time of
\* 0 is one not measured; a distance is that of the backend's coordinates to the
\* client, Infinity for a backend without any.
IsRanges(ranges) ==
    /\ DOMAIN ranges = Modes
    /\ \A m \in Modes :
         /\ ranges[m].enable \subseteq BOOLEAN
         /\ ranges[m].priority \subseteq Int
         /\ ranges[m].weight \subseteq Int
         /\ ranges[m].responseTime \subseteq 0..(Infinity - 1)
         /\ ranges[m].distance \subseteq 0..Infinity
         /\ ranges[m].label \subseteq LabelType
         /\ ranges[m].client \subseteq ClientType
         /\ ranges[m].client # {}

\* Record.Mode is not validated: "unsupported" stands for any other text.
SupportedModes ==
    {"failover", "roundrobin", "random", "weighted", "nearest", "fastest", "geoip"}

AllModes == SupportedModes \cup {"unsupported"}

ASSUME ConstantsAssumption ==
    /\ Order \in Seq(Backends)
    /\ IsInjective(Order)
    /\ Modes \subseteq AllModes
    /\ Infinity \in Nat
    /\ Unknown \notin Labels
    /\ IsRanges(Ranges)
    /\ MaxChanges \in Nat

VARIABLES
    mode,  \* record.Mode
    alive, enable, priority, weight, responseTime, distance, label,
           \* the fields of the backends
    query, \* the query being answered
    seen   \* history: what happened since it arrived

backendVars == <<alive, enable, priority, weight, responseTime, distance, label>>
vars == <<mode, backendVars, query, seen>>

Switches == Ranges[mode].enable
Priorities == Ranges[mode].priority
Weights == Ranges[mode].weight
ResponseTimes == Ranges[mode].responseTime
Distances == Ranges[mode].distance
BackendLabels == Ranges[mode].label
Clients == Ranges[mode].client

Passes == {"failover", "roundrobin", "random", "weighted", "nearest", "fastest",
           "country", "city", "asn", "location", "all"}

\* The state of a query that has not arrived; `c` is of no consequence.
NoQuery(c) == [at |-> "idle", pass |-> "all", type |-> "none", client |-> c, todo |-> <<>>,
               picked |-> <<>>, best |-> 0, total |-> 0, sum |-> 0, ball |-> 0]

Healthy == {b \in Backends : alive[b] /\ enable[b]}

Enabled == {b \in Backends : enable[b]}

\* "steady": healthy since the query arrived.  "healthy", "enabled": healthy,
\* enabled at some moment since.  "moved": a priority, a weight, a response time,
\* coordinates or a label changed.
Seen(changes, moved, steady, healthy, enabled) ==
    [changes |-> changes, moved |-> moved, steady |-> steady,
     healthy |-> healthy, enabled |-> enabled]

NothingSeen == Seen(0, FALSE, {}, {}, {})

Init ==
    /\ mode \in Modes
    /\ alive \in [Backends -> BOOLEAN]
    /\ enable \in [Backends -> Switches]
    /\ priority \in [Backends -> Priorities]
    /\ weight \in [Backends -> Weights]
    /\ responseTime \in [Backends -> ResponseTimes]
    /\ distance \in [Backends -> Distances]
    /\ label \in [Backends -> BackendLabels]
    /\ query = NoQuery(CHOOSE c \in Clients : TRUE)
    /\ seen = NothingSeen

----------------------------------------------------------------------------
(***************************************************************************)
(* The passes.                                                             *)
(***************************************************************************)

\* minPriority := -1
NoPriority == -1

\* The state of a query at the start of a pass.
Pass(q, p) ==
    [q EXCEPT !.at = IF p = "failover" THEN "sort" ELSE "visit",
              !.pass = p, !.todo = Order, !.picked = <<>>, !.total = 0,
              !.best = IF p = "failover" THEN NoPriority ELSE Infinity]

\* The pass after one that found nothing.
After(p) ==
    CASE p = "country" -> "city"
      [] p = "city" -> "asn"
      [] p = "asn" -> "location"
      [] p \in {"location", "nearest"} -> "failover"
      [] OTHER -> "all"

\* pickBackendWithNearest: without a database, or a client it knows, failover.
NearestPass(c) == IF c.located THEN "nearest" ELSE "failover"

\* pickResponse: the first pass of a mode; one it does not know is an error, and
\* the query goes on with pickAllAddresses.
FirstPass(m, c) ==
    CASE m = "geoip" -> "country"
      [] m = "nearest" -> NearestPass(c)
      [] m = "unsupported" -> "all"
      [] OTHER -> m

Arrive(t, c) ==
    /\ query.at = "idle"
    /\ query' = Pass([query EXCEPT !.type = t, !.client = c], FirstPass(mode, c))
    /\ seen' = Seen(0, FALSE, Healthy, Healthy, Enabled)
    /\ UNCHANGED <<mode, backendVars>>

\* Mutant of Sort: the backends keep the order of the record.
SortDropped ==
    /\ query.at \in {"sort", "disturbed"}
    /\ query' = [query EXCEPT !.at = "visit", !.todo = Order]
    /\ UNCHANGED <<mode, backendVars, seen>>

\* sort.Slice by priority, which is not stable; a priority that changes under
\* the sort ("disturbed") may leave any order.
Sort ==
    /\ query.at \in {"sort", "disturbed"}
    /\ \E order \in SetToSeqs(Backends) :
         /\ query.at = "sort" =>
              \A i, j \in DOMAIN order : i < j => priority[order[i]] <= priority[order[j]]
         /\ query' = [query EXCEPT !.at = "visit", !.todo = order]
    /\ UNCHANGED <<mode, backendVars, seen>>

Current == Head(query.todo)

\* IsHealthy and the test of the address against the type of the query.
Candidate == Current \in Healthy /\ Family[Current] = query.type

Visiting(passes) ==
    /\ query.at = "visit"
    /\ query.pass \in passes
    /\ query.todo # <<>>
    /\ UNCHANGED <<mode, backendVars, seen>>

\* The query after a visit that takes the backend, and after one that does not.
Taken(q) == [q EXCEPT !.todo = Tail(@), !.picked = Append(@, Head(q.todo))]

Passed(q) == [q EXCEPT !.todo = Tail(@)]

\* The query when the backend replaces the one found before.
Improved(q, value) ==
    [q EXCEPT !.todo = Tail(@), !.picked = <<Head(q.todo)>>, !.best = value]

\* Mutant of VisitFailover: the break is taken before the health is looked at.
VisitFailoverBreaksEarly ==
    /\ Visiting({"failover"})
    /\ LET min == IF query.best = NoPriority THEN priority[Current] ELSE query.best IN
       query' = IF priority[Current] # min
                THEN [query EXCEPT !.todo = <<>>]
                ELSE IF Candidate
                THEN [Taken(query) EXCEPT !.best = min]
                ELSE [Passed(query) EXCEPT !.best = min]

\* The first candidate sets minPriority, the first one of another priority ends
\* the pass; a minPriority of -1 looks as if it was not set.
VisitFailover ==
    /\ Visiting({"failover"})
    /\ LET min == IF query.best = NoPriority THEN priority[Current] ELSE query.best IN
       query' = IF ~Candidate THEN Passed(query)
                ELSE IF priority[Current] = min
                THEN [Taken(query) EXCEPT !.best = min]
                ELSE [query EXCEPT !.todo = <<>>]

\* Mutant of VisitPool: what is collected is not checked to be healthy.
VisitPoolUnchecked ==
    /\ Visiting({"roundrobin", "random"})
    /\ query' = IF Family[Current] = query.type THEN Taken(query) ELSE Passed(query)

VisitPool ==
    /\ Visiting({"roundrobin", "random"})
    /\ query' = IF Candidate THEN Taken(query) ELSE Passed(query)

\* Mutant of GetWeight: the weight as it was configured.
GetWeightRaw(b) == weight[b]

\* Backend.GetWeight
GetWeight(b) == IF weight[b] <= 0 THEN 1 ELSE weight[b]

VisitWeighted ==
    /\ Visiting({"weighted"})
    /\ query' = IF Candidate
                THEN [Taken(query) EXCEPT !.total = @ + GetWeight(Current)]
                ELSE Passed(query)

VisitNearest ==
    /\ Visiting({"nearest"})
    /\ query' = IF Candidate /\ distance[Current] < query.best
                THEN Improved(query, distance[Current]) ELSE Passed(query)

\* A backend not measured yet is kept only when nothing was found before it.
VisitFastest ==
    /\ Visiting({"fastest"})
    /\ LET rt == responseTime[Current] IN
       query' = IF Candidate /\ rt = 0 /\ query.picked = <<>> THEN Taken(query)
                ELSE IF Candidate /\ rt # 0 /\ rt < query.best
                THEN Improved(query, rt) ELSE Passed(query)

\* The backend carries what a database says of the client.
Labelled(b, p) == label[b][p] = query.client[p]

\* Mutant of VisitLabelled: the break is outside the comparison of the labels.
VisitLabelledBreaksEarly ==
    /\ Visiting({"country", "city", "asn"})
    /\ query' = IF Current \notin Healthy THEN Passed(query)
                ELSE IF Labelled(Current, query.pass)
                THEN [Taken(query) EXCEPT !.todo = <<>>]
                ELSE [query EXCEPT !.todo = <<>>]

\* geoip by country, city and ASN: the first match ends the pass.  The address
\* is not compared with the type of the query.
VisitLabelled ==
    /\ Visiting({"country", "city", "asn"})
    /\ query' = IF Current \in Healthy /\ Labelled(Current, query.pass)
                THEN [Taken(query) EXCEPT !.todo = <<>>] ELSE Passed(query)

\* geoip by location: the first subnet that contains the client decides, and the
\* order of a Go map is drawn anew for every backend.
VisitLocated ==
    /\ Visiting({"location"})
    /\ IF query.client.locations = {}
       THEN query' = Passed(query)
       ELSE \E l \in query.client.locations :
              query' = IF Current \in Healthy /\ label[Current].location = l
                       THEN Taken(query) ELSE Passed(query)

\* pickAllAddresses
VisitAny ==
    /\ Visiting({"all"})
    /\ query' = IF enable[Current] /\ Family[Current] = query.type
                THEN Taken(query) ELSE Passed(query)

----------------------------------------------------------------------------
(***************************************************************************)
(* The end of a pass.                                                      *)
(***************************************************************************)

PassOver(passes) ==
    /\ query.at = "visit"
    /\ query.pass \in passes
    /\ query.todo = <<>>
    /\ UNCHANGED <<mode, backendVars, seen>>

\* The error return: the next pass, or SERVFAIL when pickAllAddresses is empty.
NothingFound ==
    /\ PassOver(Passes)
    /\ query.picked = <<>>
    /\ query' = IF query.pass = "all" THEN [query EXCEPT !.at = "answered"]
                                      ELSE Pass(query, After(query.pass))

Answer(addresses) == query' = [query EXCEPT !.at = "answered", !.picked = addresses]

AnswerPicked ==
    /\ PassOver({"failover", "nearest", "country", "city", "asn", "location", "all"})
    /\ query.picked # <<>>
    /\ Answer(query.picked)

\* The response time is read once more: a 0 among measured ones means failover.
AnswerFastest ==
    /\ PassOver({"fastest"})
    /\ query.picked # <<>>
    /\ IF query.best # Infinity /\ responseTime[query.picked[1]] = 0
       THEN query' = Pass(query, "failover")
       ELSE Answer(query.picked)

\* Mutant of AnswerRandom: the shuffle draws each place without removal.
AnswerRandomDraws ==
    /\ PassOver({"random"})
    /\ query.picked # <<>>
    /\ \E drawn \in [DOMAIN query.picked -> Range(query.picked)] : Answer(drawn)

\* r.Shuffle
AnswerRandom ==
    /\ PassOver({"random"})
    /\ query.picked # <<>>
    /\ \E shuffled \in SetToSeqs(Range(query.picked)) : Answer(shuffled)

AnswerRoundRobin ==
    /\ PassOver({"roundrobin"})
    /\ \E i \in DOMAIN query.picked : Answer(<<query.picked[i]>>)

\* rand.Intn(totalWeight)
ThrowBall ==
    /\ PassOver({"weighted"})
    /\ query.picked # <<>>
    /\ \E ball \in 0..(query.total - 1) :
         query' = [query EXCEPT !.at = "wheel", !.todo = query.picked,
                                !.ball = ball, !.sum = 0]

\* Mutant of TurnWheel: <= for <.
TurnWheelInclusive ==
    /\ query.at = "wheel"
    /\ query.todo # <<>>
    /\ LET cumulative == query.sum + GetWeight(Current) IN
       IF query.ball <= cumulative
       THEN Answer(<<Current>>)
       ELSE query' = [Passed(query) EXCEPT !.sum = cumulative]
    /\ UNCHANGED <<mode, backendVars, seen>>

\* The weights are read again for the cumulative sum.
TurnWheel ==
    /\ query.at = "wheel"
    /\ query.todo # <<>>
    /\ LET cumulative == query.sum + GetWeight(Current) IN
       IF query.ball < cumulative
       THEN Answer(<<Current>>)
       ELSE query' = [Passed(query) EXCEPT !.sum = cumulative]
    /\ UNCHANGED <<mode, backendVars, seen>>

\* return nil, fmt.Errorf("weighted selection failed")
WheelFails ==
    /\ query.at = "wheel"
    /\ query.todo = <<>>
    /\ query' = Pass(query, After("weighted"))
    /\ UNCHANGED <<mode, backendVars, seen>>

\* The answer is sent and the query is gone.
Leave ==
    /\ query.at = "answered"
    /\ query' = NoQuery(query.client)
    /\ seen' = NothingSeen
    /\ UNCHANGED <<mode, backendVars>>

----------------------------------------------------------------------------
(***************************************************************************)
(* What happens to the backends in the meantime.                           *)
(***************************************************************************)

InProgress == query.at \notin {"idle", "answered"}

\* The history after a change of the backends.
Record(moved) ==
    seen' = Seen(seen.changes + 1, seen.moved \/ moved, seen.steady \cap Healthy',
                 seen.healthy \cup Healthy', seen.enabled \cup Enabled')

\* The end of a run of health checks: Alive and ResponseTime.
Publish(b, a, rt) ==
    /\ InProgress
    /\ seen.changes < MaxChanges
    /\ alive' = [alive EXCEPT ![b] = a]
    /\ responseTime' = [responseTime EXCEPT ![b] = rt]
    /\ <<alive, responseTime>>' # <<alive, responseTime>>
    /\ UNCHANGED <<mode, enable, priority, weight, distance, label, query>>
    /\ Record(responseTime' # responseTime)

\* updateBackend by a reload, which holds g.Mutex.  The weight it copies has
\* been through GetWeight.
UpdateBackend(b, e, p, w, d, l) ==
    /\ InProgress
    /\ query.at = "visit" => query.pass \notin {"roundrobin", "random"}
    /\ seen.changes < MaxChanges
    /\ enable' = [enable EXCEPT ![b] = e]
    /\ priority' = [priority EXCEPT ![b] = p]
    /\ weight' = [weight EXCEPT ![b] = IF w <= 0 THEN 1 ELSE w]
    /\ distance' = [distance EXCEPT ![b] = d]
    /\ label' = [label EXCEPT ![b] = l]
    /\ <<enable, priority, weight, distance, label>>'
         # <<enable, priority, weight, distance, label>>
    /\ query' = IF query.at = "sort" /\ priority' # priority
                THEN [query EXCEPT !.at = "disturbed"] ELSE query
    /\ UNCHANGED <<mode, alive, responseTime>>
    /\ Record(<<priority, weight, distance, label>>' # <<priority, weight, distance, label>>)

----------------------------------------------------------------------------
Visit ==
    \/ VisitFailover
    \/ VisitPool
    \/ VisitWeighted
    \/ VisitNearest
    \/ VisitFastest
    \/ VisitLabelled
    \/ VisitLocated
    \/ VisitAny

EndOfPass ==
    \/ NothingFound
    \/ AnswerPicked
    \/ AnswerFastest
    \/ AnswerRandom
    \/ AnswerRoundRobin
    \/ ThrowBall
    \/ TurnWheel
    \/ WheelFails

Change ==
    \E b \in Backends :
        \/ \E a \in BOOLEAN, rt \in ResponseTimes : Publish(b, a, rt)
        \/ \E e \in Switches, p \in Priorities, w \in Weights,
              d \in Distances, l \in BackendLabels : UpdateBackend(b, e, p, w, d, l)

Next ==
    \/ \E t \in Range(Family), c \in Clients : Arrive(t, c)
    \/ Sort
    \/ Visit
    \/ EndOfPass
    \/ Leave
    \/ Change

Spec == Init /\ [][Next]_vars

----------------------------------------------------------------------------
QueryStates ==
    [at : {"idle", "sort", "disturbed", "visit", "wheel", "answered"},
     pass : Passes,
     type : Range(Family) \cup {"none"},
     client : Clients,
     todo : Seq(Backends),
     picked : Seq(Backends),
     best : Priorities \cup 0..Infinity \cup {NoPriority},
     total : Nat, sum : Nat, ball : Nat]

SeenStates ==
    [changes : 0..MaxChanges, moved : BOOLEAN, steady : SUBSET Backends,
     healthy : SUBSET Backends, enabled : SUBSET Backends]

\* Every variable stays in its type.
TypeOK ==
    /\ mode \in Modes
    /\ alive \in [Backends -> BOOLEAN]
    /\ enable \in [Backends -> Switches]
    /\ priority \in [Backends -> Priorities]
    /\ weight \in [Backends -> Weights \cup {1}]
    /\ responseTime \in [Backends -> ResponseTimes]
    /\ distance \in [Backends -> Distances]
    /\ label \in [Backends -> BackendLabels]
    /\ query \in QueryStates
    /\ seen \in SeenStates

\* The query was answered by the pass of a mode, not by pickAllAddresses.
Chosen == query.at = "answered" /\ query.pass # "all"

FellBack == query.at = "answered" /\ query.pass = "all"

\* The backends of the family asked for that were healthy all along.
Steady == {b \in seen.steady : Family[b] = query.type}

\* A mode never answers with a backend that was unhealthy during the whole
\* query, and not even the fallback to all addresses answers with one that was
\* disabled during the whole query, whatever changes under the passes.
NeverServedDown ==
    /\ Chosen => Range(query.picked) \subseteq seen.healthy
    /\ FellBack => Range(query.picked) \subseteq seen.enabled

\* In a mode pickResponse knows, as long as one backend of the family asked for
\* stays healthy, the health flapping of the others never leads to the fallback,
\* which serves addresses that may be down, nor to SERVFAIL.  In any other mode
\* every query ends there.
SteadyIsEnough ==
    (FellBack /\ mode \in SupportedModes /\ ~seen.moved) => Steady = {}

\* The levels of geoip before a pass.
LevelsBefore(p) ==
    CASE p = "country" -> {}
      [] p = "city" -> {"country"}
      [] p = "asn" -> {"country", "city"}
      [] p = "location" -> {"country", "city", "asn"}
      [] OTHER -> {"country", "city", "asn", "location"}

\* The level takes the backend for this client; a client in subnets of several
\* locations may be given any of them.
Fits(b, level) ==
    IF level = "location" THEN query.client.locations = {label[b].location}
                          ELSE Labelled(b, level)

\* geoip never answers by a lower level, or by failover, while a backend of the
\* client's country, city, ASN or location, whichever level comes first, was
\* healthy all along, whatever happens to the others under its passes.
LevelsInOrder ==
    (mode = "geoip" /\ query.at = "answered" /\ ~seen.moved) =>
        \A b \in seen.steady, level \in LevelsBefore(query.pass) : ~Fits(b, level)

\* What a pass compares.
Cost(b) ==
    CASE query.pass = "failover" -> priority[b]
      [] query.pass = "nearest" -> distance[b]
      [] query.pass = "fastest" -> IF responseTime[b] = 0 THEN Infinity ELSE responseTime[b]
      [] OTHER -> 0

\* failover, nearest and fastest never answer with a backend while a better one
\* (of a lower priority value, nearer, faster) was healthy all along; the ones
\* that flap can only make them answer better than that.
NoBetterSteady ==
    (Chosen /\ ~seen.moved) =>
        \A b \in Steady, a \in Range(query.picked) : Cost(a) <= Cost(b)

\* random answers with every backend that was healthy all along, failover with
\* every one of those of the priority it settled for; none comes twice.
NoneForgotten ==
    (Chosen /\ ~seen.moved) =>
        /\ IsInjective(query.picked)
        /\ query.pass = "random" => Steady \subseteq Range(query.picked)
        /\ query.pass = "failover" =>
             {b \in Steady : \A a \in Range(query.picked) : Cost(b) <= Cost(a)}
               \subseteq Range(query.picked)

\* Every value of the ball belongs to one backend, and a backend of weight w to
\* exactly w of the values: the wheel stops in the interval of length w that
\* begins where the weights before it end, and while it turns the weights it
\* has still to pass reach exactly to the total.  This is the probability
\* docs/modes.md:172 promises.
WheelIsProportional ==
    ~seen.moved =>
        /\ query.at = "wheel" =>
             /\ query.sum <= query.ball
             /\ query.ball < query.total
             /\ query.sum + MapThenSumSet(GetWeight, Range(query.todo)) = query.total
        /\ (Chosen /\ query.pass = "weighted") =>
             /\ query.sum <= query.ball
             /\ query.ball < query.sum + GetWeight(query.picked[1])

----------------------------------------------------------------------------
\* gslb_mode.go:14: failover "returns all healthy backends with the lowest
\* priority": its answer holds backends of one priority.
OnePriority ==
    (Chosen /\ query.pass = "failover" /\ ~seen.moved) =>
        \A a, b \in Range(query.picked) : priority[a] = priority[b]

\* gslb_mode.go:148: "Should not reach here", after the loop of the wheel.
WheelStops == ~(query.at = "wheel" /\ query.todo = <<>>)
=============================================================================
