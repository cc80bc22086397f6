----------------------- MODULE RecordLifecycle_proofs -----------------------
(***************************************************************************)
(* Proofs about RecordLifecycle, for every set of zones and names, every   *)
(* number of Record objects and every batch size.                          *)
(***************************************************************************)
EXTENDS RecordLifecycle, TLAPS

\* The name holds what the last file read says of it.
Matches(n) ==
    /\ want[n] = Absent <=> records[n] = NoRecord
    /\ records[n] # NoRecord => interval[records[n]] = want[n]

\* Record objects: an object in g.Records carries the name it is found under,
\* so no two names share one; its goroutine lives and is not cancelled; an
\* object nobody created has a fresh context.
ObjectsInv ==
    /\ \A n \in Names : records[n] # NoRecord =>
          /\ name[records[n]] = n
          /\ task[records[n]] \in Live
          /\ ~ctxDone[records[n]]
          /\ ZoneOf[n] \in loaded
    /\ \A o \in Objects : task[o] = "free" => ~ctxDone[o]

\* The progress of a reload: what is left to visit belongs to the zone being
\* reloaded and is in the file or in the map; the rest already matches.
ReloadInv ==
    /\ reloading = Idle => toVisit = {}
    /\ \A n \in toVisit :
          /\ ZoneOf[n] \in loaded
          /\ want[n] # Absent \/ records[n] # NoRecord
    /\ \A n \in Names \ toVisit : ZoneOf[n] \in loaded => Matches(n)

IInv == TypeOK /\ ObjectsInv /\ ReloadInv

----------------------------------------------------------------------------
\* Two names of g.Records never share a Record object.
LEMMA DistinctObjects ==
    ASSUME ObjectsInv,
           NEW m \in Names, NEW n \in Names,
           records[m] # NoRecord, records[m] = records[n]
    PROVE  m = n
  BY DEF ObjectsInv

\* The objects the initial load creates are numbered by an injection, so the
\* object of a loaded name exists and carries that name.
LEMMA InitialObjects ==
    ASSUME NEW k \in 0..MaxRecords,
           NEW S, NEW order \in Injection(1..k, S), S \subseteq Names,
           InitiallyLoaded(k, order)
    PROVE  /\ records \in [Names -> Objects \cup {NoRecord}]
           /\ name \in [Objects -> Names \cup {Absent}]
           /\ task \in [Objects -> Tasks]
           /\ \A n \in Names : records[n] # NoRecord =>
                 /\ n \in S
                 /\ records[n] \in 1..k
                 /\ name[records[n]] = n
                 /\ task[records[n]] = "queued"
  <1>1. order \in [1..k -> S] /\ 1..k \subseteq Objects
    BY ConstantsAssumption DEF Injection, Objects
  <1>2. Range(order) \subseteq S
    BY <1>1 DEF Range
  <1>3. ASSUME NEW n \in Range(order)
        PROVE  /\ (CHOOSE o \in 1..k : order[o] = n) \in 1..k
               /\ order[CHOOSE o \in 1..k : order[o] = n] = n
    <2>1. \E o \in 1..k : order[o] = n
      BY <1>1, <1>3 DEF Range
    <2>2. QED
      BY <2>1
  <1>4. records \in [Names -> Objects \cup {NoRecord}]
    BY <1>1, <1>3 DEF InitiallyLoaded
  <1>5. name \in [Objects -> Names \cup {Absent}]
    BY <1>1, ConstantsAssumption DEF InitiallyLoaded, Objects
  <1>6. task \in [Objects -> Tasks]
    BY DEF InitiallyLoaded, Tasks
  <1>7. ASSUME NEW n \in Names, records[n] # NoRecord
        PROVE  /\ n \in S
               /\ records[n] \in 1..k
               /\ name[records[n]] = n
               /\ task[records[n]] = "queued"
    <2>1. n \in Range(order) /\ records[n] = (CHOOSE o \in 1..k : order[o] = n)
      BY <1>7 DEF InitiallyLoaded
    <2>2. records[n] \in 1..k /\ order[records[n]] = n
      BY <2>1, <1>3
    <2>3. records[n] \in Objects /\ records[n] <= k
      BY <2>2, <1>1
    <2>4. QED
      BY <1>2, <2>1, <2>2, <2>3 DEF InitiallyLoaded
  <1>8. QED
    BY <1>4, <1>5, <1>6, <1>7

\* The inductive invariant holds once setup has loaded the zones.
LEMMA InitIInv == ASSUME Init PROVE IInv
  <1> DEFINE S == {n \in Names : ZoneOf[n] \in loaded}
  <1>1. PICK k \in 0..MaxRecords :
           \E order \in Injection(1..k, S) : InitiallyLoaded(k, order)
    BY DEF Init
  <1>10. PICK order \in Injection(1..k, S) : InitiallyLoaded(k, order)
    BY <1>1
  <1>2. S \subseteq Names
    OBVIOUS
  <1> HIDE DEF S
  <1>3. /\ records \in [Names -> Objects \cup {NoRecord}]
        /\ name \in [Objects -> Names \cup {Absent}]
        /\ task \in [Objects -> Tasks]
        /\ \A n \in Names : records[n] # NoRecord =>
              /\ n \in S
              /\ records[n] \in 1..k
              /\ name[records[n]] = n
              /\ task[records[n]] = "queued"
    BY <1>10, <1>2, InitialObjects
  <1>4. 1..k \subseteq Objects
    BY ConstantsAssumption DEF Objects
  <1>5. PICK conf \in [Names -> Intervals] :
          /\ want = [n \in Names |-> IF records[n] = NoRecord THEN Absent ELSE conf[n]]
          /\ interval = [o \in Objects |->
                           IF name[o] = Absent THEN Absent ELSE conf[name[o]]]
    BY DEF Init
  <1>6. TypeOK
    <2>1. want \in [Names -> Intervals \cup {Absent}]
      BY <1>5
    <2>2. interval \in [Objects -> Intervals \cup {Absent}]
      BY <1>3, <1>5
    <2>3. batch \in [Objects -> Nat]
      <3>1. ASSUME NEW o \in Objects
            PROVE  (o - 1) \div BatchSize \in Nat
        <4>1. o - 1 \in Nat
          BY DEF Objects
        <4>2. BatchSize \in Nat /\ BatchSize > 0
          BY ConstantsAssumption
        <4>3. QED
          BY <4>1, <4>2
      <3>2. QED
        BY <3>1 DEF Init
    <2>4. QED
      BY <1>3, <2>1, <2>2, <2>3 DEF Init, TypeOK, Tickers
  <1>7. ObjectsInv
    <2>1. \A o \in Objects : ~ctxDone[o]
      BY DEF Init
    <2>2. \A n \in Names : records[n] # NoRecord => ZoneOf[n] \in loaded
      BY <1>3 DEF S
    <2>3. QED
      BY <1>3, <1>4, <2>1, <2>2 DEF ObjectsInv, Live, Tasks
  <1>8. ReloadInv
    <2>1. toVisit = {}
      BY DEF Init
    <2>2. ASSUME NEW n \in Names, records[n] # NoRecord
          PROVE  interval[records[n]] = conf[n] /\ want[n] = conf[n]
      BY <1>3, <1>4, <1>5, <2>2, ConstantsAssumption
    <2>3. \A n \in Names : Matches(n)
      BY <1>5, <2>2, ConstantsAssumption DEF Matches
    <2>4. QED
      BY <2>1, <2>3 DEF ReloadInv
  <1>9. QED
    BY <1>6, <1>7, <1>8 DEF IInv

----------------------------------------------------------------------------
(***************************************************************************)
(* One lemma per kind of step: a step of a record's goroutine, and each    *)
(* step of a reload.                                                       *)
(***************************************************************************)

\* What a step of an object's goroutine has to respect: it leaves the map, the
\* file and the contexts alone, and it ends a live goroutine only when its
\* context is cancelled.
LEMMA TaskStepKeepsInvariant ==
    ASSUME IInv, TypeOK',
           NEW o \in Objects, NEW t \in Tasks \ {"free"},
           task[o] # "free", t = "done" => ctxDone[o],
           task' = [task EXCEPT ![o] = t],
           UNCHANGED <<loaded, records, name, interval, ctxDone, reloadVars>>
    PROVE  IInv'
  <1>1. ObjectsInv'
    <2>1. ASSUME NEW n \in Names, records[n] # NoRecord
          PROVE  task'[records[n]] \in Live
      <3>1. task[records[n]] \in Live /\ ~ctxDone[records[n]]
        BY <2>1 DEF IInv, ObjectsInv
      <3>2. CASE records[n] = o
        BY <3>1, <3>2 DEF IInv, TypeOK, Live
      <3>3. CASE records[n] # o
        BY <3>1, <3>3 DEF IInv, TypeOK
      <3>4. QED
        BY <3>2, <3>3
    <2>2. \A p \in Objects : task'[p] = "free" => ~ctxDone[p]
      BY DEF IInv, TypeOK, ObjectsInv
    <2>3. QED
      BY <2>1, <2>2 DEF IInv, ObjectsInv
  <1>2. ReloadInv'
    BY DEF IInv, ReloadInv, Matches, reloadVars
  <1>3. QED
    BY <1>1, <1>2 DEF IInv

LEMMA StarterKeepsInvariant ==
    ASSUME IInv, NEW o \in Objects, Starter(o)
    PROVE  IInv'
  <1>1. CASE StartRecord(o)
    <2>1. TypeOK'
      BY <1>1 DEF StartRecord, reloadVars, IInv, TypeOK, Tasks
    <2>2. QED
      BY <1>1, <2>1, TaskStepKeepsInvariant DEF StartRecord, Tasks
  <1>2. CASE SpawnScraper(o)
    <2>1. TypeOK'
      BY <1>2 DEF SpawnScraper, Reported, reloadVars, IInv, TypeOK, Tasks
    <2>2. QED
      BY <1>2, <2>1, TaskStepKeepsInvariant DEF SpawnScraper, Reported, Tasks
  <1>3. QED
    BY <1>1, <1>2 DEF Starter

LEMMA ScraperKeepsInvariant ==
    ASSUME IInv, NEW o \in Objects, Scraper(o) \/ ScraperExit(o)
    PROVE  IInv'
  <1>1. CASE ScraperInit(o)
    <2>1. TypeOK'
      BY <1>1 DEF ScraperInit, reloadVars, IInv, TypeOK, Tasks, Tickers
    <2>2. QED
      BY <1>1, <2>1, TaskStepKeepsInvariant DEF ScraperInit, Tasks
  <1>2. CASE TickBegin(o)
    <2>1. TypeOK'
      BY <1>2 DEF TickBegin, reloadVars, IInv, TypeOK, Tasks
    <2>2. QED
      BY <1>2, <2>1, TaskStepKeepsInvariant DEF TickBegin, Tasks
  <1>3. CASE TickEnd(o)
    <2>1. TypeOK'
      BY <1>3 DEF TickEnd, Reported, reloadVars, IInv, TypeOK, Tasks
    <2>2. QED
      BY <1>3, <2>1, TaskStepKeepsInvariant DEF TickEnd, Reported, Tasks
  <1>4. CASE ScraperExit(o)
    <2>1. TypeOK'
      BY <1>4 DEF ScraperExit, reloadVars, IInv, TypeOK, Tasks
    <2>2. QED
      BY <1>4, <2>1, TaskStepKeepsInvariant DEF ScraperExit, Tasks
  <1>5. CASE TickerRuns(o)
    <2>1. TypeOK'
      BY <1>5 DEF TickerRuns, reloadVars, IInv, TypeOK, Tickers
    <2>2. ObjectsInv'
      BY <1>5 DEF TickerRuns, IInv, ObjectsInv
    <2>3. ReloadInv'
      BY <1>5 DEF TickerRuns, reloadVars, IInv, ReloadInv, Matches
    <2>4. QED
      BY <2>1, <2>2, <2>3 DEF IInv
  <1>6. QED
    BY <1>1, <1>2, <1>3, <1>4, <1>5 DEF Scraper

LEMMA ReloadBeginKeepsInvariant ==
    ASSUME IInv, NEW z \in Zones, ReloadBegin(z)
    PROVE  IInv'
  <1>1. PICK file \in [NamesOf(z) -> Intervals \cup {Absent}] :
          want' = [n \in Names |-> IF n \in NamesOf(z) THEN file[n] ELSE want[n]]
    BY DEF ReloadBegin
  <1>2. UNCHANGED <<loaded, records, gauge, crashed, name, interval, ticker,
                    cancelFunc, ctxDone, task, batch>>
    BY DEF ReloadBegin, objectVars
  <1>3. toVisit' = IF z \in loaded
                   THEN {n \in NamesOf(z) : want'[n] # Absent \/ records[n] # NoRecord}
                   ELSE {}
    BY DEF ReloadBegin
  <1>4. TypeOK'
    <2>1. want' \in [Names -> Intervals \cup {Absent}]
      BY <1>1 DEF IInv, TypeOK, NamesOf
    <2>2. toVisit' \in SUBSET Names /\ reloading' \in Zones
      BY <1>3 DEF ReloadBegin, NamesOf
    <2>3. QED
      BY <1>2, <2>1, <2>2 DEF IInv, TypeOK
  <1>5. ObjectsInv'
    BY <1>2 DEF IInv, ObjectsInv
  <1>6. ReloadInv'
    <2>1. reloading' # Idle
      BY ConstantsAssumption DEF ReloadBegin
    <2>2. \A n \in toVisit' : /\ ZoneOf[n] \in loaded
                              /\ want'[n] # Absent \/ records[n] # NoRecord
      BY <1>3 DEF NamesOf
    <2>3. ASSUME NEW n \in Names \ toVisit', ZoneOf[n] \in loaded
          PROVE  Matches(n)'
      <3>1. CASE ZoneOf[n] = z
        BY <1>2, <1>3, <2>3, <3>1 DEF NamesOf, Matches
      <3>2. CASE ZoneOf[n] # z
        <4>1. want'[n] = want[n]
          BY <1>1, <3>2 DEF NamesOf
        <4>2. Matches(n)
          BY <2>3 DEF ReloadBegin, IInv, ReloadInv
        <4>3. QED
          BY <1>2, <4>1, <4>2 DEF Matches
      <3>3. QED
        BY <3>1, <3>2
    <2>4. QED
      BY <1>2, <2>1, <2>2, <2>3 DEF ReloadInv
  <1>7. QED
    BY <1>4, <1>5, <1>6 DEF IInv

LEMMA ReloadAddKeepsInvariant ==
    ASSUME IInv, NEW n \in Names, ReloadAdd(n)
    PROVE  IInv'
  <1>1. PICK o \in Free :
          /\ records' = [records EXCEPT ![n] = o]
          /\ name' = [name EXCEPT ![o] = n]
          /\ interval' = [interval EXCEPT ![o] = want[n]]
          /\ task' = [task EXCEPT ![o] = "spawned"]
          /\ gauge' = [gauge EXCEPT ![n] = o]
    BY DEF ReloadAdd, Reported
  <1>2. /\ n \in toVisit /\ want[n] # Absent
        /\ toVisit' = toVisit \ {n}
        /\ UNCHANGED <<loaded, crashed, want, reloading, ticker, cancelFunc, ctxDone, batch>>
    BY DEF ReloadAdd, Reported
  <1>3. o \in Objects /\ task[o] = "free" /\ o # NoRecord /\ ~ctxDone[o]
    BY <1>1, ConstantsAssumption DEF Free, Objects, IInv, ObjectsInv
  <1>4. ASSUME NEW m \in Names, m # n, records[m] # NoRecord
        PROVE  records[m] # o /\ records'[m] = records[m] /\ records[m] \in Objects
    BY <1>1, <1>3, <1>4 DEF IInv, TypeOK, ObjectsInv, Live
  <1>5. TypeOK'
    BY <1>1, <1>2, <1>3 DEF IInv, TypeOK, Tasks
  <1>6. ObjectsInv'
    <2>1. records'[n] = o /\ name'[o] = n /\ task'[o] = "spawned"
      BY <1>1, <1>3 DEF IInv, TypeOK
    <2>2. ZoneOf[n] \in loaded
      BY <1>2 DEF IInv, ReloadInv
    <2>3. ASSUME NEW m \in Names, m # n, records'[m] # NoRecord
          PROVE  /\ name'[records'[m]] = m
                 /\ task'[records'[m]] \in Live
                 /\ ~ctxDone[records'[m]]
                 /\ ZoneOf[m] \in loaded
      <3>1. records'[m] = records[m]
        BY <1>1, <2>3 DEF IInv, TypeOK
      <3>2. QED
        BY <1>1, <1>4, <2>3, <3>1 DEF IInv, TypeOK, ObjectsInv
    <2>4. \A p \in Objects : task'[p] = "free" => ~ctxDone[p]
      BY <1>1 DEF IInv, TypeOK, ObjectsInv
    <2>5. QED
      BY <1>2, <1>3, <2>1, <2>2, <2>3, <2>4 DEF ObjectsInv, Live, Tasks
  <1>7. ReloadInv'
    <2>1. ASSUME NEW m \in Names \ toVisit', ZoneOf[m] \in loaded
          PROVE  Matches(m)'
      <3>1. CASE m = n
        BY <1>1, <1>2, <1>3, <3>1 DEF IInv, TypeOK, Matches
      <3>2. CASE m # n
        <4>1. Matches(m)
          BY <1>2, <2>1, <3>2 DEF IInv, ReloadInv
        <4>2. records'[m] = records[m]
          BY <1>1, <3>2 DEF IInv, TypeOK
        <4>3. QED
          BY <1>1, <1>2, <1>4, <3>2, <4>1, <4>2 DEF IInv, TypeOK, Matches
      <3>3. QED
        BY <3>1, <3>2
    <2>2. \A m \in toVisit' : /\ ZoneOf[m] \in loaded
                              /\ want[m] # Absent \/ records'[m] # NoRecord
      BY <1>1, <1>2 DEF IInv, TypeOK, ReloadInv
    <2>3. reloading # Idle
      BY <1>2 DEF IInv, ReloadInv
    <2>4. QED
      BY <1>2, <2>1, <2>2, <2>3 DEF ReloadInv
  <1>8. QED
    BY <1>5, <1>6, <1>7 DEF IInv

LEMMA ReloadUpdateKeepsInvariant ==
    ASSUME IInv, NEW n \in Names, ReloadUpdate(n)
    PROVE  IInv'
  <1> DEFINE o == records[n]
  <1>1. /\ n \in toVisit /\ want[n] # Absent /\ o # NoRecord
        /\ interval' = [interval EXCEPT ![o] = want[n]]
        /\ toVisit' = toVisit \ {n}
        /\ UNCHANGED <<loaded, records, want, reloading,
                       name, cancelFunc, ctxDone, task, batch>>
    BY DEF ReloadUpdate, Reported
  <1>2. o \in Objects
    BY <1>1 DEF IInv, TypeOK
  <1>3. TypeOK'
    <2>1. want[n] \in Intervals
      BY <1>1 DEF IInv, TypeOK
    <2>2. crashed' \in BOOLEAN
      BY DEF ReloadUpdate, Reported
    <2>3. gauge' \in [Names -> Objects \cup {NoRecord}]
      BY <1>2 DEF ReloadUpdate, Reported, IInv, TypeOK
    <2>4. ticker' \in [Objects -> Tickers]
      BY <1>2 DEF ReloadUpdate, IInv, TypeOK, Tickers
    <2>5. QED
      BY <1>1, <1>2, <2>1, <2>2, <2>3, <2>4 DEF IInv, TypeOK
  <1>4. ObjectsInv'
    BY <1>1 DEF IInv, ObjectsInv
  <1>5. ReloadInv'
    <2>1. ASSUME NEW m \in Names \ toVisit', ZoneOf[m] \in loaded
          PROVE  Matches(m)'
      <3>1. CASE m = n
        BY <1>1, <1>2, <3>1 DEF IInv, TypeOK, Matches
      <3>2. CASE m # n
        <4>1. Matches(m)
          BY <1>1, <2>1, <3>2 DEF IInv, ReloadInv
        <4>2. records[m] # NoRecord => records[m] # o /\ records[m] \in Objects
          BY <3>2, <1>1, DistinctObjects DEF IInv, TypeOK
        <4>3. QED
          BY <1>1, <4>1, <4>2 DEF IInv, TypeOK, Matches
      <3>3. QED
        BY <3>1, <3>2
    <2>2. QED
      BY <1>1, <2>1 DEF IInv, ReloadInv
  <1>6. QED
    BY <1>3, <1>4, <1>5 DEF IInv

LEMMA ReloadRemoveKeepsInvariant ==
    ASSUME IInv, NEW n \in Names, ReloadRemove(n)
    PROVE  IInv'
  <1> DEFINE o == records[n]
  <1>1. /\ n \in toVisit /\ want[n] = Absent
        /\ ctxDone' = [ctxDone EXCEPT ![o] = cancelFunc[o]]
        /\ records' = [records EXCEPT ![n] = NoRecord]
        /\ toVisit' = toVisit \ {n}
        /\ UNCHANGED <<loaded, gauge, crashed, want, reloading,
                       name, interval, ticker, cancelFunc, task, batch>>
    BY DEF ReloadRemove
  <1>2. o # NoRecord /\ o \in Objects
    BY <1>1 DEF IInv, ReloadInv, TypeOK
  <1>3. ASSUME NEW m \in Names, records'[m] # NoRecord
        PROVE  m # n /\ records'[m] = records[m] /\ records[m] # o
    BY <1>1, <1>3, DistinctObjects DEF IInv, TypeOK
  <1>4. TypeOK'
    <2>1. cancelFunc[o] \in BOOLEAN
      BY <1>2 DEF IInv, TypeOK
    <2>2. ctxDone' \in [Objects -> BOOLEAN]
      BY <1>1, <2>1 DEF IInv, TypeOK
    <2>3. records' \in [Names -> Objects \cup {NoRecord}]
      BY <1>1 DEF IInv, TypeOK
    <2>4. QED
      BY <1>1, <2>2, <2>3 DEF IInv, TypeOK
  <1>5. ObjectsInv'
    <2>1. ASSUME NEW m \in Names, records'[m] # NoRecord
          PROVE  ~ctxDone'[records'[m]]
      BY <1>1, <1>3, <2>1 DEF IInv, TypeOK, ObjectsInv
    <2>2. ASSUME NEW p \in Objects, task[p] = "free"
          PROVE  ~ctxDone'[p]
      <3>1. p # o
        BY <1>2, <2>2 DEF IInv, ObjectsInv, Live
      <3>2. QED
        BY <1>1, <2>2, <3>1 DEF IInv, TypeOK, ObjectsInv
    <2>3. QED
      BY <1>1, <1>3, <2>1, <2>2 DEF IInv, ObjectsInv
  <1>6. ReloadInv'
    <2>1. ASSUME NEW m \in Names \ toVisit', ZoneOf[m] \in loaded
          PROVE  Matches(m)'
      <3>1. CASE m = n
        BY <1>1, <3>1 DEF IInv, TypeOK, Matches
      <3>2. CASE m # n
        BY <1>1, <2>1, <3>2 DEF IInv, TypeOK, ReloadInv, Matches
      <3>3. QED
        BY <3>1, <3>2
    <2>2. \A m \in toVisit' : /\ ZoneOf[m] \in loaded
                              /\ want[m] # Absent \/ records'[m] # NoRecord
      BY <1>1 DEF IInv, TypeOK, ReloadInv
    <2>3. reloading # Idle
      BY <1>1 DEF IInv, ReloadInv
    <2>4. QED
      BY <1>1, <2>1, <2>2, <2>3 DEF ReloadInv
  <1>7. QED
    BY <1>4, <1>5, <1>6 DEF IInv

LEMMA ReloadEndKeepsInvariant ==
    ASSUME IInv, ReloadEnd
    PROVE  IInv'
  <1>1. TypeOK'
    BY DEF ReloadEnd, objectVars, IInv, TypeOK
  <1>2. ObjectsInv'
    BY DEF ReloadEnd, objectVars, IInv, ObjectsInv
  <1>3. ReloadInv'
    BY DEF ReloadEnd, objectVars, IInv, ReloadInv, Matches
  <1>4. QED
    BY <1>1, <1>2, <1>3 DEF IInv

\* Every step, the last stutter of a crashed process included.
LEMMA NextKeepsInvariant == IInv /\ [Next]_vars => IInv'
  <1> SUFFICES ASSUME IInv, [Next]_vars PROVE IInv'
    OBVIOUS
  <1>1. ASSUME NEW o \in Objects, Starter(o) PROVE IInv'
    BY <1>1, StarterKeepsInvariant
  <1>2. ASSUME NEW o \in Objects, Scraper(o) \/ ScraperExit(o) PROVE IInv'
    BY <1>2, ScraperKeepsInvariant
  <1>3. ASSUME NEW z \in Zones, ReloadBegin(z) PROVE IInv'
    BY <1>3, ReloadBeginKeepsInvariant
  <1>4. ASSUME NEW n \in Names, ReloadStep(n) PROVE IInv'
    BY <1>4, ReloadAddKeepsInvariant, ReloadUpdateKeepsInvariant,
       ReloadRemoveKeepsInvariant DEF ReloadStep
  <1>5. CASE ReloadEnd
    BY <1>5, ReloadEndKeepsInvariant
  <1>6. CASE UNCHANGED vars
    BY <1>6 DEF vars, objectVars, reloadVars, IInv, TypeOK, ObjectsInv,
                ReloadInv, Matches
  <1>7. QED
    BY <1>1, <1>2, <1>3, <1>4, <1>5, <1>6 DEF Next, Running, Down

----------------------------------------------------------------------------
\* The strengthening that ties the map, the objects, their goroutines and the
\* progress of a reload together holds in every reachable state.
LEMMA InductiveInvariant == Spec => []IInv
  <1>1. Init => IInv
    BY InitIInv
  <1>2. QED
    BY <1>1, NextKeepsInvariant, PTL DEF Spec

\* Type correctness of the record map, the objects and their goroutines.
THEOREM TypeCorrect == Spec => []TypeOK
  <1>1. IInv => TypeOK
    BY DEF IInv
  <1>2. QED
    BY <1>1, InductiveInvariant, PTL

\* However starts, ticks, removals and re-additions interleave, a record that
\* is served has a scraper that is pending or alive and not cancelled.
THEOREM ConfiguredAlwaysMonitored == Spec => []ConfiguredIsMonitored
  <1>1. IInv => ConfiguredIsMonitored
    BY DEF IInv, ObjectsInv, ConfiguredIsMonitored
  <1>2. QED
    BY <1>1, InductiveInvariant, PTL

\* Between two reloads the map of every loaded zone is what the last file read
\* says, name by name and content by content.
THEOREM ReloadedMapMatchesFile == Spec => []MapMatchesFile
  <1>1. IInv => MapMatchesFile
    BY DEF IInv, ReloadInv, Matches, MapMatchesFile
  <1>2. QED
    BY <1>1, InductiveInvariant, PTL
=============================================================================
