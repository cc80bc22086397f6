-------------------------- MODULE Requests_proofs --------------------------
(***************************************************************************)
(* Proofs about Requests: a name with a record that stays is answered,     *)
(* whatever reloads do between the lookups, for any nesting of zones.      *)
(***************************************************************************)
EXTENDS Requests, TLAPS

\* A reload adds names of its zone only.
ReloadInv == reload.add \subseteq Under[reload.zone]

\* A query is in a lookup for a reason.
LookupInv ==
    query.at \in {"lookup", "write"} =>
        query.lookup \in 1..3 /\ query.type \in {"ip", "TXT"}

\* The records that stay, and have the name that is looked up, are in maps the lookup
\* has yet to come to.
SteadyInv ==
    /\ query.at \in {"lookup", "write"} =>
         \A o \in steady :
           /\ o.zone \in Zones /\ o.name \in Names /\ Lower[o.name] = query.name
           /\ records[o.zone][o.name] = o
    /\ query.at = "lookup" =>
         \A o \in steady : o.name = query.name => o.zone \in query.unread

IInv == TypeOK /\ ReloadInv /\ LookupInv /\ SteadyInv /\ KnownIsAnswered

\* Each record is under its name, in its zone.
Placed(recs) ==
    \A z \in Zones, n \in Names : recs[z][n] # NoRecord =>
        n \in Under[z] /\ recs[z][n].zone = z /\ recs[z][n].name = n

----------------------------------------------------------------------------
(***************************************************************************)
(* Type correctness.                                                       *)
(***************************************************************************)

LEMMA NoQueryType == NoQuery \in QueryStates /\ NoQuery.at = "idle" /\ NoQuery.lookup = 0
<1>1. (CHOOSE n \in Names : TRUE) \in Names
  BY ConstantsAssumption
<1>2. QED
  BY <1>1 DEF NoQuery, QueryStates, Types, Outcomes, Results

LEMMA TypeInit == Init => TypeOK /\ ReloadInv
<1>1. SUFFICES ASSUME Init PROVE TypeOK /\ ReloadInv
  OBVIOUS
<1>2. PICK file \in [Zones -> SUBSET Names] :
         /\ \A z \in Zones : file[z] \subseteq Under[z]
         /\ records = [z \in Zones |-> [n \in Names |->
                          IF n \in file[z] THEN [zone |-> z, name |-> n, since |-> 0]
                                           ELSE NoRecord]]
  BY <1>1 DEF Init
<1>3. \A z \in Zones, n \in Names : [zone |-> z, name |-> n, since |-> 0] \in Objects
  BY ConstantsAssumption DEF Objects
<1>4. records \in [Zones -> [Names -> Objects \cup {NoRecord}]]
  BY <1>2, <1>3
<1>5. Placed(records)
  BY <1>2 DEF Placed
<1>6. (CHOOSE z \in Zones : TRUE) \in Zones
  BY ConstantsAssumption
<1>7. reload \in ReloadStates /\ reload.add = {}
  BY <1>1, <1>6, ConstantsAssumption DEF Init, ReloadStates
<1>8. QED
  BY <1>1, <1>4, <1>5, <1>7, NoQueryType DEF Init, TypeOK, Placed, ReloadInv

\* The states a query goes on to.
LEMMA QueryTypes ==
    ASSUME NEW q \in QueryStates
    PROVE  /\ \A outcome \in Outcomes : Finished(q, outcome) \in QueryStates
           /\ \A i \in 0..3 : Lookup(q, i) \in QueryStates
           /\ Found(q) \subseteq QueryStates
           /\ NotFound(q) \in QueryStates
<1>1. \A outcome \in Outcomes : Finished(q, outcome) \in QueryStates
  BY DEF Finished, QueryStates, Outcomes
<1>2. \A i \in 0..3 : Lookup(q, i) \in QueryStates
  BY DEF Lookup, QueryStates
<1>3. /\ [q EXCEPT !.at = "write"] \in QueryStates
      /\ [q EXCEPT !.at = "write", !.observed = "success"] \in QueryStates
      /\ [q EXCEPT !.at = "write", !.observed = "fail"] \in QueryStates
  BY DEF QueryStates, Results
<1>4. /\ [Finished(q, "servfail") EXCEPT !.observed = "fail", !.empty = TRUE] \in QueryStates
      /\ [Finished(q, "servfail") EXCEPT !.observed = "fail"] \in QueryStates
  BY DEF Finished, QueryStates, Results, Outcomes
<1>5. Found(q) \subseteq QueryStates
  BY <1>2, <1>3, <1>4 DEF Found
<1>6. NotFound(q) \in QueryStates
  BY <1>1, <1>2, <1>4 DEF NotFound, Outcomes
<1>7. QED
  BY <1>1, <1>2, <1>5, <1>6

LEMMA ReceiveType ==
    ASSUME TypeOK, NEW n \in Names, NEW t \in Types, NEW client \in BOOLEAN,
           Receive(n, t, client)
    PROVE  TypeOK'
<1> DEFINE q == [NoQuery EXCEPT !.name = Lower[n], !.type = t]
<1>0. Lower[n] \in Names
  BY ConstantsAssumption
<1>1. q \in QueryStates
  BY <1>0, NoQueryType DEF QueryStates
<1>2. query' \in {Finished(q, "next"), Finished(q, "servfail"), Lookup(q, 1)}
  BY DEF Receive
<1>3. query' \in QueryStates
  BY <1>1, <1>2, QueryTypes DEF Outcomes
<1>4. steady' \in SUBSET Objects
  BY DEF TypeOK, Receive, RecordsOf
<1>5. lastResolution' \in SUBSET Names
  BY <1>0 DEF TypeOK, Receive
<1>6. QED
  BY <1>3, <1>4, <1>5 DEF TypeOK, Receive

LEMMA WritesType ==
    ASSUME TypeOK, ReloadInv, NEW n \in Names, NEW o \in Objects \cup {NoRecord},
           o # NoRecord => n \in Under[reload.zone] /\ o.zone = reload.zone /\ o.name = n,
           Writes(n, o)
    PROVE  TypeOK' /\ ReloadInv'
<1>1. records' = [records EXCEPT ![reload.zone][n] = o] /\ reload.zone \in Zones
  BY DEF Writes, TypeOK, ReloadStates
<1>2. records' \in [Zones -> [Names -> Objects \cup {NoRecord}]]
  BY <1>1 DEF TypeOK
<1>3. \A z \in Zones, m \in Names :
        records'[z][m] = IF z = reload.zone /\ m = n THEN o ELSE records[z][m]
  BY <1>1 DEF TypeOK
<1>4. Placed(records')
  BY <1>3 DEF TypeOK, Placed
<1>5. /\ reload' \in ReloadStates /\ reload'.zone = reload.zone
      /\ reload'.add \subseteq reload.add
  BY DEF Writes, TypeOK, ReloadStates
<1>6. steady' \in SUBSET Objects
  BY DEF Writes, TypeOK
<1>7. QED
  BY <1>2, <1>4, <1>5, <1>6 DEF Writes, TypeOK, ReloadInv, Placed

LEMMA TypeStep == TypeOK /\ ReloadInv /\ [Next]_vars => TypeOK' /\ ReloadInv'
<1>1. SUFFICES ASSUME TypeOK, ReloadInv, [Next]_vars PROVE TypeOK' /\ ReloadInv'
  OBVIOUS
<1>2. ASSUME NEW n \in Names, NEW t \in Types, NEW client \in BOOLEAN, Receive(n, t, client)
      PROVE  TypeOK' /\ ReloadInv'
  BY <1>1, <1>2, ReceiveType DEF Receive, ReloadInv
<1>3. ASSUME NEW z \in Zones, LookupZone(z) PROVE TypeOK' /\ ReloadInv'
  <2>1. query \in QueryStates
    BY <1>1 DEF TypeOK
  <2>2. [query EXCEPT !.unread = @ \ {z}] \in QueryStates
    BY <2>1 DEF QueryStates
  <2>3. query' \in QueryStates /\ crashed' \in BOOLEAN
    BY <1>3, <2>1, <2>2, QueryTypes DEF LookupZone
  <2>4. QED
    BY <1>1, <1>3, <2>3 DEF LookupZone, TypeOK, ReloadInv
<1>4. CASE LookupFails
  BY <1>1, <1>4, QueryTypes DEF LookupFails, TypeOK, ReloadInv
<1>5. CASE Write
  <2>1. query \in QueryStates
    BY <1>1 DEF TypeOK
  <2>2. query' \in QueryStates
    BY <1>5, <2>1 DEF Write, Finished, QueryStates, Outcomes, Results
  <2>3. QED
    BY <1>1, <1>5, <2>2 DEF Write, TypeOK, ReloadInv
<1>6. CASE Leave
  BY <1>1, <1>6, NoQueryType DEF Leave, TypeOK, ReloadInv
<1>7. ASSUME NEW z \in Zones, ReloadBegin(z) PROVE TypeOK' /\ ReloadInv'
  <2>1. PICK file \in SUBSET Under[z], old \in SUBSET Names :
          reload' = [at |-> "running", zone |-> z, add |-> file \ old,
                     remove |-> old \ file, count |-> reload.count + 1]
    BY <1>7 DEF ReloadBegin
  <2>2. Under[z] \subseteq Names
    BY ConstantsAssumption
  <2>3. reload.count + 1 \in 0..MaxReloads
    BY <1>1, <1>7, ConstantsAssumption DEF ReloadBegin, TypeOK, ReloadStates
  <2>4. reload' \in ReloadStates /\ reload'.add \subseteq Under[reload'.zone]
    BY <2>1, <2>2, <2>3 DEF ReloadStates
  <2>5. QED
    BY <1>1, <1>7, <2>4 DEF ReloadBegin, TypeOK, ReloadInv
<1>8. ASSUME NEW n \in Names, Add(n) PROVE TypeOK' /\ ReloadInv'
  <2> DEFINE o == [zone |-> reload.zone, name |-> n, since |-> reload.count]
  <2>1. o \in Objects /\ n \in Under[reload.zone] /\ Writes(n, o)
    BY <1>1, <1>8 DEF Add, TypeOK, ReloadStates, ReloadInv, Objects
  <2>2. QED
    BY <1>1, <2>1, WritesType
<1>9. ASSUME NEW n \in Names, Delete(n) PROVE TypeOK' /\ ReloadInv'
  BY <1>1, <1>9, WritesType DEF Delete
<1>10. CASE WriteEnds \/ ReloadEnd
  <2>1. /\ reload' \in ReloadStates /\ reload'.add = reload.add /\ reload'.zone = reload.zone
    BY <1>1, <1>10 DEF WriteEnds, ReloadEnd, TypeOK, ReloadStates
  <2>2. QED
    BY <1>1, <1>10, <2>1 DEF WriteEnds, ReloadEnd, TypeOK, ReloadInv
<1>11. CASE Down \/ UNCHANGED vars
  BY <1>1, <1>11 DEF Down, vars, TypeOK, ReloadInv
<1>12. QED
  BY <1>1, <1>2, <1>3, <1>4, <1>5, <1>6, <1>7, <1>8, <1>9, <1>10, <1>11
     DEF Next, Query, ClientKnown, Reload

\* Every reachable state of queries and reloads is well typed.
THEOREM TypeCorrect == Spec => []TypeOK
<1>1. Spec => [](TypeOK /\ ReloadInv)
  BY TypeInit, TypeStep, PTL DEF Spec
<1>2. QED
  BY <1>1, PTL

----------------------------------------------------------------------------
(***************************************************************************)
(* The records that stay.                                                  *)
(***************************************************************************)

\* A lookup that found a record goes on looking, writes an answer or has found the
\* record to be without addresses.
LEMMA FoundEndings ==
    ASSUME NEW q \in QueryStates, q.lookup \in 1..3, q.type \in {"ip", "TXT"},
           NEW p \in Found(q)
    PROVE  /\ p.name = q.name /\ p.lookup \in 1..3 /\ p.type = q.type
           /\ \/ p.at = "lookup" /\ p.unread = Zones
              \/ p.at = "write"
              \/ p.at = "done" /\ p.outcome = "servfail" /\ p.empty
<1>1. CASE q.type = "TXT"
  BY <1>1 DEF Found, QueryStates
<1>2. CASE q.type = "ip" /\ q.lookup \in {1, 2}
  <2>1. p \in {Lookup(q, 2), Lookup(q, 3), [q EXCEPT !.at = "write", !.observed = "success"]}
    <3>1. q.lookup = 1 => Found(q) = {Lookup(q, 2)}
      BY <1>2 DEF Found
    <3>2. q.lookup = 2 =>
            Found(q) = {[q EXCEPT !.at = "write", !.observed = "success"], Lookup(q, 3)}
      BY <1>2 DEF Found
    <3>3. QED
      BY <1>2, <3>1, <3>2
  <2>2. ASSUME NEW i \in {2, 3}, p = Lookup(q, i)
        PROVE  /\ p.name = q.name /\ p.lookup = i /\ p.type = q.type
               /\ p.at = "lookup" /\ p.unread = Zones
    BY <2>2 DEF Lookup, QueryStates
  <2>3. CASE p = [q EXCEPT !.at = "write", !.observed = "success"]
    BY <2>3 DEF QueryStates
  <2>4. QED
    BY <2>1, <2>2, <2>3
<1>3. CASE q.type = "ip" /\ q.lookup = 3
  <2>1. p \in {[q EXCEPT !.at = "write", !.observed = "fail"],
               [Finished(q, "servfail") EXCEPT !.observed = "fail", !.empty = TRUE]}
    BY <1>3 DEF Found
  <2>2. QED
    BY <1>3, <2>1 DEF Finished, QueryStates
<1>4. QED
  BY <1>1, <1>2, <1>3

LEMMA NotFoundEndings ==
    ASSUME NEW q \in QueryStates, q.lookup \in 1..3
    PROVE  /\ NotFound(q).name = q.name /\ NotFound(q).lookup \in 1..3
           /\ NotFound(q).type = q.type /\ NotFound(q).at \in {"lookup", "done"}
  BY DEF NotFound, Finished, Lookup, QueryStates

\* A query that is received is over, or at its first lookup.
LEMMA ReceiveEndings ==
    ASSUME NEW n \in Names, NEW t \in Types, NEW client \in BOOLEAN, Receive(n, t, client)
    PROVE  /\ query'.name = Lower[n]
           /\ \/ query'.at = "done" /\ query'.lookup = 0
              \/ /\ query'.at = "lookup" /\ query'.lookup = 1 /\ query'.unread = Zones
                 /\ query'.type = t /\ t \in {"ip", "TXT"}
<1> DEFINE q == [NoQuery EXCEPT !.name = Lower[n], !.type = t]
<1>1. q \in QueryStates /\ q.type = t /\ q.name = Lower[n] /\ q.lookup = 0
  BY NoQueryType, ConstantsAssumption DEF QueryStates
<1>2. \/ query' = Finished(q, "next")
      \/ query' = Finished(q, "servfail")
      \/ query' = Lookup(q, 1) /\ t # "other"
  BY DEF Receive
<1>3. ASSUME NEW p \in QueryStates, NEW outcome, query' = Finished(p, outcome)
      PROVE  query'.at = "done" /\ query'.lookup = p.lookup /\ query'.name = p.name
  BY <1>3 DEF Finished, QueryStates
<1>4. ASSUME NEW p \in QueryStates, query' = Lookup(p, 1)
      PROVE  /\ query'.at = "lookup" /\ query'.lookup = 1 /\ query'.unread = Zones
             /\ query'.type = p.type /\ query'.name = p.name
  BY <1>4 DEF Lookup, QueryStates
<1> HIDE DEF q
<1>5. QED
  BY <1>1, <1>2, <1>3, <1>4 DEF Types

LEMMA InvInit == Init => IInv
<1>1. SUFFICES ASSUME Init PROVE IInv
  OBVIOUS
<1>2. query.at = "idle"
  BY <1>1, NoQueryType DEF Init
<1>3. QED
  BY <1>1, <1>2, TypeInit DEF IInv, LookupInv, SteadyInv, KnownIsAnswered, Resolved

LEMMA LookupStep == TypeOK /\ LookupInv /\ [Next]_vars => LookupInv'
<1>1. SUFFICES ASSUME TypeOK, LookupInv, [Next]_vars PROVE LookupInv'
  OBVIOUS
<1>2. query \in QueryStates
  BY <1>1 DEF TypeOK
<1>3. ASSUME NEW n \in Names, NEW t \in Types, NEW client \in BOOLEAN, Receive(n, t, client)
      PROVE  LookupInv'
  BY <1>3, ReceiveEndings DEF LookupInv
<1>4. ASSUME NEW z \in Zones, LookupZone(z) PROVE LookupInv'
  <2>1. query.at = "lookup" /\ query.lookup \in 1..3 /\ query.type \in {"ip", "TXT"}
    BY <1>1, <1>4 DEF LookupZone, LookupInv
  <2>2. query' \in Found(query) \/ query' = [query EXCEPT !.unread = @ \ {z}]
    BY <1>4 DEF LookupZone
  <2>3. query'.lookup \in 1..3 /\ query'.type \in {"ip", "TXT"}
    BY <1>2, <2>1, <2>2, FoundEndings DEF QueryStates
  <2>4. QED
    BY <2>3 DEF LookupInv
<1>5. CASE LookupFails
  BY <1>1, <1>2, <1>5, NotFoundEndings DEF LookupFails, LookupInv
<1>6. CASE Write \/ Leave
  <2>1. query'.at \in {"done", "idle"}
    BY <1>2, <1>6, NoQueryType DEF Write, Leave, Finished, QueryStates
  <2>2. QED
    BY <2>1 DEF LookupInv
<1>7. CASE Reload \/ Down \/ UNCHANGED vars
  BY <1>1, <1>7 DEF Reload, ReloadBegin, Add, Delete, Writes, WriteEnds, ReloadEnd, Down,
                    vars, LookupInv
<1>8. QED
  BY <1>1, <1>3, <1>4, <1>5, <1>6, <1>7 DEF Next, Query, ClientKnown

\* The records of a name are in the maps, each under its own key.
LEMMA RecordsAre ==
    ASSUME TypeOK, NEW n, NEW o \in RecordsOf(records, n)
    PROVE  /\ o.zone \in Zones /\ o.name \in Names /\ Lower[o.name] = Lower[n]
           /\ records[o.zone][o.name] = o
<1>1. PICK z \in Zones, m \in Names : o = records[z][m] /\ o # NoRecord
  BY DEF RecordsOf
<1>2. o.zone = z /\ o.name = m
  BY <1>1 DEF TypeOK
<1>3. QED
  BY <1>1, <1>2 DEF RecordsOf

LEMMA RecordsWillBe ==
    ASSUME TypeOK', NEW n, NEW o \in RecordsOf(records', n)
    PROVE  /\ o.zone \in Zones /\ o.name \in Names
           /\ records'[o.zone][o.name] = o
<1>1. PICK z \in Zones, m \in Names : o = records'[z][m] /\ o # NoRecord
  BY DEF RecordsOf
<1>2. o.zone = z /\ o.name = m
  BY <1>1 DEF TypeOK
<1>3. QED
  BY <1>1, <1>2

\* A query whose state is as SteadyInv says, if the maps and the history stay.
LEMMA SteadyNext ==
    ASSUME SteadyInv, UNCHANGED <<records, steady>>, query'.name = query.name,
           query.at = "lookup",
           query'.at = "lookup" =>
             \A o \in steady : o.name = query.name => o.zone \in query'.unread
    PROVE  SteadyInv'
  BY DEF SteadyInv

LEMMA SteadyStep ==
    ASSUME TypeOK, TypeOK', LookupInv, SteadyInv, [Next]_vars
    PROVE  SteadyInv'
<1>1. query \in QueryStates
  BY DEF TypeOK
<1>2. ASSUME NEW n \in Names, NEW t \in Types, NEW client \in BOOLEAN, Receive(n, t, client)
      PROVE  SteadyInv'
  <2>3. query'.name = Lower[n] /\ (query'.at = "lookup" => query'.unread = Zones)
    BY <1>2, ReceiveEndings
  <2>4. records' = records /\ steady' = RecordsOf(records, n)
    BY <1>2 DEF Receive
  <2>5. \A o \in steady' : /\ o.zone \in Zones /\ o.name \in Names
                           /\ Lower[o.name] = Lower[n] /\ records[o.zone][o.name] = o
    BY <2>4, RecordsAre
  <2>6. QED
    BY <2>3, <2>4, <2>5 DEF SteadyInv
<1>3. ASSUME NEW z \in Zones, LookupZone(z) PROVE SteadyInv'
  <2>1. /\ query.at = "lookup" /\ query.lookup \in 1..3 /\ query.type \in {"ip", "TXT"}
        /\ UNCHANGED <<records, steady>>
    BY <1>3 DEF LookupZone, LookupInv
  <2>2. \A o \in steady : /\ o.zone \in Zones /\ records[o.zone][o.name] = o
                          /\ o.name = query.name => o.zone \in query.unread
    BY <2>1 DEF SteadyInv
  <2>3. CASE records[z][query.name] # NoRecord
    <3>1. query' \in Found(query)
      BY <1>3, <2>3 DEF LookupZone
    <3>2. query'.name = query.name /\ (query'.at = "lookup" => query'.unread = Zones)
      BY <1>1, <2>1, <3>1, FoundEndings
    <3>3. QED
      BY <2>1, <2>2, <3>2, SteadyNext
  <2>4. CASE records[z][query.name] = NoRecord
    <3>1. query' = [query EXCEPT !.unread = @ \ {z}]
      BY <1>3, <2>4 DEF LookupZone
    <3>2. query'.name = query.name /\ query'.unread = query.unread \ {z}
      BY <1>1, <3>1 DEF QueryStates
    <3>3. \A o \in steady : o.name = query.name => o.zone # z
      BY <2>2, <2>4, ConstantsAssumption DEF TypeOK
    <3>4. QED
      BY <2>1, <2>2, <3>2, <3>3, SteadyNext
  <2>5. QED
    BY <2>3, <2>4
<1>4. CASE LookupFails
  <2>1. \A o \in steady : o.name # query.name
    BY <1>4 DEF LookupFails, SteadyInv
  <2>2. query'.name = query.name
    BY <1>1, <1>4, NotFoundEndings DEF LookupFails, LookupInv
  <2>3. query.at = "lookup" /\ UNCHANGED <<records, steady>>
    BY <1>4 DEF LookupFails
  <2>4. QED
    BY <2>1, <2>2, <2>3, SteadyNext
<1>5. CASE Write \/ Leave
  <2>1. query'.at \in {"done", "idle"}
    BY <1>1, <1>5, NoQueryType DEF Write, Leave, Finished, QueryStates
  <2>2. QED
    BY <2>1 DEF SteadyInv
<1>6. ASSUME NEW n \in Names, NEW o, Writes(n, o) PROVE SteadyInv'
  <2>1. query' = query
    BY <1>6 DEF Writes
  <2>2. SUFFICES ASSUME query.at \in {"lookup", "write"} PROVE SteadyInv'
    BY <2>1 DEF SteadyInv
  <2>3. steady' = steady \cap RecordsOf(records', query.name)
    BY <1>6, <2>2 DEF Writes
  <2>4. \A p \in steady' : p \in steady /\ p.zone \in Zones /\ p.name \in Names
                           /\ records'[p.zone][p.name] = p
    BY <2>3, RecordsWillBe
  <2>5. QED
    BY <2>1, <2>3, <2>4 DEF SteadyInv
<1>7. CASE (\E z \in Zones : ReloadBegin(z)) \/ WriteEnds \/ ReloadEnd \/ Down \/ UNCHANGED vars
  BY <1>7 DEF ReloadBegin, WriteEnds, ReloadEnd, Down, vars, SteadyInv
<1>8. QED
  BY <1>2, <1>3, <1>4, <1>5, <1>6, <1>7 DEF Next, Query, ClientKnown, Reload, Add, Delete

LEMMA AnswerStep ==
    ASSUME IInv, [Next]_vars
    PROVE  KnownIsAnswered'
<1>1. query \in QueryStates /\ LookupInv /\ SteadyInv /\ KnownIsAnswered /\ TypeOK
  BY DEF IInv, TypeOK
<1>2. ASSUME NEW n \in Names, NEW t \in Types, NEW client \in BOOLEAN, Receive(n, t, client)
      PROVE  KnownIsAnswered'
  BY <1>2, ReceiveEndings DEF KnownIsAnswered, Resolved
<1>3. ASSUME NEW z \in Zones, LookupZone(z) PROVE KnownIsAnswered'
  <2>1. query.at = "lookup" /\ query.lookup \in 1..3 /\ query.type \in {"ip", "TXT"}
    BY <1>1, <1>3 DEF LookupZone, LookupInv
  <2>2. query' \in Found(query) \/ query' = [query EXCEPT !.unread = @ \ {z}]
    BY <1>3 DEF LookupZone
  <2>3. query'.at = "done" => query'.outcome = "servfail" /\ query'.empty
    BY <1>1, <2>1, <2>2, FoundEndings DEF QueryStates
  <2>4. QED
    BY <2>3 DEF KnownIsAnswered, Resolved
<1>4. CASE LookupFails
  <2>1. steady' = steady /\ \A o \in steady : o.name # Lower[o.name]
    BY <1>1, <1>4 DEF LookupFails, SteadyInv
  <2>2. QED
    BY <2>1 DEF KnownIsAnswered
<1>5. CASE Write
  <2>1. PICK ok \in BOOLEAN :
         query' = [Finished(query, IF ok THEN "answer" ELSE "servfail") EXCEPT
                     !.counted = IF query.type = "TXT" THEN "none"
                                 ELSE IF ok THEN "success" ELSE "fail"]
    BY <1>5 DEF Write
  <2>2. CASE ok
    <3>1. query'.outcome = "answer"
      BY <1>1, <2>1, <2>2 DEF Finished, QueryStates
    <3>2. QED
      BY <3>1 DEF KnownIsAnswered
  <2>3. CASE ~ok
    <3>1. /\ query'.outcome = "servfail" /\ query'.type = query.type
          /\ query.type # "TXT" => query'.counted = "fail"
      BY <1>1, <2>1, <2>3 DEF Finished, QueryStates
    <3>2. QED
      BY <3>1 DEF KnownIsAnswered
  <2>4. QED
    BY <2>2, <2>3
<1>6. CASE Leave
  BY <1>6, NoQueryType DEF Leave, KnownIsAnswered, Resolved
<1>7. ASSUME NEW n \in Names, NEW o, Writes(n, o) PROVE KnownIsAnswered'
  BY <1>1, <1>7 DEF Writes, KnownIsAnswered, Resolved
<1>8. CASE (\E z \in Zones : ReloadBegin(z)) \/ WriteEnds \/ ReloadEnd \/ Down \/ UNCHANGED vars
  BY <1>1, <1>8 DEF ReloadBegin, WriteEnds, ReloadEnd, Down, vars, KnownIsAnswered, Resolved
<1>9. QED
  BY <1>2, <1>3, <1>4, <1>5, <1>6, <1>7, <1>8 DEF Next, Query, ClientKnown, Reload, Add, Delete

\* A name with a record that stays is never left to the next plugin, whatever the
\* reloads add and delete between the lookups.
THEOREM KnownIsAlwaysAnswered == Spec => []KnownIsAnswered
<1>1. IInv /\ [Next]_vars => IInv'
  BY TypeStep, LookupStep, SteadyStep, AnswerStep DEF IInv
<1>2. IInv => KnownIsAnswered
  BY DEF IInv
<1>3. QED
  BY InvInit, <1>1, <1>2, PTL DEF Spec
=============================================================================
