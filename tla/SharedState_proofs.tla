------------------------- MODULE SharedState_proofs -------------------------
(***************************************************************************)
(* Proofs about the three pieces of state that queries read while others   *)
(* write: the slice of backends of a record (BackendList), the round-robin *)
(* index of a domain (RoundRobin) and the custom location map              *)
(* (LocationMap).  For every set of addresses, lists and record types, and *)
(* any number of updates, saves and goroutines:                            *)
(*   - the update loop leaves the backends of the file, one object each,   *)
(*     and keeps the objects of those it knows;                            *)
(*   - no scan misses a backend that stays while others are appended, and  *)
(*     a scan that meets no update is exact;                               *)
(*   - the index stays below the length of some list, and a round returns  *)
(*     no backend twice;                                                   *)
(*   - the loads of the location map are those of one loader.              *)
(***************************************************************************)
EXTENDS BackendList, RoundRobin, LocationMap, FiniteSetTheorems, SequenceTheorems, TLAPS

----------------------------------------------------------------------------
(***************************************************************************)
(* The slice of backends: what holds in every state.  ListMatchesFile says *)
(* nothing of an update on its way, and NoneMissed nothing of a scan on    *)
(* its way: neither is inductive.                                          *)
(***************************************************************************)

\* What an update has done so far: each address of the record comes once, each
\* address of the file is in the record or still to come.
ListInv ==
    /\ \A i \in 1..Filled : Stored[i] \in Objects
    /\ update.at # "shift" =>
         \A i, j \in 1..Filled : Stored[i].address = Stored[j].address => i = j
    /\ update.at = "store" =>
         /\ list.len > 0 /\ update.todo # <<>>
         /\ \A i \in 1..Filled : Stored[i].address # Head(update.todo)
    /\ Range(file) \subseteq {b.address : b \in Members} \cup Range(update.todo)
    /\ Range(update.todo) \subseteq Range(file)
    /\ update.at \in {"idle", "shift"} => update.todo = <<>>
    /\ update.at = "idle" => {b.address : b \in Members} \subseteq Range(file)

\* Place i after some of the elements behind the first were moved to the front.
Shifted(first, i) ==
    Stored[i] = IF i < first \/ i \in update.left \/ i = list.len THEN update.from[i]
                ELSE update.from[i + 1]

ShiftInv ==
    update.at = "shift" =>
        /\ Len(update.from) = list.len
        /\ \A i, j \in 1..list.len : update.from[i].address = update.from[j].address => i = j
        /\ \E first \in 1..list.len :
             /\ update.from[first].address \notin Range(file)
             /\ update.left \subseteq first..(list.len - 1)
             /\ \A i \in 1..list.len : Shifted(first, i)

\* A backend that stays has a place that the scan has loaded or will load: appending
\* does not move it, nor takes it out of an array loaded before.
Findable(b, p) ==
    /\ p <= scan.size
    /\ Stored[p] = b
    /\ scan.at \in {"length", "visit", "done"} =>
         p \in DOMAIN arrays[scan.array] /\ arrays[scan.array][p] = b
    /\ scan.at \in {"visit", "done"} => p <= scan.len
    /\ p <= Len(scan.visited) => scan.visited[p] = b
    /\ scan.at = "done" => p <= Len(scan.visited)

SteadyInv ==
    scan.at # "idle" /\ ~seen.shrunk =>
        /\ update.at # "shift"
        /\ \A b \in seen.steady : \E p \in 1..Filled : Findable(b, p)

ArrayInv == scan.at \in {"length", "visit", "done"} => scan.array \in DOMAIN arrays

\* A scan no update has met has loaded the slice as it is.
QuietInv ==
    /\ scan.at # "idle" /\ scan.kind = "locked" => ~seen.disturbed
    /\ scan.at # "idle" /\ ~seen.disturbed =>
         /\ update.at = "idle" /\ scan.at # "panicked" /\ scan.size = list.len
         /\ scan.at \in {"length", "visit", "done"} => scan.array = list.array
         /\ scan.at \in {"visit", "done"} => scan.len = list.len
         /\ Len(scan.visited) <= list.len
         /\ \A k \in 1..Len(scan.visited) : scan.visited[k] = Stored[k]
         /\ scan.at = "done" => Len(scan.visited) = list.len

----------------------------------------------------------------------------
(***************************************************************************)
(* The slice of backends: sequences and arrays.                            *)
(***************************************************************************)

UpdateStates(len) ==
    [at : {"idle", "match", "store", "shift"}, count : 0..MaxUpdates,
     todo : Seq(Addresses), from : Seq(Objects), left : SUBSET (1..len)]

ListTyped ==
    /\ arrays \in Seq(Seq(Objects \cup {Nil}))
    /\ list \in [array : DOMAIN arrays, len : Nat]
    /\ list.len <= Len(Stored)
    /\ file \in Files
    /\ update \in UpdateStates(list.len)

ScanTyped ==
    /\ scan \in [at : {"idle", "array", "length", "visit", "done", "panicked"}, kind : Kinds,
                 size : Nat, array : 0..Len(arrays), len : Nat, visited : Seq(Objects)]
    /\ seen \in [steady : SUBSET Objects, ever : SUBSET Objects,
                 disturbed : BOOLEAN, shrunk : BOOLEAN]

LEMMA TypeParts == TypeOK <=> ListTyped /\ ScanTyped
  BY DEF TypeOK, ListTyped, UpdateStates, ScanTyped

LEMMA TypePartsNext == ListTyped' /\ ScanTyped' => TypeOK'
  BY DEF TypeOK, ListTyped, UpdateStates, ScanTyped

LEMMA FirstAndRest ==
    ASSUME NEW S, NEW s \in Seq(S), s # <<>>
    PROVE  Head(s) \in S /\ Tail(s) \in Seq(S) /\ Range(s) = {Head(s)} \cup Range(Tail(s))
<1>1. /\ Head(s) \in S /\ Tail(s) \in Seq(S) /\ Len(Tail(s)) = Len(s) - 1
      /\ \A i \in 1..Len(Tail(s)) : Tail(s)[i] = s[i + 1]
  BY HeadTailProperties
<1>2. Len(s) \in Nat /\ Len(s) > 0 /\ Head(s) = s[1] /\ DOMAIN s = 1..Len(s)
      /\ DOMAIN Tail(s) = 1..Len(Tail(s))
  BY <1>1, EmptySeq, LenProperties
<1>3. ASSUME NEW x \in Range(s) PROVE x \in {Head(s)} \cup Range(Tail(s))
  <2>1. PICK i \in 1..Len(s) : x = s[i]
    BY <1>3 DEF Range
  <2>2. CASE i = 1
    BY <1>2, <2>1, <2>2
  <2>3. CASE i # 1
    <3>1. PICK j \in 1..Len(Tail(s)) : i = j + 1
      BY <1>1, <1>2, <2>1, <2>3
    <3>2. Tail(s)[j] = x
      BY <1>1, <2>1, <3>1
    <3>3. QED
      BY <1>2, <3>2 DEF Range
  <2>4. QED
    BY <2>2, <2>3
<1>4. ASSUME NEW x \in {Head(s)} \cup Range(Tail(s)) PROVE x \in Range(s)
  <2>1. CASE x = Head(s)
    BY <1>1, <1>2, <2>1 DEF Range
  <2>2. CASE x \in Range(Tail(s))
    <3>1. PICK i \in 1..Len(Tail(s)) : x = Tail(s)[i]
      BY <1>1, <2>2 DEF Range
    <3>2. i + 1 \in 1..Len(s) /\ x = s[i + 1]
      BY <1>1, <1>2, <3>1
    <3>3. QED
      BY <3>2 DEF Range
  <2>3. QED
    BY <1>4, <2>1, <2>2
<1>5. QED
  BY <1>1, <1>3, <1>4

LEMMA ReplaceOne ==
    ASSUME NEW S, NEW s \in Seq(S), NEW i \in 1..Len(s), NEW v \in S,
           NEW t, t = [s EXCEPT ![i] = v]
    PROVE  /\ t \in Seq(S) /\ Len(t) = Len(s)
           /\ DOMAIN s = 1..Len(s) /\ DOMAIN t = 1..Len(s) /\ t[i] = v
           /\ \A j \in 1..Len(s) : j # i => t[j] = s[j]
<1>1. t \in Seq(S) /\ Len(t) = Len(s) /\ \A j \in 1..Len(s) : t[j] = IF j = i THEN v ELSE s[j]
  BY ExceptSeq
<1>2. QED
  BY <1>1, LenProperties

\* A store into one array leaves all other elements as they are.
LEMMA StoreInto ==
    ASSUME NEW S, NEW as \in Seq(Seq(S)), NEW k \in 1..Len(as), NEW i \in 1..Len(as[k]), NEW v \in S,
           NEW bs
    PROVE  bs = [as EXCEPT ![k][i] = v] =>
           /\ bs \in Seq(Seq(S)) /\ Len(bs) = Len(as) /\ DOMAIN bs = DOMAIN as
           /\ \A m \in DOMAIN as : m # k => bs[m] = as[m]
           /\ bs[k] \in Seq(S) /\ Len(bs[k]) = Len(as[k]) /\ DOMAIN bs[k] = DOMAIN as[k]
           /\ bs[k][i] = v
           /\ \A j \in DOMAIN as[k] : j # i => bs[k][j] = as[k][j]
<1>1. HAVE bs = [as EXCEPT ![k][i] = v]
<1>2. bs = [as EXCEPT ![k] = [as[k] EXCEPT ![i] = v]]
  BY <1>1
<1>3. PICK T : T = Seq(S)
  OBVIOUS
<1>4. as \in Seq(T) /\ as[k] \in T
  BY <1>3, ElementOfSeq
<1>5. PICK a : a = as[k]
  OBVIOUS
<1>6. a \in Seq(S) /\ i \in 1..Len(a)
  BY <1>3, <1>4, <1>5
<1>7. PICK b : b = [a EXCEPT ![i] = v]
  OBVIOUS
<1>8. /\ b \in Seq(S) /\ Len(b) = Len(a)
      /\ DOMAIN a = 1..Len(a) /\ DOMAIN b = 1..Len(a) /\ b[i] = v
      /\ \A j \in 1..Len(a) : j # i => b[j] = a[j]
  BY <1>6, <1>7, ReplaceOne
<1>9. bs = [as EXCEPT ![k] = b] /\ b \in T
  BY <1>2, <1>3, <1>5, <1>7, <1>8
<1>10. /\ bs \in Seq(T) /\ Len(bs) = Len(as)
       /\ DOMAIN as = 1..Len(as) /\ DOMAIN bs = 1..Len(as) /\ bs[k] = b
       /\ \A j \in 1..Len(as) : j # k => bs[j] = as[j]
  <2>1. \A j \in 1..Len(as), w \in T : \A t : t = [as EXCEPT ![j] = w] =>
           /\ t \in Seq(T) /\ Len(t) = Len(as)
           /\ DOMAIN as = 1..Len(as) /\ DOMAIN t = 1..Len(as) /\ t[j] = w
           /\ \A m \in 1..Len(as) : m # j => t[m] = as[m]
    BY <1>4, ReplaceOne
  <2>2. QED
    BY <1>9, <2>1
<1>11. QED
  BY <1>3, <1>5, <1>8, <1>10

\* A new array is put behind the others.
LEMMA OneMoreArray ==
    ASSUME NEW S, NEW as \in Seq(S), NEW a \in S, NEW bs, bs = Append(as, a)
    PROVE  /\ bs \in Seq(S) /\ Len(bs) = Len(as) + 1 /\ Len(as) \in Nat
           /\ bs[Len(bs)] = a /\ \A m \in 1..Len(as) : bs[m] = as[m]
<1>1. Append(as, a) \in Seq(S)
  BY AppendProperties
<1>2. Len(Append(as, a)) = Len(as) + 1
  BY AppendProperties
<1>3. \A m \in 1..Len(as) : Append(as, a)[m] = as[m]
  BY AppendProperties
<1>4. Append(as, a)[Len(as) + 1] = a
  BY AppendProperties
<1>5. Len(as) \in Nat
  BY LenProperties
<1>6. QED
  BY <1>1, <1>2, <1>3, <1>4, <1>5

LEMMA PaddedKeeps ==
    ASSUME NEW S, Nil \in S, NEW s \in Seq(S), NEW cap \in Nat, Len(s) <= cap
    PROVE  /\ Padded(s, cap) \in Seq(S) /\ Len(Padded(s, cap)) = cap
           /\ \A i \in 1..Len(s) : Padded(s, cap)[i] = s[i]
<1>1. \A i \in 1..cap : (IF i \in DOMAIN s THEN s[i] ELSE Nil) \in S
  OBVIOUS
<1>2. Padded(s, cap) \in [1..cap -> S]
  BY <1>1 DEF Padded
<1>3. Padded(s, cap) \in Seq(S) /\ Len(Padded(s, cap)) = cap
  BY <1>2
<1>4. \A i \in 1..Len(s) : i \in 1..cap /\ i \in DOMAIN s
  OBVIOUS
<1>5. QED
  BY <1>3, <1>4 DEF Padded

LEMMA GrownIsMore ==
    ASSUME NEW cap \in Nat, NEW more \in Grown(cap)
    PROVE  more \in Nat /\ more > cap
<1>1. CASE cap = 0
  BY <1>1 DEF Grown
<1>2. CASE cap # 0 /\ cap < 256
  BY <1>2 DEF Grown
<1>3. CASE cap # 0 /\ ~(cap < 256)
  BY <1>3 DEF Grown
<1>4. QED
  BY <1>1, <1>2, <1>3

LEMMA CapacitiesSuffice ==
    ASSUME NEW n \in Nat, NEW cap \in Capacities(n)
    PROVE  cap \in Nat /\ n <= cap
  BY DEF Capacities

LEMMA FilesTyped ==
    ASSUME NEW f \in Files
    PROVE  f \in Seq(Addresses) /\ IsInjective(f)
<1>1. Cardinality(Addresses) \in Nat
  BY ConstantsAssumption, FS_CardinalityType
<1>2. PICK m \in 0..Cardinality(Addresses) : f \in [1..m -> Addresses]
  BY <1>1 DEF Files, SeqOf
<1>3. m \in Nat
  BY <1>1, <1>2
<1>4. QED
  BY <1>2, <1>3 DEF Files

----------------------------------------------------------------------------
(***************************************************************************)
(* The steps of an update.                                                 *)
(***************************************************************************)

\* No element moves or goes, in the array in use or in an earlier one.
StaysPut ==
    /\ \A p \in 1..Filled : p \in 1..Filled' /\ Stored'[p] = Stored[p]
    /\ \A m \in DOMAIN arrays :
         /\ m \in DOMAIN arrays'
         /\ \A p \in 1..Filled :
              p \in DOMAIN arrays[m] => p \in DOMAIN arrays'[m] /\ arrays'[m][p] = arrays[m][p]

KeepsKnown == \A b \in Members : b.address \in Range(file') => b \in Members'

\* What every step of an update does.
Updated ==
    /\ ListTyped' /\ ListInv' /\ ShiftInv'
    /\ KeepsKnown
    /\ Len(arrays) <= Len(arrays')
    /\ update.at # "shift" /\ update'.at # "shift" => StaysPut

ListOK == ListTyped /\ ListInv /\ ShiftInv

LEMMA ListFacts ==
    ASSUME ListTyped
    PROVE  /\ Len(arrays) \in Nat /\ DOMAIN arrays = 1..Len(arrays) /\ list.array \in 1..Len(arrays)
           /\ list.len \in Nat /\ Len(Stored) \in Nat /\ list.len <= Len(Stored)
           /\ Stored \in Seq(Objects \cup {Nil}) /\ DOMAIN Stored = 1..Len(Stored)
           /\ Filled \in Int /\ Filled <= list.len
<1>1. /\ arrays \in Seq(Seq(Objects \cup {Nil})) /\ list.array \in DOMAIN arrays
      /\ list.len \in Nat /\ list.len <= Len(Stored)
  BY DEF ListTyped
<1>2. Len(arrays) \in Nat /\ DOMAIN arrays = 1..Len(arrays)
  BY <1>1, LenProperties
<1>3. Stored \in Seq(Objects \cup {Nil})
  BY <1>1, <1>2, ElementOfSeq DEF Stored
<1>4. Len(Stored) \in Nat /\ DOMAIN Stored = 1..Len(Stored)
  BY <1>3, LenProperties
<1>5. QED
  BY <1>1, <1>2, <1>3, <1>4 DEF Filled

LEMMA UpdateFacts ==
    ASSUME ListTyped
    PROVE  /\ update \in UpdateStates(list.len)
           /\ update.count \in Nat /\ MaxUpdates \in Nat
           /\ update.todo \in Seq(Addresses) /\ update.from \in Seq(Objects)
           /\ DOMAIN update.from = 1..Len(update.from) /\ Len(update.from) \in Nat
           /\ <<>> \in Seq(Objects) /\ <<>> \in Seq(Addresses) /\ Range(<<>>) = {}
<1>1. /\ update \in UpdateStates(list.len)
      /\ update.count \in 0..MaxUpdates
      /\ update.todo \in Seq(Addresses) /\ update.from \in Seq(Objects)
  BY DEF ListTyped, UpdateStates
<1>2. DOMAIN update.from = 1..Len(update.from) /\ Len(update.from) \in Nat
  BY <1>1, LenProperties
<1>3. <<>> \in Seq(Objects) /\ <<>> \in Seq(Addresses)
  BY EmptySeq
<1>4. Range(<<>>) = {}
  BY DEF Range
<1>5. QED
  BY <1>1, <1>2, <1>3, <1>4, ConstantsAssumption

\* A step that leaves the slice alone, before or after the backends are matched.
LEMMA SliceStays ==
    ASSUME ListTyped, ListInv, UNCHANGED <<arrays, list>>,
           update.at \in {"idle", "match"}, update'.at \in {"idle", "match"},
           file' \in Files,
           update' \in UpdateStates(list.len),
           Range(file') \subseteq {b.address : b \in Members} \cup Range(update'.todo),
           Range(update'.todo) \subseteq Range(file'),
           update'.at = "idle" => /\ update'.todo = <<>>
                                  /\ {b.address : b \in Members} \subseteq Range(file')
    PROVE  Updated
<1>1. Stored' = Stored /\ list.len' = list.len /\ Filled = list.len /\ Filled' = list.len
  BY DEF Stored, Filled
<1>2. Members' = Members
  BY <1>1 DEF Members
<1>3. ListTyped'
  BY <1>1 DEF ListTyped
<1>4. ListInv'
  BY <1>1, <1>2 DEF ListInv
<1>5. ShiftInv'
  BY DEF ShiftInv
<1>6. KeepsKnown
  BY <1>2 DEF KeepsKnown
<1>7. StaysPut
  BY <1>1 DEF StaysPut
<1>8. Len(arrays) <= Len(arrays')
  BY ListFacts
<1>9. QED
  BY <1>3, <1>4, <1>5, <1>6, <1>7, <1>8 DEF Updated

LEMMA UpdateBeginUpdates == ListOK /\ UpdateBegin => Updated
<1>1. SUFFICES ASSUME ListOK, UpdateBegin PROVE Updated
  OBVIOUS
<1>2. ListTyped /\ ListInv /\ update.at = "idle" /\ update.count < MaxUpdates
      /\ UNCHANGED <<arrays, list>> /\ file' \in Files
      /\ update' = [update EXCEPT !.at = "match", !.todo = file', !.count = @ + 1]
  BY <1>1 DEF ListOK, UpdateBegin
<1>3. file' \in Seq(Addresses)
  BY <1>2, FilesTyped
<1>4. update' \in UpdateStates(list.len)
      /\ update'.at = "match" /\ update'.todo = file'
  <2>1. update.count + 1 \in 0..MaxUpdates
    BY <1>2, UpdateFacts
  <2>2. QED
    BY <1>2, <1>3, <2>1, UpdateFacts DEF UpdateStates
<1>5. QED
  BY <1>2, <1>4, SliceStays

LEMMA UpdateUpdates == ListOK /\ Update => Updated
<1>1. SUFFICES ASSUME ListOK, Update PROVE Updated
  OBVIOUS
<1>2. ListTyped /\ ListInv /\ update.at = "match" /\ update.todo # <<>>
      /\ Known(Head(update.todo)) /\ UNCHANGED <<arrays, list, file>>
      /\ update' = [update EXCEPT !.todo = Tail(@)]
  BY <1>1 DEF ListOK, Update
<1>3. /\ Tail(update.todo) \in Seq(Addresses)
      /\ Range(update.todo) = {Head(update.todo)} \cup Range(Tail(update.todo))
  BY <1>2, UpdateFacts, FirstAndRest
<1>4. update' \in UpdateStates(list.len)
      /\ update'.at = "match" /\ update'.todo = Tail(update.todo)
  BY <1>2, <1>3, UpdateFacts DEF UpdateStates
<1>5. Head(update.todo) \in {b.address : b \in Members}
  BY <1>2 DEF Known, Members, Filled
<1>6. Range(file) \subseteq {b.address : b \in Members} \cup Range(update.todo)
      /\ Range(update.todo) \subseteq Range(file) /\ file \in Files
  BY <1>2 DEF ListInv, ListTyped
<1>7. QED
  BY <1>2, <1>3, <1>4, <1>5, <1>6, SliceStays

LEMMA UpdateEndUpdates == ListOK /\ UpdateEnd => Updated
<1>1. SUFFICES ASSUME ListOK, UpdateEnd PROVE Updated
  OBVIOUS
<1>2. ListTyped /\ ListInv /\ update.at = "match" /\ update.todo = <<>>
      /\ Gone = {} /\ UNCHANGED <<arrays, list, file>>
      /\ update' = [update EXCEPT !.at = "idle"]
  BY <1>1 DEF ListOK, UpdateEnd
<1>3. update' \in UpdateStates(list.len)
      /\ update'.at = "idle" /\ update'.todo = <<>>
  BY <1>2, UpdateFacts DEF UpdateStates
<1>4. {b.address : b \in Members} \subseteq Range(file)
  BY <1>2 DEF Gone, Members, Filled
<1>5. Range(file) \subseteq {b.address : b \in Members} \cup Range(update.todo)
      /\ Range(update.todo) \subseteq Range(file) /\ file \in Files
  BY <1>2 DEF ListInv, ListTyped
<1>6. QED
  BY <1>2, <1>3, <1>4, <1>5, SliceStays

LEMMA OtherArray ==
    ASSUME NEW A, NEW slice \in [array : A, len : Nat], NEW B, NEW k \in B
    PROVE  LET other == [slice EXCEPT !.array = k]
           IN  other \in [array : B, len : Nat] /\ other.array = k /\ other.len = slice.len
  OBVIOUS

LEMMA OtherLength ==
    ASSUME NEW A, NEW slice \in [array : A, len : Nat], NEW n \in Nat
    PROVE  LET other == [slice EXCEPT !.len = n]
           IN  /\ other \in [array : A, len : Nat]
               /\ other.array = slice.array /\ other.array \in A /\ other.len = n
  OBVIOUS

LEMMA GrowUpdates == ListOK /\ Grow => Updated
<1>1. SUFFICES ASSUME ListOK, Grow PROVE Updated
  OBVIOUS
<1>2. /\ ListTyped /\ ListInv /\ update.at = "match" /\ list.len = Len(Stored)
      /\ list' = [list EXCEPT !.array = Len(arrays')] /\ UNCHANGED <<update, file>>
  BY <1>1 DEF ListOK, Grow, Adding
<1>3. PICK cap \in Grown(Len(Stored)) : arrays' = Append(arrays, Padded(Stored, cap))
  BY <1>1 DEF Grow
<1>4. cap \in Nat /\ Len(Stored) <= cap
  BY <1>2, ListFacts, GrownIsMore
<1>5. PICK a : a = Padded(Stored, cap)
  OBVIOUS
<1>6. /\ a \in Seq(Objects \cup {Nil}) /\ Len(a) = cap /\ \A i \in 1..Len(Stored) : a[i] = Stored[i]
  BY <1>2, <1>4, <1>5, ListFacts, PaddedKeeps
<1>7. arrays \in Seq(Seq(Objects \cup {Nil})) /\ arrays' = Append(arrays, a)
  BY <1>2, <1>3, <1>5 DEF ListTyped
<1>8. /\ arrays' \in Seq(Seq(Objects \cup {Nil})) /\ Len(arrays') = Len(arrays) + 1
      /\ Len(arrays) \in Nat /\ arrays'[Len(arrays')] = a
      /\ \A m \in 1..Len(arrays) : arrays'[m] = arrays[m]
  BY <1>6, <1>7, OneMoreArray
<1>9. DOMAIN arrays' = 1..Len(arrays') /\ DOMAIN arrays = 1..Len(arrays)
  BY <1>2, <1>8, LenProperties, ListFacts
<1>10. list' \in [array : DOMAIN arrays', len : Nat] /\ list'.array = Len(arrays') /\ list'.len = list.len
  <2>1. list \in [array : DOMAIN arrays, len : Nat]
    BY <1>2 DEF ListTyped
  <2>2. Len(arrays') \in DOMAIN arrays'
    BY <1>8, <1>9
  <2>3. QED
    BY <1>2, <2>1, <2>2, OtherArray
<1>11. Stored' = a
  BY <1>8, <1>10 DEF Stored
<1>12. Filled' = list.len /\ Filled = list.len /\ list.len \in Nat
  BY <1>2, <1>10, ListFacts DEF Filled
<1>13. \A i \in 1..Filled : Stored'[i] = Stored[i]
  BY <1>2, <1>6, <1>11, <1>12
<1>14. Members' = Members
  BY <1>2, <1>12, <1>13 DEF Members
<1>15. ListTyped'
  BY <1>2, <1>4, <1>6, <1>8, <1>10, <1>11 DEF ListTyped
<1>16. ListInv'
  BY <1>2, <1>12, <1>13, <1>14 DEF ListInv
<1>17. StaysPut
  BY <1>8, <1>9, <1>12, <1>13 DEF StaysPut
<1>18. QED
  BY <1>2, <1>8, <1>14, <1>15, <1>16, <1>17 DEF Updated, KeepsKnown, ShiftInv

LEMMA LengthenUpdates == ListOK /\ Lengthen => Updated
<1>1. SUFFICES ASSUME ListOK, Lengthen PROVE Updated
  OBVIOUS
<1>2. /\ ListTyped /\ ListInv /\ update.at = "match" /\ update.todo # <<>>
      /\ ~Known(Head(update.todo)) /\ list.len < Len(Stored)
      /\ list' = [list EXCEPT !.len = @ + 1] /\ update' = [update EXCEPT !.at = "store"]
      /\ UNCHANGED <<arrays, file>>
  BY <1>1 DEF ListOK, Lengthen, Adding
<1>3. /\ list' \in [array : DOMAIN arrays', len : Nat] /\ list'.array = list.array
      /\ list'.len = list.len + 1
  <2>1. list \in [array : DOMAIN arrays, len : Nat]
    BY <1>2 DEF ListTyped
  <2>2. list.len + 1 \in Nat
    BY <1>2, ListFacts
  <2>3. QED
    BY <1>2, <2>1, <2>2, OtherLength
<1>4. update' \in UpdateStates(list'.len) /\ update'.at = "store" /\ update'.todo = update.todo
  <2>1. SUBSET (1..list.len) \subseteq SUBSET (1..(list.len + 1))
    BY <1>2, ListFacts
  <2>2. QED
    BY <1>2, <1>3, <2>1, UpdateFacts DEF UpdateStates
<1>5. Stored' = Stored
  BY <1>2, <1>3 DEF Stored
<1>6. Filled' = list.len /\ Filled = list.len /\ list.len \in Nat
  BY <1>2, <1>3, <1>4, ListFacts DEF Filled
<1>7. Members' = Members
  BY <1>2, <1>4, <1>5, <1>6 DEF Members
<1>8. ListTyped'
  BY <1>2, <1>3, <1>4, <1>5, ListFacts DEF ListTyped
<1>9. ListInv'
  <2>1. \A i \in 1..Filled' : Stored'[i].address # Head(update'.todo)
    BY <1>2, <1>4, <1>5, <1>6 DEF Known
  <2>2. list'.len > 0
    BY <1>3, <1>6
  <2>3. QED
    BY <1>2, <1>4, <1>5, <1>6, <1>7, <2>1, <2>2 DEF ListInv
<1>10. StaysPut
  BY <1>2, <1>5, <1>6 DEF StaysPut
<1>11. QED
  BY <1>2, <1>4, <1>7, <1>8, <1>9, <1>10, ListFacts DEF Updated, KeepsKnown, ShiftInv

LEMMA StoreUpdates == ListOK /\ Store => Updated
<1>1. SUFFICES ASSUME ListOK, Store PROVE Updated
  OBVIOUS
<1>2. /\ ListTyped /\ ListInv /\ update.at = "store"
      /\ arrays' = [arrays EXCEPT ![list.array][list.len] = NewBackend]
      /\ update' = [update EXCEPT !.at = "match", !.todo = Tail(@)]
      /\ UNCHANGED <<list, file>>
  BY <1>1 DEF ListOK, Store
<1>3. /\ update.todo # <<>> /\ list.len > 0 /\ Filled = list.len - 1
      /\ \A i \in 1..Filled : Stored[i] \in Objects /\ Stored[i].address # Head(update.todo)
      /\ \A i, j \in 1..Filled : Stored[i].address = Stored[j].address => i = j
  BY <1>2 DEF ListInv, Filled
<1>4. /\ Head(update.todo) \in Addresses /\ Tail(update.todo) \in Seq(Addresses)
      /\ Range(update.todo) = {Head(update.todo)} \cup Range(Tail(update.todo))
  BY <1>2, <1>3, UpdateFacts, FirstAndRest
<1>5. PICK new \in Objects : new = NewBackend /\ new.address = Head(update.todo)
  <2>1. NewBackend \in Objects /\ NewBackend.address = Head(update.todo)
    BY <1>2, <1>4, UpdateFacts DEF NewBackend, Objects, UpdateStates
  <2>2. QED
    BY <2>1
<1>6. /\ arrays \in Seq(Seq(Objects \cup {Nil})) /\ list.array \in 1..Len(arrays)
      /\ list.len \in 1..Len(arrays[list.array]) /\ new \in Objects \cup {Nil}
      /\ arrays' = [arrays EXCEPT ![list.array][list.len] = new]
      /\ DOMAIN arrays = 1..Len(arrays) /\ list.len \in Nat
      /\ DOMAIN arrays[list.array] = 1..Len(arrays[list.array])
  BY <1>2, <1>3, <1>5, ListFacts DEF ListTyped, Stored
<1>7. /\ arrays' \in Seq(Seq(Objects \cup {Nil})) /\ Len(arrays') = Len(arrays)
      /\ DOMAIN arrays' = DOMAIN arrays
      /\ \A m \in DOMAIN arrays : m # list.array => arrays'[m] = arrays[m]
      /\ Len(arrays'[list.array]) = Len(arrays[list.array])
      /\ DOMAIN arrays'[list.array] = DOMAIN arrays[list.array]
      /\ arrays'[list.array][list.len] = new
      /\ \A j \in DOMAIN arrays[list.array] :
           j # list.len => arrays'[list.array][j] = arrays[list.array][j]
  BY <1>6, StoreInto
<1>8. /\ Stored' = arrays'[list.array] /\ Stored = arrays[list.array] /\ list' = list
  BY <1>2 DEF Stored
<1>9. update' \in UpdateStates(list'.len) /\ update'.at = "match"
      /\ update'.todo = Tail(update.todo)
  BY <1>2, <1>4, UpdateFacts DEF UpdateStates
<1>10. Filled' = list.len
  BY <1>2, <1>9 DEF Filled
<1>11. /\ \A i \in 1..Filled : i \in 1..Filled' /\ Stored'[i] = Stored[i]
       /\ Stored'[list.len] = new /\ list.len \in 1..Filled'
       /\ \A i \in 1..Filled' : i = list.len \/ i \in 1..Filled
  BY <1>3, <1>6, <1>7, <1>8, <1>10
<1>12. Members' = Members \cup {new}
  BY <1>2, <1>9, <1>11 DEF Members
<1>13. ListTyped'
  BY <1>2, <1>6, <1>7, <1>8, <1>9 DEF ListTyped
<1>14. ListInv'
  <2>1. /\ \A i \in 1..Filled' : Stored'[i] \in Objects
        /\ \A i, j \in 1..Filled' : Stored'[i].address = Stored'[j].address => i = j
    <3>1. \A i \in 1..Filled' : Stored'[i] \in Objects
      BY <1>3, <1>5, <1>11
    <3>2. \A i \in 1..Filled : Stored'[i].address # Stored'[list.len].address
      BY <1>3, <1>5, <1>11
    <3>3. \A i, j \in 1..Filled : Stored'[i].address = Stored'[j].address => i = j
      BY <1>3, <1>11
    <3>4. QED
      BY <1>11, <3>1, <3>2, <3>3
  <2>2. /\ Range(file) \subseteq {b.address : b \in Members'} \cup Range(update'.todo)
        /\ Range(update'.todo) \subseteq Range(file)
    BY <1>2, <1>4, <1>5, <1>9, <1>12 DEF ListInv
  <2>3. QED
    BY <1>2, <1>9, <2>1, <2>2 DEF ListInv
<1>15. StaysPut
  <2>1. ASSUME NEW m \in DOMAIN arrays, NEW p \in 1..Filled, p \in DOMAIN arrays[m]
        PROVE  p \in DOMAIN arrays'[m] /\ arrays'[m][p] = arrays[m][p]
    <3>1. CASE m = list.array
      BY <1>3, <1>6, <1>7, <2>1, <3>1
    <3>2. CASE m # list.array
      BY <1>7, <2>1, <3>2
    <3>3. QED
      BY <3>1, <3>2
  <2>2. QED
    BY <1>7, <1>11, <2>1 DEF StaysPut
<1>16. Len(arrays) <= Len(arrays')
  BY <1>2, <1>7, ListFacts
<1>17. QED
  BY <1>9, <1>12, <1>13, <1>14, <1>15, <1>16 DEF Updated, KeepsKnown, ShiftInv

LEMMA BeginRemovalUpdates == ListOK /\ BeginRemoval => Updated
<1>1. SUFFICES ASSUME ListOK, BeginRemoval PROVE Updated
  OBVIOUS
<1>2. /\ ListTyped /\ ListInv /\ update.at = "match" /\ update.todo = <<>>
      /\ UNCHANGED <<arrays, list, file>>
  BY <1>1 DEF ListOK, BeginRemoval
<1>3. PICK first \in Gone :
         update' = [update EXCEPT !.at = "shift", !.from = SubSeq(Stored, 1, list.len),
                                  !.left = first..(list.len - 1)]
  BY <1>1 DEF BeginRemoval
<1>4. first \in 1..list.len /\ Stored[first].address \notin Range(file) /\ list.len \in Nat
  BY <1>2, ListFacts DEF Gone
<1>5. PICK from : from = SubSeq(Stored, 1, list.len)
  OBVIOUS
<1>6. /\ Filled = list.len
      /\ \A i \in 1..list.len : Stored[i] \in Objects
      /\ \A i, j \in 1..list.len : Stored[i].address = Stored[j].address => i = j
  BY <1>2 DEF ListInv, Filled
<1>7. from \in Seq(Objects) /\ Len(from) = list.len /\ DOMAIN from = 1..list.len
      /\ \A i \in 1..list.len : from[i] = Stored[i]
  <2>1. Len(from) = list.len /\ \A i \in 1..list.len : from[i] = Stored[i]
    BY <1>2, <1>4, <1>5, ListFacts
  <2>2. from = [i \in 1..list.len |-> Stored[i]]
    BY <1>2, <1>4, <1>5, ListFacts
  <2>3. from \in [1..list.len -> Objects]
    BY <1>6, <2>2
  <2>4. QED
    BY <1>4, <2>1, <2>2, <2>3
<1>8. /\ update' \in UpdateStates(list.len) /\ update'.at = "shift" /\ update'.todo = <<>>
      /\ update'.from = from /\ update'.left = first..(list.len - 1)
  <2>1. first..(list.len - 1) \in SUBSET (1..list.len)
    BY <1>4
  <2>2. update' = [update EXCEPT !.at = "shift", !.from = from, !.left = first..(list.len - 1)]
    BY <1>3, <1>5
  <2>3. QED
    BY <1>2, <1>7, <2>1, <2>2, UpdateFacts DEF UpdateStates
<1>9. Stored' = Stored /\ list' = list /\ Filled' = list.len
  BY <1>2, <1>8 DEF Stored, Filled
<1>10. Members' = Members
  <2>1. Members' = Range(from)
    BY <1>8 DEF Members
  <2>2. Members = {Stored[i] : i \in 1..list.len}
    BY <1>2, <1>6 DEF Members
  <2>3. QED
    BY <1>7, <2>1, <2>2 DEF Range
<1>11. ListTyped'
  BY <1>2, <1>8, <1>9 DEF ListTyped
<1>12. ListInv'
  BY <1>2, <1>6, <1>8, <1>9, <1>10 DEF ListInv
<1>13. ShiftInv'
  <2>1. ASSUME NEW i \in 1..list.len PROVE Shifted(first, i)'
    <3>1. i < first \/ i \in first..(list.len - 1) \/ i = list.len
      BY <1>4
    <3>2. Stored'[i] = from[i]
      BY <1>7, <1>9
    <3>3. QED
      BY <1>8, <1>9, <3>1, <3>2 DEF Shifted
  <2>2. from[first].address \notin Range(file)
    BY <1>4, <1>7
  <2>3. QED
    BY <1>2, <1>4, <1>6, <1>7, <1>8, <1>9, <2>1, <2>2 DEF ShiftInv
<1>14. QED
  BY <1>2, <1>8, <1>10, <1>11, <1>12, <1>13, ListFacts DEF Updated, KeepsKnown

LEMMA ShiftFacts ==
    ASSUME ListOK, update.at = "shift"
    PROVE  /\ Len(update.from) = list.len /\ Filled = list.len
           /\ \A i \in 1..list.len : update.from[i] \in Objects
           /\ \A i, j \in 1..list.len : update.from[i].address = update.from[j].address => i = j
           /\ Members = {update.from[i] : i \in 1..list.len}
           /\ \E first \in 1..list.len :
                /\ update.from[first].address \notin Range(file)
                /\ update.left \subseteq first..(list.len - 1)
                /\ \A i \in 1..list.len : Shifted(first, i)
<1>1. ListTyped /\ ShiftInv
  BY DEF ListOK
<1>2. Len(update.from) = list.len
  BY <1>1 DEF ShiftInv
<1>3. DOMAIN update.from = 1..list.len /\ update.from \in Seq(Objects)
  BY <1>1, <1>2, UpdateFacts
<1>4. \A i \in 1..list.len : update.from[i] \in Objects
  BY <1>2, <1>3, ElementOfSeq
<1>5. Members = {update.from[i] : i \in 1..list.len}
  BY <1>3 DEF Members, Range
<1>6. QED
  BY <1>1, <1>2, <1>4, <1>5 DEF ShiftInv, Filled

LEMMA ShiftUpdates == \A i \in update.left : ListOK /\ Shift(i) => Updated
<1>1. SUFFICES ASSUME NEW i \in update.left, ListOK, Shift(i) PROVE Updated
  OBVIOUS
<1>2. /\ ListTyped /\ ListInv /\ update.at = "shift"
      /\ arrays' = [arrays EXCEPT ![list.array][i] = update.from[i + 1]]
      /\ update' = [update EXCEPT !.left = @ \ {i}]
      /\ UNCHANGED <<list, file>>
  BY <1>1 DEF ListOK, Shift
<1>3. PICK first \in 1..list.len :
         /\ update.from[first].address \notin Range(file)
         /\ update.left \subseteq first..(list.len - 1)
         /\ \A j \in 1..list.len : Shifted(first, j)
  BY <1>1, <1>2, ShiftFacts
<1>4. /\ list.len \in Nat /\ i \in first..(list.len - 1) /\ i \in 1..list.len
      /\ i + 1 \in 1..list.len
  BY <1>2, <1>3, ListFacts
<1>5. PICK moved \in Objects \cup {Nil} : moved = update.from[i + 1] /\ moved \in Objects
  BY <1>1, <1>2, <1>4, ShiftFacts
<1>6. /\ arrays \in Seq(Seq(Objects \cup {Nil})) /\ list.array \in 1..Len(arrays)
      /\ i \in 1..Len(arrays[list.array])
      /\ arrays' = [arrays EXCEPT ![list.array][i] = moved]
      /\ DOMAIN arrays = 1..Len(arrays)
      /\ DOMAIN arrays[list.array] = 1..Len(arrays[list.array])
      /\ 1..list.len \subseteq DOMAIN arrays[list.array]
  BY <1>2, <1>4, <1>5, ListFacts DEF ListTyped, Stored
<1>7. /\ arrays' \in Seq(Seq(Objects \cup {Nil})) /\ Len(arrays') = Len(arrays)
      /\ DOMAIN arrays' = DOMAIN arrays
      /\ Len(arrays'[list.array]) = Len(arrays[list.array])
      /\ arrays'[list.array][i] = moved
      /\ \A j \in DOMAIN arrays[list.array] : j # i => arrays'[list.array][j] = arrays[list.array][j]
  BY <1>6, StoreInto
<1>8. /\ Stored' = arrays'[list.array] /\ Stored = arrays[list.array] /\ list' = list
  BY <1>2 DEF Stored
<1>9. update' \in UpdateStates(list'.len) /\ update'.at = "shift" /\ update'.todo = update.todo
      /\ update'.from = update.from /\ update'.left = update.left \ {i}
  BY <1>2, UpdateFacts DEF UpdateStates
<1>10. Filled' = list.len /\ Filled = list.len
  BY <1>2, <1>9 DEF Filled
<1>11. Members' = Members
  BY <1>2, <1>9 DEF Members
<1>12. ListTyped'
  BY <1>2, <1>6, <1>7, <1>8, <1>9 DEF ListTyped
<1>13. \A j \in 1..list.len : j # i => Stored'[j] = Stored[j]
  BY <1>6, <1>7, <1>8
<1>14. Stored'[i] = update.from[i + 1]
  BY <1>5, <1>7, <1>8
<1>15. ListInv'
  <2>1. \A j \in 1..Filled' : Stored'[j] \in Objects
    BY <1>2, <1>5, <1>10, <1>13, <1>14 DEF ListInv
  <2>2. QED
    BY <1>2, <1>9, <1>11, <2>1 DEF ListInv
<1>16. ShiftInv'
  <2>1. ASSUME NEW j \in 1..list.len PROVE Shifted(first, j)'
    <3>1. CASE j = i
      BY <1>4, <1>9, <1>14, <1>8, <3>1 DEF Shifted
    <3>2. CASE j # i
      BY <1>3, <1>9, <1>13, <1>8, <3>2 DEF Shifted
    <3>3. QED
      BY <3>1, <3>2
  <2>2. QED
    BY <1>1, <1>2, <1>3, <1>8, <1>9, <2>1, ShiftFacts DEF ShiftInv
<1>17. QED
  BY <1>2, <1>7, <1>9, <1>11, <1>12, <1>15, <1>16, ListFacts DEF Updated, KeepsKnown

LEMMA ShortenUpdates == ListOK /\ Shorten => Updated
<1>1. SUFFICES ASSUME ListOK, Shorten PROVE Updated
  OBVIOUS
<1>2. /\ ListTyped /\ ListInv /\ update.at = "shift" /\ update.left = {}
      /\ list' = [list EXCEPT !.len = @ - 1]
      /\ update' = [update EXCEPT !.at = "match", !.from = <<>>]
      /\ UNCHANGED <<arrays, file>>
  BY <1>1 DEF ListOK, Shorten
<1>3. PICK first \in 1..list.len :
         /\ update.from[first].address \notin Range(file)
         /\ \A j \in 1..list.len : Shifted(first, j)
  BY <1>1, <1>2, ShiftFacts
<1>4. /\ list' \in [array : DOMAIN arrays', len : Nat] /\ list'.array = list.array
      /\ list'.len = list.len - 1
  <2>1. list \in [array : DOMAIN arrays, len : Nat]
    BY <1>2 DEF ListTyped
  <2>2. list.len - 1 \in Nat
    BY <1>2, <1>3, ListFacts
  <2>3. QED
    BY <1>2, <2>1, <2>2, OtherLength
<1>5. /\ update' \in UpdateStates(list'.len) /\ update'.at = "match"
      /\ update'.todo = update.todo
  <2>1. update.left \in SUBSET (1..list'.len)
    BY <1>2
  <2>2. QED
    BY <1>2, <2>1, UpdateFacts DEF UpdateStates
<1>6. Stored' = Stored /\ Filled' = list.len - 1 /\ list.len \in Nat
  BY <1>2, <1>4, <1>5, ListFacts DEF Stored, Filled
<1>7. /\ Filled = list.len
      /\ \A i \in 1..list.len : update.from[i] \in Objects
      /\ \A i, j \in 1..list.len : update.from[i].address = update.from[j].address => i = j
      /\ Members = {update.from[i] : i \in 1..list.len}
  BY <1>1, <1>2, ShiftFacts
\* The places after the removal, in the slice before it.
<1>8. PICK old \in [1..(list.len - 1) -> 1..list.len] :
         \A i \in 1..(list.len - 1) : old[i] = IF i < first THEN i ELSE i + 1
  <2>1. \A i \in 1..(list.len - 1) : (IF i < first THEN i ELSE i + 1) \in 1..list.len
    BY <1>6
  <2>2. [i \in 1..(list.len - 1) |-> IF i < first THEN i ELSE i + 1]
           \in [1..(list.len - 1) -> 1..list.len]
    BY <2>1
  <2>3. QED
    BY <2>2
<1>9. \A i \in 1..(list.len - 1) : Stored[i] = update.from[old[i]]
  BY <1>2, <1>3, <1>6, <1>8 DEF Shifted
<1>10. /\ \A i, j \in 1..(list.len - 1) : old[i] = old[j] => i = j
       /\ \A j \in 1..list.len : j # first => \E i \in 1..(list.len - 1) : old[i] = j
  <2>1. \A i, j \in 1..(list.len - 1) : old[i] = old[j] => i = j
    BY <1>6, <1>8
  <2>2. ASSUME NEW j \in 1..list.len, j # first
        PROVE  \E i \in 1..(list.len - 1) : old[i] = j
    <3>1. CASE j < first
      <4>1. j \in 1..(list.len - 1)
        BY <1>6, <3>1
      <4>2. QED
        BY <1>8, <3>1, <4>1
    <3>2. CASE j > first
      <4>1. j - 1 \in 1..(list.len - 1) /\ ~(j - 1 < first) /\ (j - 1) + 1 = j
        BY <1>6, <3>2
      <4>2. QED
        BY <1>8, <4>1
    <3>3. QED
      BY <1>6, <2>2, <3>1, <3>2
  <2>3. QED
    BY <2>1, <2>2
<1>11. Members' = {update.from[old[i]] : i \in 1..(list.len - 1)}
  BY <1>5, <1>6, <1>9 DEF Members
<1>12. Members' \subseteq Members
  BY <1>7, <1>8, <1>11
<1>13. \A b \in Members : b.address \in Range(file) => b \in Members'
  BY <1>3, <1>7, <1>10, <1>11
<1>14. ListTyped'
  <2>1. list'.len <= Len(Stored')
    BY <1>2, <1>4, <1>6, ListFacts
  <2>2. QED
    BY <1>2, <1>4, <1>5, <2>1 DEF ListTyped
<1>15. ListInv'
  <2>1. /\ \A i \in 1..Filled' : Stored'[i] \in Objects
        /\ \A i, j \in 1..Filled' : Stored'[i].address = Stored'[j].address => i = j
    <3>1. \A i \in 1..(list.len - 1) : Stored'[i] = update.from[old[i]] /\ old[i] \in 1..list.len
      BY <1>6, <1>8, <1>9
    <3>2. \A i \in 1..(list.len - 1) : Stored'[i] \in Objects
      BY <1>7, <3>1
    <3>3. ASSUME NEW i \in 1..(list.len - 1), NEW j \in 1..(list.len - 1),
                 Stored'[i].address = Stored'[j].address
          PROVE  i = j
      <4>1. update.from[old[i]].address = update.from[old[j]].address
        BY <3>1, <3>3
      <4>2. old[i] = old[j]
        BY <1>7, <3>1, <4>1
      <4>3. QED
        BY <1>10, <4>2
    <3>4. QED
      BY <1>6, <3>2, <3>3
  <2>2. Range(file) \subseteq {b.address : b \in Members'} \cup Range(update'.todo)
    BY <1>2, <1>5, <1>13 DEF ListInv
  <2>3. QED
    BY <1>2, <1>5, <2>1, <2>2 DEF ListInv
<1>16. QED
  BY <1>2, <1>5, <1>13, <1>14, <1>15, ListFacts DEF Updated, KeepsKnown, ShiftInv

LEMMA UpdaterUpdates == ListOK /\ Updater => Updated
  BY UpdateBeginUpdates, UpdateUpdates, GrowUpdates, LengthenUpdates, StoreUpdates,
     BeginRemovalUpdates, ShiftUpdates, ShortenUpdates, UpdateEndUpdates DEF Updater

----------------------------------------------------------------------------
(***************************************************************************)
(* The list of backends in every reachable state.                          *)
(***************************************************************************)

LEMMA InitListOK == Init => ListOK
<1>1. SUFFICES ASSUME Init PROVE ListOK
  OBVIOUS
<1>2. file \in Files /\ file \in Seq(Addresses) /\ IsInjective(file)
  <2>1. file \in Files
    BY <1>1 DEF Init
  <2>2. QED
    BY <2>1, FilesTyped
<1>3. Len(file) \in Nat /\ DOMAIN file = 1..Len(file) /\ \A i \in 1..Len(file) : file[i] \in Addresses
  BY <1>2, LenProperties, ElementOfSeq
<1>4. PICK e : e = [i \in DOMAIN file |-> [address |-> file[i], since |-> 0]]
  OBVIOUS
<1>5. PICK cap \in Capacities(Len(file)) : arrays = << Padded(e, cap) >>
  <2>1. \E cap \in Capacities(Len(file)) :
          arrays = << Padded([i \in DOMAIN file |-> [address |-> file[i], since |-> 0]], cap) >>
    BY <1>1 DEF Init
  <2>2. QED
    BY <1>4, <2>1
<1>6. e \in Seq(Objects) /\ Len(e) = Len(file)
      /\ \A i \in 1..Len(file) : e[i] \in Objects /\ e[i].address = file[i]
  <2>1. \A i \in 1..Len(file) : [address |-> file[i], since |-> 0] \in Objects
    BY <1>3, ConstantsAssumption DEF Objects
  <2>2. e \in [1..Len(file) -> Objects]
    BY <1>3, <1>4, <2>1
  <2>3. \A i \in 1..Len(file) : e[i] \in Objects /\ e[i].address = file[i]
    BY <1>3, <1>4, <2>1
  <2>4. QED
    BY <1>3, <2>2, <2>3
<1>7. cap \in Nat /\ Len(file) <= cap
  BY <1>3, <1>5, CapacitiesSuffice
<1>8. PICK a : a = Padded(e, cap)
  OBVIOUS
<1>9. /\ a \in Seq(Objects \cup {Nil}) /\ Len(a) = cap
      /\ \A i \in 1..Len(file) : a[i] = e[i]
  <2>1. e \in Seq(Objects \cup {Nil})
    BY <1>6, LenProperties, ElementOfSeq
  <2>2. QED
    BY <1>6, <1>7, <1>8, <2>1, PaddedKeeps
<1>10. /\ arrays \in Seq(Seq(Objects \cup {Nil})) /\ DOMAIN arrays = {1} /\ arrays[1] = a
       /\ list = [array |-> 1, len |-> Len(file)]
       /\ update = [at |-> "idle", count |-> 0, todo |-> <<>>, from |-> <<>>, left |-> {}]
  BY <1>1, <1>5, <1>8, <1>9 DEF Init, NoUpdate
<1>11. Stored = a /\ Filled = Len(file) /\ list.len = Len(file) /\ update.at = "idle"
  BY <1>10 DEF Stored, Filled
<1>12. Members = {e[i] : i \in 1..Len(file)}
  BY <1>9, <1>11 DEF Members
<1>13. {b.address : b \in Members} = Range(file)
  BY <1>3, <1>6, <1>12 DEF Range
<1>14. ListTyped
  <2>1. list \in [array : DOMAIN arrays, len : Nat]
    BY <1>3, <1>10
  <2>2. <<>> \in Seq(Objects) /\ <<>> \in Seq(Addresses)
    BY EmptySeq
  <2>3. update \in UpdateStates(list.len)
    BY <1>10, <2>2, ConstantsAssumption DEF UpdateStates
  <2>4. QED
    BY <1>2, <1>7, <1>9, <1>10, <1>11, <2>1, <2>3 DEF ListTyped
<1>15. ListInv
  <2>1. \A i \in 1..Filled : Stored[i] \in Objects /\ Stored[i].address = file[i]
    BY <1>6, <1>9, <1>11
  <2>2. \A i, j \in 1..Filled : Stored[i].address = Stored[j].address => i = j
    BY <1>2, <1>3, <1>11, <2>1 DEF IsInjective
  <2>3. Range(update.todo) = {} /\ update.todo = <<>>
    BY <1>10 DEF Range
  <2>4. QED
    BY <1>11, <1>13, <2>1, <2>2, <2>3 DEF ListInv
<1>16. QED
  BY <1>11, <1>14, <1>15 DEF ListOK, ShiftInv

LEMMA ListUnchanged ==
    UNCHANGED <<arrays, list, file, update>> =>
        /\ Stored' = Stored /\ Filled' = Filled /\ Members' = Members
        /\ ListOK => ListOK'
<1>1. HAVE UNCHANGED <<arrays, list, file, update>>
<1>2. Stored' = Stored /\ Filled' = Filled
  BY <1>1 DEF Stored, Filled
<1>3. Members' = Members
  BY <1>1, <1>2 DEF Members
<1>4. ListTyped => ListTyped'
  BY <1>1, <1>2 DEF ListTyped
<1>5. ListInv => ListInv'
  BY <1>1, <1>2, <1>3 DEF ListInv
<1>6. ShiftInv => ShiftInv'
  BY <1>1, <1>2 DEF ShiftInv, Shifted
<1>7. QED
  BY <1>2, <1>3, <1>4, <1>5, <1>6 DEF ListOK

LEMMA ScannerLeavesList ==
    Scanner \/ UNCHANGED vars => UNCHANGED <<arrays, list, file, update>>
  BY DEF Scanner, ScanBegin, LoadArray, LoadLength, Visit, ScanEnd, Leave, vars

LEMMA ListStep == ListOK /\ [Next]_vars => ListOK'
  BY UpdaterUpdates, ScannerLeavesList, ListUnchanged DEF Next, Updated, ListOK

LEMMA ListAlwaysOK == Spec => []ListOK
  BY InitListOK, ListStep, PTL DEF Spec

\* A list without repetition is as long as the set of its elements.
LEMMA CountedBy ==
    ASSUME NEW T, NEW m \in Nat, NEW f \in [1..m -> T],
           \A i, j \in 1..m : f[i] = f[j] => i = j,
           \A x \in T : \E i \in 1..m : f[i] = x
    PROVE  Cardinality(T) = m
<1>1. f \in Bijection(1..m, T)
  BY DEF Bijection, Injection, Surjection, IsInjective
<1>2. ExistsBijection(1..m, T)
  BY <1>1 DEF ExistsBijection
<1>3. QED
  BY <1>2, FS_CountingElements

LEMMA OKMatchesFile == ListOK => ListMatchesFile
<1>1. SUFFICES ASSUME ListOK, update.at = "idle"
               PROVE  {b.address : b \in Members} = Range(file) /\ list.len = Len(file)
  BY DEF ListMatchesFile
<1>2. ListTyped /\ ListInv /\ Filled = list.len /\ list.len \in Nat
  BY <1>1, ListFacts DEF ListOK, Filled
<1>3. update.todo = <<>> /\ Range(update.todo) = {}
  BY <1>1, <1>2 DEF ListInv, Range
<1>4. {b.address : b \in Members} = Range(file)
  BY <1>1, <1>2, <1>3 DEF ListInv
<1>5. Members = {Stored[i] : i \in 1..list.len}
  BY <1>1, <1>2 DEF Members
<1>6. \A i, j \in 1..list.len : Stored[i].address = Stored[j].address => i = j
  BY <1>1, <1>2 DEF ListInv
<1>7. PICK f : f = [i \in 1..list.len |-> Stored[i].address]
  OBVIOUS
<1>8. /\ f \in [1..list.len -> Range(file)]
      /\ \A i, j \in 1..list.len : f[i] = f[j] => i = j
      /\ \A x \in Range(file) : \E i \in 1..list.len : f[i] = x
  <2>1. \A i \in 1..list.len : f[i] = Stored[i].address /\ f[i] \in Range(file)
    BY <1>4, <1>5, <1>7
  <2>2. \A x \in Range(file) : \E i \in 1..list.len : f[i] = x
    BY <1>4, <1>5, <1>7
  <2>3. QED
    BY <1>6, <1>7, <2>1, <2>2
<1>9. file \in Seq(Addresses) /\ IsInjective(file)
  BY <1>2, FilesTyped DEF ListTyped
<1>10. Len(file) \in Nat /\ DOMAIN file = 1..Len(file)
  BY <1>9, LenProperties
<1>11. /\ file \in [1..Len(file) -> Range(file)]
       /\ \A i, j \in 1..Len(file) : file[i] = file[j] => i = j
       /\ \A x \in Range(file) : \E i \in 1..Len(file) : file[i] = x
  <2>1. file \in [1..Len(file) -> Range(file)]
    BY <1>9, <1>10 DEF Range
  <2>2. QED
    BY <1>9, <1>10, <2>1 DEF Range, IsInjective
<1>12. list.len = Len(file)
  <2>1. PICK T : T = Range(file)
    OBVIOUS
  <2>2. PICK m \in Nat : m = list.len
    BY <1>2
  <2>3. PICK n \in Nat : n = Len(file)
    BY <1>10
  <2>4. PICK g : g = file
    OBVIOUS
  <2>5. /\ f \in [1..m -> T]
        /\ \A i, j \in 1..m : f[i] = f[j] => i = j
        /\ \A x \in T : \E i \in 1..m : f[i] = x
    BY <1>8, <2>1, <2>2
  <2>6. /\ g \in [1..n -> T]
        /\ \A i, j \in 1..n : g[i] = g[j] => i = j
        /\ \A x \in T : \E i \in 1..n : g[i] = x
    BY <1>11, <2>1, <2>3, <2>4
  <2>7. Cardinality(T) = m
    BY <2>5, CountedBy
  <2>8. Cardinality(T) = n
    BY <2>6, CountedBy
  <2>9. QED
    BY <2>2, <2>3, <2>7, <2>8
<1>13. QED
  BY <1>4, <1>12

\* Between updates the record has the backends of the newest file, one object for
\* each (record.go:113-153), for any number of backends and updates and in every
\* order in which the elements behind a removed one may move.
THEOREM ListAlwaysMatchesFile == Spec => []ListMatchesFile
<1>1. ListOK => ListMatchesFile
  BY OKMatchesFile
<1>2. QED
  BY <1>1, ListAlwaysOK, PTL

\* An update keeps the object, and with it the health, of each backend that is
\* still in the file (updateRecord looks for an equal address before it appends).
THEOREM KnownAlwaysKept == Spec => KnownAreKept
<1>1. ListOK /\ [Next]_vars
        => [\A b \in Members : b.address \in Range(file') => b \in Members']_vars
  <2>1. ListOK /\ Updater => \A b \in Members : b.address \in Range(file') => b \in Members'
    BY UpdaterUpdates DEF Updated, KeepsKnown
  <2>2. Scanner => Members' = Members
    BY ScannerLeavesList, ListUnchanged
  <2>3. QED
    BY <2>1, <2>2 DEF Next
<1>2. QED
  BY <1>1, ListAlwaysOK, PTL DEF Spec, KnownAreKept

----------------------------------------------------------------------------
(***************************************************************************)
(* A scan while the list changes.                                          *)
(***************************************************************************)

ScanOK == ScanTyped /\ ArrayInv /\ SteadyInv /\ QuietInv

ScanStates(n) ==
    [at : {"idle", "array", "length", "visit", "done", "panicked"}, kind : Kinds,
     size : Nat, array : 0..n, len : Nat, visited : Seq(Objects)]

LEMMA ScanFacts ==
    ASSUME ScanTyped
    PROVE  /\ scan \in ScanStates(Len(arrays))
           /\ scan.visited \in Seq(Objects) /\ Len(scan.visited) \in Nat
           /\ scan.size \in Nat /\ scan.len \in Nat /\ scan.kind \in Kinds
           /\ seen.steady \subseteq Objects /\ seen.ever \subseteq Objects
           /\ Place = Len(scan.visited) + 1
           /\ Reach \in Nat /\ Reach <= scan.len
           /\ Reach < scan.len => Reach = scan.size
<1>1. scan \in ScanStates(Len(arrays))
  BY DEF ScanTyped, ScanStates
<1>2. /\ scan.visited \in Seq(Objects) /\ scan.size \in Nat /\ scan.len \in Nat
      /\ scan.kind \in Kinds
  BY <1>1 DEF ScanStates
<1>3. Len(scan.visited) \in Nat
  BY <1>2, LenProperties
<1>4. seen.steady \subseteq Objects /\ seen.ever \subseteq Objects
  BY DEF ScanTyped
<1>5. Reach \in Nat /\ Reach <= scan.len /\ (Reach < scan.len => Reach = scan.size)
  BY <1>2 DEF Reach
<1>6. QED
  BY <1>1, <1>2, <1>3, <1>4, <1>5 DEF Place

LEMMA MembersAreObjects == ListOK => Members \subseteq Objects
<1>1. SUFFICES ASSUME ListOK PROVE Members \subseteq Objects
  OBVIOUS
<1>2. CASE update.at = "shift"
  BY <1>1, <1>2, ShiftFacts
<1>3. CASE update.at # "shift"
  BY <1>1, <1>3 DEF ListOK, ListInv, Members
<1>4. QED
  BY <1>2, <1>3

LEMMA MembersAreObjectsNext == (ListOK => Members \subseteq Objects)'
  BY MembersAreObjects, PTL

LEMMA InitScanOK == Init => ScanOK
<1>1. SUFFICES ASSUME Init PROVE ScanOK
  OBVIOUS
<1>2. /\ scan = [at |-> "idle", kind |-> "range", size |-> 0, array |-> 0, len |-> 0,
                 visited |-> <<>>]
      /\ seen = [steady |-> {}, ever |-> {}, disturbed |-> FALSE, shrunk |-> FALSE]
  BY <1>1 DEF Init, NoScan, NothingSeen
<1>3. Len(arrays) \in Nat
  BY <1>1, InitListOK, ListFacts DEF ListOK
<1>4. ScanTyped
  <2>1. <<>> \in Seq(Objects)
    BY EmptySeq
  <2>2. QED
    BY <1>2, <1>3, <2>1 DEF ScanTyped, Kinds
<1>5. QED
  BY <1>2, <1>4 DEF ScanOK, ArrayInv, SteadyInv, QuietInv

LEMMA UpdaterWatches ==
    Updater => scan' = scan /\ Watched /\ (update.at = "idle" => ~LockedScan)
  BY DEF Updater, UpdateBegin, Update, Grow, Lengthen, Store, BeginRemoval, Shift, Shorten,
         UpdateEnd, Adding

LEMMA ScanDuringUpdate == ListOK /\ ScanOK /\ Updater => ScanOK'
<1>1. SUFFICES ASSUME ListOK, ScanOK, Updater PROVE ScanOK'
  OBVIOUS
<1>2. Updated /\ scan' = scan /\ Watched /\ (update.at = "idle" => ~LockedScan)
  BY <1>1, UpdaterUpdates, UpdaterWatches
<1>3. ScanTyped /\ ArrayInv /\ SteadyInv /\ QuietInv /\ ListTyped /\ ListTyped'
      /\ Len(arrays) <= Len(arrays') /\ Len(arrays) \in Nat /\ ListOK'
  BY <1>1, <1>2, ListFacts DEF ScanOK, ListOK, Updated
<1>4. Len(arrays') \in Nat /\ DOMAIN arrays = 1..Len(arrays) /\ DOMAIN arrays' = 1..Len(arrays')
  <2>1. ListTyped' => Len(arrays') \in Nat /\ DOMAIN arrays' = 1..Len(arrays')
    BY LenProperties DEF ListTyped
  <2>2. QED
    BY <1>3, <2>1, ListFacts
<1>5. CASE scan.at = "idle"
  <2>1. seen' = seen
    BY <1>2, <1>5 DEF Watched
  <2>2. 0..Len(arrays) \subseteq 0..Len(arrays')
    BY <1>3, <1>4
  <2>3. ScanTyped'
    BY <1>2, <1>3, <2>1, <2>2 DEF ScanTyped
  <2>4. QED
    BY <1>2, <1>5, <2>3 DEF ScanOK, ArrayInv, SteadyInv, QuietInv
<1>6. CASE scan.at # "idle"
  <2>1. seen' = [steady |-> seen.steady \cap Staying', ever |-> seen.ever \cup Members',
                 disturbed |-> TRUE, shrunk |-> seen.shrunk \/ update'.at = "shift"]
    BY <1>2, <1>6 DEF Watched
  <2>2. ScanTyped'
    <3>1. Members' \subseteq Objects
      BY <1>3, MembersAreObjectsNext
    <3>2. 0..Len(arrays) \subseteq 0..Len(arrays')
      BY <1>3, <1>4
    <3>3. scan' \in ScanStates(Len(arrays'))
      BY <1>2, <1>3, <3>2, ScanFacts DEF ScanStates
    <3>4. seen.steady \cap Staying' \subseteq Objects /\ seen.ever \cup Members' \subseteq Objects
      BY <1>3, <3>1, ScanFacts
    <3>5. seen.shrunk \in BOOLEAN
      BY <1>3 DEF ScanTyped
    <3>6. QED
      BY <2>1, <3>3, <3>4, <3>5 DEF ScanTyped, ScanStates
  <2>3. ArrayInv'
    BY <1>2, <1>3, <1>4 DEF ArrayInv
  <2>4. SteadyInv'
    <3>1. SUFFICES ASSUME ~seen'.shrunk
                   PROVE  /\ update'.at # "shift"
                          /\ \A b \in seen'.steady : \E p \in 1..Filled' : Findable(b, p)'
      BY DEF SteadyInv
    <3>2. ~seen.shrunk /\ update'.at # "shift"
      BY <2>1, <3>1
    <3>3. update.at # "shift" /\ \A b \in seen.steady : \E p \in 1..Filled : Findable(b, p)
      BY <1>3, <1>6, <3>2 DEF SteadyInv
    <3>4. StaysPut
      BY <1>2, <3>2, <3>3 DEF Updated
    <3>5. ASSUME NEW b \in seen'.steady PROVE \E p \in 1..Filled' : Findable(b, p)'
      <4>1. b \in seen.steady
        BY <2>1, <3>5
      <4>2. PICK p \in 1..Filled : Findable(b, p)
        BY <3>3, <4>1
      <4>3. p \in 1..Filled' /\ Stored'[p] = b
        BY <3>4, <4>2 DEF StaysPut, Findable
      <4>4. scan.at \in {"length", "visit", "done"} =>
              p \in DOMAIN arrays'[scan.array] /\ arrays'[scan.array][p] = b
        BY <1>3, <3>4, <4>2 DEF StaysPut, Findable, ArrayInv
      <4>5. Findable(b, p)'
        BY <1>2, <4>2, <4>3, <4>4 DEF Findable
      <4>6. QED
        BY <4>3, <4>5
    <3>6. QED
      BY <3>2, <3>5
  <2>5. QuietInv'
    <3>1. scan.kind # "locked"
      BY <1>2, <1>3, <1>6 DEF QuietInv, LockedScan
    <3>2. QED
      BY <1>2, <2>1, <3>1 DEF QuietInv
  <2>6. QED
    BY <2>2, <2>3, <2>4, <2>5 DEF ScanOK
<1>7. QED
  BY <1>5, <1>6

LEMMA ScanBegins == \A kind \in Kinds : ListOK /\ ScanOK /\ ScanBegin(kind) => ScanOK'
<1>1. SUFFICES ASSUME NEW kind \in Kinds, ListOK, ScanOK, ScanBegin(kind) PROVE ScanOK'
  OBVIOUS
<1>2. /\ kind = "locked" => update.at = "idle"
      /\ scan' = [NoScan EXCEPT !.at = "array", !.kind = kind, !.size = list.len]
      /\ seen' = [steady |-> Staying, ever |-> Members,
                  disturbed |-> update.at # "idle", shrunk |-> update.at = "shift"]
      /\ UNCHANGED <<arrays, list, file, update>>
  BY <1>1 DEF ScanBegin
<1>3. scan' = [at |-> "array", kind |-> kind, size |-> list.len, array |-> 0, len |-> 0,
               visited |-> <<>>]
  BY <1>2 DEF NoScan
<1>4. list.len \in Nat /\ Len(arrays) \in Nat /\ Filled \in Int /\ Filled <= list.len
  BY <1>1, ListFacts DEF ListOK
<1>5. Stored' = Stored /\ Filled' = Filled /\ Members' = Members
  BY <1>2, ListUnchanged
<1>6. ScanTyped'
  <2>1. Members \subseteq Objects /\ Staying \subseteq Objects
    BY <1>1, MembersAreObjects DEF Staying
  <2>2. <<>> \in Seq(Objects)
    BY EmptySeq
  <2>3. scan' \in ScanStates(Len(arrays'))
    <3>1. 0 \in 0..Len(arrays) /\ Len(arrays') = Len(arrays)
      BY <1>2, <1>4
    <3>2. QED
      BY <1>3, <1>4, <2>2, <3>1 DEF ScanStates
  <2>4. QED
    BY <1>2, <2>1, <2>3 DEF ScanTyped, ScanStates
<1>7. ArrayInv'
  BY <1>3 DEF ArrayInv
<1>8. SteadyInv'
  <2>1. SUFFICES ASSUME update.at # "shift"
                 PROVE  \A b \in Staying : \E p \in 1..Filled : Findable(b, p)'
    BY <1>2, <1>5 DEF SteadyInv
  <2>2. ASSUME NEW b \in Staying PROVE \E p \in 1..Filled : Findable(b, p)'
    <3>1. PICK p \in 1..Filled : Stored[p] = b
      BY <2>1, <2>2 DEF Staying, Members
    <3>2. p <= list.len /\ ~(p <= 0)
      BY <1>4
    <3>3. Len(<<>>) = 0
      OBVIOUS
    <3>4. Findable(b, p)'
      BY <1>3, <1>5, <3>1, <3>2, <3>3 DEF Findable
    <3>5. QED
      BY <3>4
  <2>3. QED
    BY <2>2
<1>9. QuietInv'
  <2>1. Len(<<>>) = 0
    OBVIOUS
  <2>2. Len(scan'.visited) = 0
    BY <1>3, <2>1
  <2>3. Len(scan'.visited) <= list.len /\ 1..Len(scan'.visited) = {}
    BY <1>4, <2>2
  <2>4. QED
    BY <1>2, <1>3, <2>3 DEF QuietInv
<1>10. QED
  BY <1>6, <1>7, <1>8, <1>9 DEF ScanOK

LEMMA ArrayLoaded == ListOK /\ ScanOK /\ LoadArray => ScanOK'
<1>1. SUFFICES ASSUME ListOK, ScanOK, LoadArray PROVE ScanOK'
  OBVIOUS
<1>2. /\ scan.at = "array"
      /\ scan' = [scan EXCEPT !.at = "length", !.array = list.array]
      /\ UNCHANGED <<arrays, list, file, update, seen>>
      /\ ScanTyped /\ SteadyInv /\ QuietInv
  BY <1>1 DEF LoadArray, ScanOK
<1>3. /\ Len(arrays) \in Nat /\ DOMAIN arrays = 1..Len(arrays) /\ list.array \in 1..Len(arrays)
      /\ Filled <= list.len /\ Filled \in Int /\ list.len \in Nat
      /\ Len(Stored) \in Nat /\ list.len <= Len(Stored) /\ DOMAIN Stored = 1..Len(Stored)
  BY <1>1, ListFacts DEF ListOK
<1>4. Stored' = Stored /\ Filled' = Filled
  BY <1>2, ListUnchanged
<1>5. /\ scan' \in ScanStates(Len(arrays')) /\ scan'.at = "length" /\ scan'.array = list.array
      /\ scan'.size = scan.size /\ scan'.visited = scan.visited /\ scan'.kind = scan.kind
  <2>1. list.array \in 0..Len(arrays)
    BY <1>3
  <2>2. QED
    BY <1>2, <2>1, ScanFacts DEF ScanStates
<1>6. ScanTyped' /\ ArrayInv'
  BY <1>2, <1>3, <1>5 DEF ScanTyped, ScanStates, ArrayInv
<1>7. SteadyInv'
  <2>1. ASSUME ~seen.shrunk, NEW b \in seen.steady PROVE \E p \in 1..Filled : Findable(b, p)'
    <3>1. PICK p \in 1..Filled : Findable(b, p)
      BY <1>2, <2>1 DEF SteadyInv
    <3>2. p \in DOMAIN arrays[list.array] /\ arrays[list.array][p] = b
      BY <1>3, <3>1 DEF Findable, Stored
    <3>3. Findable(b, p)'
      BY <1>2, <1>4, <1>5, <3>1, <3>2 DEF Findable
    <3>4. QED
      BY <3>3
  <2>2. QED
    BY <1>2, <1>4, <1>5, <2>1 DEF SteadyInv
<1>8. QuietInv'
  BY <1>2, <1>4, <1>5 DEF QuietInv
<1>9. QED
  BY <1>6, <1>7, <1>8 DEF ScanOK

LEMMA LengthLoaded == ListOK /\ ScanOK /\ LoadLength => ScanOK'
<1>1. SUFFICES ASSUME ListOK, ScanOK, LoadLength PROVE ScanOK'
  OBVIOUS
<1>2. /\ scan.at = "length"
      /\ scan' = [scan EXCEPT !.at = "visit", !.len = list.len]
      /\ UNCHANGED <<arrays, list, file, update, seen>>
      /\ ScanTyped /\ ArrayInv /\ SteadyInv /\ QuietInv
  BY <1>1 DEF LoadLength, ScanOK
<1>3. Filled <= list.len /\ Filled \in Int /\ list.len \in Nat
  BY <1>1, ListFacts DEF ListOK
<1>4. Stored' = Stored /\ Filled' = Filled
  BY <1>2, ListUnchanged
<1>5. /\ scan' \in ScanStates(Len(arrays')) /\ scan'.at = "visit" /\ scan'.array = scan.array
      /\ scan'.size = scan.size /\ scan'.visited = scan.visited /\ scan'.kind = scan.kind
      /\ scan'.len = list.len
  BY <1>2, <1>3, ScanFacts DEF ScanStates
<1>6. ScanTyped' /\ ArrayInv'
  BY <1>2, <1>5 DEF ScanTyped, ScanStates, ArrayInv
<1>7. SteadyInv'
  <2>1. ASSUME ~seen.shrunk, NEW b \in seen.steady PROVE \E p \in 1..Filled : Findable(b, p)'
    <3>1. PICK p \in 1..Filled : Findable(b, p)
      BY <1>2, <2>1 DEF SteadyInv
    <3>2. p <= list.len
      BY <1>3
    <3>3. Findable(b, p)'
      BY <1>2, <1>4, <1>5, <3>1, <3>2 DEF Findable
    <3>4. QED
      BY <3>3
  <2>2. QED
    BY <1>2, <1>4, <1>5, <2>1 DEF SteadyInv
<1>8. QuietInv'
  BY <1>2, <1>4, <1>5 DEF QuietInv
<1>9. QED
  BY <1>6, <1>7, <1>8 DEF ScanOK

LEMMA ElementVisited == ListOK /\ ScanOK /\ Visit => ScanOK'
<1>1. SUFFICES ASSUME ListOK, ScanOK, Visit PROVE ScanOK'
  OBVIOUS
<1>2. /\ scan.at = "visit" /\ Place <= Reach /\ UNCHANGED <<arrays, list, file, update, seen>>
      /\ ScanTyped /\ ArrayInv /\ SteadyInv /\ QuietInv
  BY <1>1 DEF Visit, ScanOK
<1>3. /\ Len(scan.visited) \in Nat /\ Place = Len(scan.visited) + 1 /\ Reach \in Nat
      /\ Reach <= scan.len /\ scan.len \in Nat /\ Place \in 1..Reach
  BY <1>2, ScanFacts
<1>4. Stored' = Stored /\ Filled' = Filled
  BY <1>2, ListUnchanged
<1>5. CASE Place \in DOMAIN arrays[scan.array] /\ arrays[scan.array][Place] # Nil
  <2>1. PICK next : next = arrays[scan.array][Place]
    OBVIOUS
  <2>2. next \in Objects
    <3>1. arrays \in Seq(Seq(Objects \cup {Nil})) /\ scan.array \in 1..Len(arrays)
      BY <1>1, <1>2, ListFacts DEF ArrayInv, ListOK, ListTyped
    <3>2. arrays[scan.array] \in Seq(Objects \cup {Nil})
      BY <3>1, ElementOfSeq
    <3>3. Place \in 1..Len(arrays[scan.array])
      BY <1>5, <3>2, LenProperties
    <3>4. arrays[scan.array][Place] \in Objects \cup {Nil}
      BY <3>2, <3>3, ElementOfSeq
    <3>5. QED
      BY <1>5, <2>1, <3>4
  <2>3. PICK visited : visited = Append(scan.visited, next)
    OBVIOUS
  <2>4. scan' = [scan EXCEPT !.visited = visited]
    BY <1>1, <1>5, <2>1, <2>3 DEF Visit
  <2>5. /\ visited \in Seq(Objects) /\ Len(visited) = Place /\ visited[Place] = next
        /\ \A k \in 1..Len(scan.visited) : visited[k] = scan.visited[k]
    <3>1. scan.visited \in Seq(Objects)
      BY <1>2, ScanFacts
    <3>2. QED
      BY <1>3, <2>2, <2>3, <3>1, OneMoreArray
  <2>6. /\ scan' \in ScanStates(Len(arrays')) /\ scan'.at = "visit" /\ scan'.visited = visited
        /\ scan'.size = scan.size /\ scan'.len = scan.len /\ scan'.array = scan.array
        /\ scan'.kind = scan.kind
    BY <1>2, <2>4, <2>5, ScanFacts DEF ScanStates
  <2>7. ScanTyped' /\ ArrayInv'
    BY <1>2, <2>6 DEF ScanTyped, ScanStates, ArrayInv
  <2>8. SteadyInv'
    <3>1. ASSUME ~seen.shrunk, NEW b \in seen.steady PROVE \E p \in 1..Filled : Findable(b, p)'
      <4>1. PICK p \in 1..Filled : Findable(b, p)
        BY <1>2, <3>1 DEF SteadyInv
      <4>2. p <= Place => visited[p] = b
        <5>1. CASE p = Place
          BY <1>2, <2>1, <2>5, <4>1, <5>1 DEF Findable
        <5>2. CASE p < Place
          <6>1. p \in Int /\ p \in 1..Len(scan.visited) /\ p <= Len(scan.visited)
            BY <1>3, <4>1, <5>2
          <6>2. QED
            BY <2>5, <4>1, <6>1 DEF Findable
        <5>3. p \in Int
          BY <4>1
        <5>4. QED
          BY <1>3, <5>1, <5>2, <5>3
      <4>3. Findable(b, p)'
        BY <1>2, <1>4, <2>5, <2>6, <4>1, <4>2 DEF Findable
      <4>4. QED
        BY <4>3
    <3>2. QED
      BY <1>2, <1>4, <2>6, <3>1 DEF SteadyInv
  <2>9. QuietInv'
    <3>1. ASSUME ~seen.disturbed
          PROVE  /\ Len(visited) <= list.len
                 /\ \A k \in 1..Len(visited) : visited[k] = Stored[k]
      <4>1. scan.array = list.array /\ scan.len = list.len
            /\ \A k \in 1..Len(scan.visited) : scan.visited[k] = Stored[k]
        BY <1>2, <3>1 DEF QuietInv
      <4>2. next = Stored[Place]
        BY <2>1, <4>1 DEF Stored
      <4>3. \A k \in 1..Place : k = Place \/ k \in 1..Len(scan.visited)
        BY <1>3
      <4>4. \A k \in 1..Place : visited[k] = Stored[k]
        BY <2>5, <4>1, <4>2, <4>3
      <4>5. Place <= list.len
        BY <1>3, <4>1
      <4>6. QED
        BY <2>5, <4>4, <4>5
    <3>2. QED
      BY <1>2, <1>4, <2>6, <3>1 DEF QuietInv
  <2>10. QED
    BY <2>7, <2>8, <2>9 DEF ScanOK
<1>6. CASE ~(Place \in DOMAIN arrays[scan.array] /\ arrays[scan.array][Place] # Nil)
  <2>1. scan' = [scan EXCEPT !.at = "panicked"]
    BY <1>1, <1>6 DEF Visit
  <2>2. /\ scan' \in ScanStates(Len(arrays')) /\ scan'.at = "panicked"
        /\ scan'.visited = scan.visited /\ scan'.size = scan.size /\ scan'.kind = scan.kind
    BY <1>2, <2>1, ScanFacts DEF ScanStates
  <2>3. ScanTyped' /\ ArrayInv'
    BY <1>2, <2>2 DEF ScanTyped, ScanStates, ArrayInv
  <2>4. SteadyInv'
    <3>1. ASSUME ~seen.shrunk, NEW b \in seen.steady PROVE \E p \in 1..Filled : Findable(b, p)'
      <4>1. PICK p \in 1..Filled : Findable(b, p)
        BY <1>2, <3>1 DEF SteadyInv
      <4>2. Findable(b, p)'
        BY <1>2, <1>4, <2>2, <4>1 DEF Findable
      <4>3. QED
        BY <4>2
    <3>2. QED
      BY <1>2, <1>4, <2>2, <3>1 DEF SteadyInv
  <2>5. seen.disturbed
    <3>1. SUFFICES ASSUME ~seen.disturbed PROVE FALSE
      OBVIOUS
    <3>2. update.at = "idle" /\ scan.array = list.array /\ scan.len = list.len
      BY <1>2, <3>1 DEF QuietInv
    <3>3. Filled = list.len /\ arrays[scan.array] = Stored
      BY <3>2 DEF Filled, Stored
    <3>4. ListTyped /\ ListInv
      BY <1>1 DEF ListOK
    <3>5. Place \in 1..list.len /\ Place \in DOMAIN Stored
      BY <1>3, <3>2, <3>4, ListFacts
    <3>6. Stored[Place] \in Objects
      BY <3>3, <3>4, <3>5 DEF ListInv
    <3>7. QED
      BY <1>6, <3>3, <3>5, <3>6, ConstantsAssumption DEF Objects
  <2>6. scan.kind # "locked"
    BY <1>2, <2>5 DEF QuietInv
  <2>7. QuietInv'
    BY <1>2, <2>2, <2>5, <2>6 DEF QuietInv
  <2>8. QED
    BY <2>3, <2>4, <2>7 DEF ScanOK
<1>7. QED
  BY <1>5, <1>6

LEMMA ScanEnds == ListOK /\ ScanOK /\ ScanEnd => ScanOK'
<1>1. SUFFICES ASSUME ListOK, ScanOK, ScanEnd PROVE ScanOK'
  OBVIOUS
<1>2. /\ scan.at = "visit" /\ Place > Reach /\ UNCHANGED <<arrays, list, file, update, seen>>
      /\ scan' = [scan EXCEPT !.at = IF scan.kind = "copy" /\ scan.size > scan.len
                                     THEN "panicked" ELSE "done"]
      /\ ScanTyped /\ ArrayInv /\ SteadyInv /\ QuietInv
  BY <1>1 DEF ScanEnd, ScanOK
<1>3. /\ Len(scan.visited) \in Nat /\ Reach \in Nat /\ Reach <= Len(scan.visited)
      /\ scan.size \in Nat /\ scan.len \in Nat /\ (Reach < scan.len => Reach = scan.size)
      /\ Reach <= scan.len
  BY <1>2, ScanFacts
<1>4. Stored' = Stored /\ Filled' = Filled
  BY <1>2, ListUnchanged
<1>5. PICK end \in {"panicked", "done"} :
         /\ scan' = [scan EXCEPT !.at = end]
         /\ end = "panicked" => scan.size > scan.len
  BY <1>2
<1>6. /\ scan' \in ScanStates(Len(arrays')) /\ scan'.at = end /\ scan'.visited = scan.visited
      /\ scan'.size = scan.size /\ scan'.len = scan.len /\ scan'.array = scan.array
      /\ scan'.kind = scan.kind
  BY <1>2, <1>5, ScanFacts DEF ScanStates
<1>7. ScanTyped' /\ ArrayInv'
  BY <1>2, <1>6 DEF ScanTyped, ScanStates, ArrayInv
<1>8. SteadyInv'
  <2>1. ASSUME ~seen.shrunk, NEW b \in seen.steady PROVE \E p \in 1..Filled : Findable(b, p)'
    <3>1. PICK p \in 1..Filled : Findable(b, p)
      BY <1>2, <2>1 DEF SteadyInv
    <3>2. p \in Int /\ p <= scan.size /\ p <= scan.len
      BY <1>2, <3>1 DEF Findable
    <3>3. p <= Len(scan.visited)
      BY <1>3, <3>2
    <3>4. Findable(b, p)'
      BY <1>2, <1>4, <1>6, <3>1, <3>3 DEF Findable
    <3>5. QED
      BY <3>4
  <2>2. QED
    BY <1>2, <1>4, <1>6, <2>1 DEF SteadyInv
<1>9. QuietInv'
  <2>1. ASSUME ~seen.disturbed
        PROVE  /\ end = "done" /\ Len(scan.visited) = list.len
    <3>1. scan.size = list.len /\ scan.len = list.len /\ Len(scan.visited) <= list.len
      BY <1>2, <2>1 DEF QuietInv
    <3>2. end = "done"
      BY <1>3, <1>5, <3>1
    <3>3. Reach = list.len
      BY <1>3, <3>1
    <3>4. QED
      BY <1>3, <3>1, <3>2, <3>3
  <2>2. QED
    BY <1>2, <1>4, <1>6, <2>1 DEF QuietInv
<1>10. QED
  BY <1>7, <1>8, <1>9 DEF ScanOK

LEMMA ScanLeaves == ListOK /\ ScanOK /\ Leave => ScanOK'
<1>1. SUFFICES ASSUME ListOK, ScanOK, Leave PROVE ScanOK'
  OBVIOUS
<1>2. /\ scan' = [at |-> "idle", kind |-> "range", size |-> 0, array |-> 0, len |-> 0,
                  visited |-> <<>>]
      /\ seen' = [steady |-> {}, ever |-> {}, disturbed |-> FALSE, shrunk |-> FALSE]
      /\ arrays' = arrays
  BY <1>1 DEF Leave, NoScan, NothingSeen
<1>3. Len(arrays') \in Nat
  BY <1>1, <1>2, ListFacts DEF ListOK
<1>4. ScanTyped'
  <2>1. <<>> \in Seq(Objects)
    BY EmptySeq
  <2>2. 0 \in 0..Len(arrays')
    BY <1>3
  <2>3. QED
    BY <1>2, <2>1, <2>2 DEF ScanTyped, Kinds
<1>5. QED
  BY <1>2, <1>4 DEF ScanOK, ArrayInv, SteadyInv, QuietInv

LEMMA ScanStays == ScanOK /\ UNCHANGED vars => ScanOK'
<1>1. SUFFICES ASSUME ScanOK, UNCHANGED vars PROVE ScanOK'
  OBVIOUS
<1>2. UNCHANGED <<arrays, list, file, update, scan, seen>>
  BY <1>1 DEF vars
<1>3. Stored' = Stored /\ Filled' = Filled
  BY <1>2, ListUnchanged
<1>4. \A b, p : Findable(b, p)' <=> Findable(b, p)
  BY <1>2, <1>3 DEF Findable
<1>5. QED
  BY <1>1, <1>2, <1>3, <1>4 DEF ScanOK, ScanTyped, ArrayInv, SteadyInv, QuietInv

LEMMA ScanStep == ListOK /\ ScanOK /\ [Next]_vars => ScanOK'
  BY ScanDuringUpdate, ScanBegins, ArrayLoaded, LengthLoaded, ElementVisited, ScanEnds,
     ScanLeaves, ScanStays DEF Next, Scanner

LEMMA ScanAlwaysOK == Spec => []ScanOK
  BY InitScanOK, ListAlwaysOK, ScanStep, PTL DEF Spec

\* Every variable of BackendList stays in its type.
THEOREM ListTypeCorrect == Spec => []TypeOK
<1>1. ListOK /\ ScanOK => TypeOK
  BY TypeParts DEF ListOK, ScanOK
<1>2. QED
  BY <1>1, ListAlwaysOK, ScanAlwaysOK, PTL

\* A scan during which no backend is removed calls every backend that is in the
\* record all along: append does not move the elements, nor takes them out of an
\* array that was loaded before (record.go:135, and each range over r.Backends).
THEOREM NoneEverMissed == Spec => []NoneMissed
<1>1. ScanOK => NoneMissed
  <2>1. SUFFICES ASSUME ScanOK, scan.at = "done", ~seen.shrunk, NEW b \in seen.steady
                 PROVE  b \in Range(scan.visited)
    BY DEF NoneMissed
  <2>2. PICK p \in 1..Filled : Findable(b, p)
    BY <2>1 DEF ScanOK, SteadyInv
  <2>3. p <= Len(scan.visited) /\ scan.visited[p] = b
    BY <2>1, <2>2 DEF Findable
  <2>4. DOMAIN scan.visited = 1..Len(scan.visited) /\ Len(scan.visited) \in Nat
    BY <2>1, ScanFacts, LenProperties DEF ScanOK
  <2>5. p \in DOMAIN scan.visited
    BY <2>3, <2>4
  <2>6. QED
    BY <2>3, <2>5 DEF Range
<1>2. QED
  BY <1>1, ScanAlwaysOK, PTL

\* A scan under one of the locks (roundrobin, random, the overview), and one that no
\* update met, calls each backend of the record once and nothing else.
THEOREM QuietScansAlwaysExact == Spec => []QuietScansAreExact
<1>1. ListOK /\ ScanOK => QuietScansAreExact
  <2>1. SUFFICES ASSUME ListOK, ScanOK, scan.at # "idle", scan.kind = "locked" \/ ~seen.disturbed
                 PROVE  /\ ~seen.disturbed
                        /\ scan.at # "panicked"
                        /\ scan.at = "done" => scan.visited = SubSeq(Stored, 1, list.len)
    BY DEF QuietScansAreExact
  <2>2. QuietInv /\ ScanTyped /\ ListTyped
    BY <2>1 DEF ScanOK, ListOK
  <2>3. ~seen.disturbed
    BY <2>1, <2>2 DEF QuietInv
  <2>4. scan.at # "panicked"
    BY <2>1, <2>2, <2>3 DEF QuietInv
  <2>5. ASSUME scan.at = "done" PROVE scan.visited = SubSeq(Stored, 1, list.len)
    <3>1. /\ Len(scan.visited) = list.len
          /\ \A k \in 1..list.len : scan.visited[k] = Stored[k]
      BY <2>2, <2>3, <2>5 DEF QuietInv
    <3>2. /\ scan.visited \in Seq(Objects) /\ Stored \in Seq(Objects \cup {Nil})
          /\ list.len \in Nat /\ list.len <= Len(Stored) /\ Len(Stored) \in Nat
      BY <2>2, ScanFacts, ListFacts
    <3>3. PICK first : first = SubSeq(Stored, 1, list.len)
      OBVIOUS
    <3>4. Len(first) = list.len /\ first \in Seq(Objects \cup {Nil})
          /\ \A k \in 1..list.len : first[k] = Stored[k]
      BY <3>2, <3>3
    <3>5. scan.visited = first
      <4>1. scan.visited \in Seq(Objects \cup {Nil})
        <5>1. \A k \in 1..Len(scan.visited) : scan.visited[k] \in Objects \cup {Nil}
          BY <3>2, ElementOfSeq
        <5>2. QED
          BY <3>2, <5>1, LenProperties
      <4>2. QED
        BY <3>1, <3>4, <4>1, SeqEqual
    <3>6. QED
      BY <3>3, <3>5
  <2>6. QED
    BY <2>3, <2>4, <2>5
<1>2. QED
  BY <1>1, ListAlwaysOK, ScanAlwaysOK, PTL

----------------------------------------------------------------------------
(***************************************************************************)
(* The round-robin index: the modulus.                                     *)
(***************************************************************************)

LEMMA DivMod ==
    ASSUME NEW a \in Nat, NEW n \in Nat \ {0}
    PROVE  /\ a = n * (a \div n) + (a % n)
           /\ a \div n \in Nat
           /\ a % n \in 0..n-1
  OBVIOUS

LEMMA ModUnique ==
    ASSUME NEW q \in Nat, NEW n \in Nat \ {0}, NEW r \in 0..n-1
    PROVE  (n * q + r) % n = r
  OBVIOUS

LEMMA ModSmall ==
    ASSUME NEW n \in Nat \ {0}, NEW a \in 0..n-1
    PROVE  a % n = a
  OBVIOUS

\* The stored index is the successor of the selected position, or 0 after the
\* last one.
LEMMA ModSucc ==
    ASSUME NEW a \in Nat, NEW n \in Nat \ {0}
    PROVE  (a + 1) % n = IF a % n = n - 1 THEN 0 ELSE (a % n) + 1
<1> DEFINE q == a \div n
           r == a % n
<1>1. a = n * q + r /\ q \in Nat /\ r \in 0..n-1
  BY DivMod
<1> HIDE DEF q, r
<1>2. CASE r = n - 1
  <2>1. a + 1 = n * (q + 1) + 0
    BY <1>1, <1>2
  <2>2. (n * (q + 1) + 0) % n = 0
    BY <1>1, ModUnique
  <2>3. QED
    BY <2>1, <2>2, <1>2 DEF r
<1>3. CASE r # n - 1
  <2>1. a + 1 = n * q + (r + 1) /\ r + 1 \in 0..n-1
    BY <1>1, <1>3
  <2>2. QED
    BY <2>1, <1>1, <1>3, ModUnique DEF r
<1>4. QED
  BY <1>2, <1>3

----------------------------------------------------------------------------
(***************************************************************************)
(* The round-robin index: type correctness and the bound.                  *)
(***************************************************************************)

\* What Query selects is a backend at a position of the list, and what it
\* stores is the next position.
LEMMA SelectedInList ==
    ASSUME RobinTypeOK, NEW t \in Types, healthy[t] # <<>>
    PROVE  /\ healthy[t] \in Lists[t]
           /\ healthy[t] \in Seq(Backends)
           /\ IsInjective(healthy[t])
           /\ Len(healthy[t]) \in Nat \ {0}
           /\ index % Len(healthy[t]) \in 0..Len(healthy[t])-1
           /\ Selected(t) \in Backends
           /\ Advance(t) = IF index % Len(healthy[t]) = Len(healthy[t]) - 1
                           THEN 0 ELSE (index % Len(healthy[t])) + 1
           /\ Advance(t) \in 0..Len(healthy[t])-1
<1>1. healthy[t] \in Lists[t] /\ index \in Nat
  BY DEF RobinTypeOK
<1>2. healthy[t] \in Seq(Backends) /\ IsInjective(healthy[t])
  BY <1>1, ListsAssumption
<1> DEFINE n == Len(healthy[t])
<1>3. n \in Nat \ {0}
  BY <1>2
<1>4. index % n \in 0..n-1
  BY <1>1, <1>3, DivMod
<1>5. Selected(t) \in Backends
  BY <1>2, <1>3, <1>4 DEF Selected
<1>6. Advance(t) = IF index % n = n - 1 THEN 0 ELSE (index % n) + 1
  BY <1>1, <1>3, ModSucc DEF Advance
<1>7. Advance(t) \in 0..n-1
  BY <1>3, <1>4, <1>6
<1>8. QED
  BY <1>1, <1>2, <1>3, <1>4, <1>5, <1>6, <1>7

LEMMA RobinTypeStep == RobinTypeOK /\ [RobinNext]_robinVars => RobinTypeOK'
<1> SUFFICES ASSUME RobinTypeOK, [RobinNext]_robinVars
             PROVE  RobinTypeOK'
  OBVIOUS
<1>1. ASSUME NEW t \in Types, Query(t)
      PROVE  RobinTypeOK'
  <2>1. Selected(t) \in Backends /\ Advance(t) \in Nat
    BY <1>1, SelectedInList DEF Query
  <2>2. round' \in Seq(Backends)
    BY <1>1, <2>1 DEF Query, RobinTypeOK
  <2>3. last' \in [Types -> Backends \cup {NoBackend}]
    BY <1>1, <2>1 DEF Query, RobinTypeOK
  <2>4. QED
    BY <1>1, <2>1, <2>2, <2>3 DEF Query, RobinTypeOK
<1>2. ASSUME NEW t \in Types, HealthChanges(t)
      PROVE  RobinTypeOK'
  <2>1. PICK l \in Lists[t] : healthy' = [healthy EXCEPT ![t] = l]
    BY <1>2 DEF HealthChanges
  <2>2. l \in AnyList
    BY DEF AnyList
  <2>3. healthy' \in [Types -> AnyList] /\ \A u \in Types : healthy'[u] \in Lists[u]
    BY <2>1, <2>2 DEF RobinTypeOK
  <2>4. round' \in Seq(Backends) /\ roundType' \in Types \cup {NoType}
    <3>1. CASE roundType = t
      <4>1. round' = << >> /\ roundType' = NoType
        BY <1>2, <3>1 DEF HealthChanges
      <4>2. << >> \in Seq(Backends)
        OBVIOUS
      <4>3. QED
        BY <4>1, <4>2
    <3>2. CASE roundType # t
      BY <1>2, <3>2 DEF HealthChanges, RobinTypeOK
    <3>3. QED
      BY <3>1, <3>2
  <2>5. last' \in [Types -> Backends \cup {NoBackend}] /\ index' \in Nat
    BY <1>2 DEF HealthChanges, RobinTypeOK
  <2>6. QED
    BY <2>3, <2>4, <2>5 DEF RobinTypeOK
<1>3. CASE UNCHANGED robinVars
  BY <1>3 DEF robinVars, RobinTypeOK
<1>4. QED
  BY <1>1, <1>2, <1>3 DEF RobinNext, QueryFails

\* Every variable of RoundRobin keeps its type.
THEOREM RobinTypeCorrect == RobinSpec => []RobinTypeOK
<1>1. RobinInit => RobinTypeOK
  BY DEF RobinInit, RobinTypeOK
<1>2. QED
  BY <1>1, RobinTypeStep, PTL DEF RobinSpec

----------------------------------------------------------------------------
(***************************************************************************)
(* Rounds: that a round has no backend twice says nothing of where it     *)
(* began, so it is not inductive: the invariant is that the k-th query of  *)
(* a round returned the backend k - 1 places after the first one's, around *)
(* the end of the list, and that the index is the next place.              *)
(***************************************************************************)

\* The place of the k-th query of a round that began at place s, in a list of n.
Seat(s, k, n) == IF s + (k - 1) < n THEN s + (k - 1) ELSE (s + (k - 1)) - n

RoundFrom(l, s) ==
    /\ Len(round) \in 1..Len(l)
    /\ index = Seat(s, Len(round) + 1, Len(l))
    /\ \A k \in 1..Len(round) : round[k] = l[Seat(s, k, Len(l)) + 1]

RoundIsRun ==
    IF roundType \in Types
    THEN \E s \in 0..Len(healthy[roundType])-1 : RoundFrom(healthy[roundType], s)
    ELSE round = <<>>

LEMMA SeatInList ==
    ASSUME NEW n \in Nat, NEW s \in 0..n-1, NEW k \in 1..n
    PROVE  Seat(s, k, n) \in 0..n-1
  BY DEF Seat

LEMMA SeatsDiffer ==
    ASSUME NEW n \in Nat, NEW s \in 0..n-1, NEW j \in 1..n, NEW k \in 1..n,
           Seat(s, j, n) = Seat(s, k, n)
    PROVE  j = k
  BY DEF Seat

\* After place x comes place x + 1, or 0.
LEMMA SeatMoves ==
    ASSUME NEW n \in Nat, NEW s \in 0..n-1, NEW k \in 1..n
    PROVE  Seat(s, k + 1, n) = IF Seat(s, k, n) = n - 1 THEN 0 ELSE Seat(s, k, n) + 1
  BY DEF Seat

LEMMA QueryKeepsRun ==
    ASSUME RobinTypeOK, RoundIsRun, NEW t \in Types, Query(t)
    PROVE  RoundIsRun'
<1> DEFINE l == healthy[t]
           n == Len(l)
           x == index % n
<1>1. /\ l \in Seq(Backends) /\ n \in Nat \ {0} /\ x \in 0..n-1
      /\ index' = IF x = n - 1 THEN 0 ELSE x + 1
      /\ Selected(t) = l[x + 1] /\ Selected(t) \in Backends
  BY SelectedInList DEF Query, Selected
<1>2. healthy'[t] = l /\ roundType' = t /\ round \in Seq(Backends)
  BY DEF Query, RobinTypeOK
<1>3. CASE RoundGoesOn(t)
  <2>1. PICK s \in 0..n-1 : RoundFrom(l, s)
    BY <1>3 DEF RoundIsRun, RoundGoesOn
  <2>2. round' = Append(round, Selected(t)) /\ Len(round) + 1 \in 1..n
    BY <1>1, <1>2, <1>3, <2>1 DEF Query, RoundGoesOn, RoundFrom
  <2> HIDE DEF l, n, x
  <2>3. index = Seat(s, Len(round) + 1, n) /\ index \in 0..n-1
    BY <1>1, <2>1, <2>2, SeatInList DEF RoundFrom, n
  <2>4. x = index
    BY <1>1, <2>3, ModSmall DEF x
  <2>5. index' = Seat(s, (Len(round) + 1) + 1, n)
    BY <1>1, <2>2, <2>3, <2>4, SeatMoves
  <2>6. Len(round') = Len(round) + 1
    BY <1>1, <1>2, <2>2
  <2>7. ASSUME NEW k \in 1..Len(round')
        PROVE  round'[k] = l[Seat(s, k, n) + 1]
    <3>1. CASE k = Len(round) + 1
      BY <1>1, <1>2, <2>2, <2>3, <2>4, <3>1
    <3>2. CASE k # Len(round) + 1
      <4>1. k \in 1..Len(round) /\ round'[k] = round[k]
        BY <1>1, <1>2, <2>2, <2>6, <3>2
      <4>2. QED
        BY <4>1, <2>1 DEF RoundFrom, n
    <3>3. QED
      BY <3>1, <3>2
  <2>8. RoundFrom(l, s)'
    BY <1>2, <2>2, <2>5, <2>6, <2>7 DEF RoundFrom, l, n, Query
  <2>9. QED
    BY <1>1, <1>2, <2>8 DEF RoundIsRun, l, n, Query
<1>4. CASE ~RoundGoesOn(t)
  <2>1. round' = <<Selected(t)>>
    BY <1>4 DEF Query
  <2> HIDE DEF l, n, x
  <2>2. PICK s \in 0..n-1 : s = x
    BY <1>1
  <2>3. Seat(s, 1, n) = s /\ index' = Seat(s, 1 + 1, n)
    BY <1>1, <2>2 DEF Seat
  <2>4. Len(round') = 1 /\ round'[1] = l[s + 1]
    BY <1>1, <2>1, <2>2
  <2>5. l' = l /\ n' = n
    BY <1>2 DEF l, n
  <2>6. RoundFrom(l, s)'
    BY <1>1, <2>3, <2>4, <2>5 DEF RoundFrom, n
  <2>7. QED
    BY <1>2, <2>5, <2>6 DEF RoundIsRun, l, n
<1>5. QED
  BY <1>3, <1>4

LEMMA RunStep == RobinTypeOK /\ RoundIsRun /\ [RobinNext]_robinVars => RoundIsRun'
<1> SUFFICES ASSUME RobinTypeOK, RoundIsRun, [RobinNext]_robinVars
             PROVE  RoundIsRun'
  OBVIOUS
<1>1. ASSUME NEW t \in Types, Query(t)
      PROVE  RoundIsRun'
  BY <1>1, QueryKeepsRun
<1>2. ASSUME NEW t \in Types, HealthChanges(t)
      PROVE  RoundIsRun'
  <2>1. CASE roundType = t
    BY <1>2, <2>1, ListsAssumption DEF HealthChanges, RoundIsRun
  <2>2. CASE roundType # t
    <3>1. roundType' = roundType /\ index' = index /\ round' = round
      BY <1>2, <2>2 DEF HealthChanges
    <3>2. roundType \in Types => healthy'[roundType] = healthy[roundType]
      BY <1>2, <2>2 DEF HealthChanges, RobinTypeOK
    <3>3. QED
      BY <3>1, <3>2 DEF RoundIsRun, RoundFrom
  <2>3. QED
    BY <2>1, <2>2
<1>3. CASE UNCHANGED robinVars
  BY <1>3 DEF robinVars, RoundIsRun, RoundFrom
<1>4. QED
  BY <1>1, <1>2, <1>3 DEF RobinNext, QueryFails

\* While the healthy backends of a type stay what they are, consecutive queries
\* of that type return every one of them before any of them again, wherever
\* the queries of the other type left the index they share.
THEOREM RoundsAlwaysFair == RobinSpec => []RoundsAreFair
<1>1. RobinInit => RoundIsRun
  BY ListsAssumption DEF RobinInit, RoundIsRun
<1>2. RobinTypeOK /\ RoundIsRun => RoundsAreFair
  <2> SUFFICES ASSUME RobinTypeOK, RoundIsRun
               PROVE  RoundsAreFair
    OBVIOUS
  <2>1. CASE roundType \notin Types
    BY <2>1 DEF RoundIsRun, RoundsAreFair, IsInjective
  <2>2. CASE roundType \in Types
    <3> DEFINE l == healthy[roundType]
               n == Len(l)
    <3>1. l \in Seq(Backends) /\ IsInjective(l) /\ n \in Nat
      BY <2>2, ListsAssumption DEF RobinTypeOK
    <3>2. PICK s \in 0..n-1 : RoundFrom(l, s)
      BY <2>2 DEF RoundIsRun
    <3>3. round \in Seq(Backends) /\ DOMAIN round = 1..Len(round) /\ Len(round) \in 1..n
      BY <3>2 DEF RobinTypeOK, RoundFrom
    <3>4. ASSUME NEW j \in DOMAIN round, NEW k \in DOMAIN round, round[j] = round[k]
          PROVE  j = k
      <4> HIDE DEF l, n
      <4>1. j \in 1..n /\ k \in 1..n
        BY <3>1, <3>3
      <4>2. l[Seat(s, j, n) + 1] = l[Seat(s, k, n) + 1]
        BY <3>2, <3>3, <3>4 DEF RoundFrom, n
      <4>3. Seat(s, j, n) \in 0..n-1 /\ Seat(s, k, n) \in 0..n-1
        BY <3>1, <4>1, SeatInList
      <4>4. Seat(s, j, n) + 1 \in DOMAIN l /\ Seat(s, k, n) + 1 \in DOMAIN l
        BY <3>1, <4>3 DEF n
      <4>5. Seat(s, j, n) + 1 = Seat(s, k, n) + 1
        BY <3>1, <4>2, <4>4 DEF IsInjective
      <4>6. QED
        BY <3>1, <4>1, <4>3, <4>5, SeatsDiffer
    <3>5. QED
      BY <3>4 DEF RoundsAreFair, IsInjective
  <2>3. QED
    BY <2>1, <2>2
<1>3. QED
  BY <1>1, <1>2, RunStep, RobinTypeCorrect, PTL DEF RobinSpec

----------------------------------------------------------------------------
(***************************************************************************)
(* The custom location map: types, and the mutex.                          *)
(***************************************************************************)

JobStates == [at : {"idle", "waiting", "holding"}, content : Contents]

LEMMA ContentsHave ==
    /\ \A v \in Nat : Content("map", v) \in Usable /\ Content("garbled", v) \in Contents
    /\ Content("empty", 0) \in Usable /\ Content("gone", 0) \in Contents
    /\ Usable \subseteq Contents /\ IdleJob \in JobStates /\ IdleJob.at = "idle"
  BY DEF Content, Contents, Usable, IdleJob, JobStates

LEMMA MapTypeInit == MapInit => MapTypeOK
<1>1. SUFFICES ASSUME MapInit PROVE MapTypeOK
  OBVIOUS
<1>2. job \in [Jobs -> JobStates]
  BY <1>1, ContentsHave DEF MapInit
<1>3. mapFile \in Usable /\ locationMap \in Usable
  BY <1>1, ContentsHave DEF MapInit
<1>4. writing \in BOOLEAN /\ watching \in BOOLEAN /\ event \in BOOLEAN /\ timer \in BOOLEAN
  BY <1>1, Zenon DEF MapInit
<1>5. saves = 0
  BY <1>1 DEF MapInit
<1>6. saves \in 0..MaxSaves
  BY <1>5, MapAssumption
<1>7. QED
  BY <1>2, <1>3, <1>4, <1>6, ContentsHave DEF MapTypeOK, JobStates

LEMMA OperatorTyped == MapTypeOK /\ Operator => MapTypeOK' /\ UNCHANGED <<job, locationMap>>
<1>1. SUFFICES ASSUME MapTypeOK, Operator PROVE MapTypeOK' /\ UNCHANGED <<job, locationMap>>
  OBVIOUS
<1>2. saves \in Nat /\ saves <= MaxSaves /\ MaxSaves \in Nat /\ event \in BOOLEAN /\ watching \in BOOLEAN
  BY <1>1, MapAssumption DEF MapTypeOK
<1>3. UNCHANGED <<watching, timer, job, locationMap>>
  BY <1>1 DEF Operator, Truncate, Fill, Replace, TakeAway, Editing
<1>4. saves' \in 0..MaxSaves /\ saves' \in Nat
  BY <1>1, <1>2 DEF Operator, Truncate, Fill, Replace, TakeAway
<1>5. mapFile' \in Contents /\ writing' \in BOOLEAN
  BY <1>1, <1>2, <1>4, ContentsHave DEF MapTypeOK, Operator, Truncate, Fill, Replace, TakeAway
<1>6. event' \in BOOLEAN
  BY <1>1, <1>2 DEF Operator, Truncate, Fill, Replace, TakeAway, Touch
<1>7. QED
  BY <1>1, <1>3, <1>4, <1>5, <1>6 DEF MapTypeOK

LEMMA TimerTyped ==
    MapTypeOK /\ TimerFires =>
        /\ MapTypeOK' /\ UNCHANGED <<mapFile, locationMap>>
        /\ \A g \in Jobs : job'[g].at = "holding" => job[g].at = "holding"
        /\ \A g \in Jobs : job[g].at = "holding" => job'[g] = job[g]
<1>1. SUFFICES ASSUME MapTypeOK, TimerFires
               PROVE  /\ MapTypeOK' /\ UNCHANGED <<mapFile, locationMap>>
                      /\ \A g \in Jobs : job'[g].at = "holding" => job[g].at = "holding"
                      /\ \A g \in Jobs : job[g].at = "holding" => job'[g] = job[g]
  OBVIOUS
<1>2. PICK h \in Jobs :
         job[h].at = "idle" /\ job' = [job EXCEPT ![h] = [@ EXCEPT !.at = "waiting"]]
  BY <1>1 DEF TimerFires
<1>3. job \in [Jobs -> JobStates]
  BY <1>1 DEF MapTypeOK, JobStates
<1>4. [job[h] EXCEPT !.at = "waiting"] \in JobStates
  BY <1>3 DEF JobStates
<1>5. job' \in [Jobs -> JobStates]
  BY <1>2, <1>3, <1>4
<1>6. job'[h].at = "waiting" /\ \A g \in Jobs : g # h => job'[g] = job[g]
  BY <1>2, <1>3 DEF JobStates
<1>7. MapTypeOK' /\ UNCHANGED <<mapFile, locationMap>>
  BY <1>1, <1>5 DEF TimerFires, MapTypeOK, JobStates, fileVars
<1>8. QED
  BY <1>2, <1>6, <1>7

LEMMA ReadTyped ==
    \A g \in Jobs : MapTypeOK /\ LoadReads(g) =>
        /\ MapTypeOK' /\ UNCHANGED <<mapFile, locationMap>>
        /\ job'[g] = [at |-> "holding", content |-> mapFile]
        /\ \A h \in Jobs : h # g => job'[h] = job[h]
<1>1. SUFFICES ASSUME NEW g \in Jobs, MapTypeOK, LoadReads(g)
               PROVE  /\ MapTypeOK' /\ UNCHANGED <<mapFile, locationMap>>
                      /\ job'[g] = [at |-> "holding", content |-> mapFile]
                      /\ \A h \in Jobs : h # g => job'[h] = job[h]
  OBVIOUS
<1>2. job \in [Jobs -> JobStates] /\ mapFile \in Contents
  BY <1>1 DEF MapTypeOK, JobStates
<1>3. job' = [job EXCEPT ![g] = [at |-> "holding", content |-> mapFile]]
  BY <1>1 DEF LoadReads
<1>4. [at |-> "holding", content |-> mapFile] \in JobStates
  BY <1>2 DEF JobStates
<1>5. /\ job' \in [Jobs -> JobStates] /\ job'[g] = [at |-> "holding", content |-> mapFile]
      /\ \A h \in Jobs : h # g => job'[h] = job[h]
  BY <1>2, <1>3, <1>4
<1>6. MapTypeOK' /\ UNCHANGED <<mapFile, locationMap>>
  BY <1>1, <1>5 DEF LoadReads, MapTypeOK, JobStates, fileVars, watchVars
<1>7. QED
  BY <1>5, <1>6

LEMMA StoreTyped ==
    \A g \in Jobs : MapTypeOK /\ LoadStores(g) =>
        /\ MapTypeOK' /\ UNCHANGED mapFile
        /\ job'[g].at = "idle" /\ \A h \in Jobs : h # g => job'[h] = job[h]
<1>1. SUFFICES ASSUME NEW g \in Jobs, MapTypeOK, LoadStores(g)
               PROVE  /\ MapTypeOK' /\ UNCHANGED mapFile
                      /\ job'[g].at = "idle" /\ \A h \in Jobs : h # g => job'[h] = job[h]
  OBVIOUS
<1>2. job \in [Jobs -> JobStates] /\ locationMap \in Usable
  BY <1>1 DEF MapTypeOK, JobStates
<1>3. job' = [job EXCEPT ![g] = IdleJob]
  BY <1>1 DEF LoadStores
<1>4. /\ job' \in [Jobs -> JobStates] /\ job'[g].at = "idle"
      /\ \A h \in Jobs : h # g => job'[h] = job[h]
  BY <1>2, <1>3, ContentsHave
<1>5. locationMap' \in Usable
  BY <1>1, <1>2 DEF LoadStores
<1>6. MapTypeOK' /\ UNCHANGED mapFile
  BY <1>1, <1>4, <1>5 DEF LoadStores, MapTypeOK, JobStates, fileVars, watchVars
<1>7. QED
  BY <1>4, <1>6

LEMMA WatcherTyped ==
    MapTypeOK /\ (WatchStarts \/ WatchEvent \/ UNCHANGED mapVars) =>
        MapTypeOK' /\ UNCHANGED <<mapFile, job, locationMap>>
  BY DEF WatchStarts, WatchEvent, mapVars, MapTypeOK, fileVars, watchVars

\* The mutex: one load at a time.
OneHolds == \A g, h \in Jobs : job[g].at = "holding" /\ job[h].at = "holding" => g = h

MapOK == MapTypeOK /\ OneHolds

LEMMA MapInitOK == MapInit => MapOK
  BY MapTypeInit, ContentsHave DEF MapInit, MapOK, OneHolds

LEMMA MapStep == MapOK /\ [MapNext]_mapVars => MapOK'
<1>1. SUFFICES ASSUME MapOK, [MapNext]_mapVars PROVE MapOK'
  OBVIOUS
<1>2. CASE Operator
  BY <1>1, <1>2, OperatorTyped DEF MapOK, OneHolds
<1>3. CASE WatchStarts \/ WatchEvent \/ UNCHANGED mapVars
  BY <1>1, <1>3, WatcherTyped DEF MapOK, OneHolds
<1>4. CASE TimerFires
  BY <1>1, <1>4, TimerTyped DEF MapOK, OneHolds
<1>5. ASSUME NEW g \in Jobs, LoadReads(g) PROVE MapOK'
  <2>1. \A h \in Jobs : h # g => job'[h].at # "holding"
    BY <1>1, <1>5, ReadTyped DEF MapOK, LoadReads, Unlocked
  <2>2. QED
    BY <1>1, <1>5, <2>1, ReadTyped DEF MapOK, OneHolds
<1>6. ASSUME NEW g \in Jobs, LoadStores(g) PROVE MapOK'
  BY <1>1, <1>6, StoreTyped DEF MapOK, OneHolds
<1>7. QED
  BY <1>1, <1>2, <1>3, <1>4, <1>5, <1>6 DEF MapNext, Load

LEMMA MapAlwaysOK == MapSpec => []MapOK
  BY MapInitOK, MapStep, PTL DEF MapSpec

\* Every variable of LocationMap stays in its type: whatever the file held, the map
\* in use is one that could be decoded.
THEOREM MapTypeCorrect == MapSpec => []MapTypeOK
<1>1. MapOK => MapTypeOK
  BY DEF MapOK
<1>2. QED
  BY <1>1, MapAlwaysOK, PTL

----------------------------------------------------------------------------
(***************************************************************************)
(* The custom location map: the refinement of FileLoader.  What the one    *)
(* loader has read is what the load that holds the mutex has read.         *)
(***************************************************************************)

LEMMA NobodyHolds == (\A g \in Jobs : job[g].at # "holding") => Held = Nothing
  BY DEF Held

LEMMA HolderHas ==
    ASSUME OneHolds, NEW g \in Jobs, job[g].at = "holding"
    PROVE  Held = [file |-> Custom, content |-> job[g].content]
<1>1. {h \in Jobs : job[h].at = "holding"} = {g}
  BY DEF OneHolds
<1>2. (CHOOSE h \in {g} : TRUE) = g
  OBVIOUS
<1>3. QED
  BY <1>1, <1>2 DEF Held

LEMMA NobodyWillHold == ((\A g \in Jobs : job[g].at # "holding") => Held = Nothing)'
  BY NobodyHolds, PTL

LEMMA HolderWillHave ==
    ASSUME NEW g \in Jobs
    PROVE  (OneHolds /\ job[g].at = "holding"
              => Held = [file |-> Custom, content |-> job[g].content])'
<1>1. OneHolds /\ job[g].at = "holding" => Held = [file |-> Custom, content |-> job[g].content]
  BY HolderHas
<1>2. QED
  BY <1>1, PTL

\* The same load holds the mutex, or still none does.
LEMMA HeldStays ==
    ASSUME OneHolds, OneHolds',
           \A g \in Jobs : job'[g].at = "holding" => job[g].at = "holding",
           \A g \in Jobs : job[g].at = "holding" => job'[g] = job[g]
    PROVE  Held' = Held
<1>1. CASE \E g \in Jobs : job[g].at = "holding"
  <2>1. PICK g \in Jobs : job[g].at = "holding"
    BY <1>1
  <2>2. job'[g] = job[g]
    BY <2>1
  <2>3. Held = [file |-> Custom, content |-> job[g].content]
    BY <2>1, HolderHas
  <2>4. Held' = [file |-> Custom, content |-> job'[g].content]
    BY <2>1, <2>2, HolderWillHave
  <2>5. QED
    BY <2>2, <2>3, <2>4
<1>2. CASE \A g \in Jobs : job[g].at # "holding"
  BY <1>2, NobodyHolds, NobodyWillHold
<1>3. QED
  BY <1>1, <1>2

LEMMA HeldIsSomething == \A c \in Contents : [file |-> Custom, content |-> c] # Nothing
  BY MapAssumption DEF Custom, Contents

LEMMA MapLoaderInit == MapInit => Loader!Init
<1>1. SUFFICES ASSUME MapInit PROVE Loader!Init
  OBVIOUS
<1>2. mapFile \in Contents /\ locationMap = mapFile
  BY <1>1, MapTypeInit DEF MapTypeOK, MapInit
<1>3. Held = Nothing
  BY <1>1, NobodyHolds, ContentsHave DEF MapInit
<1>4. [f \in {Custom} |-> mapFile] \in [{Custom} -> Contents]
  BY <1>2
<1>5. QED
  BY <1>2, <1>3, <1>4 DEF Loader!Init

LEMMA MapLoaderStep == MapOK /\ MapOK' /\ [MapNext]_mapVars => [Loader!Next]_Loader!vars
<1>1. SUFFICES ASSUME MapOK, MapOK', [MapNext]_mapVars PROVE [Loader!Next]_Loader!vars
  OBVIOUS
<1>2. MapTypeOK /\ MapTypeOK' /\ OneHolds /\ OneHolds'
  BY <1>1 DEF MapOK
<1>3. CASE Operator
  <2>1. job' = job /\ locationMap' = locationMap /\ mapFile' \in Contents
    BY <1>2, <1>3, OperatorTyped DEF MapTypeOK
  <2>2. Held' = Held
    BY <1>2, <2>1, HeldStays
  <2>3. Loader!Change(Custom)
    BY <2>1, <2>2 DEF Loader!Change
  <2>4. QED
    BY <2>3 DEF Loader!Next
<1>4. CASE WatchStarts \/ WatchEvent \/ UNCHANGED mapVars
  <2>1. job' = job /\ locationMap' = locationMap /\ mapFile' = mapFile
    BY <1>2, <1>4, WatcherTyped
  <2>2. Held' = Held
    BY <1>2, <2>1, HeldStays
  <2>3. QED
    BY <2>1, <2>2 DEF Loader!vars
<1>5. CASE TimerFires
  <2>1. locationMap' = locationMap /\ mapFile' = mapFile
    BY <1>2, <1>5, TimerTyped
  <2>2. Held' = Held
    BY <1>2, <1>5, TimerTyped, HeldStays
  <2>3. QED
    BY <2>1, <2>2 DEF Loader!vars
<1>6. ASSUME NEW g \in Jobs, LoadReads(g) PROVE [Loader!Next]_Loader!vars
  <2>1. /\ locationMap' = locationMap /\ mapFile' = mapFile
        /\ job'[g] = [at |-> "holding", content |-> mapFile]
    BY <1>2, <1>6, ReadTyped
  <2>2. Held = Nothing
    BY <1>6, NobodyHolds DEF LoadReads, Unlocked
  <2>3. Held' = [file |-> Custom, content |-> mapFile]
    BY <1>2, <2>1, HolderWillHave
  <2>4. Loader!Read(Custom)
    BY <2>1, <2>2, <2>3 DEF Loader!Read
  <2>5. QED
    BY <2>4 DEF Loader!Next
<1>7. ASSUME NEW g \in Jobs, LoadStores(g) PROVE [Loader!Next]_Loader!vars
  <2>1. PICK c \in Contents : c = job[g].content
    BY <1>2 DEF MapTypeOK
  <2>2. Held = [file |-> Custom, content |-> c] /\ Held # Nothing
    BY <1>2, <1>7, <2>1, HolderHas, HeldIsSomething DEF LoadStores
  <2>3. Held' = Nothing /\ mapFile' = mapFile
    <3>1. \A h \in Jobs : job'[h].at # "holding"
      BY <1>2, <1>7, StoreTyped DEF LoadStores, OneHolds
    <3>2. QED
      BY <1>2, <1>7, <3>1, NobodyWillHold, StoreTyped
  <2>4. CASE c \in Usable
    <3>1. locationMap' = c
      BY <1>7, <2>1, <2>4 DEF LoadStores
    <3>2. Loader!Use
      BY <2>2, <2>3, <2>4, <3>1 DEF Loader!Use
    <3>3. QED
      BY <3>2 DEF Loader!Next
  <2>5. CASE c \notin Usable
    <3>1. locationMap' = locationMap
      BY <1>7, <2>1, <2>5 DEF LoadStores
    <3>2. Loader!Refuse
      BY <2>2, <2>3, <2>5, <3>1 DEF Loader!Refuse
    <3>3. QED
      BY <3>2 DEF Loader!Next
  <2>6. QED
    BY <2>4, <2>5
<1>8. QED
  BY <1>1, <1>3, <1>4, <1>5, <1>6, <1>7 DEF MapNext, Load

\* The loads of the custom location map are the loads of one loader, for any number
\* of goroutines and saves: the file is read and the map stored under g.Mutex
\* (loadCustomLocationsMap, setup.go).
THEOREM MapAlwaysLoadsLikeOne == MapSpec => MapLoadsLikeOne
<1>1. MapOK /\ MapOK' /\ [MapNext]_mapVars => [Loader!Next]_Loader!vars
  BY MapLoaderStep
<1>2. QED
  BY <1>1, MapLoaderInit, MapAlwaysOK, PTL DEF MapSpec, MapLoadsLikeOne, Loader!Spec
=============================================================================
