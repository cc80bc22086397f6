---------------------------- MODULE BackendList ----------------------------
(***************************************************************************)
(* The slice r.Backends of one record: updateRecord changes it in place    *)
(* (record.go:113-153) while the scraper, the queries and the overview     *)
(* range over it.  updateRecord holds r.mutex and g.Mutex; the overview,   *)
(* roundrobin and random hold one of them for their whole scan ("locked"), *)
(* everybody else none.                                                    *)
(*                                                                         *)
(* A slice is an array and a length.  The steps are the stores and loads   *)
(* of the compiled code that another goroutine can observe: append stores  *)
(* the new array, if there is one, then the length, then the element; the  *)
(* removal of an element copies those behind it, in an order memmove is    *)
(* free to choose, then stores the length; range loads the array and the   *)
(* length, then one element at a time.                                     *)
(***************************************************************************)
EXTENDS Integers, Sequences, FiniteSets, SequencesExt

CONSTANTS
    Addresses,  \* the addresses of backends
    MaxUpdates, \* bound: how often the record is updated
    Nil         \* an element nobody stored

\* The backends of a record in a zone file: an address comes once.
Files == {file \in SeqOf(Addresses, Cardinality(Addresses)) : IsInjective(file)}

ASSUME ConstantsAssumption ==
    /\ IsFiniteSet(Addresses)
    /\ MaxUpdates \in Nat
    /\ Nil \notin [address : Addresses, since : 0..MaxUpdates]

VARIABLES
    arrays, \* the arrays r.Backends had so far; an element is a *Backend or Nil
    list,   \* r.Backends: an array, by its number, and a length
    file,   \* the backends of the newest zone file
    update, \* the progress of updateRecord
    scan,   \* the progress of the goroutine that ranges over r.Backends
    seen    \* history: what the record held since the scan began

vars == <<arrays, list, file, update, scan, seen>>

\* A *Backend: its address and the update that made it.
Objects == [address : Addresses, since : 0..MaxUpdates]

Kinds == {"range", "copy", "locked"}

Stored == arrays[list.array]

NoUpdate(count) ==
    [at |-> "idle", count |-> count, todo |-> <<>>, from |-> <<>>, left |-> {}]

NoScan == [at |-> "idle", kind |-> "range", size |-> 0, array |-> 0, len |-> 0,
           visited |-> <<>>]

\* How many elements of the slice are stored: not the one that is being added.
Filled == IF update.at = "store" THEN list.len - 1 ELSE list.len

\* The backends the record has: until the length is stored, with the one that is
\* being removed.
Members ==
    IF update.at = "shift" THEN Range(update.from) ELSE {Stored[i] : i \in 1..Filled}

Staying == {b \in Members : b.address \in Range(file)}

\* "steady": in the record all along and not to be removed; "ever": in it at some
\* moment; "disturbed": an update was on its way; "shrunk": it was removing a backend.
NothingSeen == [steady |-> {}, ever |-> {}, disturbed |-> FALSE, shrunk |-> FALSE]

\* The history after a step of the update.
Watched ==
    seen' = IF scan.at = "idle" THEN seen
            ELSE [steady |-> seen.steady \cap Staying', ever |-> seen.ever \cup Members',
                  disturbed |-> TRUE,
                  shrunk |-> seen.shrunk \/ update'.at = "shift"]

\* growslice doubles a small array, and makes any other larger by a quarter at least.
Grown(cap) ==
    IF cap = 0 THEN {1} ELSE IF cap < 256 THEN {2 * cap} ELSE (cap + 1)..(2 * cap)

Padded(elements, cap) ==
    [i \in 1..cap |-> IF i \in DOMAIN elements THEN elements[i] ELSE Nil]

\* Where that leads Record.UnmarshalYAML, which appends n backends one by one.
Capacities(n) ==
    IF n = 0 THEN {0}
    ELSE {cap \in n..(2 * n) : n <= 256 => cap < 2 * n /\ \E k \in 0..8 : cap = 2^k}

Init ==
    /\ file \in Files
    /\ \E cap \in Capacities(Len(file)) :
         arrays = << Padded([i \in DOMAIN file |-> [address |-> file[i], since |-> 0]], cap) >>
    /\ list = [array |-> 1, len |-> Len(file)]
    /\ update = NoUpdate(0)
    /\ scan = NoScan
    /\ seen = NothingSeen

----------------------------------------------------------------------------
(***************************************************************************)
(* updateRecord: first the backends of the file, in its order.             *)
(***************************************************************************)

LockedScan == scan.at # "idle" /\ scan.kind = "locked"

UpdateBegin ==
    /\ update.at = "idle"
    /\ update.count < MaxUpdates
    /\ ~LockedScan
    /\ file' \in Files
    /\ update' = [update EXCEPT !.at = "match", !.todo = file', !.count = @ + 1]
    /\ UNCHANGED <<arrays, list, scan>>
    /\ Watched

Known(a) == \E i \in 1..list.len : Stored[i].address = a

\* Mutant of Update: the new object takes the place of the known one.
UpdateReplaces ==
    /\ update.at = "match"
    /\ update.todo # <<>>
    /\ \E i \in 1..list.len :
         /\ Stored[i].address = Head(update.todo)
         /\ arrays' = [arrays EXCEPT ![list.array][i] =
                          [address |-> Head(update.todo), since |-> update.count]]
    /\ update' = [update EXCEPT !.todo = Tail(@)]
    /\ UNCHANGED <<list, file, scan>>
    /\ Watched

\* The backend is known: updateBackend, which leaves the slice alone.
Update ==
    /\ update.at = "match"
    /\ update.todo # <<>>
    /\ Known(Head(update.todo))
    /\ update' = [update EXCEPT !.todo = Tail(@)]
    /\ UNCHANGED <<arrays, list, file, scan>>
    /\ Watched

NewBackend == [address |-> Head(update.todo), since |-> update.count]

Adding ==
    /\ update.at = "match"
    /\ update.todo # <<>>
    /\ ~Known(Head(update.todo))
    /\ UNCHANGED <<file, scan>>

\* append into a full array: a larger one replaces it.
Grow ==
    /\ Adding
    /\ list.len = Len(Stored)
    /\ \E cap \in Grown(Len(Stored)) : arrays' = Append(arrays, Padded(Stored, cap))
    /\ list' = [list EXCEPT !.array = Len(arrays')]
    /\ UNCHANGED update
    /\ Watched

\* Mutant of Lengthen: the capacity is not looked at.
LengthenAlways ==
    /\ Adding
    /\ list' = [list EXCEPT !.len = @ + 1]
    /\ update' = [update EXCEPT !.at = "store"]
    /\ UNCHANGED arrays
    /\ Watched

\* The length is stored before the element.
Lengthen ==
    /\ Adding
    /\ list.len < Len(Stored)
    /\ list' = [list EXCEPT !.len = @ + 1]
    /\ update' = [update EXCEPT !.at = "store"]
    /\ UNCHANGED arrays
    /\ Watched

\* Mutant of Store: the new backend goes to the front.
StoreInFront ==
    /\ update.at = "store"
    /\ arrays' = [arrays EXCEPT ![list.array] =
                     [i \in DOMAIN @ |-> IF i = 1 THEN NewBackend
                                         ELSE IF i <= list.len THEN @[i - 1] ELSE @[i]]]
    /\ update' = [update EXCEPT !.at = "match", !.todo = Tail(@)]
    /\ UNCHANGED <<list, file, scan>>
    /\ Watched

Store ==
    /\ update.at = "store"
    /\ arrays' = [arrays EXCEPT ![list.array][list.len] = NewBackend]
    /\ update' = [update EXCEPT !.at = "match", !.todo = Tail(@)]
    /\ UNCHANGED <<list, file, scan>>
    /\ Watched

----------------------------------------------------------------------------
(***************************************************************************)
(* Then the removals, from the front.                                      *)
(***************************************************************************)

Gone == {i \in 1..list.len : Stored[i].address \notin Range(file)}

\* append(r.Backends[:i], r.Backends[i+1:]...): the elements behind the first one
\* that is not in the file are to move.
BeginRemoval ==
    /\ update.at = "match"
    /\ update.todo = <<>>
    /\ \E first \in Gone :
         /\ \A i \in Gone : first <= i
         /\ update' = [update EXCEPT !.at = "shift", !.from = SubSeq(Stored, 1, list.len),
                                     !.left = first..(list.len - 1)]
    /\ UNCHANGED <<arrays, list, file, scan>>
    /\ Watched

Shift(i) ==
    /\ update.at = "shift"
    /\ i \in update.left
    /\ arrays' = [arrays EXCEPT ![list.array][i] = update.from[i + 1]]
    /\ update' = [update EXCEPT !.left = @ \ {i}]
    /\ UNCHANGED <<list, file, scan>>
    /\ Watched

\* Mutant of Shorten: the loop ends at the first removal.
ShortenEnds ==
    /\ update.at = "shift"
    /\ update.left = {}
    /\ list' = [list EXCEPT !.len = @ - 1]
    /\ update' = NoUpdate(update.count)
    /\ UNCHANGED <<arrays, file, scan>>
    /\ Watched

Shorten ==
    /\ update.at = "shift"
    /\ update.left = {}
    /\ list' = [list EXCEPT !.len = @ - 1]
    /\ update' = [update EXCEPT !.at = "match", !.from = <<>>]
    /\ UNCHANGED <<arrays, file, scan>>
    /\ Watched

UpdateEnd ==
    /\ update.at = "match"
    /\ update.todo = <<>>
    /\ Gone = {}
    /\ update' = [update EXCEPT !.at = "idle"]
    /\ UNCHANGED <<arrays, list, file, scan>>
    /\ Watched

----------------------------------------------------------------------------
(***************************************************************************)
(* A scan.  "range" is the scraper's tick, its health status, the TXT      *)
(* answer, pickAllAddresses and the modes without a lock; "copy" is        *)
(* failover, which takes the length first and then copies the slice.       *)
(***************************************************************************)

\* Mutant of ScanBegin: the overview does not take the lock.
ScanBeginUnlocked(kind) ==
    /\ scan.at = "idle"
    /\ scan' = [NoScan EXCEPT !.at = "array", !.kind = kind, !.size = list.len]
    /\ seen' = [steady |-> Staying, ever |-> Members,
                disturbed |-> FALSE, shrunk |-> update.at = "shift"]
    /\ UNCHANGED <<arrays, list, file, update>>

\* make([]BackendInterface, len(record.Backends)), for a copy.
ScanBegin(kind) ==
    /\ scan.at = "idle"
    /\ kind = "locked" => update.at = "idle"
    /\ scan' = [NoScan EXCEPT !.at = "array", !.kind = kind, !.size = list.len]
    /\ seen' = [steady |-> Staying, ever |-> Members,
                disturbed |-> update.at # "idle", shrunk |-> update.at = "shift"]
    /\ UNCHANGED <<arrays, list, file, update>>

LoadArray ==
    /\ scan.at = "array"
    /\ scan' = [scan EXCEPT !.at = "length", !.array = list.array]
    /\ UNCHANGED <<arrays, list, file, update, seen>>

LoadLength ==
    /\ scan.at = "length"
    /\ scan' = [scan EXCEPT !.at = "visit", !.len = list.len]
    /\ UNCHANGED <<arrays, list, file, update, seen>>

Place == Len(scan.visited) + 1

\* What the scan covers: copy stops at the shorter of the two slices.
Reach == IF scan.kind = "copy" /\ scan.size < scan.len THEN scan.size ELSE scan.len

\* The next element; behind the end of the array or at an element nobody stored
\* there is no backend to call.
Visit ==
    /\ scan.at = "visit"
    /\ Place <= Reach
    /\ scan' = IF Place \in DOMAIN arrays[scan.array] /\ arrays[scan.array][Place] # Nil
               THEN [scan EXCEPT !.visited = Append(@, arrays[scan.array][Place])]
               ELSE [scan EXCEPT !.at = "panicked"]
    /\ UNCHANGED <<arrays, list, file, update, seen>>

\* Of a copy, the elements the slice did not fill stay nil, and the sort calls
\* GetPriority on each.
ScanEnd ==
    /\ scan.at = "visit"
    /\ Place > Reach
    /\ scan' = [scan EXCEPT !.at = IF scan.kind = "copy" /\ scan.size > scan.len
                                   THEN "panicked" ELSE "done"]
    /\ UNCHANGED <<arrays, list, file, update, seen>>

Leave ==
    /\ scan.at \in {"done", "panicked"}
    /\ scan' = NoScan
    /\ seen' = NothingSeen
    /\ UNCHANGED <<arrays, list, file, update>>

----------------------------------------------------------------------------
Updater ==
    \/ UpdateBegin
    \/ Update
    \/ Grow
    \/ Lengthen
    \/ Store
    \/ BeginRemoval
    \/ \E i \in update.left : Shift(i)
    \/ Shorten
    \/ UpdateEnd

Scanner ==
    \/ \E kind \in Kinds : ScanBegin(kind)
    \/ LoadArray
    \/ LoadLength
    \/ Visit
    \/ ScanEnd
    \/ Leave

Next == Updater \/ Scanner

Spec == Init /\ [][Next]_vars

----------------------------------------------------------------------------
\* Every variable stays in its type.
TypeOK ==
    /\ arrays \in Seq(Seq(Objects \cup {Nil}))
    /\ list \in [array : DOMAIN arrays, len : Nat]
    /\ list.len <= Len(Stored)
    /\ file \in Files
    /\ update \in [at : {"idle", "match", "store", "shift"}, count : 0..MaxUpdates,
                   todo : Seq(Addresses), from : Seq(Objects), left : SUBSET (1..list.len)]
    /\ scan \in [at : {"idle", "array", "length", "visit", "done", "panicked"}, kind : Kinds,
                 size : Nat, array : 0..Len(arrays), len : Nat, visited : Seq(Objects)]
    /\ seen \in [steady : SUBSET Objects, ever : SUBSET Objects,
                 disturbed : BOOLEAN, shrunk : BOOLEAN]

\* Between updates the record holds the backends of the newest file, one object
\* for each, though the update loop appends and shifts one by one in an array it
\* shares.
ListMatchesFile ==
    update.at = "idle" =>
        /\ {b.address : b \in Members} = Range(file)
        /\ list.len = Len(file)

\* An update keeps the object of a backend that is in the file, and with it its
\* health, whatever is added or removed around it.
KnownAreKept ==
    [][\A b \in Members : b.address \in Range(file') => b \in Members']_vars

\* A scan during which no backend is being removed calls every backend that is
\* in the record all along, though others are appended, to another array even,
\* between the loads.
NoneMissed ==
    (scan.at = "done" /\ ~seen.shrunk) => seen.steady \subseteq Range(scan.visited)

\* A scan under one of the locks, and one no update met, calls each backend of
\* the record once, and nothing else.
QuietScansAreExact ==
    (scan.at # "idle" /\ (scan.kind = "locked" \/ ~seen.disturbed)) =>
        /\ ~seen.disturbed
        /\ scan.at # "panicked"
        /\ scan.at = "done" => scan.visited = SubSeq(Stored, 1, list.len)

----------------------------------------------------------------------------
\* docs/configuration.md:3: configuration updates are applied at runtime,
\* "without restarting CoreDNS": a scan does not panic.
ScansNeverPanic == scan.at # "panicked"

\* docs/healthchecks.md and docs/modes.md:7 ("Always returns the highest-priority
\* healthy backend"): a scan reaches a backend that is in the record all along.
SteadyIsVisited == scan.at = "done" => seen.steady \subseteq Range(scan.visited)

\* backend.go:173: a removed backend is not used any more: a scan calls backends
\* of the record only.
OnlyMembersVisited == Range(scan.visited) \subseteq seen.ever
=============================================================================
