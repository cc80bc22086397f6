------------------------------ MODULE Requests ------------------------------
(***************************************************************************)
(* One DNS query from ServeDNS to its answer, while reloads add records to *)
(* g.Records and delete some.                                              *)
(*                                                                         *)
(* A query for A or AAAA looks its record up three times (findRecord in    *)
(* handleIPRecord, pickResponse and pickAllAddresses), each time going     *)
(* through the zones in the order a Go map gives them; it takes no lock,   *)
(* and the reload's g.Mutex does not keep it out.  The lookup in the map   *)
(* of one zone is a step; a write to that map has a beginning and an end,  *)
(* because the runtime ends the process when it notices a read in between. *)
(*                                                                         *)
(* Which addresses a mode picks is Selection.tla; here it finds some or    *)
(* none.                                                                   *)
(***************************************************************************)
EXTENDS Integers, FiniteSets

CONSTANTS
    Names,      \* the names queries ask for and files have, as they are written
    Lower,      \* [Names -> Names]: in lower case
    Zones,      \* the zones of the Corefile; they may be nested
    Under,      \* [Zones -> SUBSET Names]: the names that end in the zone's
    DisableTXT, \* disable_txt
    MaxReloads, \* bound: how many reloads there are
    NoRecord    \* a name that is not in a zone's map

\* A *Record: the reload that created it.
Objects == [zone : Zones, name : Names, since : 0..MaxReloads]

ASSUME ConstantsAssumption ==
    /\ Names # {} /\ Zones # {}
    /\ Under \in [Zones -> SUBSET Names]
    /\ Lower \in [Names -> Names]
    /\ \A n \in Names : Lower[Lower[n]] = Lower[n]
    /\ DisableTXT \in BOOLEAN
    /\ MaxReloads \in Nat
    /\ NoRecord \notin Objects

VARIABLES
    records,        \* g.Records
    lastResolution, \* the names that are keys of g.LastResolution
    reload,         \* the progress of updateRecords, under g.Mutex
    query,          \* the progress of a query
    crashed,        \* the runtime ended the process
    steady          \* history: the records of the name, in any case, that were
                    \* there since the query came

vars == <<records, lastResolution, reload, query, crashed, steady>>

Types == {"ip", "TXT", "other"}

Outcomes == {"none", "next", "servfail", "answer"}

NoQuery ==
    [at |-> "idle", name |-> CHOOSE n \in Names : TRUE, type |-> "other", lookup |-> 0,
     unread |-> {}, empty |-> FALSE, outcome |-> "none", observed |-> "none",
     counted |-> "none"]

\* The records of a name, in whatever case the file has it.
RecordsOf(recs, n) ==
    {o \in {recs[z][m] : z \in Zones, m \in Names} \ {NoRecord} : Lower[o.name] = Lower[n]}

Init ==
    /\ \E file \in [Zones -> SUBSET Names] :
         /\ \A z \in Zones : file[z] \subseteq Under[z]
         /\ records = [z \in Zones |-> [n \in Names |->
                          IF n \in file[z] THEN [zone |-> z, name |-> n, since |-> 0]
                                           ELSE NoRecord]]
    /\ lastResolution = {}
    /\ reload = [at |-> "idle", zone |-> CHOOSE z \in Zones : TRUE,
                 add |-> {}, remove |-> {}, count |-> 0]
    /\ query = NoQuery
    /\ crashed = FALSE
    /\ steady = {}

----------------------------------------------------------------------------
(***************************************************************************)
(* The query.                                                              *)
(***************************************************************************)

Finished(q, outcome) == [q EXCEPT !.at = "done", !.outcome = outcome]

\* findRecord begins.
Lookup(q, i) == [q EXCEPT !.at = "lookup", !.lookup = i, !.unread = Zones]

\* isAuthoritative
Authoritative(n) == \E z \in Zones : n \in Under[z]

\* extractClientIP finds an address, in the ECS option or as the remote one, or none.
ClientKnown == BOOLEAN

\* ServeDNS up to its handler: the query is for the name in lower case, whatever
\* the case of the record's key in the file; `client` is what extractClientIP
\* came to.
Receive(n, t, client) ==
    /\ ~crashed
    /\ query.at = "idle"
    /\ LET q == [NoQuery EXCEPT !.name = Lower[n], !.type = t] IN
       query' = IF ~Authoritative(Lower[n]) THEN Finished(q, "next")
                ELSE IF ~client THEN Finished(q, "servfail")
                ELSE IF t = "other" \/ (t = "TXT" /\ DisableTXT) THEN Finished(q, "next")
                ELSE Lookup(q, 1)
    /\ lastResolution' = IF Authoritative(Lower[n]) /\ client
                         THEN lastResolution \cup {Lower[n]} ELSE lastResolution
    /\ steady' = RecordsOf(records, n)
    /\ UNCHANGED <<records, reload, crashed>>

\* What a lookup that found a record leads to.  handleTXTRecord has its answer;
\* handleIPRecord goes on to pickResponse, whose mode finds backends or none;
\* pickAllAddresses finds an address or none.
Found(q) ==
    CASE q.type = "TXT" -> {[q EXCEPT !.at = "write"]}
      [] q.type = "ip" /\ q.lookup = 1 -> {Lookup(q, 2)}
      [] q.type = "ip" /\ q.lookup = 2 ->
           {[q EXCEPT !.at = "write", !.observed = "success"], Lookup(q, 3)}
      [] OTHER ->
           {[q EXCEPT !.at = "write", !.observed = "fail"],
            [Finished(q, "servfail") EXCEPT !.observed = "fail", !.empty = TRUE]}

\* What one that found none leads to.
NotFound(q) ==
    CASE q.lookup = 1 -> Finished(q, "next")
      [] q.lookup = 2 -> Lookup(q, 3)
      [] OTHER -> [Finished(q, "servfail") EXCEPT !.observed = "fail"]

\* Mutant of LookupZone: the loop is left after the first zone.
LookupZoneOnce(z) ==
    /\ ~crashed
    /\ query.at = "lookup"
    /\ z \in query.unread
    /\ crashed' \in (IF reload.at = "writing" /\ reload.zone = z THEN BOOLEAN ELSE {FALSE})
    /\ query' \in (IF records[z][query.name] # NoRecord
                   THEN Found(query) ELSE {[query EXCEPT !.unread = {}]})
    /\ UNCHANGED <<records, lastResolution, reload, steady>>

\* recs[domain]: mapaccess ends the process when it sees the map being written.
LookupZone(z) ==
    /\ ~crashed
    /\ query.at = "lookup"
    /\ z \in query.unread
    /\ crashed' \in (IF reload.at = "writing" /\ reload.zone = z THEN BOOLEAN ELSE {FALSE})
    /\ query' \in (IF records[z][query.name] # NoRecord
                   THEN Found(query) ELSE {[query EXCEPT !.unread = @ \ {z}]})
    /\ UNCHANGED <<records, lastResolution, reload, steady>>

\* return nil, ""
LookupFails ==
    /\ ~crashed
    /\ query.at = "lookup"
    /\ query.unread = {}
    /\ query' = NotFound(query)
    /\ UNCHANGED <<records, lastResolution, reload, crashed, steady>>

\* w.WriteMsg; the answer to a TXT query is not counted.
Write ==
    /\ ~crashed
    /\ query.at = "write"
    /\ \E ok \in BOOLEAN :
         query' = [Finished(query, IF ok THEN "answer" ELSE "servfail") EXCEPT
                     !.counted = IF query.type = "TXT" THEN "none"
                                 ELSE IF ok THEN "success" ELSE "fail"]
    /\ UNCHANGED <<records, lastResolution, reload, crashed, steady>>

Leave ==
    /\ ~crashed
    /\ query.at = "done"
    /\ query' = NoQuery
    /\ steady' = {}
    /\ UNCHANGED <<records, lastResolution, reload, crashed>>

----------------------------------------------------------------------------
(***************************************************************************)
(* The reload of a zone.  An update of a known record leaves the map alone *)
(* and is left out.                                                        *)
(***************************************************************************)

\* Mutant of ReloadBegin: the names of the file are not compared with the zone's.
ReloadBeginAnyName(z) ==
    /\ ~crashed
    /\ reload.at = "idle"
    /\ reload.count < MaxReloads
    /\ \E file \in SUBSET Names :
         LET old == {n \in Names : records[z][n] # NoRecord} IN
         reload' = [at |-> "running", zone |-> z, add |-> file \ old, remove |-> old \ file,
                    count |-> reload.count + 1]
    /\ UNCHANGED <<records, lastResolution, query, crashed, steady>>

\* loadConfigFile refuses a file with a name outside the zone.
ReloadBegin(z) ==
    /\ ~crashed
    /\ reload.at = "idle"
    /\ reload.count < MaxReloads
    /\ \E file \in SUBSET Under[z] :
         LET old == {n \in Names : records[z][n] # NoRecord} IN
         reload' = [at |-> "running", zone |-> z, add |-> file \ old, remove |-> old \ file,
                    count |-> reload.count + 1]
    /\ UNCHANGED <<records, lastResolution, query, crashed, steady>>

\* The map of the zone being reloaded gets another value for a name.
Writes(n, o) ==
    /\ ~crashed
    /\ reload.at = "running"
    /\ records' = [records EXCEPT ![reload.zone][n] = o]
    /\ reload' = [reload EXCEPT !.at = "writing", !.add = @ \ {n}, !.remove = @ \ {n}]
    /\ steady' = IF query.at \in {"idle", "done"} THEN steady
                 ELSE steady \cap RecordsOf(records', query.name)
    /\ UNCHANGED <<lastResolution, query, crashed>>

\* g.Records[zone][fqdn] = newRecord
Add(n) ==
    /\ n \in reload.add
    /\ Writes(n, [zone |-> reload.zone, name |-> n, since |-> reload.count])

\* delete(g.Records[zone], fqdn), after all additions.
Delete(n) ==
    /\ reload.add = {}
    /\ n \in reload.remove
    /\ Writes(n, NoRecord)

WriteEnds ==
    /\ ~crashed
    /\ reload.at = "writing"
    /\ reload' = [reload EXCEPT !.at = "running"]
    /\ UNCHANGED <<records, lastResolution, query, crashed, steady>>

ReloadEnd ==
    /\ ~crashed
    /\ reload.at = "running"
    /\ reload.add \cup reload.remove = {}
    /\ reload' = [reload EXCEPT !.at = "idle"]
    /\ UNCHANGED <<records, lastResolution, query, crashed, steady>>

----------------------------------------------------------------------------
Query ==
    \/ \E n \in Names, t \in Types, client \in ClientKnown : Receive(n, t, client)
    \/ \E z \in Zones : LookupZone(z)
    \/ LookupFails
    \/ Write
    \/ Leave

Reload ==
    \/ \E z \in Zones : ReloadBegin(z)
    \/ \E n \in Names : Add(n) \/ Delete(n)
    \/ WriteEnds
    \/ ReloadEnd

Down == crashed /\ UNCHANGED vars

Next == Query \/ Reload \/ Down

Spec == Init /\ [][Next]_vars

----------------------------------------------------------------------------
ReloadStates ==
    [at : {"idle", "running", "writing"}, zone : Zones, add : SUBSET Names,
     remove : SUBSET Names, count : 0..MaxReloads]

Results == {"none", "success", "fail"}

QueryStates ==
    [at : {"idle", "lookup", "write", "done"}, name : Names, type : Types, lookup : 0..3,
     unread : SUBSET Zones, empty : BOOLEAN, outcome : Outcomes, observed : Results,
     counted : Results]

\* Every variable stays in its type; a record is under its name, in its zone.
TypeOK ==
    /\ records \in [Zones -> [Names -> Objects \cup {NoRecord}]]
    /\ \A z \in Zones, n \in Names : records[z][n] # NoRecord =>
         n \in Under[z] /\ records[z][n].zone = z /\ records[z][n].name = n
    /\ lastResolution \in SUBSET Names
    /\ reload \in ReloadStates
    /\ query \in QueryStates
    /\ crashed \in BOOLEAN
    /\ steady \in SUBSET Objects

\* A query that came as far as a lookup and is over.
Resolved == query.at = "done" /\ query.lookup > 0

\* A name with a record that stays, and has its key in lower case, is never left
\* to the next plugin, whatever the reloads add and delete between the three
\* lookups, in its zone and in those around it; SERVFAIL means that the record
\* has no address for the query or that the answer could not be sent.
KnownIsAnswered ==
    (Resolved /\ \E o \in steady : o.name = Lower[o.name]) =>
        \/ query.outcome = "answer"
        \/ query.outcome = "servfail" /\ (query.empty \/ query.counted = "fail"
                                          \/ query.type = "TXT")

----------------------------------------------------------------------------
\* docs/configuration.md:3: configuration updates are applied at runtime,
\* "without restarting CoreDNS": a query that meets a reload does not end the
\* process.
QueriesNeverCrash == ~crashed

\* A query finds a record in whatever case the file has its key: a record that
\* stays is not left to the next plugin.
AnyCaseIsKnown == (Resolved /\ steady # {}) => query.outcome # "next"

\* docs/observability.md:23: gslb_record_resolution_total is the "Total number of
\* GSLB record resolutions": one that was timed was counted.
EveryResolutionIsCounted ==
    (Resolved /\ query.observed # "none") => query.counted # "none"
=============================================================================
