-------------------------- MODULE RecordLifecycle --------------------------
(***************************************************************************)
(* The life of the records of a running GSLB plugin: the initial load, the *)
(* staggered start of one scraper goroutine per record, the reloads of the *)
(* zone files, and the end of a scraper whose context is cancelled.        *)
(*                                                                         *)
(* A Record object (record.go:14) is a number; the map g.Records is        *)
(* `records`.  What a zone file says of a record is reduced to its         *)
(* scrape_interval, the one field whose update has an effect on another    *)
(* goroutine (the ticker); the backends of a record are not modelled here. *)
(* The goroutines are: one starter per batch of records                    *)
(* (initializeRecordsFromFiles), one scraper per started object            *)
(* (scrapeBackends), and one reload at a time, g.Mutex being held from the *)
(* reading of the file to the last record (reloadConfig).                  *)
(***************************************************************************)
EXTENDS Integers, FiniteSets, Functions

CONSTANTS
    Zones,      \* the zones of the Corefile
    Names,      \* the fqdns a zone file may hold
    ZoneOf,     \* [Names -> Zones]: the zone whose file may hold the name
    Intervals,  \* the values of scrape_interval
    MaxRecords, \* bound: how many Record objects are ever created
    BatchSize,  \* batch_size_start
    NoRecord,   \* a name that is not in g.Records
    Absent,     \* a name that is not in a zone file
    Idle        \* no reload is running

ASSUME ConstantsAssumption ==
    /\ ZoneOf \in [Names -> Zones]
    /\ MaxRecords \in Nat
    /\ BatchSize \in Nat \ {0}
    /\ NoRecord \notin Nat
    /\ Absent \notin Intervals \cup Names
    /\ Idle \notin Zones

VARIABLES
    loaded,     \* the zones that are keys of g.Records
    records,    \* g.Records: the object each name maps to
    want,       \* what the last zone file read without error says of a name
    name,       \* Record.Fqdn of an object
    interval,   \* Record.ScrapeInterval
    ticker,     \* Record.ticker: "nil", just "reset", or "running" on to its tick
    cancelFunc, \* Record.cancelFunc is not nil
    ctxDone,    \* the context given to the object's scraper is cancelled
    task,       \* where the goroutine that scrapes the object is
    batch,      \* the starter goroutine the object was given to
    gauge,      \* the object gslb_record_health_status{name} was last set from
    reloading,  \* the zone being reloaded, under g.Mutex
    toVisit,    \* the names updateRecords has still to handle
    crashed     \* a goroutine panicked: the process is gone

objectVars == <<name, interval, ticker, cancelFunc, ctxDone, task, batch>>
reloadVars == <<reloading, toVisit, want>>
vars == <<loaded, records, gauge, crashed, objectVars, reloadVars>>

Objects == 1..MaxRecords

\* "free": not created yet.  "queued": waiting for its batch to start.
\* "starting": cancelFunc is set, the scraper is not spawned.  "spawned": the
\* goroutine exists and has not set the ticker.  "select": waiting in the
\* select of scrapeBackends.  "checking": running the tick's health checks.
\* "done": returned.
Tasks == {"free", "queued", "starting", "spawned", "select", "checking", "done"}

Live == Tasks \ {"free", "done"}

Tickers == {"nil", "reset", "running"}

NamesOf(z) == {n \in Names : ZoneOf[n] = z}

Configured(o) == \E n \in Names : records[n] = o

\* updateRecordHealthStatus: the gauge of a name after it was set from o.
Reported(n, o) == [gauge EXCEPT ![n] = o]

----------------------------------------------------------------------------
(***************************************************************************)
(* The state after setup: some zones were loaded; a zone whose file was    *)
(* missing, empty or no YAML is not a key of g.Records, and a file with a  *)
(* bad record leaves the records decoded before it.  Every object is in a  *)
(* batch and no starter has run.  The watchers are started before this     *)
(* load, which takes no g.Mutex: a reload that runs while it loads is not  *)
(* modelled, reloads begin after it.                                       *)
(***************************************************************************)

\* The first k objects carry k different names, in the order batchRecords met
\* them, and are cut into batches of BatchSize.
InitiallyLoaded(k, order) ==
    /\ records = [n \in Names |->
                    IF n \in Range(order) THEN CHOOSE o \in 1..k : order[o] = n
                                          ELSE NoRecord]
    /\ name = [o \in Objects |-> IF o <= k THEN order[o] ELSE Absent]
    /\ task = [o \in Objects |-> IF o <= k THEN "queued" ELSE "free"]

Init ==
    /\ loaded \in SUBSET Zones
    /\ \E k \in 0..MaxRecords :
         \E order \in Injection(1..k, {n \in Names : ZoneOf[n] \in loaded}) :
            InitiallyLoaded(k, order)
    /\ \E conf \in [Names -> Intervals] :
         /\ want = [n \in Names |-> IF records[n] = NoRecord THEN Absent ELSE conf[n]]
         /\ interval = [o \in Objects |->
                          IF name[o] = Absent THEN Absent ELSE conf[name[o]]]
    /\ batch = [o \in Objects |-> (o - 1) \div BatchSize]
    /\ ticker = [o \in Objects |-> "nil"]
    /\ cancelFunc = [o \in Objects |-> FALSE]
    /\ ctxDone = [o \in Objects |-> FALSE]
    /\ gauge = [n \in Names |-> NoRecord]
    /\ reloading = Idle
    /\ toVisit = {}
    /\ crashed = FALSE

----------------------------------------------------------------------------
(***************************************************************************)
(* The starter goroutine of a batch: after its delay it takes the records  *)
(* of the batch one after the other, whether or not a reload has removed   *)
(* them from g.Records in the meantime.                                    *)
(***************************************************************************)

\* recordCtx, cancel := context.WithCancel(ctx); record.cancelFunc = cancel
StartRecord(o) ==
    /\ ~crashed
    /\ task[o] = "queued"
    /\ \A p \in Objects : batch[p] = batch[o] => task[p] # "starting"
    /\ task' = [task EXCEPT ![o] = "starting"]
    /\ cancelFunc' = [cancelFunc EXCEPT ![o] = TRUE]
    /\ UNCHANGED <<loaded, records, gauge, crashed, reloadVars,
                   name, interval, ticker, ctxDone, batch>>

\* Mutant of SpawnScraper: the gauge is written with its label for a value.
SpawnScraperSwapped(o) ==
    /\ ~crashed
    /\ task[o] = "starting"
    /\ task' = [task EXCEPT ![o] = "spawned"]
    /\ gauge' = Reported(name[o], name[o])
    /\ UNCHANGED <<loaded, records, crashed, reloadVars,
                   name, interval, ticker, cancelFunc, ctxDone, batch>>

\* record.updateRecordHealthStatus(); go record.scrapeBackends(recordCtx, g)
SpawnScraper(o) ==
    /\ ~crashed
    /\ task[o] = "starting"
    /\ task' = [task EXCEPT ![o] = "spawned"]
    /\ gauge' = Reported(name[o], o)
    /\ UNCHANGED <<loaded, records, crashed, reloadVars,
                   name, interval, ticker, cancelFunc, ctxDone, batch>>

----------------------------------------------------------------------------
(***************************************************************************)
(* The scraper goroutine of an object.                                     *)
(***************************************************************************)

\* The head of scrapeBackends: the ticker is created here, by the scraper.
ScraperInit(o) ==
    /\ ~crashed
    /\ task[o] = "spawned"
    /\ task' = [task EXCEPT ![o] = "select"]
    /\ ticker' = [ticker EXCEPT ![o] = "running"]
    /\ UNCHANGED <<loaded, records, gauge, crashed, reloadVars,
                   name, interval, cancelFunc, ctxDone, batch>>

\* The period a reset began goes by: the ticker is on its way to a tick again.
\* Until then another reset begins the period anew.
TickerRuns(o) ==
    /\ ~crashed
    /\ ticker[o] = "reset"
    /\ ticker' = [ticker EXCEPT ![o] = "running"]
    /\ UNCHANGED <<loaded, records, gauge, crashed, reloadVars,
                   name, interval, cancelFunc, ctxDone, task, batch>>

\* case <-r.ticker.C: select takes any ready case, so a tick may still be
\* served after the context was cancelled.
TickBegin(o) ==
    /\ ~crashed
    /\ task[o] = "select"
    /\ ticker[o] = "running"
    /\ task' = [task EXCEPT ![o] = "checking"]
    /\ UNCHANGED <<loaded, records, gauge, crashed, reloadVars,
                   name, interval, ticker, cancelFunc, ctxDone, batch>>

\* Mutant of TickEnd: the scraper returns after its first tick.
TickEndOnce(o) ==
    /\ ~crashed
    /\ task[o] = "checking"
    /\ task' = [task EXCEPT ![o] = "done"]
    /\ gauge' = Reported(name[o], o)
    /\ UNCHANGED <<loaded, records, crashed, reloadVars,
                   name, interval, ticker, cancelFunc, ctxDone, batch>>

\* The end of the tick: SetActiveBackends and updateRecordHealthStatus.
TickEnd(o) ==
    /\ ~crashed
    /\ task[o] = "checking"
    /\ task' = [task EXCEPT ![o] = "select"]
    /\ gauge' = Reported(name[o], o)
    /\ UNCHANGED <<loaded, records, crashed, reloadVars,
                   name, interval, ticker, cancelFunc, ctxDone, batch>>

\* case <-ctx.Done(): return
ScraperExit(o) ==
    /\ ~crashed
    /\ task[o] = "select"
    /\ ctxDone[o]
    /\ task' = [task EXCEPT ![o] = "done"]
    /\ UNCHANGED <<loaded, records, gauge, crashed, reloadVars,
                   name, interval, ticker, cancelFunc, ctxDone, batch>>

----------------------------------------------------------------------------
(***************************************************************************)
(* reloadConfig of one zone.                                               *)
(***************************************************************************)

Free == {o \in Objects : task[o] = "free"}

\* Taking g.Mutex and reading the file.  A file that cannot be read or decoded
\* changes nothing (the error return, left out); one that can is compared with
\* g.Records[zone], which for a zone never loaded means nothing is visited.
\* The bound MaxRecords is here: a file that needs more new objects than are
\* left is not written.
ReloadBegin(z) ==
    /\ ~crashed
    /\ reloading = Idle
    /\ \E file \in [NamesOf(z) -> Intervals \cup {Absent}] :
         /\ want' = [n \in Names |-> IF n \in NamesOf(z) THEN file[n] ELSE want[n]]
         /\ Cardinality({n \in NamesOf(z) : file[n] # Absent /\ records[n] = NoRecord})
              <= Cardinality(Free)
    /\ reloading' = z
    /\ toVisit' = IF z \in loaded
                  THEN {n \in NamesOf(z) : want'[n] # Absent \/ records[n] # NoRecord}
                  ELSE {}
    /\ UNCHANGED <<loaded, records, gauge, crashed, objectVars>>

\* for fqdn, newRecord := range newRecords, the record being new: its scraper
\* is spawned at once, under a context nobody cancels and no cancelFunc.
ReloadAdd(n) ==
    /\ ~crashed
    /\ n \in toVisit
    /\ want[n] # Absent
    /\ records[n] = NoRecord
    /\ \E o \in Free :
         /\ \A p \in Free : o <= p
         /\ records' = [records EXCEPT ![n] = o]
         /\ name' = [name EXCEPT ![o] = n]
         /\ interval' = [interval EXCEPT ![o] = want[n]]
         /\ task' = [task EXCEPT ![o] = "spawned"]
         /\ gauge' = Reported(n, o)
    /\ toVisit' = toVisit \ {n}
    /\ UNCHANGED <<loaded, crashed, want, reloading, ticker, cancelFunc, ctxDone, batch>>

\* Mutant of ReloadUpdate: a record whose scraper has not created the ticker is
\* left alone, which avoids the panic and loses the new content.
ReloadUpdateSkips(n) ==
    /\ ~crashed
    /\ n \in toVisit
    /\ want[n] # Absent
    /\ records[n] # NoRecord
    /\ LET o == records[n] IN
         /\ interval' = IF ticker[o] # "nil" THEN [interval EXCEPT ![o] = want[n]] ELSE interval
         /\ gauge' = Reported(n, o)
    /\ toVisit' = toVisit \ {n}
    /\ UNCHANGED <<loaded, records, crashed, want, reloading,
                   name, ticker, cancelFunc, ctxDone, task, batch>>

\* the record being known: updateRecord copies what differs and, for another
\* scrape_interval, resets the ticker; Reset of a nil *time.Ticker panics.
ReloadUpdate(n) ==
    /\ ~crashed
    /\ n \in toVisit
    /\ want[n] # Absent
    /\ records[n] # NoRecord
    /\ LET o == records[n] IN
         /\ interval' = [interval EXCEPT ![o] = want[n]]
         /\ crashed' = (interval[o] # want[n] /\ ticker[o] = "nil")
         /\ ticker' = IF interval[o] # want[n] /\ ~crashed'
                      THEN [ticker EXCEPT ![o] = "reset"] ELSE ticker
         /\ gauge' = IF crashed' THEN gauge ELSE Reported(n, o)
    /\ toVisit' = toVisit \ {n}
    /\ UNCHANGED <<loaded, records, want, reloading,
                   name, cancelFunc, ctxDone, task, batch>>

\* Mutant of ReloadRemove: the scraper is cancelled, the key is not deleted.
ReloadRemoveKeepsKey(n) ==
    /\ ~crashed
    /\ n \in toVisit
    /\ \A m \in toVisit : want[m] = Absent
    /\ ctxDone' = [ctxDone EXCEPT ![records[n]] = cancelFunc[records[n]]]
    /\ toVisit' = toVisit \ {n}
    /\ UNCHANGED <<loaded, records, gauge, crashed, want, reloading,
                   name, interval, ticker, cancelFunc, task, batch>>

\* Mutant of ReloadRemove: the key is deleted, the scraper is not cancelled.
ReloadRemoveKeepsScraper(n) ==
    /\ ~crashed
    /\ n \in toVisit
    /\ \A m \in toVisit : want[m] = Absent
    /\ records' = [records EXCEPT ![n] = NoRecord]
    /\ toVisit' = toVisit \ {n}
    /\ UNCHANGED <<loaded, gauge, crashed, want, reloading, objectVars>>

\* for fqdn := range oldRecords, after all new records were handled.
ReloadRemove(n) ==
    /\ ~crashed
    /\ n \in toVisit
    /\ \A m \in toVisit : want[m] = Absent
    /\ ctxDone' = [ctxDone EXCEPT ![records[n]] = cancelFunc[records[n]]]
    /\ records' = [records EXCEPT ![n] = NoRecord]
    /\ toVisit' = toVisit \ {n}
    /\ UNCHANGED <<loaded, gauge, crashed, want, reloading,
                   name, interval, ticker, cancelFunc, task, batch>>

\* updateMetrics, IncConfigReloads("success"), g.Mutex.Unlock.
ReloadEnd ==
    /\ ~crashed
    /\ reloading # Idle
    /\ toVisit = {}
    /\ reloading' = Idle
    /\ UNCHANGED <<loaded, records, gauge, crashed, want, toVisit, objectVars>>

----------------------------------------------------------------------------
Starter(o) == StartRecord(o) \/ SpawnScraper(o)

Scraper(o) == ScraperInit(o) \/ TickerRuns(o) \/ TickBegin(o) \/ TickEnd(o)

ReloadStep(n) == ReloadAdd(n) \/ ReloadUpdate(n) \/ ReloadRemove(n)

Running ==
    \/ \E o \in Objects : Starter(o) \/ Scraper(o) \/ ScraperExit(o)
    \/ \E z \in Zones : ReloadBegin(z)
    \/ \E n \in Names : ReloadStep(n)
    \/ ReloadEnd

\* A panic of any goroutine ends the process: nothing runs any more.
Down == crashed /\ UNCHANGED vars

Next == Running \/ Down

(***************************************************************************)
(* A starter's sleep ends, a goroutine that can run is run, time passes    *)
(* for a ticker, and a reload that holds g.Mutex waits for nobody.  A tick *)
(* gets weak fairness of its own: it comes if the ticker is left to run,   *)
(* and a ticker reset again and again need never tick.  A scraper whose    *)
(* context is cancelled comes back to its select again and again; select   *)
(* chooses at random among the ready cases, so it does not pass over Done  *)
(* for ever: strong fairness.  Nobody is obliged to edit a file.           *)
(***************************************************************************)
Fairness ==
    /\ \A o \in Objects :
         /\ WF_vars(Starter(o))
         /\ WF_vars(ScraperInit(o))
         /\ WF_vars(TickerRuns(o))
         /\ WF_vars(TickBegin(o))
         /\ WF_vars(TickEnd(o))
         /\ SF_vars(ScraperExit(o))
    /\ WF_vars(\E n \in Names : ReloadStep(n))
    /\ WF_vars(ReloadEnd)

Spec == Init /\ [][Next]_vars

FairSpec == Spec /\ Fairness

----------------------------------------------------------------------------
\* Every variable stays in its type.
TypeOK ==
    /\ loaded \in SUBSET Zones
    /\ records \in [Names -> Objects \cup {NoRecord}]
    /\ want \in [Names -> Intervals \cup {Absent}]
    /\ name \in [Objects -> Names \cup {Absent}]
    /\ interval \in [Objects -> Intervals \cup {Absent}]
    /\ ticker \in [Objects -> Tickers]
    /\ cancelFunc \in [Objects -> BOOLEAN]
    /\ ctxDone \in [Objects -> BOOLEAN]
    /\ task \in [Objects -> Tasks]
    /\ batch \in [Objects -> Nat]
    /\ gauge \in [Names -> Objects \cup {NoRecord}]
    /\ reloading \in Zones \cup {Idle}
    /\ toVisit \in SUBSET Names
    /\ crashed \in BOOLEAN

\* A record in g.Records is the record of that name, and its monitoring is on
\* its way or running: its scraper is queued, starting or alive, and nobody has
\* cancelled its context.  A record served without being checked would answer
\* from a health status frozen at its last value.
ConfiguredIsMonitored ==
    \A n \in Names : records[n] # NoRecord =>
        LET o == records[n] IN
        /\ name[o] = n
        /\ task[o] \in Live
        /\ ~ctxDone[o]

\* Once updateRecords is through, a zone that was loaded holds exactly the
\* records of the last file read, each with the content that file gives it,
\* however the incremental steps of earlier reloads and the starts interleaved.
MapMatchesFile ==
    reloading = Idle =>
        \A n \in Names : ZoneOf[n] \in loaded =>
            /\ want[n] = Absent <=> records[n] = NoRecord
            /\ records[n] # NoRecord => interval[records[n]] = want[n]

\* A record whose scraper can be cancelled (cancelFunc is set) when it is
\* removed has its scraper stopped in the end, wherever the scraper was: not
\* spawned yet, creating its ticker, waiting, or in the middle of a check.
CancellableIsStopped ==
    \A o \in Objects :
        []( (Configured(o) /\ cancelFunc[o]) =>
              [](~Configured(o) => <>(task[o] = "done" \/ crashed)) )

\* A configured record is checked again and again for as long as it stays
\* configured, whether it was loaded at start, in any batch, or by a reload,
\* unless reloads that change its scrape_interval reset its ticker for ever.
ConfiguredIsChecked ==
    \A n \in Names, o \in Objects :
        \/ records[n] = o ~> (task[o] = "checking" \/ records[n] # o \/ crashed)
        \/ []<>(ticker[o] = "reset")

----------------------------------------------------------------------------
\* What the comment at gslb.go:496 and the cancelFunc call below it intend: a
\* record removed from the zone file is no longer health-checked, its scraper
\* is the scraper of a configured record or has been told to stop.
NoOrphanScraper ==
    \A o \in Objects : task[o] \in {"spawned", "select", "checking"} =>
        Configured(o) \/ ctxDone[o]

\* docs/configuration.md:3: configuration updates are applied at runtime,
\* "without restarting CoreDNS": a reload does not take the process down.
ReloadNeverCrashes == ~crashed

\* docs/configuration.md:3 again, for every configured zone: after a reload
\* counted as a success the records are those of the file.
ReloadTakesEffect ==
    reloading = Idle =>
        \A n \in Names : want[n] = Absent <=> records[n] = NoRecord

\* docs/observability.md counts healthy records by summing
\* gslb_record_health_status: between reloads, a series of that gauge reports
\* the state of a record that is configured.
GaugeOfConfigured ==
    reloading = Idle =>
        \A n \in Names : gauge[n] \in {NoRecord, records[n]}
=============================================================================
