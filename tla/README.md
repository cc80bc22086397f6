# CoreDNS-GSLB in TLA+

CoreDNS-GSLB is a CoreDNS plugin, one Go process, that answers A, AAAA and TXT
queries for records whose backends it health-checks. This directory models its
core logic, checks the models with TLC and proves the central invariants with
TLAPS. Paths below are relative to the repository (`src/` here).

## 1. Inventory

| component | state | operations | interacts with |
|---|---|---|---|
| record lifecycle (`gslb.go`, `record.go`) | `g.Records`, each `Record` with its ticker and `cancelFunc` | `initializeRecordsFromFiles`, `scrapeBackends`, `updateRecords`, `updateRecord` | one goroutine per record, one per starting batch; reloads call it under `g.Mutex` |
| backend health checks (`backend.go`) | `Alive`, `ResponseTime`, `Enable`, `HealthChecks` of a backend | `runHealthChecks`, `updateBackend`, `removeBackend` | runs are started by the scraper and by the reload that adds a backend; two goroutines per check |
| selection (`gslb_mode.go`, `gslb.go`) | `RoundRobinIndex` (the rest is read only) | `pickResponse`, `pickBackendWith*`, `pickAllAddresses` | reads backends while health checks and reloads change them |
| configuration pipeline (`setup.go`, `api.go`) | the files, a timer per watcher, `GlobalHealthcheckProfiles` | `startConfigWatcher`, `reloadConfig`, `watchHealthcheckProfiles`, `reloadHealthcheckProfilesAndZones`, `bulkSetBackendEnable` | API requests write files, watchers see them, timers start reload goroutines, which wait for `g.Mutex` |
| location map (`setup.go`, `gslb.go`) | the file, a timer, `g.LocationMap` | `watchCustomLocationMap`, `loadCustomLocationsMap` | read by the geoip mode; loads take `g.Mutex` |
| adaptive interval (`record.go`) | `g.LastResolution`, the ticker and the local `scrapeInterval` | the tick, `updateLastResolutionTime`, the reset in `updateRecord` | queries, ticks and reloads |
| backend list (`record.go`) | the slice `r.Backends` | the loops of `updateRecord` | ticks, queries and the overview range over it |
| request handling (`gslb.go`, `clientinfo.go`) | none of its own | `ServeDNS`, `extractClientIP`, `findRecord`, `sendAddressRecordResponse` | reads `g.Records` with no lock |
| probes (`healthcheck_*.go`) | none shared; counters in `metrics.go` | `PerformCheck` | called by the check goroutines |
| Corefile, YAML, metrics, API overview, `cli` | - | - | conversions and I/O |

What is hard here:

* **Concurrency without a common lock.** Queries, ticks and check goroutines read
  what a reload writes. `g.Mutex` orders reloads, and the roundrobin and random
  modes, only; the lock of a backend covers one field access.
* **Goroutines nobody waits for**: delayed starters, watchers, timers whose
  function has begun, probes that outlive their timeout, runs started by a reload.
* **Incremental updates**: a reload turns the records into those of the file step
  by step instead of replacing them.
* **Setup**: the watchers are started before the records are loaded, and may be in
  place only after a change.
* **Files as the channel between writers and the plugin**: truncation, partial
  content, merged events, failing reloads, writers that undo each other.
* **Data structures shared without a lock**: a slice that is compacted in place under
  the scans, maps that are read while they are written, a ticker reset from outside.
* **Time**: ticks that are late, dropped or reset, deadlines shared by retries.
* **Boundaries**: the index over lists of changing length, the ball between two
  weights, the priority used as a mark, retries below zero, modes and names nobody
  validated.

`PROJECT.json` lists the hazards one by one, at their lines, with the properties
that cover them.

## 2. Modules

| module | what it models | proofs | instance for TLC |
|---|---|---|---|
| `RecordLifecycle` | records, their scrapers, starters, reloads | `RecordLifecycle_proofs` | `MCRecordLifecycle` |
| `BackendCheck` | the runs of one backend's checks and its updates | `BackendCheck_proofs` | `MCBackendCheck` |
| `RoundRobin` | the index of one domain | `SharedState_proofs` | `MCRoundRobin` |
| `Selection` | the answer to one query, every mode | `Selection_proofs` | `MCSelection` |
| `ConfigPipeline` | files, writers, watchers, timers, reloads | `ConfigPipeline_proofs` | `MCConfigPipeline` |
| `LocationMap` | the location map's file, watcher and loads | `SharedState_proofs` | `MCLocationMap` |
| `FileLoader` | abstract: one loader of watched files | (refinements in `ConfigPipeline_proofs`, `SharedState_proofs`) | through the two above |
| `BackendList` | the slice of a record's backends, updates and scans | `SharedState_proofs` | `MCBackendList` |
| `Requests` | a query from `ServeDNS` to its answer, during reloads | `Requests_proofs` | `MCRequests` |
| `ScrapeInterval` | the ticker of a record, in time | `ScrapeInterval_proofs` | `MCScrapeInterval` |
| `Probe` | `PerformCheck` of all types, in time | `Probe_proofs` | `MCProbe` |

The modules divide the system at its interfaces. `ConfigPipeline` ends where a
reload replaces the content of a zone; `RecordLifecycle` is that replacement.
`RecordLifecycle` has a tick as one busy interval; `BackendCheck` is what happens in
it for one backend. `BackendCheck` ends with the publishing of `Alive`, which
`Selection` takes as an event of its environment; a probe is its outcome and its
duration there, and `Probe` is what happens in one. `Selection` leaves open which of its candidates
roundrobin takes (`RoundRobin`), keeps the list of backends fixed (`BackendList` is about
its changes) and begins where `Requests` has found the record. When a tick comes is
`ScrapeInterval`. `FileLoader` is the abstract specification that `ConfigPipeline`
and `LocationMap` implement.

`RoundRobin`, `BackendList` and `LocationMap` are independent of each other; their
proofs share a module, as the three are small pieces of state that queries read
while others write, and the lemmas about sequences serve two of them. So that one
module can extend all three, names that would clash carry a prefix:
`RobinSpec`, `RobinTypeOK`, `MapSpec`, `MapTypeOK` and so on, without one in
`BackendList`.

Definitions named `...Swapped`, `...Sticky` and so on, marked "Mutant of" in their
comment, are faulty variants of the definition that follows. No specification
uses them; they exist to show that each property notices a bug of that kind.

### RecordLifecycle

An object number stands for a `*Record`; `records` is `g.Records`, `task[o]` the
program counter of the goroutine that scrapes object `o`. Correspondence:

* `StartRecord`, `SpawnScraper`: the two halves of the starter goroutine's loop
  (`gslb.go:526-534`). It does not look at `g.Records` again.
* `ScraperInit`, `TickBegin`, `TickEnd`, `ScraperExit`: the head of
  `scrapeBackends`, a tick, and `ctx.Done`. The ticker is assigned by the scraper
  itself, which is why a reload can find it nil.
* `TickerRuns`: the period after a reset goes by. `ReloadUpdate` resets the ticker when
  the interval changed (`ticker` is "reset"), and no tick is served until it runs
  again, so that reloads may put a tick off as often as they like.
* `ReloadBegin`, `ReloadAdd`, `ReloadUpdate`, `ReloadRemove`, `ReloadEnd`:
  `reloadConfig` and `updateRecords`, one step per record, new and known ones
  first and in any order (a Go map), then the removals.
* `crashed` is set by the `Reset` of a nil ticker; afterwards nothing happens.
* `Reported` is `updateRecordHealthStatus`, reduced to which object the gauge of
  the name was last set from.

Of a record's content the model keeps `scrape_interval`, the one field whose
change touches another goroutine. A reload whose file does not load returns
before it changed anything and is left out. `Init` is the state after the initial
load. That load takes no `g.Mutex` although the watchers have been started already
(`setup.go:70`, `:213`): a reload that runs while it loads is not modelled.

### BackendCheck

`phase[r]` is the program counter of a run, `slot[r][i]` the check goroutine, the
channel and the result of its i-th check. The unlocked reads of `b.HealthChecks`
at `backend.go:256` and `:267` are the steps `BeginRun` and `Launch`; the
loop between them, over the types of the checks (`:262`), is read in the same way,
only logs, and could panic where `Launch` does: it is no step of its own. The locked
assignment at `:246` has a beginning and an end (`UpdateBackend`, `UpdateEnd`),
and a read in between may see the old or new array with the old or new length,
the outcomes a torn slice header allows. `Timeout` may be chosen although the
answer lies in the channel, as `select` may. `late` are probes nobody waits for.

### RoundRobin

`pickBackendWithRoundRobin` holds `g.Mutex` from end to end, so a query is one
step on the list its scan collects (`healthy`), which changes in any way in
between. The answers of the current round are kept as history.

### Selection

One query at a time: a pass visits the backends one by one, each visit a step;
`Publish` (the end of a run of checks) and `UpdateBackend` (a reload) come between
visits. `After` and `FirstPass` are the fallbacks: geoip tries country, city, ASN
and the location map, then failover; nearest ends in failover; after every mode
comes `pickAllAddresses`, and at once for a mode the code does not know
("unsupported"; `record.go:46` takes any text, and `pickResponse` returns an error).
A visit reads the fields of its backend in one step, although the code reads some of
them one after the other. `sort.Slice` is one step that may leave equal priorities
in any order, and any order at all if a priority changed under it ("disturbed").
roundrobin and random keep reloads out by holding `g.Mutex`, health checks they
do not. `seen` records what was healthy all along, or at some moment, since the
query arrived: the properties speak of it, since "the state" a query should have
seen does not exist in a scan without a lock.

The backends' addresses are fixed for the query, of the family `Family` gives
them. A backend's country, city, ASN, location and coordinates are its `label` and
its `distance`, which `UpdateBackend` changes with the other fields. What the GeoIP
databases and the location map say of a client is an input (`Clients`), external to
the code; `distance` stands for the haversine distance, as a value.

### ConfigPipeline

A zone file is "full", "empty" (truncated) or "garbled" (no YAML); its `version`
counts writes, its `enable` is what API requests change and says which backends the
content holds. `ApiStart`, `ApiRead`, `Truncate`, `WritePart`, `WriteAll`, `ApiFails`,
`ApiSucceeds` follow a request through the zones; the operator's `Save` uses the same
`Truncate`, `WritePart` and `WriteAll`. A part of a content may be no YAML or a YAML
file with fewer backends, and two writers that fill a file together leave a mixture
of both or no YAML (`Written`). `WatchEvent` and `TimerFires` are the watcher and its
500 ms timer, with time abstracted to order; `job` are the reload goroutines, waiting
for or holding `g.Mutex`. A watcher is started in a goroutine of its own and may be
in place late (`WatchStarts`, `ProfilesWatchStarts`); events before that are lost.

`Profiles*` are the watcher and the reload of the global healthcheck profiles. The
profiles' file is replaced in one step, by new profiles, by an empty file, which
names none, or by nothing that can be read (`Unreadable`): that reload ends before the
assignment and before the zones. A zone that needs a profile nobody defines fails to
load. Two reloads of the profiles may overlap between the reading (`ProfilesRead`)
and the assignment (`ProfilesStore`), which takes no lock.

### FileLoader and LocationMap

`FileLoader` says what the plugin promises of a watched file, without timers,
goroutines and locks: one loader reads one file at a time and, before it reads
again, has used what it read or refused it. `ConfigPipeline` implements it with
the files as they are, the content that the holder of `g.Mutex` has read as
`reading`, and `applied` as what is used; a zone that needs profiles is a file that
may be refused for another file's sake (`Dependent`). `LocationMap` implements it
for the file of `geoip_custom`, where an empty file is a legal map.

In `LocationMap` an operator truncates and fills the file, renames a new one over
it, or takes it away (a removal is not in the watcher's mask); `WatchEvent`,
`TimerFires`, `LoadReads` and `LoadStores` are the watcher, its timer and
`loadCustomLocationsMap` under `g.Mutex`.

### BackendList

A slice is an array and a length; `arrays` are all arrays `r.Backends` had, since a scan
may still go through an old one. A step is a store or a load another goroutine can
observe: append stores the new array (`Grow`), the length (`Lengthen`) and the
element (`Store`); a removal copies the elements behind it one by one, in any order
(`Shift`), and stores the length (`Shorten`). A scan loads the array, the length and
then the elements (`Visit`); failover first takes a length of its own for its copy.
The first array is the one `UnmarshalYAML` leaves, which appends the backends one by
one: its capacity is a power of two up to 256 elements and not fixed above
(`Capacities`, after the runtime's `growslice`). Scans under a lock (overview,
roundrobin, random) keep `updateRecord` out. The
backends of a file have different addresses.

### Requests

`Receive` is `ServeDNS` down to its dispatch, `LookupZone` one round of the loop of
`findRecord`, `Found` and `NotFound` what its callers make of the result: the second
lookup is the one of `pickResponse`, the third that of `pickAllAddresses`. A write to
the map of a zone has a beginning and an end, since the Go runtime ends the process
when it notices a read in between (`crashed`). `isAuthoritative` and the zones' nesting are the
constant `Under`; what a mode picks is left open. `Lower` is `strings.ToLower`: the
query's name is put in lower case (`gslb.go:185`), the keys of the records stay as the
file has them, so that a record whose key has capitals is looked for in vain.

### ScrapeInterval

Time passes in units (`Elapse`), but not while something can be done without it. A tick
is `TickBegin` (the look at `LastResolution` and at the record's interval), `Adjust`
(the comparison with the local variable and the reset) and `TickEnd`, after checks
that take up to `MaxCheck`. `time.Ticker` keeps one tick and drops the others;
`Reset` drops the one that waits. `Reload` may come between any two of these steps.

### Probe

A type of probe is a row of the table `Stages`: what an attempt waits for, whether
it can be refused there, with which reason a failure is counted, and what bounds the
wait ("deadline", nothing, or no wait at all). `StageFails` is the end of an attempt
(the next one, or the last), `FallOut` the code behind the loop, `Return` the deferred
counters. HTTP's attempts share one context, the others have a timeout each, gRPC
and Lua make one attempt. An HTTP check that expects something of the body is a type
of its own ("httpBody") with one stage more. The service changes at any time of a probe.

## 3. Runs

Passing runs and what they show:

| run | properties | bounds, states |
|---|---|---|
| `lifecycle_safety` | `ConfiguredIsMonitored`, `MapMatchesFile` | 2 zones, 3 names, 3 objects, batches of 2, 2 intervals; 5.8 M |
| `lifecycle_liveness` | `CancellableIsStopped`, `ConfiguredIsChecked` | 1 zone, 2 names, 2 objects, 2 intervals; 52 k |
| `check` | `AliveIsEarned`, `RunEnds`, `ChangesAreDetected` | lists of at most one check, both runs, every condition of the service; 60 k |
| `roundrobin` | `RoundsAreFair` | 4 A and 3 AAAA backends, any part of them healthy; 4.8 k |
| `selection` | `NeverServedDown`, `SteadyIsEnough`, `LevelsInOrder`, `NoBetterSteady`, `NoneForgotten`, `WheelIsProportional` | 2 A backends and an AAAA one, the 7 modes and one that is none, the values a mode reads, 2 changes; 2.3 M |
| `pipeline` | `LoadsLikeOne`, `Converges`, `LoneRequestTakesEffect` | 1 zone, any 2 edits out of a request, 2 saves and 2 replacements of the profiles, 2 reload goroutines of the zone and 2 of the profiles; 193 k |
| `locations` | `MapLoadsLikeOne`, `MapFollows` | 3 edits, 3 loads at a time; 6.5 k |
| `backends` | `ListMatchesFile`, `NoneMissed`, `QuietScansAreExact`, `KnownAreKept` | 3 addresses (symmetric), 3 updates, every kind of scan; 4.6 M |
| `requests` | `KnownIsAnswered` | 2 nested zones, 4 names, one of them in capitals, 3 reloads, every type of query; 2.0 M |
| `interval` | `GapBounded`, `ActiveBecomesFast` | intervals 1, 2, 3, multiplier 2, idle after 3, checks of up to 4; 11 k |
| `probe` | `VerdictIsEarned`, `CountedOnce`, `EndsInTime` | 7 types, retries from -1 to 2, timeout 2; 13 k |

What some of these properties do not say:

* `ConfiguredIsChecked` excepts a record whose ticker is reset for ever, as reloads
  that keep changing its interval do (`interval_starved` below). `ChangesAreDetected`
  of `BackendCheck` assumes in the same way that ticks keep coming.
* `SteadyIsEnough` is about the supported modes. With another the answer is always
  that of `pickAllAddresses`.
* `Converges` is two statements. The records of a zone follow its file and the
  profiles in the global variable, whatever overlaps (`ZoneFollows`). That variable
  follows the profiles' file if no two reloads of it overlap between reading and
  assigning (`ProfilesFollow`); if they do, the older profiles may stay for good
  (`ProfilesConverge` below). Both ask for a watcher in place from the start.
* `CountedOnce` is about the types that count failures (all but Lua) and those that
  count verdicts (all but gRPC), and about probes that return. The documented totals
  are `EveryFailureIsCounted` and `EveryProbeIsCounted`, the panic of an HTTP check is
  `ProbesNeverPanic`: all three are refuted below.

Each module's type invariant is checked by one of its runs. Why the bounds are
enough: three objects for two or three names let a name be removed and added
back while its first scraper lives, and put two records in one batch and one in
the next. Two lists of lengths one and two are what a torn read needs; two runs
are all there are at a time besides those of further additions of the same
address. Three backends and two changes allow one that flaps before and after
its visit while another is better, and one that stays. Two reload
goroutines of a zone and two of the profiles cross in every order; a third would only
wait. Any two edits of the files is what it takes to interrupt a write, to undo one
and to have two reloads of the profiles overlap. That run has one zone: a request
that goes through two of them, and may fail at the second, is in
`pipeline_zones.cfg`, kept to be run by hand, which has no error either (225 k states). Three
addresses and three updates let the array grow, shrink and be left behind while a
scan is in the old one. Two nested zones let a name move from one to the other
between two lookups. The slow form of interval 1 is interval 2, so that
`scrapeBackends` can mistake one for the other, and checks of 4 units outlast
every normal interval. Retries up to 2 have a first, a middle and a last attempt. The
bounds are constants that end in a guard: `MaxRecords` (objects created),
`MaxChanges` (changes during a query), `MaxSaves`, `MaxProfileSaves` and `MaxEdits`
(what operator and requests do, each and together), `MaxJobs`,
`MaxUpdates`, `MaxReloads`, and `Horizon`, where the clocks of a history stop.

Deadlock is checked except in the runs of the pipeline and of the location map, where
everybody may have stopped writing, and in `check_crash` and `check_removed`, where the services
never change and a removed backend without a run is at rest.

Fairness. In `RecordLifecycle` a goroutine that can run does run, a ticker that is
left to run fires (a reset one need not, if it is reset again each time),
and `ScraperExit` is strongly fair: the scraper comes back to its `select` again
and again and Go's `select` picks at random among ready cases. In `BackendCheck`
each check gets its answer or its timeout (`context.WithTimeout` fires), but
nothing obliges a slow probe to answer. In `ConfigPipeline` timers fire and
`sync.RWMutex`, which is held for a bounded time by finitely many goroutines, is
handed on; nobody has to write a file. `LocationMap` is the same. The other modules
have safety properties only; where they speak of time ("within the slow interval",
"after the timeouts"), a bound on a clock takes the place of fairness. No fairness is
assumed of the operator, of the probed services or of requests.

### Violations

One run of the list checks what a comment says and finds it violated by the code;
`PROJECT.json`, "findings", quotes both sides.

| run | property | what happens |
|---|---|---|
| `lifecycle_orphan` | `NoOrphanScraper` | the scraper of a removed record is never stopped (`gslb.go:489`, `:499`) |

More configurations of the same kind are kept beside it, to be run by hand
(`tlc -config <name>.cfg <MC module>`); TLC refutes the property of each.

| configuration | property | says so | what happens |
|---|---|---|---|
| `lifecycle_crash` | `ReloadNeverCrashes` | `docs/configuration.md:3` | a reload changes `scrape_interval` before the scraper made its ticker: panic (`record.go:100`) |
| `lifecycle_newzone` | `ReloadTakesEffect` | `docs/configuration.md:3` | a zone that failed at start is never loaded (`gslb.go:477`), reloads report success |
| `interval_resume` | `QueryRestores` | `docs/healthchecks.md:69` | a query does not restore the interval: the next slow tick does (`record.go:200`) |
| `interval_starved` | `CheckedInTime` | `docs/healthchecks.md:66` | reloads that keep changing `scrape_interval` put the tick off for ever (`record.go:100`) |
| `backends_panic` | `ScansNeverPanic` | `docs/configuration.md:3` | a scan meets an append or a removal and calls a nil backend (`record.go:130`, `gslb_mode.go:16`) |
| `check_crash` | `UpdateNeverCrashes` | `docs/configuration.md:3` | the list of checks grows between two reads of it: panic (`backend.go:267`) |
| `check_removed` | `RemovedIsQuiet` | `backend.go:173` | checks of a removed backend are launched (`record.go:219`) |
| `probe_query` | `QueryTimeoutIsKept` | `docs/healthchecks.md:141` | a silent MySQL server holds the probe past its timeout (`healthcheck_mysql.go:71`) |
| `probe_failures` | `EveryFailureIsCounted` | `docs/observability.md:22` | a failed Lua probe is not counted among the failures (`healthcheck_lua.go:73`) |
| `probe_panic` | `ProbesNeverPanic` | `docs/configuration.md:3` | `scrape_retries: -1` with an HTTP check: panic (`healthcheck_http.go:187`) |
| `roundrobin_dualstack` | `DifferentEachQuery` | `docs/modes.md:21` | A and AAAA queries share the index and get the same backends again (`gslb_mode.go:76`) |
| `selection_priority` | `OnePriority` | `gslb_mode.go:14` | after priority -1 failover takes another priority too (`gslb_mode.go:29`) |
| `selection_wheel` | `WheelStops` | `gslb_mode.go:148` | a weight lowered under the wheel makes the selection fail (`gslb_mode.go:142`) |
| `requests_crash` | `QueriesNeverCrash` | `docs/configuration.md:3` | a lookup meets a write to the map of its zone: the runtime ends the process (`gslb.go:651`) |
| `pipeline_requests` | `SuccessIsWritten` | `docs/api.md:111` | of two API requests, both reported as successes, one is undone (`api.go:294`) |

More statements are refuted when they take the place of the properties of a
configuration:

| configuration | property | says so | what happens |
|---|---|---|---|
| `lifecycle_newzone` | `GaugeOfConfigured` | `docs/observability.md:62` | a removed record stays in `sum(gslb_record_health_status)` (`gslb.go:502`) |
| `pipeline` | `EveryChangeIsLoaded` | `docs/configuration.md:3` | a save before the watcher is in place is never loaded (`setup.go:70`) |
| `pipeline` | `ProfilesConverge` | `setup.go:459` | of two overlapping reloads of the profiles the older one stays (`setup.go:460`), or a replacement before the watcher is in place is never loaded (`setup.go:213`) |
| `requests` | `AnyCaseIsKnown` | - | a record whose key has capitals is left to the next plugin (`gslb.go:185`) |
| `probe_failures` | `EveryProbeIsCounted` | `docs/observability.md:20` | gRPC probes are not counted (`healthcheck_grpc.go:57`) |
| `backends_panic` | `SteadyIsVisited` | `docs/modes.md:7` | a scan that meets a removal passes over a backend that stays |
| `backends_panic`, `MaxUpdates = 2` | `OnlyMembersVisited` | `backend.go:173` | a scan visits a backend that is gone |
| `requests_crash` | `EveryResolutionIsCounted` | `docs/observability.md:23` | a resolution that ends in SERVFAIL is timed and not counted |
| `interval_resume` | `IdleIsSlow` | `docs/healthchecks.md:68` | the reset of a reload puts an idle record back to its normal interval (`record.go:201`) |

## 4. Proofs

TLAPS checks, for every value of the constants that satisfies the module's
assumption (`ConstantsAssumption`; `ListsAssumption` in `RoundRobin`,
`MapAssumption` in `LocationMap`):

* `RecordLifecycle_proofs`: `TypeCorrect`, `ConfiguredAlwaysMonitored`,
  `ReloadedMapMatchesFile`. Neither invariant is inductive. `ObjectsInv` adds that
  an object nobody created has a fresh context, so that a record added by a reload
  is not cancelled from the start, and that each name is found in a loaded zone;
  `ReloadInv` says what holds in the middle of a reload: what is left to visit
  belongs to the zone being reloaded, and a name that is not in `toVisit` any more
  already agrees with the file. That no two names share an object, so that a
  removal hits nobody else's scraper, follows (`DistinctObjects`).
* `BackendCheck_proofs`: `TypeCorrect`, `AliveIsAlwaysEarned`, an action property.
  Its invariant relates each slot to the history `said` ("yes" or "true" only after
  the run's own probe said yes) and the stored results to the size of `results`,
  which is what rules out the runs that would publish after a torn read.
* `SharedState_proofs`, about `BackendList`: `ListTypeCorrect`,
  `ListAlwaysMatchesFile`, `KnownAlwaysKept` (an action property), `NoneEverMissed`,
  `QuietScansAlwaysExact`. `ListMatchesFile` speaks of the end of an update, so
  `ListInv` says what one on its way has done: each address of the record comes once,
  each one of the file is in the record or still to come. In the middle of a removal
  neither is visible in the array; `ShiftInv` says which place holds the element of
  which place before, whatever the order of the copies (`memmove`). That a scan
  misses nothing is two statements: an update without a removal moves no element, in the
  array in use or in one a scan loaded before (`StaysPut`, per step of the update), and
  each backend that stays has a place the scan has loaded or will load (`SteadyInv`,
  from `Findable`). `QuietInv` says that a scan no update met has loaded the slice as it is.
* `SharedState_proofs`, about `RoundRobin`: `RobinTypeCorrect` and
  `RoundsAlwaysFair`. The argument for the rounds: the answers of a round are
  consecutive elements of the list, cyclically, the last one just before the index
  (`RoundIsRun`); fewer than n+1 consecutive places modulo n are distinct. `Seat`
  writes the k-th of them without `%`; `DivMod` to `ModSucc` tie it to the code's `%`.
* `SharedState_proofs`, about `LocationMap`: `MapTypeCorrect`, and
  `MapAlwaysLoadsLikeOne`, the refinement of `FileLoader` for any number of load
  goroutines and saves. It rests on the mutual exclusion of the loads (`OneHolds`), by
  which what the holder has read (`Held`) is one content.
* `ScrapeInterval_proofs`: `TypeCorrect`, `GapAlwaysBounded`,
  `ActiveAlwaysBecomesFast`. The invariant bounds the time to the next tick: while no
  reload intervenes, what has passed since the last tick and what is due add up to at
  most a period, the one the last tick chose, and a tick that waits came in time.
* `ConfigPipeline_proofs`: `TypeCorrect`; `LoadsAlwaysLikeOne`, the refinement of
  `FileLoader` for any number of zones, writers, watchers and reload goroutines, by one
  lemma per action (a step of the loader or a stutter); and `NeverRollsBack`, an
  action property. They rest on mutual exclusion: two goroutines never hold
  `g.Mutex` at a time, so that `Held` is one content, and on the order of versions
  in the file, in what a holder has read and in what is applied.
* `Requests_proofs`: `TypeCorrect`, `KnownIsAlwaysAnswered`. A steady record is in
  its zone's map, a record with a key in lower case is what `RecordsOf` finds for the
  query's name, and a lookup that fails has read every zone: a zone it has read
  and left has no record of the name that is steady.
* `Probe_proofs`: `TypeCorrect`, `VerdictAlwaysEarned`, `AlwaysCountedOnce`,
  `AlwaysEndsInTime`. In an
  attempt the history keeps up with the service: one that is good now was seen good,
  and one that was steadily good still is, with time left; nothing is counted before
  the return. For the time (`TimeInv`), what has passed and what the deadline leaves
  make up at most one timeout where the attempts share it (HTTP), and one timeout per
  attempt begun where they do not; no stage of these types waits without a
  deadline (`WaitsEnd`).
* `Selection_proofs`: `TypeCorrect`; `DownIsNeverServed`: what a query has picked was
  allowed when it was picked, and the history of the backends healthy or enabled at
  some moment includes those that are now (`ServedInv`). `SteadyAlwaysEnough`,
  `LevelsAlwaysInOrder`, `NoneIsForgotten`, `NoBetterEverSteady`, `OnePriorityUnmarked` and
  `WheelStopsUnlessMoved` rest on `ScanInv`: as long as no field a pass compares has changed, each backend that stayed healthy is still to be visited, or picked,
  or no better than what was picked. There is one such conjunct per kind of pass
  (`FailoverInv`, `PoolInv`, `NearestInv`, `FastestInv`, `LastInv`) and one lemma per
  kind of visit; for the wheel (`WheelInv`) a function gives the partial sums of the
  weights, and the turn is at one of them. `WheelAlwaysProportional` adds that the wheel
  stopped in the interval of the backend it answers with (`BallInv`), and ties the
  partial sums to the fold over a set that the property is written with
  (`SumOfSequence`). `LevelsAlwaysInOrder` needs one invariant more (`GeoInv`): no
  backend that stayed healthy fits a level already gone through, and one that fits the
  level of the pass is still to be visited unless something has been picked. The fold
  over a set is a recursive function, and the library's induction
  theorems take an operator as a parameter: `SetInduction` says the same of a set of
  numbers, from `LeastNatural`, which follows from the library's theorem on minimal
  elements (`WFMin`). `NoBetterEverSteady` and
  `OnePriorityUnmarked` assume `PrioritiesUnmarked`: with a backend of priority -1 they
  are false, as `selection_priority.cfg` shows.

Every type invariant, safety invariant and action property of the passing runs is
proved (`NoBetterSteady` under `PrioritiesUnmarked`), and so are both refinements. Only
model-checked are the properties that rest on fairness, since the provers have no
ENABLED and with it no use of WF and SF:
`Converges` and `LoneRequestTakesEffect` of `ConfigPipeline`, `CancellableIsStopped`
and `ConfiguredIsChecked` of `RecordLifecycle`, `RunEnds` and
`ChangesAreDetected` of `BackendCheck`, and `MapFollows` of `LocationMap`. TLC also
checks each proved property, on the instances of section 3. The statements of the
violations are refuted, so there is nothing to prove about them, except what holds of
them under an assumption (`OnePriorityUnmarked`, `WheelStopsUnlessMoved`).

## 5. Not modelled

YAML decoding, Corefile parsing, the text of the TXT answer, the overview (but for
its scan) and its authentication, most metrics, the helpers of the Lua probe, the
command line client: conversions and I/O without shared state. Of the probes what
the service says is abstracted to how far it lets an attempt come. Of a GeoIP
lookup only its result is kept.

Read and left without a model: `MySQLHealthCheck.Equals` ignores password and timeout;
`isAuthoritative` matches a suffix without a label boundary; `LastResolution` grows with the names
asked for; a record that was never asked for is never slowed down
(`record.go:187`), which `ScrapeInterval` has as `Never` but no document speaks about;
two zones that share one file; two entries of one address in a file; a
`scrape_interval` of zero or less, which makes `time.NewTicker` panic (`record.go:170`).

## 6. Plan

Done: the modules of section 2. What is left, in order of importance:

1. More abstract specifications: supervision ("a configured record has one checker")
   for `RecordLifecycle`, one atomic pick over a set of views for `Selection`.
2. A composition of `ConfigPipeline` with the incremental update, and of
   `BackendCheck` with a query.
3. `ConfigPipeline` with two zones that share one file.
4. The initial load of `RecordLifecycle` in steps, with the reloads that may meet it.
