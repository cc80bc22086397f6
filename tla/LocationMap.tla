----------------------------- MODULE LocationMap -----------------------------
(***************************************************************************)
(* The file of geoip_custom and g.LocationMap: the operator who edits the  *)
(* file, its watcher with a 500 ms timer (watchCustomLocationMap), the     *)
(* goroutines the timer starts (loadCustomLocationsMap), which wait for    *)
(* g.Mutex.  The reloads of zones and the queries that take g.Mutex only   *)
(* make them wait longer, and are left out.                                *)
(*                                                                         *)
(* Unlike a zone file an empty file is loaded: it is a map without         *)
(* subnets.  A file that is gone or is no YAML leaves the old map.         *)
(*                                                                         *)
(* Names that every component has carry the prefix Map: SharedState_proofs *)
(* extends this module and two others.                                     *)
(***************************************************************************)
EXTENDS Integers, FiniteSets

CONSTANTS
    MaxSaves, \* bound: how often the operator changes the file
    MaxJobs,  \* bound: goroutines of the timer at a time
    Nothing   \* no content

ASSUME MapAssumption ==
    /\ MaxSaves \in Nat /\ MaxJobs \in Nat \ {0}
    /\ Nothing \notin [file : {"geoip_custom"},
                       content : [kind : {"map", "empty", "garbled", "gone"}, version : Nat]]

VARIABLES
    mapFile,     \* what the file holds
    saves,       \* how often the operator changed it
    writing,     \* an editor has truncated the file and not filled it yet
    watching,    \* the watcher is in place
    event,       \* an event waits for the watcher
    timer,       \* reloadTimer is running
    job,         \* the goroutines in loadCustomLocationsMap
    locationMap  \* g.LocationMap, by the content it was made from

fileVars == <<mapFile, saves, writing>>
watchVars == <<watching, event, timer>>
mapVars == <<fileVars, watchVars, job, locationMap>>

Jobs == 1..MaxJobs

\* "map": YAML with or without subnets; "empty": truncated.
Content(kind, version) == [kind |-> kind, version |-> version]

Contents == {c \in [kind : {"map", "empty", "garbled", "gone"}, version : Nat] :
               c.kind \in {"empty", "gone"} => c.version = 0}

\* yaml.Unmarshal of no bytes at all is no error.
Usable == {c \in Contents : c.kind \in {"map", "empty"}}

IdleJob == [at |-> "idle", content |-> Content("gone", 0)]

\* setup has loaded the map, and starts the watcher in a goroutine later.
MapInit ==
    /\ mapFile \in {Content("map", 0), Content("empty", 0)}
    /\ saves = 0
    /\ writing = FALSE
    /\ watching \in BOOLEAN
    /\ event = FALSE
    /\ timer = FALSE
    /\ job = [g \in Jobs |-> IdleJob]
    /\ locationMap = mapFile

----------------------------------------------------------------------------
(***************************************************************************)
(* The operator.                                                           *)
(***************************************************************************)

\* An event the watcher's mask lets through, if there is a watcher.
Touch == event' = (event \/ watching)

Editing == UNCHANGED <<watching, timer, job, locationMap>>

\* An editor opens the file with O_TRUNC ...
Truncate ==
    /\ ~writing
    /\ saves < MaxSaves
    /\ saves' = saves + 1
    /\ writing' = TRUE
    /\ mapFile' = Content("empty", 0)
    /\ Touch
    /\ Editing

\* ... and fills it, well or badly.
Fill ==
    /\ writing
    /\ writing' = FALSE
    /\ mapFile' \in {Content("map", saves), Content("garbled", saves)}
    /\ Touch
    /\ UNCHANGED saves
    /\ Editing

\* A rename puts a new file in place of the old one.
Replace ==
    /\ ~writing
    /\ saves < MaxSaves
    /\ saves' = saves + 1
    /\ mapFile' = Content("map", saves')
    /\ Touch
    /\ UNCHANGED writing
    /\ Editing

\* The file is renamed, or removed; a removal is not in the mask.
TakeAway ==
    /\ ~writing
    /\ saves < MaxSaves
    /\ saves' = saves + 1
    /\ mapFile' = Content("gone", 0)
    /\ event' \in {event, event \/ watching}
    /\ UNCHANGED writing
    /\ Editing

----------------------------------------------------------------------------
(***************************************************************************)
(* watchCustomLocationMap.                                                 *)
(***************************************************************************)

\* watcher.Add(dir)
WatchStarts ==
    /\ ~watching
    /\ watching' = TRUE
    /\ UNCHANGED <<fileVars, event, timer, job, locationMap>>

\* Mutant of WatchEvent: an event during a load is taken for the one that led to it.
WatchEventIdly ==
    /\ event
    /\ event' = FALSE
    /\ timer' = (timer \/ \A g \in Jobs : job[g].at = "idle")
    /\ UNCHANGED <<fileVars, watching, job, locationMap>>

\* A running timer is stopped, and set again.
WatchEvent ==
    /\ event
    /\ event' = FALSE
    /\ timer' = TRUE
    /\ UNCHANGED <<fileVars, watching, job, locationMap>>

\* The function of time.AfterFunc runs in a goroutine of its own.
TimerFires ==
    /\ timer
    /\ timer' = FALSE
    /\ \E g \in Jobs :
         /\ job[g].at = "idle"
         /\ job' = [job EXCEPT ![g] = [@ EXCEPT !.at = "waiting"]]
    /\ UNCHANGED <<fileVars, watching, event, locationMap>>

----------------------------------------------------------------------------
(***************************************************************************)
(* loadCustomLocationsMap.                                                 *)
(***************************************************************************)

\* g.Mutex is not held by another load.
Unlocked == \A g \in Jobs : job[g].at # "holding"

\* Mutant of LoadReads: the file is read before the mutex is taken.
LoadReadsFirst(g) ==
    /\ job[g].at = "waiting"
    /\ job' = [job EXCEPT ![g] = [at |-> "holding", content |-> mapFile]]
    /\ UNCHANGED <<fileVars, watchVars, locationMap>>

\* g.Mutex.Lock() and os.ReadFile.
LoadReads(g) ==
    /\ job[g].at = "waiting"
    /\ Unlocked
    /\ job' = [job EXCEPT ![g] = [at |-> "holding", content |-> mapFile]]
    /\ UNCHANGED <<fileVars, watchVars, locationMap>>

\* Mutant of LoadStores: the error of the YAML decoder is not looked at.
LoadStoresAnything(g) ==
    /\ job[g].at = "holding"
    /\ locationMap' = job[g].content
    /\ job' = [job EXCEPT ![g] = IdleJob]
    /\ UNCHANGED <<fileVars, watchVars>>

\* g.LocationMap = m, a new map, and Unlock.
LoadStores(g) ==
    /\ job[g].at = "holding"
    /\ locationMap' = IF job[g].content \in Usable THEN job[g].content ELSE locationMap
    /\ job' = [job EXCEPT ![g] = IdleJob]
    /\ UNCHANGED <<fileVars, watchVars>>

----------------------------------------------------------------------------
Operator == Truncate \/ Fill \/ Replace \/ TakeAway

Load(g) == LoadReads(g) \/ LoadStores(g)

MapNext ==
    \/ Operator
    \/ WatchStarts
    \/ WatchEvent
    \/ TimerFires
    \/ \E g \in Jobs : Load(g)

\* The watcher runs, timers fire and goroutines go on.  Nobody has to edit the file.
Fairness ==
    /\ WF_mapVars(WatchStarts) /\ WF_mapVars(WatchEvent) /\ WF_mapVars(TimerFires)
    /\ \A g \in Jobs : WF_mapVars(Load(g))

MapSpec == MapInit /\ [][MapNext]_mapVars /\ Fairness

----------------------------------------------------------------------------
\* Every variable stays in its type.
MapTypeOK ==
    /\ mapFile \in Contents
    /\ saves \in 0..MaxSaves
    /\ writing \in BOOLEAN
    /\ watching \in BOOLEAN
    /\ event \in BOOLEAN
    /\ timer \in BOOLEAN
    /\ job \in [Jobs -> [at : {"idle", "waiting", "holding"}, content : Contents]]
    /\ locationMap \in Usable

\* The one file.
Custom == "geoip_custom"

\* What a load that holds g.Mutex has read.
Held ==
    LET holders == {g \in Jobs : job[g].at = "holding"} IN
    IF holders = {} THEN Nothing
    ELSE [file |-> Custom, content |-> job[CHOOSE g \in holders : TRUE].content]

Loader == INSTANCE FileLoader WITH
    Files <- {Custom},
    Dependent <- {},
    content <- [f \in {Custom} |-> mapFile],
    reading <- Held,
    used <- [f \in {Custom} |-> locationMap]

\* The goroutines of the timer do to the map what one loader would do that reads the
\* file and is done with it before it reads it again, though they take their turns
\* at the mutex in any order.
MapLoadsLikeOne == Loader!Spec

\* A map that was watched from the start ends up as the file, though events are
\* merged and come late.
MapFollows == watching => Loader!Follows(Custom)
=============================================================================
