--------------------------- MODULE ConfigPipeline ---------------------------
(***************************************************************************)
(* How a change of a file reaches g.Records: the API requests (api.go) and *)
(* the operator that write the zone files, the watcher of each zone file   *)
(* with its 500 ms timer and the reload goroutines the timer starts        *)
(* (setup.go), and the same for the file of the global healthcheck         *)
(* profiles, whose reload is followed by one of every zone.                *)
(*                                                                         *)
(* Of a zone file the model keeps the enable flag of each backend that is  *)
(* in it and a version, which counts the writes of all zone files.  A      *)
(* write is that of os.WriteFile: the file is truncated, then filled, and  *)
(* may be read when it is filled in part.  What a reload does to the       *)
(* records is RecordLifecycle.tla; here it replaces the content.           *)
(***************************************************************************)
EXTENDS Integers, FiniteSets

CONSTANTS
    Zones,           \* the zones, each with a file of its own
    Backends,        \* the backends of a zone file
    Requests,        \* the API requests, each made once
    Targets,         \* [Requests -> SUBSET Backends]: those it matches
    Enables,         \* [Requests -> BOOLEAN]: /enable or /disable
    UsesProfiles,    \* the zones whose files name a global profile
    MaxSaves,        \* bound: how often the operator saves a zone file
    MaxProfileSaves, \* bound: how often the operator replaces the profiles
    MaxEdits,        \* bound: how many requests and saves there are together
    MaxJobs,         \* bound: reload goroutines of zones at a time
    Operator,        \* the operator, as a writer of zone files
    Unreadable,      \* a file of profiles that is not there or no YAML
    Nothing          \* no content, no zone, no flag, no profiles

\* "full": a YAML file, with the flags of the backends that are in it.  "empty":
\* truncated and not filled yet.  "garbled": no YAML, as a part of a content may
\* be, or what two writers left that were filling the file together.
Flags == BOOLEAN \cup {Nothing}

FileContents ==
    [kind : {"full", "empty", "garbled"}, version : Nat, enable : [Backends -> Flags]]

FullContents == {c \in FileContents : c.kind = "full"}

Content(kind, version, enable) == [kind |-> kind, version |-> version, enable |-> enable]

NoFlags == [b \in Backends |-> Nothing]

Empty == Content("empty", 0, NoFlags)

ASSUME ConstantsAssumption ==
    /\ Targets \in [Requests -> SUBSET Backends]
    /\ Enables \in [Requests -> BOOLEAN]
    /\ UsesProfiles \subseteq Zones
    /\ MaxSaves \in Nat /\ MaxProfileSaves \in Nat /\ MaxJobs \in Nat
    /\ MaxEdits \in Nat
    /\ Operator \notin Requests
    /\ Nothing \notin Zones \cup [file : Zones, content : FileContents]
    /\ Unreadable \notin Int \cup {Nothing}

VARIABLES
    file,     \* the content of each zone file
    clock,    \* how many contents were written
    saves,    \* how often the operator saved
    writer,   \* where each writer is
    watching, \* the watcher of the zone's file is in place
    event,    \* an event of the file waits for its watcher
    timer,    \* the watcher's timer is running
    job,      \* the goroutines in reloadConfig
    applied,  \* what the zone's records were made from
    profiles, \* the profiles' file, watcher, event, timer and global variable
    profJob   \* the goroutines in reloadHealthcheckProfilesAndZones

fileVars == <<file, clock, saves, writer>>
watchVars == <<watching, event, timer>>
profVars == <<profiles, profJob>>
vars == <<fileVars, watchVars, job, applied, profVars>>

Writers == Requests \cup {Operator}

\* The goroutines started by a timer of a zone file, and by that of the profiles.
ZoneJobs == 1..MaxJobs

ProfJobs == (MaxJobs + 1)..(MaxJobs + MaxProfileSaves)

IdleWriter == [at |-> "idle", zone |-> Nothing, todo |-> {}, enable |-> NoFlags, left |-> Empty]

IdleJob == [at |-> "idle", zone |-> Nothing, content |-> Empty]

IdleProfJob == [at |-> "idle", read |-> 0, todo |-> {}]

\* The plugin has loaded its zones, and the watchers, started in goroutines of
\* their own before that, may not have asked for events yet.
Init ==
    /\ file \in [Zones -> {Content("full", 0, e) : e \in [Backends -> BOOLEAN]}]
    /\ clock = 0
    /\ saves = 0
    /\ writer = [w \in Writers |-> IdleWriter]
    /\ watching \in [Zones -> BOOLEAN]
    /\ event = [z \in Zones |-> FALSE]
    /\ timer = [z \in Zones |-> FALSE]
    /\ job = [g \in ZoneJobs \cup ProfJobs |-> IdleJob]
    /\ applied = [z \in Zones |-> [content |-> file[z], profile |-> 0]]
    /\ \E w \in BOOLEAN :
         profiles = [inFile |-> 0, saves |-> 0, watching |-> w, event |-> FALSE,
                     timer |-> FALSE, global |-> 0]
    /\ profJob = [p \in ProfJobs |-> IdleProfJob]

----------------------------------------------------------------------------
(***************************************************************************)
(* Writing zone files.                                                     *)
(***************************************************************************)

\* A file event is lost as long as nobody watches.
Touch(z) == event' = [event EXCEPT ![z] = @ \/ watching[z]]

Writing == UNCHANGED <<watching, timer, job, applied, profVars>>

\* The bound MaxEdits is not reached.
MayEdit ==
    saves + profiles.saves + Cardinality({r \in Requests : writer[r].at # "idle"}) < MaxEdits

\* handleBulkSetBackendEnable, for the zones in the order of a Go map.
ApiStart(r) ==
    /\ writer[r].at = "idle"
    /\ MayEdit
    /\ writer' = [writer EXCEPT ![r].at = "next", ![r].todo = Zones]
    /\ UNCHANGED <<file, clock, saves, event>>
    /\ Writing

\* Mutant of Updated: enable is set on the backends that do not match.
UpdatedOthers(r, enable) ==
    [b \in Backends |-> IF b \notin Targets[r] /\ enable[b] # Nothing
                        THEN Enables[r] ELSE enable[b]]

\* The flags with enable set on every backend of the content the request matches.
Updated(r, enable) ==
    [b \in Backends |-> IF b \in Targets[r] /\ enable[b] # Nothing
                        THEN Enables[r] ELSE enable[b]]

\* bulkSetBackendEnable reads and changes the content.  An empty file has no
\* records, which is no error; one that is no YAML is, and ends the request
\* with a 500.
ApiRead(r, z) ==
    /\ writer[r].at = "next"
    /\ z \in writer[r].todo
    /\ LET w == writer[r] IN
       writer' = [writer EXCEPT ![r] =
         CASE file[z].kind = "empty"   -> [w EXCEPT !.todo = @ \ {z}]
           [] file[z].kind = "garbled" -> [IdleWriter EXCEPT !.at = "failed"]
           [] OTHER -> [w EXCEPT !.at = "read", !.zone = z, !.todo = @ \ {z},
                                 !.enable = Updated(r, file[z].enable)]]
    /\ UNCHANGED <<file, clock, saves, event>>
    /\ Writing

\* os.WriteFile opens the file with O_TRUNC.
Truncate(w) ==
    /\ writer[w].at = "read"
    /\ writer' = [writer EXCEPT ![w].at = "truncated", ![w].left = Empty]
    /\ file' = [file EXCEPT ![writer[w].zone] = Empty]
    /\ Touch(writer[w].zone)
    /\ UNCHANGED <<clock, saves>>
    /\ Writing

\* What may be in the file once w has written these flags: they, or, when another
\* writer changed the file since w did, a mixture of both, YAML or not.
Written(w, c) ==
    LET old == file[writer[w].zone]
        Mixed == {e \in [Backends -> Flags] :
                    \A b \in Backends : e[b] \in {c.enable[b], old.enable[b]}}
    IN IF old = writer[w].left THEN {c}
       ELSE {c, Content("garbled", c.version, NoFlags)}
              \cup {Content("full", c.version, e) : e \in Mixed}

\* ... and writes.  The file may be read when a part is in it, which may be YAML and
\* lack some backends.
WritePart(w) ==
    /\ writer[w].at = "truncated"
    /\ \E S \in SUBSET Backends \ {Backends}, kind \in {"full", "garbled"} :
         LET flags == [b \in Backends |-> IF kind = "full" /\ b \in S
                                          THEN writer[w].enable[b] ELSE Nothing]
         IN \E c \in Written(w, Content(kind, clock + 1, flags)) :
              /\ file' = [file EXCEPT ![writer[w].zone] = c]
              /\ writer' = [writer EXCEPT ![w].at = "partly", ![w].left = c]
    /\ Touch(writer[w].zone)
    /\ clock' = clock + 1
    /\ UNCHANGED saves
    /\ Writing

WriteAll(w) ==
    /\ writer[w].at \in {"truncated", "partly"}
    /\ \E c \in Written(w, Content("full", clock + 1, writer[w].enable)) :
         file' = [file EXCEPT ![writer[w].zone] = c]
    /\ Touch(writer[w].zone)
    /\ clock' = clock + 1
    /\ writer' = [writer EXCEPT ![w] =
                    IF w = Operator THEN IdleWriter
                    ELSE [IdleWriter EXCEPT !.at = "next", !.todo = writer[w].todo]]
    /\ UNCHANGED saves
    /\ Writing

Write(w) == Truncate(w) \/ WritePart(w) \/ WriteAll(w)

\* The file cannot be opened or the write fails: 500, whatever was done to the
\* files before.
ApiFails(r) ==
    /\ writer[r].at \in {"read", "truncated", "partly"}
    /\ writer' = [writer EXCEPT ![r] = [IdleWriter EXCEPT !.at = "failed"]]
    /\ UNCHANGED <<file, clock, saves, event>>
    /\ Writing

\* "success": true
ApiSucceeds(r) ==
    /\ writer[r].at = "next"
    /\ writer[r].todo = {}
    /\ writer' = [writer EXCEPT ![r].at = "ok"]
    /\ UNCHANGED <<file, clock, saves, event>>
    /\ Writing

\* The operator saves a zone file of their own making.
Save(z, e) ==
    /\ writer[Operator].at = "idle"
    /\ saves < MaxSaves
    /\ MayEdit
    /\ saves' = saves + 1
    /\ writer' = [writer EXCEPT ![Operator] =
                    [@ EXCEPT !.at = "read", !.zone = z, !.enable = e]]
    /\ UNCHANGED <<file, clock, event>>
    /\ Writing

----------------------------------------------------------------------------
(***************************************************************************)
(* The watcher of a zone file (startConfigWatcher).                        *)
(***************************************************************************)

\* watcher.Add(dir)
WatchStarts(z) ==
    /\ ~watching[z]
    /\ watching' = [watching EXCEPT ![z] = TRUE]
    /\ UNCHANGED <<fileVars, event, timer, job, applied, profVars>>

Waiting(z) == {g \in ZoneJobs : job[g].at # "idle" /\ job[g].zone = z}

\* Mutant of WatchEvent: no timer is set while a reload of the zone is under way.
WatchEventOnce(z) ==
    /\ event[z]
    /\ event' = [event EXCEPT ![z] = FALSE]
    /\ timer' = [timer EXCEPT ![z] = (Waiting(z) = {})]
    /\ UNCHANGED <<fileVars, watching, job, applied, profVars>>

\* A running timer is stopped, and set again.
WatchEvent(z) ==
    /\ event[z]
    /\ event' = [event EXCEPT ![z] = FALSE]
    /\ timer' = [timer EXCEPT ![z] = TRUE]
    /\ UNCHANGED <<fileVars, watching, job, applied, profVars>>

\* time.AfterFunc runs its function in a goroutine of its own, which no Stop
\* reaches any more.
TimerFires(z) ==
    /\ timer[z]
    /\ timer' = [timer EXCEPT ![z] = FALSE]
    /\ \E g \in ZoneJobs :
         /\ job[g].at = "idle"
         /\ \A h \in ZoneJobs : job[h].at = "idle" => g <= h
         /\ job' = [job EXCEPT ![g] = [@ EXCEPT !.at = "waiting", !.zone = z]]
    /\ UNCHANGED <<fileVars, watching, event, applied, profVars>>

----------------------------------------------------------------------------
(***************************************************************************)
(* reloadConfig.                                                           *)
(***************************************************************************)

\* Mutant of Unlocked: there is no mutex.
NeverLocked == TRUE

\* g.Mutex is free.
Unlocked == \A g \in DOMAIN job : job[g].at # "holding"

\* g.Mutex.Lock() and os.ReadFile.
ReloadReads(g) ==
    /\ job[g].at = "waiting"
    /\ Unlocked
    /\ job' = [job EXCEPT ![g] = [@ EXCEPT !.at = "holding", !.content = file[job[g].zone]]]
    /\ UNCHANGED <<fileVars, watchVars, applied, profVars>>

\* processRecordHealthchecks and ResolveHealthcheckProfile: a global profile that
\* is named is an error when it is not there.
ProfilesKnown(z) == z \in UsesProfiles => profiles.global # Nothing

\* loadConfigFile fails on a file that is empty or no YAML, and on a profile that
\* is not there.
Loadable(g) == job[g].content.kind = "full" /\ ProfilesKnown(job[g].zone)

\* Mutant of ReloadApplies: an empty file is taken for one without records.
ReloadAppliesAnything(g) ==
    /\ job[g].at = "holding"
    /\ applied' = [applied EXCEPT ![job[g].zone] =
                     [content |-> job[g].content, profile |-> profiles.global]]
    /\ job' = [job EXCEPT ![g] = IdleJob]
    /\ UNCHANGED <<fileVars, watchVars, profVars>>

\* The profiles are looked up, the records updated and g.Mutex released.
ReloadApplies(g) ==
    /\ job[g].at = "holding"
    /\ applied' = IF Loadable(g)
                  THEN [applied EXCEPT ![job[g].zone] =
                          [content |-> job[g].content, profile |-> profiles.global]]
                  ELSE applied
    /\ job' = [job EXCEPT ![g] = IdleJob]
    /\ UNCHANGED <<fileVars, watchVars, profVars>>

----------------------------------------------------------------------------
(***************************************************************************)
(* The global profiles: watchHealthcheckProfiles and                       *)
(* reloadHealthcheckProfilesAndZones.                                      *)
(***************************************************************************)

\* The operator replaces the file in one step: by a new one, by an empty one, which
\* has no profiles, or by nothing that can be read.  To save it in place is to do
\* two of these.  An event is lost as long as nobody watches.
SaveProfiles(v) ==
    /\ profiles.saves < MaxProfileSaves
    /\ MayEdit
    /\ v \in {profiles.saves + 1, Nothing, Unreadable}
    /\ profiles' = [profiles EXCEPT !.inFile = v, !.saves = @ + 1, !.event = @ \/ profiles.watching]
    /\ UNCHANGED <<fileVars, watchVars, job, applied, profJob>>

ProfilesWatchStarts ==
    /\ ~profiles.watching
    /\ profiles' = [profiles EXCEPT !.watching = TRUE]
    /\ UNCHANGED <<fileVars, watchVars, job, applied, profJob>>

\* Mutant of ProfilesEvent: no timer is set while a reload of the profiles goes on.
ProfilesEventOnce ==
    /\ profiles.event
    /\ profiles' = [profiles EXCEPT !.event = FALSE,
                                    !.timer = \A p \in ProfJobs : profJob[p].at = "idle"]
    /\ UNCHANGED <<fileVars, watchVars, job, applied, profJob>>

ProfilesEvent ==
    /\ profiles.event
    /\ profiles' = [profiles EXCEPT !.event = FALSE, !.timer = TRUE]
    /\ UNCHANGED <<fileVars, watchVars, job, applied, profJob>>

\* The timer fires and its goroutine reads the file (reloadHealthcheckProfiles).
\* When it cannot, that is all: neither the profiles nor the zones are reloaded.
ProfilesRead(p) ==
    /\ profiles.timer
    /\ profJob[p].at = "idle"
    /\ \A q \in ProfJobs : profJob[q].at = "idle" => p <= q
    /\ profiles' = [profiles EXCEPT !.timer = FALSE]
    /\ profJob' = IF profiles.inFile = Unreadable THEN profJob
                  ELSE [profJob EXCEPT ![p] = [@ EXCEPT !.at = "read", !.read = profiles.inFile]]
    /\ UNCHANGED <<fileVars, watchVars, job, applied>>

\* GlobalHealthcheckProfiles = tmp.HealthcheckProfiles, under no lock.
ProfilesStore(p) ==
    /\ profJob[p].at = "read"
    /\ profiles' = [profiles EXCEPT !.global = profJob[p].read]
    /\ profJob' = [profJob EXCEPT ![p] = [@ EXCEPT !.at = "zones", !.todo = Zones]]
    /\ UNCHANGED <<fileVars, watchVars, job, applied>>

\* reloadConfig of one more zone, whether or not the last one could be loaded.
ProfilesReload(p, z) ==
    /\ profJob[p].at = "zones"
    /\ job[p].at = "idle"
    /\ z \in profJob[p].todo
    /\ profJob' = [profJob EXCEPT ![p].todo = @ \ {z}]
    /\ job' = [job EXCEPT ![p] = [@ EXCEPT !.at = "waiting", !.zone = z]]
    /\ UNCHANGED <<fileVars, watchVars, applied, profiles>>

ProfilesDone(p) ==
    /\ profJob[p].at = "zones"
    /\ job[p].at = "idle"
    /\ profJob[p].todo = {}
    /\ profJob' = [profJob EXCEPT ![p] = IdleProfJob]
    /\ UNCHANGED <<fileVars, watchVars, job, applied, profiles>>

----------------------------------------------------------------------------
Request(r) ==
    \/ ApiStart(r)
    \/ ApiFails(r)
    \/ ApiSucceeds(r)
    \/ \E z \in Zones : ApiRead(r, z)

Reload(g) == ReloadReads(g) \/ ReloadApplies(g)

ProfilesStep(p) ==
    \/ ProfilesRead(p)
    \/ ProfilesStore(p)
    \/ ProfilesDone(p)
    \/ \E z \in Zones : ProfilesReload(p, z)

Saved == 1..MaxProfileSaves \cup {Nothing, Unreadable}

Next ==
    \/ \E r \in Requests : Request(r)
    \/ \E w \in Writers : Write(w)
    \/ \E z \in Zones : WatchStarts(z) \/ WatchEvent(z) \/ TimerFires(z)
    \/ \E z \in Zones, e \in [Backends -> BOOLEAN] : Save(z, e)
    \/ \E g \in DOMAIN job : Reload(g)
    \/ \E v \in Saved : SaveProfiles(v)
    \/ ProfilesWatchStarts
    \/ ProfilesEvent
    \/ \E p \in ProfJobs : ProfilesStep(p)

(***************************************************************************)
(* Watchers run, timers fire, goroutines go on and the mutex, which is not *)
(* held while waiting for anything, is handed to each of the finitely many *)
(* that wait.  Nobody has to write a file or to make a request, but one    *)
(* that opened a file writes it.                                           *)
(***************************************************************************)
Fairness ==
    /\ \A z \in Zones :
         WF_vars(WatchStarts(z)) /\ WF_vars(WatchEvent(z)) /\ WF_vars(TimerFires(z))
    /\ \A g \in ZoneJobs \cup ProfJobs : WF_vars(Reload(g))
    /\ WF_vars(ProfilesWatchStarts) /\ WF_vars(ProfilesEvent)
    /\ \A p \in ProfJobs : WF_vars(ProfilesStep(p))

Spec == Init /\ [][Next]_vars

FairSpec == Spec /\ Fairness

----------------------------------------------------------------------------
Versions == 0..MaxProfileSaves \cup {Nothing}

WriterStates ==
    [at : {"idle", "next", "read", "truncated", "partly", "ok", "failed"},
     zone : Zones \cup {Nothing}, todo : SUBSET Zones, enable : [Backends -> Flags],
     left : FileContents]

JobStates ==
    [at : {"idle", "waiting", "holding"}, zone : Zones \cup {Nothing}, content : FileContents]

ProfileStates ==
    [inFile : Versions \cup {Unreadable}, saves : 0..MaxProfileSaves, watching : BOOLEAN,
     event : BOOLEAN, timer : BOOLEAN, global : Versions]

ProfJobStates == [at : {"idle", "read", "zones"}, read : Versions, todo : SUBSET Zones]

\* Every variable stays in its type.
TypeOK ==
    /\ file \in [Zones -> FileContents]
    /\ clock \in Nat
    /\ saves \in 0..MaxSaves
    /\ writer \in [Writers -> WriterStates]
    /\ watching \in [Zones -> BOOLEAN]
    /\ event \in [Zones -> BOOLEAN]
    /\ timer \in [Zones -> BOOLEAN]
    /\ job \in [ZoneJobs \cup ProfJobs -> JobStates]
    /\ applied \in [Zones -> [content : FullContents, profile : Versions]]
    /\ profiles \in ProfileStates
    /\ profJob \in [ProfJobs -> ProfJobStates]

\* What the reload that holds g.Mutex has read.
Held ==
    LET Holder == CHOOSE g \in DOMAIN job : job[g].at = "holding" IN
    IF \A g \in DOMAIN job : job[g].at # "holding" THEN Nothing
    ELSE [file |-> job[Holder].zone, content |-> job[Holder].content]

Loader == INSTANCE FileLoader WITH
    Files <- Zones,
    Contents <- FileContents,
    Usable <- FullContents,
    Dependent <- UsesProfiles,
    content <- file,
    reading <- Held,
    used <- [z \in Zones |-> applied[z].content]

\* The reload goroutines of the zones' timers and of the profiles do to the records
\* what one loader would do that reads a file and is done with it before it reads
\* the next: no two reloads mix, none uses a content out of turn, and none is
\* refused that could be used, unless for its profiles.
LoadsLikeOne == Loader!Spec

\* The records of a zone never go back to an earlier content of its file, in
\* whatever order the reload goroutines of two timers, or of the zone's timer
\* and the profiles', get g.Mutex.
NoRollback ==
    [][ \A z \in Zones : applied'[z].content.version >= applied[z].content.version ]_vars

\* The zone's file holds a content that can be loaded.
Sound(z) == file[z].kind = "full" /\ ProfilesKnown(z)

\* What the records of the zone have to be made from.
UpToDate(z) ==
    /\ applied[z].content = file[z]
    /\ z \in UsesProfiles => applied[z].profile = profiles.global

\* When the writing of a zone file that was watched from the start has come to an
\* end and left something that can be loaded with the profiles in the global
\* variable, the records end up as the file and these profiles say, though events
\* are merged, timers stopped, reloads of half-written files fail, several
\* reloads of the zone wait at once and reloads of the profiles overlap.
ZoneFollows(z) == watching[z] => (<>[]Sound(z) => <>[]UpToDate(z))

\* No two reloads of the profiles are between reading them and assigning them.
ProfileReadsApart ==
    \A p, q \in ProfJobs : profJob[p].at = "read" /\ profJob[q].at = "read" => p = q

\* The profiles in the global variable end up as those of their file, when it was
\* watched from the start, is left readable and no two reloads are between reading
\* and assigning at a time.  (When they are, the older may assign last:
\* ProfilesConverge below.)
ProfilesFollow ==
    (profiles.watching /\ []ProfileReadsApart /\ <>[](profiles.inFile # Unreadable))
        => <>[](profiles.global = profiles.inFile)

\* What is in use ends up as the files say: ZoneFollows and ProfilesFollow.
Converges == ProfilesFollow /\ \A z \in Zones : ZoneFollows(z)

\* The flags of the backends a request matches are as it sets them.
Effective(r, enable) == \A b \in Targets[r] : enable[b] = Enables[r]

\* A request that succeeds, and is alone in writing files, takes effect on the
\* records of every zone.
LoneRequestTakesEffect ==
    \A r \in Requests :
        (/\ \A z \in Zones : watching[z]
         /\ [](\A z \in Zones : ProfilesKnown(z))
         /\ [](\A w \in Writers \ {r} : writer[w].at = "idle"))
        => [](writer[r].at = "ok" =>
                <>[](\A z \in Zones : Effective(r, applied[z].content.enable)))

----------------------------------------------------------------------------
\* docs/configuration.md:3: the plugin "watches configuration files and reloads
\* them at runtime when changes are detected": Converges for every zone file,
\* from the moment the zones are loaded.
EveryChangeIsLoaded ==
    \A z \in Zones : <>[]Sound(z) => <>[]UpToDate(z)

\* docs/api.md:111: "This will disable all backends that have at least one of the
\* specified tags": when the requests are over and nobody else wrote, a request
\* that succeeded shows in every file, on the backends no other one matches.
SuccessIsWritten ==
    (\A w \in Writers : writer[w].at \in {"idle", "ok", "failed"}) =>
        \A r \in Requests, z \in Zones :
            writer[r].at = "ok" =>
                /\ file[z].kind = "full"
                /\ \A b \in Targets[r] :
                     \/ \E q \in Requests \ {r} : b \in Targets[q]
                     \/ file[z].enable[b] = Enables[r]

\* setup.go:459: "Update global healthcheck profiles atomically": the reloads of
\* the profiles leave the profiles of the file in the global variable.
ProfilesConverge == <>[](profiles.global = profiles.inFile)
=============================================================================
