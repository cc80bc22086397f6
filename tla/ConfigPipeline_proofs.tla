----------------------- MODULE ConfigPipeline_proofs -----------------------
(***************************************************************************)
(* Proofs about ConfigPipeline: it implements FileLoader, and the records  *)
(* of a zone never go back to an earlier content, for any zones, requests, *)
(* profiles and bounds.                                                    *)
(***************************************************************************)
EXTENDS ConfigPipeline, TLAPS

\* A writer that is about to write knows where to.
WriterInv ==
    \A w \in Writers :
        writer[w].at \in {"read", "truncated", "partly"} => writer[w].zone \in Zones

\* A reload knows its zone.
JobInv == \A g \in DOMAIN job : job[g].at # "idle" => job[g].zone \in Zones

\* g.Mutex excludes.
MutexInv ==
    \A g, h \in DOMAIN job : job[g].at = "holding" /\ job[h].at = "holding" => g = h

\* The contents of a zone file are numbered as they are written; what a reload
\* holds was read after what is applied was.
VersionInv ==
    /\ \A z \in Zones :
         /\ applied[z].content.version <= clock
         /\ file[z].kind = "full" =>
              applied[z].content.version <= file[z].version /\ file[z].version <= clock
    /\ \A g \in DOMAIN job :
         job[g].at = "holding" /\ job[g].content.kind = "full" =>
           /\ applied[job[g].zone].content.version <= job[g].content.version
           /\ job[g].content.version <= clock
           /\ file[job[g].zone].kind = "full" =>
                job[g].content.version <= file[job[g].zone].version

TypeInv == TypeOK /\ WriterInv /\ JobInv

IInv == TypeInv /\ MutexInv /\ VersionInv

----------------------------------------------------------------------------
(***************************************************************************)
(* Type correctness.                                                       *)
(***************************************************************************)

\* What can be in a file, and what of it can be loaded.
LEMMA ContentKinds ==
    /\ \A e \in [Backends -> Flags], v \in Nat, kind \in {"full", "empty", "garbled"} :
         /\ Content(kind, v, e) \in FileContents
         /\ Content(kind, v, e).kind = kind /\ Content(kind, v, e).version = v
         /\ Content(kind, v, e).enable = e
    /\ Empty \in FileContents \ FullContents /\ Empty.kind = "empty"
    /\ NoFlags \in [Backends -> Flags]
    /\ FullContents \subseteq FileContents
<1>1. NoFlags \in [Backends -> Flags]
  BY DEF NoFlags, Flags
<1>2. QED
  BY <1>1 DEF Content, Empty, FullContents, FileContents

LEMMA ContentFields ==
    ASSUME NEW c \in FileContents
    PROVE  c.version \in Nat /\ c.enable \in [Backends -> Flags]
  BY DEF FileContents

LEMMA FullIs ==
    /\ \A c \in FileContents : c.kind = "full" => c \in FullContents
    /\ \A c \in FullContents : c.kind = "full" /\ c \in FileContents
  BY DEF FullContents

LEMMA Bounds == MaxSaves \in Nat /\ MaxProfileSaves \in Nat /\ MaxJobs \in Nat
  BY ConstantsAssumption

LEMMA TypeInit == Init => TypeInv
<1>1. SUFFICES ASSUME Init PROVE TypeInv
  OBVIOUS
<1>2. /\ file \in [Zones -> FullContents]
      /\ file \in [Zones -> FileContents]
  <2>1. {Content("full", 0, e) : e \in [Backends -> BOOLEAN]} \subseteq FullContents
    <3>1. [Backends -> BOOLEAN] \subseteq [Backends -> Flags]
      BY DEF Flags
    <3>2. \A e \in [Backends -> BOOLEAN] : Content("full", 0, e) \in FullContents
      BY <3>1, ContentKinds, FullIs
    <3>3. QED
      BY <3>2
  <2>2. file \in [Zones -> {Content("full", 0, e) : e \in [Backends -> BOOLEAN]}]
    BY <1>1 DEF Init
  <2>3. file \in [Zones -> FullContents]
    BY <2>1, <2>2
  <2>4. QED
    BY <2>3, ContentKinds
<1>3. writer \in [Writers -> WriterStates]
  BY <1>1, ContentKinds DEF Init, IdleWriter, WriterStates
<1>4. job \in [ZoneJobs \cup ProfJobs -> JobStates]
  BY <1>1, ContentKinds DEF Init, IdleJob, JobStates
<1>5. 0 \in Versions /\ 0 \in 0..MaxProfileSaves
  BY Bounds DEF Versions
<1>6. applied \in [Zones -> [content : FullContents, profile : Versions]]
  BY <1>1, <1>2, <1>5 DEF Init
<1>7. profiles \in ProfileStates /\ profJob \in [ProfJobs -> ProfJobStates]
  BY <1>1, <1>5 DEF Init, IdleProfJob, ProfileStates, ProfJobStates
<1>8. clock \in Nat /\ saves \in 0..MaxSaves
  BY <1>1, ConstantsAssumption DEF Init
<1>9. TypeOK
  BY <1>1, <1>2, <1>3, <1>4, <1>6, <1>7, <1>8 DEF Init, TypeOK
<1>10. WriterInv /\ JobInv
  BY <1>1 DEF Init, WriterInv, JobInv, IdleWriter, IdleJob
<1>11. QED
  BY <1>9, <1>10 DEF TypeInv

\* A writer gets another state.
LEMMA WriterMoves ==
    ASSUME TypeInv, NEW w \in Writers, NEW s \in WriterStates,
           s.at \in {"read", "truncated", "partly"} => s.zone \in Zones,
           writer' = [writer EXCEPT ![w] = s]
    PROVE  writer' \in [Writers -> WriterStates] /\ WriterInv'
  BY DEF TypeInv, TypeOK, WriterInv

\* A step of a writer leaves the reloads alone, one of a reload the writers.
LEMMA WriterFrame ==
    ASSUME TypeInv, Writing, writer' \in [Writers -> WriterStates], WriterInv',
           file' \in [Zones -> FileContents], event' \in [Zones -> BOOLEAN],
           clock' \in Nat, saves' \in 0..MaxSaves
    PROVE  TypeInv'
  BY DEF TypeInv, TypeOK, JobInv, Writing, profVars

LEMMA ReloadFrame ==
    ASSUME TypeInv, UNCHANGED fileVars,
           watching' \in [Zones -> BOOLEAN], event' \in [Zones -> BOOLEAN],
           timer' \in [Zones -> BOOLEAN], job' \in [ZoneJobs \cup ProfJobs -> JobStates],
           JobInv', applied' \in [Zones -> [content : FullContents, profile : Versions]],
           profiles' \in ProfileStates, profJob' \in [ProfJobs -> ProfJobStates]
    PROVE  TypeInv'
  BY DEF TypeInv, TypeOK, WriterInv, fileVars

\* A reload goroutine gets another state.
LEMMA JobMoves ==
    ASSUME TypeInv, NEW g \in DOMAIN job, NEW s \in JobStates,
           s.at # "idle" => s.zone \in Zones, job' = [job EXCEPT ![g] = s]
    PROVE  job' \in [ZoneJobs \cup ProfJobs -> JobStates] /\ JobInv'
  BY DEF TypeInv, TypeOK, JobInv

\* What a write leaves in the file.
LEMMA WrittenType ==
    ASSUME TypeInv, NEW w \in Writers, writer[w].zone \in Zones,
           NEW kind \in {"full", "garbled"}, NEW v \in Nat, NEW e \in [Backends -> Flags],
           NEW c \in Written(w, Content(kind, v, e))
    PROVE  c \in FileContents /\ c.version = v
<1>1. Content(kind, v, e) \in FileContents /\ Content(kind, v, e).version = v
  BY ContentKinds
<1>2. QED
  BY <1>1, ContentKinds DEF Written

\* A step of a write fills the file of the writer's zone.
LEMMA WriteFills ==
    ASSUME TypeInv, NEW w \in Writers, Write(w)
    PROVE  /\ writer[w].zone \in Zones
           /\ clock' \in {clock, clock + 1}
           /\ \E c \in FileContents :
                /\ file' = [file EXCEPT ![writer[w].zone] = c]
                /\ c.kind = "full" => c.version = clock + 1 /\ clock' = clock + 1
           /\ Touch(writer[w].zone) /\ saves' = saves /\ Writing
           /\ writer' \in [Writers -> WriterStates] /\ WriterInv'
<1>1. /\ writer[w].zone \in Zones /\ writer[w] \in WriterStates
      /\ clock \in Nat /\ clock + 1 \in Nat /\ writer[w].enable \in [Backends -> Flags]
  BY DEF TypeInv, TypeOK, WriterInv, Write, Truncate, WritePart, WriteAll, WriterStates
<1>2. CASE Truncate(w)
  <2> DEFINE s == [writer[w] EXCEPT !.at = "truncated", !.left = Empty]
  <2>1. s \in WriterStates /\ s.zone = writer[w].zone
    BY <1>1, ContentKinds DEF WriterStates
  <2>2. writer' = [writer EXCEPT ![w] = s]
    BY <1>2 DEF Truncate
  <2>3. writer' \in [Writers -> WriterStates] /\ WriterInv'
    BY <1>1, <2>1, <2>2, WriterMoves
  <2>4. QED
    BY <1>1, <1>2, <2>3, ContentKinds DEF Truncate
<1>3. CASE WritePart(w)
  <2>1. PICK S \in SUBSET Backends \ {Backends}, kind \in {"full", "garbled"} :
          LET flags == [b \in Backends |-> IF kind = "full" /\ b \in S
                                           THEN writer[w].enable[b] ELSE Nothing]
          IN \E c \in Written(w, Content(kind, clock + 1, flags)) :
               /\ file' = [file EXCEPT ![writer[w].zone] = c]
               /\ writer' = [writer EXCEPT ![w].at = "partly", ![w].left = c]
    BY <1>3 DEF WritePart
  <2> DEFINE flags == [b \in Backends |-> IF kind = "full" /\ b \in S
                                          THEN writer[w].enable[b] ELSE Nothing]
  <2>2. PICK c \in Written(w, Content(kind, clock + 1, flags)) :
               /\ file' = [file EXCEPT ![writer[w].zone] = c]
               /\ writer' = [writer EXCEPT ![w].at = "partly", ![w].left = c]
    BY <2>1
  <2>3. flags \in [Backends -> Flags]
    BY <1>1 DEF Flags
  <2> HIDE DEF flags
  <2>4. c \in FileContents /\ c.version = clock + 1
    BY <1>1, <2>3, WrittenType
  <2> DEFINE s == [writer[w] EXCEPT !.at = "partly", !.left = c]
  <2>5. s \in WriterStates /\ s.zone = writer[w].zone
    BY <1>1, <2>4 DEF WriterStates
  <2>6. writer' = [writer EXCEPT ![w] = s]
    BY <2>2
  <2>7. writer' \in [Writers -> WriterStates] /\ WriterInv'
    BY <1>1, <2>5, <2>6, WriterMoves
  <2>8. QED
    BY <1>1, <1>3, <2>2, <2>4, <2>7 DEF WritePart
<1>4. CASE WriteAll(w)
  <2>1. PICK c \in Written(w, Content("full", clock + 1, writer[w].enable)) :
               file' = [file EXCEPT ![writer[w].zone] = c]
    BY <1>4 DEF WriteAll
  <2>2. c \in FileContents /\ c.version = clock + 1
    BY <1>1, WrittenType
  <2> DEFINE s == IF w = Operator THEN IdleWriter
                  ELSE [IdleWriter EXCEPT !.at = "next", !.todo = writer[w].todo]
  <2>3. s \in WriterStates /\ s.at \in {"idle", "next"}
    BY <1>1, ContentKinds DEF WriterStates, IdleWriter
  <2>4. writer' = [writer EXCEPT ![w] = s]
    BY <1>4 DEF WriteAll
  <2>5. writer' \in [Writers -> WriterStates] /\ WriterInv'
    BY <2>3, <2>4, WriterMoves
  <2>6. QED
    BY <1>1, <1>4, <2>1, <2>2, <2>5 DEF WriteAll
<1>5. QED
  BY <1>2, <1>3, <1>4 DEF Write

LEMMA WriteType ==
    ASSUME TypeInv, NEW w \in Writers, Write(w)
    PROVE  TypeInv'
<1>1. /\ file' \in [Zones -> FileContents] /\ event' \in [Zones -> BOOLEAN]
      /\ clock' \in Nat /\ saves' \in 0..MaxSaves
  BY WriteFills DEF Touch, TypeInv, TypeOK
<1>2. QED
  BY <1>1, WriteFills, WriterFrame

\* The requests and the operator.
LEMMA WriterType ==
    ASSUME TypeInv,
           \/ \E r \in Requests : Request(r)
           \/ \E w \in Writers : Write(w)
           \/ \E z \in Zones, e \in [Backends -> BOOLEAN] : Save(z, e)
    PROVE  TypeInv'
<1>0. /\ \A r \in Requests : r \in Writers
      /\ Operator \in Writers
  BY DEF Writers
<1>1. /\ file \in [Zones -> FileContents] /\ event \in [Zones -> BOOLEAN]
      /\ clock \in Nat /\ saves \in 0..MaxSaves
      /\ \A w \in Writers : writer[w] \in WriterStates
  BY DEF TypeInv, TypeOK
<1>2. ASSUME NEW r \in Requests, ApiStart(r) PROVE TypeInv'
  <2>1. writer' = [writer EXCEPT ![r] = [writer[r] EXCEPT !.at = "next", !.todo = Zones]]
    BY <1>2 DEF ApiStart
  <2>2. [writer[r] EXCEPT !.at = "next", !.todo = Zones] \in WriterStates
    BY <1>0, <1>1 DEF WriterStates
  <2>3. writer' \in [Writers -> WriterStates] /\ WriterInv'
    BY <1>0, <1>1, <2>1, <2>2, WriterMoves DEF WriterStates
  <2>4. QED
    BY <1>1, <1>2, <2>3, WriterFrame DEF ApiStart
<1>3. ASSUME NEW r \in Requests, NEW z \in Zones, ApiRead(r, z) PROVE TypeInv'
  <2>2. writer[r] \in WriterStates /\ writer[r].at = "next"
    BY <1>0, <1>1, <1>3 DEF ApiRead
  <2>3. CASE file[z].kind = "empty"
    <3> DEFINE s == [writer[r] EXCEPT !.todo = @ \ {z}]
    <3>1. writer' = [writer EXCEPT ![r] = s]
      BY <1>3, <2>3 DEF ApiRead
    <3>2. s \in WriterStates /\ s.at = "next"
      BY <2>2 DEF WriterStates
    <3>3. writer' \in [Writers -> WriterStates] /\ WriterInv'
      BY <1>0, <3>1, <3>2, WriterMoves
    <3>4. QED
      BY <1>1, <1>3, <3>3, WriterFrame DEF ApiRead
  <2>4. CASE file[z].kind = "garbled"
    <3> DEFINE s == [IdleWriter EXCEPT !.at = "failed"]
    <3>1. writer' = [writer EXCEPT ![r] = s]
      BY <1>3, <2>4 DEF ApiRead
    <3>2. s \in WriterStates /\ s.at = "failed"
      BY ContentKinds DEF IdleWriter, WriterStates
    <3>3. writer' \in [Writers -> WriterStates] /\ WriterInv'
      BY <1>0, <3>1, <3>2, WriterMoves
    <3>4. QED
      BY <1>1, <1>3, <3>3, WriterFrame DEF ApiRead
  <2>5. CASE file[z].kind \notin {"empty", "garbled"}
    <3>1. file[z].enable \in [Backends -> Flags]
      BY <1>1, ContentFields
    <3>2. Updated(r, file[z].enable) \in [Backends -> Flags]
      BY <3>1, ConstantsAssumption DEF Updated, Flags
    <3> DEFINE s == [writer[r] EXCEPT !.at = "read", !.zone = z, !.todo = @ \ {z},
                                      !.enable = Updated(r, file[z].enable)]
    <3>3. writer' = [writer EXCEPT ![r] = s]
      BY <1>3, <2>5 DEF ApiRead
    <3>4. s \in WriterStates /\ s.zone = z /\ s.enable = Updated(r, file[z].enable)
      BY <2>2, <3>2 DEF WriterStates
    <3>5. writer' \in [Writers -> WriterStates] /\ WriterInv'
      BY <1>0, <3>2, <3>3, <3>4, WriterMoves
    <3>6. QED
      BY <1>1, <1>3, <3>5, WriterFrame DEF ApiRead
  <2>6. QED
    BY <2>3, <2>4, <2>5
<1>4. ASSUME NEW r \in Requests, NEW s \in WriterStates, writer' = [writer EXCEPT ![r] = s],
             s.at \in {"failed", "ok"}, UNCHANGED <<file, clock, saves, event>>, Writing
      PROVE  TypeInv'
  <2>1. writer' \in [Writers -> WriterStates] /\ WriterInv'
    BY <1>0, <1>4, WriterMoves
  <2>2. QED
    BY <1>1, <1>4, <2>1, WriterFrame
<1>5. ASSUME NEW w \in Writers, Write(w) PROVE TypeInv'
  BY <1>5, WriteType
<1>7. ASSUME NEW z \in Zones, NEW e \in [Backends -> BOOLEAN], Save(z, e) PROVE TypeInv'
  <2> DEFINE s == [writer[Operator] EXCEPT !.at = "read", !.zone = z, !.enable = e]
  <2>0. e \in [Backends -> Flags]
    BY <1>7 DEF Flags
  <2>1. saves' \in 0..MaxSaves
    <3>1. saves \in 0..MaxSaves /\ saves < MaxSaves /\ saves' = saves + 1
      BY <1>1, <1>7 DEF Save
    <3>2. QED
      BY <3>1, Bounds
  <2>2. writer' = [writer EXCEPT ![Operator] = s]
    BY <1>7 DEF Save
  <2>3. s \in WriterStates /\ s.zone = z /\ s.enable = e
    BY <1>0, <1>1, <2>0 DEF WriterStates
  <2>4. writer' \in [Writers -> WriterStates] /\ WriterInv'
    BY <1>0, <2>2, <2>3, WriterMoves
  <2>5. QED
    BY <1>1, <1>7, <2>1, <2>4, WriterFrame DEF Save
<1>8. ASSUME NEW r \in Requests, ApiFails(r) PROVE TypeInv'
  <2> DEFINE s == [IdleWriter EXCEPT !.at = "failed"]
  <2>1. s \in WriterStates /\ s.at = "failed"
    BY ContentKinds DEF IdleWriter, WriterStates
  <2>2. QED
    BY <1>4, <1>8, <2>1 DEF ApiFails
<1>9. ASSUME NEW r \in Requests, ApiSucceeds(r) PROVE TypeInv'
  <2> DEFINE s == [writer[r] EXCEPT !.at = "ok"]
  <2>1. s \in WriterStates /\ s.at = "ok"
    BY <1>0, <1>1 DEF WriterStates
  <2>2. writer' = [writer EXCEPT ![r] = s]
    BY <1>9 DEF ApiSucceeds
  <2>3. QED
    BY <1>4, <1>9, <2>1, <2>2 DEF ApiSucceeds
<1>10. QED
  BY <1>2, <1>3, <1>5, <1>7, <1>8, <1>9 DEF Request

\* The watchers and the reloads of zones.
LEMMA ReloadType ==
    ASSUME TypeInv,
           \/ \E z \in Zones : WatchStarts(z) \/ WatchEvent(z) \/ TimerFires(z)
           \/ \E g \in DOMAIN job : Reload(g)
    PROVE  TypeInv'
<1>1. /\ watching \in [Zones -> BOOLEAN] /\ event \in [Zones -> BOOLEAN]
      /\ timer \in [Zones -> BOOLEAN] /\ file \in [Zones -> FileContents]
      /\ job \in [ZoneJobs \cup ProfJobs -> JobStates] /\ JobInv
      /\ DOMAIN job = ZoneJobs \cup ProfJobs
      /\ applied \in [Zones -> [content : FullContents, profile : Versions]]
      /\ profiles \in ProfileStates /\ profJob \in [ProfJobs -> ProfJobStates]
  BY DEF TypeInv, TypeOK
<1>2. ASSUME NEW z \in Zones, WatchStarts(z) \/ WatchEvent(z) PROVE TypeInv'
  <2>1. /\ watching' \in [Zones -> BOOLEAN] /\ event' \in [Zones -> BOOLEAN]
        /\ timer' \in [Zones -> BOOLEAN] /\ UNCHANGED <<fileVars, job, applied, profVars>>
    BY <1>1, <1>2 DEF WatchStarts, WatchEvent
  <2>2. JobInv'
    BY <1>1, <2>1 DEF JobInv
  <2>3. QED
    BY <1>1, <2>1, <2>2, ReloadFrame DEF profVars
<1>3. ASSUME NEW z \in Zones, TimerFires(z) PROVE TypeInv'
  <2>1. PICK g \in ZoneJobs :
               job' = [job EXCEPT ![g] = [job[g] EXCEPT !.at = "waiting", !.zone = z]]
    BY <1>3 DEF TimerFires
  <2> DEFINE s == [job[g] EXCEPT !.at = "waiting", !.zone = z]
  <2>2. g \in DOMAIN job /\ s \in JobStates /\ s.zone = z
    BY <1>1 DEF JobStates
  <2>3. job' \in [ZoneJobs \cup ProfJobs -> JobStates] /\ JobInv'
    BY <2>1, <2>2, JobMoves
  <2>4. timer' \in [Zones -> BOOLEAN]
        /\ UNCHANGED <<fileVars, watching, event, applied, profVars>>
    BY <1>1, <1>3 DEF TimerFires
  <2>5. QED
    BY <1>1, <2>3, <2>4, ReloadFrame DEF profVars
<1>4. ASSUME NEW g \in DOMAIN job, ReloadReads(g) PROVE TypeInv'
  <2> DEFINE s == [job[g] EXCEPT !.at = "holding", !.content = file[job[g].zone]]
  <2>1. job[g].zone \in Zones
    BY <1>1, <1>4 DEF JobInv, ReloadReads
  <2>2. s \in JobStates /\ s.zone = job[g].zone
    BY <1>1, <2>1 DEF JobStates
  <2>3. job' = [job EXCEPT ![g] = s]
    BY <1>4 DEF ReloadReads
  <2>4. job' \in [ZoneJobs \cup ProfJobs -> JobStates] /\ JobInv'
    BY <2>1, <2>2, <2>3, JobMoves
  <2>5. QED
    BY <1>1, <1>4, <2>4, ReloadFrame DEF ReloadReads, watchVars, profVars
<1>5. ASSUME NEW g \in DOMAIN job, ReloadApplies(g) PROVE TypeInv'
  <2>1. /\ job[g].zone \in Zones /\ profiles.global \in Versions
        /\ job[g].content \in FileContents
    BY <1>1, <1>5 DEF JobInv, ReloadApplies, JobStates, ProfileStates
  <2>2. applied' \in [Zones -> [content : FullContents, profile : Versions]]
    BY <1>1, <1>5, <2>1, FullIs DEF ReloadApplies, Loadable
  <2>3. IdleJob \in JobStates /\ IdleJob.at = "idle"
    BY ContentKinds DEF IdleJob, JobStates
  <2>4. job' \in [ZoneJobs \cup ProfJobs -> JobStates] /\ JobInv'
    BY <1>5, <2>3, JobMoves DEF ReloadApplies
  <2>5. QED
    BY <1>1, <1>5, <2>2, <2>4, ReloadFrame DEF ReloadApplies, watchVars, profVars
<1>6. QED
  BY <1>2, <1>3, <1>4, <1>5 DEF Reload

\* The profiles.
LEMMA ProfilesType ==
    ASSUME TypeInv,
           \/ \E v \in Saved : SaveProfiles(v)
           \/ ProfilesWatchStarts
           \/ ProfilesEvent
           \/ \E p \in ProfJobs : ProfilesStep(p)
    PROVE  TypeInv'
<1>1. /\ watching \in [Zones -> BOOLEAN] /\ event \in [Zones -> BOOLEAN]
      /\ timer \in [Zones -> BOOLEAN]
      /\ job \in [ZoneJobs \cup ProfJobs -> JobStates] /\ JobInv
      /\ DOMAIN job = ZoneJobs \cup ProfJobs
      /\ applied \in [Zones -> [content : FullContents, profile : Versions]]
      /\ profiles \in ProfileStates /\ profJob \in [ProfJobs -> ProfJobStates]
  BY DEF TypeInv, TypeOK
<1>2. ASSUME NEW v \in Saved, SaveProfiles(v) PROVE TypeInv'
  <2>1. v \in Versions \cup {Unreadable} /\ profiles.saves + 1 \in 0..MaxProfileSaves
    <3>1. profiles.saves \in 0..MaxProfileSaves /\ profiles.saves < MaxProfileSaves
      BY <1>1, <1>2 DEF SaveProfiles, ProfileStates
    <3>2. 1..MaxProfileSaves \subseteq 0..MaxProfileSaves
      BY Bounds
    <3>3. QED
      BY <1>2, <3>1, <3>2, Bounds DEF Versions, Saved
  <2>2. profiles' \in ProfileStates
    BY <1>1, <1>2, <2>1 DEF SaveProfiles, ProfileStates
  <2>3. JobInv'
    BY <1>1, <1>2 DEF SaveProfiles, JobInv
  <2>4. QED
    BY <1>1, <1>2, <2>2, <2>3, ReloadFrame DEF SaveProfiles, watchVars
<1>3. CASE ProfilesEvent \/ ProfilesWatchStarts
  <2>1. profiles' \in ProfileStates
    BY <1>1, <1>3 DEF ProfilesEvent, ProfilesWatchStarts, ProfileStates
  <2>2. JobInv'
    BY <1>1, <1>3 DEF ProfilesEvent, ProfilesWatchStarts, JobInv
  <2>3. QED
    BY <1>1, <1>3, <2>1, <2>2, ReloadFrame DEF ProfilesEvent, ProfilesWatchStarts, watchVars
<1>4. ASSUME NEW p \in ProfJobs, ProfilesRead(p) \/ ProfilesStore(p) PROVE TypeInv'
  <2>1. profJob[p] \in ProfJobStates /\ profJob[p].read \in Versions
        /\ profiles.inFile \in Versions \cup {Unreadable}
    BY <1>1 DEF ProfJobStates, ProfileStates
  <2>2. profiles' \in ProfileStates
    BY <1>1, <1>4, <2>1 DEF ProfilesRead, ProfilesStore, ProfileStates
  <2>3. profJob' \in [ProfJobs -> ProfJobStates]
    <3>1. CASE ProfilesRead(p)
      BY <1>1, <2>1, <3>1 DEF ProfilesRead, ProfJobStates
    <3>2. CASE ProfilesStore(p)
      <4>1. profJob' = [profJob EXCEPT ![p] = [profJob[p] EXCEPT !.at = "zones", !.todo = Zones]]
        BY <3>2 DEF ProfilesStore
      <4>2. [profJob[p] EXCEPT !.at = "zones", !.todo = Zones] \in ProfJobStates
        BY <2>1 DEF ProfJobStates
      <4>3. QED
        BY <1>1, <4>1, <4>2
    <3>3. QED
      BY <1>4, <3>1, <3>2
  <2>4. JobInv' /\ UNCHANGED <<fileVars, watchVars, job, applied>>
    BY <1>1, <1>4 DEF ProfilesRead, ProfilesStore, JobInv
  <2>5. QED
    BY <1>1, <2>2, <2>3, <2>4, ReloadFrame DEF watchVars
<1>5. ASSUME NEW p \in ProfJobs, NEW z \in Zones, ProfilesReload(p, z) PROVE TypeInv'
  <2> DEFINE s == [job[p] EXCEPT !.at = "waiting", !.zone = z]
  <2>1. s \in JobStates /\ s.zone = z /\ p \in DOMAIN job
    BY <1>1 DEF JobStates
  <2>2. job' = [job EXCEPT ![p] = s]
    BY <1>5 DEF ProfilesReload
  <2>3. job' \in [ZoneJobs \cup ProfJobs -> JobStates] /\ JobInv'
    BY <2>1, <2>2, JobMoves
  <2>4. profJob' = [profJob EXCEPT ![p] = [profJob[p] EXCEPT !.todo = @ \ {z}]]
    BY <1>5 DEF ProfilesReload
  <2>5. [profJob[p] EXCEPT !.todo = @ \ {z}] \in ProfJobStates
    BY <1>1 DEF ProfJobStates
  <2>6. profJob' \in [ProfJobs -> ProfJobStates]
    BY <1>1, <2>4, <2>5
  <2>7. QED
    BY <1>1, <1>5, <2>3, <2>6, ReloadFrame DEF ProfilesReload, watchVars
<1>6. ASSUME NEW p \in ProfJobs, ProfilesDone(p) PROVE TypeInv'
  <2>1. IdleProfJob \in ProfJobStates
    BY Bounds DEF IdleProfJob, Versions, ProfJobStates
  <2>2. profJob' \in [ProfJobs -> ProfJobStates]
    BY <1>1, <1>6, <2>1 DEF ProfilesDone
  <2>3. JobInv'
    BY <1>1, <1>6 DEF ProfilesDone, JobInv
  <2>4. QED
    BY <1>1, <1>6, <2>2, <2>3, ReloadFrame DEF ProfilesDone, watchVars
<1>7. QED
  BY <1>2, <1>3, <1>4, <1>5, <1>6 DEF ProfilesStep

LEMMA TypeStep == TypeInv /\ [Next]_vars => TypeInv'
<1>1. SUFFICES ASSUME TypeInv, [Next]_vars PROVE TypeInv'
  OBVIOUS
<1>2. CASE UNCHANGED vars
  BY <1>1, <1>2 DEF TypeInv, TypeOK, WriterInv, JobInv, vars, fileVars, watchVars, profVars
<1>3. CASE Next
  BY <1>1, <1>3, WriterType, ReloadType, ProfilesType DEF Next
<1>4. QED
  BY <1>1, <1>2, <1>3

\* Every reachable state of the configuration pipeline is well typed.
THEOREM TypeCorrect == Spec => []TypeOK
<1>1. Spec => []TypeInv
  BY TypeInit, TypeStep, PTL DEF Spec
<1>2. TypeInv => TypeOK
  BY DEF TypeInv
<1>3. QED
  BY <1>1, <1>2, PTL

----------------------------------------------------------------------------
(***************************************************************************)
(* Only three kinds of steps matter to what is loaded.                     *)
(***************************************************************************)

\* The reload that holds g.Mutex goes on holding it.
KeepsHolding ==
    /\ DOMAIN job' = DOMAIN job
    /\ \A g \in DOMAIN job :
         /\ job'[g].at = "holding" <=> job[g].at = "holding"
         /\ job[g].at = "holding" => job'[g] = job[g]

\* A step that is not about the content of a file or of the records.
Aside == KeepsHolding /\ UNCHANGED <<file, clock, applied>>

LEMMA JobSetsOut ==
    ASSUME TypeInv, NEW g \in DOMAIN job, NEW z, job[g].at = "idle",
           job' = [job EXCEPT ![g] = [@ EXCEPT !.at = "waiting", !.zone = z]]
    PROVE  KeepsHolding
<1>1. /\ DOMAIN job' = DOMAIN job
      /\ \A h \in DOMAIN job \ {g} : job'[h] = job[h]
  OBVIOUS
<1>2. job[g] \in JobStates
  BY DEF TypeInv, TypeOK
<1>3. job'[g].at = "waiting"
  BY <1>2 DEF JobStates
<1>4. QED
  BY <1>1, <1>3 DEF KeepsHolding

LEMMA StepKinds ==
    ASSUME TypeInv, [Next]_vars
    PROVE  \/ Aside
           \/ \E w \in Writers : Write(w)
           \/ \E g \in DOMAIN job : ReloadReads(g) \/ ReloadApplies(g)
<1>1. CASE UNCHANGED vars
  BY <1>1 DEF Aside, KeepsHolding, vars, fileVars
<1>2. ASSUME NEW r \in Requests, Request(r) PROVE Aside
  BY <1>2 DEF Request, ApiStart, ApiRead, ApiFails, ApiSucceeds, Writing, Aside, KeepsHolding
<1>3. ASSUME NEW z \in Zones, NEW e \in [Backends -> BOOLEAN], Save(z, e) PROVE Aside
  BY <1>3 DEF Save, Writing, Aside, KeepsHolding
<1>4. ASSUME NEW z \in Zones, WatchStarts(z) \/ WatchEvent(z) PROVE Aside
  BY <1>4 DEF WatchStarts, WatchEvent, fileVars, Aside, KeepsHolding
<1>5. ASSUME NEW z \in Zones, TimerFires(z) PROVE Aside
  <2>1. PICK g \in ZoneJobs :
          /\ job[g].at = "idle"
          /\ job' = [job EXCEPT ![g] = [@ EXCEPT !.at = "waiting", !.zone = z]]
    BY <1>5 DEF TimerFires
  <2>2. g \in DOMAIN job
    BY DEF TypeInv, TypeOK
  <2>3. KeepsHolding
    BY <2>1, <2>2, JobSetsOut
  <2>4. QED
    BY <1>5, <2>3 DEF TimerFires, fileVars, Aside
<1>6. ASSUME NEW v \in Saved, SaveProfiles(v) PROVE Aside
  BY <1>6 DEF SaveProfiles, fileVars, Aside, KeepsHolding
<1>7. CASE ProfilesEvent \/ ProfilesWatchStarts
  BY <1>7 DEF ProfilesEvent, ProfilesWatchStarts, fileVars, Aside, KeepsHolding
<1>8. ASSUME NEW p \in ProfJobs, ProfilesStep(p) PROVE Aside
  <2>1. CASE ProfilesRead(p) \/ ProfilesStore(p) \/ ProfilesDone(p)
    BY <2>1 DEF ProfilesRead, ProfilesStore, ProfilesDone, fileVars, Aside, KeepsHolding
  <2>2. ASSUME NEW z \in Zones, ProfilesReload(p, z) PROVE Aside
    <3>1. p \in DOMAIN job
      BY DEF TypeInv, TypeOK
    <3>2. KeepsHolding
      BY <2>2, <3>1, JobSetsOut DEF ProfilesReload
    <3>3. QED
      BY <2>2, <3>2 DEF ProfilesReload, fileVars, Aside
  <2>3. QED
    BY <1>8, <2>1, <2>2 DEF ProfilesStep
<1>9. QED
  BY <1>1, <1>2, <1>3, <1>4, <1>5, <1>6, <1>7, <1>8 DEF Next, Reload

\* A write leaves the reloads and the records alone.
LEMMA WriteKeeps ==
    ASSUME NEW w \in Writers, Write(w)
    PROVE  KeepsHolding /\ UNCHANGED <<job, applied>>
  BY DEF Write, Truncate, WritePart, WriteAll, Writing, KeepsHolding

LEMMA MutexStep == TypeInv /\ MutexInv /\ [Next]_vars => MutexInv'
<1>1. SUFFICES ASSUME TypeInv, MutexInv, [Next]_vars PROVE MutexInv'
  OBVIOUS
<1>2. CASE KeepsHolding
  BY <1>1, <1>2 DEF MutexInv, KeepsHolding
<1>3. ASSUME NEW g \in DOMAIN job, ReloadReads(g) PROVE MutexInv'
  <2>1. /\ DOMAIN job' = DOMAIN job
        /\ \A h \in DOMAIN job \ {g} : job'[h].at # "holding"
    BY <1>3 DEF ReloadReads, Unlocked
  <2>2. QED
    BY <2>1 DEF MutexInv
<1>4. ASSUME NEW g \in DOMAIN job, ReloadApplies(g) PROVE MutexInv'
  <2>1. /\ DOMAIN job' = DOMAIN job
        /\ job'[g].at = "idle"
        /\ \A h \in DOMAIN job \ {g} : job'[h] = job[h]
    BY <1>4 DEF ReloadApplies, IdleJob
  <2>2. QED
    BY <1>1, <2>1 DEF MutexInv
<1>5. QED
  BY <1>1, <1>2, <1>3, <1>4, StepKinds, WriteKeeps DEF Aside

----------------------------------------------------------------------------
(***************************************************************************)
(* The refinement.                                                         *)
(***************************************************************************)

\* There is one reload to choose.
LEMMA OneHolder ==
    ASSUME NEW j, NEW g \in DOMAIN j, j[g].at = "holding",
           \A h \in DOMAIN j : j[h].at = "holding" => h = g
    PROVE  (CHOOSE h \in DOMAIN j : j[h].at = "holding") = g
  OBVIOUS

LEMMA HeldIs ==
    ASSUME TypeInv, MutexInv, NEW g \in DOMAIN job, job[g].at = "holding"
    PROVE  /\ Held = [file |-> job[g].zone, content |-> job[g].content]
           /\ Held # Nothing
<1>1. (CHOOSE h \in DOMAIN job : job[h].at = "holding") = g
  BY OneHolder DEF MutexInv
<1>2. Held = [file |-> job[g].zone, content |-> job[g].content]
  BY <1>1 DEF Held
<1>3. job[g].zone \in Zones /\ job[g].content \in FileContents
  BY DEF TypeInv, TypeOK, JobInv, JobStates
<1>4. [file |-> job[g].zone, content |-> job[g].content] # Nothing
  BY <1>3, ConstantsAssumption
<1>5. QED
  BY <1>2, <1>4

LEMMA HeldWillBe ==
    ASSUME MutexInv', NEW g \in DOMAIN job', job'[g].at = "holding"
    PROVE  Held' = [file |-> job'[g].zone, content |-> job'[g].content]
<1>1. (CHOOSE h \in DOMAIN job' : job'[h].at = "holding") = g
  BY OneHolder DEF MutexInv
<1>2. QED
  BY <1>1 DEF Held

LEMMA HeldStays ==
    ASSUME TypeInv, MutexInv, MutexInv', KeepsHolding
    PROVE  Held' = Held
<1>1. CASE Unlocked
  BY <1>1 DEF Held, Unlocked, KeepsHolding
<1>2. ASSUME NEW g \in DOMAIN job, job[g].at = "holding" PROVE Held' = Held
  BY <1>2, HeldIs, HeldWillBe DEF KeepsHolding
<1>3. QED
  BY <1>1, <1>2 DEF Unlocked

\* The content of the records of each zone.
Used == [z \in Zones |-> applied[z].content]

LEMMA LoaderInit == Init => Loader!Init
<1>1. SUFFICES ASSUME Init PROVE Loader!Init
  OBVIOUS
<1>2. file \in [Zones -> FileContents]
  BY <1>1, TypeInit DEF TypeInv, TypeOK
<1>3. Held = Nothing
  BY <1>1 DEF Init, IdleJob, Held
<1>4. Used = file
  BY <1>1, <1>2 DEF Init, Used
<1>5. QED
  BY <1>2, <1>3, <1>4 DEF Loader!Init, Used

\* A write of a zone file is a change of its content.
LEMMA WriteChanges ==
    ASSUME TypeInv, TypeInv', MutexInv, MutexInv',
           NEW w \in Writers, Write(w)
    PROVE  \E z \in Zones : Loader!Change(z)
<1>1. Held' = Held /\ Used' = Used
  BY WriteKeeps, HeldStays DEF Used
<1>2. writer[w].zone \in Zones
  BY WriteFills
<1>3. PICK c : file' = [file EXCEPT ![writer[w].zone] = c]
  BY WriteFills
<1>4. file'[writer[w].zone] \in FileContents /\ file'[writer[w].zone] = c
  BY <1>2, <1>3 DEF TypeInv, TypeOK
<1>5. Loader!Change(writer[w].zone)
  BY <1>1, <1>3, <1>4 DEF Loader!Change, Used
<1>6. QED
  BY <1>2, <1>5

LEMMA ReadReads ==
    ASSUME TypeInv, MutexInv, MutexInv', NEW g \in DOMAIN job, ReloadReads(g)
    PROVE  \E z \in Zones : Loader!Read(z)
<1>1. Held = Nothing
  BY DEF ReloadReads, Unlocked, Held
<1>2. job[g].zone \in Zones /\ job[g] \in JobStates
  BY DEF TypeInv, TypeOK, JobInv, ReloadReads
<1>3. /\ g \in DOMAIN job' /\ job'[g].at = "holding" /\ job'[g].zone = job[g].zone
      /\ job'[g].content = file[job[g].zone]
  BY <1>2 DEF ReloadReads, JobStates
<1>4. Held' = [file |-> job[g].zone, content |-> file[job[g].zone]]
  BY <1>3, HeldWillBe
<1>5. UNCHANGED <<file, applied>>
  BY DEF ReloadReads, fileVars
<1>6. Loader!Read(job[g].zone)
  BY <1>1, <1>4, <1>5 DEF Loader!Read
<1>7. QED
  BY <1>2, <1>6

LEMMA ApplyUses ==
    ASSUME TypeInv, MutexInv, NEW g \in DOMAIN job, ReloadApplies(g)
    PROVE  Loader!Use \/ Loader!Refuse
<1>1. /\ Held = [file |-> job[g].zone, content |-> job[g].content] /\ Held # Nothing
      /\ Held.file = job[g].zone /\ Held.content = job[g].content
  BY HeldIs DEF ReloadApplies
<1>2. Held' = Nothing
  <2>1. /\ DOMAIN job' = DOMAIN job /\ job'[g].at = "idle"
        /\ \A h \in DOMAIN job \ {g} : job'[h] = job[h]
    BY DEF ReloadApplies, IdleJob
  <2>2. \A h \in DOMAIN job' : job'[h].at # "holding"
    BY <2>1 DEF MutexInv, ReloadApplies
  <2>3. QED
    BY <2>2 DEF Held
<1>3. file' = file /\ job[g].zone \in Zones /\ job[g].content \in FileContents
  BY DEF ReloadApplies, fileVars, TypeInv, TypeOK, JobInv, JobStates
<1>4. CASE Loadable(g)
  <2>1. job[g].content \in FullContents
    BY <1>3, <1>4, FullIs DEF Loadable
  <2>2. applied' = [applied EXCEPT ![job[g].zone] =
                      [content |-> job[g].content, profile |-> profiles.global]]
    BY <1>4 DEF ReloadApplies
  <2>3. Used' = [Used EXCEPT ![job[g].zone] = job[g].content]
    BY <1>3, <2>2 DEF TypeInv, TypeOK, Used
  <2>4. Loader!Use
    BY <1>1, <1>2, <1>3, <2>1, <2>3 DEF Loader!Use, Used
  <2>5. QED
    BY <2>4
<1>5. CASE ~Loadable(g)
  <2>1. job[g].content \in FullContents => job[g].zone \in UsesProfiles
    BY <1>5, FullIs DEF Loadable, ProfilesKnown
  <2>2. applied' = applied
    BY <1>5 DEF ReloadApplies
  <2>3. Loader!Refuse
    BY <1>1, <1>2, <1>3, <2>1, <2>2 DEF Loader!Refuse
  <2>4. QED
    BY <2>3
<1>6. QED
  BY <1>4, <1>5

LEMMA LoaderStep ==
    ASSUME TypeInv, TypeInv', MutexInv, MutexInv', [Next]_vars
    PROVE  [Loader!Next]_Loader!vars
<1>1. CASE Aside
  <2>1. Held' = Held /\ UNCHANGED <<file, applied>>
    BY <1>1, HeldStays DEF Aside
  <2>2. QED
    BY <2>1 DEF Loader!vars
<1>2. ASSUME NEW w \in Writers, Write(w) PROVE Loader!Next
  BY <1>2, WriteChanges DEF Loader!Next
<1>3. ASSUME NEW g \in DOMAIN job, ReloadReads(g) PROVE Loader!Next
  BY <1>3, ReadReads DEF Loader!Next
<1>4. ASSUME NEW g \in DOMAIN job, ReloadApplies(g) PROVE Loader!Next
  BY <1>4, ApplyUses DEF Loader!Next
<1>5. QED
  BY <1>1, <1>2, <1>3, <1>4, StepKinds

LEMMA MutexInit == Init => MutexInv
  BY DEF Init, MutexInv, IdleJob

\* The reload goroutines of timers and profiles implement one loader that reads a
\* file and is done with it before it reads the next.
THEOREM LoadsAlwaysLikeOne == Spec => LoadsLikeOne
<1>1. Spec => [](TypeInv /\ MutexInv)
  BY TypeInit, TypeStep, MutexInit, MutexStep, PTL DEF Spec
<1>2. (TypeInv /\ MutexInv) /\ (TypeInv /\ MutexInv)' /\ [Next]_vars
        => [Loader!Next]_Loader!vars
  BY LoaderStep
<1>3. QED
  BY <1>1, <1>2, LoaderInit, PTL DEF Spec, LoadsLikeOne, Loader!Spec

----------------------------------------------------------------------------
(***************************************************************************)
(* No way back.                                                            *)
(***************************************************************************)

LEMMA VersionInit == Init => VersionInv
<1>1. SUFFICES ASSUME Init PROVE VersionInv
  OBVIOUS
<1>2. \A z \in Zones : file[z].version = 0 /\ applied[z].content.version = 0
  BY <1>1 DEF Init, Content
<1>3. \A g \in DOMAIN job : job[g].at = "idle"
  BY <1>1 DEF Init, IdleJob
<1>4. clock = 0
  BY <1>1 DEF Init
<1>5. QED
  BY <1>2, <1>3, <1>4 DEF VersionInv

\* The versions are numbers.
LEMMA VersionTypes ==
    ASSUME TypeInv
    PROVE  /\ clock \in Nat
           /\ \A z \in Zones : applied[z].content.version \in Nat
           /\ \A z \in Zones : file[z].kind = "full" => file[z].version \in Nat
           /\ \A g \in DOMAIN job : job[g].content.kind = "full" =>
                job[g].content.version \in Nat
           /\ \A g \in DOMAIN job : job[g].at = "holding" => job[g].zone \in Zones
<1>1. \A z \in Zones : applied[z].content \in FullContents /\ file[z] \in FileContents
  BY DEF TypeInv, TypeOK
<1>2. \A g \in DOMAIN job : job[g].content \in FileContents
  BY DEF TypeInv, TypeOK, JobStates
<1>3. QED
  BY <1>1, <1>2, FullIs, ContentFields DEF TypeInv, TypeOK, JobInv

\* A file that is truncated or filled has no content, or a newer one than any.
LEMMA VersionWrite ==
    ASSUME TypeInv, VersionInv, NEW w \in Writers, Write(w)
    PROVE  VersionInv'
<1>1. writer[w].zone \in Zones
  BY WriteFills
<1>2. UNCHANGED <<job, applied>>
  BY WriteKeeps
<1>3. PICK c : /\ file' = [file EXCEPT ![writer[w].zone] = c]
               /\ c.kind = "full" => c.version = clock + 1 /\ clock' = clock + 1
  BY WriteFills
<1>4. \A z \in Zones \ {writer[w].zone} : file'[z] = file[z]
  BY <1>3
<1>5. file'[writer[w].zone] = c
  BY <1>1, <1>3 DEF TypeInv, TypeOK
<1>6. clock' \in {clock, clock + 1}
  BY WriteFills
<1>7. ASSUME NEW z \in Zones
      PROVE  /\ applied[z].content.version <= clock'
             /\ file'[z].kind = "full" =>
                  applied[z].content.version <= file'[z].version /\ file'[z].version <= clock'
  BY <1>3, <1>4, <1>5, <1>6, VersionTypes DEF VersionInv
<1>8. ASSUME NEW g \in DOMAIN job, job[g].at = "holding", job[g].content.kind = "full"
      PROVE  /\ applied[job[g].zone].content.version <= job[g].content.version
             /\ job[g].content.version <= clock'
             /\ file'[job[g].zone].kind = "full" =>
                  job[g].content.version <= file'[job[g].zone].version
  BY <1>3, <1>4, <1>5, <1>6, <1>8, VersionTypes DEF VersionInv
<1>9. QED
  BY <1>2, <1>7, <1>8 DEF VersionInv

LEMMA VersionStep ==
    ASSUME TypeInv, TypeInv', MutexInv, VersionInv, [Next]_vars
    PROVE  VersionInv'
<1>1. CASE Aside
  BY <1>1 DEF VersionInv, Aside, KeepsHolding
<1>2. ASSUME NEW w \in Writers, Write(w) PROVE VersionInv'
  BY <1>2, VersionWrite
<1>3. ASSUME NEW g \in DOMAIN job, ReloadReads(g) PROVE VersionInv'
  <2>1. job[g].zone \in Zones /\ job[g] \in JobStates
    BY <1>3 DEF TypeInv, TypeOK, JobInv, ReloadReads
  <2>2. /\ DOMAIN job' = DOMAIN job
        /\ job'[g].zone = job[g].zone /\ job'[g].content = file[job[g].zone]
        /\ \A h \in DOMAIN job \ {g} : job'[h].at # "holding"
        /\ UNCHANGED <<file, clock, applied>>
    BY <1>3, <2>1 DEF ReloadReads, Unlocked, JobStates, fileVars
  <2>3. QED
    BY <2>1, <2>2, VersionTypes DEF VersionInv
<1>4. ASSUME NEW g \in DOMAIN job, ReloadApplies(g) PROVE VersionInv'
  <2>1. /\ DOMAIN job' = DOMAIN job /\ job'[g].at = "idle"
        /\ \A h \in DOMAIN job \ {g} : job'[h] = job[h]
        /\ UNCHANGED <<file, clock>>
    BY <1>4 DEF ReloadApplies, IdleJob, fileVars
  <2>2. \A h \in DOMAIN job' : job'[h].at # "holding"
    BY <1>4, <2>1 DEF MutexInv, ReloadApplies
  <2>3. CASE Loadable(g)
    <3>1. applied' = [applied EXCEPT ![job[g].zone] =
                        [content |-> job[g].content, profile |-> profiles.global]]
      BY <1>4, <2>3 DEF ReloadApplies
    <3>2. \A z \in Zones : applied'[z].content =
                IF z = job[g].zone THEN job[g].content ELSE applied[z].content
      BY <3>1 DEF TypeInv, TypeOK
    <3>3. job[g].content.kind = "full" /\ job[g].at = "holding"
      BY <1>4, <2>3 DEF Loadable, ReloadApplies
    <3>4. QED
      BY <2>1, <2>2, <3>2, <3>3, VersionTypes DEF VersionInv
  <2>4. CASE ~Loadable(g)
    <3>1. applied' = applied
      BY <1>4, <2>4 DEF ReloadApplies
    <3>2. QED
      BY <2>1, <2>2, <3>1 DEF VersionInv
  <2>5. QED
    BY <2>3, <2>4
<1>5. QED
  BY <1>1, <1>2, <1>3, <1>4, StepKinds

\* A step that changes what is applied takes the content of the reload.
LEMMA AppliedGrows ==
    ASSUME IInv, [Next]_vars, NEW z \in Zones
    PROVE  applied'[z].content.version >= applied[z].content.version
<1>1. CASE applied' = applied
  BY <1>1, VersionTypes DEF IInv
<1>2. ASSUME NEW g \in DOMAIN job, ReloadApplies(g), Loadable(g)
      PROVE  applied'[z].content.version >= applied[z].content.version
  <2>1. applied' = [applied EXCEPT ![job[g].zone] =
                      [content |-> job[g].content, profile |-> profiles.global]]
    BY <1>2 DEF ReloadApplies
  <2>2. applied'[z].content = IF z = job[g].zone THEN job[g].content ELSE applied[z].content
    BY <2>1 DEF IInv, TypeInv, TypeOK
  <2>3. job[g].content.kind = "full" /\ job[g].at = "holding"
    BY <1>2 DEF Loadable, ReloadApplies
  <2>4. QED
    BY <2>2, <2>3, VersionTypes DEF IInv, VersionInv
<1>3. ASSUME NEW g \in DOMAIN job, ReloadReads(g) PROVE applied' = applied
  BY <1>3 DEF ReloadReads
<1>4. ASSUME NEW g \in DOMAIN job, ReloadApplies(g), ~Loadable(g) PROVE applied' = applied
  BY <1>4 DEF ReloadApplies
<1>5. QED
  BY <1>1, <1>2, <1>3, <1>4, StepKinds, WriteKeeps DEF IInv, Aside

\* The records of a zone never go back to an earlier content of its file.
THEOREM NeverRollsBack == Spec => NoRollback
<1>1. Init => IInv
  BY TypeInit, MutexInit, VersionInit DEF IInv
<1>2. IInv /\ [Next]_vars => IInv'
  BY TypeStep, MutexStep, VersionStep DEF IInv
<1>3. IInv /\ [Next]_vars =>
        [\A z \in Zones : applied'[z].content.version >= applied[z].content.version]_vars
  BY AppliedGrows
<1>4. QED
  BY <1>1, <1>2, <1>3, PTL DEF Spec, NoRollback
=============================================================================
