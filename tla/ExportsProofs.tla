------------------------------ MODULE ExportsProofs ------------------------------
(***************************************************************************)
(* For every number of releases, calls of the updater, exports, pages,     *)
(* tickets and incidents: a download that still runs can be stopped, an    *)
(* installation cuts no export, a write in flight keeps its ticket, only   *)
(* what was reviewed is written, and "saved" means recorded.               *)
(*                                                                         *)
(* Base holds what nothing else depends on: the phases and generations of  *)
(* the update, the types, who may answer whom (Numbered: a call has a key  *)
(* of its own, and the window never waits for one it has not sent), and    *)
(* that the counter of flights counts the commands under way (Counted).    *)
(* That an installation finds none follows, for both gates are under one   *)
(* lock.                                                                   *)
(*                                                                         *)
(* A write is then followed from the review to its receipt: the approved   *)
(* cursor is in the ticket and in every call that carries it (Reviewed,    *)
(* Ticketed); a file has at most one writer, which holds its ticket or is  *)
(* of a database that is gone (InPlace); whoever is about to write has no  *)
(* receipt (Unrecorded); and a good answer has one (Recorded).             *)
(***************************************************************************)
EXTENDS Exports, FiniteSetTheorems, WellFoundedInduction, TLAPS

-----------------------------------------------------------------------------
(* The updates.                                                            *)

UpdateTypes ==
    /\ phase \in Phases
    /\ pending \in Release \cup {None}
    /\ cache \in Release \cup {Damaged, None}
    /\ generation \in Nat /\ task \in Nat
    /\ checking \in [kept: Target \cup {None}] \cup {None}
    /\ downloads \subseteq Download
    /\ installs \in [Install -> Installation]

\* Nothing changes the phase while a check is under way.
CheckIsShown == checking # None => Phase({"checking"})

\* Each download has a generation of its own.
Generations ==
    /\ \A d \in downloads : d.generation \in 1 .. generation
    /\ \A d, e \in downloads : d.generation = e.generation => d = e

\* The phase says so while the installer is being started, for one call.
Starting(i) == installs[i].stage = "grace"

OneStarts ==
    /\ \A i, j \in Install : Starting(i) /\ Starting(j) => i = j
    /\ \A i \in Install : Starting(i) =>
         Phase({"installing"}) /\ phase.target.version = installs[i].version
    /\ Phase({"installing"}) => \E i \in Install : Starting(i)

UpdateInv == UpdateTypes /\ CheckIsShown /\ Generations /\ OneStarts /\ DownloadsCanBeStopped

DownloadSteps(d) ==
    \/ DownloadWithoutUpdate(d) \/ DownloadFromCache(d) \/ DownloadSpawns(d)
    \/ DownloadRegisters(d) \/ DownloadCompletes(d) \/ DownloadFails(d) \/ DownloadReturns(d)

InstallSteps(i) ==
    \/ InstallBegins(i) \/ InstallWaits(i) \/ InstallVerifies(i) \/ InstallRefused(i)
    \/ InstallEnters(i) \/ InstallExits(i) \/ InstallFails(i)

CheckSteps == CheckBegins \/ (\E v \in Release : CheckFinds(v)) \/ CheckFindsNothing \/ CheckFails

LEMMA PhaseShape ==
    ASSUME phase \in Phases
    PROVE /\ phase.name \in {"idle", "upToDate", "checking", "available", "downloading", "ready", "installing"}
          /\ phase.name \in {"available", "downloading", "ready", "installing"} =>
               phase.target \in Target /\ phase.target.version \in Release
BY DEF Phases, Target

LEMMA AtShape ==
    ASSUME NEW name \in {"available", "downloading", "ready", "installing"}, NEW target \in Target
    PROVE At(name, target) \in Phases /\ At(name, target).name = name /\ At(name, target).target = target
BY DEF At, Phases

LEMMA CheckTypes ==
    ASSUME UpdateTypes, CheckSteps
    PROVE UpdateTypes'
<1> USE DEF UpdateTypes
<1>1. CASE CheckBegins
  <2>1. phase' \in Phases
    BY <1>1 DEF CheckBegins, Phases
  <2>2. (IF Phase({"ready"}) THEN phase.target ELSE None) \in Target \cup {None}
    BY PhaseShape DEF Phase
  <2>3. checking' \in [kept: Target \cup {None}]
    BY <1>1, <2>2 DEF CheckBegins
  <2> QED BY <1>1, <2>1, <2>3 DEF CheckBegins
<1>2. ASSUME NEW v \in Release, CheckFinds(v) PROVE UpdateTypes'
  <2> DEFINE found == [version |-> v, cached |-> FALSE]
             name == IF checking.kept = found THEN "ready" ELSE "available"
  <2>1. found \in Target /\ name \in {"available", "downloading", "ready", "installing"}
    BY DEF Target
  <2>2. CheckAnswers(v, At(name, found))
    BY <1>2 DEF CheckFinds
  <2> HIDE DEF found, name
  <2>3. At(name, found) \in Phases
    BY <2>1, AtShape
  <2> QED BY <2>2, <2>3 DEF CheckAnswers
<1>3. CASE CheckFindsNothing
  BY <1>3 DEF CheckFindsNothing, CheckAnswers, Phases
<1>4. CASE CheckFails
  BY <1>4 DEF CheckFails, CheckAnswers, Phases
<1> QED BY <1>1, <1>2, <1>3, <1>4 DEF CheckSteps

LEMMA DownloadTypes ==
    ASSUME UpdateTypes, NEW d \in downloads, DownloadSteps(d)
    PROVE /\ UpdateTypes'
          /\ \/ downloads' = downloads \ {d}
             \/ \E e \in Download : /\ e.generation = d.generation
                                    /\ downloads' = (downloads \ {d}) \cup {e}
          /\ UNCHANGED <<generation, checking, installs, pending>>
<1> USE DEF UpdateTypes
<1>0. d \in Download /\ d.version \in Release /\ d.generation \in Nat
  BY DEF Download
<1>a. ASSUME StatusSet(d, At("available", phase.target)) PROVE phase' \in Phases
  <2>1. CASE Current(d)
    <3>1. phase.target \in Target
      BY <2>1, PhaseShape DEF Current, Phase
    <3> QED BY <1>a, <2>1, <3>1, AtShape DEF StatusSet
  <2> QED BY <1>a, <2>1 DEF StatusSet
<1>b. [version |-> d.version, cached |-> TRUE] \in Target /\ [version |-> d.version, cached |-> FALSE] \in Target
  BY <1>0 DEF Target
<1>c. ASSUME NEW stage \in {"begun", "spawned", "running", "over"}
      PROVE [d EXCEPT !.stage = stage] \in Download /\ [d EXCEPT !.stage = stage].generation = d.generation
  BY <1>0 DEF Download
<1>1. CASE DownloadWithoutUpdate(d)
  BY <1>1, <1>a DEF DownloadWithoutUpdate, Ended
<1>2. CASE DownloadFromCache(d)
  <2>1. phase' \in Phases
    BY <1>2, <1>b, AtShape DEF DownloadFromCache, StatusSet
  <2> QED BY <1>2, <2>1 DEF DownloadFromCache, Ended
<1>3. CASE DownloadSpawns(d)
  <2> DEFINE e == [d EXCEPT !.stage = "spawned", !.update = pending]
  <2>1. e \in Download /\ e.generation = d.generation
    BY <1>0 DEF Download
  <2>2. downloads' = (downloads \ {d}) \cup {e} /\ UNCHANGED <<phase, pending, cache, generation, task, checking, installs>>
    BY <1>3 DEF DownloadSpawns
  <2> HIDE DEF e
  <2> QED BY <2>1, <2>2
<1>4. CASE DownloadRegisters(d)
  <2>1. CASE Current(d)
    <3>1. task' = d.generation /\ Goes(d, "running") /\ UNCHANGED <<phase, pending, cache, generation, checking, installs>>
      BY <1>4, <2>1 DEF DownloadRegisters
    <3> QED BY <1>0, <1>c, <3>1 DEF Goes
  <2>2. CASE ~Current(d)
    <3> DEFINE e == [d EXCEPT !.stage = "running", !.aborted = TRUE]
    <3>1. e \in Download /\ e.generation = d.generation
      BY <1>0 DEF Download
    <3>2. downloads' = (downloads \ {d}) \cup {e} /\ UNCHANGED <<phase, pending, cache, generation, task, checking, installs>>
      BY <1>4, <2>2 DEF DownloadRegisters
    <3> HIDE DEF e
    <3> QED BY <3>1, <3>2
  <2> QED BY <2>1, <2>2
<1>5. CASE DownloadCompletes(d)
  <2>1. Goes(d, "over") /\ UNCHANGED <<pending, generation, task, checking, installs>>
    BY <1>5 DEF DownloadCompletes
  <2>2. phase' \in Phases /\ cache' \in Release \cup {Damaged, None}
    <3>1. d.update \in Release \cup {None}
      BY <1>0 DEF Download
    <3> QED BY <1>5, <1>b, <3>1, AtShape DEF DownloadCompletes
  <2> QED BY <1>c, <2>1, <2>2 DEF Goes
<1>6. CASE DownloadFails(d)
  <2>1. Goes(d, "over") /\ UNCHANGED <<pending, cache, generation, task, checking, installs>>
    BY <1>6 DEF DownloadFails
  <2>2. phase' \in Phases
    BY <1>6, <1>a DEF DownloadFails
  <2> QED BY <1>c, <2>1, <2>2 DEF Goes
<1>7. CASE DownloadReturns(d)
  BY <1>7 DEF DownloadReturns, Ended
<1> QED BY <1>1, <1>2, <1>3, <1>4, <1>5, <1>6, <1>7 DEF DownloadSteps

LEMMA InstallTypes ==
    ASSUME UpdateTypes, NEW i \in Install, InstallSteps(i)
    PROVE /\ UpdateTypes'
          /\ UNCHANGED <<pending, generation, task, checking, downloads>>
          /\ \A j \in Install \ {i} : installs'[j] = installs[j]
<1> USE DEF UpdateTypes
<1>a. ASSUME installs[i] \in [stage: {"waiting", "settled", "verified", "unverified", "grace"}, version: Release],
             NEW stage \in {"waiting", "settled", "verified", "unverified", "grace"},
             InstallGoes(i, stage)
      PROVE /\ installs' \in [Install -> Installation]
            /\ \A j \in Install \ {i} : installs'[j] = installs[j]
  <2> DEFINE new == [installs[i] EXCEPT !.stage = stage]
  <2>1. new \in Installation
    BY <1>a DEF Installation
  <2>2. installs' = [installs EXCEPT ![i] = new]
    BY <1>a DEF InstallGoes
  <2> HIDE DEF new
  <2> QED BY <2>1, <2>2
<1>b. ASSUME InstallEnds(i)
      PROVE /\ installs' \in [Install -> Installation]
            /\ \A j \in Install \ {i} : installs'[j] = installs[j]
  <2>1. NotAsked \in Installation
    BY DEF Installation
  <2> QED BY <1>b, <2>1 DEF InstallEnds
<1>c. installs[i].stage # "idle" => installs[i] \in [stage: {"waiting", "settled", "verified", "unverified", "grace"}, version: Release]
  <2>1. installs[i] \in Installation
    OBVIOUS
  <2> QED BY <2>1 DEF Installation, NotAsked
<1>1. CASE InstallBegins(i)
  <2> DEFINE new == [stage |-> "waiting", version |-> phase.target.version]
  <2>1. phase.target.version \in Release
    BY <1>1, PhaseShape DEF InstallBegins, Phase
  <2>2. new \in Installation
    BY <2>1 DEF Installation
  <2>3. installs' = [installs EXCEPT ![i] = new]
    BY <1>1 DEF InstallBegins
  <2> HIDE DEF new
  <2> QED BY <1>1, <2>2, <2>3 DEF InstallBegins
<1>2. CASE InstallWaits(i)
  BY <1>2, <1>a, <1>b, <1>c DEF InstallWaits
<1>3. CASE InstallVerifies(i)
  BY <1>3, <1>a, <1>c DEF InstallVerifies
<1>4. CASE InstallRefused(i)
  <2>1. InstallEnds(i) /\ UNCHANGED <<pending, generation, task, checking, downloads>>
    BY <1>4 DEF InstallRefused
  <2>2. phase' \in Phases /\ cache' \in Release \cup {Damaged, None}
    <3>1. CASE StillReady(i)
      <4>1. phase.target \in Target
        BY <3>1, PhaseShape DEF StillReady, Phase
      <4> QED BY <1>4, <3>1, <4>1, AtShape DEF InstallRefused
    <3> QED BY <1>4, <3>1 DEF InstallRefused
  <2> QED BY <1>b, <2>1, <2>2
<1>5. CASE InstallEnters(i)
  <2>1. UNCHANGED <<pending, cache, generation, task, checking, downloads>>
    BY <1>5 DEF InstallEnters
  <2>2. CASE Enters(i)
    <3>1. phase' = At("installing", phase.target) /\ InstallGoes(i, "grace") /\ installs[i].stage # "idle"
      BY <1>5, <2>2 DEF InstallEnters
    <3>2. phase.target \in Target
      BY <2>2, PhaseShape DEF Enters, StillReady, Phase
    <3> QED BY <1>a, <1>c, <2>1, <3>1, <3>2, AtShape
  <2>3. CASE ~Enters(i)
    BY <1>5, <1>b, <2>1, <2>3 DEF InstallEnters
  <2> QED BY <2>2, <2>3
<1>6. CASE InstallExits(i)
  BY <1>6 DEF InstallExits, update
<1>7. CASE InstallFails(i)
  <2>1. InstallEnds(i) /\ UNCHANGED <<pending, cache, generation, task, checking, downloads>>
    BY <1>7 DEF InstallFails
  <2>2. installs[i].version \in Release
    BY <1>7, <1>c DEF InstallFails
  <2>3. [version |-> installs[i].version, cached |-> TRUE] \in Target
    BY <2>2 DEF Target
  <2>4. phase' \in Phases
    BY <1>7, <2>3, AtShape DEF InstallFails
  <2> QED BY <1>b, <2>1, <2>4
<1> QED BY <1>1, <1>2, <1>3, <1>4, <1>5, <1>6, <1>7 DEF InstallSteps

LEMMA CallTypes ==
    ASSUME UpdateTypes, DownloadBegins \/ CancelDownload \/ CacheSpoils
    PROVE UpdateTypes'
<1> USE DEF UpdateTypes
<1>1. CASE DownloadBegins
  <2> DEFINE d == [generation |-> generation', version |-> phase.target.version,
                   update |-> None, stage |-> "begun", aborted |-> FALSE]
  <2>1. phase.target \in Target /\ phase.target.version \in Release
    BY <1>1, PhaseShape DEF DownloadBegins, Phase
  <2>2. phase' \in Phases
    BY <1>1, <2>1, AtShape DEF DownloadBegins
  <2>3. generation' \in Nat
    BY <1>1 DEF DownloadBegins
  <2>4. d \in Download
    BY <2>1, <2>3 DEF Download
  <2>5. downloads' = downloads \cup {d} /\ UNCHANGED <<pending, cache, task, checking, installs>>
    BY <1>1 DEF DownloadBegins
  <2> HIDE DEF d
  <2> QED BY <2>2, <2>3, <2>4, <2>5
<1>2. CASE CancelDownload
  <2>1. phase' \in Phases
    BY <1>2, PhaseShape, AtShape DEF CancelDownload, Phase
  <2>2. ASSUME NEW d \in downloads
        PROVE [d EXCEPT !.aborted = @ \/ (task # 0 /\ d.generation = task)] \in Download
    <3>1. d \in Download
      OBVIOUS
    <3>2. (d.aborted \/ (task # 0 /\ d.generation = task)) \in BOOLEAN
      BY <3>1 DEF Download
    <3> QED BY <3>1, <3>2 DEF Download
  <2>3. downloads' \subseteq Download
    BY <1>2, <2>2 DEF CancelDownload
  <2> QED BY <1>2, <2>1, <2>3 DEF CancelDownload
<1>3. CASE CacheSpoils
  BY <1>3 DEF CacheSpoils
<1> QED BY <1>1, <1>2, <1>3

\* Each download keeps its generation.
LEMMA GenerationsKept ==
    ASSUME UpdateTypes, Generations,
           \/ CheckSteps \/ DownloadBegins \/ CancelDownload \/ CacheSpoils
           \/ \E d \in downloads : DownloadSteps(d)
           \/ \E i \in Install : InstallSteps(i)
    PROVE Generations'
<1>0. generation \in Nat
  BY DEF UpdateTypes
<1>1. CASE CheckSteps \/ CacheSpoils
  BY <1>1 DEF CheckSteps, CheckBegins, CheckFinds, CheckFindsNothing, CheckFails, CheckAnswers,
              CacheSpoils, Generations
<1>2. CASE DownloadBegins
  <2> DEFINE d == [generation |-> generation', version |-> phase.target.version,
                   update |-> None, stage |-> "begun", aborted |-> FALSE]
  <2>1. /\ downloads' = downloads \cup {d} /\ d.generation = generation'
        /\ generation' = generation + 1
    BY <1>2 DEF DownloadBegins
  <2> HIDE DEF d
  <2>2. \A e \in downloads : e.generation \in 1 .. generation
    BY DEF Generations
  <2>3. \A e \in downloads : e.generation # d.generation /\ e.generation \in 1 .. generation'
    BY <1>0, <2>1, <2>2
  <2>4. d.generation \in 1 .. generation'
    BY <1>0, <2>1
  <2> QED BY <2>1, <2>3, <2>4 DEF Generations
<1>3. CASE CancelDownload
  <2> DEFINE Told(d) == [d EXCEPT !.aborted = @ \/ (task # 0 /\ d.generation = task)]
  <2>1. downloads' = {Told(d) : d \in downloads} /\ generation' = generation + 1
    BY <1>3 DEF CancelDownload
  <2>2. \A d \in downloads : Told(d).generation = d.generation
    BY DEF UpdateTypes, Download
  <2>3. \A d \in downloads : d.generation \in 1 .. generation'
    BY <1>0, <2>1 DEF Generations
  <2>4. \A d, e \in downloads : Told(d).generation = Told(e).generation => d = e
    BY <2>2 DEF Generations
  <2> HIDE DEF Told
  <2> QED BY <2>1, <2>2, <2>3, <2>4 DEF Generations
<1>4. CASE \E d \in downloads : DownloadSteps(d)
  <2>1. PICK d \in downloads : DownloadSteps(d)
    BY <1>4
  <2>2. /\ generation' = generation
        /\ \/ downloads' = downloads \ {d}
           \/ \E e \in Download : /\ e.generation = d.generation
                                  /\ downloads' = (downloads \ {d}) \cup {e}
    BY <2>1, DownloadTypes
  <2> QED BY <2>2 DEF Generations
<1>5. CASE \E i \in Install : InstallSteps(i)
  <2>1. UNCHANGED <<generation, downloads>>
    BY <1>5, InstallTypes
  <2> QED BY <2>1 DEF Generations
<1> QED BY <1>1, <1>2, <1>3, <1>4, <1>5

\* Only its own step leaves the phase of a check, and of a start.
LEMMA PhaseKept ==
    ASSUME UpdateTypes, CheckIsShown, OneStarts,
           \/ CheckSteps \/ DownloadBegins \/ CancelDownload \/ CacheSpoils
           \/ \E d \in downloads : DownloadSteps(d)
    PROVE /\ CheckIsShown'
          /\ installs' = installs
          /\ phase' = phase \/ (~Phase({"installing"}) /\ ~Phase({"installing"})')
<1>0. \A name : \A target : At(name, target).name = name
  BY DEF At
<1>1. CASE CheckSteps
  <2>1. CASE CheckBegins
    BY <2>1 DEF CheckBegins, Phase, CheckIsShown
  <2>2. ASSUME NEW newest, NEW next, CheckAnswers(newest, next), next.name # "installing"
        PROVE /\ CheckIsShown'
              /\ installs' = installs
              /\ ~Phase({"installing"}) /\ ~Phase({"installing"})'
    BY <2>2 DEF CheckAnswers, Phase, CheckIsShown
  <2>3. ASSUME NEW v \in Release, CheckFinds(v)
        PROVE /\ CheckIsShown'
              /\ installs' = installs
              /\ ~Phase({"installing"}) /\ ~Phase({"installing"})'
    <3> DEFINE found == [version |-> v, cached |-> FALSE]
               name == IF checking.kept = found THEN "ready" ELSE "available"
    <3>1. CheckAnswers(v, At(name, found))
      BY <2>3 DEF CheckFinds
    <3>2. At(name, found).name # "installing"
      BY DEF At
    <3> QED BY <2>2, <3>1, <3>2
  <2>4. CheckFindsNothing => CheckAnswers(None, [name |-> "upToDate"])
    BY DEF CheckFindsNothing
  <2>5. CheckFails => CheckAnswers(pending, [name |-> "idle"])
    BY DEF CheckFails
  <2>6. [name |-> "upToDate"].name # "installing" /\ [name |-> "idle"].name # "installing"
    OBVIOUS
  <2> QED BY <1>1, <2>1, <2>2, <2>3, <2>4, <2>5, <2>6 DEF CheckSteps
<1>2. CASE DownloadBegins \/ CancelDownload
  BY <1>0, <1>2 DEF DownloadBegins, CancelDownload, Phase, CheckIsShown
<1>3. CASE CacheSpoils
  BY <1>3 DEF CacheSpoils, Phase, CheckIsShown
<1>4. CASE \E d \in downloads : DownloadSteps(d)
  <2>1. PICK d \in downloads : DownloadSteps(d)
    BY <1>4
  <2>2. UNCHANGED <<checking, installs>>
    BY <2>1, DownloadTypes
  <2>3. phase' = phase \/ (Phase({"downloading"}) /\ Phase({"available", "ready"})')
    <3>1. ASSUME NEW target, NEW name \in {"available", "ready"}, StatusSet(d, At(name, target))
          PROVE phase' = phase \/ (Phase({"downloading"}) /\ Phase({"available", "ready"})')
      BY <1>0, <3>1 DEF StatusSet, Current, Phase
    <3>2. CASE DownloadWithoutUpdate(d) \/ DownloadFromCache(d) \/ DownloadFails(d)
      BY <3>1, <3>2 DEF DownloadWithoutUpdate, DownloadFromCache, DownloadFails
    <3>3. CASE DownloadSpawns(d) \/ DownloadRegisters(d) \/ DownloadReturns(d)
      BY <3>3 DEF DownloadSpawns, DownloadRegisters, DownloadReturns
    <3>4. CASE DownloadCompletes(d)
      BY <1>0, <3>4 DEF DownloadCompletes, Current, Phase
    <3> QED BY <2>1, <3>2, <3>3, <3>4 DEF DownloadSteps
  <2> QED BY <2>2, <2>3 DEF Phase, CheckIsShown
<1> QED BY <1>1, <1>2, <1>3, <1>4

LEMMA StartsKept ==
    ASSUME UpdateTypes, CheckIsShown, OneStarts,
           \/ CheckSteps \/ DownloadBegins \/ CancelDownload \/ CacheSpoils
           \/ \E d \in downloads : DownloadSteps(d)
           \/ \E i \in Install : InstallSteps(i)
    PROVE CheckIsShown' /\ OneStarts'
<1>1. CASE \/ CheckSteps \/ DownloadBegins \/ CancelDownload \/ CacheSpoils
           \/ \E d \in downloads : DownloadSteps(d)
  <2>1. /\ CheckIsShown' /\ installs' = installs
        /\ phase' = phase \/ (~Phase({"installing"}) /\ ~Phase({"installing"})')
    BY <1>1, PhaseKept
  <2>2. OneStarts'
    <3>1. CASE phase' = phase
      BY <2>1, <3>1 DEF OneStarts, Starting, Phase
    <3>2. CASE ~Phase({"installing"}) /\ ~Phase({"installing"})'
      BY <2>1, <3>2 DEF OneStarts, Starting
    <3> QED BY <2>1, <3>1, <3>2
  <2> QED BY <2>1, <2>2
<1>2. CASE \E i \in Install : InstallSteps(i)
  <2>1. PICK i \in Install : InstallSteps(i)
    BY <1>2
  <2>2. /\ checking' = checking
        /\ \A j \in Install \ {i} : installs'[j] = installs[j]
        /\ installs' \in [Install -> Installation] /\ installs \in [Install -> Installation]
    BY <2>1, InstallTypes DEF UpdateTypes
  <2>3. \A j \in Install \ {i} : Starting(j)' <=> Starting(j)
    BY <2>2 DEF Starting
  <2>a. ASSUME NEW stage, InstallGoes(i, stage), installs[i].stage # "idle"
        PROVE installs'[i].stage = stage /\ installs'[i].version = installs[i].version
    BY <2>2, <2>a DEF InstallGoes, Installation, NotAsked
  <2>b. InstallEnds(i) => installs'[i].stage = "idle"
    BY <2>2 DEF InstallEnds, NotAsked
  <2>4. CASE InstallEnters(i) /\ Enters(i)
    <3>1. phase' = At("installing", phase.target) /\ installs'[i].stage = "grace"
          /\ installs'[i].version = installs[i].version
      BY <2>a, <2>4 DEF InstallEnters
    <3>2. Phase({"ready"}) /\ phase.target.version = installs[i].version
      BY <2>4 DEF Enters, StillReady
    <3>3. Phase({"installing"})' /\ phase'.target = phase.target
      BY <3>1 DEF At, Phase
    <3>4. ~Phase({"installing"}) /\ ~Phase({"checking"})
      BY <3>2 DEF Phase
    <3>5. \A j \in Install : ~Starting(j)
      BY <3>4 DEF OneStarts
    <3>6. CheckIsShown'
      BY <2>2, <3>4 DEF CheckIsShown
    <3>7. \A j \in Install : Starting(j)' => j = i
      BY <2>3, <3>5
    <3>8. Starting(i)'
      BY <3>1 DEF Starting
    <3>9. phase'.target.version = installs'[i].version
      BY <3>1, <3>2, <3>3
    <3> QED BY <3>3, <3>6, <3>7, <3>8, <3>9 DEF OneStarts
  <2>5. CASE InstallFails(i)
    <3>1. Starting(i) /\ ~Starting(i)'
      BY <2>b, <2>5 DEF InstallFails, Starting
    <3>2. Phase({"installing"}) /\ \A j \in Install : Starting(j) => j = i
      BY <3>1 DEF OneStarts
    <3>3. Phase({"ready"})'
      BY <2>5, <3>2 DEF InstallFails, At, Phase
    <3>4. \A j \in Install : ~Starting(j)'
      BY <2>3, <3>1, <3>2
    <3>5. CheckIsShown'
      BY <2>2, <3>2 DEF CheckIsShown, Phase
    <3> QED BY <3>3, <3>4, <3>5 DEF OneStarts, Phase
  <2>6. CASE InstallExits(i)
    BY <2>6 DEF InstallExits, update, CheckIsShown, OneStarts, Starting, Phase
  <2>7. CASE InstallBegins(i) \/ InstallWaits(i) \/ InstallVerifies(i) \/ InstallRefused(i)
             \/ (InstallEnters(i) /\ ~Enters(i))
    <3>1. ~Starting(i) /\ ~Starting(i)'
      <4>1. CASE InstallBegins(i)
        <5>1. installs[i] = NotAsked /\ installs'[i].stage = "waiting"
          BY <2>2, <4>1 DEF InstallBegins
        <5> QED BY <5>1 DEF Starting, NotAsked
      <4>2. CASE InstallWaits(i) \/ InstallVerifies(i)
        BY <2>a, <2>b, <4>2 DEF InstallWaits, InstallVerifies, Starting
      <4>3. CASE InstallRefused(i) \/ (InstallEnters(i) /\ ~Enters(i))
        BY <2>b, <4>3 DEF InstallRefused, InstallEnters, Starting
      <4> QED BY <2>7, <4>1, <4>2, <4>3
    <3>2. phase' = phase \/ (Phase({"ready"}) /\ Phase({"available"})')
      BY <2>7 DEF InstallBegins, InstallWaits, InstallVerifies, InstallRefused, InstallEnters, StillReady, At, Phase
    <3>3. \A j \in Install : Starting(j)' <=> Starting(j)
      BY <2>3, <3>1
    <3>4. \A j \in Install : Starting(j) => installs'[j] = installs[j]
      BY <2>2, <3>1
    <3>5. CheckIsShown'
      BY <2>2, <3>2 DEF CheckIsShown, Phase
    <3>6. CASE phase' = phase
      BY <3>3, <3>4, <3>5, <3>6 DEF OneStarts, Phase
    <3>7. CASE Phase({"ready"}) /\ Phase({"available"})'
      BY <3>3, <3>5, <3>7 DEF OneStarts, Phase
    <3> QED BY <3>2, <3>6, <3>7
  <2> QED BY <2>1, <2>4, <2>5, <2>6, <2>7 DEF InstallSteps
<1> QED BY <1>1, <1>2

\* Running downloads stay the one that is current, or are told to stop.
LEMMA StoppingKept ==
    ASSUME UpdateTypes, CheckIsShown, Generations, OneStarts, DownloadsCanBeStopped,
           \/ CheckSteps \/ DownloadBegins \/ CancelDownload \/ CacheSpoils
           \/ \E d \in downloads : DownloadSteps(d)
           \/ \E i \in Install : InstallSteps(i)
    PROVE DownloadsCanBeStopped'
<1> DEFINE Runs(d) == Transferring(d) /\ ~d.aborted
<1>0. \A d \in downloads : Runs(d) => Phase({"downloading"}) /\ d.generation = generation /\ task = d.generation
  BY DEF DownloadsCanBeStopped, Current
<1>1. CASE ~Phase({"downloading"})
  <2>1. \A d \in downloads : ~Runs(d)
    BY <1>0, <1>1
  <2>2. ASSUME NEW d \in downloads', Runs(d) PROVE FALSE
    <3>1. d \notin downloads
      BY <2>1, <2>2
    <3>2. CASE CheckSteps \/ CacheSpoils \/ CancelDownload
      BY <1>1, <3>1, <3>2 DEF CheckSteps, CheckBegins, CheckFinds, CheckFindsNothing, CheckFails, CheckAnswers,
                  CacheSpoils, CancelDownload
    <3>3. CASE DownloadBegins
      BY <2>2, <3>1, <3>3 DEF DownloadBegins, Transferring
    <3>4. CASE \E e \in downloads : DownloadSteps(e)
      <4>1. PICK e \in downloads : DownloadSteps(e)
        BY <3>4
      <4>2. e \in Download /\ ~Current(e)
        BY <1>1 DEF UpdateTypes, Current
      <4>3. d # e
        BY <3>1
      <4>4. CASE DownloadWithoutUpdate(e) \/ DownloadFromCache(e) \/ DownloadReturns(e)
        BY <2>2, <3>1, <4>4 DEF DownloadWithoutUpdate, DownloadFromCache, DownloadReturns, Ended
      <4>5. CASE DownloadSpawns(e)
        <5>1. d = [e EXCEPT !.stage = "spawned", !.update = pending]
          BY <2>2, <3>1, <4>5 DEF DownloadSpawns
        <5> QED BY <2>2, <4>2, <5>1 DEF Transferring, Download
      <4>6. CASE DownloadRegisters(e)
        <5>1. d = [e EXCEPT !.stage = "running", !.aborted = TRUE]
          BY <2>2, <3>1, <4>2, <4>6 DEF DownloadRegisters
        <5> QED BY <2>2, <4>2, <5>1 DEF Download
      <4>7. CASE DownloadCompletes(e) \/ DownloadFails(e)
        <5>1. d = [e EXCEPT !.stage = "over"]
          BY <2>2, <3>1, <4>7 DEF DownloadCompletes, DownloadFails, Goes
        <5> QED BY <2>2, <4>2, <5>1 DEF Transferring, Download
      <4> QED BY <4>1, <4>4, <4>5, <4>6, <4>7 DEF DownloadSteps
    <3>5. CASE \E i \in Install : InstallSteps(i)
      BY <3>1, <3>5, InstallTypes
    <3> QED BY <3>2, <3>3, <3>4, <3>5
  <2> QED BY <2>2 DEF DownloadsCanBeStopped
<1>2. CASE Phase({"downloading"})
  <2>0. ~Phase({"checking"}) /\ ~Phase({"available"}) /\ ~Phase({"ready"}) /\ ~Phase({"installing"})
    BY <1>2 DEF Phase
  <2>a. checking = None /\ \A i \in Install : ~Starting(i)
    BY <2>0 DEF CheckIsShown, OneStarts
  <2>1. CASE CheckSteps \/ DownloadBegins
    BY <1>2, <2>0, <2>a, <2>1 DEF CheckSteps, CheckBegins, CheckFinds, CheckFindsNothing, CheckFails, CheckAnswers,
       DownloadBegins, Phase
  <2>2. CASE CacheSpoils
    BY <2>2 DEF CacheSpoils, DownloadsCanBeStopped, Current, Phase
  <2>3. CASE CancelDownload
    <3> DEFINE Stopped(d) == [d EXCEPT !.aborted = @ \/ (task # 0 /\ d.generation = task)]
    <3>1. downloads' = {Stopped(d) : d \in downloads}
      BY <2>3 DEF CancelDownload
    <3>2. ASSUME NEW d \in downloads PROVE ~Runs(Stopped(d))
      <4>1. d \in Download /\ d.generation \in 1 .. generation
        BY DEF UpdateTypes, Generations
      <4>2. Stopped(d).aborted = (d.aborted \/ (task # 0 /\ d.generation = task))
            /\ Stopped(d).stage = d.stage
        BY <4>1 DEF Download
      <4>3. Runs(d) => d.generation = task /\ task # 0
        BY <1>0, <4>1
      <4> QED BY <4>2, <4>3 DEF Transferring
    <3> HIDE DEF Stopped, Runs
    <3>3. \A d \in downloads' : ~Runs(d)
      BY <3>1, <3>2
    <3> QED BY <3>3 DEF Runs, DownloadsCanBeStopped, Transferring
  <2>4. CASE \E d \in downloads : DownloadSteps(d)
    <3>1. PICK d \in downloads : DownloadSteps(d)
      BY <2>4
    <3>2. d \in Download /\ d.generation \in 1 .. generation /\ generation' = generation
      BY <3>1, DownloadTypes DEF UpdateTypes, Generations
    <3>3. ASSUME NEW e \in downloads, e # d, Runs(e)
          PROVE ~Current(d) /\ task # d.generation /\ ~Runs(d)
      <4>1. e.generation # d.generation
        BY <3>3 DEF Generations
      <4> QED BY <1>0, <3>3, <4>1 DEF Current
    <3>4. ASSUME NEW e \in downloads', Runs(e)
          PROVE Phase({"downloading"})' /\ e.generation = generation' /\ task' = e.generation
      <4>1. CASE e \in downloads /\ e # d
        <5>1. ~Current(d) /\ task # d.generation
          BY <3>3, <3>4, <4>1
        <5>2. phase' = phase /\ task' = task
          BY <3>1, <5>1 DEF DownloadSteps, DownloadWithoutUpdate, DownloadFromCache, DownloadSpawns, DownloadRegisters,
             DownloadCompletes, DownloadFails, DownloadReturns, StatusSet, Retires
        <5> QED BY <1>0, <1>2, <3>2, <3>4, <4>1, <5>2 DEF Phase
      <4>2. CASE e \notin downloads \/ e = d
        <5>1. CASE DownloadRegisters(d)
          <6>1. CASE Current(d)
            <7>1. task' = d.generation /\ phase' = phase /\ downloads' = (downloads \ {d}) \cup {[d EXCEPT !.stage = "running"]}
              BY <5>1, <6>1 DEF DownloadRegisters, Goes
            <7>2. e = [d EXCEPT !.stage = "running"]
              BY <4>2, <7>1
            <7>3. e.generation = d.generation
              BY <3>2, <7>2 DEF Download
            <7> QED BY <1>2, <3>2, <6>1, <7>1, <7>3 DEF Current, Phase
          <6>2. CASE ~Current(d)
            <7>1. e = [d EXCEPT !.stage = "running", !.aborted = TRUE]
              BY <4>2, <5>1, <6>2 DEF DownloadRegisters
            <7> QED BY <3>2, <3>4, <7>1 DEF Download
          <6> QED BY <6>1, <6>2
        <5>2. CASE DownloadWithoutUpdate(d) \/ DownloadFromCache(d) \/ DownloadReturns(d)
          BY <4>2, <5>2 DEF DownloadWithoutUpdate, DownloadFromCache, DownloadReturns, Ended
        <5>3. CASE DownloadSpawns(d) \/ DownloadCompletes(d) \/ DownloadFails(d)
          <6>1. e.stage # "running"
            <7>1. CASE DownloadSpawns(d)
              <8>1. e = [d EXCEPT !.stage = "spawned", !.update = pending]
                BY <4>2, <7>1 DEF DownloadSpawns
              <8> QED BY <3>2, <8>1 DEF Download
            <7>2. CASE DownloadCompletes(d) \/ DownloadFails(d)
              <8>1. e = [d EXCEPT !.stage = "over"]
                BY <4>2, <7>2 DEF DownloadCompletes, DownloadFails, Goes
              <8> QED BY <3>2, <8>1 DEF Download
            <7> QED BY <5>3, <7>1, <7>2
          <6> QED BY <3>4, <6>1 DEF Transferring
        <5> QED BY <3>1, <5>1, <5>2, <5>3 DEF DownloadSteps
      <4> QED BY <4>1, <4>2
    <3> QED BY <3>4 DEF DownloadsCanBeStopped, Current, Transferring
  <2>5. CASE \E i \in Install : InstallSteps(i)
    <3>1. PICK i \in Install : InstallSteps(i)
      BY <2>5
    <3>2. UNCHANGED <<generation, task, downloads>>
      BY <3>1, InstallTypes
    <3>3. phase' = phase
      BY <2>0, <2>a, <3>1 DEF InstallSteps, InstallBegins, InstallWaits, InstallVerifies, InstallRefused, InstallEnters,
         InstallExits, InstallFails, StillReady, Enters, Starting, update
    <3> QED BY <3>2, <3>3 DEF DownloadsCanBeStopped, Current, Phase
  <2> QED BY <2>1, <2>2, <2>3, <2>4, <2>5
<1> QED BY <1>1, <1>2

\* What may happen to an update.
UpdateActs ==
    \/ CheckSteps \/ DownloadBegins \/ CancelDownload \/ CacheSpoils
    \/ \E d \in downloads : DownloadSteps(d)
    \/ \E i \in Install : InstallSteps(i)

LEMMA UpdateStart ==
    ASSUME UpdateInit
    PROVE UpdateInv
<1> USE DEF UpdateInit
<1>1. phase \in Phases
  <2>1. CASE cache = None
    BY <2>1 DEF Phases
  <2>2. CASE cache # None
    <3>1. [version |-> cache, cached |-> TRUE] \in Target
      BY <2>2 DEF Target
    <3> QED BY <2>2, <3>1, AtShape
  <2> QED BY <2>1, <2>2
<1>2. installs \in [Install -> Installation] /\ \A i \in Install : installs[i].stage = "idle"
  BY DEF Installation, NotAsked
<1>3. UpdateTypes
  BY <1>1, <1>2 DEF UpdateTypes
<1>4. ~Phase({"installing"})
  BY DEF Phase, At
<1> QED BY <1>2, <1>3, <1>4 DEF UpdateInv, CheckIsShown, Generations, OneStarts, Starting, DownloadsCanBeStopped

LEMMA UpdateKept ==
    ASSUME UpdateInv, UpdateActs \/ UNCHANGED update
    PROVE UpdateInv'
<1>1. CASE UpdateActs
  <2>1. UpdateTypes'
    BY <1>1, CheckTypes, DownloadTypes, InstallTypes, CallTypes DEF UpdateActs, UpdateInv
  <2>2. Generations'
    BY <1>1, GenerationsKept DEF UpdateActs, UpdateInv
  <2>3. CheckIsShown' /\ OneStarts'
    BY <1>1, StartsKept DEF UpdateActs, UpdateInv
  <2>4. DownloadsCanBeStopped'
    BY <1>1, StoppingKept DEF UpdateActs, UpdateInv
  <2> QED BY <2>1, <2>2, <2>3, <2>4 DEF UpdateInv
<1>2. CASE UNCHANGED update
  BY <1>2 DEF update, UpdateInv, UpdateTypes, CheckIsShown, Generations, OneStarts, Starting, Phase,
              DownloadsCanBeStopped, Transferring, Current
<1> QED BY <1>1, <1>2

-----------------------------------------------------------------------------
(* The steps.                                                              *)

\* What has to do with an update leaves the page alone, and what the page and its
\* commands do leaves the update alone.
UpdateSide == Calls \/ AsksInstall \/ Prepared \/ InstallAnswered \/ Update

WindowActs ==
    \/ Click \/ Reads \/ Checks \/ Approves \/ Cancels \/ Chooses \/ Leaves
    \/ \E c \in calls : Receives(c) \/ WriteAnswered(c) \/ LosesAnswer(c)

WorldActs ==
    \/ Edit \/ Interferes \/ Restores \/ Loads \/ TimePasses
    \/ \E d \in Document : Switches(d)
    \/ \E n \in Export, p \in Page : FileChanges(n, p)

LEMMA Steps ==
    ASSUME Next
    PROVE UpdateSide \/ WindowActs \/ WorldActs \/ CommandStep
BY DEF Next, WindowStep, UserStep, Incident, UpdateSide, WindowActs, WorldActs

LEMMA UpdateSideShape ==
    ASSUME UpdateSide
    PROVE /\ UNCHANGED <<page, flights>>
          /\ UpdateActs \/ UNCHANGED update
          /\ asking' = asking \/ asking' = None \/ flow = Idle \/ asking = "preparing"
<1>1. CASE Calls
  <2>1. UpdateCall /\ UNCHANGED <<page, asking>>
    BY <1>1 DEF Calls
  <2>2. flights' = flights
    BY <2>1 DEF UpdateCall, CheckBegins, DownloadBegins, CancelDownload, CacheSpoils
  <2>3. UpdateActs
    BY <2>1 DEF UpdateCall, UpdateActs, CheckSteps
  <2> QED BY <2>1, <2>2, <2>3
<1>2. CASE AsksInstall
  BY <1>2 DEF AsksInstall, Installable, updates
<1>3. CASE Prepared
  <2>1. CASE \E i \in Install : InstallBegins(i) /\ asking' = i
    <3>1. flights' = flights
      BY <2>1 DEF InstallBegins
    <3>2. UpdateActs
      BY <2>1 DEF UpdateActs, InstallSteps
    <3> QED BY <1>3, <3>1, <3>2 DEF Prepared
  <2>2. CASE UNCHANGED updates
    BY <1>3, <2>2 DEF Prepared, updates
  <2> QED BY <1>3, <2>1, <2>2 DEF Prepared
<1>4. CASE InstallAnswered
  BY <1>4 DEF InstallAnswered, updates
<1>5. CASE Update
  <2>1. UpdateStep /\ UNCHANGED <<page, asking>>
    BY <1>5 DEF Update
  <2>2. UpdateActs
    BY <2>1 DEF UpdateStep, UpdateActs, CheckSteps, DownloadSteps, InstallSteps
  <2>3. flights' = flights
    <3>1. CASE (\E v \in Release : CheckFinds(v)) \/ CheckFindsNothing \/ CheckFails
      BY <3>1 DEF CheckFinds, CheckFindsNothing, CheckFails, CheckAnswers
    <3>2. CASE \E d \in downloads : DownloadSteps(d)
      BY <3>2 DEF DownloadSteps, DownloadWithoutUpdate, DownloadFromCache, DownloadSpawns, DownloadRegisters,
         DownloadCompletes, DownloadFails, DownloadReturns
    <3>3. CASE \E i \in Install : InstallSteps(i)
      BY <3>3 DEF InstallSteps, InstallBegins, InstallWaits, InstallVerifies, InstallRefused, InstallEnters,
         InstallExits, InstallFails
    <3> QED BY <2>1, <3>1, <3>2, <3>3 DEF UpdateStep, DownloadSteps, InstallSteps
  <2> QED BY <2>1, <2>2, <2>3
<1> QED BY <1>1, <1>2, <1>3, <1>4, <1>5 DEF UpdateSide

LEMMA WindowFrame ==
    ASSUME WindowActs
    PROVE UNCHANGED <<update, flights, exited, sessions, world, files, asking, reloading>>
<1>1. UNCHANGED beyond
  BY DEF WindowActs, Click, Reads, Checks, Approves, Cancels, Chooses, Leaves, Receives, WriteAnswered, LosesAnswer
<1> QED BY <1>1 DEF beyond, updates

LEMMA WorldFrame ==
    ASSUME WorldActs
    PROVE /\ UNCHANGED <<update, flights, exited>>
          /\ asking' = asking \/ asking' = None
BY DEF WorldActs, Edit, Interferes, Restores, Loads, TimePasses, Switches, FileChanges, around, updates, window

LEMMA CommandFrame ==
    ASSUME CommandStep
    PROVE UNCHANGED <<update, exited, world, window>>
BY DEF CommandStep, TurnedAway, RenderBegins, RenderRefused, RenderFreezes, RenderRegisters, RenderFails,
       WriteBegins, WriteRefused, WriteReplaces, WriteVerifies, WriteFails, WriteFinishes, hosts

LEMMA UpdateNext ==
    ASSUME UpdateInv, [Next]_vars
    PROVE UpdateInv'
<1>1. CASE UpdateSide
  BY <1>1, UpdateSideShape, UpdateKept
<1>2. CASE WindowActs \/ WorldActs \/ CommandStep
  BY <1>2, WindowFrame, WorldFrame, CommandFrame, UpdateKept
<1>3. CASE UNCHANGED vars
  BY <1>3, UpdateKept DEF vars, updates
<1> QED BY <1>1, <1>2, <1>3, Steps

\* However checks, downloads, cancellations and installations interleave, and however
\* late a task is spawned, registered or over, whatever download still runs is the one
\* the phase shows and whose handle a cancellation uses (app_update/download.rs).
THEOREM OnlyTheShownDownloadRuns == Spec => []DownloadsCanBeStopped
<1>1. Init => UpdateInv
  BY UpdateStart DEF Init
<1>2. UpdateInv /\ [Next]_vars => UpdateInv'
  BY UpdateNext
<1>3. UpdateInv => DownloadsCanBeStopped
  BY DEF UpdateInv
<1> QED BY <1>1, <1>2, <1>3, PTL DEF Spec

-----------------------------------------------------------------------------
(* The tickets.                                                            *)

LEMMA HasLeast ==
    ASSUME NEW S \in SUBSET Nat, S # {}
    PROVE \E m \in S : \A n \in S : m <= n
<1>1. \E x \in S : \A y \in S : ~(<<y, x>> \in OpToRel(<, Nat))
  BY WFMin, NatLessThanWellFounded
<1>2. PICK x \in S : \A y \in S : ~(<<y, x>> \in OpToRel(<, Nat))
  BY <1>1
<1>3. ASSUME NEW y \in S PROVE x <= y
  <2>1. x \in Nat /\ y \in Nat
    OBVIOUS
  <2>2. ~(y < x)
    BY <1>2, <2>1 DEF OpToRel
  <2> QED BY <2>1, <2>2
<1> QED BY <1>2, <1>3

LEMMA LeastOf ==
    ASSUME NEW S \in SUBSET Nat, S # {}
    PROVE Oldest(S) \in S /\ Lowest(S) \in S /\ \A n \in S : Lowest(S) <= n
BY HasLeast DEF Oldest, Lowest

\* Each receipt that is there is for a file of the ticket, and a ticket that is held
\* knows of it.
Receipted ==
    \A t \in Held, p \in Page : <<t, p>> \in receipts => tickets[t].writes[p].proof = "recorded"

LEMMA NewTicketShape ==
    /\ NewTicket \in Ticket /\ NewTicket.fresh
    /\ \A p \in Page : ~NewTicket.writes[p].flying /\ NewTicket.writes[p].proof = "none"
BY DEF NewTicket, Ticket, Write, Proof

LEMMA StayingHeld ==
    ASSUME SessionsTypeOK
    PROVE Staying \subseteq Held /\ \A t \in Held : InFlight(t) => t \in Staying
<1>1. Kept \subseteq Held /\ \A t \in Held : InFlight(t) => t \in Kept
  BY DEF Kept
<1>2. Spare \subseteq Kept /\ \A t \in Spare : ~InFlight(t)
  BY DEF Spare, Evictable
<1>3. Held \subseteq Nat
  BY DEF SessionsTypeOK
<1>4. Spare # {} => Oldest(Spare) \in Spare
  BY <1>1, <1>2, <1>3, LeastOf
<1> HIDE DEF Held
<1> QED BY <1>1, <1>2, <1>4 DEF Staying

\* What is known of a file changes; its flight begins or ends.
Edits(t, p, w) == tickets' = [tickets EXCEPT ![t].writes[p] = w]
Flips(t, p, b) == tickets' = [tickets EXCEPT ![t].writes[p].flying = b]

LEMMA TicketEdit ==
    ASSUME SessionsTypeOK, NEW t \in Held, NEW p \in Page, NEW w \in Write, Edits(t, p, w)
    PROVE /\ Held' = Held /\ tickets' \in [Held -> Ticket]
          /\ \A u \in Held : tickets'[u].fresh = tickets[u].fresh
          /\ tickets'[t].writes[p] = w
          /\ \A u \in Held, q \in Page :
               <<u, q>> # <<t, p>> => tickets'[u].writes[q] = tickets[u].writes[q]
<1>1. tickets \in [Held -> Ticket] /\ tickets[t] \in Ticket
  BY DEF SessionsTypeOK
<1> DEFINE new == [tickets[t] EXCEPT !.writes[p] = w]
<1>2. /\ new \in Ticket /\ new.fresh = tickets[t].fresh /\ new.writes[p] = w
      /\ \A q \in Page \ {p} : new.writes[q] = tickets[t].writes[q]
  BY <1>1 DEF Ticket
<1>3. tickets' = [tickets EXCEPT ![t] = new]
  BY <1>1 DEF Edits
<1> HIDE DEF new
<1>4. Held' = Held /\ tickets' \in [Held -> Ticket]
  BY <1>1, <1>2, <1>3 DEF Held
<1>5. tickets'[t] = new /\ \A u \in Held \ {t} : tickets'[u] = tickets[u]
  BY <1>1, <1>3 DEF Held
<1> QED BY <1>2, <1>4, <1>5

LEMMA FlightEdit ==
    ASSUME SessionsTypeOK, NEW t \in Held, NEW p \in Page, NEW b \in BOOLEAN, Flips(t, p, b)
    PROVE /\ Held' = Held /\ tickets' \in [Held -> Ticket]
          /\ \A u \in Held : tickets'[u].fresh = tickets[u].fresh
          /\ \A u \in Held, q \in Page : tickets'[u].writes[q].proof = tickets[u].writes[q].proof
          /\ tickets'[t].writes[p].flying = b
          /\ \A u \in Held, q \in Page :
               <<u, q>> # <<t, p>> => tickets'[u].writes[q] = tickets[u].writes[q]
<1> DEFINE w == [tickets[t].writes[p] EXCEPT !.flying = b]
<1>1. tickets \in [Held -> Ticket] /\ tickets[t].writes[p] \in Write
      /\ tickets[t].writes \in [Page -> Write]
  BY DEF SessionsTypeOK, Ticket
<1>2. w \in Write /\ w.flying = b /\ w.proof = tickets[t].writes[p].proof
  BY <1>1 DEF Write
<1>3. Edits(t, p, w)
  BY <1>1 DEF Edits, Flips
<1> HIDE DEF w
<1>4. /\ Held' = Held /\ tickets' \in [Held -> Ticket]
      /\ \A u \in Held : tickets'[u].fresh = tickets[u].fresh
      /\ tickets'[t].writes[p] = w
      /\ \A u \in Held, q \in Page :
           <<u, q>> # <<t, p>> => tickets'[u].writes[q] = tickets[u].writes[q]
  BY <1>2, <1>3, TicketEdit
<1>5. \A u \in Held, q \in Page : tickets'[u].writes[q].proof = tickets[u].writes[q].proof
  BY <1>2, <1>4
<1> QED BY <1>2, <1>4, <1>5

LEMMA RegisterEffect ==
    ASSUME SessionsTypeOK, Receipted, NEW e, Registers(e) \/ RegisterRefuses(e)
    PROVE /\ SessionsTypeOK' /\ Receipted' /\ UNCHANGED <<epoch, receipts>>
          /\ sequence' \in {sequence, sequence + 1}
          /\ Registers(e) => sequence' = sequence + 1
          /\ \A t \in Held' : t \in Held \/ t = sequence + 1
          /\ \A t \in Held : InFlight(t) => t \in Held' /\ tickets'[t] = tickets[t]
<1>0. /\ epoch \in Nat /\ sequence \in Nat /\ Held \subseteq 1 .. sequence
      /\ tickets \in [Held -> Ticket] /\ receipts \subseteq (1 .. sequence) \X Page
  BY DEF SessionsTypeOK
<1>1. Staying \subseteq Held /\ \A t \in Held : InFlight(t) => t \in Staying
  BY StayingHeld
<1>2. CASE Registers(e)
  <2> DEFINE last == sequence + 1
             new == [t \in Staying \cup {last} |-> IF t = last THEN NewTicket ELSE tickets[t]]
  <2>1. sequence' = last /\ tickets' = new /\ UNCHANGED <<epoch, receipts>>
    BY <1>2 DEF Registers
  <2>2. last \notin Held /\ last \in Nat
    BY <1>0
  <2>3. /\ \A t \in Staying : new[t] = tickets[t] /\ tickets[t] \in Ticket
        /\ new[last] = NewTicket
    BY <1>0, <1>1, <2>2
  <2>4. new \in [Staying \cup {last} -> Ticket]
    BY <2>3, NewTicketShape
  <2>5. Held' = Staying \cup {last}
    BY <2>1 DEF Held
  <2> HIDE DEF new
  <2>6. Held' \subseteq 1 .. sequence' /\ receipts' \subseteq (1 .. sequence') \X Page
    BY <1>0, <1>1, <2>1, <2>5
  <2>7. SessionsTypeOK'
    BY <1>0, <2>1, <2>2, <2>4, <2>5, <2>6 DEF SessionsTypeOK
  <2>8. Receipted'
    <3>1. ASSUME NEW t \in Held', NEW p \in Page, <<t, p>> \in receipts'
          PROVE tickets'[t].writes[p].proof = "recorded"
      <4>1. t \in 1 .. sequence /\ <<t, p>> \in receipts
        BY <1>0, <2>1, <3>1
      <4>2. t # last
        BY <1>0, <4>1
      <4>3. t \in Staying /\ tickets'[t] = tickets[t]
        BY <2>1, <2>3, <2>5, <4>2
      <4> QED BY <1>1, <4>1, <4>3 DEF Receipted
    <3> QED BY <3>1 DEF Receipted
  <2> QED BY <1>1, <2>1, <2>3, <2>5, <2>7, <2>8
<1>3. CASE RegisterRefuses(e)
  <2>1. UNCHANGED <<epoch, sequence, receipts>> /\ (tickets' = tickets \/ tickets' = Only(Staying))
    BY <1>3 DEF RegisterRefuses
  <2>2. CASE tickets' = tickets
    BY <2>1, <2>2 DEF SessionsTypeOK, Receipted, Held, Registers
  <2>3. CASE tickets' = Only(Staying)
    <3>1. Held' = Staying /\ \A t \in Staying : tickets'[t] = tickets[t] /\ tickets[t] \in Ticket
      BY <1>0, <1>1, <2>3 DEF Held, Only
    <3>2. tickets' \in [Staying -> Ticket]
      BY <2>3, <3>1 DEF Only
    <3>3. SessionsTypeOK'
      BY <1>0, <1>1, <2>1, <3>1, <3>2 DEF SessionsTypeOK
    <3>4. Receipted'
      BY <1>1, <2>1, <3>1 DEF Receipted
    <3>5. ~Registers(e)
      BY <1>0, <2>1 DEF Registers
    <3> QED BY <1>1, <2>1, <3>1, <3>3, <3>4, <3>5
  <2> QED BY <2>1, <2>2, <2>3
<1> QED BY <1>2, <1>3

\* All tickets stay, and the flights of all other files.
Quiet(t, p) ==
    /\ Held' = Held /\ UNCHANGED <<epoch, sequence>>
    /\ \A u \in Held, q \in Page : <<u, q>> # <<t, p>> => tickets'[u].writes[q] = tickets[u].writes[q]

LEMMA PrepareEffect ==
    ASSUME SessionsTypeOK, Receipted, NEW t \in Nat, NEW p \in Page, Prepares(t, p)
    PROVE /\ SessionsTypeOK' /\ Receipted' /\ receipts' = receipts /\ Quiet(t, p)
          /\ t \in Held /\ ~Flying(t, p) /\ Flying(t, p)'
<1>1. /\ t \in Held /\ ~Flying(t, p) /\ Flips(t, p, TRUE)
      /\ UNCHANGED <<epoch, sequence, receipts>>
  BY DEF Prepares, Preparable, Usable, Flips
<1>2. /\ Held' = Held /\ tickets' \in [Held -> Ticket]
      /\ \A u \in Held, q \in Page : tickets'[u].writes[q].proof = tickets[u].writes[q].proof
      /\ tickets'[t].writes[p].flying = TRUE
      /\ \A u \in Held, q \in Page :
           <<u, q>> # <<t, p>> => tickets'[u].writes[q] = tickets[u].writes[q]
  BY <1>1, FlightEdit
<1>3. SessionsTypeOK'
  BY <1>1, <1>2 DEF SessionsTypeOK
<1>4. Receipted'
  BY <1>1, <1>2 DEF Receipted
<1> QED BY <1>1, <1>2, <1>3, <1>4 DEF Quiet, Flying

LEMMA AbandonEffect ==
    ASSUME SessionsTypeOK, Receipted, NEW t \in Nat, NEW p \in Page, Abandons(t, p)
    PROVE SessionsTypeOK' /\ Receipted' /\ receipts' = receipts /\ Quiet(t, p)
<1>1. UNCHANGED <<epoch, sequence, receipts>>
  BY DEF Abandons
<1>2. CASE t \notin Held
  BY <1>1, <1>2 DEF Abandons, SessionsTypeOK, Receipted, Quiet, Held
<1>3. CASE t \in Held
  <2>1. Flips(t, p, FALSE)
    BY <1>3 DEF Abandons, Flips
  <2>2. /\ Held' = Held /\ tickets' \in [Held -> Ticket]
        /\ \A u \in Held, q \in Page : tickets'[u].writes[q].proof = tickets[u].writes[q].proof
        /\ \A u \in Held, q \in Page :
             <<u, q>> # <<t, p>> => tickets'[u].writes[q] = tickets[u].writes[q]
    BY <1>3, <2>1, FlightEdit
  <2>3. SessionsTypeOK'
    BY <1>1, <2>2 DEF SessionsTypeOK
  <2>4. Receipted'
    BY <1>1, <2>2 DEF Receipted
  <2> QED BY <1>1, <2>2, <2>3, <2>4 DEF Quiet
<1> QED BY <1>2, <1>3

LEMMA FinishEffect ==
    ASSUME SessionsTypeOK, Receipted, NEW e, NEW t \in Nat, NEW p \in Page, NEW recorded \in BOOLEAN,
           Finishes(e, t, p, recorded)
    PROVE /\ SessionsTypeOK' /\ Receipted' /\ Quiet(t, p)
          /\ receipts' = IF recorded THEN receipts \cup {<<t, p>>} ELSE receipts
          /\ t \in Held /\ e = epoch
<1> DEFINE w == [flying |-> FALSE,
                 proof |-> IF recorded \/ tickets[t].writes[p].proof = "recorded" THEN "recorded" ELSE "written"]
<1>1. /\ t \in Held /\ e = epoch /\ UNCHANGED <<epoch, sequence>>
      /\ Edits(t, p, w)
      /\ receipts' = IF recorded THEN receipts \cup {<<t, p>>} ELSE receipts
  BY DEF Finishes, Finishable, Edits
<1>2. w \in Write
  BY DEF Write, Proof
<1>3. (recorded \/ tickets[t].writes[p].proof = "recorded") => w.proof = "recorded"
  OBVIOUS
<1> HIDE DEF w
<1>4. /\ Held' = Held /\ tickets' \in [Held -> Ticket] /\ tickets'[t].writes[p] = w
      /\ \A u \in Held, q \in Page :
           <<u, q>> # <<t, p>> => tickets'[u].writes[q] = tickets[u].writes[q]
  BY <1>1, <1>2, TicketEdit
<1>5. receipts' \subseteq (1 .. sequence) \X Page
  BY <1>1 DEF SessionsTypeOK
<1>6. SessionsTypeOK'
  BY <1>1, <1>4, <1>5 DEF SessionsTypeOK
<1>7. Receipted'
  <2>1. ASSUME NEW u \in Held', NEW q \in Page, <<u, q>> \in receipts'
        PROVE tickets'[u].writes[q].proof = "recorded"
    <3>1. CASE <<u, q>> = <<t, p>>
      <4>1. u = t /\ q = p
        BY <3>1
      <4>2. recorded \/ <<t, p>> \in receipts
        BY <1>1, <2>1, <4>1
      <4>3. recorded \/ tickets[t].writes[p].proof = "recorded"
        BY <1>1, <4>2 DEF Receipted
      <4> QED BY <1>3, <1>4, <4>1, <4>3
    <3>2. CASE <<u, q>> # <<t, p>>
      BY <1>1, <1>4, <2>1, <3>2 DEF Receipted
    <3> QED BY <3>1, <3>2
  <2> QED BY <2>1 DEF Receipted
<1> QED BY <1>1, <1>4, <1>6, <1>7 DEF Quiet

LEMMA ExpireEffect ==
    ASSUME SessionsTypeOK, Receipted, Expires
    PROVE /\ SessionsTypeOK' /\ Receipted' /\ UNCHANGED <<epoch, sequence, receipts>> /\ Held' = Held
          /\ \A u \in Held, q \in Page : tickets'[u].writes[q] = tickets[u].writes[q]
<1> DEFINE S == {u \in Held : tickets[u].fresh}
           t == Oldest(S)
<1>1. S # {} /\ S \subseteq Nat /\ tickets \in [Held -> Ticket]
  BY DEF Expires, SessionsTypeOK
<1>2. t \in S
  BY <1>1, LeastOf
<1>3. tickets' = [tickets EXCEPT ![t].fresh = FALSE] /\ UNCHANGED <<epoch, sequence, receipts>>
  BY DEF Expires
<1>4. t \in Held
  BY <1>2
<1> HIDE DEF S, t
<1> DEFINE new == [tickets[t] EXCEPT !.fresh = FALSE]
<1>5. new \in Ticket /\ new.writes = tickets[t].writes
  BY <1>1, <1>4 DEF Ticket
<1>6. tickets' = [tickets EXCEPT ![t] = new]
  BY <1>3
<1> HIDE DEF new
<1>7. /\ Held' = Held /\ tickets' \in [Held -> Ticket]
      /\ \A u \in Held, q \in Page : tickets'[u].writes[q] = tickets[u].writes[q]
  BY <1>1, <1>4, <1>5, <1>6 DEF Held
<1> QED BY <1>3, <1>7 DEF SessionsTypeOK, Receipted

-----------------------------------------------------------------------------
(* What the window and the world do to an export.                          *)

PageTypes ==
    /\ active \in Document
    /\ revision \in [Document -> Nat]
    /\ database \in Nat
    /\ client \in Client
    /\ flow \in Flow \cup {Idle}
    /\ asked \in Nat
    /\ approved \in [Export -> Cursor \cup {None}]
    /\ told \in Words
    /\ calls \subseteq Call
    /\ files \in [Export -> [Page -> Content \cup {None, Other}]]
    /\ reloading \in BOOLEAN
    /\ In("write") => flow.page \in Page
    /\ \A c \in calls : c.page = 0 <=> c.attempt = 0

\* The exports asked for and those to come.
BudgetTypes ==
    /\ budget \in [exports: 0 .. MaxExports, calls: Nat, incidents: Nat]
    /\ asked + budget.exports <= MaxExports

\* The export comes to its end.
Over ==
    /\ flow # Idle /\ flow' \in Flow /\ flow'.stage = "end"
    /\ flow'.n = flow.n /\ flow'.page = flow.page /\ flow'.attempt = flow.attempt

\* A command has been admitted and is not over.
Flies(c) == c.stage \notin {"sent", "answered"}

\* The window does not touch such a command.
Leaving(rest) == \A c \in calls : Flies(c) => c \in rest

\* Nothing is added to what is under way.
Closes ==
    /\ calls' \subseteq calls /\ Leaving(calls')
    /\ UNCHANGED <<asked, approved>>
    /\ flow' = flow \/ flow' = Idle \/ Over

ReadsOn ==
    /\ In("flush")
    /\ flow' = [flow EXCEPT !.stage = "check", !.cursor = HostCursor]
    /\ UNCHANGED <<asked, approved, told, calls>>

ReviewsOn ==
    /\ In("check")
    /\ flow' = [flow EXCEPT !.stage = "review"]
    /\ UNCHANGED <<asked, approved, told, calls>>

ApprovesOn ==
    /\ In("review")
    /\ approved' = [approved EXCEPT ![flow.n] = flow.cursor]
    /\ flow' = [flow EXCEPT !.stage = "render"]
    /\ calls' = calls \cup {RenderCall}
    /\ UNCHANGED <<asked, told>>

ReceivesOn(c) ==
    /\ In("render") /\ Answered(c) /\ c.result = "ok"
    /\ flow' = [flow EXCEPT !.stage = "choose", !.ticket = c.ticket, !.content = c.content]
    /\ calls' = calls \ {c}
    /\ UNCHANGED <<asked, approved, told>>

More == {p \in Page : p > flow.page}

SavesOn(c) ==
    /\ In("write") /\ Answered(c) /\ Saved(c) /\ More # {}
    /\ flow' = [flow EXCEPT !.saved = @ + 1, !.unrecorded = @ \/ c.result = "unrecorded",
                            !.page = Lowest(More), !.attempt = 1]
    /\ calls' = (calls \ {c}) \cup {WriteCall(Lowest(More), 1)}
    /\ UNCHANGED <<asked, approved, told>>

RetriesOn ==
    /\ In("write") /\ flow.attempt = 1
    /\ flow' = [flow EXCEPT !.attempt = 2]
    /\ \E rest \in SUBSET calls : Leaving(rest) /\ calls' = rest \cup {WriteCall(flow.page, 2)}
    /\ UNCHANGED <<asked, approved, told>>

LEMMA InShape ==
    ASSUME flow \in Flow \cup {Idle}
    PROVE \A stage : In(stage) => flow \in Flow /\ flow.stage = stage
BY DEF In

LEMMA EndsOver ==
    ASSUME flow \in Flow, NEW word \in Words, Ends(word)
    PROVE Over /\ told' = word /\ flow'.saved = flow.saved
<1>1. flow # Idle
  BY DEF Flow, Idle
<1> QED BY <1>1 DEF Ends, Over, Flow

LEMMA FailsOver ==
    ASSUME flow \in Flow, Fails
    PROVE Over /\ told' \in {"partly", "failed"}
<1>1. (IF flow.saved > 0 THEN "partly" ELSE "failed") \in Words
  BY DEF Words
<1>2. Over /\ told' = IF flow.saved > 0 THEN "partly" ELSE "failed"
  BY <1>1, EndsOver DEF Fails
<1> QED BY <1>2

\* A write is tried again, or given up.
LEMMA TriesMove ==
    ASSUME PageTypes, In("write"), NEW rest \in SUBSET calls, Leaving(rest), TriesAgain(rest),
           UNCHANGED <<asked, approved>>
    PROVE RetriesOn \/ (Closes /\ told' # "saved" /\ told' \in Words)
<1>1. flow \in Flow
  BY InShape DEF PageTypes
<1>2. CASE flow.attempt = 1
  BY <1>2 DEF TriesAgain, RetriesOn
<1>3. CASE flow.attempt # 1
  <2>1. Fails /\ calls' = rest
    BY <1>3 DEF TriesAgain
  <2>2. Over /\ told' \in {"partly", "failed"}
    BY <1>1, <2>1, FailsOver
  <2>3. Leaving(calls')
    BY <2>1
  <2> QED BY <2>1, <2>2, <2>3 DEF Closes, Words
<1> QED BY <1>2, <1>3

\* Told that all is saved: the last file is there.
AllSaved ==
    \E c \in calls :
        /\ In("write") /\ Answered(c) /\ Saved(c) /\ More = {}
        /\ told' = "saved" => ~flow.unrecorded /\ c.result = "ok"

LEMMA WindowMoves ==
    ASSUME PageTypes, WindowActs
    PROVE \/ Click \/ ReadsOn \/ ReviewsOn \/ ApprovesOn \/ Chooses \/ RetriesOn
          \/ \E c \in calls : ReceivesOn(c) \/ SavesOn(c)
          \/ Closes /\ told' \in Words /\ (told' = "saved" => told = "saved" \/ AllSaved)
<1> DEFINE Ending == Closes /\ told' \in Words /\ (told' = "saved" => told = "saved" \/ AllSaved)
<1>0. flow \in Flow \cup {Idle} /\ told \in Words
  BY DEF PageTypes
<1>b. Leaving(calls)
  BY DEF Leaving
<1>c. ASSUME NEW c \in calls, Answered(c) PROVE Leaving(calls \ {c})
  BY <1>c DEF Leaving, Answered, Flies
<1>a. ASSUME flow \in Flow, Fails, calls' \subseteq calls, Leaving(calls'), UNCHANGED <<asked, approved>>
      PROVE Ending
  <2>1. Over /\ told' \in {"partly", "failed"}
    BY <1>a, FailsOver
  <2>2. Closes
    BY <1>a, <2>1 DEF Closes
  <2> QED BY <2>1, <2>2 DEF Words
<1>1. CASE Reads
  <2>1. flow \in Flow /\ In("flush")
    BY <1>0, <1>1, InShape DEF Reads
  <2>2. UNCHANGED <<asked, approved, calls>>
    BY <1>1 DEF Reads
  <2>3. CASE TargetHolds /\ active = client.cursor.document
    BY <1>1, <2>1, <2>2, <2>3 DEF Reads, ReadsOn
  <2>4. CASE ~(TargetHolds /\ active = client.cursor.document)
    <3>1. Fails
      BY <1>1, <2>4 DEF Reads
    <3> QED BY <1>a, <1>b, <2>1, <2>2, <3>1
  <2> QED BY <2>3, <2>4
<1>2. CASE Checks
  <2>1. flow \in Flow /\ In("check")
    BY <1>0, <1>2, InShape DEF Checks
  <2>2. UNCHANGED <<asked, approved, calls>>
    BY <1>2 DEF Checks
  <2>3. CASE StillShown
    BY <1>2, <2>1, <2>2, <2>3 DEF Checks, ReviewsOn
  <2>4. CASE ~StillShown
    <3>1. Fails
      BY <1>2, <2>4 DEF Checks
    <3> QED BY <1>a, <1>b, <2>1, <2>2, <3>1
  <2> QED BY <2>3, <2>4
<1>3. CASE Approves
  <2>1. flow \in Flow /\ In("review")
    BY <1>0, <1>3, InShape DEF Approves
  <2>3. CASE StillShown
    BY <1>3, <2>1, <2>3 DEF Approves, ApprovesOn
  <2>4. CASE ~StillShown
    <3>1. Fails /\ UNCHANGED <<asked, approved, calls>>
      BY <1>3, <2>4 DEF Approves
    <3> QED BY <1>a, <1>b, <2>1, <3>1
  <2> QED BY <2>3, <2>4
<1>4. CASE Cancels
  <2>1. flow \in Flow
    BY <1>0, <1>4, InShape DEF Cancels
  <2>2. Ends("cancelled") /\ UNCHANGED <<asked, approved, calls>> /\ "cancelled" \in Words
    BY <1>4 DEF Cancels, Words
  <2>3. Over /\ told' = "cancelled"
    BY <2>1, <2>2, EndsOver
  <2> QED BY <1>b, <2>2, <2>3 DEF Closes
<1>5. CASE Leaves
  BY <1>0, <1>b, <1>5 DEF Leaves, Closes
<1>6. ASSUME NEW c \in calls, Receives(c) PROVE ReceivesOn(c) \/ Ending
  <2>1. flow \in Flow /\ In("render") /\ Answered(c)
    BY <1>0, <1>6, InShape DEF Receives
  <2>2. calls' = calls \ {c} /\ UNCHANGED <<asked, approved>>
    BY <1>6 DEF Receives
  <2>3. CASE Fails
    BY <1>a, <1>c, <2>1, <2>2, <2>3
  <2>4. CASE ~Fails
    BY <1>6, <2>1, <2>2, <2>4 DEF Receives, ReceivesOn
  <2> QED BY <2>3, <2>4
<1>7. ASSUME NEW c \in calls, WriteAnswered(c) PROVE RetriesOn \/ SavesOn(c) \/ Ending
  <2>1. flow \in Flow /\ In("write") /\ Answered(c) /\ UNCHANGED <<asked, approved>>
    BY <1>0, <1>7, InShape DEF WriteAnswered
  <2>2. CASE Saved(c)
    <3>1. SavesNext(c)
      BY <1>7, <2>2 DEF WriteAnswered
    <3>2. CASE More # {}
      <4>1. /\ flow' = [flow EXCEPT !.saved = @ + 1, !.unrecorded = @ \/ c.result = "unrecorded",
                                    !.page = Lowest(More), !.attempt = 1]
            /\ calls' = (calls \ {c}) \cup {WriteCall(Lowest(More), 1)}
            /\ UNCHANGED told
        BY <2>1, <3>1, <3>2 DEF SavesNext, More, Flow
      <4> QED BY <2>1, <2>2, <3>2, <4>1 DEF SavesOn
    <3>3. CASE More = {}
      <4> DEFINE now == [flow EXCEPT !.saved = @ + 1, !.unrecorded = @ \/ c.result = "unrecorded"]
      <4>1. /\ flow' = [now EXCEPT !.stage = "end"] /\ calls' = calls \ {c}
            /\ told' = IF now.unrecorded THEN "unrecorded" ELSE "saved"
        BY <3>1, <3>3 DEF SavesNext, More
      <4>2. /\ now \in Flow /\ now.n = flow.n /\ now.page = flow.page /\ now.attempt = flow.attempt
            /\ now.unrecorded = (flow.unrecorded \/ c.result = "unrecorded")
        <5> DEFINE b == flow.unrecorded \/ c.result = "unrecorded"
        <5>1. b \in BOOLEAN
          BY <2>1 DEF Flow
        <5>2. now = [flow EXCEPT !.saved = flow.saved + 1, !.unrecorded = b]
          OBVIOUS
        <5>3. flow.saved + 1 \in Nat
          BY <2>1 DEF Flow
        <5> HIDE DEF b
        <5>4. /\ now \in Flow /\ now.n = flow.n /\ now.page = flow.page /\ now.attempt = flow.attempt
              /\ now.unrecorded = b
          BY <2>1, <5>1, <5>2, <5>3 DEF Flow
        <5> QED BY <5>4 DEF b
      <4> HIDE DEF now
      <4>3. flow # Idle
        BY <2>1 DEF In
      <4>4. Over
        BY <4>1, <4>2, <4>3 DEF Over, Flow
      <4>5. told' = "saved" => ~flow.unrecorded /\ c.result = "ok"
        BY <2>2, <4>1, <4>2 DEF Saved
      <4>6. AllSaved
        BY <2>1, <2>2, <3>3, <4>5 DEF AllSaved
      <4>7. told' \in Words
        BY <4>1 DEF Words
      <4> QED BY <1>c, <2>1, <4>1, <4>4, <4>6, <4>7 DEF Closes
    <3> QED BY <3>2, <3>3
  <2>3. CASE ~Saved(c) /\ c.result = "again"
    <3>1. TriesAgain(calls \ {c})
      BY <1>7, <2>3 DEF WriteAnswered
    <3>2. calls \ {c} \in SUBSET calls /\ Leaving(calls \ {c})
      BY <1>c, <2>1
    <3>3. RetriesOn \/ (Closes /\ told' # "saved" /\ told' \in Words)
      BY <2>1, <3>1, <3>2, TriesMove
    <3> QED BY <3>3
  <2>4. CASE ~Saved(c) /\ c.result # "again"
    <3>1. Fails /\ calls' = calls \ {c}
      BY <1>7, <2>4 DEF WriteAnswered
    <3> QED BY <1>a, <1>c, <2>1, <3>1
  <2> QED BY <2>2, <2>3, <2>4
<1>8. ASSUME NEW c \in calls, LosesAnswer(c) PROVE RetriesOn \/ Ending
  <2> DEFINE rest == IF c.stage = "answered" THEN calls \ {c} ELSE calls
  <2>1. Awaited(c) /\ UNCHANGED <<asked, approved>>
        /\ IF In("write") THEN TriesAgain(rest) ELSE Fails /\ calls' = rest
    BY <1>8 DEF LosesAnswer
  <2>2. flow \in Flow /\ rest \in SUBSET calls /\ Leaving(rest)
    BY <1>0, <1>b, <1>c, <2>1, InShape DEF Awaited, Answered
  <2> HIDE DEF rest
  <2>3. CASE In("write")
    <3>1. RetriesOn \/ (Closes /\ told' # "saved" /\ told' \in Words)
      BY <2>1, <2>2, <2>3, TriesMove
    <3> QED BY <3>1
  <2>4. CASE ~In("write")
    BY <1>a, <2>1, <2>2, <2>4
  <2> QED BY <2>3, <2>4
<1> HIDE DEF Ending
<1> QED BY <1>1, <1>2, <1>3, <1>4, <1>5, <1>6, <1>7, <1>8 DEF WindowActs, Ending

LEMMA HostCursorTyped ==
    ASSUME PageTypes
    PROVE HostCursor \in Cursor
BY DEF PageTypes, HostCursor, Cursor

LEMMA NewCalls ==
    ASSUME flow \in Flow
    PROVE /\ RenderCall \in Call /\ RenderCall.n = flow.n /\ RenderCall.page = 0
          /\ RenderCall.attempt = 0 /\ RenderCall.stage = "sent" /\ RenderCall.cursor = flow.cursor
          /\ \A p \in Page, a \in 1 .. 2 :
               /\ WriteCall(p, a) \in Call /\ WriteCall(p, a).n = flow.n /\ WriteCall(p, a).page = p
               /\ WriteCall(p, a).attempt = a /\ WriteCall(p, a).stage = "sent"
               /\ WriteCall(p, a).ticket = flow.ticket /\ WriteCall(p, a).content = flow.content
<1>1. RenderCall \in Call /\ RenderCall.n = flow.n /\ RenderCall.page = 0
      /\ RenderCall.attempt = 0 /\ RenderCall.stage = "sent" /\ RenderCall.cursor = flow.cursor
  BY DEF RenderCall, Call, Flow, Result
<1>2. ASSUME NEW p \in Page, NEW a \in 1 .. 2
      PROVE /\ WriteCall(p, a) \in Call /\ WriteCall(p, a).n = flow.n /\ WriteCall(p, a).page = p
            /\ WriteCall(p, a).attempt = a /\ WriteCall(p, a).stage = "sent"
            /\ WriteCall(p, a).ticket = flow.ticket /\ WriteCall(p, a).content = flow.content
  <2>1. flow.ticket \in Nat /\ flow.content \in Content \cup {None}
    BY DEF Flow
  <2>2. a \in 0 .. 2 /\ p \in Page \cup {0}
    OBVIOUS
  <2>3. WriteCall(p, a) = [RenderCall EXCEPT !.page = p, !.attempt = a, !.ticket = flow.ticket,
                                             !.content = flow.content]
    BY DEF WriteCall
  <2> HIDE DEF RenderCall
  <2>4. WriteCall(p, a) \in Call
    BY <1>1, <2>1, <2>2, <2>3 DEF Call
  <2>5. /\ WriteCall(p, a).n = flow.n /\ WriteCall(p, a).page = p
        /\ WriteCall(p, a).attempt = a /\ WriteCall(p, a).stage = "sent"
        /\ WriteCall(p, a).ticket = flow.ticket /\ WriteCall(p, a).content = flow.content
    BY <1>1, <2>3 DEF Call
  <2> QED BY <2>4, <2>5
<1> QED BY <1>1, <1>2

LEMMA PagesPositive == Page # {} /\ Page \in SUBSET Nat /\ 0 \notin Page /\ \A p \in Page : p \in Nat
BY SessionsAssumption, ExportsAssumption

LEMMA MoreShape ==
    ASSUME More # {}
    PROVE Lowest(More) \in Page /\ Lowest(More) > flow.page /\ \A p \in Page : p > flow.page => Lowest(More) <= p
<1>1. More \in SUBSET Nat /\ \A p \in Page : p > flow.page => p \in More
  BY PagesPositive DEF More
<1>2. Lowest(More) \in More /\ \A p \in More : Lowest(More) <= p
  BY <1>1, LeastOf
<1> QED BY <1>1, <1>2 DEF More

LEMMA SpendsShape ==
    ASSUME budget \in [exports: 0 .. MaxExports, calls: Nat, incidents: Nat],
           NEW name \in {"exports", "calls", "incidents"}, Spends(name)
    PROVE /\ budget' \in [exports: 0 .. MaxExports, calls: Nat, incidents: Nat]
          /\ name = "exports" => budget.exports > 0 /\ budget'.exports = budget.exports - 1
          /\ name # "exports" => budget'.exports = budget.exports
<1>1. MaxExports \in Nat
  BY ExportsAssumption
<1>2. CASE name = "exports"
  BY <1>1, <1>2 DEF Spends
<1>3. CASE name = "calls"
  BY <1>1, <1>3 DEF Spends
<1>4. CASE name = "incidents"
  BY <1>1, <1>4 DEF Spends
<1> QED BY <1>2, <1>3, <1>4

LEMMA BudgetKept ==
    ASSUME BudgetTypes, asked \in Nat, Next
    PROVE BudgetTypes' /\ (Click => asked + 1 \in Export)
<1> DEFINE Typed == budget \in [exports: 0 .. MaxExports, calls: Nat, incidents: Nat]
<1>0. Typed /\ MaxExports \in Nat /\ asked + budget.exports <= MaxExports
  BY ExportsAssumption DEF BudgetTypes
<1>1. CASE Click
  <2>1. Typed' /\ budget.exports > 0 /\ budget'.exports = budget.exports - 1 /\ asked' = asked + 1
    BY <1>0, <1>1, SpendsShape DEF Click
  <2>2. budget.exports \in Nat
    BY <1>0
  <2>3. asked' + budget'.exports <= MaxExports /\ asked + 1 \in 1 .. MaxExports
    BY <1>0, <2>1, <2>2
  <2> QED BY <2>1, <2>3 DEF BudgetTypes, Export
<1>2. CASE ~Click
  <2>1. asked' = asked
    <3>1. CASE UpdateSide
      BY <3>1, UpdateSideShape DEF page, export
    <3>2. CASE WindowActs
      BY <1>2, <3>2 DEF WindowActs, Reads, Checks, Approves, Cancels, Chooses, Leaves, Receives, WriteAnswered, LosesAnswer
    <3>3. CASE WorldActs
      BY <3>3 DEF WorldActs, Edit, Interferes, Restores, Loads, TimePasses, Switches, FileChanges, around, window, export
    <3>4. CASE CommandStep
      BY <3>4, CommandFrame DEF window, export
    <3> QED BY <3>1, <3>2, <3>3, <3>4, Steps
  <2>2. budget' = budget \/ Spends("calls") \/ Spends("incidents")
    <3>1. CASE UpdateSide
      BY <3>1 DEF UpdateSide, Calls, AsksInstall, Prepared, InstallAnswered, Update
    <3>2. CASE WindowActs
      <4>1. CASE Reads \/ Checks \/ Approves \/ Cancels \/ Chooses \/ Leaves
        BY <4>1 DEF Reads, Checks, Approves, Cancels, Chooses, Leaves
      <4>2. ASSUME NEW c \in calls, Receives(c) \/ WriteAnswered(c) \/ LosesAnswer(c)
            PROVE budget' = budget \/ Spends("incidents")
        BY <4>2 DEF Receives, WriteAnswered, LosesAnswer, Happens
      <4> QED BY <1>2, <3>2, <4>1, <4>2 DEF WindowActs
    <3>3. CASE WorldActs
      BY <3>3 DEF WorldActs, Edit, Interferes, Restores, Loads, TimePasses, Switches, FileChanges, Happens
    <3>4. CASE CommandStep
      BY <3>4 DEF CommandStep, TurnedAway, RenderBegins, RenderRefused, RenderFreezes, RenderRegisters, RenderFails,
         WriteBegins, WriteRefused, WriteReplaces, WriteVerifies, WriteFails, WriteFinishes, hosts, Happens
    <3> QED BY <3>1, <3>2, <3>3, <3>4, Steps
  <2>3. Typed' /\ budget'.exports = budget.exports
    BY <1>0, <2>2, SpendsShape
  <2> QED BY <1>0, <1>2, <2>1, <2>3 DEF BudgetTypes
<1> QED BY <1>1, <1>2

LEMMA FlowMoveTypes ==
    ASSUME PageTypes, WindowActs, Click => asked + 1 \in Export
    PROVE flow' \in Flow \cup {Idle} /\ (In("write") => flow.page \in Page)'
<1>0. flow \in Flow \cup {Idle} /\ client \in Client
  BY DEF PageTypes
<1>1. CASE Click
  <2>1. flow' = [n |-> asked + 1, stage |-> "flush", target |-> client, cursor |-> client.cursor,
                ticket |-> 0, content |-> None, page |-> 0, attempt |-> 1, saved |-> 0,
                unrecorded |-> FALSE]
    BY <1>1 DEF Click
  <2>2. client.cursor \in Cursor
    BY <1>0 DEF Client
  <2> QED BY <1>0, <1>1, <2>1, <2>2 DEF Flow, In
<1>2. CASE ReadsOn
  <2>1. flow \in Flow
    BY <1>0, <1>2, InShape DEF ReadsOn
  <2>2. HostCursor \in Cursor
    BY HostCursorTyped
  <2> HIDE DEF HostCursor
  <2> QED BY <1>2, <2>1, <2>2 DEF ReadsOn, Flow, In
<1>3. CASE ReviewsOn \/ ApprovesOn
  <2>1. flow \in Flow
    BY <1>0, <1>3, InShape DEF ReviewsOn, ApprovesOn
  <2> QED BY <1>3, <2>1 DEF ReviewsOn, ApprovesOn, Flow, In
<1>4. CASE Chooses
  <2>1. flow \in Flow /\ flow' = [flow EXCEPT !.stage = "write", !.page = Lowest(Page)]
    BY <1>0, <1>4, InShape DEF Chooses
  <2>2. Lowest(Page) \in Page
    BY PagesPositive, LeastOf
  <2> QED BY <2>1, <2>2 DEF Flow, In
<1>5. CASE RetriesOn
  <2>1. flow \in Flow /\ flow' = [flow EXCEPT !.attempt = 2] /\ flow.page \in Page
    BY <1>0, <1>5, InShape DEF RetriesOn, PageTypes
  <2> QED BY <2>1 DEF Flow, In
<1>6. ASSUME NEW c \in calls, ReceivesOn(c) PROVE flow' \in Flow /\ flow'.stage = "choose"
  <2>1. flow \in Flow /\ flow' = [flow EXCEPT !.stage = "choose", !.ticket = c.ticket, !.content = c.content]
    BY <1>0, <1>6, InShape DEF ReceivesOn
  <2>2. c.ticket \in Nat /\ c.content \in Content \cup {None}
    BY DEF PageTypes, Call
  <2> QED BY <2>1, <2>2 DEF Flow
<1>7. ASSUME NEW c \in calls, SavesOn(c) PROVE flow' \in Flow /\ flow'.page \in Page
  <2> DEFINE b == flow.unrecorded \/ c.result = "unrecorded"
             p == Lowest(More)
  <2>1. flow \in Flow /\ More # {}
    BY <1>0, <1>7, InShape DEF SavesOn
  <2>2. flow' = [flow EXCEPT !.saved = flow.saved + 1, !.unrecorded = b, !.page = p, !.attempt = 1]
    BY <1>7 DEF SavesOn
  <2>3. b \in BOOLEAN
    BY <2>1 DEF Flow
  <2>4. flow.saved + 1 \in Nat /\ p \in Page
    BY <2>1, MoreShape DEF Flow
  <2> HIDE DEF b, p
  <2>5. p \in Page \cup {0} /\ 1 \in 1 .. 2
    BY <2>4
  <2>6. flow' \in Flow
    BY <2>1, <2>2, <2>3, <2>4, <2>5 DEF Flow
  <2>7. flow'.page = p
    BY <2>1, <2>2 DEF Flow
  <2> QED BY <2>4, <2>6, <2>7
<1>8. CASE Closes
  BY <1>0, <1>8 DEF Closes, Over, In, Idle, PageTypes
<1> QED BY <1>1, <1>2, <1>3, <1>4, <1>5, <1>6, <1>7, <1>8, WindowMoves DEF In

LEMMA WindowTypes ==
    ASSUME PageTypes, WindowActs, Click => asked + 1 \in Export
    PROVE PageTypes'
<1>0. /\ flow \in Flow \cup {Idle} /\ calls \subseteq Call /\ asked \in Nat
      /\ approved \in [Export -> Cursor \cup {None}] /\ told \in Words
      /\ \A c \in calls : c.page = 0 <=> c.attempt = 0
  BY DEF PageTypes
<1>1. flow' \in Flow \cup {Idle} /\ (In("write") => flow.page \in Page)'
  BY FlowMoveTypes
<1>2. client' \in Client
  <2>1. client' = client \/ client' = [client EXCEPT !.cursor = HostCursor]
    <3>1. CASE Click \/ Reads \/ Checks \/ Approves \/ Cancels \/ Chooses \/ Leaves
      BY <3>1 DEF Click, Reads, Checks, Approves, Cancels, Chooses, Leaves
    <3>2. CASE \E c \in calls : Receives(c) \/ WriteAnswered(c) \/ LosesAnswer(c)
      BY <3>2 DEF Receives, WriteAnswered, LosesAnswer
    <3> QED BY <3>1, <3>2 DEF WindowActs
  <2>2. client \in Client /\ HostCursor \in Cursor
    BY HostCursorTyped DEF PageTypes
  <2> QED BY <2>1, <2>2 DEF Client
<1> DEFINE Calls2 == calls' \subseteq Call /\ \A c \in calls' : c.page = 0 <=> c.attempt = 0
<1>3. Calls2 /\ asked' \in Nat /\ approved' \in [Export -> Cursor \cup {None}] /\ told' \in Words
  <2>a. ASSUME flow \in Flow, NEW p \in Page, NEW a \in 1 .. 2, NEW rest \in SUBSET calls,
               calls' = rest \cup {WriteCall(p, a)}
        PROVE Calls2
    <3>1. WriteCall(p, a) \in Call /\ WriteCall(p, a).page = p /\ WriteCall(p, a).attempt = a
      BY <2>a, NewCalls
    <3>2. p # 0 /\ a # 0
      BY PagesPositive
    <3> QED BY <1>0, <2>a, <3>1, <3>2
  <2> HIDE DEF Calls2
  <2>1. CASE Click
    <3>1. UNCHANGED <<approved, calls>> /\ asked' = asked + 1 /\ told' = "nothing"
      BY <2>1 DEF Click
    <3> QED BY <1>0, <3>1 DEF Words, Calls2
  <2>2. CASE ReadsOn \/ ReviewsOn
    BY <1>0, <2>2 DEF ReadsOn, ReviewsOn, Calls2
  <2>3. CASE ApprovesOn
    <3>1. flow \in Flow /\ UNCHANGED <<asked, told>> /\ calls' = calls \cup {RenderCall}
          /\ approved' = [approved EXCEPT ![flow.n] = flow.cursor]
      BY <1>0, <2>3, InShape DEF ApprovesOn
    <3>2. flow.n \in Export /\ flow.cursor \in Cursor
      BY <3>1 DEF Flow
    <3>3. RenderCall \in Call /\ RenderCall.page = 0 /\ RenderCall.attempt = 0
      BY <3>1, NewCalls
    <3>4. approved' \in [Export -> Cursor \cup {None}]
      BY <1>0, <3>1, <3>2
    <3>5. Calls2
      BY <1>0, <3>1, <3>3 DEF Calls2
    <3> QED BY <1>0, <3>1, <3>4, <3>5
  <2>4. CASE Chooses
    <3>1. flow \in Flow /\ Lowest(Page) \in Page /\ calls' = calls \cup {WriteCall(Lowest(Page), 1)}
          /\ UNCHANGED <<asked, approved, told>>
      BY <1>0, <2>4, InShape, PagesPositive, LeastOf DEF Chooses
    <3>2. Calls2
      BY <2>a, <3>1
    <3> QED BY <1>0, <3>1, <3>2
  <2>5. CASE RetriesOn
    <3>1. PICK rest \in SUBSET calls : calls' = rest \cup {WriteCall(flow.page, 2)}
      BY <2>5 DEF RetriesOn
    <3>2. flow \in Flow /\ flow.page \in Page /\ UNCHANGED <<asked, approved, told>>
      BY <1>0, <2>5, InShape DEF RetriesOn, PageTypes
    <3>3. Calls2
      BY <2>a, <3>1, <3>2
    <3> QED BY <1>0, <3>2, <3>3
  <2>6. ASSUME NEW c \in calls, ReceivesOn(c)
        PROVE Calls2 /\ UNCHANGED <<asked, approved, told>>
    BY <1>0, <2>6 DEF ReceivesOn, Calls2
  <2>7. ASSUME NEW c \in calls, SavesOn(c)
        PROVE Calls2 /\ UNCHANGED <<asked, approved, told>>
    <3>1. flow \in Flow /\ Lowest(More) \in Page /\ calls' = (calls \ {c}) \cup {WriteCall(Lowest(More), 1)}
          /\ UNCHANGED <<asked, approved, told>>
      BY <1>0, <2>7, InShape, MoreShape DEF SavesOn
    <3>2. Calls2
      <4>1. calls \ {c} \in SUBSET calls /\ 1 \in 1 .. 2
        OBVIOUS
      <4> QED BY <2>a, <3>1, <4>1
    <3> QED BY <3>1, <3>2
  <2>8. CASE Closes /\ told' \in Words
    BY <1>0, <2>8 DEF Closes, Calls2
  <2> QED BY <1>0, <2>1, <2>2, <2>3, <2>4, <2>5, <2>6, <2>7, <2>8, WindowMoves
<1>4. UNCHANGED <<world, files, reloading>>
  BY WindowFrame
<1> QED BY <1>1, <1>2, <1>3, <1>4 DEF PageTypes, world

LEMMA WorldMoves ==
    ASSUME WorldActs
    PROVE /\ Closes /\ told' \in {told, "nothing"}
          /\ flow' = flow \/ flow' = Idle
          /\ \/ UNCHANGED sessions \/ Expires
             \/ Invalidates /\ receipts' = {} /\ reloading'
          /\ reloading => reloading' \/ (calls' = {c \in calls : c.stage # "answered"} /\ flow' = Idle)
<1>1. CASE Edit \/ Interferes \/ TimePasses
  BY <1>1 DEF Edit, Interferes, TimePasses, around, window, export, Closes, Leaving
<1>2. CASE Restores
  BY <1>2 DEF Restores, around, export, Closes, Leaving
<1>3. CASE Loads
  BY <1>3 DEF Loads, Closes, Leaving, Flies
<1>4. CASE (\E d \in Document : Switches(d)) \/ (\E n \in Export, p \in Page : FileChanges(n, p))
  BY <1>4 DEF Switches, FileChanges, around, window, export, Closes, Leaving
<1> QED BY <1>1, <1>2, <1>3, <1>4 DEF WorldActs

LEMMA WorldTypes ==
    ASSUME PageTypes, WorldActs
    PROVE PageTypes'
<1>0. /\ active \in Document /\ revision \in [Document -> Nat] /\ database \in Nat /\ client \in Client
      /\ files \in [Export -> [Page -> Content \cup {None, Other}]] /\ HostCursor \in Cursor
  BY HostCursorTyped DEF PageTypes
<1>1. /\ flow' \in Flow \cup {Idle} /\ (In("write") => flow.page \in Page)'
      /\ asked' \in Nat /\ approved' \in [Export -> Cursor \cup {None}] /\ told' \in Words
      /\ calls' \subseteq Call /\ \A c \in calls' : c.page = 0 <=> c.attempt = 0
  <2>1. UNCHANGED <<asked, approved>> /\ calls' \subseteq calls /\ told' \in {told, "nothing"}
        /\ (flow' = flow \/ flow' = Idle)
    BY WorldMoves DEF Closes
  <2> QED BY <2>1 DEF PageTypes, Words, In, Idle
<1> DEFINE Places == /\ active \in Document /\ revision \in [Document -> Nat] /\ database \in Nat
                     /\ client \in Client /\ reloading \in BOOLEAN
                     /\ files \in [Export -> [Page -> Content \cup {None, Other}]]
<1>2. Places'
  <2>1. CASE Edit
    <3>1. /\ revision' = [revision EXCEPT ![active] = @ + 1]
          /\ client' = [client EXCEPT !.cursor.revision = @ + 1]
          /\ UNCHANGED <<active, database, files, reloading>>
      BY <2>1 DEF Edit, around
    <3>2. client.cursor \in Cursor /\ client.cursor.revision + 1 \in Nat
      BY <1>0 DEF Client, Cursor
    <3>3. client' \in Client
      BY <1>0, <3>1, <3>2 DEF Client, Cursor
    <3> QED BY <1>0, <3>1, <3>3 DEF PageTypes
  <2>2. CASE Interferes
    BY <1>0, <2>2 DEF Interferes, around, window, PageTypes
  <2>3. CASE Restores
    BY <1>0, <2>3 DEF Restores, around
  <2>4. CASE Loads
    <3>1. /\ client' = [cursor |-> HostCursor, visit |-> client.visit + 1] /\ reloading' = FALSE
          /\ UNCHANGED <<active, revision, database, files>>
      BY <2>4 DEF Loads, world
    <3>2. client.visit + 1 \in Nat
      BY <1>0 DEF Client
    <3> HIDE DEF HostCursor
    <3> QED BY <1>0, <3>1, <3>2 DEF Client
  <2>5. CASE TimePasses
    BY <1>0, <2>5 DEF TimePasses, world, window, PageTypes
  <2>6. ASSUME NEW d \in Document, Switches(d) PROVE Places'
    <3>1. /\ active' = d /\ revision' = [revision EXCEPT ![active] = @ + 1]
          /\ client' = [cursor |-> [document |-> d, revision |-> revision[d]], visit |-> client.visit + 1]
          /\ UNCHANGED <<database, files, reloading>>
      BY <2>6 DEF Switches, around
    <3>2. client' \in Client
      BY <1>0, <3>1 DEF Client, Cursor
    <3> QED BY <1>0, <3>1, <3>2 DEF PageTypes
  <2>7. ASSUME NEW n \in Export, NEW p \in Page, FileChanges(n, p)
        PROVE Places'
    <3>1. files' = [files EXCEPT ![n][p] = Other] /\ UNCHANGED <<active, revision, database, client, reloading>>
      BY <2>7 DEF FileChanges, world, window
    <3>2. [files[n] EXCEPT ![p] = Other] \in [Page -> Content \cup {None, Other}]
      BY <1>0
    <3> QED BY <1>0, <3>1, <3>2 DEF PageTypes
  <2> HIDE DEF Places
  <2> QED BY <2>1, <2>2, <2>3, <2>4, <2>5, <2>6, <2>7 DEF WorldActs
<1> QED BY <1>1, <1>2 DEF PageTypes

-----------------------------------------------------------------------------
(* What the commands do.                                                   *)

CommandActs(c) ==
    \/ TurnedAway(c) \/ RenderBegins(c) \/ RenderRefused(c) \/ RenderFreezes(c)
    \/ RenderRegisters(c) \/ RenderFails(c) \/ WriteBegins(c) \/ WriteRefused(c)
    \/ WriteReplaces(c) \/ WriteVerifies(c) \/ WriteFails(c) \/ WriteFinishes(c)

\* A command goes on as another step of itself.
Successor(c, d) ==
    /\ d \in Call
    /\ d.n = c.n /\ d.page = c.page /\ d.attempt = c.attempt /\ d.cursor = c.cursor
    /\ c.attempt > 0 => d.ticket = c.ticket /\ d.content = c.content

Replaced(c, d) == calls' = (calls \ {c}) \cup {d}

LEMMA AnswersShape ==
    ASSUME NEW c \in Call, NEW result \in Result, Answers(c, result)
    PROVE \/ ~Awaited(c) /\ calls' = calls \ {c}
          \/ Awaited(c) /\ \E d : /\ Successor(c, d) /\ Replaced(c, d)
                                  /\ d.stage = "answered" /\ d.result = result
                                  /\ d.ticket = c.ticket
<1>1. CASE ~Awaited(c)
  BY <1>1 DEF Answers
<1>2. CASE Awaited(c)
  <2> DEFINE d == [c EXCEPT !.stage = "answered", !.result = result]
  <2>1. d \in Call /\ d.stage = "answered" /\ d.result = result
        /\ d.n = c.n /\ d.page = c.page /\ d.attempt = c.attempt /\ d.cursor = c.cursor
        /\ d.ticket = c.ticket /\ d.content = c.content
    BY DEF Call
  <2>2. Replaced(c, d)
    BY <1>2 DEF Answers, Replaced
  <2> HIDE DEF d
  <2>3. Successor(c, d)
    BY <2>1 DEF Successor
  <2> QED BY <1>2, <2>1, <2>2, <2>3
<1> QED BY <1>1, <1>2

LEMMA RenderBeginsShape ==
    ASSUME NEW c \in Call, epoch \in Nat, RenderBegins(c)
    PROVE c.attempt = 0 /\ \E d : Successor(c, d) /\ Replaced(c, d) /\ d.stage = "checked"
<1> DEFINE d == [c EXCEPT !.stage = "checked", !.epoch = epoch]
<1>1. Replaced(c, d) /\ c.attempt = 0
  BY DEF RenderBegins, Rendering, Becomes, Replaced
<1>2. Successor(c, d) /\ d.stage = "checked"
  BY DEF Call, Successor
<1> HIDE DEF d
<1> QED BY <1>1, <1>2

LEMMA RenderFreezesShape ==
    ASSUME PageTypes, NEW c \in Call, RenderFreezes(c)
    PROVE /\ c.attempt = 0
          /\ \E d : /\ Successor(c, d) /\ Replaced(c, d) /\ d.stage = "frozen"
                    /\ d.content \in Content /\ d.content.cursor = c.cursor
<1> DEFINE new == [cursor |-> HostCursor, database |-> database]
           d == [c EXCEPT !.stage = "frozen", !.content = new]
<1>1. Replaced(c, d) /\ c.attempt = 0 /\ c.cursor = HostCursor
  BY DEF RenderFreezes, Rendering, Freezes, CursorCurrent, Becomes, Replaced
<1>2. new \in Content /\ new.cursor = HostCursor
  BY HostCursorTyped DEF Content, PageTypes
<1> HIDE DEF new
<1>3. /\ d \in Call /\ d.n = c.n /\ d.page = c.page /\ d.attempt = c.attempt /\ d.cursor = c.cursor
      /\ d.stage = "frozen" /\ d.content = new
  BY <1>2 DEF Call
<1> HIDE DEF d
<1>4. Successor(c, d)
  BY <1>1, <1>3 DEF Successor
<1> QED BY <1>1, <1>2, <1>3, <1>4

LEMMA RenderRegistersShape ==
    ASSUME NEW c \in Call, sequence' \in Nat, RenderRegisters(c)
    PROVE /\ c.attempt = 0 /\ c.stage = "frozen"
          /\ \/ calls' = calls \ {c}
             \/ \E d : /\ Successor(c, d) /\ Replaced(c, d) /\ d.stage = "answered"
                       /\ d.content = c.content /\ d.ticket = sequence'
<1>0. c.attempt = 0 /\ c.stage = "frozen"
  BY DEF RenderRegisters, Rendering
<1>1. CASE Awaited(c)
  <2> DEFINE d == [c EXCEPT !.stage = "answered", !.result = "ok", !.ticket = sequence']
  <2>1. Replaced(c, d)
    BY <1>1 DEF RenderRegisters, Replaced
  <2>2. /\ d \in Call /\ d.n = c.n /\ d.page = c.page /\ d.attempt = c.attempt /\ d.cursor = c.cursor
        /\ d.stage = "answered" /\ d.content = c.content /\ d.ticket = sequence'
    BY DEF Call, Result
  <2> HIDE DEF d
  <2>3. Successor(c, d)
    BY <1>0, <2>2 DEF Successor
  <2> QED BY <1>0, <2>1, <2>2, <2>3
<1>2. CASE ~Awaited(c)
  BY <1>0, <1>2 DEF RenderRegisters
<1> QED BY <1>1, <1>2

LEMMA WriteBeginsShape ==
    ASSUME NEW c \in Call, epoch \in Nat, WriteBegins(c)
    PROVE /\ c.attempt > 0 /\ c.stage = "sent"
          /\ \E d : /\ Successor(c, d) /\ Replaced(c, d) /\ d.stage = "prepared"
                    /\ d.epoch = epoch /\ d.verify = AlreadyWritten(c.ticket, c.page)
<1> DEFINE v == AlreadyWritten(c.ticket, c.page)
           d == [c EXCEPT !.stage = "prepared", !.epoch = epoch, !.verify = v]
<1>1. Replaced(c, d) /\ c.attempt > 0 /\ c.stage = "sent"
  BY DEF WriteBegins, Writing, Becomes, Replaced
<1>2. v \in BOOLEAN
  BY DEF AlreadyWritten
<1> HIDE DEF v
<1>3. Successor(c, d) /\ d.stage = "prepared" /\ d.epoch = epoch /\ d.verify = v
  BY <1>2 DEF Call, Successor
<1> HIDE DEF d
<1> QED BY <1>1, <1>3 DEF v

LEMMA WriteGoesOnShape ==
    ASSUME NEW c \in Call, WriteReplaces(c) \/ WriteVerifies(c)
    PROVE /\ c.attempt > 0 /\ c.stage \in {"prepared", "replaced"}
          /\ \E d : /\ Successor(c, d) /\ Replaced(c, d) /\ d.stage \in {"replaced", "verified"}
                    /\ d.epoch = c.epoch
<1>1. c.attempt > 0 /\ c.stage \in {"prepared", "replaced"}
  BY DEF WriteReplaces, WriteVerifies, Writing
<1>2. PICK stage \in {"replaced", "verified"} : Becomes(c, [c EXCEPT !.stage = stage])
  BY DEF WriteReplaces, WriteVerifies
<1> DEFINE d == [c EXCEPT !.stage = stage]
<1>3. Replaced(c, d)
  BY <1>2 DEF Becomes, Replaced
<1>4. Successor(c, d) /\ d.stage = stage /\ d.epoch = c.epoch
  BY DEF Call, Successor
<1> HIDE DEF d
<1> QED BY <1>1, <1>3, <1>4

\* Each command: its successor, or that it is gone, and what it does to the flights.
LEMMA CommandShape ==
    ASSUME PageTypes, SessionsTypeOK, Receipted, NEW c \in calls, CommandActs(c)
    PROVE /\ c \in Call
          /\ calls' = calls \ {c} \/ \E d : Successor(c, d) /\ Replaced(c, d)
          /\ \/ /\ ~Flies(c) /\ UNCHANGED flights
                /\ calls' = calls \ {c} \/ \E d : Successor(c, d) /\ Replaced(c, d) /\ ~Flies(d)
             \/ /\ Flies(c) /\ UNCHANGED flights
                /\ \E d : Successor(c, d) /\ Replaced(c, d) /\ Flies(d)
             \/ /\ ~Flies(c) /\ Admitted
                /\ \E d : Successor(c, d) /\ Replaced(c, d) /\ Flies(d)
             \/ /\ Flies(c) /\ Landed
                /\ calls' = calls \ {c} \/ \E d : Successor(c, d) /\ Replaced(c, d) /\ ~Flies(d)
<1>0. c \in Call /\ epoch \in Nat
  BY DEF PageTypes, SessionsTypeOK
<1>b. ASSUME NEW result \in {"again", "refused", "ok", "unrecorded"}, Answers(c, result)
      PROVE calls' = calls \ {c} \/ \E d : Successor(c, d) /\ Replaced(c, d) /\ ~Flies(d)
  <2>1. result \in Result
    BY DEF Result
  <2>2. \/ calls' = calls \ {c}
        \/ \E d : Successor(c, d) /\ Replaced(c, d) /\ d.stage = "answered"
    BY <1>0, <1>b, <2>1, AnswersShape
  <2> QED BY <2>2 DEF Flies
<1>1. CASE TurnedAway(c)
  <2>1. Answers(c, "again") /\ UNCHANGED flights /\ ~Flies(c)
    BY <1>1 DEF TurnedAway, Flies
  <2> QED BY <1>0, <1>b, <2>1
<1>2. CASE RenderBegins(c)
  <2>1. Admitted /\ ~Flies(c)
    BY <1>2 DEF RenderBegins, Rendering, Flies
  <2>2. \E d : Successor(c, d) /\ Replaced(c, d) /\ Flies(d)
    BY <1>0, <1>2, RenderBeginsShape DEF Flies
  <2> QED BY <1>0, <2>1, <2>2
<1>3. CASE RenderRefused(c)
  <2>1. Answers(c, "refused") /\ ((~Flies(c) /\ UNCHANGED flights) \/ (Flies(c) /\ Landed))
    <3>1. Answers(c, "refused")
      BY <1>3 DEF RenderRefused
    <3>2. CASE Rendering(c, "sent") /\ UNCHANGED flights
      <4>1. ~Flies(c)
        BY <3>2 DEF Rendering, Flies
      <4> QED BY <3>1, <3>2, <4>1
    <3>3. CASE Rendering(c, "checked") /\ Landed
      BY <3>1, <3>3 DEF Rendering, Flies
    <3> QED BY <1>3, <3>2, <3>3 DEF RenderRefused
  <2> QED BY <1>0, <1>b, <2>1
<1>4. CASE RenderFreezes(c)
  <2>1. UNCHANGED flights /\ Flies(c)
    BY <1>4 DEF RenderFreezes, Rendering, Flies
  <2>2. \E d : Successor(c, d) /\ Replaced(c, d) /\ Flies(d)
    BY <1>0, <1>4, RenderFreezesShape DEF Flies
  <2> QED BY <1>0, <2>1, <2>2
<1>5. CASE RenderRegisters(c)
  <2>1. Registers(c.epoch) /\ Landed /\ Flies(c)
    BY <1>5 DEF RenderRegisters, Rendering, Flies
  <2>2. sequence' \in Nat
    BY <2>1, RegisterEffect DEF SessionsTypeOK
  <2>3. calls' = calls \ {c} \/ \E d : Successor(c, d) /\ Replaced(c, d) /\ ~Flies(d)
    BY <1>0, <1>5, <2>2, RenderRegistersShape DEF Flies
  <2> QED BY <1>0, <2>1, <2>3
<1>6. CASE RenderFails(c)
  <2>1. Answers(c, "refused") /\ Landed /\ Flies(c)
    BY <1>6 DEF RenderFails, Rendering, Flies
  <2> QED BY <1>0, <1>b, <2>1
<1>7. CASE WriteBegins(c)
  <2>1. Admitted /\ ~Flies(c)
    BY <1>7 DEF WriteBegins, Writing, Flies
  <2>2. \E d : Successor(c, d) /\ Replaced(c, d) /\ Flies(d)
    BY <1>0, <1>7, WriteBeginsShape DEF Flies
  <2> QED BY <1>0, <2>1, <2>2
<1>8. CASE WriteRefused(c)
  <2>1. UNCHANGED flights /\ ~Flies(c) /\ (Answers(c, "again") \/ Answers(c, "refused"))
    BY <1>8 DEF WriteRefused, Writing, Flies
  <2> QED BY <1>0, <1>b, <2>1
<1>9. CASE WriteReplaces(c) \/ WriteVerifies(c)
  <2>1. Flies(c) /\ UNCHANGED flights
    BY <1>9 DEF WriteReplaces, WriteVerifies, Writing, Flies
  <2>2. \E d : Successor(c, d) /\ Replaced(c, d) /\ Flies(d)
    BY <1>0, <1>9, WriteGoesOnShape DEF Flies
  <2> QED BY <1>0, <2>1, <2>2
<1>10. CASE WriteFails(c)
  <2>1. Landed /\ Flies(c) /\ (Answers(c, "again") \/ Answers(c, "refused"))
    BY <1>10 DEF WriteFails, Writing, Flies
  <2> QED BY <1>0, <1>b, <2>1
<1>11. CASE WriteFinishes(c)
  <2>1. Landed /\ Flies(c) /\ (Answers(c, "ok") \/ Answers(c, "unrecorded"))
    BY <1>11 DEF WriteFinishes, Writing, Flies
  <2> QED BY <1>0, <1>b, <2>1
<1> QED BY <1>1, <1>2, <1>3, <1>4, <1>5, <1>6, <1>7, <1>8, <1>9, <1>10, <1>11 DEF CommandActs

\* A call is known by its export, its page and its attempt; the window is never
\* behind its calls, and none has been sent before the review.
Named(c, d) == c.n = d.n /\ c.page = d.page /\ c.attempt = d.attempt

Reached(c) ==
    /\ c.n <= asked
    /\ flow # Idle /\ c.n = flow.n =>
         /\ flow.stage \notin {"flush", "check", "review"}
         /\ c.attempt > 0 =>
              /\ flow.stage \in {"write", "end"}
              /\ c.page < flow.page \/ (c.page = flow.page /\ c.attempt <= flow.attempt)

Numbered ==
    /\ \A c, d \in calls : Named(c, d) => c = d
    /\ flow # Idle => flow.n = asked
    /\ \A c \in calls : Reached(c)

LEMMA CommandNumbered ==
    ASSUME PageTypes, SessionsTypeOK, Receipted, Numbered, NEW c \in calls, CommandActs(c),
           UNCHANGED <<flow, asked>>
    PROVE Numbered'
<1>1. \A d : Successor(c, d) => Named(c, d)
  BY DEF Successor, Named
<1>2. calls' = calls \ {c} \/ \E d : Named(c, d) /\ calls' = (calls \ {c}) \cup {d}
  BY <1>1, CommandShape DEF Replaced
<1>3. \A d \in calls' : d \in calls \/ Named(c, d)
  BY <1>2

<1>4. \A d, e \in calls' : Named(d, e) => d = e
  <2>1. CASE calls' = calls \ {c}
    BY <2>1 DEF Numbered
  <2>2. ASSUME NEW d, Named(c, d), calls' = (calls \ {c}) \cup {d}
        PROVE \A f, e \in calls' : Named(f, e) => f = e
    <3>1. ASSUME NEW e \in calls, e # c PROVE ~Named(d, e) /\ ~Named(e, d)
      <4>1. ~Named(c, e)
        BY <3>1 DEF Numbered
      <4> QED BY <2>2, <4>1 DEF Named
    <3>2. \A f, e \in calls : Named(f, e) => f = e
      BY DEF Numbered
    <3> HIDE DEF Named
    <3> QED BY <2>2, <3>1, <3>2
  <2> QED BY <1>2, <2>1, <2>2
<1>5. \A d \in calls' : Reached(d)'
  <2>1. \A d \in calls : Reached(d)'
    BY DEF Numbered, Reached
  <2>2. \A d : Named(c, d) /\ Reached(c)' => Reached(d)'
    BY DEF Named, Reached
  <2> QED BY <1>3, <2>1, <2>2
<1> QED BY <1>4, <1>5 DEF Numbered

\* Numbers that were not there yet are those of a new call.
LEMMA AddNumbered ==
    ASSUME NEW rest, \A c, d \in rest : Named(c, d) => c = d,
           NEW new, \A c \in rest : ~Named(c, new)
    PROVE \A c, d \in rest \cup {new} : Named(c, d) => c = d
<1>1. \A c \in rest : ~Named(new, c)
  BY DEF Named
<1> QED BY <1>1

LEMMA WindowNumbered ==
    ASSUME PageTypes, Numbered, WindowActs, Click => asked + 1 \in Export
    PROVE Numbered'
<1>0. /\ flow \in Flow \cup {Idle} /\ asked \in Nat /\ calls \subseteq Call
      /\ \A c \in calls : c.page = 0 <=> c.attempt = 0
      /\ \A c \in calls : c.n \in Nat /\ c.page \in Nat /\ c.attempt \in 0 .. 2
      /\ \A p \in Page : p \in Nat
      /\ flow \in Flow => flow.n \in Nat /\ flow.page \in Nat /\ flow.attempt \in 1 .. 2
  <2>1. Page \cup {0} \subseteq Nat /\ Export \subseteq Nat /\ \A p \in Page : p \in Nat
    BY PagesPositive DEF Export
  <2>2. /\ flow \in Flow \cup {Idle} /\ asked \in Nat /\ calls \subseteq Call
        /\ \A c \in calls : c.page = 0 <=> c.attempt = 0
    BY DEF PageTypes
  <2>3. ASSUME NEW c \in Call PROVE c.n \in Nat /\ c.page \in Nat /\ c.attempt \in 0 .. 2
    BY <2>1 DEF Call
  <2>4. flow \in Flow => flow.n \in Nat /\ flow.page \in Nat /\ flow.attempt \in 1 .. 2
    BY <2>1 DEF Flow
  <2> QED BY <2>1, <2>2, <2>3, <2>4
<1>a. /\ \A c, d \in calls : Named(c, d) => c = d
      /\ flow # Idle => flow.n = asked
      /\ \A c \in calls : Reached(c)
  BY DEF Numbered
<1>b. flow \in Flow => flow # Idle
  BY DEF Flow, Idle
<1>1. CASE Click
  <2>1. /\ calls' = calls /\ asked' = asked + 1 /\ flow'.n = asked + 1 /\ flow'.stage = "flush"
    BY <1>1 DEF Click
  <2>2. \A c \in calls : c.n <= asked /\ c.n # asked + 1 /\ c.n <= asked + 1
    BY <1>0, <1>a DEF Reached
  <2>3. \A c \in calls' : Reached(c)'
    BY <2>1, <2>2 DEF Reached
  <2> QED BY <1>a, <2>1, <2>3 DEF Numbered, Named
<1>2. CASE ReadsOn \/ ReviewsOn
  <2>1. flow \in Flow /\ calls' = calls /\ asked' = asked /\ flow.stage \in {"flush", "check"}
    BY <1>0, <1>2, InShape DEF ReadsOn, ReviewsOn
  <2>2. flow'.n = flow.n
    BY <1>2, <2>1 DEF ReadsOn, ReviewsOn, Flow
  <2>3. \A c \in calls : c.n # flow.n /\ c.n <= asked
    BY <1>a, <1>b, <2>1 DEF Reached
  <2>4. \A c \in calls' : Reached(c)'
    BY <2>1, <2>2, <2>3 DEF Reached
  <2> QED BY <1>a, <1>b, <2>1, <2>2, <2>4 DEF Numbered, Named
<1>3. CASE ApprovesOn
  <2>1. /\ flow \in Flow /\ calls' = calls \cup {RenderCall} /\ asked' = asked /\ flow.stage = "review"
        /\ flow' = [flow EXCEPT !.stage = "render"]
    BY <1>0, <1>3, InShape DEF ApprovesOn
  <2>2. flow'.n = flow.n /\ flow'.stage = "render" /\ flow.n = asked
    BY <1>a, <1>b, <2>1 DEF Flow
  <2>3. \A c \in calls : c.n # flow.n /\ c.n <= asked
    BY <1>a, <1>b, <2>1 DEF Reached
  <2>4. RenderCall.n = flow.n /\ RenderCall.attempt = 0
    BY <2>1, NewCalls
  <2> HIDE DEF RenderCall
  <2>5. \A c \in calls' : Reached(c)'
    BY <1>0, <2>1, <2>2, <2>3, <2>4 DEF Reached
  <2>6. \A c \in calls : ~Named(c, RenderCall)
    BY <2>3, <2>4 DEF Named
  <2>7. \A c, d \in calls' : Named(c, d) => c = d
    BY <1>a, <2>1, <2>6, AddNumbered
  <2> QED BY <2>1, <2>2, <2>5, <2>7 DEF Numbered, Named
\* A write is sent, for a page or attempt the window had not come to.
<1>4. ASSUME flow \in Flow, NEW p \in Page, NEW a \in 1 .. 2, NEW rest \in SUBSET calls,
             calls' = rest \cup {WriteCall(p, a)}, asked' = asked, flow' \in Flow, flow'.n = flow.n,
             flow'.stage = "write", flow'.page = p, a <= flow'.attempt,
             flow.stage \in {"choose", "write"},
             flow.stage = "write" => p > flow.page \/ (p = flow.page /\ a > flow.attempt)
      PROVE Numbered'
  <2>0. PICK w : w = WriteCall(p, a)
    OBVIOUS
  <2>1. w.n = flow.n /\ w.page = p /\ w.attempt = a
    BY <1>4, <2>0, NewCalls
  <2>2. calls' = rest \cup {w}
    BY <1>4, <2>0
  <2>3. ASSUME NEW c \in calls, c.n = flow.n, c.attempt > 0
        PROVE /\ flow.stage = "write"
              /\ c.page < flow.page \/ (c.page = flow.page /\ c.attempt <= flow.attempt)
    BY <1>4, <1>a, <1>b, <2>3 DEF Reached
  <2>4. ASSUME NEW c \in calls, c.n = flow.n, c.attempt > 0
        PROVE c.page < p \/ (c.page = p /\ c.attempt < a)
    BY <1>0, <1>4, <2>3, <2>4
  <2>5. \A c \in calls : ~Named(c, w)
    BY <1>0, <1>4, <2>1, <2>4 DEF Named
  <2>6. \A c, d \in calls' : Named(c, d) => c = d
    BY <1>a, <2>2, <2>5, AddNumbered
  <2>7. flow.n = asked /\ w.n <= asked' /\ flow'.n = asked'
    BY <1>0, <1>4, <1>a, <1>b, <2>1
  <2>a. flow' # Idle /\ flow'.attempt \in Nat /\ p \in Nat
    BY <1>0, <1>4 DEF Flow, Idle
  <2>8. Reached(w)'
    <3>1. w.n <= asked' /\ flow'.stage = "write" /\ flow'.page = p /\ a <= flow'.attempt
      BY <1>4, <2>7
    <3> QED BY <2>1, <3>1 DEF Reached
  <2>9. ASSUME NEW c \in calls PROVE Reached(c)'
    <3>1. c.n <= asked' /\ c.n \in Nat /\ c.page \in Nat /\ c.attempt \in 0 .. 2
      BY <1>0, <1>4, <1>a DEF Reached
    <3>2. c.n = flow'.n /\ c.attempt > 0 => c.page < flow'.page \/ (c.page = flow'.page /\ c.attempt <= flow'.attempt)
      <4>1. c.n = flow.n /\ c.attempt > 0 => c.page < p \/ (c.page = p /\ c.attempt < a)
        BY <2>4
      <4>2. flow'.n = flow.n /\ flow'.page = p /\ a <= flow'.attempt /\ a \in Nat
        BY <1>4
      <4> QED BY <2>a, <3>1, <4>1, <4>2
    <3>3. flow'.stage = "write"
      BY <1>4
    <3> QED BY <3>1, <3>2, <3>3 DEF Reached
  <2> QED BY <2>2, <2>6, <2>7, <2>8, <2>9 DEF Numbered, Named
<1>5. CASE Chooses
  <2>1. /\ flow \in Flow /\ flow.stage = "choose" /\ Lowest(Page) \in Page /\ asked' = asked
        /\ calls' = calls \cup {WriteCall(Lowest(Page), 1)}
        /\ flow' = [flow EXCEPT !.stage = "write", !.page = Lowest(Page)]
    BY <1>0, <1>5, InShape, PagesPositive, LeastOf DEF Chooses
  <2>2. flow' \in Flow /\ flow'.n = flow.n /\ flow'.stage = "write" /\ flow'.page = Lowest(Page)
        /\ flow'.attempt = flow.attempt
    BY <2>1 DEF Flow
  <2>3. calls \in SUBSET calls /\ 1 \in 1 .. 2 /\ 1 <= flow'.attempt
    BY <1>0, <2>1, <2>2
  <2> QED BY <1>4, <2>1, <2>2, <2>3
<1>6. CASE RetriesOn
  <2>1. /\ flow \in Flow /\ flow.stage = "write" /\ flow.page \in Page /\ flow.attempt = 1
        /\ asked' = asked /\ flow' = [flow EXCEPT !.attempt = 2]
    BY <1>0, <1>6, InShape DEF RetriesOn, PageTypes
  <2>2. PICK rest \in SUBSET calls : calls' = rest \cup {WriteCall(flow.page, 2)}
    BY <1>6 DEF RetriesOn
  <2>3. flow' \in Flow /\ flow'.n = flow.n /\ flow'.stage = "write" /\ flow'.page = flow.page
        /\ flow'.attempt = 2
    BY <2>1 DEF Flow
  <2>4. 2 \in 1 .. 2 /\ 2 <= flow'.attempt /\ 2 > flow.attempt
    BY <2>1, <2>3
  <2> QED BY <1>4, <2>1, <2>2, <2>3, <2>4
<1>7. ASSUME NEW c \in calls, ReceivesOn(c) PROVE Numbered'
  <2>1. /\ flow \in Flow /\ flow.stage = "render" /\ calls' = calls \ {c} /\ asked' = asked
        /\ flow' = [flow EXCEPT !.stage = "choose", !.ticket = c.ticket, !.content = c.content]
    BY <1>0, <1>7, InShape DEF ReceivesOn
  <2>2. flow'.n = flow.n /\ flow'.stage = "choose"
    BY <2>1 DEF Flow
  <2>3. \A d \in calls : d.n <= asked /\ (d.n = flow.n => ~(d.attempt > 0))
    BY <1>a, <1>b, <2>1 DEF Reached
  <2>4. \A d \in calls' : Reached(d)'
    BY <2>1, <2>2, <2>3 DEF Reached
  <2> QED BY <1>a, <1>b, <2>1, <2>2, <2>4 DEF Numbered, Named
<1>8. ASSUME NEW c \in calls, SavesOn(c) PROVE Numbered'
  <2> DEFINE p == Lowest(More)
             b == flow.unrecorded \/ c.result = "unrecorded"
  <2>1. /\ flow \in Flow /\ flow.stage = "write" /\ More # {} /\ asked' = asked
        /\ calls' = (calls \ {c}) \cup {WriteCall(p, 1)}
    BY <1>0, <1>8, InShape DEF SavesOn
  <2>2. flow' = [flow EXCEPT !.saved = flow.saved + 1, !.unrecorded = b, !.page = p, !.attempt = 1]
    BY <1>8 DEF SavesOn
  <2>3. p \in Page /\ p > flow.page
    BY <2>1, MoreShape
  <2> HIDE DEF p, b
  <2>4. flow'.n = flow.n /\ flow'.stage = "write" /\ flow'.page = p /\ flow'.attempt = 1
    BY <2>1, <2>2 DEF Flow
  <2>5. flow' \in Flow
    BY FlowMoveTypes, <2>4 DEF Idle
  <2>6. calls \ {c} \in SUBSET calls /\ 1 \in 1 .. 2 /\ 1 <= flow'.attempt
    BY <2>4
  <2> QED BY <1>4, <2>1, <2>3, <2>4, <2>5, <2>6
<1>9. CASE Closes
  <2>1. calls' \subseteq calls /\ asked' = asked
    BY <1>9 DEF Closes
  <2>2. CASE flow' = flow \/ flow' = Idle
    BY <1>a, <2>1, <2>2 DEF Numbered, Named, Reached
  <2>3. CASE Over
    <3>1. flow # Idle /\ flow'.stage = "end" /\ flow'.n = flow.n /\ flow'.page = flow.page
          /\ flow'.attempt = flow.attempt
      BY <2>3 DEF Over
    <3>2. \A c \in calls' : Reached(c)'
      BY <1>a, <2>1, <3>1 DEF Reached
    <3> QED BY <1>a, <2>1, <3>1, <3>2 DEF Numbered, Named
  <2> QED BY <1>9, <2>2, <2>3 DEF Closes
<1> QED BY <1>1, <1>2, <1>3, <1>5, <1>6, <1>7, <1>8, <1>9, WindowMoves

-----------------------------------------------------------------------------
(* The flights.                                                            *)

\* Each command that has been admitted and is not over is in flight.
Flown == {c \in calls : Flies(c)}

Counted == IsFiniteSet(calls) /\ flights = Cardinality(Flown)

\* What the window adds and takes away is not in flight.
LEMMA SameFlights ==
    ASSUME Counted, NEW rest \in SUBSET calls, Leaving(rest), UNCHANGED flights,
           calls' = rest \/ \E d : ~Flies(d) /\ calls' = rest \cup {d}
    PROVE Counted'
<1>1. IsFiniteSet(rest)
  BY FS_Subset DEF Counted
<1>2. IsFiniteSet(calls')
  <2>1. CASE calls' = rest
    BY <1>1, <2>1
  <2>2. ASSUME NEW d, calls' = rest \cup {d} PROVE IsFiniteSet(calls')
    BY <1>1, <2>2, FS_AddElement
  <2> QED BY <2>1, <2>2
<1>3. Flown' = {c \in calls' : Flies(c)}
  BY DEF Flown, Flies
<1>4. {c \in calls' : Flies(c)} = {c \in calls : Flies(c)}
  BY DEF Leaving
<1>5. Flown' = Flown
  BY <1>3, <1>4 DEF Flown
<1> QED BY <1>2, <1>5 DEF Counted

LEMMA WindowCounted ==
    ASSUME PageTypes, Counted, WindowActs
    PROVE Counted'
<1>0. UNCHANGED flights
  BY WindowFrame
<1>1. flow \in Flow \cup {Idle}
  BY DEF PageTypes
<1>2. Leaving(calls) /\ calls \in SUBSET calls
  BY DEF Leaving
<1>3. \A c \in calls : Answered(c) => Leaving(calls \ {c}) /\ calls \ {c} \in SUBSET calls
  BY DEF Leaving, Answered, Flies
<1>4. flow \in Flow => ~Flies(RenderCall) /\ \A p \in Page, a \in 1 .. 2 : ~Flies(WriteCall(p, a))
  BY NewCalls DEF Flies
<1>5. CASE Click \/ ReadsOn \/ ReviewsOn
  BY <1>0, <1>2, <1>5, SameFlights DEF Click, ReadsOn, ReviewsOn
<1>6. CASE ApprovesOn
  <2>1. ~Flies(RenderCall) /\ calls' = calls \cup {RenderCall}
    BY <1>1, <1>4, <1>6, InShape DEF ApprovesOn
  <2> QED BY <1>0, <1>2, <2>1, SameFlights
<1>7. CASE Chooses
  <2>1. ~Flies(WriteCall(Lowest(Page), 1)) /\ calls' = calls \cup {WriteCall(Lowest(Page), 1)}
    BY <1>1, <1>4, <1>7, InShape, PagesPositive, LeastOf DEF Chooses
  <2> QED BY <1>0, <1>2, <2>1, SameFlights
<1>8. CASE RetriesOn
  <2>1. PICK rest \in SUBSET calls : Leaving(rest) /\ calls' = rest \cup {WriteCall(flow.page, 2)}
    BY <1>8 DEF RetriesOn
  <2>2. ~Flies(WriteCall(flow.page, 2))
    BY <1>1, <1>4, <1>8, InShape DEF RetriesOn, PageTypes
  <2> QED BY <1>0, <2>1, <2>2, SameFlights
<1>9. ASSUME NEW c \in calls, ReceivesOn(c) PROVE Counted'
  <2>1. Answered(c) /\ calls' = calls \ {c}
    BY <1>9 DEF ReceivesOn
  <2> QED BY <1>0, <1>3, <2>1, SameFlights
<1>10. ASSUME NEW c \in calls, SavesOn(c) PROVE Counted'
  <2>1. Answered(c) /\ calls' = (calls \ {c}) \cup {WriteCall(Lowest(More), 1)}
    BY <1>10 DEF SavesOn
  <2>2. ~Flies(WriteCall(Lowest(More), 1))
    BY <1>1, <1>4, <1>10, InShape, MoreShape DEF SavesOn
  <2> QED BY <1>0, <1>3, <2>1, <2>2, SameFlights
<1>11. CASE Closes
  BY <1>0, <1>11, SameFlights DEF Closes
<1> QED BY <1>5, <1>6, <1>7, <1>8, <1>9, <1>10, <1>11, WindowMoves

LEMMA CommandCounted ==
    ASSUME PageTypes, SessionsTypeOK, Receipted, Numbered, Counted, NEW c \in calls, CommandActs(c)
    PROVE Counted' /\ (UNCHANGED flights \/ Admits \/ flights # 0)
<1>1. IsFiniteSet(calls) /\ flights = Cardinality(Flown) /\ Flown \in SUBSET calls
  BY DEF Counted, Flown
<1>2. IsFiniteSet(Flown) /\ flights \in Nat
  BY <1>1, FS_Subset, FS_CardinalityType
<1>3. IsFiniteSet(calls \ {c})
  BY <1>1, FS_RemoveElement
<1>4. IsFiniteSet(calls')
  BY <1>3, FS_AddElement, CommandShape DEF Replaced
<1>5. ASSUME NEW d, Successor(c, d), Replaced(c, d), Flies(d)
      PROVE Flown' = (Flown \ {c}) \cup {d} /\ (d = c \/ d \notin Flown)
  <2>1. Named(c, d)
    BY <1>5 DEF Named, Successor
  <2>2. d \in calls => d = c
    BY <2>1 DEF Numbered
  <2> QED BY <1>5, <2>2 DEF Flown, Replaced, Flies
<1>6. ASSUME calls' = calls \ {c} \/ \E d : Replaced(c, d) /\ ~Flies(d)
      PROVE Flown' = Flown \ {c}
  BY <1>6 DEF Flown, Replaced, Flies
<1>7. CASE /\ ~Flies(c) /\ UNCHANGED flights
           /\ calls' = calls \ {c} \/ \E d : Successor(c, d) /\ Replaced(c, d) /\ ~Flies(d)
  <2>1. Flown' = Flown
    BY <1>6, <1>7 DEF Flown
  <2> QED BY <1>1, <1>4, <1>7, <2>1 DEF Counted
<1>8. CASE Flies(c) /\ UNCHANGED flights /\ \E d : Successor(c, d) /\ Replaced(c, d) /\ Flies(d)
  <2>1. PICK d : Flown' = (Flown \ {c}) \cup {d} /\ (d = c \/ d \notin Flown)
    BY <1>5, <1>8
  <2>2. c \in Flown
    BY <1>8 DEF Flown
  <2>3. IsFiniteSet(Flown \ {c}) /\ Cardinality(Flown \ {c}) = Cardinality(Flown) - 1
    BY <1>2, <2>2, FS_RemoveElement
  <2>4. d \notin Flown \ {c}
    BY <2>1
  <2>5. Cardinality(Flown') = Cardinality(Flown \ {c}) + 1
    BY <2>1, <2>3, <2>4, FS_AddElement
  <2>6. Cardinality(Flown') = flights
    BY <1>1, <1>2, <2>3, <2>5
  <2> QED BY <1>4, <1>8, <2>6 DEF Counted
<1>9. CASE ~Flies(c) /\ Admitted /\ \E d : Successor(c, d) /\ Replaced(c, d) /\ Flies(d)
  <2>1. PICK d : Flown' = (Flown \ {c}) \cup {d} /\ (d = c \/ d \notin Flown)
    BY <1>5, <1>9
  <2>2. c \notin Flown
    BY <1>9 DEF Flown
  <2>3. Flown' = Flown \cup {d} /\ d \notin Flown
    BY <2>1, <2>2
  <2>4. Cardinality(Flown') = flights + 1
    BY <1>1, <1>2, <2>3, FS_AddElement
  <2> QED BY <1>4, <1>9, <2>4 DEF Counted, Admitted
<1>10. CASE /\ Flies(c) /\ Landed
            /\ calls' = calls \ {c} \/ \E d : Successor(c, d) /\ Replaced(c, d) /\ ~Flies(d)
  <2>1. Flown' = Flown \ {c} /\ c \in Flown
    BY <1>6, <1>10 DEF Flown
  <2>2. Cardinality(Flown') = flights - 1
    BY <1>1, <1>2, <2>1, FS_RemoveElement
  <2>3. flights # 0
    BY <1>1, <1>2, <2>1, FS_EmptySet
  <2> QED BY <1>4, <1>10, <2>2, <2>3 DEF Counted, Landed
<1> QED BY <1>7, <1>8, <1>9, <1>10, CommandShape

\* No command is in flight while the installer is being started.
NoFlights == Phase({"installing"}) => flights = 0

\* Nobody is in the middle of an export when an update is being installed.
Inert == asking # None => flow = Idle

LEMMA UpdateQuiet ==
    ASSUME UpdateInv, NoFlights, UpdateSide
    PROVE NoFlights'
<1>0. flights' = flights
  BY UpdateSideShape
<1>1. CASE \/ CheckSteps \/ DownloadBegins \/ CancelDownload \/ CacheSpoils
           \/ \E d \in downloads : DownloadSteps(d)
  BY <1>0, <1>1, PhaseKept DEF UpdateInv, NoFlights, Phase
<1>2. ASSUME NEW i \in Install, InstallSteps(i) PROVE NoFlights'
  <2>1. CASE InstallBegins(i) \/ InstallWaits(i) \/ InstallVerifies(i) \/ InstallRefused(i) \/ InstallExits(i)
    BY <1>0, <2>1 DEF InstallBegins, InstallWaits, InstallVerifies, InstallRefused, InstallExits,
       NoFlights, Phase, update, At
  <2>2. CASE InstallEnters(i)
    BY <1>0, <2>2 DEF InstallEnters, Enters, NoFlights, Phase
  <2>3. CASE InstallFails(i)
    BY <1>0, <2>3 DEF InstallFails, NoFlights, Phase, At
  <2> QED BY <1>2, <2>1, <2>2, <2>3 DEF InstallSteps
<1>3. CASE UNCHANGED update
  BY <1>0, <1>3 DEF update, NoFlights, Phase
<1> QED BY <1>1, <1>2, <1>3, UpdateSideShape DEF UpdateActs

LEMMA WindowInert ==
    ASSUME PageTypes, Inert, WindowActs
    PROVE Inert'
<1>1. asking' = asking
  BY WindowFrame
<1>2. CASE Click
  BY <1>1, <1>2 DEF Click, Inert
<1>3. CASE ~Click
  <2>1. flow = Idle => flow' = Idle
    BY <1>3, WindowMoves DEF ReadsOn, ReviewsOn, ApprovesOn, Chooses, RetriesOn, ReceivesOn, SavesOn, Closes, Over, In
  <2> QED BY <1>1, <2>1 DEF Inert
<1> QED BY <1>2, <1>3

LEMMA SessionsSame ==
    ASSUME SessionsTypeOK, Receipted, UNCHANGED sessions
    PROVE SessionsTypeOK' /\ Receipted'
BY DEF sessions, SessionsTypeOK, Receipted, Held

LEMMA InvalidateEffect ==
    ASSUME SessionsTypeOK, Invalidates, receipts' = {}
    PROVE /\ SessionsTypeOK' /\ Receipted' /\ epoch' = epoch + 1 /\ sequence' = sequence
          /\ Held' = {} /\ receipts' = {}
<1>1. epoch' = epoch + 1 /\ sequence' = sequence /\ tickets' = [t \in {} |-> NewTicket]
  BY DEF Invalidates
<1>2. Held' = {} /\ tickets' \in [Held' -> Ticket]
  BY <1>1 DEF Held
<1>3. epoch' \in Nat /\ sequence' \in Nat
  BY <1>1 DEF SessionsTypeOK
<1>4. SessionsTypeOK'
  BY <1>2, <1>3 DEF SessionsTypeOK
<1> QED BY <1>1, <1>2, <1>4 DEF Receipted

LEMMA WorldSessions ==
    ASSUME SessionsTypeOK, Receipted, WorldActs
    PROVE SessionsTypeOK' /\ Receipted'
BY WorldMoves, SessionsSame, ExpireEffect, InvalidateEffect

LEMMA CommandSessions ==
    ASSUME PageTypes, SessionsTypeOK, Receipted, NEW c \in calls, CommandActs(c)
    PROVE SessionsTypeOK' /\ Receipted'
<1>1. c.ticket \in Nat /\ (c.attempt > 0 => c.page \in Page)
  <2>1. c \in Call /\ (c.page = 0 <=> c.attempt = 0)
    BY DEF PageTypes
  <2> QED BY <2>1 DEF Call
<1>2. CASE TurnedAway(c) \/ RenderBegins(c) \/ RenderRefused(c) \/ RenderFreezes(c)
           \/ WriteRefused(c) \/ WriteReplaces(c) \/ WriteVerifies(c)
  BY <1>2, SessionsSame DEF TurnedAway, RenderBegins, RenderRefused, RenderFreezes, WriteRefused,
     WriteReplaces, WriteVerifies
<1>3. CASE RenderRegisters(c) \/ RenderFails(c)
  BY <1>3, SessionsSame, RegisterEffect DEF RenderRegisters, RenderFails
<1>4. CASE WriteBegins(c)
  BY <1>1, <1>4, PrepareEffect DEF WriteBegins, Writing
<1>5. CASE WriteFails(c)
  BY <1>1, <1>5, AbandonEffect DEF WriteFails, Writing
<1>6. CASE WriteFinishes(c)
  <2>1. c.page \in Page
    BY <1>1, <1>6 DEF WriteFinishes, Writing
  <2>2. UNCHANGED sessions \/ \E recorded \in BOOLEAN : Finishes(c.epoch, c.ticket, c.page, recorded)
    BY <1>6 DEF WriteFinishes
  <2> QED BY <1>1, <2>1, <2>2, SessionsSame, FinishEffect
<1> QED BY <1>2, <1>3, <1>4, <1>5, <1>6 DEF CommandActs

\* Only a write makes a file, of the very content it was called with.
LEMMA CommandFiles ==
    ASSUME PageTypes, NEW c \in calls, CommandActs(c)
    PROVE \/ files' = files
          \/ /\ Writing(c, "prepared") /\ ~c.verify /\ c.page \in Page
             /\ files' = [files EXCEPT ![c.n][c.page] = c.content]
<1>1. CASE WriteReplaces(c)
  <2>1. c \in Call /\ (c.page = 0 <=> c.attempt = 0) /\ Writing(c, "prepared")
    BY <1>1 DEF PageTypes, WriteReplaces
  <2>2. c.page \in Page
    BY <2>1 DEF Call, Writing
  <2> QED BY <1>1, <2>1, <2>2 DEF WriteReplaces
<1>2. CASE ~WriteReplaces(c)
  BY <1>2 DEF CommandActs, TurnedAway, RenderBegins, RenderRefused, RenderFreezes, RenderRegisters, RenderFails,
     WriteBegins, WriteRefused, WriteVerifies, WriteFails, WriteFinishes
<1> QED BY <1>1, <1>2

LEMMA CommandTypes ==
    ASSUME PageTypes, SessionsTypeOK, Receipted, NEW c \in calls, CommandActs(c), UNCHANGED <<world, window>>
    PROVE PageTypes'
<1>1. files' \in [Export -> [Page -> Content \cup {None, Other}]]
  <2>1. c.n \in Export /\ c.content \in Content \cup {None} /\ files \in [Export -> [Page -> Content \cup {None, Other}]]
    BY DEF PageTypes, Call
  <2>2. CASE files' = files
    BY <2>1, <2>2
  <2>3. CASE c.page \in Page /\ files' = [files EXCEPT ![c.n][c.page] = c.content]
    <3>1. [files[c.n] EXCEPT ![c.page] = c.content] \in [Page -> Content \cup {None, Other}]
      BY <2>1, <2>3
    <3> QED BY <2>1, <2>3, <3>1
  <2> QED BY <2>2, <2>3, CommandFiles
<1>2. calls' \subseteq Call /\ \A d \in calls' : d.page = 0 <=> d.attempt = 0
  <2>1. calls \subseteq Call /\ \A d \in calls : d.page = 0 <=> d.attempt = 0
    BY DEF PageTypes
  <2>2. CASE calls' = calls \ {c}
    BY <2>1, <2>2
  <2>3. ASSUME NEW d, Successor(c, d), Replaced(c, d)
        PROVE calls' \subseteq Call /\ \A e \in calls' : e.page = 0 <=> e.attempt = 0
    BY <2>1, <2>3 DEF Successor, Replaced
  <2> QED BY <2>2, <2>3, CommandShape
<1> QED BY <1>1, <1>2 DEF PageTypes, world, window, export, In

-----------------------------------------------------------------------------
(* Exports and updates together.                                           *)

EndTypes == asking \in Install \cup {None, "preparing"} /\ exited \in BOOLEAN

\* The types, the numbers of what is under way, and what an installation needs.
Base ==
    /\ UpdateInv /\ PageTypes /\ BudgetTypes /\ EndTypes
    /\ SessionsTypeOK /\ Receipted
    /\ Numbered /\ Counted /\ Inert /\ NoFlights

LEMMA BaseStart ==
    ASSUME Init
    PROVE Base
<1>1. UpdateInv
  BY UpdateStart DEF Init
<1>2. PageTypes
  <2>1. active \in Document /\ revision \in [Document -> Nat] /\ database \in Nat
    BY ExportsAssumption DEF Init
  <2>2. client \in Client
    BY ExportsAssumption DEF Init, Client, Cursor
  <2>3. flow = Idle /\ asked = 0 /\ told = "nothing" /\ calls = {} /\ reloading = FALSE
        /\ approved = [n \in Export |-> None] /\ files = [n \in Export |-> [p \in Page |-> None]]
    BY DEF Init
  <2> QED BY <2>1, <2>2, <2>3 DEF PageTypes, In, Words
<1>3. BudgetTypes
  <2>1. budget \in [exports: 0 .. MaxExports, calls: Nat, incidents: Nat] /\ asked = 0 /\ MaxExports \in Nat
    BY ExportsAssumption DEF Init
  <2>2. budget.exports \in 0 .. MaxExports
    BY <2>1
  <2>3. asked + budget.exports <= MaxExports
    BY <2>1, <2>2
  <2> QED BY <2>1, <2>3 DEF BudgetTypes
<1>4. SessionsTypeOK /\ Receipted
  BY DEF Init, SessionsInit, SessionsTypeOK, Receipted, Held
<1>5. Numbered /\ Counted /\ Inert /\ NoFlights
  <2>1. calls = {} /\ flow = Idle /\ asking = None /\ flights = 0
    BY DEF Init, UpdateInit
  <2>2. IsFiniteSet(Flown) /\ Flown = {}
    BY <2>1, FS_EmptySet DEF Flown
  <2>3. Cardinality(Flown) = 0 /\ IsFiniteSet(calls)
    BY <2>1, <2>2, FS_EmptySet
  <2> QED BY <2>1, <2>3 DEF Numbered, Counted, Inert, NoFlights
<1>6. EndTypes
  BY DEF Init, UpdateInit, EndTypes
<1> QED BY <1>1, <1>2, <1>3, <1>4, <1>5, <1>6 DEF Base

LEMMA EndKept ==
    ASSUME EndTypes, Next
    PROVE EndTypes'
<1>1. asking' \in Install \cup {None, "preparing"}
  <2>1. CASE UpdateSide
    BY <2>1 DEF UpdateSide, Calls, AsksInstall, Prepared, InstallAnswered, Update, EndTypes
  <2>2. CASE WindowActs \/ WorldActs \/ CommandStep
    BY <2>2, WindowFrame, WorldFrame, CommandFrame DEF window, EndTypes
  <2> QED BY <2>1, <2>2, Steps
<1>2. exited' \in BOOLEAN
  <2>1. CASE UpdateSide
    <3>1. CASE AsksInstall \/ InstallAnswered
      BY <3>1 DEF AsksInstall, InstallAnswered, updates, EndTypes
    <3>2. CASE Prepared
      BY <3>2 DEF Prepared, InstallBegins, updates, EndTypes
    <3>3. CASE Calls
      BY <3>3 DEF Calls, UpdateCall, CheckBegins, DownloadBegins, CancelDownload, CacheSpoils, EndTypes
    <3>4. CASE Update
      <4>1. CASE (\E v \in Release : CheckFinds(v)) \/ CheckFindsNothing \/ CheckFails
        BY <4>1 DEF CheckFinds, CheckFindsNothing, CheckFails, CheckAnswers, EndTypes
      <4>2. CASE \E d \in downloads : DownloadSteps(d)
        BY <4>2 DEF DownloadSteps, DownloadWithoutUpdate, DownloadFromCache, DownloadSpawns, DownloadRegisters,
           DownloadCompletes, DownloadFails, DownloadReturns, EndTypes
      <4>3. CASE \E i \in Install : InstallSteps(i)
        BY <4>3 DEF InstallSteps, InstallBegins, InstallWaits, InstallVerifies, InstallRefused, InstallEnters,
           InstallExits, InstallFails, EndTypes
      <4> QED BY <3>4, <4>1, <4>2, <4>3 DEF Update, UpdateStep, DownloadSteps, InstallSteps
    <3> QED BY <2>1, <3>1, <3>2, <3>3, <3>4 DEF UpdateSide
  <2>2. CASE WindowActs \/ WorldActs \/ CommandStep
    BY <2>2, WindowFrame, WorldFrame, CommandFrame DEF EndTypes
  <2> QED BY <2>1, <2>2, Steps
<1> QED BY <1>1, <1>2 DEF EndTypes

LEMMA BaseNext ==
    ASSUME Base, [Next]_vars
    PROVE Base'
<1>1. UpdateInv'
  BY UpdateNext DEF Base
<1>2. CASE Next
  <2>1. BudgetTypes' /\ (Click => asked + 1 \in Export) /\ EndTypes'
    BY <1>2, BudgetKept, EndKept DEF Base, PageTypes
  <2> DEFINE Rest == PageTypes /\ SessionsTypeOK /\ Receipted /\ Numbered /\ Counted /\ Inert /\ NoFlights
  <2>2. ASSUME UpdateSide PROVE Rest'
    <3>1. UNCHANGED <<sessions, world, client, export, calls, files, reloading, flights>>
      BY <2>2, UpdateSideShape DEF page
    <3>2. SessionsTypeOK' /\ Receipted'
      BY <3>1, SessionsSame DEF Base
    <3>3. PageTypes' /\ Numbered'
      BY <3>1 DEF Base, PageTypes, Numbered, Reached, Named, In, world, export
    <3>4. Counted'
      BY <3>1 DEF Base, Counted, Flown, Flies
    <3>5. NoFlights'
      BY <2>2, UpdateQuiet DEF Base
    <3>6. Inert'
      <4>1. flow' = flow /\ Inert
        BY <3>1 DEF Base, export
      <4>2. asking' = asking \/ asking' = None \/ flow = Idle \/ asking = "preparing"
        BY <2>2, UpdateSideShape
      <4>3. None # "preparing"
        BY ExportsAssumption
      <4> QED BY <4>1, <4>2, <4>3 DEF Inert
    <3> QED BY <3>2, <3>3, <3>4, <3>5, <3>6
  <2>3. ASSUME WindowActs PROVE Rest'
    <3>1. PageTypes' /\ Numbered' /\ Counted' /\ Inert'
      BY <2>1, <2>3, WindowTypes, WindowNumbered, WindowCounted, WindowInert DEF Base
    <3>2. UNCHANGED <<update, flights, sessions>>
      BY <2>3, WindowFrame
    <3>3. SessionsTypeOK' /\ Receipted'
      BY <3>2, SessionsSame DEF Base
    <3>4. phase' = phase /\ flights' = flights /\ NoFlights
      BY <3>2 DEF Base, update
    <3>5. NoFlights'
      BY <3>4 DEF NoFlights, Phase
    <3> QED BY <3>1, <3>3, <3>5
  <2>4. ASSUME WorldActs PROVE Rest'
    <3>1. PageTypes' /\ SessionsTypeOK' /\ Receipted'
      BY <2>4, WorldTypes, WorldSessions DEF Base
    <3>2. /\ UNCHANGED <<update, flights, asked>> /\ (asking' = asking \/ asking' = None)
          /\ calls' \in SUBSET calls /\ Leaving(calls') /\ (flow' = flow \/ flow' = Idle)
      BY <2>4, WorldFrame, WorldMoves DEF Closes
    <3>3. Counted'
      BY <3>2, SameFlights DEF Base
    <3>4. Inert' /\ NoFlights'
      BY <3>2 DEF Base, Inert, NoFlights, Phase, update
    <3>5. Numbered'
      <4>1. /\ \A c, d \in calls : Named(c, d) => c = d
            /\ flow # Idle => flow.n = asked
            /\ \A c \in calls : Reached(c)
        BY DEF Base, Numbered
      <4>2. \A c \in calls' : Reached(c)'
        BY <3>2, <4>1 DEF Reached
      <4>3. \A c, d \in calls' : Named(c, d) => c = d
        BY <3>2, <4>1
      <4> QED BY <3>2, <4>1, <4>2, <4>3 DEF Numbered, Named
    <3> QED BY <3>1, <3>3, <3>4, <3>5
  <2>5. ASSUME CommandStep PROVE Rest'
    <3>1. UNCHANGED <<update, exited, world, window>>
      BY <2>5, CommandFrame
    <3>2. PICK c \in calls : CommandActs(c)
      BY <2>5 DEF CommandStep, CommandActs
    <3>3. PageTypes' /\ SessionsTypeOK' /\ Receipted'
      BY <3>1, <3>2, CommandTypes, CommandSessions DEF Base
    <3>4. UNCHANGED <<flow, asked, asking>>
      BY <3>1 DEF window, export
    <3>5. Numbered'
      BY <3>2, <3>4, CommandNumbered DEF Base
    <3>6. Counted' /\ (UNCHANGED flights \/ Admits \/ flights # 0)
      BY <3>2, CommandCounted DEF Base
    <3>7. phase' = phase /\ NoFlights /\ Inert
      BY <3>1 DEF Base, update
    <3>8. Inert'
      BY <3>4, <3>7 DEF Inert
    <3>9. NoFlights'
      BY <3>6, <3>7 DEF NoFlights, Admits, Phase
    <3> QED BY <3>3, <3>5, <3>6, <3>8, <3>9
  <2> HIDE DEF Rest
  <2>6. Rest'
    BY <1>2, <2>2, <2>3, <2>4, <2>5, Steps
  <2> QED BY <1>1, <2>1, <2>6 DEF Base, Rest
<1>3. CASE UNCHANGED vars
  <2>1. UNCHANGED <<sessions, world, client, export, calls, files, reloading, flights, asking, exited, update, budget>>
    BY <1>3 DEF vars, updates, window
  <2>2. SessionsTypeOK' /\ Receipted'
    BY <2>1, SessionsSame DEF Base
  <2>3. PageTypes' /\ Numbered' /\ BudgetTypes' /\ EndTypes'
    BY <2>1 DEF Base, PageTypes, Numbered, Reached, Named, In, world, export, BudgetTypes, EndTypes
  <2>4. Counted' /\ Inert' /\ NoFlights'
    BY <2>1 DEF Base, Counted, Flown, Flies, Inert, NoFlights, Phase, update, export
  <2> QED BY <1>1, <2>2, <2>3, <2>4 DEF Base
<1> QED BY <1>2, <1>3

LEMMA BaseHolds == Spec => []Base
BY BaseStart, BaseNext, PTL DEF Spec

\* Every variable of the exports, of their tickets and of the update stays of its type.
THEOREM TypesStayCorrect == Spec => []TypeOK
<1>1. Base => TypeOK
  <2>1. ASSUME Base PROVE TypeOK
    <3>1. flights \in Nat
      <4>1. IsFiniteSet(Flown) /\ flights = Cardinality(Flown)
        BY <2>1, FS_Subset DEF Base, Counted, Flown
      <4> QED BY <4>1, FS_CardinalityType
    <3>2. UpdateTypeOK
      BY <2>1, <3>1 DEF Base, UpdateInv, UpdateTypes, UpdateTypeOK, EndTypes
    <3>3. asked \in 0 .. MaxExports
      <4>1. asked \in Nat /\ budget \in [exports: 0 .. MaxExports, calls: Nat, incidents: Nat]
            /\ asked + budget.exports <= MaxExports /\ MaxExports \in Nat
        BY <2>1, ExportsAssumption DEF Base, PageTypes, BudgetTypes
      <4>2. budget.exports \in Nat
        BY <4>1
      <4> QED BY <4>1, <4>2
    <3> QED BY <2>1, <3>2, <3>3 DEF Base, PageTypes, BudgetTypes, EndTypes, TypeOK
  <2> QED BY <2>1
<1> QED BY <1>1, BaseHolds, PTL

\* While the installer is being started no command of an export runs, the window is
\* not in an export, and the bytes are those of the version shown: the two gates of
\* app_update_install and begin_export (app_update.rs), with the inert page of
\* useAppUpdate.ts, keep exports and installations apart in every interleaving.
THEOREM InstallationsCutNothing == Spec => []InstallCutsNothing
<1>1. Base => InstallCutsNothing
  <2>1. ASSUME Base, Phase({"installing"}) PROVE InstallCutsNothing
    <3>1. flights = 0
      BY <2>1 DEF Base, NoFlights
    <3>2. \A c \in calls : c.stage \in {"sent", "answered"}
      <4>1. IsFiniteSet(Flown) /\ Cardinality(Flown) = 0
        BY <2>1, <3>1, FS_Subset DEF Base, Counted, Flown
      <4>2. Flown = {}
        BY <4>1, FS_EmptySet
      <4> QED BY <4>2 DEF Flown, Flies
    <3>3. asking \in Install => flow = Idle
      BY <2>1, ReleasesAssumption DEF Base, Inert
    <3>4. \E i \in Install : installs[i].stage = "grace" /\ installs[i].version = phase.target.version
      BY <2>1 DEF Base, UpdateInv, OneStarts, Starting
    <3> QED BY <3>1, <3>2, <3>3, <3>4 DEF InstallCutsNothing
  <2> QED BY <2>1 DEF InstallCutsNothing
<1> QED BY <1>1, BaseHolds, PTL

-----------------------------------------------------------------------------
(* What is written.                                                        *)

\* A write that has been prepared and is not over.
Writes(c) == c.stage \in {"prepared", "replaced", "verified"}

\* The command is gone, or no longer such a write.
Stops(c) == calls' = calls \ {c} \/ \E d : Successor(c, d) /\ Replaced(c, d) /\ ~Writes(d)

\* What a command does to the tickets as it goes on.
LEMMA CommandWrites ==
    ASSUME PageTypes, SessionsTypeOK, Receipted, NEW c \in calls, CommandActs(c)
    PROVE \/ UNCHANGED sessions /\ Stops(c)
          \/ /\ UNCHANGED sessions /\ Writes(c)
             /\ \E d : /\ Successor(c, d) /\ Replaced(c, d)
                       /\ Writes(d) /\ d.stage # "prepared" /\ d.epoch = c.epoch
          \/ (Registers(c.epoch) \/ RegisterRefuses(c.epoch)) /\ Stops(c)
          \/ /\ Prepares(c.ticket, c.page) /\ ~Writes(c) /\ c.attempt > 0
             /\ \E d : /\ Successor(c, d) /\ Replaced(c, d) /\ Writes(d)
                       /\ d.epoch = epoch /\ d.verify = AlreadyWritten(c.ticket, c.page)
          \/ Writes(c) /\ Abandons(c.ticket, c.page) /\ Stops(c)
          \/ /\ Writes(c) /\ Stops(c)
             /\ \E recorded \in BOOLEAN : Finishes(c.epoch, c.ticket, c.page, recorded)
<1>0. c \in Call /\ epoch \in Nat
  BY DEF PageTypes, SessionsTypeOK
<1>b. ASSUME NEW result \in {"again", "refused", "ok", "unrecorded"}, Answers(c, result)
      PROVE Stops(c)
  <2>1. result \in Result
    BY DEF Result
  <2>2. \/ calls' = calls \ {c}
        \/ \E d : Successor(c, d) /\ Replaced(c, d) /\ d.stage = "answered"
    BY <1>0, <1>b, <2>1, AnswersShape
  <2> QED BY <2>2 DEF Writes, Stops
<1>c. ASSUME NEW d, Successor(c, d) PROVE d.attempt = c.attempt /\ d \in Call
  BY <1>c DEF Successor
<1>1. CASE TurnedAway(c) \/ RenderRefused(c) \/ RenderFails(c) \/ WriteRefused(c)
  <2>1. Answers(c, "refused") \/ Answers(c, "again")
    BY <1>1 DEF TurnedAway, RenderRefused, RenderFails, WriteRefused
  <2>2. UNCHANGED sessions \/ RegisterRefuses(c.epoch)
    BY <1>1 DEF TurnedAway, RenderRefused, RenderFails, WriteRefused
  <2> QED BY <1>b, <2>1, <2>2
<1>2. CASE RenderBegins(c) \/ RenderFreezes(c)
  <2>1. UNCHANGED sessions
    BY <1>2 DEF RenderBegins, RenderFreezes
  <2>2. \E d : Successor(c, d) /\ Replaced(c, d) /\ ~Writes(d)
    BY <1>0, <1>2, RenderBeginsShape, RenderFreezesShape DEF Writes
  <2> QED BY <2>1, <2>2 DEF Stops
<1>3. CASE RenderRegisters(c)
  <2>1. Registers(c.epoch)
    BY <1>3 DEF RenderRegisters
  <2>2. sequence' \in Nat
    BY <2>1, RegisterEffect DEF SessionsTypeOK
  <2>3. Stops(c)
    BY <1>0, <1>3, <2>2, RenderRegistersShape DEF Writes, Stops
  <2> QED BY <2>1, <2>3
<1>4. CASE WriteBegins(c)
  <2>1. Prepares(c.ticket, c.page)
    BY <1>4 DEF WriteBegins
  <2>2. c.attempt > 0 /\ ~Writes(c)
    BY <1>0, <1>4, WriteBeginsShape DEF Writes
  <2>3. PICK d : /\ Successor(c, d) /\ Replaced(c, d) /\ d.stage = "prepared"
                 /\ d.epoch = epoch /\ d.verify = AlreadyWritten(c.ticket, c.page)
    BY <1>0, <1>4, WriteBeginsShape
  <2>4. Writes(d)
    BY <1>c, <2>2, <2>3 DEF Writes
  <2> QED BY <2>1, <2>2, <2>3, <2>4
<1>5. CASE WriteReplaces(c) \/ WriteVerifies(c)
  <2>1. UNCHANGED sessions
    BY <1>5 DEF WriteReplaces, WriteVerifies
  <2>2. Writes(c)
    BY <1>0, <1>5, WriteGoesOnShape DEF Writes
  <2>3. PICK d : /\ Successor(c, d) /\ Replaced(c, d) /\ d.stage \in {"replaced", "verified"}
                 /\ d.epoch = c.epoch
    BY <1>0, <1>5, WriteGoesOnShape
  <2>4. Writes(d) /\ d.stage # "prepared"
    BY <1>c, <2>2, <2>3 DEF Writes
  <2> QED BY <2>1, <2>2, <2>3, <2>4
<1>6. CASE WriteFails(c)
  <2>1. Abandons(c.ticket, c.page) /\ Writes(c)
    BY <1>6 DEF WriteFails, Writing, Writes
  <2>2. Stops(c)
    BY <1>b, <1>6 DEF WriteFails
  <2> QED BY <2>1, <2>2
<1>7. CASE WriteFinishes(c)
  <2>1. Writes(c)
    BY <1>7 DEF WriteFinishes, Writing, Writes
  <2>2. Stops(c)
    BY <1>b, <1>7 DEF WriteFinishes
  <2>3. UNCHANGED sessions \/ \E recorded \in BOOLEAN : Finishes(c.epoch, c.ticket, c.page, recorded)
    BY <1>7 DEF WriteFinishes
  <2> QED BY <2>1, <2>2, <2>3
<1> QED BY <1>1, <1>2, <1>3, <1>4, <1>5, <1>6, <1>7 DEF CommandActs

\* What a command has for the window as it goes on: what was frozen, then the ticket
\* of just that; and after a write, its receipt.
LEMMA CommandAnswers ==
    ASSUME PageTypes, SessionsTypeOK, Receipted, NEW c \in calls, CommandActs(c)
    PROVE \/ calls' = calls \ {c}
          \/ \E d :
               /\ Successor(c, d) /\ Replaced(c, d)
               /\ c.attempt = 0 /\ d.stage = "frozen" => d.content \in Content /\ d.content.cursor = c.cursor
               /\ d.stage = "answered" /\ d.result = "ok" =>
                    IF c.attempt = 0
                    THEN c.stage = "frozen" /\ d.content = c.content /\ d.ticket = sequence + 1 /\ sequence' = sequence + 1
                    ELSE <<c.ticket, c.page>> \in receipts'
<1>0. c \in Call /\ epoch \in Nat
  BY DEF PageTypes, SessionsTypeOK
<1>b. ASSUME NEW result \in {"again", "refused", "unrecorded"}, Answers(c, result)
      PROVE \/ calls' = calls \ {c}
            \/ \E d : Successor(c, d) /\ Replaced(c, d) /\ d.stage = "answered" /\ d.result # "ok"
  <2>1. result \in Result /\ result # "ok"
    BY DEF Result
  <2> QED BY <1>0, <1>b, <2>1, AnswersShape
<1>1. CASE TurnedAway(c) \/ RenderRefused(c) \/ RenderFails(c) \/ WriteRefused(c) \/ WriteFails(c)
  <2>1. Answers(c, "refused") \/ Answers(c, "again")
    BY <1>1 DEF TurnedAway, RenderRefused, RenderFails, WriteRefused, WriteFails
  <2> QED BY <1>b, <2>1
<1>2. CASE RenderBegins(c) \/ RenderFreezes(c)
  BY <1>0, <1>2, RenderBeginsShape, RenderFreezesShape
<1>3. CASE RenderRegisters(c)
  <2>1. Registers(c.epoch)
    BY <1>3 DEF RenderRegisters
  <2>2. sequence' \in Nat /\ sequence' = sequence + 1
    BY <2>1, RegisterEffect DEF SessionsTypeOK
  <2> QED BY <1>0, <1>3, <2>2, RenderRegistersShape
<1>4. CASE WriteBegins(c) \/ WriteReplaces(c) \/ WriteVerifies(c)
  <2>1. c.attempt # 0
    BY <1>0, <1>4, WriteBeginsShape, WriteGoesOnShape
  <2> QED BY <1>0, <1>4, <2>1, WriteBeginsShape, WriteGoesOnShape
<1>5. CASE WriteFinishes(c)
  <2>1. CASE Answers(c, "unrecorded")
    BY <1>b, <2>1
  <2>2. CASE Answers(c, "ok") /\ Finishes(c.epoch, c.ticket, c.page, TRUE)
    <3>1. c.attempt # 0 /\ c.page \in Page /\ c.ticket \in Nat
      <4>1. c.attempt > 0 /\ (c.page = 0 <=> c.attempt = 0)
        BY <1>5 DEF WriteFinishes, Writing, PageTypes
      <4> QED BY <1>0, <4>1 DEF Call
    <3>2. <<c.ticket, c.page>> \in receipts'
      BY <2>2 DEF Finishes
    <3>3. "ok" \in Result
      BY DEF Result
    <3> QED BY <1>0, <2>2, <3>1, <3>2, <3>3, AnswersShape
  <2> QED BY <1>5, <2>1, <2>2 DEF WriteFinishes
<1> QED BY <1>1, <1>2, <1>3, <1>4, <1>5 DEF CommandActs

\* What has been approved: the cursor the window asks to be rendered, what was frozen,
\* and what is written.
Cleared(c) ==
    IF c.attempt = 0
    THEN /\ c.cursor = approved[c.n]
         /\ c.stage = "frozen" \/ (c.stage = "answered" /\ c.result = "ok") =>
              c.content \in Content /\ c.content.cursor = c.cursor
    ELSE c.content \in Content /\ c.content.cursor = approved[c.n]

Reviewed ==
    /\ In("render") => flow.cursor = approved[flow.n]
    /\ In("choose") \/ In("write") => flow.content \in Content /\ flow.content.cursor = approved[flow.n]
    /\ \A c \in calls : Cleared(c)

\* Whose ticket it is: all writes of an export are of the one the window holds.
HasTicket(c) == c.attempt > 0 \/ (c.stage = "answered" /\ c.result = "ok")

Ticketed ==
    /\ In("choose") \/ In("write") => flow.ticket \in 1 .. sequence
    /\ \A c \in calls : HasTicket(c) => c.ticket \in 1 .. sequence
    /\ \A c \in calls : c.attempt > 0 /\ In("write") /\ c.n = flow.n => c.ticket = flow.ticket
    /\ \A c, d \in calls : c.attempt > 0 /\ d.attempt > 0 /\ c.n = d.n => c.ticket = d.ticket

\* The window sends a write.
SendsOn ==
    /\ flow \in Flow /\ flow.stage \in {"choose", "write"}
    /\ flow' \in Flow /\ flow'.stage = "write"
    /\ flow'.n = flow.n /\ flow'.ticket = flow.ticket /\ flow'.content = flow.content
    /\ \E rest \in SUBSET calls, p \in Page, a \in 1 .. 2 : calls' = rest \cup {WriteCall(p, a)}
    /\ UNCHANGED approved

\* It sends nothing, and does not hold what it did not.
Rests ==
    /\ calls' \subseteq calls
    /\ UNCHANGED approved
    /\ flow' = flow \/ flow' = Idle \/ (flow' \in Flow /\ flow'.stage \in {"flush", "check", "review", "end"})

LEMMA WindowKinds ==
    ASSUME PageTypes, WindowActs, Click => asked + 1 \in Export
    PROVE Rests \/ ApprovesOn \/ SendsOn \/ \E c \in calls : ReceivesOn(c)
<1>0. flow \in Flow \cup {Idle} /\ flow' \in Flow \cup {Idle}
  BY FlowMoveTypes DEF PageTypes
<1>1. CASE Click
  BY <1>0, <1>1 DEF Click, Rests, Idle
<1>2. CASE ReadsOn \/ ReviewsOn
  <2>1. flow \in Flow /\ UNCHANGED <<approved, calls>>
    BY <1>0, <1>2, InShape DEF ReadsOn, ReviewsOn
  <2>2. flow'.stage \in {"check", "review"}
    BY <1>2, <2>1 DEF ReadsOn, ReviewsOn, Flow
  <2> QED BY <1>0, <2>1, <2>2 DEF Rests, Idle
<1>3. CASE Chooses
  <2>1. flow \in Flow /\ flow.stage = "choose" /\ flow' = [flow EXCEPT !.stage = "write", !.page = Lowest(Page)]
        /\ UNCHANGED approved
    BY <1>0, <1>3, InShape DEF Chooses
  <2>2. flow'.n = flow.n /\ flow'.stage = "write" /\ flow'.ticket = flow.ticket /\ flow'.content = flow.content
    BY <2>1 DEF Flow
  <2>3. \E rest \in SUBSET calls, p \in Page, a \in 1 .. 2 : calls' = rest \cup {WriteCall(p, a)}
    <3>1. Lowest(Page) \in Page /\ calls \in SUBSET calls /\ 1 \in 1 .. 2
      BY PagesPositive, LeastOf
    <3>2. calls' = calls \cup {WriteCall(Lowest(Page), 1)}
      BY <1>3 DEF Chooses
    <3> QED BY <3>1, <3>2
  <2> QED BY <1>0, <2>1, <2>2, <2>3 DEF SendsOn, Idle
<1>4. CASE RetriesOn
  <2>1. flow \in Flow /\ flow.stage = "write" /\ flow' = [flow EXCEPT !.attempt = 2] /\ UNCHANGED approved
    BY <1>0, <1>4, InShape DEF RetriesOn
  <2>2. flow'.n = flow.n /\ flow'.stage = "write" /\ flow'.ticket = flow.ticket /\ flow'.content = flow.content
    BY <2>1 DEF Flow
  <2>3. \E rest \in SUBSET calls, p \in Page, a \in 1 .. 2 : calls' = rest \cup {WriteCall(p, a)}
    <3>1. flow.page \in Page /\ 2 \in 1 .. 2
      BY <1>4 DEF RetriesOn, PageTypes
    <3>2. PICK rest \in SUBSET calls : calls' = rest \cup {WriteCall(flow.page, 2)}
      BY <1>4 DEF RetriesOn
    <3> QED BY <3>1, <3>2
  <2> QED BY <1>0, <2>1, <2>2, <2>3 DEF SendsOn, Idle
<1>5. ASSUME NEW c \in calls, SavesOn(c) PROVE SendsOn
  <2> DEFINE p == Lowest(More)
             b == flow.unrecorded \/ c.result = "unrecorded"
  <2>1. /\ flow \in Flow /\ flow.stage = "write" /\ More # {} /\ UNCHANGED approved
        /\ calls' = (calls \ {c}) \cup {WriteCall(p, 1)}
    BY <1>0, <1>5, InShape DEF SavesOn
  <2>2. flow' = [flow EXCEPT !.saved = flow.saved + 1, !.unrecorded = b, !.page = p, !.attempt = 1]
    BY <1>5 DEF SavesOn
  <2>3. p \in Page /\ calls \ {c} \in SUBSET calls /\ 1 \in 1 .. 2
    BY <2>1, MoreShape
  <2> HIDE DEF p, b
  <2>4. flow'.n = flow.n /\ flow'.stage = "write" /\ flow'.ticket = flow.ticket /\ flow'.content = flow.content
    BY <2>1, <2>2 DEF Flow
  <2>5. \E rest \in SUBSET calls, q \in Page, a \in 1 .. 2 : calls' = rest \cup {WriteCall(q, a)}
    BY <2>1, <2>3
  <2> QED BY <1>0, <2>1, <2>4, <2>5 DEF SendsOn, Idle
<1>6. CASE Closes
  BY <1>6 DEF Closes, Over, Rests
<1> QED BY <1>1, <1>2, <1>3, <1>4, <1>5, <1>6, WindowMoves

LEMMA RestsKeep ==
    ASSUME Reviewed, Ticketed, Rests, sequence' = sequence
    PROVE Reviewed' /\ Ticketed'
<1>1. /\ In("render")' => In("render") /\ flow' = flow
      /\ In("choose")' => In("choose") /\ flow' = flow
      /\ In("write")' => In("write") /\ flow' = flow
  BY DEF Rests, In
<1>2. calls' \subseteq calls /\ approved' = approved
  BY DEF Rests
<1>3. Reviewed'
  BY <1>1, <1>2 DEF Reviewed, Cleared
<1>4. Ticketed'
  <2>1. In("choose")' \/ In("write")' => flow'.ticket \in 1 .. sequence'
    BY <1>1 DEF Ticketed
  <2>2. \A c \in calls' : HasTicket(c) => c.ticket \in 1 .. sequence'
    BY <1>2 DEF Ticketed
  <2>3. \A c \in calls' : c.attempt > 0 /\ In("write")' /\ c.n = flow'.n => c.ticket = flow'.ticket
    BY <1>1, <1>2 DEF Ticketed
  <2>4. \A c, d \in calls' : c.attempt > 0 /\ d.attempt > 0 /\ c.n = d.n => c.ticket = d.ticket
    BY <1>2 DEF Ticketed
  <2> QED BY <2>1, <2>2, <2>3, <2>4 DEF Ticketed, HasTicket
<1> QED BY <1>3, <1>4

LEMMA WindowReviewed ==
    ASSUME PageTypes, Numbered, Reviewed, Ticketed, WindowActs, Click => asked + 1 \in Export
    PROVE Reviewed' /\ Ticketed'
<1>0. /\ flow \in Flow \cup {Idle} /\ approved \in [Export -> Cursor \cup {None}]
      /\ sequence' = sequence /\ calls \subseteq Call
  BY WindowFrame DEF PageTypes, sessions
<1>a. flow \in Flow => flow # Idle
  BY DEF Flow, Idle
<1>b. \A c \in calls : Reached(c) /\ Cleared(c) /\ c.n \in Export
  BY DEF Numbered, Reviewed, PageTypes, Call
<1>1. CASE Rests
  BY <1>0, <1>1, RestsKeep
<1>2. CASE ApprovesOn
  <2>1. /\ flow \in Flow /\ flow.stage = "review" /\ flow' = [flow EXCEPT !.stage = "render"]
        /\ approved' = [approved EXCEPT ![flow.n] = flow.cursor] /\ calls' = calls \cup {RenderCall}
    BY <1>0, <1>2, InShape DEF ApprovesOn
  <2>2. flow.n \in Export /\ flow'.n = flow.n /\ flow'.stage = "render" /\ flow'.cursor = flow.cursor
    BY <2>1 DEF Flow
  <2>3. approved'[flow.n] = flow.cursor /\ \A c \in calls : c.n # flow.n => approved'[c.n] = approved[c.n]
    BY <1>0, <1>b, <2>1, <2>2
  <2>4. \A c \in calls : c.n # flow.n
    BY <1>a, <1>b, <2>1 DEF Reached
  <2>5. RenderCall.n = flow.n /\ RenderCall.attempt = 0 /\ RenderCall.stage = "sent" /\ RenderCall.cursor = flow.cursor
    BY <2>1, NewCalls
  <2> HIDE DEF RenderCall
  <2>6. \A c \in calls' : Cleared(c)'
    BY <1>b, <2>1, <2>3, <2>4, <2>5 DEF Cleared
  <2>7. Reviewed'
    BY <2>2, <2>3, <2>6 DEF Reviewed, In
  <2>8. ~In("choose")' /\ ~In("write")'
    BY <2>2 DEF In
  <2>9. ~HasTicket(RenderCall) /\ ~(RenderCall.attempt > 0)
    BY <2>5 DEF HasTicket
  <2>10. /\ \A c \in calls : HasTicket(c) => c.ticket \in 1 .. sequence
         /\ \A c, d \in calls : c.attempt > 0 /\ d.attempt > 0 /\ c.n = d.n => c.ticket = d.ticket
    BY DEF Ticketed
  <2>11. /\ \A c \in calls' : HasTicket(c) => c.ticket \in 1 .. sequence'
         /\ \A c, d \in calls' : c.attempt > 0 /\ d.attempt > 0 /\ c.n = d.n => c.ticket = d.ticket
    BY <1>0, <2>1, <2>9, <2>10
  <2>12. Ticketed'
    BY <2>8, <2>11 DEF Ticketed, HasTicket
  <2> QED BY <2>7, <2>12
<1>3. CASE SendsOn
  <2>1. /\ flow \in Flow /\ flow.stage \in {"choose", "write"} /\ approved' = approved
        /\ flow' \in Flow /\ flow'.stage = "write"
        /\ flow'.n = flow.n /\ flow'.ticket = flow.ticket /\ flow'.content = flow.content
    BY <1>3 DEF SendsOn
  <2>2. PICK rest \in SUBSET calls, p \in Page, a \in 1 .. 2 : calls' = rest \cup {WriteCall(p, a)}
    BY <1>3 DEF SendsOn
  <2>3. PICK w : w = WriteCall(p, a)
    OBVIOUS
  <2>4. w.n = flow.n /\ w.attempt > 0 /\ w.ticket = flow.ticket /\ w.content = flow.content
    BY <2>1, <2>3, NewCalls
  <2>5. calls' = rest \cup {w}
    BY <2>2, <2>3
  <2>6. In("choose") \/ In("write")
    BY <1>a, <2>1 DEF In
  <2>7. flow.content \in Content /\ flow.content.cursor = approved[flow.n] /\ flow.ticket \in 1 .. sequence
    BY <2>6 DEF Reviewed, Ticketed
  <2>8. w.attempt # 0
    BY <2>4
  <2>9. \A c \in calls' : Cleared(c)'
    <3>1. \A c \in calls : Cleared(c)'
      BY <1>b, <2>1 DEF Cleared
    <3>2. Cleared(w)'
      BY <2>1, <2>4, <2>7, <2>8 DEF Cleared
    <3> QED BY <2>5, <3>1, <3>2
  <2>10. ~In("render")' /\ ~In("choose")'
    BY <2>1 DEF In
  <2>11. Reviewed'
    BY <2>1, <2>7, <2>9, <2>10 DEF Reviewed
  <2>12. ASSUME NEW c \in calls, c.attempt > 0, c.n = flow.n PROVE c.ticket = flow.ticket
    <3>1. flow.stage = "write"
      BY <1>a, <1>b, <2>1, <2>12 DEF Reached
    <3>2. In("write")
      BY <1>a, <2>1, <3>1 DEF In
    <3> QED BY <2>12, <3>2 DEF Ticketed
  <2>13. /\ \A c \in calls : HasTicket(c) => c.ticket \in 1 .. sequence
         /\ \A c, d \in calls : c.attempt > 0 /\ d.attempt > 0 /\ c.n = d.n => c.ticket = d.ticket
    BY DEF Ticketed
  <2>14. \A c \in calls' : HasTicket(c) => c.ticket \in 1 .. sequence'
    BY <1>0, <2>4, <2>5, <2>7, <2>13
  <2>15. \A c \in calls' : c.attempt > 0 /\ c.n = flow.n => c.ticket = flow.ticket
    BY <2>4, <2>5, <2>12
  <2>16. \A c, d \in calls' : c.attempt > 0 /\ d.attempt > 0 /\ c.n = d.n => c.ticket = d.ticket
    BY <2>4, <2>5, <2>13, <2>15
  <2>17. flow'.ticket \in 1 .. sequence'
    BY <1>0, <2>1, <2>7
  <2>18. \A c \in calls' : c.attempt > 0 /\ In("write")' /\ c.n = flow'.n => c.ticket = flow'.ticket
    BY <2>1, <2>15
  <2>19. Ticketed'
    BY <2>14, <2>16, <2>17, <2>18 DEF Ticketed, HasTicket
  <2> QED BY <2>11, <2>19
<1>4. ASSUME NEW c \in calls, ReceivesOn(c) PROVE Reviewed' /\ Ticketed'
  <2>1. /\ flow \in Flow /\ flow.stage = "render" /\ calls' = calls \ {c} /\ approved' = approved
        /\ flow' = [flow EXCEPT !.stage = "choose", !.ticket = c.ticket, !.content = c.content]
    BY <1>0, <1>4, InShape DEF ReceivesOn
  <2>2. flow'.stage = "choose" /\ flow'.ticket = c.ticket /\ flow'.content = c.content /\ flow'.n = flow.n
    BY <2>1 DEF Flow
  <2>3. c.n = flow.n /\ c.attempt = 0 /\ c.stage = "answered" /\ c.result = "ok"
    BY <1>4, <2>1 DEF ReceivesOn, Answered, Awaited, In
  <2>4. c.content \in Content /\ c.content.cursor = approved[flow.n]
    BY <1>b, <2>3 DEF Cleared
  <2>5. ~In("render")' /\ ~In("write")'
    BY <2>2 DEF In
  <2>6. \A d \in calls' : Cleared(d)'
    BY <1>b, <2>1 DEF Cleared
  <2>7. Reviewed'
    BY <2>1, <2>2, <2>4, <2>5, <2>6 DEF Reviewed
  <2>8. c.ticket \in 1 .. sequence
    BY <2>3 DEF Ticketed, HasTicket
  <2>9. Ticketed'
    BY <1>0, <2>1, <2>2, <2>5, <2>8 DEF Ticketed, HasTicket
  <2> QED BY <2>7, <2>9
<1> QED BY <1>1, <1>2, <1>3, <1>4, WindowKinds

\* There are never fewer tickets.
LEMMA CommandSequence ==
    ASSUME PageTypes, SessionsTypeOK, Receipted, NEW c \in calls, CommandActs(c)
    PROVE sequence' \in {sequence, sequence + 1} /\ sequence \in Nat
<1>1. sequence \in Nat
  BY DEF SessionsTypeOK
<1>2. UNCHANGED sessions => sequence' = sequence
  BY DEF sessions
<1>3. Registers(c.epoch) \/ RegisterRefuses(c.epoch) => sequence' \in {sequence, sequence + 1}
  BY RegisterEffect
<1>4. /\ Prepares(c.ticket, c.page) => sequence' = sequence
      /\ Abandons(c.ticket, c.page) => sequence' = sequence
      /\ \A recorded : Finishes(c.epoch, c.ticket, c.page, recorded) => sequence' = sequence
  BY DEF Prepares, Abandons, Finishes
<1> QED BY <1>1, <1>2, <1>3, <1>4, CommandWrites

LEMMA CommandReviewed ==
    ASSUME PageTypes, SessionsTypeOK, Receipted, Reviewed, Ticketed,
           NEW c \in calls, CommandActs(c), UNCHANGED <<flow, approved>>
    PROVE Reviewed' /\ Ticketed'
<1>0. sequence' \in {sequence, sequence + 1} /\ sequence \in Nat
  BY CommandSequence
<1>1. /\ \A d \in calls : Cleared(d)'
      /\ In("render")' => flow'.cursor = approved'[flow'.n]
      /\ In("choose")' \/ In("write")' => flow'.content \in Content /\ flow'.content.cursor = approved'[flow'.n]
  BY DEF Reviewed, Cleared, In
<1>2. /\ In("choose")' \/ In("write")' => flow'.ticket \in 1 .. sequence'
      /\ \A d \in calls : HasTicket(d) => d.ticket \in 1 .. sequence'
      /\ \A d \in calls : d.attempt > 0 /\ In("write")' /\ d.n = flow'.n => d.ticket = flow'.ticket
      /\ \A d, e \in calls : d.attempt > 0 /\ e.attempt > 0 /\ d.n = e.n => d.ticket = e.ticket
  <2>1. 1 .. sequence \subseteq 1 .. sequence'
    BY <1>0
  <2> QED BY <2>1 DEF Ticketed, In
<1>3. CASE calls' = calls \ {c}
  BY <1>1, <1>2, <1>3 DEF Reviewed, Ticketed, HasTicket
<1>4. ASSUME NEW d, Successor(c, d), Replaced(c, d),
             c.attempt = 0 /\ d.stage = "frozen" => d.content \in Content /\ d.content.cursor = c.cursor,
             d.stage = "answered" /\ d.result = "ok" /\ c.attempt = 0 =>
                /\ c.stage = "frozen" /\ d.content = c.content /\ d.ticket = sequence + 1
                /\ sequence' = sequence + 1
      PROVE Reviewed' /\ Ticketed'
  <2>1. /\ d.n = c.n /\ d.attempt = c.attempt /\ d.cursor = c.cursor
        /\ c.attempt > 0 => d.ticket = c.ticket /\ d.content = c.content
        /\ calls' = (calls \ {c}) \cup {d}
    BY <1>4 DEF Successor, Replaced
  <2>2. c.attempt \in Nat
    BY DEF PageTypes, Call
  <2>3. Cleared(d)'
    <3>1. Cleared(c)'
      BY <1>1
    <3>2. CASE c.attempt = 0
      BY <1>4, <2>1, <3>1, <3>2 DEF Cleared
    <3>3. CASE c.attempt # 0
      BY <2>1, <2>2, <3>1, <3>3 DEF Cleared
    <3> QED BY <3>2, <3>3
  <2>4. HasTicket(d) => d.ticket \in 1 .. sequence'
    <3>1. CASE c.attempt > 0
      BY <1>2, <2>1, <3>1 DEF HasTicket
    <3>2. CASE c.attempt = 0
      BY <1>0, <1>4, <2>1, <3>2 DEF HasTicket
    <3> QED BY <2>2, <3>1, <3>2
  <2>5. Reviewed'
    BY <1>1, <2>1, <2>3 DEF Reviewed
  <2>6. \A e \in calls' : HasTicket(e) => e.ticket \in 1 .. sequence'
    BY <1>2, <2>1, <2>4
  <2>7. \A e \in calls' : e.attempt > 0 /\ In("write")' /\ e.n = flow'.n => e.ticket = flow'.ticket
    BY <1>2, <2>1
  <2>8. \A e, f \in calls' : e.attempt > 0 /\ f.attempt > 0 /\ e.n = f.n => e.ticket = f.ticket
    BY <1>2, <2>1
  <2>9. Ticketed'
    BY <1>2, <2>6, <2>7, <2>8 DEF Ticketed, HasTicket
  <2> QED BY <2>5, <2>9
<1> QED BY <1>3, <1>4, CommandAnswers

\* A write keeps its ticket in flight, while the database is the one it was prepared
\* for, and no other is about the same file of the ticket.
Placed(c) ==
    /\ c.epoch \in 0 .. epoch
    /\ c.epoch = epoch => c.ticket \in Held /\ Flying(c.ticket, c.page)
    /\ c.epoch # epoch => c.ticket \notin Held

Same(c, d) == c.ticket = d.ticket /\ c.page = d.page

InPlace ==
    /\ \A c \in calls : Writes(c) => c.attempt > 0 /\ Placed(c)
    /\ \A c, d \in calls : Writes(c) /\ Writes(d) /\ Same(c, d) => c = d

\* What is to be written has no receipt.
ToWrite(c) == c.attempt > 0 /\ c.stage = "prepared" /\ ~c.verify

Unrecorded == \A c \in calls : ToWrite(c) => <<c.ticket, c.page>> \notin receipts

\* The writes there are: those there were, but for c.
LEMMA StopsShape ==
    ASSUME NEW c \in calls, Stops(c)
    PROVE \A d \in calls' : Writes(d) => d \in calls /\ d # c
BY DEF Stops, Replaced

LEMMA StopsKeep ==
    ASSUME InPlace, Unrecorded,
           \A d \in calls' : Writes(d) => d \in calls /\ Placed(d)',
           \A d \in calls' : ToWrite(d) => <<d.ticket, d.page>> \notin receipts'
    PROVE InPlace' /\ Unrecorded'
<1>1. \A c \in calls' : Writes(c) => c.attempt > 0 /\ Placed(c)'
  BY DEF InPlace
<1>2. \A c, d \in calls' : Writes(c) /\ Writes(d) /\ Same(c, d) => c = d
  BY DEF InPlace
<1>3. InPlace'
  BY <1>1, <1>2 DEF InPlace, Writes, Same
<1>4. Unrecorded'
  BY DEF Unrecorded, ToWrite
<1> QED BY <1>3, <1>4

LEMMA CommandInPlace ==
    ASSUME PageTypes, SessionsTypeOK, Receipted, Ticketed, InPlace, Unrecorded,
           NEW c \in calls, CommandActs(c)
    PROVE InPlace' /\ Unrecorded'
<1>0. /\ epoch \in Nat /\ sequence \in Nat
      /\ \A d \in calls : d \in Call /\ (d.attempt > 0 => d.page \in Page) /\ d.ticket \in Nat
  <2>1. \A d \in calls : d \in Call /\ (d.page = 0 <=> d.attempt = 0)
    BY DEF PageTypes
  <2>2. \A d \in Call : d.ticket \in Nat /\ d.page \in Page \cup {0} /\ d.attempt \in Nat
    BY DEF Call
  <2> QED BY <2>1, <2>2 DEF SessionsTypeOK
<1>a. /\ \A d \in calls : Writes(d) => d.attempt > 0 /\ Placed(d) /\ d.page \in Page
      /\ \A d, e \in calls : Writes(d) /\ Writes(e) /\ Same(d, e) => d = e
      /\ \A d \in calls : ToWrite(d) => <<d.ticket, d.page>> \notin receipts
  BY <1>0 DEF InPlace, Unrecorded
<1>b. \A d : ToWrite(d) => Writes(d)
  BY DEF ToWrite, Writes
<1>1. CASE UNCHANGED sessions /\ Stops(c)
  <2>1. UNCHANGED <<epoch, tickets, receipts>>
    BY <1>1 DEF sessions
  <2>2. \A d \in calls : Writes(d) => Placed(d)'
    BY <1>a, <2>1 DEF Placed, Held, Flying
  <2>3. \A d \in calls' : Writes(d) => d \in calls /\ d # c
    BY <1>1, StopsShape
  <2> QED BY <1>a, <1>b, <2>1, <2>2, <2>3, StopsKeep
<1>2. CASE /\ UNCHANGED sessions /\ Writes(c)
           /\ \E d : /\ Successor(c, d) /\ Replaced(c, d)
                     /\ Writes(d) /\ d.stage # "prepared" /\ d.epoch = c.epoch
  <2>1. UNCHANGED <<epoch, tickets, receipts>>
    BY <1>2 DEF sessions
  <2>2. PICK d : /\ Successor(c, d) /\ Replaced(c, d)
                 /\ Writes(d) /\ d.stage # "prepared" /\ d.epoch = c.epoch
    BY <1>2
  <2>3. d.ticket = c.ticket /\ d.page = c.page /\ calls' = (calls \ {c}) \cup {d} /\ ~ToWrite(d)
    BY <1>2, <1>a, <2>2 DEF Successor, Replaced, ToWrite
  <2>4. \A e \in calls : Writes(e) => Placed(e)'
    BY <1>a, <2>1 DEF Placed, Held, Flying
  <2>5. Placed(d)'
    BY <1>2, <2>2, <2>3, <2>4 DEF Placed
  <2>6. ASSUME NEW e \in calls, e # c, Writes(e), Same(d, e) \/ Same(e, d)
        PROVE FALSE
    <3>1. Same(c, e)
      BY <2>3, <2>6 DEF Same
    <3> QED BY <1>2, <1>a, <2>2, <2>6, <3>1
  <2>7. \A e \in calls' : Writes(e) => e.attempt > 0 /\ Placed(e)'
    BY <1>a, <1>2, <2>2, <2>3, <2>4, <2>5 DEF Successor
  <2>8. \A e, f \in calls' : Writes(e) /\ Writes(f) /\ Same(e, f) => e = f
    BY <1>a, <2>3, <2>6
  <2>9. InPlace'
    BY <2>7, <2>8 DEF InPlace, Writes, Same
  <2>10. \A e \in calls' : ToWrite(e) => <<e.ticket, e.page>> \notin receipts'
    BY <1>a, <2>1, <2>3
  <2> QED BY <2>9, <2>10 DEF Unrecorded, ToWrite
<1>3. CASE (Registers(c.epoch) \/ RegisterRefuses(c.epoch)) /\ Stops(c)
  <2>1. /\ UNCHANGED <<epoch, receipts>>
        /\ \A t \in Held' : t \in Held \/ t = sequence + 1
        /\ \A t \in Held : InFlight(t) => t \in Held' /\ tickets'[t] = tickets[t]
    BY <1>3, RegisterEffect
  <2>2. ASSUME NEW d \in calls, Writes(d) PROVE Placed(d)'
    <3>1. Placed(d) /\ d.page \in Page /\ d.ticket \in 1 .. sequence
      BY <1>a, <2>2 DEF Ticketed, HasTicket
    <3>2. CASE d.epoch = epoch
      <4>1. d.ticket \in Held /\ Flying(d.ticket, d.page)
        BY <3>1, <3>2 DEF Placed
      <4>2. InFlight(d.ticket)
        BY <3>1, <4>1 DEF InFlight, Flying
      <4>3. d.ticket \in Held' /\ Flying(d.ticket, d.page)'
        BY <2>1, <4>1, <4>2 DEF Flying
      <4> QED BY <2>1, <3>1, <3>2, <4>3 DEF Placed
    <3>3. CASE d.epoch # epoch
      <4>1. d.ticket \notin Held /\ d.ticket # sequence + 1
        BY <1>0, <3>1, <3>3 DEF Placed
      <4> QED BY <2>1, <3>1, <3>3, <4>1 DEF Placed
    <3> QED BY <3>2, <3>3
  <2>3. \A d \in calls' : Writes(d) => d \in calls /\ d # c
    BY <1>3, StopsShape
  <2> QED BY <1>a, <1>b, <2>1, <2>2, <2>3, StopsKeep
<1>4. CASE /\ Prepares(c.ticket, c.page) /\ ~Writes(c) /\ c.attempt > 0
           /\ \E d : /\ Successor(c, d) /\ Replaced(c, d) /\ Writes(d)
                     /\ d.epoch = epoch /\ d.verify = AlreadyWritten(c.ticket, c.page)
  <2>1. PICK d : /\ Successor(c, d) /\ Replaced(c, d) /\ Writes(d)
                 /\ d.epoch = epoch /\ d.verify = AlreadyWritten(c.ticket, c.page)
    BY <1>4
  <2>2. d.ticket = c.ticket /\ d.page = c.page /\ calls' = (calls \ {c}) \cup {d}
    BY <1>4, <2>1 DEF Successor, Replaced
  <2>3. PICK t \in Nat, p \in Page : t = c.ticket /\ p = c.page
    BY <1>0, <1>4
  <2>4. /\ receipts' = receipts /\ Quiet(t, p) /\ t \in Held /\ ~Flying(t, p) /\ Flying(t, p)'
    BY <1>4, <2>3, PrepareEffect
  <2>5. Held' = Held /\ epoch' = epoch
    BY <2>4 DEF Quiet
  <2>6. Placed(d)'
    BY <1>0, <2>1, <2>2, <2>3, <2>4, <2>5 DEF Placed
  <2>7. ASSUME NEW e \in calls, Writes(e)
        PROVE Placed(e)' /\ ~(e.ticket = t /\ e.page = p)
    <3>1. Placed(e) /\ e.page \in Page
      BY <1>a, <2>7
    <3>2. CASE e.epoch = epoch
      <4>1. e.ticket \in Held /\ Flying(e.ticket, e.page)
        BY <3>1, <3>2 DEF Placed
      <4>2. <<e.ticket, e.page>> # <<t, p>>
        BY <2>4, <4>1
      <4>3. tickets'[e.ticket].writes[e.page] = tickets[e.ticket].writes[e.page]
        BY <2>4, <3>1, <4>1, <4>2 DEF Quiet
      <4>4. Flying(e.ticket, e.page)'
        BY <4>1, <4>3 DEF Flying
      <4> QED BY <2>5, <3>1, <3>2, <4>1, <4>2, <4>4 DEF Placed
    <3>3. CASE e.epoch # epoch
      BY <2>4, <2>5, <3>1, <3>3 DEF Placed
    <3> QED BY <3>2, <3>3
  <2>8. \A e \in calls' : Writes(e) => e.attempt > 0 /\ Placed(e)'
    BY <1>a, <1>4, <2>1, <2>2, <2>6, <2>7 DEF Successor
  <2>9. \A e \in calls : Writes(e) => ~Same(e, d) /\ ~Same(d, e)
    BY <2>2, <2>3, <2>7 DEF Same
  <2>10. \A e, f \in calls' : Writes(e) /\ Writes(f) /\ Same(e, f) => e = f
    BY <1>a, <2>2, <2>9
  <2>11. InPlace'
    BY <2>8, <2>10 DEF InPlace, Writes, Same
  <2>12. ToWrite(d) => <<d.ticket, d.page>> \notin receipts'
    <3>1. ToWrite(d) => tickets[t].writes[p].proof = "none"
      BY <2>1, <2>3 DEF ToWrite, AlreadyWritten
    <3>2. <<t, p>> \in receipts => tickets[t].writes[p].proof = "recorded"
      BY <2>4 DEF Receipted
    <3> QED BY <2>2, <2>3, <2>4, <3>1, <3>2
  <2>13. \A e \in calls' : ToWrite(e) => <<e.ticket, e.page>> \notin receipts'
    BY <1>a, <2>2, <2>4, <2>12
  <2> QED BY <2>11, <2>13 DEF Unrecorded, ToWrite
\* A write is over: its own flight ends, and no other's.
<1>5. ASSUME Writes(c), Stops(c), Quiet(c.ticket, c.page),
             receipts' \subseteq receipts \cup {<<c.ticket, c.page>>}
      PROVE InPlace' /\ Unrecorded'
  <2>1. Held' = Held /\ epoch' = epoch
    BY <1>5 DEF Quiet
  <2>3. \A d \in calls : d # c /\ Writes(d) => ~Same(d, c)
    BY <1>5, <1>a
  <2>4. ASSUME NEW d \in calls, d # c, Writes(d) PROVE Placed(d)'
    <3>1. Placed(d) /\ d.page \in Page
      BY <1>a, <2>4
    <3>2. CASE d.epoch = epoch
      <4>1. d.ticket \in Held /\ Flying(d.ticket, d.page)
        BY <3>1, <3>2 DEF Placed
      <4>2. <<d.ticket, d.page>> # <<c.ticket, c.page>>
        BY <2>3, <2>4 DEF Same
      <4>3. tickets'[d.ticket].writes[d.page] = tickets[d.ticket].writes[d.page]
        BY <1>5, <3>1, <4>1, <4>2 DEF Quiet
      <4>4. Flying(d.ticket, d.page)'
        BY <4>1, <4>3 DEF Flying
      <4> QED BY <2>1, <3>1, <3>2, <4>1, <4>4 DEF Placed
    <3>3. CASE d.epoch # epoch
      BY <2>1, <3>1, <3>3 DEF Placed
    <3> QED BY <3>2, <3>3
  <2>5. ASSUME NEW d \in calls, d # c, ToWrite(d) PROVE <<d.ticket, d.page>> \notin receipts'
    <3>1. <<d.ticket, d.page>> \notin receipts /\ Writes(d)
      BY <1>a, <1>b, <2>5
    <3>2. ~Same(d, c)
      BY <2>3, <2>5, <3>1
    <3> QED BY <1>5, <3>1, <3>2 DEF Same
  <2>6. \A d \in calls' : Writes(d) => d \in calls /\ d # c
    BY <1>5, StopsShape
  <2> QED BY <1>b, <2>1, <2>4, <2>5, <2>6, StopsKeep
<1>6. CASE Writes(c) /\ Abandons(c.ticket, c.page) /\ Stops(c)
  <2>1. PICK t \in Nat, p \in Page : t = c.ticket /\ p = c.page
    BY <1>0, <1>a, <1>6
  <2>2. Quiet(c.ticket, c.page) /\ receipts' = receipts
    BY <1>6, <2>1, AbandonEffect
  <2> QED BY <1>5, <1>6, <2>2
<1>7. CASE /\ Writes(c) /\ Stops(c)
           /\ \E recorded \in BOOLEAN : Finishes(c.epoch, c.ticket, c.page, recorded)
  <2>1. PICK t \in Nat, p \in Page : t = c.ticket /\ p = c.page
    BY <1>0, <1>a, <1>7
  <2>2. PICK recorded \in BOOLEAN : Finishes(c.epoch, t, p, recorded)
    BY <1>7, <2>1
  <2>3. /\ Quiet(t, p) /\ c.epoch = epoch
        /\ receipts' = IF recorded THEN receipts \cup {<<t, p>>} ELSE receipts
    BY <2>2, FinishEffect
  <2>4. receipts' \subseteq receipts \cup {<<c.ticket, c.page>>} /\ Quiet(c.ticket, c.page)
    BY <2>1, <2>3
  <2> QED BY <1>5, <1>7, <2>4
<1> QED BY <1>1, <1>2, <1>3, <1>4, <1>6, <1>7, CommandWrites

LEMMA WindowInPlace ==
    ASSUME PageTypes, InPlace, Unrecorded, WindowActs, Click => asked + 1 \in Export
    PROVE InPlace' /\ Unrecorded'
<1>1. UNCHANGED <<epoch, tickets, receipts>>
  BY WindowFrame DEF sessions
<1>2. \A c \in calls' : Writes(c) \/ ToWrite(c) => c \in calls
  <2>1. flow \in Flow \cup {Idle}
    BY DEF PageTypes
  <2>2. CASE Rests \/ \E c \in calls : ReceivesOn(c)
    BY <2>2 DEF Rests, ReceivesOn
  <2>3. CASE ApprovesOn
    <3>1. RenderCall.stage = "sent" /\ calls' = calls \cup {RenderCall}
      BY <2>1, <2>3, InShape, NewCalls DEF ApprovesOn
    <3> HIDE DEF RenderCall
    <3> QED BY <3>1 DEF Writes, ToWrite
  <2>4. CASE SendsOn
    <3>1. PICK rest \in SUBSET calls, p \in Page, a \in 1 .. 2 : calls' = rest \cup {WriteCall(p, a)}
      BY <2>4 DEF SendsOn
    <3>2. WriteCall(p, a).stage = "sent"
      BY <2>4, NewCalls DEF SendsOn
    <3> QED BY <3>1, <3>2 DEF Writes, ToWrite
  <2> QED BY <2>2, <2>3, <2>4, WindowKinds
<1>3. \A c \in calls : Writes(c) => Placed(c)'
  BY <1>1 DEF InPlace, Placed, Held, Flying
<1>4. \A c \in calls' : Writes(c) => c \in calls /\ Placed(c)'
  BY <1>2, <1>3
<1>5. \A c \in calls' : ToWrite(c) => <<c.ticket, c.page>> \notin receipts'
  BY <1>1, <1>2 DEF Unrecorded
<1> QED BY <1>4, <1>5, StopsKeep

LEMMA WorldInPlace ==
    ASSUME PageTypes, SessionsTypeOK, Receipted, InPlace, Unrecorded, WorldActs
    PROVE InPlace' /\ Unrecorded'
<1>0. calls' \subseteq calls /\ epoch \in Nat
      /\ \A c \in calls : c.attempt > 0 => c.page \in Page
  <2>1. calls \subseteq Call /\ \A c \in calls : c.page = 0 <=> c.attempt = 0
    BY DEF PageTypes
  <2> QED BY <2>1, WorldMoves DEF Closes, SessionsTypeOK, Call
<1>1. ASSUME NEW c \in calls, Writes(c) PROVE Placed(c)'
  <2>1. Placed(c) /\ c.page \in Page
    BY <1>0, <1>1 DEF InPlace
  <2>2. CASE UNCHANGED sessions
    BY <2>1, <2>2 DEF sessions, Placed, Held, Flying
  <2>3. CASE Expires
    <3>1. /\ epoch' = epoch /\ Held' = Held
          /\ \A u \in Held, q \in Page : tickets'[u].writes[q] = tickets[u].writes[q]
      BY <2>3, ExpireEffect
    <3> QED BY <2>1, <3>1 DEF Placed, Flying
  <2>4. CASE Invalidates /\ receipts' = {}
    <3>1. epoch' = epoch + 1 /\ Held' = {}
      BY <2>4, InvalidateEffect
    <3>2. c.epoch \in 0 .. epoch' /\ c.epoch # epoch'
      BY <1>0, <2>1, <3>1 DEF Placed
    <3> QED BY <3>1, <3>2 DEF Placed
  <2> QED BY <2>2, <2>3, <2>4, WorldMoves
<1>2. receipts' \subseteq receipts
  BY WorldMoves DEF sessions, Expires
<1>3. \A c \in calls' : Writes(c) => c \in calls /\ Placed(c)'
  BY <1>0, <1>1
<1>4. \A c \in calls' : ToWrite(c) => <<c.ticket, c.page>> \notin receipts'
  BY <1>0, <1>2 DEF Unrecorded
<1> QED BY <1>3, <1>4, StopsKeep

-----------------------------------------------------------------------------
(* What has been recorded.                                                 *)

\* A write that was answered well has its receipt, and so has every file the export
\* has come past, unless the window knows better; until another database is there.
AnsweredWell(c) == c.attempt > 0 /\ c.stage = "answered" /\ c.result = "ok"

Recorded ==
    ~reloading =>
        /\ \A c \in calls : AnsweredWell(c) => <<c.ticket, c.page>> \in receipts
        /\ In("write") /\ ~flow.unrecorded =>
             \A p \in Page : p < flow.page => <<flow.ticket, p>> \in receipts

\* The answer the window waits for as it writes.
LEMMA WriteAwaited ==
    ASSUME PageTypes, Ticketed, NEW c \in calls, In("write"), Answered(c)
    PROVE /\ c.attempt > 0 /\ c.page = flow.page /\ c.stage = "answered" /\ c.ticket = flow.ticket
<1>1. flow \in Flow /\ flow.stage = "write"
  BY InShape DEF PageTypes
<1>2. c.n = flow.n /\ c.page = flow.page /\ c.attempt = flow.attempt /\ c.stage = "answered"
  BY <1>1 DEF Answered, Awaited, In
<1>3. c.attempt > 0
  BY <1>1, <1>2 DEF Flow
<1> QED BY <1>2, <1>3 DEF Ticketed

LEMMA WindowRecorded ==
    ASSUME PageTypes, Ticketed, Recorded, WindowActs, Click => asked + 1 \in Export
    PROVE Recorded'
<1>0. flow \in Flow \cup {Idle} /\ receipts' = receipts /\ reloading' = reloading
      /\ calls \subseteq Call
  BY WindowFrame DEF PageTypes, sessions
<1>1. CASE reloading
  BY <1>0, <1>1 DEF Recorded
<1>2. CASE ~reloading
  <2>1. \A c \in calls : AnsweredWell(c) => <<c.ticket, c.page>> \in receipts
    BY <1>2 DEF Recorded
  <2>2. \A c \in calls' : AnsweredWell(c) => c \in calls
    <3>1. CASE Rests \/ \E c \in calls : ReceivesOn(c)
      BY <3>1 DEF Rests, ReceivesOn
    <3>2. CASE ApprovesOn
      <4>1. RenderCall.stage = "sent" /\ calls' = calls \cup {RenderCall}
        BY <1>0, <3>2, InShape, NewCalls DEF ApprovesOn
      <4> HIDE DEF RenderCall
      <4> QED BY <4>1 DEF AnsweredWell
    <3>3. CASE SendsOn
      <4>1. PICK rest \in SUBSET calls, p \in Page, a \in 1 .. 2 : calls' = rest \cup {WriteCall(p, a)}
        BY <3>3 DEF SendsOn
      <4>2. WriteCall(p, a).stage = "sent"
        BY <3>3, NewCalls DEF SendsOn
      <4> QED BY <4>1, <4>2 DEF AnsweredWell
    <3> QED BY <3>1, <3>2, <3>3, WindowKinds
  <2>3. \A c \in calls' : AnsweredWell(c) => <<c.ticket, c.page>> \in receipts'
    BY <1>0, <2>1, <2>2
  <2> DEFINE Past == In("write") /\ ~flow.unrecorded =>
                       \A p \in Page : p < flow.page => <<flow.ticket, p>> \in receipts
  <2>4. Past
    BY <1>2 DEF Recorded
  <2>5. ASSUME ~In("write")' PROVE Past'
    BY <2>5
  <2>6. ASSUME flow' = flow PROVE Past'
    BY <1>0, <2>4, <2>6 DEF In
  <2>7. ASSUME Click \/ ReadsOn \/ ReviewsOn \/ ApprovesOn \/ \E c \in calls : ReceivesOn(c)
        PROVE Past'
    <3>1. ASSUME Click PROVE ~In("write")'
      BY <3>1 DEF Click, In
    <3>2. ASSUME ReadsOn \/ ReviewsOn \/ ApprovesOn PROVE ~In("write")'
      <4>1. flow \in Flow
        BY <1>0, <3>2, InShape DEF ReadsOn, ReviewsOn, ApprovesOn
      <4> QED BY <3>2, <4>1 DEF ReadsOn, ReviewsOn, ApprovesOn, Flow, In
    <3>3. ASSUME NEW c \in calls, ReceivesOn(c) PROVE ~In("write")'
      <4>1. flow \in Flow /\ flow' = [flow EXCEPT !.stage = "choose", !.ticket = c.ticket, !.content = c.content]
        BY <1>0, <3>3, InShape DEF ReceivesOn
      <4>2. flow'.stage = "choose"
        BY <4>1 DEF Flow
      <4> QED BY <4>2 DEF In
    <3> HIDE DEF Past
    <3> QED BY <2>5, <2>7, <3>1, <3>2, <3>3
  <2>8. ASSUME Chooses PROVE Past'
    <3>1. flow \in Flow /\ flow' = [flow EXCEPT !.stage = "write", !.page = Lowest(Page)]
      BY <1>0, <2>8, InShape DEF Chooses
    <3>2. flow'.page = Lowest(Page)
      BY <3>1 DEF Flow
    <3>3. Lowest(Page) \in Page /\ \A p \in Page : Lowest(Page) <= p
      BY PagesPositive, LeastOf
    <3>4. flow'.page \in Page /\ \A p \in Page : flow'.page <= p /\ p \in Nat
      BY <3>2, <3>3, PagesPositive
    <3>5. \A p \in Page : ~(p < flow'.page)
      BY <3>4
    <3> QED BY <3>5
  <2>9. ASSUME RetriesOn PROVE Past'
    <3>1. flow \in Flow /\ flow' = [flow EXCEPT !.attempt = 2] /\ In("write")
      BY <1>0, <2>9, InShape DEF RetriesOn
    <3>2. flow'.page = flow.page /\ flow'.ticket = flow.ticket /\ flow'.unrecorded = flow.unrecorded
      BY <3>1 DEF Flow
    <3> QED BY <1>0, <2>4, <3>1, <3>2
  <2>10. ASSUME NEW c \in calls, SavesOn(c) PROVE Past'
    <3> DEFINE q == Lowest(More)
               b == flow.unrecorded \/ c.result = "unrecorded"
    <3>1. /\ flow \in Flow /\ In("write") /\ Answered(c) /\ Saved(c) /\ More # {}
      BY <1>0, <2>10, InShape DEF SavesOn
    <3>2. flow' = [flow EXCEPT !.saved = flow.saved + 1, !.unrecorded = b, !.page = q, !.attempt = 1]
      BY <2>10 DEF SavesOn
    <3>3. q \in Page /\ \A p \in Page : p > flow.page => q <= p
      BY <3>1, MoreShape
    <3>4. flow.page \in Page /\ \A p \in Page : p \in Nat
      BY <3>1, PagesPositive DEF PageTypes
    <3> HIDE DEF q, b
    <3>5. flow'.unrecorded = b /\ flow'.page = q /\ flow'.ticket = flow.ticket
      BY <3>1, <3>2 DEF Flow
    <3>6. ASSUME ~b, NEW p \in Page, p < q PROVE <<flow.ticket, p>> \in receipts
      <4>1. ~flow.unrecorded /\ c.result = "ok"
        BY <3>1, <3>6 DEF b, Saved
      <4>2. c.attempt > 0 /\ c.page = flow.page /\ c.stage = "answered" /\ c.ticket = flow.ticket
        BY <3>1, WriteAwaited
      <4>3. <<flow.ticket, flow.page>> \in receipts
        BY <2>1, <4>1, <4>2 DEF AnsweredWell
      <4>4. p < flow.page \/ p = flow.page
        BY <3>3, <3>4, <3>6
      <4> QED BY <2>4, <3>1, <4>1, <4>3, <4>4
    <3> QED BY <1>0, <3>5, <3>6
  <2>11. ASSUME Closes PROVE Past'
    <3>1. flow' = flow \/ ~In("write")'
      BY <2>11 DEF Closes, Over, In
    <3> HIDE DEF Past
    <3> QED BY <2>5, <2>6, <3>1
  <2>12. Past'
    <3> HIDE DEF Past
    <3> QED BY <2>7, <2>8, <2>9, <2>10, <2>11, WindowMoves
  <2> QED BY <1>0, <2>3, <2>12 DEF Recorded, AnsweredWell
<1> QED BY <1>1, <1>2

LEMMA CommandReceipts ==
    ASSUME PageTypes, SessionsTypeOK, Receipted, NEW c \in calls, CommandActs(c)
    PROVE receipts \subseteq receipts'
<1>1. UNCHANGED sessions => receipts' = receipts
  BY DEF sessions
<1>2. /\ Registers(c.epoch) \/ RegisterRefuses(c.epoch) => receipts' = receipts
      /\ Prepares(c.ticket, c.page) => receipts' = receipts
      /\ Abandons(c.ticket, c.page) => receipts' = receipts
  BY DEF Registers, RegisterRefuses, Prepares, Abandons
<1>3. \A recorded \in BOOLEAN : Finishes(c.epoch, c.ticket, c.page, recorded) => receipts \subseteq receipts'
  BY DEF Finishes
<1> QED BY <1>1, <1>2, <1>3, CommandWrites

LEMMA CommandRecorded ==
    ASSUME PageTypes, SessionsTypeOK, Receipted, Recorded, NEW c \in calls, CommandActs(c),
           UNCHANGED <<flow, reloading>>
    PROVE Recorded'
<1>0. receipts \subseteq receipts'
  BY CommandReceipts
<1>1. CASE reloading
  BY <1>1 DEF Recorded
<1>2. CASE ~reloading
  <2>1. \A d \in calls : AnsweredWell(d) => <<d.ticket, d.page>> \in receipts'
    BY <1>0, <1>2 DEF Recorded
  <2>2. In("write")' /\ ~flow'.unrecorded =>
             \A p \in Page : p < flow'.page => <<flow'.ticket, p>> \in receipts'
    BY <1>0, <1>2 DEF Recorded, In
  <2>3. \A d \in calls' : AnsweredWell(d) => <<d.ticket, d.page>> \in receipts'
    <3>1. CASE calls' = calls \ {c}
      BY <2>1, <3>1
    <3>2. ASSUME NEW d, Successor(c, d), Replaced(c, d),
                 d.stage = "answered" /\ d.result = "ok" /\ c.attempt # 0 => <<c.ticket, c.page>> \in receipts'
          PROVE \A e \in calls' : AnsweredWell(e) => <<e.ticket, e.page>> \in receipts'
      <4>1. AnsweredWell(d) => <<d.ticket, d.page>> \in receipts'
        <5>1. d.attempt = c.attempt /\ d.page = c.page /\ (c.attempt > 0 => d.ticket = c.ticket)
          BY <3>2 DEF Successor
        <5>2. c.attempt \in Nat
          BY DEF PageTypes, Call
        <5> QED BY <3>2, <5>1, <5>2 DEF AnsweredWell
      <4> QED BY <2>1, <3>2, <4>1 DEF Replaced
    <3> QED BY <3>1, <3>2, CommandAnswers
  <2> QED BY <1>2, <2>2, <2>3 DEF Recorded, AnsweredWell
<1> QED BY <1>1, <1>2

LEMMA WorldRecorded ==
    ASSUME Recorded, WorldActs
    PROVE Recorded'
<1>1. CASE reloading'
  BY <1>1 DEF Recorded
<1>2. CASE ~reloading'
  <2>1. receipts' = receipts /\ calls' \subseteq calls /\ (flow' = flow \/ flow' = Idle)
    BY <1>2, WorldMoves DEF sessions, Expires, Closes
  <2>2. CASE reloading
    <3>1. (\A c \in calls' : c.stage # "answered") /\ flow' = Idle
      BY <1>2, <2>2, WorldMoves
    <3> QED BY <3>1 DEF Recorded, AnsweredWell, In
  <2>3. CASE ~reloading
    <3>1. \A c \in calls' : AnsweredWell(c) => <<c.ticket, c.page>> \in receipts'
      BY <2>1, <2>3 DEF Recorded
    <3>2. In("write")' /\ ~flow'.unrecorded =>
             \A p \in Page : p < flow'.page => <<flow'.ticket, p>> \in receipts'
      BY <2>1, <2>3 DEF Recorded, In
    <3> QED BY <3>1, <3>2 DEF Recorded, AnsweredWell
  <2> QED BY <2>2, <2>3
<1> QED BY <1>1, <1>2

-----------------------------------------------------------------------------
(* What the exports promise.                                               *)

Inv == Base /\ Reviewed /\ Ticketed /\ InPlace /\ Unrecorded /\ Recorded

LEMMA InvStart ==
    ASSUME Init
    PROVE Inv
<1>1. Base
  BY BaseStart
<1>2. flow = Idle /\ calls = {}
  BY DEF Init
<1> QED BY <1>1, <1>2 DEF Inv, Reviewed, Ticketed, InPlace, Unrecorded, Recorded, In

LEMMA InvNext ==
    ASSUME Inv, [Next]_vars
    PROVE Inv'
<1> DEFINE Rest == Reviewed /\ Ticketed /\ InPlace /\ Unrecorded /\ Recorded
<1>0. Base' /\ Base
  BY BaseNext DEF Inv
<1>1. PageTypes /\ SessionsTypeOK /\ Receipted /\ Numbered
  BY <1>0 DEF Base
<1>a. ASSUME UNCHANGED <<sessions, flow, approved, calls, reloading>> PROVE Rest'
  <2>1. UNCHANGED <<epoch, sequence, tickets, receipts>>
    BY <1>a DEF sessions
  <2>2. Reviewed'
    BY <1>a DEF Inv, Reviewed, Cleared, In
  <2>3. Ticketed'
    BY <1>a, <2>1 DEF Inv, Ticketed, HasTicket, In
  <2>4. InPlace' /\ Unrecorded'
    BY <1>a, <2>1 DEF Inv, InPlace, Unrecorded, Writes, ToWrite, Placed, Same, Held, Flying
  <2>5. Recorded'
    BY <1>a, <2>1 DEF Inv, Recorded, AnsweredWell, In
  <2> QED BY <2>2, <2>3, <2>4, <2>5
<1>2. ASSUME UpdateSide PROVE Rest'
  <2>1. UNCHANGED <<sessions, flow, approved, calls, reloading>>
    BY <1>2, UpdateSideShape DEF page, export
  <2> HIDE DEF Rest
  <2> QED BY <1>a, <2>1
<1>3. ASSUME WindowActs, Next PROVE Rest'
  <2>1. Click => asked + 1 \in Export
    BY <1>0, <1>1, <1>3, BudgetKept DEF Base, PageTypes
  <2>2. Reviewed' /\ Ticketed'
    BY <1>1, <1>3, <2>1, WindowReviewed DEF Inv
  <2>3. InPlace' /\ Unrecorded'
    BY <1>1, <1>3, <2>1, WindowInPlace DEF Inv
  <2>4. Recorded'
    BY <1>1, <1>3, <2>1, WindowRecorded DEF Inv
  <2> QED BY <2>2, <2>3, <2>4
<1>4. ASSUME WorldActs PROVE Rest'
  <2>1. Closes /\ (flow' = flow \/ flow' = Idle)
    BY <1>4, WorldMoves
  <2>2. Rests
    BY <2>1 DEF Closes, Rests
  <2>3. sequence' = sequence
    BY <1>4, WorldMoves DEF sessions, Expires, Invalidates
  <2>4. Reviewed' /\ Ticketed'
    BY <2>2, <2>3, RestsKeep DEF Inv
  <2>5. InPlace' /\ Unrecorded'
    BY <1>1, <1>4, WorldInPlace DEF Inv
  <2>6. Recorded'
    BY <1>4, WorldRecorded DEF Inv
  <2> QED BY <2>4, <2>5, <2>6
<1>5. ASSUME CommandStep PROVE Rest'
  <2>1. UNCHANGED <<flow, approved, reloading>>
    BY <1>5, CommandFrame DEF window, export
  <2>2. PICK c \in calls : CommandActs(c)
    BY <1>5 DEF CommandStep, CommandActs
  <2>3. Reviewed' /\ Ticketed'
    BY <1>1, <2>1, <2>2, CommandReviewed DEF Inv
  <2>4. InPlace' /\ Unrecorded'
    BY <1>1, <2>2, CommandInPlace DEF Inv
  <2>5. Recorded'
    BY <1>1, <2>1, <2>2, CommandRecorded DEF Inv
  <2> QED BY <2>3, <2>4, <2>5
<1>6. ASSUME UNCHANGED vars PROVE Rest'
  <2>1. UNCHANGED <<sessions, flow, approved, calls, reloading>>
    BY <1>6 DEF vars, window, export
  <2> HIDE DEF Rest
  <2> QED BY <1>a, <2>1
<1>7. Rest'
  <2> HIDE DEF Rest
  <2> QED BY <1>2, <1>3, <1>4, <1>5, <1>6, Steps
<1> QED BY <1>0, <1>7 DEF Inv, Rest

LEMMA InvHolds == Spec => []Inv
BY InvStart, InvNext, PTL DEF Spec

\* A write in flight keeps its ticket and its claim on the file, however the tickets
\* expire, are evicted or make way for others (export_sessions.rs), unless a restore has
\* taken the database away; and no two writes are about the same file of an export.
THEOREM WritesStayInFlight == Spec => []WritesKeepTheirTicket
<1>1. Inv => WritesKeepTheirTicket
  <2>1. ASSUME Inv, NEW c \in calls, c.stage \in {"prepared", "replaced", "verified"}
        PROVE /\ c.epoch = epoch => c.ticket \in Held /\ Flying(c.ticket, c.page)
              /\ \A d \in calls :
                    d.stage \in {"prepared", "replaced", "verified"} /\ d.n = c.n /\ d.page = c.page
                    => d = c
    <3>1. Writes(c) /\ c.attempt > 0 /\ Placed(c)
      BY <2>1 DEF Inv, InPlace, Writes
    <3>2. ASSUME NEW d \in calls, Writes(d), d.n = c.n, d.page = c.page PROVE d = c
      <4>1. d.attempt > 0
        BY <2>1, <3>2 DEF Inv, InPlace
      <4>2. d.ticket = c.ticket
        BY <2>1, <3>1, <3>2, <4>1 DEF Inv, Ticketed
      <4> QED BY <2>1, <3>1, <3>2, <4>2 DEF Inv, InPlace, Same
    <3> QED BY <3>1, <3>2 DEF Placed, Writes
  <2> QED BY <2>1 DEF WritesKeepTheirTicket
<1> QED BY <1>1, InvHolds, PTL

\* Who is told that everything is saved finds every file with its receipt: what the
\* window has come past, and the last answer, unless the database has just been replaced.
LEMMA ToldSaved ==
    ASSUME Inv, [Next]_vars, told' = "saved", told # "saved", ~reloading
    PROVE \A p \in Page : <<flow.ticket, p>> \in receipts
<1>1. PageTypes /\ Ticketed /\ Recorded
  BY DEF Inv, Base
<1>2. AllSaved
  <2>1. CASE UpdateSide \/ CommandStep
    BY <2>1, UpdateSideShape, CommandFrame DEF page, window, export
  <2>2. CASE WindowActs
    <3>1. ~Click /\ ~ReadsOn /\ ~ReviewsOn /\ ~ApprovesOn /\ ~Chooses /\ ~RetriesOn
          /\ \A c \in calls : ~ReceivesOn(c) /\ ~SavesOn(c)
      BY DEF Click, ReadsOn, ReviewsOn, ApprovesOn, Chooses, RetriesOn, ReceivesOn, SavesOn
    <3> QED BY <1>1, <2>2, <3>1, WindowMoves
  <2>3. CASE WorldActs
    BY <2>3, WorldMoves
  <2>4. CASE UNCHANGED vars
    BY <2>4 DEF vars, window, export
  <2> QED BY <2>1, <2>2, <2>3, <2>4, Steps
<1>3. PICK c \in calls : /\ In("write") /\ Answered(c) /\ More = {}
                         /\ ~flow.unrecorded /\ c.result = "ok"
  BY <1>2 DEF AllSaved
<1>4. c.attempt > 0 /\ c.page = flow.page /\ c.stage = "answered" /\ c.ticket = flow.ticket
  BY <1>1, <1>3, WriteAwaited
<1>5. <<flow.ticket, flow.page>> \in receipts
  BY <1>1, <1>3, <1>4 DEF Recorded, AnsweredWell
<1>6. flow.page \in Page /\ \A p \in Page : p \in Nat /\ ~(p > flow.page)
  BY <1>1, <1>3, PagesPositive DEF PageTypes, More
<1>7. \A p \in Page : p < flow.page => <<flow.ticket, p>> \in receipts
  BY <1>1, <1>3 DEF Recorded
<1>8. \A p \in Page : p < flow.page \/ p = flow.page
  BY <1>6
<1> QED BY <1>5, <1>7, <1>8

\* "Saved", once told, is so: every file of the export has been verified on the disk and
\* its receipt stored (ui/app/workspace/exports.tsx, export_io.rs).
THEOREM SavedMeansRecorded == Spec => SavedIsRecorded
<1> DEFINE A == told' = "saved" /\ told # "saved" =>
                  reloading \/ \A p \in Page : <<flow.ticket, p>> \in receipts
<1>1. Inv /\ [Next]_vars => A
  BY ToldSaved
<1>2. Inv /\ [Next]_vars => [A]_vars
  BY <1>1
<1> HIDE DEF A
<1>3. Spec => [][A]_vars
  BY <1>2, InvHolds, PTL DEF Spec
<1> QED BY <1>3 DEF SavedIsRecorded, A

LEMMA FileWritten ==
    ASSUME Inv, [Next]_vars, NEW n \in Export, NEW p \in Page,
           files[n][p] # files'[n][p], files'[n][p] # Other
    PROVE /\ files'[n][p].cursor = approved[n]
          /\ \A c \in calls : c.n = n /\ c.page = p => <<c.ticket, p>> \notin receipts
<1>0. files \in [Export -> [Page -> Content \cup {None, Other}]] /\ PageTypes
  BY DEF Inv, Base, PageTypes
<1>1. CASE UpdateSide \/ WindowActs \/ UNCHANGED vars
  BY <1>1, UpdateSideShape, WindowFrame DEF page, vars
<1>2. CASE WorldActs
  <2>1. CASE \E m \in Export, q \in Page : FileChanges(m, q)
    <3>1. PICK m \in Export, q \in Page : files' = [files EXCEPT ![m][q] = Other]
      BY <2>1 DEF FileChanges
    <3>2. files'[n][p] = files[n][p] \/ files'[n][p] = Other
      BY <1>0, <3>1
    <3> QED BY <3>2
  <2>2. CASE files' = files
    BY <2>2
  <2> QED BY <1>2, <2>1, <2>2 DEF WorldActs, Edit, Interferes, Restores, Loads, TimePasses, Switches, around
<1>3. CASE CommandStep
  <2>1. PICK c \in calls : CommandActs(c)
    BY <1>3 DEF CommandStep, CommandActs
  <2>2. Writing(c, "prepared") /\ ~c.verify /\ files' = [files EXCEPT ![c.n][c.page] = c.content]
    BY <1>0, <2>1, CommandFiles
  <2>3. c.n \in Export /\ c.attempt # 0
    BY <1>0, <2>2 DEF PageTypes, Call, Writing
  <2>4. n = c.n /\ p = c.page /\ files'[n][p] = c.content
    BY <1>0, <2>2, <2>3
  <2>5. c.content.cursor = approved[n]
    BY <2>3, <2>4 DEF Inv, Reviewed, Cleared
  <2>6. <<c.ticket, c.page>> \notin receipts
    BY <2>2 DEF Inv, Unrecorded, ToWrite, Writing
  <2>7. ASSUME NEW d \in calls, d.n = n, d.page = p PROVE <<d.ticket, p>> \notin receipts
    <3>1. d.attempt > 0 /\ c.attempt > 0
      <4>1. d \in Call /\ (d.page = 0 <=> d.attempt = 0) /\ d.page # 0
        BY <1>0, <2>7, PagesPositive DEF PageTypes
      <4> QED BY <2>2, <4>1 DEF Call, Writing
    <3>2. d.ticket = c.ticket
      BY <2>4, <2>7, <3>1 DEF Inv, Ticketed
    <3> QED BY <2>4, <2>6, <3>2
  <2> QED BY <2>4, <2>5, <2>7
<1> QED BY <1>1, <1>2, <1>3, Steps

\* What the program writes on the disk is what the user has read in the review, at the
\* revision approved, and a file that has its receipt is not written again, whatever is
\* edited, switched, restored, lost or tried again meanwhile (rendering.rs freeze_export,
\* export_io.rs write_artifact).
THEOREM OnlyReviewedFilesAreWritten == Spec => FilesAreReviewed
<1> DEFINE A == \A n \in Export, p \in Page :
                  files[n][p] # files'[n][p] /\ files'[n][p] # Other =>
                    /\ files'[n][p].cursor = approved[n]
                    /\ \A c \in calls : c.n = n /\ c.page = p => <<c.ticket, p>> \notin receipts
<1>1. Inv /\ [Next]_vars => A
  BY FileWritten
<1>2. Inv /\ [Next]_vars => [A]_vars
  BY <1>1
<1> HIDE DEF A
<1>3. Spec => [][A]_vars
  BY <1>2, InvHolds, PTL DEF Spec
<1> QED BY <1>3 DEF FilesAreReviewed, A

=============================================================================
