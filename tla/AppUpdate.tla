------------------------------ MODULE AppUpdate ------------------------------
(***************************************************************************)
(* The host of updates: src-tauri/src/app_update.rs with its trust.rs and   *)
(* download.rs.  One phase under one lock admits or refuses everything: a    *)
(* check, a download with its generation and the handle that aborts it, an    *)
(* installation, and the commands of an export, which are counted.           *)
(*                                                                         *)
(* The commands are asynchronous: each is split where it waits or where it    *)
(* lets go of the lock.  A release is its version; the bytes of the cache are  *)
(* those of the version it names or Damaged, and what authenticates them is    *)
(* that they are not.  A build without an endpoint, the texts of a release     *)
(* and the progress of a download are left out.  An installation that exits    *)
(* the process ends the behaviour.                                            *)
(***************************************************************************)
EXTENDS Naturals

CONSTANTS
    Release,     \* the versions newer than the one that runs
    Install,     \* the calls of app_update_install
    Damaged,     \* what a cache holds that has been tampered with
    None

ASSUME ReleasesAssumption == None \notin Release \cup Install /\ Damaged \notin Release \cup {None}

VARIABLES
    phase,       \* the phase, with the target it names
    pending,     \* the version of the Update that the last check found
    cache,       \* the bytes in updater-cache, or none
    generation,  \* download_generation
    task,        \* download_task: the generation whose abort handle is held, 0 for none
    checking,    \* the check under way, with the target it found ready
    downloads,   \* the calls of app_update_download under way
    installs,    \* where each call of app_update_install is
    flights,     \* export_flight
    exited       \* the process has made way for the installer

update == <<phase, pending, cache, generation, task, checking, downloads, installs>>

Target == [version: Release, cached: BOOLEAN]

Phases == [name: {"idle", "upToDate", "checking"}]
          \cup [name: {"available", "downloading", "ready", "installing"}, target: Target]

At(name, target) == [name |-> name, target |-> target]

\* A call of app_update_download: what it is for, its Update, whether its task
\* has been told to stop.
Download == [generation: Nat, version: Release, update: Release \cup {None},
             stage: {"begun", "spawned", "running", "over"}, aborted: BOOLEAN]

NotAsked == [stage |-> "idle"]

Installation == {NotAsked} \cup
    [stage: {"waiting", "settled", "verified", "unverified", "grace"}, version: Release]

\* new and restore_cached_update.
UpdateInit ==
    /\ cache \in Release \cup {None}
    /\ phase = IF cache = None THEN [name |-> "idle"]
               ELSE At("available", [version |-> cache, cached |-> TRUE])
    /\ pending = None
    /\ generation = 0 /\ task = 0
    /\ checking = None
    /\ downloads = {}
    /\ installs = [i \in Install |-> NotAsked]
    /\ flights = 0
    /\ exited = FALSE

Phase(names) == phase.name \in names

-----------------------------------------------------------------------------
(* The commands of an export.                                              *)

\* ExportFlightGuard::acquire, and its drop.
Admits == ~Phase({"installing"})
Admitted == Admits /\ flights' = flights + 1
Landed == flights' = flights - 1

-----------------------------------------------------------------------------
(* A check.                                                                *)

\* app_update_check up to its request.
CheckBegins ==
    /\ ~Phase({"checking", "downloading", "installing"})
    /\ checking' = [kept |-> IF Phase({"ready"}) THEN phase.target ELSE None]
    /\ phase' = [name |-> "checking"]
    /\ UNCHANGED <<pending, cache, generation, task, downloads, installs, flights, exited>>

\* The answer; nothing else changes the phase while it says Checking.
CheckAnswers(newest, next) ==
    /\ checking # None
    /\ checking' = None
    /\ pending' = newest
    /\ phase' = next
    /\ UNCHANGED <<cache, generation, task, downloads, installs, flights, exited>>

\* What is announced compares equal to what was ready only if neither was cached.
CheckFinds(version) ==
    LET found == [version |-> version, cached |-> FALSE]
    IN  CheckAnswers(version, At(IF checking.kept = found THEN "ready" ELSE "available", found))

CheckFindsNothing == CheckAnswers(None, [name |-> "upToDate"])

CheckFails == CheckAnswers(pending, [name |-> "idle"])

-----------------------------------------------------------------------------
(* A download.                                                             *)

\* app_update_download, the phase that lets it begin.
DownloadBegins ==
    /\ Phase({"available"})
    /\ generation' = generation + 1
    /\ phase' = At("downloading", phase.target)
    /\ downloads' = downloads \cup
          {[generation |-> generation', version |-> phase.target.version,
            update |-> None, stage |-> "begun", aborted |-> FALSE]}
    /\ UNCHANGED <<pending, cache, task, checking, installs, flights, exited>>

\* download_is_current.
Current(d) == d.generation = generation /\ Phase({"downloading"})

\* set_download_status and complete_download.
StatusSet(d, next) == phase' = IF Current(d) THEN next ELSE phase

Goes(d, stage) == downloads' = (downloads \ {d}) \cup {[d EXCEPT !.stage = stage]}

Ended(d) == downloads' = downloads \ {d}

\* There is no Update to download from.
DownloadWithoutUpdate(d) ==
    /\ d.stage = "begun" /\ pending = None
    /\ StatusSet(d, At("available", phase.target))
    /\ Ended(d)
    /\ UNCHANGED <<pending, cache, generation, task, checking, installs, flights, exited>>

\* The bytes are there already, and authentic.
DownloadFromCache(d) ==
    /\ d.stage = "begun" /\ pending # None
    /\ cache = d.version /\ pending = d.version
    /\ StatusSet(d, At("ready", [version |-> d.version, cached |-> TRUE]))
    /\ Ended(d)
    /\ UNCHANGED <<pending, cache, generation, task, checking, installs, flights, exited>>

\* The task is spawned with the Update of this moment.
DownloadSpawns(d) ==
    /\ d.stage = "begun" /\ pending # None
    /\ ~(cache = d.version /\ pending = d.version)
    /\ downloads' = (downloads \ {d}) \cup {[d EXCEPT !.stage = "spawned", !.update = pending]}
    /\ UNCHANGED <<phase, pending, cache, generation, task, checking, installs, flights, exited>>

\* register_download: the handle is held, or used at once.
DownloadRegisters(d) ==
    /\ d.stage = "spawned"
    /\ IF Current(d) THEN task' = d.generation /\ Goes(d, "running")
       ELSE /\ downloads' = (downloads \ {d}) \cup
                  {[d EXCEPT !.stage = "running", !.aborted = TRUE]}
            /\ UNCHANGED task
    /\ UNCHANGED <<phase, pending, cache, generation, checking, installs, flights, exited>>

Transferring(d) == d.stage = "running"

\* The bytes have come, and complete_download takes them: they may not fit on the
\* disk.  A task told to stop may be past stopping.
DownloadCompletes(d) ==
    /\ Transferring(d)
    /\ \/ /\ Current(d)
          /\ cache' = d.update
          /\ phase' = At("ready", [version |-> d.version, cached |-> TRUE])
       \/ /\ Current(d)
          /\ phase' = At("available", [version |-> d.version, cached |-> FALSE])
          /\ UNCHANGED cache
       \/ ~Current(d) /\ UNCHANGED <<phase, cache>>
    /\ Goes(d, "over")
    /\ UNCHANGED <<pending, generation, task, checking, installs, flights, exited>>

\* The transfer fails, or is stopped.
DownloadFails(d) ==
    /\ Transferring(d)
    /\ IF d.aborted THEN UNCHANGED phase ELSE StatusSet(d, At("available", phase.target))
    /\ Goes(d, "over")
    /\ UNCHANGED <<pending, cache, generation, task, checking, installs, flights, exited>>

\* Mutant: whatever handle is held is dropped.
RetiresAny(d) == TRUE

\* retire_download.
Retires(d) == task = d.generation

DownloadReturns(d) ==
    /\ d.stage = "over"
    /\ task' = IF Retires(d) THEN 0 ELSE task
    /\ Ended(d)
    /\ UNCHANGED <<phase, pending, cache, generation, checking, installs, flights, exited>>

\* app_update_cancel_download: the handle held is used, and no later step of the
\* download counts.  The code uses it just after it has unlocked the phase; what the
\* task does in between is what a task past stopping does.
CancelDownload ==
    /\ Phase({"downloading"})
    /\ downloads' = {[d EXCEPT !.aborted = @ \/ (task # 0 /\ d.generation = task)] : d \in downloads}
    /\ task' = 0
    /\ generation' = generation + 1
    /\ phase' = At("available", phase.target)
    /\ UNCHANGED <<pending, cache, checking, installs, flights, exited>>

\* Something outside the program changes the cache, or takes it away.
CacheSpoils ==
    /\ cache # None
    /\ cache' \in {None, Damaged} \ {cache}
    /\ UNCHANGED <<phase, pending, generation, task, checking, downloads, installs, flights, exited>>

-----------------------------------------------------------------------------
(* An installation.                                                        *)

InstallGoes(i, stage) == installs' = [installs EXCEPT ![i].stage = stage]

InstallEnds(i) == installs' = [installs EXCEPT ![i] = NotAsked]

\* app_update_install, the first gate.
InstallBegins(i) ==
    /\ installs[i] = NotAsked
    /\ Phase({"ready"})
    /\ installs' = [installs EXCEPT ![i] = [stage |-> "waiting", version |-> phase.target.version]]
    /\ UNCHANGED <<phase, pending, cache, generation, task, checking, downloads, flights, exited>>

\* wait_for_export_settle: every export command is over, or it gives up.
InstallWaits(i) ==
    /\ installs[i].stage = "waiting"
    /\ IF flights = 0 THEN InstallGoes(i, "settled") ELSE InstallEnds(i)
    /\ UNCHANGED <<phase, pending, cache, generation, task, checking, downloads, flights, exited>>

\* The bytes of the cache must be those of the version asked for, and the Update too.
InstallVerifies(i) ==
    /\ installs[i].stage = "settled"
    /\ InstallGoes(i, IF cache = installs[i].version /\ pending = installs[i].version
                      THEN "verified" ELSE "unverified")
    /\ UNCHANGED <<phase, pending, cache, generation, task, checking, downloads, flights, exited>>

\* This very version is still the one that is ready.
StillReady(i) == Phase({"ready"}) /\ phase.target.version = installs[i].version

\* The cache is of no use: it is cleared, unless it is now another's.
InstallRefused(i) ==
    /\ installs[i].stage = "unverified"
    /\ IF StillReady(i)
       THEN cache' = None /\ phase' = At("available", phase.target)
       ELSE UNCHANGED <<cache, phase>>
    /\ InstallEnds(i)
    /\ UNCHANGED <<pending, generation, task, checking, downloads, flights, exited>>

\* Mutant: the exports are not counted again after the cache has been read.
EntersUncounted(i) == StillReady(i)

\* install_phase, with the exports that are in flight now.
Enters(i) == StillReady(i) /\ flights = 0

\* The second gate.
InstallEnters(i) ==
    /\ installs[i].stage = "verified"
    /\ IF Enters(i)
       THEN /\ phase' = At("installing", phase.target)
            /\ InstallGoes(i, "grace")
       ELSE InstallEnds(i) /\ UNCHANGED phase
    /\ UNCHANGED <<pending, cache, generation, task, checking, downloads, flights, exited>>

\* The installer is started and the process exits.
InstallExits(i) ==
    /\ installs[i].stage = "grace"
    /\ exited' = TRUE
    /\ UNCHANGED <<update, flights>>

\* The installer cannot be started: retract_installing.
InstallFails(i) ==
    /\ installs[i].stage = "grace"
    /\ phase' = IF Phase({"installing"})
                THEN At("ready", [version |-> installs[i].version, cached |-> TRUE]) ELSE phase
    /\ InstallEnds(i)
    /\ UNCHANGED <<pending, cache, generation, task, checking, downloads, flights, exited>>

-----------------------------------------------------------------------------
(* What the commands do by themselves once they have been called.          *)
UpdateStep ==
    \/ \E v \in Release : CheckFinds(v)
    \/ CheckFindsNothing
    \/ CheckFails
    \/ \E d \in downloads :
          \/ DownloadWithoutUpdate(d)
          \/ DownloadFromCache(d)
          \/ DownloadSpawns(d)
          \/ DownloadRegisters(d)
          \/ DownloadCompletes(d)
          \/ DownloadFails(d)
          \/ DownloadReturns(d)
    \/ \E i \in Install :
          \/ InstallWaits(i)
          \/ InstallVerifies(i)
          \/ InstallRefused(i)
          \/ InstallEnters(i)
          \/ InstallExits(i)
          \/ InstallFails(i)

\* What the user, or the daily check, calls.
UpdateCall ==
    \/ CheckBegins
    \/ DownloadBegins
    \/ CancelDownload
    \/ CacheSpoils

-----------------------------------------------------------------------------
UpdateTypeOK ==
    /\ phase \in Phases
    /\ pending \in Release \cup {None}
    /\ cache \in Release \cup {Damaged, None}
    /\ generation \in Nat /\ task \in Nat
    /\ checking \in [kept: Target \cup {None}] \cup {None}
    /\ downloads \subseteq Download
    /\ installs \in [Install -> Installation]
    /\ flights \in Nat
    /\ exited \in BOOLEAN
=============================================================================
