-------------------------- MODULE DraftPersistence --------------------------
(***************************************************************************)
(* How the text in the editor reaches the host: the autosave hook, its      *)
(* queue, and the operations that must find everything typed saved before   *)
(* they begin (src/platform/useNativeResumePersistence.ts, workspace.ts,    *)
(* and their callers in useNativeResumeVersions.ts, proposals.tsx and       *)
(* documents.tsx).                                                          *)
(*                                                                         *)
(* Every edit makes a new working snapshot, with the target captured when   *)
(* it is rendered.  A debounced save, a retry or a flush puts the snapshot  *)
(* of that moment on the queue, which runs one job at a time; a version     *)
(* action waits on the same queue, a proposal and an import do not.  The    *)
(* user types on at any step.                                              *)
(*                                                                         *)
(* The client is NativeDocumentClient with each call and its reply as one   *)
(* step: lost replies are that module's.  A draft's content is the set of   *)
(* the edits in it, and a save sends one command for each that differs.     *)
(* One operation is started at a time; those that confirm a proposal or     *)
(* change the document are left out.                                        *)
(***************************************************************************)
EXTENDS Naturals, Sequences

CONSTANTS
    Edit,             \* what the user may type, each once
    Stored,           \* what another branch or commit holds
    Proposed,         \* what a confirmed proposal has added
    Imported,         \* what an import adds
    Foreign,          \* what another window writes
    None,             \* no value
    Situations,       \* bounds: what may happen, see situation
    MaxOperations,    \* bound: operations started
    MaxAttempts,      \* attempts of a flush (8 in the code)
    Room              \* bound: jobs on the queue

Versions == {"commit", "load"}
Operations == Versions \cup {"undo", "import", "close"}

ASSUME Assumption ==
    /\ Situations \subseteq [edits: SUBSET Edit, kinds: SUBSET Operations,
                              mayFail: BOOLEAN, mayInterfere: BOOLEAN]
    /\ MaxOperations \in Nat /\ Room \in Nat /\ MaxAttempts \in Nat \ {0}

VARIABLES
    host,       \* the draft of the host
    known,      \* the client's confirmed state
    session,    \* the client's session epoch
    failure,    \* the client's failed command
    shown,      \* workingSnapshot
    target,     \* workingTarget
    dirty,      \* dirty
    timer,      \* pendingTimer
    label,      \* the save state the user sees
    queue,      \* persistTail
    operation,  \* the operation in progress
    started,    \* not in the code: operations started
    closed,     \* the window has been destroyed
    situation   \* not in the code: what the user may type and start, whether calls may
                \* fail, whether another window edits the draft

vars == <<host, known, session, failure, shown, target, dirty, timer, label, queue,
          operation, started, closed, situation>>

\* The operations the user may start.
Kinds == situation.kinds

\* Nobody else edits the draft, and nothing but what is typed changes what is shown.
OneWindow == Kinds \subseteq {"commit", "close"} /\ ~situation.mayInterfere

Content == SUBSET (Edit \cup {Stored, Proposed, Imported, Foreign})

\* A draft: its lineage (branch and head), revision and content.
Draft == [lineage: Nat, revision: Nat, content: Content]

\* DocumentTarget.
Target == [lineage: Nat, revision: Nat, session: Nat]

\* A snapshot object: its identity and content.
Snapshot == [id: Nat, content: Content]

\* The envelope in doubt: the revision it expects and the content it leads to.
Envelope == [revision: Nat, content: Content]

\* A job on the queue: a save, perhaps a flush's, or a version action.
Job == [kind: {"save", "action"}, snapshot: Snapshot, target: Target,
        flush: BOOLEAN, begun: BOOLEAN]

Idle == [kind |-> "none", phase |-> "idle", attempt |-> 0, loaded |-> None]

Operation ==
    [kind: Operations, phase: {"flush", "wait", "act", "reload", "hydrate", "again"},
     attempt: 1 .. MaxAttempts, loaded: Draft] \cup {Idle}

Labels == {"saving", "retrying", "saved", "failed", "conflict"}

-----------------------------------------------------------------------------
(* The client.                                                             *)

SameCursor(a, b) == a.lineage = b.lineage /\ a.revision = b.revision

Captured == [lineage |-> known.lineage, revision |-> known.revision, session |-> session]

\* assertTarget.
TargetHolds(t) ==
    t.lineage = known.lineage /\ t.session = session /\ t.revision <= known.revision

\* Mutant: the host takes a command whatever revision it expects.
SentAnyway(envelope) ==
    /\ host' = [host EXCEPT !.revision = @ + 1, !.content = envelope.content]
    /\ known' = host'
    /\ failure' = None
    /\ UNCHANGED session

\* A command is sent; on success host and client both have its outcome.
Sent(envelope) ==
    /\ envelope.revision = host.revision
    /\ host' = [host EXCEPT !.revision = @ + 1, !.content = envelope.content]
    /\ known' = host'
    /\ failure' = None
    /\ UNCHANGED session

\* The failure is a conflict, which no retry can mend.
Conflicting(envelope) == envelope.revision # host.revision

\* reload: a new lineage is a new session.
Reloaded ==
    /\ failure = None
    /\ known' = host
    /\ session' = IF host.lineage # known.lineage THEN session + 1 ELSE session
    /\ UNCHANGED <<host, failure>>

client == <<host, known, session, failure>>

-----------------------------------------------------------------------------
(* The hook.                                                               *)

\* A new working snapshot is rendered: the target is captured, the save timer
\* starts again.
Render(content) ==
    /\ shown' = [id |-> shown.id + 1, content |-> content]
    /\ target' = Captured'
    /\ dirty' = TRUE
    /\ timer' = TRUE
    /\ label' = "saving"

editor == <<shown, target, dirty, timer, label>>

Type(e) ==
    /\ ~closed
    /\ e \in situation.edits \ shown.content
    /\ UNCHANGED <<client, queue, operation, started, closed, situation>>
    /\ Render(shown.content \cup {e})

SaveJob(flush) ==
    [kind |-> "save", snapshot |-> shown, target |-> target, flush |-> flush, begun |-> FALSE]

ActionJob == [SaveJob(FALSE) EXCEPT !.kind = "action"]

\* The debounced save.
TimerFires ==
    /\ ~closed /\ timer
    /\ Len(queue) < Room
    /\ timer' = FALSE
    /\ queue' = Append(queue, SaveJob(FALSE))
    /\ UNCHANGED <<client, shown, target, dirty, label, operation, started, closed, situation>>

\* retryDraft, which the user is offered when a save has failed.
Retry ==
    /\ ~closed /\ label = "failed"
    /\ Len(queue) < Room
    /\ label' = "retrying"
    /\ queue' = Append(queue, SaveJob(FALSE))
    /\ UNCHANGED <<client, shown, target, dirty, timer, operation, started, closed, situation>>

Job1 == Head(queue)

Saving == ~closed /\ queue # <<>> /\ Job1.kind = "save"

\* executePersist takes its turn; a target that no longer holds ends it at once.
BeginSave ==
    /\ Saving /\ ~Job1.begun
    /\ TargetHolds(Job1.target)
    /\ queue' = [queue EXCEPT ![1].begun = TRUE]
    /\ label' = "saving"
    /\ UNCHANGED <<client, shown, target, dirty, timer, operation, started, closed, situation>>

\* nextDocumentCommand: a step towards the content wanted.
NextCommands(wanted) ==
    [revision: {known.revision},
     content: {known.content \cup {x} : x \in wanted \ known.content}
              \cup {known.content \ {x} : x \in known.content \ wanted}]

\* What a save may send next: the command in doubt first (retryFailed).
ToSend == IF failure # None THEN {failure} ELSE NextCommands(Job1.snapshot.content)

SendCommand ==
    /\ Saving /\ Job1.begun
    /\ TargetHolds(Job1.target)
    /\ \E envelope \in ToSend : Sent(envelope)
    /\ UNCHANGED <<editor, queue, operation, started, closed, situation>>

\* Mutant: a flush is done when its own snapshot is saved.
FlushedOnce == TRUE

\* Nothing was typed while a save was under way.
Unchanged == shown = Job1.snapshot /\ target = Job1.target

\* Mutant: the queue stops at a job that fails.
LeaveOnSuccess(ok) == IF ok THEN Tail(queue) ELSE queue

\* serializePersistAction: the next job runs, whether this one succeeded or not.
Leave(ok) == Tail(queue)

\* The operation a flush was for goes on, a version action after the jobs that
\* are waiting.
Proceed(rest, op) ==
    IF op.kind \in Versions
    THEN /\ operation' = [op EXCEPT !.phase = "wait"]
         /\ queue' = Append(rest, ActionJob)
    ELSE /\ operation' = [op EXCEPT !.phase = "act"]
         /\ queue' = rest

\* flushDraft: saved, it goes on; with more typed meanwhile it saves again.
AfterFlush(ok) ==
    IF ok /\ Unchanged THEN Proceed(Leave(ok), operation)
    ELSE IF ok /\ operation.attempt < MaxAttempts
    THEN /\ operation' = [operation EXCEPT !.attempt = @ + 1]
         /\ queue' = Append(Leave(ok), SaveJob(TRUE))
    ELSE operation' = Idle /\ queue' = Leave(ok)

\* A job is over; if it was a flush, its operation goes on.
Over(ok) ==
    /\ IF Job1.flush THEN AfterFlush(ok)
       ELSE queue' = Leave(ok) /\ UNCHANGED operation
    /\ UNCHANGED <<host, known, session, shown, target, timer, started, closed, situation>>

\* Mutant: a save that ends leaves nothing to do.
Forgotten == FALSE

\* What was typed during the save is still to be saved.
StillDirty == dirty /\ ~Unchanged

\* The save has nothing left to send.
SaveDone ==
    /\ Saving /\ Job1.begun
    /\ TargetHolds(Job1.target)
    /\ failure = None /\ known.content = Job1.snapshot.content
    /\ dirty' = StillDirty
    /\ Over(TRUE)
    /\ UNCHANGED failure
    /\ label' = IF Job1.flush /\ ~Unchanged /\ operation.attempt = MaxAttempts
                THEN "failed" ELSE "saved"

\* A save whose target is gone ends without a word: "document-target-changed".
SaveOutOfPlace ==
    /\ Saving
    /\ ~TargetHolds(Job1.target)
    /\ Over(FALSE)
    /\ UNCHANGED <<failure, dirty, label>>

\* A command fails, and the save with it, or the avatar cannot be stored.
SaveFails ==
    /\ Saving /\ Job1.begun
    /\ TargetHolds(Job1.target)
    /\ \E envelope \in ToSend :
          \/ situation.mayFail /\ failure' \in {failure, envelope} /\ label' = "failed"
          \/ Conflicting(envelope) /\ failure' = envelope /\ label' = "conflict"
    /\ Over(FALSE)
    /\ UNCHANGED dirty

-----------------------------------------------------------------------------
(* The operations.                                                         *)

\* flushDraftBeforeVersionAction: all that is typed is saved first.  A flush with
\* nothing to save only waits for the queue, whose saves then are of what is saved
\* already and take no time.  An import is for the state it starts in.
Start(kind) ==
    LET op == [kind |-> kind, phase |-> "flush", attempt |-> 1, loaded |-> known]
    IN  /\ ~closed /\ operation = Idle
        /\ started < MaxOperations /\ started' = started + 1
        /\ kind = "undo" => Proposed \in known.content
        /\ Len(queue) < Room
        /\ IF dirty
           THEN operation' = op /\ queue' = Append(queue, SaveJob(TRUE))
           ELSE queue = <<>> /\ failure = None /\ Proceed(queue, op)
        /\ timer' = FALSE
        /\ UNCHANGED <<client, shown, target, dirty, label, closed, situation>>

In(kinds, phase) == ~closed /\ operation.kind \in kinds /\ operation.phase = phase

\* The operation is over, and with it the job a version action runs in.
Finish(ok) ==
    /\ operation' = Idle
    /\ queue' = IF operation.kind \in Versions THEN Leave(ok) ELSE queue

\* A version action's turn on the queue.
TakeTurn ==
    /\ In(Versions, "wait")
    /\ Job1.kind = "action"
    /\ operation' = [operation EXCEPT !.phase = "act"]
    /\ UNCHANGED <<client, editor, queue, started, closed, situation>>

Then(phase) ==
    /\ operation' = [operation EXCEPT !.phase = phase]
    /\ UNCHANGED queue

\* The host carries out a commit, enters another branch or commit, or undoes a
\* proposal; it compares cursors.
Act ==
    /\ In({"commit", "load", "undo"}, "act")
    /\ SameCursor(known, host)
    /\ host' = CASE operation.kind = "commit" ->
                      [host EXCEPT !.lineage = @ + 1, !.revision = @ + 1]
                 [] operation.kind = "load" ->
                      [lineage |-> host.lineage + 1, revision |-> host.revision + 1,
                       content |-> {Stored}]
                 [] operation.kind = "undo" ->
                      [host EXCEPT !.revision = @ + 1, !.content = @ \ {Proposed}]
    /\ Then("reload")
    /\ UNCHANGED <<known, session, failure, editor, started, closed, situation>>

\* reload and reloadWorkspaceState; a commit keeps what is shown.
Reload ==
    /\ In({"commit", "load", "undo"}, "reload")
    /\ Reloaded
    /\ IF operation.kind = "commit" THEN Finish(TRUE)
       ELSE /\ operation' = [operation EXCEPT !.phase = "hydrate", !.loaded = known']
            /\ UNCHANGED queue
    /\ UNCHANGED <<editor, started, closed, situation>>

ImportRequest ==
    [revision |-> known.revision, content |-> known.content \cup {Imported}]

\* The state the operation was for is still the client's.
StillFor(state) == SameCursor(known, state)

\* applyImport goes through the client, for the state it started in: a flush that
\* had something to save has changed it.
Import ==
    /\ In({"import"}, "act")
    /\ StillFor(operation.loaded)
    /\ failure = None
    /\ Sent(ImportRequest)
    /\ operation' = [operation EXCEPT !.phase = "hydrate", !.loaded = known']
    /\ UNCHANGED <<editor, queue, started, closed, situation>>

\* The avatar of the loaded state has been read.  Is it still the state?
StillLoaded ==
    /\ known.lineage = operation.loaded.lineage
    /\ operation.kind # "import" => StillFor(operation.loaded)

\* applyVersionSnapshot: what was loaded takes the place of what is shown.
Apply ==
    /\ In({"load", "undo", "import"}, "hydrate")
    /\ StillLoaded
    /\ UNCHANGED <<client, started, closed, situation>>
    /\ Render(operation.loaded.content)
    /\ IF operation.kind = "load" THEN Then("again") ELSE Finish(TRUE)

\* runVersionAction reloads once more.
ReloadAgain ==
    /\ In({"load"}, "again")
    /\ Reloaded
    /\ Finish(TRUE)
    /\ UNCHANGED <<editor, started, closed, situation>>

\* A call fails, or what came back is out of date: the user is told.
GiveUp ==
    /\ ~closed
    /\ \/ situation.mayFail /\ operation.phase \in {"act", "reload", "hydrate", "again"}
       \/ operation.phase = "act" /\ ~SameCursor(known, host)
       \/ operation.phase \in {"reload", "again"} /\ failure # None
       \/ In({"import"}, "act") /\ (failure # None \/ ~StillFor(operation.loaded))
       \/ operation.phase = "hydrate" /\ ~StillLoaded
    /\ IF In({"import"}, "act") /\ failure = None /\ StillFor(operation.loaded)
       THEN failure' = ImportRequest
       ELSE UNCHANGED failure
    /\ Finish(FALSE)
    /\ UNCHANGED <<host, known, session, editor, started, closed, situation>>

\* onCloseRequested: everything is saved, the window goes.
Close ==
    /\ In({"close"}, "act")
    /\ closed' = TRUE
    /\ Finish(TRUE)
    /\ UNCHANGED <<client, editor, started, situation>>

\* Another window edits the draft.
Interfere ==
    /\ situation.mayInterfere
    /\ Foreign \notin host.content
    /\ host' = [host EXCEPT !.revision = @ + 1, !.content = @ \cup {Foreign}]
    /\ UNCHANGED <<known, session, failure, editor, queue, operation, started, closed, situation>>

Init ==
    /\ host = [lineage |-> 0, revision |-> 0, content |-> {Proposed}]
    /\ known = host
    /\ session = 0
    /\ failure = None
    /\ shown = [id |-> 0, content |-> {Proposed}]
    /\ target = [lineage |-> 0, revision |-> 0, session |-> 0]
    /\ dirty = TRUE /\ timer = TRUE /\ label = "saving"
    /\ queue = <<>>
    /\ operation = Idle
    /\ started = 0
    /\ closed = FALSE
    /\ situation \in Situations

QueueStep ==
    \/ BeginSave
    \/ SendCommand
    \/ SaveDone
    \/ SaveOutOfPlace
    \/ SaveFails

OperationStep ==
    \/ TakeTurn
    \/ Act
    \/ Reload
    \/ Import
    \/ Apply
    \/ ReloadAgain
    \/ GiveUp
    \/ Close

Next ==
    \/ \E e \in Edit : Type(e)
    \/ TimerFires
    \/ Retry
    \/ QueueStep
    \/ \E kind \in Kinds : Start(kind)
    \/ OperationStep
    \/ Interfere

Spec == Init /\ [][Next]_vars

\* Timers fire, and promises settle: every call returns or fails.
FairSpec ==
    /\ Spec
    /\ WF_vars(TimerFires)
    /\ WF_vars(QueueStep)
    /\ WF_vars(OperationStep)

-----------------------------------------------------------------------------
TypeOK ==
    /\ host \in Draft /\ known \in Draft
    /\ session \in Nat
    /\ failure \in Envelope \cup {None}
    /\ shown \in Snapshot /\ target \in Target
    /\ dirty \in BOOLEAN /\ timer \in BOOLEAN /\ label \in Labels
    /\ queue \in Seq(Job)
    /\ operation \in Operation
    /\ started \in 0 .. MaxOperations /\ closed \in BOOLEAN
    /\ situation \in Situations

\* In one window, a commit or a close only begins when everything that is shown
\* has been saved, however fast the user types during the flush.
OperationsFindEverythingSaved ==
    [][OneWindow /\ operation.phase \in {"idle", "flush"} /\ operation.phase' \in {"wait", "act"}
       => known.content' = shown.content']_vars

\* In one window, what the hook takes for saved is saved: with dirty false, a flush skips the
\* snapshot altogether.
CleanMeansSaved ==
    OneWindow /\ ~dirty /\ operation = Idle => shown.content = known.content

\* A save never takes away what another window has written and this one has not
\* seen.
UnseenChangesSurvive ==
    [][(Foreign \notin known.content /\ Foreign \in host.content)
       => Foreign \in host.content']_vars

\* Every operation comes to an end.
OperationsEnd == operation # Idle ~> operation = Idle

Settled(e) ==
    \/ closed
    \/ e \notin shown.content
    \/ e \in host.content
    \/ label \in {"failed", "conflict"}

\* Whatever is typed is saved in the end, unless the user is told that it is not
\* or has it replaced.
EveryEditIsSettled ==
    \A e \in Edit : e \in shown.content ~> Settled(e)

\* Undoing a proposal or importing keeps what was typed since
\* (proposals.tsx:387, documents.tsx:128).
LaterEditsStay ==
    [][operation.kind \in {"undo", "import"} => shown.content \cap Edit \subseteq shown.content']_vars
=============================================================================
