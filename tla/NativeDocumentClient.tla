------------------------ MODULE NativeDocumentClient ------------------------
(***************************************************************************)
(* The window's client of the host's document: a queue that sends one call  *)
(* at a time, keeps the last state the host confirmed, and holds on to a    *)
(* command whose fate it does not know.                                     *)
(* src/platform/NativeDocumentClient.ts, with as much of the host as it     *)
(* sees (src-tauri/src/commands/documents.rs over storage/drafts.rs).       *)
(*                                                                         *)
(* A call may fail before the host does anything, or be carried out and its *)
(* reply lost; the client cannot tell which.  Between its calls others      *)
(* change the same documents: version commands and proposals of this        *)
(* window, which go to the host directly, and other windows.  The page may  *)
(* be reloaded at any time, and then everything the client knew is gone.    *)
(*                                                                         *)
(* A cursor's branch and head are one number, the revision that brought     *)
(* them; a draft's content is the set of the commands in it.  The client's  *)
(* checks that no other operation ran while it waited (epoch, prior) never  *)
(* refuse here, because the queue runs one operation at a time.             *)
(***************************************************************************)
EXTENDS Naturals, Sequences

CONSTANTS
    Document, Context,
    Start, Home,          \* the document and the context at first
    Command,              \* command ids, each of one edit or import
    Other,                \* an edit by someone else
    None, Asked, Failed,  \* no value; a call under way; a call that failed
    Room,                 \* bound: operations waiting in the queue
    MaxRevision,          \* bound: revisions of a document
    MaxEpoch,             \* bound: host epochs
    MaxSession            \* bound: session epochs after which only edits are queued

Content == SUBSET (Command \cup {Other})

\* What document_state returns: the cursor, the content and the host epoch.
State == [document: Document, context: Context, head: Nat, revision: Nat,
          content: Content, epoch: Nat]

\* DocumentTarget, with the host epoch its caller had.
Target == [document: Document, context: Context, head: Nat, revision: Nat,
           epoch: Nat, session: Nat]

Change == {"submit", "import"}
Kind == Change \cup {"load", "reload", "switch", "context"}

\* A queued operation: the command of a change, the destination of a switch.
Operation ==
    {op \in [kind: Kind, id: Command \cup {None}, target: Target \cup {None},
             dest: Document \cup Context \cup {None}] :
        /\ op.kind \in Change => op.id \in Command
        /\ op.kind = "switch" => op.dest \in Document
        /\ op.kind = "context" => op.dest \in Context}

\* CommandEnvelope and ApplyImportRequest.
Envelope == [kind: Change, id: Command, document: Document, context: Context,
             head: Nat, revision: Nat]

\* An operation under way.  answer is what the first of its two calls said.
Running == [op: Operation, retry: BOOLEAN, answer: State \cup {None}]

Fate == {"unknown", "made", "scheduled", "acked", "rejected", "gone"}

ASSUME ConstantsAssumption ==
    /\ Start \in Document /\ Home \in Context
    /\ Other \notin Command
    /\ Room \in Nat /\ MaxRevision \in Nat /\ MaxEpoch \in Nat /\ MaxSession \in Nat

ASSUME ValuesAssumption ==
    /\ None \notin State \cup Target \cup Envelope \cup Running \cup Command
    /\ {None, Asked, Failed} \cap State = {}
    /\ Asked # None /\ Asked # Failed /\ Failed # None

VARIABLES
    active, hostEpoch,  \* the host's active document and epoch
    docs,               \* the host's documents
    receipts,           \* command_receipts: the stored result of a command
    current,            \* the client's last confirmed state
    sessionEpoch,       \* the client's lineage counter
    failed,             \* whether a command is in doubt
    unresolved,         \* failedEnvelope or failedImportRequest
    status,             \* saveStatus
    tail,               \* the operations waiting
    running,            \* the operation being carried out
    call,               \* its call: None, Asked, Failed or the reply
    made,               \* not in the code: the target each edit was made on
    fate,               \* not in the code: what the caller of a command knows
    touched             \* not in the code: others changed what the client has

host == <<active, hostEpoch, docs, receipts>>
client == <<current, sessionEpoch, failed, unresolved, status, tail, running, call>>
vars == <<host, client, made, fate, touched>>

-----------------------------------------------------------------------------
(* The host.                                                               *)

Row == [context: Context, revision: Nat, heads: [Context -> Nat],
        drafts: [Context -> Content]]

\* load_active_document.
HostState ==
    LET row == docs[active]
    IN  [document |-> active, context |-> row.context, head |-> row.heads[row.context],
         revision |-> row.revision, content |-> row.drafts[row.context],
         epoch |-> hostEpoch]

SameCursor(a, b) ==
    /\ a.document = b.document /\ a.context = b.context
    /\ a.head = b.head /\ a.revision = b.revision

\* Every change of the active document advances its revision.
Advance(context, heads, drafts) ==
    LET revision == docs[active].revision
    IN  /\ revision < MaxRevision
        /\ docs' = [docs EXCEPT ![active] =
                      [context |-> context, revision |-> revision + 1,
                       heads |-> heads, drafts |-> drafts]]

\* An edit of the open draft: content replaces what it held.
Edit(content) ==
    LET row == docs[active]
    IN  Advance(row.context, row.heads, [row.drafts EXCEPT ![row.context] = content])

Reply(state, lost) == call' = IF lost THEN Failed ELSE state

\* document_state.
ServeState(lost) ==
    /\ Reply(HostState, lost)
    /\ UNCHANGED host

\* apply_document_command and apply_import, of a command not seen before.
ServeCommand(e, lost) ==
    LET old == HostState
        content == old.content \cup {e.id}
        result == [document |-> active, context |-> old.context, head |-> old.head,
                   revision |-> old.revision + 1, content |-> content, epoch |-> hostEpoch]
    IN  /\ receipts[e.id] = None
        /\ SameCursor(e, old)
        /\ Edit(content)
        /\ receipts' = [receipts EXCEPT ![e.id] = result]
        /\ Reply(result, lost)
        /\ UNCHANGED <<active, hostEpoch>>

\* The same, of a command sent again: the stored result.
ServeReceipt(e, lost) ==
    /\ receipts[e.id] # None
    /\ e.document = active
    /\ Reply(receipts[e.id], lost)
    /\ UNCHANGED host

\* switch_active_document, as DocumentHost has it.
MoveTo(d) ==
    /\ Advance(docs[active].context, docs[active].heads, docs[active].drafts)
    /\ hostEpoch < MaxEpoch /\ hostEpoch' = hostEpoch + 1
    /\ active' = d
    /\ UNCHANGED receipts

ServeSwitch(op, lost) ==
    /\ op.target.document = active /\ op.target.epoch = hostEpoch
    /\ MoveTo(op.dest)
    /\ Reply(HostState', lost)

\* The draft of another context takes the place of this one's.
Activate(k) ==
    /\ Advance(k, docs[active].heads, docs[active].drafts)
    /\ UNCHANGED <<active, hostEpoch, receipts>>

\* switch_editing_context.
ServeContext(op, lost) ==
    /\ SameCursor(op.target, HostState)
    /\ Activate(op.dest)
    /\ Reply(HostState', lost)

\* What the client is waiting for.
Asking == call = Asked

AsksState == running.op.kind \in {"load", "reload"} \/ running.answer # None

HostAnswers(lost) ==
    /\ Asking
    /\ \/ AsksState /\ ServeState(lost)
       \/ /\ ~AsksState /\ running.op.kind \in Change
          /\ ServeCommand(unresolved, lost) \/ ServeReceipt(unresolved, lost)
       \/ running.op.kind = "switch" /\ ServeSwitch(running.op, lost)
       \/ running.op.kind = "context" /\ ServeContext(running.op, lost)
    /\ UNCHANGED <<current, sessionEpoch, failed, unresolved, status, tail, running,
                   made, fate, touched>>

\* The host refuses the call, fails before it changes anything, or never gets it.
HostRefuses ==
    /\ Asking
    /\ call' = Failed
    /\ UNCHANGED <<host, current, sessionEpoch, failed, unresolved, status, tail,
                   running, made, fate, touched>>

\* A proposal is confirmed, or another window edits the same draft.
OthersEdit ==
    /\ Other \notin HostState.content
    /\ Edit(HostState.content \cup {Other})
    /\ UNCHANGED <<active, hostEpoch, receipts>>

\* A version command moves the head.
OthersCommit ==
    LET row == docs[active]
    IN  /\ Advance(row.context, [row.heads EXCEPT ![row.context] = row.revision + 1],
                   row.drafts)
        /\ UNCHANGED <<active, hostEpoch, receipts>>

Others ==
    /\ \/ OthersEdit
       \/ OthersCommit
       \/ \E k \in Context \ {docs[active].context} : Activate(k)
       \/ \E d \in Document \ {active} : MoveTo(d)
    /\ touched' = TRUE
    /\ UNCHANGED <<client, made, fate>>

-----------------------------------------------------------------------------
(* The client.                                                             *)

Captured ==
    [document |-> current.document, context |-> current.context, head |-> current.head,
     revision |-> current.revision, epoch |-> current.epoch, session |-> sessionEpoch]

SameLineage(a, b) ==
    a.document = b.document /\ a.context = b.context /\ a.head = b.head

\* Mutant: targets are not compared.
AnyTarget(t) == current # None

\* assertTarget: earlier writes of this queue may have advanced the revision,
\* nothing else may have changed.
TargetHolds(t) ==
    /\ SameLineage(t, current) /\ t.revision <= current.revision
    /\ t.session = sessionEpoch

\* installState.
Installed(state) == state

\* An edit is made, on what the window shows.
Make(c) ==
    /\ current # None
    /\ fate[c] = "unknown"
    /\ made' = [made EXCEPT ![c] = Captured]
    /\ fate' = [fate EXCEPT ![c] = "made"]
    /\ UNCHANGED <<host, client, touched>>

Enqueue(op) ==
    /\ current # None
    /\ Len(tail) < Room
    /\ op.kind \in Change \/ sessionEpoch + Len(tail) < MaxSession
    /\ tail' = Append(tail, op)
    /\ UNCHANGED <<host, current, sessionEpoch, failed, unresolved, status, running,
                   call, made, touched>>

\* submit and applyImport.
ScheduleChange(kind, c) ==
    /\ fate[c] = "made"
    /\ fate' = [fate EXCEPT ![c] = "scheduled"]
    /\ Enqueue([kind |-> kind, id |-> c, target |-> made[c], dest |-> None])

\* reload, which has no target.
ScheduleReload ==
    /\ Enqueue([kind |-> "reload", id |-> None, target |-> None, dest |-> None])
    /\ UNCHANGED fate

\* switchDocument and switchEditingContext.
ScheduleSwitch(kind, dest) ==
    /\ current # None /\ dest \notin {current.document, current.context}
    /\ Enqueue([kind |-> kind, id |-> None, target |-> Captured, dest |-> dest])
    /\ UNCHANGED fate

\* Mutant: an operation runs although a command is in doubt.
RunsAnyway(op) ==
    /\ op.kind # "reload" => TargetHolds(op.target)
    /\ op.kind \in {"import", "context"} => SameCursor(op.target, current)

\* What an operation asks for when its turn comes.
MayRun(op) ==
    /\ ~failed
    /\ op.kind # "reload" => TargetHolds(op.target)
    /\ op.kind \in {"import", "context"} => SameCursor(op.target, current)
    /\ op.kind = "switch" => op.target.epoch = current.epoch

Ask(op, retry) ==
    /\ running' = [op |-> op, retry |-> retry, answer |-> None]
    /\ call' = Asked
    /\ touched' = FALSE

EnvelopeOf(op) ==
    [kind |-> op.kind, id |-> op.id, document |-> current.document,
     context |-> current.context, head |-> current.head, revision |-> current.revision]

\* The next operation starts.  A switch makes the session stale before it is sent.
StartNext ==
    LET op == Head(tail)
    IN  /\ running = None /\ tail # <<>>
        /\ MayRun(op)
        /\ tail' = Tail(tail)
        /\ unresolved' = IF op.kind \in Change THEN EnvelopeOf(op) ELSE unresolved
        /\ status' = IF op.kind = "reload" THEN status ELSE "saving"
        /\ IF op.kind \in {"switch", "context"}
           THEN sessionEpoch' = sessionEpoch + 1 ELSE UNCHANGED sessionEpoch
        /\ Ask(op, FALSE)
        /\ UNCHANGED <<host, current, failed, made, fate>>

\* Or is refused: its caller gets an error.
RejectNext ==
    LET op == Head(tail)
    IN  /\ running = None /\ tail # <<>>
        /\ ~MayRun(op)
        /\ tail' = Tail(tail)
        /\ fate' = IF op.kind \in Change THEN [fate EXCEPT ![op.id] = "rejected"] ELSE fate
        /\ UNCHANGED <<host, current, sessionEpoch, failed, unresolved, status, running,
                       call, made, touched>>

\* load.
Load ==
    /\ current = None /\ running = None /\ unresolved = None
    /\ Ask([kind |-> "load", id |-> None, target |-> None, dest |-> None], FALSE)
    /\ UNCHANGED <<host, current, sessionEpoch, failed, unresolved, status, tail, made, fate>>

\* retryFailed: the same command again, once the queue is empty.
RetryFailed ==
    /\ failed /\ unresolved # None /\ running = None /\ tail = <<>>
    /\ status' = "saving"
    /\ Ask([kind |-> unresolved.kind, id |-> unresolved.id, target |-> made[unresolved.id],
            dest |-> None], TRUE)
    /\ UNCHANGED <<host, current, sessionEpoch, failed, unresolved, tail, made, fate>>

Replied(kinds) == running # None /\ running.op.kind \in kinds /\ call \in State

\* Mutant: the queue moves on only when an operation succeeds.
ReleaseOnSuccess(ok) == running' = IF ok THEN None ELSE running

\* The operation has settled: the queue moves on.
Release(ok) == running' = None

Install(state) == current' = Installed(state)

\* A new document, context, head or visit of it is a new session.
NewLineage(state) ==
    current # None /\ (~SameLineage(current, state) \/ current.epoch # state.epoch)

ReceiveState ==
    /\ Replied({"load", "reload"})
    /\ Install(call)
    /\ IF NewLineage(call)
       THEN sessionEpoch' = sessionEpoch + 1 ELSE UNCHANGED sessionEpoch
    /\ status' = "idle"
    /\ Release(TRUE) /\ call' = None
    /\ UNCHANGED <<host, failed, unresolved, tail, made, fate, touched>>

Confirmed(state) ==
    /\ Install(state)
    /\ failed' = FALSE /\ unresolved' = None
    /\ status' = "saved"
    /\ Release(TRUE) /\ call' = None

\* switchDocument and switchEditingContext.
ReceiveSwitch ==
    /\ Replied({"switch", "context"})
    /\ Confirmed(call)
    /\ UNCHANGED <<host, sessionEpoch, tail, made, fate, touched>>

\* Mutant: the receipt of a retry is taken for the present state.
NeedsNewer(r, result) == ~(current.revision < result.revision)

\* A receipt may be old: it is not the present state, document_state is.
NeedsState(r, result) == r.retry \/ ~(current.revision < result.revision)

\* send and sendImport: the command is confirmed.
ReceiveResult ==
    /\ Replied(Change) /\ running.answer = None
    /\ ~NeedsState(running, call)
    /\ Confirmed(call)
    /\ fate' = [fate EXCEPT ![running.op.id] = "acked"]
    /\ UNCHANGED <<host, sessionEpoch, tail, made, touched>>

\* It is confirmed by a receipt, and the present state is asked for.
ReceiveReceipt ==
    /\ Replied(Change) /\ running.answer = None
    /\ NeedsState(running, call)
    /\ running' = [op |-> running.op, retry |-> running.retry, answer |-> call]
    /\ call' = Asked
    /\ touched' = FALSE
    /\ UNCHANGED <<host, current, sessionEpoch, failed, unresolved, status, tail, made, fate>>

\* The present state fits the command, its receipt and what the client had.
Consistent(state) ==
    /\ state.document = unresolved.document /\ state.context = unresolved.context
    /\ running.answer.revision <= state.revision
    /\ current.revision <= state.revision

ReceiveReconciled ==
    /\ Replied(Change) /\ running.answer # None
    /\ Consistent(call)
    /\ Confirmed(call)
    /\ fate' = [fate EXCEPT ![running.op.id] = "acked"]
    /\ UNCHANGED <<host, sessionEpoch, tail, made, touched>>

Unusable ==
    call = Failed \/ (Replied(Change) /\ running.answer # None /\ ~Consistent(call))

\* The call failed: a change stays in doubt, anything else is given up.
ReceiveFailure ==
    /\ running # None /\ Unusable
    /\ failed' = (failed \/ running.op.kind \in Change)
    /\ status' = CASE running.op.kind \in Change -> "failed"
                   [] running.op.kind \in {"switch", "context"} -> "idle"
                   [] OTHER -> status
    /\ Release(FALSE) /\ call' = None
    /\ touched' = TRUE
    /\ UNCHANGED <<host, current, sessionEpoch, unresolved, tail, made, fate>>

\* The window reloads its page, in the middle of anything.
ReloadPage ==
    /\ current' = None
    /\ sessionEpoch' = 0
    /\ failed' = FALSE /\ unresolved' = None
    /\ status' = "idle"
    /\ tail' = <<>> /\ running' = None /\ call' = None
    /\ fate' = [c \in Command |->
                  IF fate[c] \in {"made", "scheduled"} THEN "gone" ELSE fate[c]]
    /\ UNCHANGED <<host, made, touched>>

Init ==
    /\ active = Start /\ hostEpoch = 1
    /\ docs = [d \in Document |->
                 [context |-> Home, revision |-> 0, heads |-> [k \in Context |-> 0],
                  drafts |-> [k \in Context |-> {}]]]
    /\ receipts = [c \in Command |-> None]
    /\ current = None
    /\ sessionEpoch = 0
    /\ failed = FALSE /\ unresolved = None
    /\ status = "idle"
    /\ tail = <<>> /\ running = None /\ call = None
    /\ made = [c \in Command |-> None]
    /\ fate = [c \in Command |-> "unknown"]
    /\ touched = FALSE

ClientStep ==
    \/ Load
    \/ StartNext
    \/ RejectNext
    \/ ReceiveState
    \/ ReceiveSwitch
    \/ ReceiveResult
    \/ ReceiveReceipt
    \/ ReceiveReconciled
    \/ ReceiveFailure

Next ==
    \/ \E lost \in BOOLEAN : HostAnswers(lost)
    \/ HostRefuses
    \/ Others
    \/ \E c \in Command : Make(c)
    \/ \E kind \in Change, c \in Command : ScheduleChange(kind, c)
    \/ ScheduleReload
    \/ \E d \in Document : ScheduleSwitch("switch", d)
    \/ \E k \in Context : ScheduleSwitch("context", k)
    \/ ClientStep
    \/ RetryFailed
    \/ ReloadPage

Spec == Init /\ [][Next]_vars

\* A promise chain runs on, and every call of the host ends in a reply or an
\* error.  Nobody has to retry.
FairSpec ==
    /\ Spec
    /\ WF_vars(ClientStep)
    /\ WF_vars(HostRefuses \/ \E lost \in BOOLEAN : HostAnswers(lost))

-----------------------------------------------------------------------------
TypeOK ==
    /\ active \in Document /\ hostEpoch \in Nat
    /\ docs \in [Document -> Row]
    /\ receipts \in [Command -> State \cup {None}]
    /\ current \in State \cup {None}
    /\ sessionEpoch \in Nat
    /\ failed \in BOOLEAN
    /\ unresolved \in Envelope \cup {None}
    /\ status \in {"idle", "saving", "saved", "failed"}
    /\ tail \in Seq(Operation)
    /\ running \in Running \cup {None}
    /\ call \in State \cup {None, Asked, Failed}
    /\ made \in [Command -> Target \cup {None}]
    /\ fate \in [Command -> Fate]
    /\ touched \in BOOLEAN

\* A change reaches the host on the document, context and head it was made on,
\* however long it waited in the queue and whatever happened there meanwhile:
\* the text of one résumé never ends up in another.
EditsLandWhereMade ==
    \A c \in Command :
        receipts[c] # None => SameLineage(receipts[c], made[c])

\* And within the session it was made in: leaving a document and coming back
\* makes what was queued before void (assertTarget's sessionEpoch).
EditsLandInTheirSession ==
    [][\A c \in Command :
         receipts[c] = None /\ receipts'[c] # None => made[c].session = sessionEpoch]_vars

\* A change the host carried out without its caller knowing is the one the
\* client holds for retry; no later operation pushes it out.  Only a reload of
\* the page forgets it.
UnresolvedIsKept ==
    \A c \in Command :
        receipts[c] # None /\ fate[c] \notin {"acked", "gone"}
        => unresolved # None /\ unresolved.id = c

\* The two sides never hold different states under one cursor: what the client
\* shows at a revision is what the host had there, and it is never ahead.
OneStatePerRevision ==
    current # None =>
        LET row == docs[current.document]
        IN  /\ current.revision <= row.revision
            /\ current.revision = row.revision =>
                 /\ current.context = row.context
                 /\ current.head = row.heads[row.context]
                 /\ current.content = row.drafts[row.context]

\* "Saved" means in step: unless someone else has changed the document since
\* the last call was sent, the client holds exactly what the host does, so its
\* next command cannot conflict.  After a lost reply this takes document_state,
\* not the receipt.
SavedMeansInStep ==
    running = None /\ status = "saved" /\ ~touched
    => current = HostState

\* What the client shows is what the host has: the content of one revision is
\* never shown under another, and "saved" is only said of the present one.
ClientKnowsHost == OneStatePerRevision /\ SavedMeansInStep

\* Whoever schedules a change hears of it: done, refused, or in doubt.
EveryCallerHears ==
    \A c \in Command :
        fate[c] = "scheduled" ~>
            \/ fate[c] # "scheduled"
            \/ failed /\ unresolved # None /\ unresolved.id = c
=============================================================================
