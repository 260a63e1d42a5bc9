--------------------- MODULE NativeDocumentClientProofs ---------------------
(***************************************************************************)
(* For any number of documents, contexts, commands and queued operations: a *)
(* change reaches the host on the document, context and head it was made    *)
(* on and in the session it was made in, a change whose reply was lost is   *)
(* never pushed out by a later one, and what the client shows and calls     *)
(* "saved" is what the host has.                                            *)
(***************************************************************************)
EXTENDS NativeDocumentClient, TLAPS

Changes(op) == op.kind \in Change

\* A change waiting in the queue carries the target it was made on, and the host
\* has not seen it.
Waiting ==
    \A i \in 1 .. Len(tail) : Changes(tail[i]) =>
        LET c == tail[i].id
        IN  /\ c \in Command
            /\ tail[i].target = made[c] /\ made[c] # None
            /\ fate[c] = "scheduled"
            /\ receipts[c] = None
            /\ unresolved # None => unresolved.id # c

\* No change waits twice.
WaitingOnce ==
    \A i, j \in 1 .. Len(tail) :
        Changes(tail[i]) /\ Changes(tail[j]) /\ tail[i].id = tail[j].id => i = j

\* The change in doubt names the lineage its edit was made on, in this session.
InDoubt ==
    unresolved # None =>
        LET c == unresolved.id
        IN  /\ made[c] # None
            /\ SameLineage(unresolved, made[c])
            /\ made[c].session = sessionEpoch
            /\ fate[c] = "scheduled"

\* A change is in doubt exactly while it is being sent or has failed.
DoubtIsJustified ==
    /\ call # None => running # None
    /\ running # None /\ Changes(running.op) =>
          unresolved # None /\ unresolved.id = running.op.id
    /\ running # None /\ ~Changes(running.op) => unresolved = None
    /\ running = None /\ ~failed => unresolved = None

\* The host only knows changes that were made and scheduled.
KnownToHost ==
    \A c \in Command : receipts[c] # None =>
        made[c] # None /\ fate[c] \notin {"unknown", "made"}

\* A change that has been made has a target.
MadeHasTarget == \A c \in Command : fate[c] = "made" => made[c] # None

\* Nothing is queued before the first state has been loaded.
QueueFollowsLoad == tail # <<>> => current # None

Kept ==
    /\ EditsLandWhereMade
    /\ UnresolvedIsKept
    /\ Waiting
    /\ WaitingOnce
    /\ InDoubt
    /\ DoubtIsJustified
    /\ KnownToHost
    /\ MadeHasTarget
    /\ QueueFollowsLoad

IInv == TypeOK /\ Kept

USE ConstantsAssumption, ValuesAssumption

\* The invariant holds before the first state is loaded.
LEMMA InitEstablishes == Init => IInv
<1> SUFFICES ASSUME Init PROVE IInv
  OBVIOUS
<1> USE DEF Init
<1>1. TypeOK
  <2>1. docs \in [Document -> Row]
    BY DEF Row, Content
  <2>2. tail \in Seq(Operation)
    OBVIOUS
  <2>3. fate \in [Command -> Fate]
    BY DEF Fate
  <2> QED BY <2>1, <2>2, <2>3 DEF TypeOK
<1>2. EditsLandWhereMade /\ UnresolvedIsKept /\ KnownToHost /\ MadeHasTarget
  BY DEF EditsLandWhereMade, UnresolvedIsKept, KnownToHost, MadeHasTarget
<1>3. Waiting /\ WaitingOnce
  BY DEF Waiting, WaitingOnce
<1>4. InDoubt /\ DoubtIsJustified /\ QueueFollowsLoad
  BY DEF InDoubt, DoubtIsJustified, QueueFollowsLoad
<1> QED BY <1>1, <1>2, <1>3, <1>4 DEF IInv, Kept

-----------------------------------------------------------------------------
(* Types.                                                                  *)

\* What the host hands out is a state.
LEMMA HostStateType ==
    ASSUME NEW rows \in [Document -> Row], NEW d \in Document, NEW e \in Nat
    PROVE  LET row == rows[d]
           IN  [document |-> d, context |-> row.context, head |-> row.heads[row.context],
                revision |-> row.revision, content |-> row.drafts[row.context],
                epoch |-> e] \in State
<1> DEFINE row == rows[d]
<1>1. row.context \in Context /\ row.revision \in Nat
  BY DEF Row
<1>2. row.heads[row.context] \in Nat /\ row.drafts[row.context] \in Content
  BY <1>1 DEF Row
<1> HIDE DEF row
<1>3. [document |-> d, context |-> row.context, head |-> row.heads[row.context],
       revision |-> row.revision, content |-> row.drafts[row.context],
       epoch |-> e] \in State
  BY <1>1, <1>2 DEF State
<1> QED BY <1>3 DEF row

\* The host stays well typed when the active document advances.
LEMMA AdvanceType ==
    ASSUME TypeOK, NEW k \in Context, NEW heads \in [Context -> Nat],
           NEW drafts \in [Context -> Content], Advance(k, heads, drafts)
    PROVE  docs' \in [Document -> Row]
<1>1. docs \in [Document -> Row] /\ docs[active] \in Row
  BY DEF TypeOK
<1>2. docs[active].revision + 1 \in Nat
  BY <1>1 DEF Row
<1>3. [context |-> k, revision |-> docs[active].revision + 1,
       heads |-> heads, drafts |-> drafts] \in Row
  BY <1>2 DEF Row
<1> QED BY <1>1, <1>3 DEF Advance

LEMMA EditType ==
    ASSUME TypeOK, NEW content \in Content, Edit(content)
    PROVE  docs' \in [Document -> Row]
<1> DEFINE row == docs[active]
<1>1. row \in Row
  BY DEF TypeOK
<1>2. /\ row.context \in Context
      /\ row.heads \in [Context -> Nat]
      /\ [row.drafts EXCEPT ![row.context] = content] \in [Context -> Content]
  BY <1>1 DEF Row
<1> QED BY <1>2, AdvanceType DEF Edit

LEMMA TypesHostAnswers ==
    ASSUME IInv, NEW lost \in BOOLEAN, HostAnswers(lost)
    PROVE  TypeOK'
<1>1. TypeOK /\ running \in Running /\ running.op \in Operation
  <2>1. TypeOK /\ running # None
    BY DEF IInv, Kept, DoubtIsJustified, HostAnswers, Asking
  <2> QED BY <2>1 DEF TypeOK, Running
<1>2. UNCHANGED <<current, sessionEpoch, failed, unresolved, status, tail, running,
                  made, fate, touched>>
  BY DEF HostAnswers
<1>3. /\ active' \in Document /\ hostEpoch' \in Nat
      /\ docs' \in [Document -> Row]
      /\ receipts' \in [Command -> State \cup {None}]
      /\ call' \in State \cup {None, Asked, Failed}
  <2> DEFINE row == docs[active]
  <2>0. /\ row \in Row /\ active \in Document /\ hostEpoch \in Nat
        /\ HostState \in State
    BY <1>1, HostStateType DEF TypeOK, HostState
  <2>1. CASE ServeState(lost)
    BY <1>1, <2>0, <2>1 DEF TypeOK, ServeState, Reply, host
  <2>2. CASE ServeCommand(unresolved, lost) /\ Changes(running.op)
    <3> DEFINE content == HostState.content \cup {unresolved.id}
               result == [document |-> active, context |-> HostState.context,
                          head |-> HostState.head, revision |-> HostState.revision + 1,
                          content |-> content, epoch |-> hostEpoch]
    <3>1. unresolved \in Envelope /\ unresolved.id \in Command
      BY <1>1, <2>2 DEF IInv, Kept, DoubtIsJustified, TypeOK, Envelope
    <3>2. content \in Content
      BY <2>0, <3>1 DEF State, Content
    <3>3. result \in State
      BY <2>0, <3>2 DEF State
    <3>4. Edit(content)
      BY <2>2 DEF ServeCommand
    <3>5. docs' \in [Document -> Row]
      BY <1>1, <3>2, <3>4, EditType
    <3>6. /\ receipts' = [receipts EXCEPT ![unresolved.id] = result]
          /\ call' = IF lost THEN Failed ELSE result
          /\ UNCHANGED <<active, hostEpoch>>
      BY <2>2 DEF ServeCommand, Reply
    <3> HIDE DEF result
    <3> QED BY <1>1, <2>0, <3>1, <3>3, <3>5, <3>6 DEF TypeOK
  <2>3. CASE ServeReceipt(unresolved, lost) /\ Changes(running.op)
    <3>1. unresolved \in Envelope /\ unresolved.id \in Command
      BY <1>1, <2>3 DEF IInv, Kept, DoubtIsJustified, TypeOK, Envelope
    <3>2. receipts[unresolved.id] \in State
      BY <1>1, <2>3, <3>1 DEF ServeReceipt, TypeOK
    <3> QED BY <1>1, <2>3, <3>2 DEF TypeOK, ServeReceipt, Reply, host
  <2>4. CASE ServeSwitch(running.op, lost) /\ running.op.kind = "switch"
    <3>1. running.op.dest \in Document
      BY <1>1, <2>4 DEF Operation
    <3>2. /\ active' \in Document /\ hostEpoch' \in Nat
          /\ receipts' = receipts
      BY <2>0, <2>4, <3>1 DEF ServeSwitch, MoveTo
    <3>3. docs' \in [Document -> Row]
      BY <1>1, <2>0, <2>4, AdvanceType DEF ServeSwitch, MoveTo, Row
    <3>4. HostState' \in State
      BY <3>2, <3>3, HostStateType DEF HostState
    <3> QED BY <1>1, <2>4, <3>2, <3>3, <3>4 DEF TypeOK, ServeSwitch, Reply
  <2>5. CASE ServeContext(running.op, lost) /\ running.op.kind = "context"
    <3>1. running.op.dest \in Context
      BY <1>1, <2>5 DEF Operation
    <3>2. UNCHANGED <<active, hostEpoch, receipts>>
      BY <2>5 DEF ServeContext, Activate
    <3>3. docs' \in [Document -> Row]
      BY <1>1, <2>0, <2>5, <3>1, AdvanceType DEF ServeContext, Activate, Row
    <3>4. HostState' \in State
      BY <2>0, <3>2, <3>3, HostStateType DEF HostState
    <3> QED BY <1>1, <2>0, <2>5, <3>2, <3>3, <3>4 DEF TypeOK, ServeContext, Reply
  <2> QED BY <2>1, <2>2, <2>3, <2>4, <2>5 DEF HostAnswers, Changes
<1> QED BY <1>1, <1>2, <1>3 DEF TypeOK

LEMMA TypesOthers ==
    ASSUME TypeOK, Others
    PROVE  TypeOK'
<1> DEFINE row == docs[active]
<1>0. /\ row \in Row /\ active \in Document /\ hostEpoch \in Nat
      /\ HostState \in State
  BY HostStateType DEF TypeOK, HostState
<1>1. /\ active' \in Document /\ hostEpoch' \in Nat
      /\ receipts' = receipts
  BY <1>0 DEF Others, OthersEdit, OthersCommit, Activate, MoveTo
<1>2. docs' \in [Document -> Row]
  <2>1. CASE OthersEdit
    <3> DEFINE old == HostState.content
               new == old \cup {Other}
    <3>1. new \in Content
      BY <1>0 DEF State, Content
    <3>2. Edit(new)
      BY <2>1 DEF OthersEdit
    <3> HIDE DEF new
    <3> QED BY <3>1, <3>2, EditType
  <2>2. CASE OthersCommit
    <3>1. /\ row.context \in Context /\ row.drafts \in [Context -> Content]
          /\ [row.heads EXCEPT ![row.context] = row.revision + 1] \in [Context -> Nat]
      BY <1>0 DEF Row
    <3> QED BY <2>2, <3>1, AdvanceType DEF OthersCommit
  <2>3. CASE \E k \in Context : Activate(k)
    BY <1>0, <2>3, AdvanceType DEF Activate, Row
  <2>4. CASE \E d \in Document : MoveTo(d)
    BY <1>0, <2>4, AdvanceType DEF MoveTo, Row
  <2> QED BY <2>1, <2>2, <2>3, <2>4 DEF Others
<1> QED BY <1>1, <1>2 DEF TypeOK, Others, client

LEMMA CapturedType == TypeOK /\ current # None => Captured \in Target
  BY DEF TypeOK, Captured, State, Target

\* A longer or a shorter queue is still a queue.
LEMMA QueueType ==
    ASSUME TypeOK
    PROVE  /\ \A op \in Operation : Append(tail, op) \in Seq(Operation)
           /\ tail # <<>> => Tail(tail) \in Seq(Operation) /\ Head(tail) \in Operation
  BY DEF TypeOK

LEMMA TypesScheduling ==
    ASSUME IInv,
           \/ \E c \in Command : Make(c)
           \/ \E kind \in Change, c \in Command : ScheduleChange(kind, c)
           \/ ScheduleReload
           \/ \E d \in Document : ScheduleSwitch("switch", d)
           \/ \E k \in Context : ScheduleSwitch("context", k)
    PROVE  TypeOK'
<1>0. TypeOK
  BY DEF IInv
<1>1. CASE \E c \in Command : Make(c)
  <2>1. PICK c \in Command : Make(c)
    BY <1>1
  <2>2. /\ made' \in [Command -> Target \cup {None}]
        /\ fate' \in [Command -> Fate]
    BY <1>0, <2>1, CapturedType DEF TypeOK, Make, Fate
  <2> QED BY <1>0, <2>1, <2>2 DEF TypeOK, Make, host, client
<1>2. ASSUME NEW op \in Operation, Enqueue(op), fate' \in [Command -> Fate]
      PROVE  TypeOK'
  BY <1>0, <1>2, QueueType DEF TypeOK, Enqueue, host
<1>3. CASE \E kind \in Change, c \in Command : ScheduleChange(kind, c)
  <2>1. PICK kind \in Change, c \in Command : ScheduleChange(kind, c)
    BY <1>3
  <2>2. made[c] \in Target \cup {None}
    BY <1>0 DEF TypeOK
  <2>3. [kind |-> kind, id |-> c, target |-> made[c], dest |-> None] \in Operation
    BY <2>2 DEF Operation, Kind, Change
  <2>4. fate' \in [Command -> Fate]
    BY <1>0, <2>1 DEF ScheduleChange, TypeOK, Fate
  <2> QED BY <1>2, <2>1, <2>3, <2>4 DEF ScheduleChange
<1>4. CASE ScheduleReload
  <2>1. [kind |-> "reload", id |-> None, target |-> None, dest |-> None] \in Operation
    BY DEF Operation, Kind, Change
  <2>2. fate' \in [Command -> Fate]
    BY <1>0, <1>4 DEF ScheduleReload, TypeOK
  <2> QED BY <1>2, <1>4, <2>1, <2>2 DEF ScheduleReload
<1>5. CASE \/ \E d \in Document : ScheduleSwitch("switch", d)
           \/ \E k \in Context : ScheduleSwitch("context", k)
  <2>1. PICK kind \in {"switch", "context"}, dest \in Document \cup Context :
            /\ ScheduleSwitch(kind, dest)
            /\ kind = "switch" => dest \in Document
            /\ kind = "context" => dest \in Context
    BY <1>5
  <2>2. Captured \in Target
    BY <1>0, <2>1, CapturedType DEF ScheduleSwitch
  <2>3. [kind |-> kind, id |-> None, target |-> Captured, dest |-> dest] \in Operation
    BY <2>1, <2>2 DEF Operation, Kind, Change
  <2>4. fate' \in [Command -> Fate]
    BY <1>0, <2>1 DEF ScheduleSwitch, TypeOK
  <2> QED BY <1>2, <2>1, <2>3, <2>4 DEF ScheduleSwitch
<1> QED BY <1>1, <1>3, <1>4, <1>5

\* Beginning an operation.
LEMMA TypesAsk ==
    ASSUME NEW op \in Operation, NEW retry \in BOOLEAN, Ask(op, retry)
    PROVE  /\ running' \in Running \cup {None}
           /\ call' \in State \cup {None, Asked, Failed}
           /\ touched' \in BOOLEAN
  BY DEF Ask, Running

LEMMA TypesClient ==
    ASSUME IInv, ClientStep \/ RetryFailed \/ ReloadPage \/ HostRefuses
    PROVE  TypeOK'
<1>0. TypeOK
  BY DEF IInv
<1>1. CASE Load
  <2>1. [kind |-> "load", id |-> None, target |-> None, dest |-> None] \in Operation
    BY DEF Operation, Kind, Change
  <2> QED BY <1>0, <1>1, <2>1, TypesAsk DEF Load, TypeOK, host
<1>2. CASE StartNext
  <2> DEFINE op == Head(tail)
  <2>1. op \in Operation /\ tail' \in Seq(Operation)
    BY <1>0, <1>2, QueueType DEF StartNext
  <2>2. current # None
    BY <1>2 DEF IInv, Kept, QueueFollowsLoad, StartNext
  <2>3. unresolved' \in Envelope \cup {None}
    <3>1. op.kind \in Change => EnvelopeOf(op) \in Envelope
      BY <1>0, <2>1, <2>2 DEF EnvelopeOf, Envelope, State, TypeOK, Operation
    <3> QED BY <1>0, <1>2, <3>1 DEF StartNext, TypeOK
  <2>4. sessionEpoch' \in Nat /\ status' \in {"idle", "saving", "saved", "failed"}
    BY <1>0, <1>2 DEF StartNext, TypeOK
  <2>5. Ask(op, FALSE)
    BY <1>2 DEF StartNext
  <2> HIDE DEF op
  <2> QED BY <1>0, <1>2, <2>1, <2>3, <2>4, <2>5, TypesAsk DEF StartNext, TypeOK, host
<1>3. CASE RejectNext
  <2>1. tail' \in Seq(Operation) /\ Head(tail) \in Operation
    BY <1>0, <1>3, QueueType DEF RejectNext
  <2>2. fate' \in [Command -> Fate]
    BY <1>0, <1>3 DEF RejectNext, TypeOK, Fate
  <2> QED BY <1>0, <1>3, <2>1, <2>2 DEF RejectNext, TypeOK, host
<1>4. CASE ReceiveState
  BY <1>0, <1>4 DEF ReceiveState, Replied, Install, Installed, Release, TypeOK, host
<1>5. CASE ReceiveSwitch
  BY <1>0, <1>5
     DEF ReceiveSwitch, Replied, Confirmed, Install, Installed, Release, TypeOK, host
<1>6. CASE ReceiveResult
  <2>1. fate' \in [Command -> Fate]
    BY <1>0, <1>6 DEF ReceiveResult, TypeOK, Fate
  <2> QED BY <1>0, <1>6, <2>1
     DEF ReceiveResult, Replied, Confirmed, Install, Installed, Release, TypeOK, host
<1>7. CASE ReceiveReceipt
  <2>1. running' \in Running
    BY <1>0, <1>7 DEF ReceiveReceipt, Replied, TypeOK, Running
  <2> QED BY <1>0, <1>7, <2>1 DEF ReceiveReceipt, Replied, TypeOK, host
<1>8. CASE ReceiveReconciled
  <2>1. fate' \in [Command -> Fate]
    BY <1>0, <1>8 DEF ReceiveReconciled, TypeOK, Fate
  <2> QED BY <1>0, <1>8, <2>1
     DEF ReceiveReconciled, Replied, Confirmed, Install, Installed, Release, TypeOK, host
<1>9. CASE ReceiveFailure
  BY <1>0, <1>9 DEF ReceiveFailure, Release, TypeOK, host
<1>10. CASE RetryFailed
  <2> DEFINE op == [kind |-> unresolved.kind, id |-> unresolved.id,
                    target |-> made[unresolved.id], dest |-> None]
  <2>1. unresolved \in Envelope
    BY <1>0, <1>10 DEF RetryFailed, TypeOK
  <2>2. op \in Operation
    BY <1>0, <2>1 DEF Operation, Kind, Change, Envelope, TypeOK
  <2>3. Ask(op, TRUE)
    BY <1>10 DEF RetryFailed
  <2> HIDE DEF op
  <2> QED BY <1>0, <1>10, <2>2, <2>3, TypesAsk DEF RetryFailed, TypeOK, host
<1>11. CASE ReloadPage
  <2>1. fate' \in [Command -> Fate]
    BY <1>0, <1>11 DEF ReloadPage, TypeOK, Fate
  <2>2. tail' \in Seq(Operation)
    BY <1>11 DEF ReloadPage
  <2> QED BY <1>0, <1>11, <2>1, <2>2 DEF ReloadPage, TypeOK, host
<1>12. CASE HostRefuses
  BY <1>0, <1>12 DEF HostRefuses, TypeOK, host
<1> QED BY <1>1, <1>2, <1>3, <1>4, <1>5, <1>6, <1>7, <1>8, <1>9, <1>10, <1>11, <1>12
        DEF ClientStep

-----------------------------------------------------------------------------
(* Where changes land.                                                     *)

\* An answer stores at most one result: that of the command in doubt, on the
\* lineage the command names.
LEMMA OneReceipt ==
    ASSUME IInv, NEW lost \in BOOLEAN, HostAnswers(lost)
    PROVE  \/ receipts' = receipts
           \/ /\ unresolved # None /\ unresolved.id \in Command
              /\ receipts[unresolved.id] = None
              /\ \E result \in State :
                    /\ SameLineage(result, unresolved)
                    /\ receipts' = [receipts EXCEPT ![unresolved.id] = result]
<1>1. TypeOK /\ running # None
  BY DEF IInv, Kept, DoubtIsJustified, HostAnswers, Asking
<1>2. CASE ServeState(lost)
  BY <1>2 DEF ServeState, host
<1>3. CASE ServeCommand(unresolved, lost) /\ Changes(running.op)
  <2> DEFINE content == HostState.content \cup {unresolved.id}
             result == [document |-> active, context |-> HostState.context,
                        head |-> HostState.head, revision |-> HostState.revision + 1,
                        content |-> content, epoch |-> hostEpoch]
  <2>1. unresolved # None /\ unresolved.id \in Command
    BY <1>1, <1>3 DEF IInv, Kept, DoubtIsJustified, TypeOK, Envelope
  <2>2. HostState \in State /\ active \in Document /\ hostEpoch \in Nat
    BY <1>1, HostStateType DEF HostState, TypeOK
  <2>3. result \in State
    <3>1. content \in Content
      BY <2>1, <2>2 DEF State, Content
    <3> QED BY <2>2, <3>1 DEF State
  <2>4. HostState.document = active
    BY DEF HostState
  <2>5. /\ receipts[unresolved.id] = None
        /\ SameCursor(unresolved, HostState)
        /\ receipts' = [receipts EXCEPT ![unresolved.id] = result]
    BY <1>3 DEF ServeCommand
  <2>6. SameLineage(result, unresolved)
    BY <2>4, <2>5 DEF SameCursor, SameLineage
  <2> HIDE DEF result
  <2> QED BY <2>1, <2>3, <2>5, <2>6
<1>4. CASE ServeReceipt(unresolved, lost)
  BY <1>4 DEF ServeReceipt, host
<1>5. CASE ServeSwitch(running.op, lost)
  BY <1>5 DEF ServeSwitch, MoveTo
<1>6. CASE ServeContext(running.op, lost)
  BY <1>6 DEF ServeContext, Activate
<1> QED BY <1>2, <1>3, <1>4, <1>5, <1>6 DEF HostAnswers, Changes

\* Nothing the host does for others, and nothing it refuses, concerns a change.
LEMMA KeptUntouched ==
    ASSUME IInv,
           UNCHANGED <<receipts, current, sessionEpoch, failed, unresolved, tail,
                       running, made, fate>>,
           call' = call \/ running # None
    PROVE  Kept'
  BY DEF IInv, Kept, EditsLandWhereMade, UnresolvedIsKept, Waiting, WaitingOnce, InDoubt,
         DoubtIsJustified, KnownToHost, MadeHasTarget, QueueFollowsLoad

LEMMA KeptHostAnswers ==
    ASSUME IInv, NEW lost \in BOOLEAN, HostAnswers(lost)
    PROVE  Kept'
<1>1. /\ UNCHANGED <<current, sessionEpoch, failed, unresolved, tail, running, made, fate>>
      /\ running # None
  BY DEF HostAnswers, Asking, IInv, Kept, DoubtIsJustified
<1>2. CASE receipts' = receipts
  BY <1>1, <1>2, KeptUntouched
<1>3. CASE receipts' # receipts
  <2>1. PICK result \in State :
            /\ unresolved # None /\ unresolved.id \in Command
            /\ receipts[unresolved.id] = None
            /\ SameLineage(result, unresolved)
            /\ receipts' = [receipts EXCEPT ![unresolved.id] = result]
    BY <1>3, OneReceipt
  <2> DEFINE u == unresolved.id
  <2>2. /\ receipts'[u] = result
        /\ \A c \in Command \ {u} : receipts'[c] = receipts[c]
    BY <2>1 DEF IInv, TypeOK
  <2>3. /\ made[u] # None /\ fate[u] = "scheduled" /\ SameLineage(unresolved, made[u])
    BY <2>1 DEF IInv, Kept, InDoubt
  <2>4. EditsLandWhereMade'
    BY <1>1, <2>1, <2>2, <2>3 DEF IInv, Kept, EditsLandWhereMade, SameLineage
  <2>5. UnresolvedIsKept'
    BY <1>1, <2>1, <2>2 DEF IInv, Kept, UnresolvedIsKept
  <2>6. Waiting'
    BY <1>1, <2>1, <2>2 DEF IInv, Kept, Waiting
  <2>7. KnownToHost'
    BY <1>1, <2>1, <2>2, <2>3 DEF IInv, Kept, KnownToHost
  <2>8. (WaitingOnce /\ InDoubt /\ DoubtIsJustified /\ MadeHasTarget /\ QueueFollowsLoad)'
    BY <1>1 DEF IInv, Kept, WaitingOnce, InDoubt, DoubtIsJustified, MadeHasTarget,
                QueueFollowsLoad
  <2> QED BY <2>4, <2>5, <2>6, <2>7, <2>8 DEF Kept
<1> QED BY <1>2, <1>3

LEMMA KeptMake ==
    ASSUME IInv, NEW c \in Command, Make(c)
    PROVE  Kept'
<1>1. /\ UNCHANGED <<receipts, current, sessionEpoch, failed, unresolved, tail, running, call>>
      /\ fate[c] = "unknown"
      /\ made' = [made EXCEPT ![c] = Captured]
      /\ fate' = [fate EXCEPT ![c] = "made"]
  BY DEF Make, host, client
<1>2. /\ Captured # None
      /\ made'[c] = Captured /\ fate'[c] = "made"
      /\ \A other \in Command \ {c} : made'[other] = made[other] /\ fate'[other] = fate[other]
  BY <1>1, CapturedType DEF IInv, TypeOK, Make
<1>3. receipts[c] = None
  BY <1>1 DEF IInv, Kept, KnownToHost
<1>4. unresolved # None => unresolved.id \in Command \ {c}
  BY <1>1 DEF IInv, Kept, InDoubt, TypeOK, Envelope
<1>5. EditsLandWhereMade' /\ UnresolvedIsKept' /\ KnownToHost' /\ MadeHasTarget'
  BY <1>1, <1>2, <1>3
     DEF IInv, Kept, EditsLandWhereMade, UnresolvedIsKept, KnownToHost, MadeHasTarget
<1>6. Waiting'
  BY <1>1, <1>2 DEF IInv, Kept, Waiting
<1>7. InDoubt'
  BY <1>1, <1>2, <1>4 DEF IInv, Kept, InDoubt
<1>8. (WaitingOnce /\ DoubtIsJustified /\ QueueFollowsLoad)'
  BY <1>1 DEF IInv, Kept, WaitingOnce, DoubtIsJustified, QueueFollowsLoad
<1> QED BY <1>5, <1>6, <1>7, <1>8 DEF Kept

\* Every entry of a longer queue is the new one or was there before.
LEMMA AppendEntries ==
    ASSUME NEW S, NEW q \in Seq(S), NEW x \in S
    PROVE  /\ Len(Append(q, x)) = Len(q) + 1
           /\ \A i \in 1 .. Len(q) : Append(q, x)[i] = q[i]
           /\ Append(q, x)[Len(q) + 1] = x
  OBVIOUS

\* Every entry of the rest of a queue was one place further back.
LEMMA TailEntries ==
    ASSUME NEW S, NEW q \in Seq(S), q # <<>>
    PROVE  /\ Len(Tail(q)) = Len(q) - 1
           /\ Len(q) \in Nat \ {0} /\ Head(q) = q[1]
           /\ \A i \in 1 .. Len(Tail(q)) :
                 i + 1 \in 2 .. Len(q) /\ Tail(q)[i] = q[i + 1]
  OBVIOUS

LEMMA KeptScheduleChange ==
    ASSUME IInv, NEW kind \in Change, NEW c \in Command, ScheduleChange(kind, c)
    PROVE  Kept'
<1> DEFINE op == [kind |-> kind, id |-> c, target |-> made[c], dest |-> None]
<1>1. /\ UNCHANGED <<receipts, current, sessionEpoch, failed, unresolved, running, call, made>>
      /\ current # None
      /\ fate[c] = "made" /\ fate' = [fate EXCEPT ![c] = "scheduled"]
      /\ tail' = Append(tail, op)
  BY DEF ScheduleChange, Enqueue, host
<1>2. /\ fate'[c] = "scheduled"
      /\ \A other \in Command \ {c} : fate'[other] = fate[other]
  BY <1>1 DEF IInv, TypeOK
<1>3. made[c] # None /\ receipts[c] = None
  BY <1>1 DEF IInv, Kept, KnownToHost, MadeHasTarget
<1>4. unresolved # None => unresolved.id # c
  BY <1>1 DEF IInv, Kept, InDoubt
<1>5. op \in Operation /\ tail \in Seq(Operation)
  <2>1. made[c] \in Target \cup {None}
    BY DEF IInv, TypeOK
  <2> QED BY <2>1 DEF IInv, TypeOK, Operation, Kind, Change
<1>6. op.id = c /\ op.target = made[c]
  OBVIOUS
<1> HIDE DEF op
<1>7. /\ Len(tail') = Len(tail) + 1 /\ Len(tail) \in Nat
      /\ \A i \in 1 .. Len(tail) : tail'[i] = tail[i]
      /\ tail'[Len(tail) + 1] = op
  BY <1>1, <1>5, AppendEntries
<1>8. \A i \in 1 .. Len(tail) : Changes(tail[i]) => tail[i].id \in Command \ {c}
  BY <1>1 DEF IInv, Kept, Waiting
<1>9. Waiting'
  <2> SUFFICES ASSUME NEW i \in 1 .. Len(tail'), Changes(tail'[i])
               PROVE  /\ tail'[i].id \in Command
                      /\ tail'[i].target = made[tail'[i].id] /\ made[tail'[i].id] # None
                      /\ fate'[tail'[i].id] = "scheduled"
                      /\ receipts[tail'[i].id] = None
                      /\ unresolved # None => unresolved.id # tail'[i].id
    BY <1>1 DEF Waiting, Changes
  <2>1. CASE i = Len(tail) + 1
    BY <1>2, <1>3, <1>4, <1>6, <1>7, <2>1
  <2>2. CASE i \in 1 .. Len(tail)
    BY <1>2, <1>7, <1>8, <2>2 DEF IInv, Kept, Waiting
  <2> QED BY <1>7, <2>1, <2>2
<1>10. WaitingOnce'
  <2> SUFFICES ASSUME NEW i \in 1 .. Len(tail'), NEW j \in 1 .. Len(tail'),
                      Changes(tail'[i]), Changes(tail'[j]), tail'[i].id = tail'[j].id
               PROVE  i = j
    BY DEF WaitingOnce, Changes
  <2>1. CASE i \in 1 .. Len(tail) /\ j \in 1 .. Len(tail)
    BY <1>7, <2>1 DEF IInv, Kept, WaitingOnce
  <2>2. CASE i = Len(tail) + 1 \/ j = Len(tail) + 1
    BY <1>6, <1>7, <1>8, <2>2
  <2> QED BY <1>7, <2>1, <2>2
<1>11. EditsLandWhereMade' /\ UnresolvedIsKept' /\ KnownToHost' /\ MadeHasTarget' /\ InDoubt'
  BY <1>1, <1>2, <1>3
     DEF IInv, Kept, EditsLandWhereMade, UnresolvedIsKept, KnownToHost, MadeHasTarget, InDoubt,
         TypeOK, Envelope
<1>12. DoubtIsJustified' /\ QueueFollowsLoad'
  BY <1>1 DEF IInv, Kept, DoubtIsJustified, QueueFollowsLoad
<1> QED BY <1>9, <1>10, <1>11, <1>12 DEF Kept

\* An operation that is not a change joins the queue.
LEMMA KeptScheduleOther ==
    ASSUME IInv, NEW op \in Operation, ~Changes(op), Enqueue(op), UNCHANGED fate
    PROVE  Kept'
<1>1. /\ UNCHANGED <<receipts, current, sessionEpoch, failed, unresolved, running, call,
                     made, fate>>
      /\ current # None /\ tail' = Append(tail, op)
  BY DEF Enqueue, host
<1>2. /\ Len(tail') = Len(tail) + 1 /\ Len(tail) \in Nat
      /\ \A i \in 1 .. Len(tail) : tail'[i] = tail[i]
      /\ tail'[Len(tail) + 1] = op
  BY <1>1, AppendEntries DEF IInv, TypeOK
<1>3. \A i \in 1 .. Len(tail') : Changes(tail'[i]) =>
          i \in 1 .. Len(tail) /\ tail'[i] = tail[i]
  BY <1>2 DEF Changes
<1>4. Waiting'
  BY <1>1, <1>3 DEF IInv, Kept, Waiting, Changes
<1>5. WaitingOnce'
  BY <1>3 DEF IInv, Kept, WaitingOnce, Changes
<1>6. Kept'
  BY <1>1, <1>4, <1>5
     DEF IInv, Kept, EditsLandWhereMade, UnresolvedIsKept, InDoubt, DoubtIsJustified,
         KnownToHost, MadeHasTarget, QueueFollowsLoad
<1> QED BY <1>6

\* Taking the first operation off the queue leaves changes that wait, once each,
\* and none of them is the one taken.
LEMMA QueueMovesUp ==
    ASSUME IInv, tail # <<>>, tail' = Tail(tail)
    PROVE  /\ Len(tail) \in Nat \ {0} /\ Head(tail) = tail[1] /\ Head(tail) \in Operation
           /\ \A i \in 1 .. Len(tail') : i + 1 \in 2 .. Len(tail) /\ tail'[i] = tail[i + 1]
           /\ WaitingOnce'
           /\ \A i \in 1 .. Len(tail') : Changes(tail'[i]) =>
                 /\ tail'[i].id \in Command
                 /\ tail'[i].target = made[tail'[i].id] /\ made[tail'[i].id] # None
                 /\ fate[tail'[i].id] = "scheduled"
                 /\ receipts[tail'[i].id] = None
                 /\ unresolved # None => unresolved.id # tail'[i].id
                 /\ Changes(Head(tail)) => Head(tail).id # tail'[i].id
<1>1. /\ Len(tail) \in Nat \ {0} /\ Head(tail) = tail[1] /\ Head(tail) \in Operation
      /\ Len(tail') = Len(tail) - 1
      /\ \A i \in 1 .. Len(tail') : i + 1 \in 2 .. Len(tail) /\ tail'[i] = tail[i + 1]
  BY TailEntries, QueueType DEF IInv, TypeOK
<1>2. WaitingOnce'
  <2> SUFFICES ASSUME NEW i \in 1 .. Len(tail'), NEW j \in 1 .. Len(tail'),
                      Changes(tail'[i]), Changes(tail'[j]), tail'[i].id = tail'[j].id
               PROVE  i = j
    BY DEF WaitingOnce, Changes
  <2>1. i + 1 = j + 1
    BY <1>1 DEF IInv, Kept, WaitingOnce
  <2> QED BY <2>1
<1>3. ASSUME NEW i \in 1 .. Len(tail'), Changes(tail'[i])
      PROVE  /\ tail'[i].id \in Command
             /\ tail'[i].target = made[tail'[i].id] /\ made[tail'[i].id] # None
             /\ fate[tail'[i].id] = "scheduled"
             /\ receipts[tail'[i].id] = None
             /\ unresolved # None => unresolved.id # tail'[i].id
             /\ Changes(Head(tail)) => Head(tail).id # tail'[i].id
  <2>1. i + 1 \in 1 .. Len(tail) /\ tail'[i] = tail[i + 1] /\ 1 \in 1 .. Len(tail)
    BY <1>1
  <2>2. Changes(Head(tail)) => Head(tail).id # tail'[i].id
    BY <1>1, <1>3, <2>1 DEF IInv, Kept, WaitingOnce
  <2> QED BY <1>3, <2>1, <2>2 DEF IInv, Kept, Waiting
<1> QED BY <1>1, <1>2, <1>3

LEMMA KeptRejectNext ==
    ASSUME IInv, RejectNext
    PROVE  Kept'
<1> DEFINE op == Head(tail)
<1>1. /\ UNCHANGED <<receipts, current, sessionEpoch, failed, unresolved, running, call, made>>
      /\ tail # <<>> /\ tail' = Tail(tail)
      /\ fate' = IF op.kind \in Change THEN [fate EXCEPT ![op.id] = "rejected"] ELSE fate
  BY DEF RejectNext, host
<1>2. Changes(op) =>
          /\ op.id \in Command /\ receipts[op.id] = None /\ fate[op.id] = "scheduled"
          /\ unresolved # None => unresolved.id # op.id
  BY <1>1, QueueMovesUp DEF IInv, Kept, Waiting
<1>3. \A c \in Command : fate'[c] # fate[c] =>
          Changes(op) /\ c = op.id /\ fate'[c] = "rejected"
  BY <1>1 DEF IInv, TypeOK, Changes
<1> HIDE DEF op
<1>4. Waiting'
  BY <1>1, <1>3, QueueMovesUp DEF Waiting, Changes, op
<1>5. WaitingOnce'
  BY <1>1, QueueMovesUp
<1>6. EditsLandWhereMade' /\ UnresolvedIsKept' /\ KnownToHost' /\ MadeHasTarget'
  BY <1>1, <1>2, <1>3
     DEF IInv, Kept, EditsLandWhereMade, UnresolvedIsKept, KnownToHost, MadeHasTarget
<1>7. InDoubt'
  BY <1>1, <1>2, <1>3 DEF IInv, Kept, InDoubt, TypeOK, Envelope
<1>8. DoubtIsJustified' /\ QueueFollowsLoad'
  BY <1>1 DEF IInv, Kept, DoubtIsJustified, QueueFollowsLoad
<1> QED BY <1>4, <1>5, <1>6, <1>7, <1>8 DEF Kept

LEMMA KeptStartNext ==
    ASSUME IInv, StartNext
    PROVE  Kept'
<1> DEFINE op == Head(tail)
<1>1. /\ UNCHANGED <<receipts, current, failed, made, fate>>
      /\ tail # <<>> /\ tail' = Tail(tail)
      /\ running = None /\ MayRun(op)
      /\ unresolved' = IF op.kind \in Change THEN EnvelopeOf(op) ELSE unresolved
      /\ op.kind \in Change => UNCHANGED sessionEpoch
      /\ running' = [op |-> op, retry |-> FALSE, answer |-> None]
  BY DEF StartNext, Ask, host, Change
<1>2. unresolved = None
  BY <1>1 DEF IInv, Kept, DoubtIsJustified, MayRun
<1>3. Changes(op) =>
          /\ op.id \in Command /\ op.target = made[op.id] /\ made[op.id] # None
          /\ fate[op.id] = "scheduled" /\ receipts[op.id] = None
  BY <1>1, QueueMovesUp DEF IInv, Kept, Waiting
<1>4. Changes(op) =>
          /\ unresolved' = EnvelopeOf(op) /\ unresolved'.id = op.id
          /\ unresolved' # None
          /\ SameLineage(unresolved', op.target)
          /\ op.target.session = sessionEpoch
  <2>1. Changes(op) => EnvelopeOf(op) \in Envelope
    BY <1>1, QueueMovesUp
       DEF EnvelopeOf, Envelope, State, IInv, Kept, QueueFollowsLoad, TypeOK, Operation, Changes
  <2>2. Changes(op) => TargetHolds(op.target)
    BY <1>1 DEF MayRun, Changes, Change
  <2> QED BY <1>1, <2>1, <2>2 DEF EnvelopeOf, TargetHolds, SameLineage, Changes
<1>5. ~Changes(op) => unresolved' = None
  BY <1>1, <1>2 DEF Changes
<1>6. running'.op = op /\ running' # None
  <2>1. op \in Operation
    BY <1>1, QueueMovesUp
  <2>2. running' \in Running
    BY <1>1, <2>1 DEF Running
  <2> QED BY <1>1, <2>2
<1> HIDE DEF op
<1>7. Waiting'
  BY <1>1, <1>4, <1>5, QueueMovesUp DEF Waiting, Changes, op
<1>8. WaitingOnce'
  BY <1>1, QueueMovesUp
<1>9. EditsLandWhereMade' /\ KnownToHost' /\ MadeHasTarget' /\ QueueFollowsLoad'
  BY <1>1 DEF IInv, Kept, EditsLandWhereMade, KnownToHost, MadeHasTarget, QueueFollowsLoad
<1>10. UnresolvedIsKept'
  BY <1>1, <1>2 DEF IInv, Kept, UnresolvedIsKept
<1>11. InDoubt'
  BY <1>1, <1>3, <1>4, <1>5 DEF InDoubt, Changes
<1>12. DoubtIsJustified'
  BY <1>4, <1>5, <1>6 DEF DoubtIsJustified, Changes
<1> QED BY <1>7, <1>8, <1>9, <1>10, <1>11, <1>12 DEF Kept

\* The queue moves on after an operation that is not a change.
LEMMA KeptReceiveState ==
    ASSUME IInv, ReceiveState
    PROVE  Kept'
<1>1. /\ UNCHANGED <<receipts, failed, unresolved, tail, made, fate>>
      /\ running # None /\ ~Changes(running.op)
      /\ current' \in State /\ running' = None /\ call' = None
  BY DEF ReceiveState, Replied, Install, Installed, Release, host, Changes, Change
<1>2. unresolved = None
  BY <1>1 DEF IInv, Kept, DoubtIsJustified
<1> QED BY <1>1, <1>2
    DEF IInv, Kept, EditsLandWhereMade, UnresolvedIsKept, Waiting, WaitingOnce, InDoubt,
        DoubtIsJustified, KnownToHost, MadeHasTarget, QueueFollowsLoad

LEMMA KeptReceiveSwitch ==
    ASSUME IInv, ReceiveSwitch
    PROVE  Kept'
<1>1. /\ UNCHANGED <<receipts, tail, made, fate>>
      /\ running # None /\ ~Changes(running.op)
      /\ current' \in State /\ running' = None /\ call' = None /\ unresolved' = None
  BY DEF ReceiveSwitch, Replied, Confirmed, Install, Installed, Release, host, Changes, Change
<1>2. unresolved = None
  BY <1>1 DEF IInv, Kept, DoubtIsJustified
<1> QED BY <1>1, <1>2
    DEF IInv, Kept, EditsLandWhereMade, UnresolvedIsKept, Waiting, WaitingOnce, InDoubt,
        DoubtIsJustified, KnownToHost, MadeHasTarget, QueueFollowsLoad

\* A change is confirmed.
LEMMA KeptAcknowledged ==
    ASSUME IInv, ReceiveResult \/ ReceiveReconciled
    PROVE  Kept'
<1> DEFINE c == running.op.id
<1>1. /\ UNCHANGED <<receipts, tail, made>>
      /\ running # None /\ Changes(running.op)
      /\ current' \in State /\ running' = None /\ call' = None /\ unresolved' = None
      /\ fate' = [fate EXCEPT ![c] = "acked"]
  BY DEF ReceiveResult, ReceiveReconciled, Replied, Confirmed, Install, Installed, Release,
         host, Changes
<1>2. unresolved # None /\ unresolved.id = c
  BY <1>1 DEF IInv, Kept, DoubtIsJustified
<1>3. c \in Command /\ made[c] # None /\ fate[c] = "scheduled"
  BY <1>2 DEF IInv, Kept, InDoubt, TypeOK, Envelope
<1>4. /\ fate'[c] = "acked"
      /\ \A other \in Command \ {c} : fate'[other] = fate[other]
  BY <1>1, <1>3 DEF IInv, TypeOK
<1>5. Waiting'
  BY <1>1, <1>2, <1>4 DEF IInv, Kept, Waiting, Changes
<1>6. UnresolvedIsKept'
  BY <1>1, <1>2, <1>4 DEF IInv, Kept, UnresolvedIsKept
<1>7. KnownToHost' /\ MadeHasTarget'
  BY <1>1, <1>3, <1>4 DEF IInv, Kept, KnownToHost, MadeHasTarget
<1>8. (EditsLandWhereMade /\ WaitingOnce /\ InDoubt /\ DoubtIsJustified /\ QueueFollowsLoad)'
  BY <1>1 DEF IInv, Kept, EditsLandWhereMade, WaitingOnce, InDoubt, DoubtIsJustified,
              QueueFollowsLoad
<1> QED BY <1>5, <1>6, <1>7, <1>8 DEF Kept

\* A change fails or its receipt needs a second call; the client keeps it.
LEMMA KeptHeld ==
    ASSUME IInv, ReceiveFailure \/ ReceiveReceipt \/ RetryFailed \/ Load
    PROVE  Kept'
<1>1. UNCHANGED <<receipts, current, sessionEpoch, unresolved, tail, made, fate>>
  BY DEF ReceiveFailure, ReceiveReceipt, RetryFailed, Load, host
<1>2. DoubtIsJustified'
  <2>1. CASE ReceiveFailure
    BY <1>1, <2>1 DEF ReceiveFailure, Release, IInv, Kept, DoubtIsJustified, Changes
  <2>2. CASE ReceiveReceipt
    <3>1. running \in Running /\ running' \in Running /\ running'.op = running.op
      BY <2>2 DEF ReceiveReceipt, Replied, IInv, TypeOK, Running
    <3> QED BY <1>1, <2>2, <3>1
        DEF ReceiveReceipt, Replied, IInv, Kept, DoubtIsJustified, Changes
  <2>3. CASE RetryFailed
    <3> DEFINE op == [kind |-> unresolved.kind, id |-> unresolved.id,
                      target |-> made[unresolved.id], dest |-> None]
    <3>1. unresolved \in Envelope /\ made[unresolved.id] \in Target \cup {None}
      BY <2>3 DEF RetryFailed, IInv, TypeOK, Envelope
    <3>2. op \in Operation /\ Changes(op) /\ op.id = unresolved.id
      BY <3>1 DEF Operation, Kind, Change, Envelope, Changes
    <3>3. Ask(op, TRUE)
      BY <2>3 DEF RetryFailed
    <3> HIDE DEF op
    <3>4. running' \in Running /\ running'.op = op
      BY <3>2, <3>3 DEF Ask, Running
    <3> QED BY <1>1, <2>3, <3>2, <3>4 DEF RetryFailed, DoubtIsJustified
  <2>4. CASE Load
    <3> DEFINE op == [kind |-> "load", id |-> None, target |-> None, dest |-> None]
    <3>1. op \in Operation /\ ~Changes(op)
      BY DEF Operation, Kind, Change, Changes
    <3>2. Ask(op, FALSE)
      BY <2>4 DEF Load
    <3> HIDE DEF op
    <3>3. running' \in Running /\ running'.op = op
      BY <3>1, <3>2 DEF Ask, Running
    <3> QED BY <1>1, <2>4, <3>1, <3>3 DEF Load, DoubtIsJustified
  <2> QED BY <2>1, <2>2, <2>3, <2>4
<1> QED BY <1>1, <1>2
    DEF IInv, Kept, EditsLandWhereMade, UnresolvedIsKept, Waiting, WaitingOnce, InDoubt,
        KnownToHost, MadeHasTarget, QueueFollowsLoad

\* A reload of the page leaves no change in doubt that anyone still waits for.
LEMMA KeptReloadPage ==
    ASSUME IInv, ReloadPage
    PROVE  Kept'
<1>1. /\ UNCHANGED <<receipts, made>>
      /\ tail' = <<>> /\ unresolved' = None /\ running' = None /\ call' = None
      /\ \A c \in Command :
            fate'[c] = IF fate[c] \in {"made", "scheduled"} THEN "gone" ELSE fate[c]
  BY DEF ReloadPage, host
<1>2. \A c \in Command : receipts[c] # None => fate'[c] \in {"acked", "gone"}
  BY <1>1 DEF IInv, Kept, UnresolvedIsKept, InDoubt, TypeOK, Envelope
<1>3. Waiting' /\ WaitingOnce' /\ QueueFollowsLoad'
  BY <1>1 DEF Waiting, WaitingOnce, QueueFollowsLoad
<1>4. EditsLandWhereMade' /\ UnresolvedIsKept' /\ KnownToHost' /\ MadeHasTarget'
  BY <1>1, <1>2
     DEF IInv, Kept, EditsLandWhereMade, UnresolvedIsKept, KnownToHost, MadeHasTarget
<1>5. InDoubt' /\ DoubtIsJustified'
  BY <1>1 DEF InDoubt, DoubtIsJustified
<1> QED BY <1>3, <1>4, <1>5 DEF Kept

-----------------------------------------------------------------------------
\* Every step keeps the invariant.
LEMMA StepKeeps ==
    ASSUME IInv, [Next]_vars
    PROVE  IInv'
<1>1. CASE \E lost \in BOOLEAN : HostAnswers(lost)
  BY <1>1, TypesHostAnswers, KeptHostAnswers DEF IInv
<1>2. CASE HostRefuses
  <2>1. Kept'
    BY <1>2, KeptUntouched DEF HostRefuses, host, Asking, IInv, Kept, DoubtIsJustified
  <2> QED BY <1>2, <2>1, TypesClient DEF IInv
<1>3. CASE Others
  <2>1. UNCHANGED receipts
    BY <1>3 DEF Others, OthersEdit, OthersCommit, Activate, MoveTo
  <2>2. Kept'
    BY <1>3, <2>1, KeptUntouched DEF Others, client
  <2> QED BY <1>3, <2>2, TypesOthers DEF IInv
<1>4. CASE \E c \in Command : Make(c)
  BY <1>4, TypesScheduling, KeptMake DEF IInv
<1>5. CASE \E kind \in Change, c \in Command : ScheduleChange(kind, c)
  BY <1>5, TypesScheduling, KeptScheduleChange DEF IInv
<1>6. CASE ScheduleReload
  <2> DEFINE op == [kind |-> "reload", id |-> None, target |-> None, dest |-> None]
  <2>1. op \in Operation /\ ~Changes(op)
    BY DEF Operation, Kind, Change, Changes
  <2>2. Enqueue(op) /\ UNCHANGED fate
    BY <1>6 DEF ScheduleReload
  <2> HIDE DEF op
  <2> QED BY <1>6, <2>1, <2>2, TypesScheduling, KeptScheduleOther DEF IInv
<1>7. CASE \/ \E d \in Document : ScheduleSwitch("switch", d)
           \/ \E k \in Context : ScheduleSwitch("context", k)
  <2>1. PICK kind \in {"switch", "context"}, dest \in Document \cup Context :
            /\ ScheduleSwitch(kind, dest)
            /\ kind = "switch" => dest \in Document
            /\ kind = "context" => dest \in Context
    BY <1>7
  <2> DEFINE op == [kind |-> kind, id |-> None, target |-> Captured, dest |-> dest]
  <2>2. Captured \in Target
    BY <2>1, CapturedType DEF ScheduleSwitch, IInv
  <2>3. op \in Operation /\ ~Changes(op)
    BY <2>1, <2>2 DEF Operation, Kind, Change, Changes
  <2>4. Enqueue(op) /\ UNCHANGED fate
    BY <2>1 DEF ScheduleSwitch
  <2> HIDE DEF op
  <2> QED BY <1>7, <2>3, <2>4, TypesScheduling, KeptScheduleOther DEF IInv
<1>8. CASE ClientStep
  BY <1>8, TypesClient, KeptStartNext, KeptRejectNext, KeptReceiveState, KeptReceiveSwitch,
     KeptAcknowledged, KeptHeld DEF ClientStep, IInv
<1>9. CASE RetryFailed
  BY <1>9, TypesClient, KeptHeld DEF IInv
<1>10. CASE ReloadPage
  BY <1>10, TypesClient, KeptReloadPage DEF IInv
<1>11. CASE UNCHANGED vars
  BY <1>11
     DEF vars, host, client, IInv, TypeOK, Kept, EditsLandWhereMade, UnresolvedIsKept,
         Waiting, WaitingOnce, InDoubt, DoubtIsJustified, KnownToHost, MadeHasTarget,
         QueueFollowsLoad
<1> QED BY <1>1, <1>2, <1>3, <1>4, <1>5, <1>6, <1>7, <1>8, <1>9, <1>10, <1>11 DEF Next

\* The strengthened invariant holds in every state.
LEMMA AlwaysIInv == Spec => []IInv
<1>1. Init => IInv
  BY InitEstablishes
<1>2. IInv /\ [Next]_vars => IInv'
  BY StepKeeps
<1> QED BY <1>1, <1>2, PTL DEF Spec

\* The client and the host stay in the states their types allow, whatever is
\* lost, refused, reloaded or changed by others.
THEOREM TypesHold == Spec => []TypeOK
<1>1. IInv => TypeOK
  BY DEF IInv
<1> QED BY <1>1, AlwaysIInv, PTL

\* A change reaches the host only on the document, context and head it was made
\* on: submit, applyImport and retryFailed never carry an edit of one résumé
\* into another.
THEOREM ChangesStayHome == Spec => []EditsLandWhereMade
<1>1. IInv => EditsLandWhereMade
  BY DEF IInv, Kept
<1> QED BY <1>1, AlwaysIInv, PTL

\* A change the host carried out and its caller does not know of is the one held
\* in failedEnvelope or failedImportRequest, until it is resolved or the page is
\* reloaded.
THEOREM NoDoubtIsForgotten == Spec => []UnresolvedIsKept
<1>1. IInv => UnresolvedIsKept
  BY DEF IInv, Kept
<1> QED BY <1>1, AlwaysIInv, PTL

\* A change reaches the host only in the session epoch it was made in.
THEOREM ChangesStayInTheirSession == Spec => EditsLandInTheirSession
<1> DEFINE Lands == \A c \in Command :
               receipts[c] = None /\ receipts'[c] # None => made[c].session = sessionEpoch
<1>1. IInv /\ [Next]_vars => [Lands]_vars
  <2> SUFFICES ASSUME IInv, [Next]_vars, vars' # vars PROVE Lands
    OBVIOUS
  <2>1. CASE \E lost \in BOOLEAN : HostAnswers(lost)
    <3>1. PICK lost \in BOOLEAN : HostAnswers(lost)
      BY <2>1
    <3>2. ASSUME NEW c \in Command, receipts[c] = None, receipts'[c] # None
          PROVE  unresolved # None /\ unresolved.id = c
      BY <3>1, <3>2, OneReceipt DEF IInv, TypeOK
    <3> QED BY <3>2 DEF IInv, Kept, InDoubt
  <2>2. CASE ~\E lost \in BOOLEAN : HostAnswers(lost)
    <3>1. UNCHANGED receipts
      BY <2>2
         DEF Next, HostRefuses, Others, OthersEdit, OthersCommit, Activate, MoveTo, Make,
             ScheduleChange, ScheduleReload, ScheduleSwitch, Enqueue, ClientStep, Load,
             StartNext, RejectNext, ReceiveState, ReceiveSwitch, ReceiveResult,
             ReceiveReceipt, ReceiveReconciled, ReceiveFailure, RetryFailed, ReloadPage, host
    <3> QED BY <3>1
  <2> QED BY <2>1, <2>2
<1>2. []IInv /\ [][Next]_vars => [][Lands]_vars
  BY <1>1, PTL
<1> QED BY <1>2, AlwaysIInv, PTL DEF Spec, EditsLandInTheirSession
-----------------------------------------------------------------------------
(* What the client knows of the host.  A revision is never used twice, so   *)
(* a state the host has handed out stays true of it: it is of an earlier    *)
(* revision, or it is what the host still has.                              *)

TrueOf(state, rows) ==
    LET row == rows[state.document]
    IN  /\ state.revision <= row.revision
        /\ state.revision = row.revision =>
             /\ state.context = row.context
             /\ state.head = row.heads[row.context]
             /\ state.content = row.drafts[row.context]

\* Every state anyone holds is true of the host.
HeldIsTrue ==
    /\ current # None => TrueOf(current, docs)
    /\ call \in State => TrueOf(call, docs)
    /\ \A c \in Command : receipts[c] # None => TrueOf(receipts[c], docs)

\* A change that is sent for the first time has no receipt yet.
FirstSend ==
    /\ running # None /\ Changes(running.op) /\ call = Asked
    /\ ~running.retry /\ running.answer = None
    => receipts[unresolved.id] = None

\* A reply is the host's present state, unless others have changed that since
\* the call was sent, or it is the receipt of a change sent again.
ReplyIsPresent ==
    running # None /\ call \in State /\ ~touched
    => \/ call = HostState
       \/ Changes(running.op) /\ running.retry /\ running.answer = None

Known == HeldIsTrue /\ FirstSend /\ ReplyIsPresent /\ SavedMeansInStep

\* What the host has is true of it.
LEMMA PresentIsTrue ==
    ASSUME NEW rows \in [Document -> Row], NEW d \in Document, NEW e \in Nat
    PROVE  LET row == rows[d]
           IN  TrueOf([document |-> d, context |-> row.context,
                       head |-> row.heads[row.context], revision |-> row.revision,
                       content |-> row.drafts[row.context], epoch |-> e], rows)
  BY DEF TrueOf, Row

LEMMA HostStateIsTrue == TypeOK => HostState \in State /\ TrueOf(HostState, docs)
  BY PresentIsTrue, HostStateType DEF TypeOK, HostState

LEMMA HostStateStaysTrue == TypeOK' => HostState' \in State /\ TrueOf(HostState', docs')
  BY PresentIsTrue, HostStateType DEF TypeOK, HostState

\* An advance takes a new revision, so what was true stays true.
LEMMA AdvanceKeepsTruth ==
    ASSUME TypeOK, NEW k, NEW heads, NEW drafts, Advance(k, heads, drafts)
    PROVE  \A s \in State : TrueOf(s, docs) => TrueOf(s, docs')
<1> SUFFICES ASSUME NEW s \in State, TrueOf(s, docs) PROVE TrueOf(s, docs')
  OBVIOUS
<1>1. /\ s.document \in Document /\ s.revision \in Nat
      /\ docs \in [Document -> Row] /\ active \in Document
  BY DEF State, TypeOK
<1>2. docs[s.document].revision \in Nat /\ s.revision <= docs[s.document].revision
  BY <1>1 DEF Row, TrueOf
<1>3. CASE s.document = active
  <2>1. docs'[active].revision = docs[active].revision + 1
    BY <1>1 DEF Advance
  <2> QED BY <1>1, <1>2, <1>3, <2>1 DEF TrueOf
<1>4. CASE s.document # active
  <2>1. docs'[s.document] = docs[s.document]
    BY <1>1, <1>4 DEF Advance
  <2> QED BY <2>1 DEF TrueOf
<1> QED BY <1>3, <1>4

\* What was true stays true in every step.
LEMMA TruthStays ==
    ASSUME IInv, [Next]_vars
    PROVE  \A s \in State : TrueOf(s, docs) => TrueOf(s, docs')
<1>0. TypeOK
  BY DEF IInv
<1>1. CASE \E lost \in BOOLEAN : HostAnswers(lost)
  <2>1. PICK lost \in BOOLEAN : HostAnswers(lost)
    BY <1>1
  <2>2. CASE ServeState(lost) \/ ServeReceipt(unresolved, lost)
    BY <2>2 DEF ServeState, ServeReceipt, host
  <2>3. CASE ServeCommand(unresolved, lost)
    BY <1>0, <2>3, AdvanceKeepsTruth DEF ServeCommand, Edit
  <2>4. CASE ServeSwitch(running.op, lost)
    BY <1>0, <2>4, AdvanceKeepsTruth DEF ServeSwitch, MoveTo
  <2>5. CASE ServeContext(running.op, lost)
    BY <1>0, <2>5, AdvanceKeepsTruth DEF ServeContext, Activate
  <2> QED BY <2>1, <2>2, <2>3, <2>4, <2>5 DEF HostAnswers
<1>2. CASE Others
  <2>1. CASE OthersEdit
    BY <1>0, <2>1, AdvanceKeepsTruth DEF OthersEdit, Edit
  <2>2. CASE OthersCommit
    BY <1>0, <2>2, AdvanceKeepsTruth DEF OthersCommit
  <2>3. CASE \E k \in Context : Activate(k)
    BY <1>0, <2>3, AdvanceKeepsTruth DEF Activate
  <2>4. CASE \E d \in Document : MoveTo(d)
    BY <1>0, <2>4, AdvanceKeepsTruth DEF MoveTo
  <2> QED BY <1>2, <2>1, <2>2, <2>3, <2>4 DEF Others
<1>3. CASE ~(\E lost \in BOOLEAN : HostAnswers(lost)) /\ ~Others
  <2>1. UNCHANGED docs
    BY <1>3
       DEF Next, HostRefuses, Make, ScheduleChange, ScheduleReload, ScheduleSwitch, Enqueue,
           ClientStep, Load, StartNext, RejectNext, ReceiveState, ReceiveSwitch,
           ReceiveResult, ReceiveReceipt, ReceiveReconciled, ReceiveFailure, RetryFailed,
           ReloadPage, host, vars
  <2> QED BY <2>1
<1> QED BY <1>1, <1>2, <1>3

\* A command carried out leaves the host in the state it replies with.
LEMMA CommandReply ==
    ASSUME TypeOK, NEW lost \in BOOLEAN, unresolved \in Envelope,
           ServeCommand(unresolved, lost)
    PROVE  /\ receipts' = [receipts EXCEPT ![unresolved.id] = HostState']
           /\ call' = IF lost THEN Failed ELSE HostState'
<1> DEFINE row == docs[active]
           content == HostState.content \cup {unresolved.id}
           drafts == [row.drafts EXCEPT ![row.context] = content]
           result == [document |-> active, context |-> HostState.context,
                      head |-> HostState.head, revision |-> HostState.revision + 1,
                      content |-> content, epoch |-> hostEpoch]
<1>1. /\ receipts' = [receipts EXCEPT ![unresolved.id] = result]
      /\ call' = IF lost THEN Failed ELSE result
      /\ UNCHANGED <<active, hostEpoch>>
  BY DEF ServeCommand, Reply
<1>2. /\ docs \in [Document -> Row] /\ active \in Document
      /\ row.drafts \in [Context -> Content] /\ row.context \in Context
  BY DEF TypeOK, Row
<1>3. docs'[active] = [context |-> row.context, revision |-> row.revision + 1,
                       heads |-> row.heads, drafts |-> drafts]
  BY <1>2 DEF ServeCommand, Edit, Advance
<1>4. drafts[row.context] = content
  BY <1>2
<1> HIDE DEF drafts
<1>5. result = HostState'
  <2>1. HostState' = [document |-> active', context |-> docs'[active'].context,
                      head |-> docs'[active'].heads[docs'[active'].context],
                      revision |-> docs'[active'].revision,
                      content |-> docs'[active'].drafts[docs'[active'].context],
                      epoch |-> hostEpoch']
    BY DEF HostState
  <2>2. /\ docs'[active'].context = row.context /\ docs'[active'].heads = row.heads
        /\ docs'[active'].revision = row.revision + 1 /\ docs'[active'].drafts = drafts
    BY <1>1, <1>3
  <2>3. /\ HostState.context = row.context /\ HostState.head = row.heads[row.context]
        /\ HostState.revision = row.revision
    BY DEF HostState
  <2> QED BY <1>1, <1>4, <2>1, <2>2, <2>3
<1> HIDE DEF result
<1> QED BY <1>1, <1>5

\* What the host answers: nothing; its state at that moment; or, to a change it
\* has carried out before, the receipt.
LEMMA Answered ==
    ASSUME IInv, FirstSend, NEW lost \in BOOLEAN, HostAnswers(lost)
    PROVE  \/ call' = Failed
           \/ call' = HostState'
           \/ /\ Changes(running.op) /\ running.answer = None /\ running.retry
              /\ \E c \in Command : receipts[c] # None /\ call' = receipts[c]
<1>0. /\ TypeOK /\ running # None /\ call = Asked
  BY DEF IInv, Kept, DoubtIsJustified, HostAnswers, Asking
<1>1. CASE ServeState(lost)
  <2>1. HostState' = HostState
    BY <1>1 DEF ServeState, host, HostState
  <2> QED BY <1>1, <2>1 DEF ServeState, Reply
<1>2. CASE Changes(running.op) /\ running.answer = None /\ ServeCommand(unresolved, lost)
  <2>1. unresolved \in Envelope
    BY <1>0, <1>2 DEF IInv, Kept, DoubtIsJustified, TypeOK
  <2> QED BY <1>0, <1>2, <2>1, CommandReply
<1>3. CASE Changes(running.op) /\ running.answer = None /\ ServeReceipt(unresolved, lost)
  <2>1. unresolved.id \in Command
    BY <1>0, <1>3 DEF IInv, Kept, DoubtIsJustified, TypeOK, Envelope
  <2>2. receipts[unresolved.id] # None
    BY <1>3 DEF ServeReceipt
  <2>3. running.retry
    BY <1>0, <1>3, <2>2 DEF FirstSend
  <2> QED BY <1>3, <2>1, <2>2, <2>3 DEF ServeReceipt, Reply
<1>4. CASE ServeSwitch(running.op, lost) \/ ServeContext(running.op, lost)
  BY <1>4 DEF ServeSwitch, ServeContext, Reply
<1> QED BY <1>1, <1>2, <1>3, <1>4 DEF HostAnswers, AsksState, Changes

\* What a step stores is true of the host.
LEMMA KnownHeldIsTrue ==
    ASSUME IInv, IInv', Known, [Next]_vars
    PROVE  HeldIsTrue'
<1>0. /\ TypeOK /\ TypeOK' /\ HeldIsTrue
      /\ \A s \in State : TrueOf(s, docs) => TrueOf(s, docs')
      /\ HostState' \in State /\ TrueOf(HostState', docs')
  BY TruthStays, HostStateStaysTrue DEF IInv, Known
<1>1. /\ current # None => TrueOf(current, docs')
      /\ call \in State => TrueOf(call, docs')
      /\ \A c \in Command : receipts[c] # None => TrueOf(receipts[c], docs')
  BY <1>0 DEF HeldIsTrue, TypeOK
<1>2. CASE \E lost \in BOOLEAN : HostAnswers(lost)
  <2>1. PICK lost \in BOOLEAN : HostAnswers(lost)
    BY <1>2
  <2>2. current' = current
    BY <2>1 DEF HostAnswers
  <2>3. call' \in State => TrueOf(call', docs')
    BY <1>0, <1>1, <2>1, Answered DEF Known
  <2>4. ASSUME NEW c \in Command, receipts'[c] # None
        PROVE  TrueOf(receipts'[c], docs')
    <3>1. CASE receipts'[c] = receipts[c]
      BY <1>1, <2>4, <3>1
    <3>2. CASE receipts'[c] # receipts[c]
      <4>1. /\ running # None /\ Changes(running.op) /\ ServeCommand(unresolved, lost)
        BY <2>1, <3>2
           DEF HostAnswers, ServeState, ServeReceipt, ServeSwitch, ServeContext, MoveTo,
               Activate, host, Changes, IInv, Kept, DoubtIsJustified, Asking
      <4>2. unresolved \in Envelope /\ unresolved.id \in Command
        BY <1>0, <4>1 DEF IInv, Kept, DoubtIsJustified, TypeOK, Envelope
      <4>3. receipts' = [receipts EXCEPT ![unresolved.id] = HostState']
        BY <1>0, <4>1, <4>2, CommandReply
      <4>4. receipts'[c] = HostState'
        BY <1>0, <3>2, <4>2, <4>3 DEF TypeOK
      <4> QED BY <1>0, <4>4
    <3> QED BY <3>1, <3>2
  <2> QED BY <1>1, <2>2, <2>3, <2>4 DEF HeldIsTrue
<1>3. CASE ~\E lost \in BOOLEAN : HostAnswers(lost)
  <2>1. UNCHANGED receipts
    BY <1>3
       DEF Next, HostRefuses, Others, OthersEdit, OthersCommit, Activate, MoveTo, Make,
           ScheduleChange, ScheduleReload, ScheduleSwitch, Enqueue, ClientStep, Load,
           StartNext, RejectNext, ReceiveState, ReceiveSwitch, ReceiveResult,
           ReceiveReceipt, ReceiveReconciled, ReceiveFailure, RetryFailed, ReloadPage,
           host, vars
  <2>2. call' = call \/ call' \in {None, Asked, Failed}
    BY <1>3
       DEF Next, HostRefuses, Others, Make, ScheduleChange, ScheduleReload, ScheduleSwitch,
           Enqueue, ClientStep, Load, StartNext, RejectNext, ReceiveState, ReceiveSwitch,
           ReceiveResult, ReceiveReceipt, ReceiveReconciled, ReceiveFailure, RetryFailed,
           ReloadPage, Ask, Confirmed, client, vars
  <2>3. current' = current \/ current' = None \/ (call \in State /\ current' = call)
    BY <1>3
       DEF Next, HostRefuses, Others, Make, ScheduleChange, ScheduleReload, ScheduleSwitch,
           Enqueue, ClientStep, Load, StartNext, RejectNext, ReceiveState, ReceiveSwitch,
           ReceiveResult, ReceiveReceipt, ReceiveReconciled, ReceiveFailure, RetryFailed,
           ReloadPage, Replied, Confirmed, Install, Installed, client, vars
  <2> QED BY <1>1, <2>1, <2>2, <2>3 DEF HeldIsTrue
<1> QED BY <1>2, <1>3

\* The host's state changes only in a call and by others.
LEMMA HostChanges ==
    ASSUME [Next]_vars, ~(\E lost \in BOOLEAN : HostAnswers(lost)), ~Others
    PROVE  UNCHANGED host /\ HostState' = HostState
<1>1. UNCHANGED host
  BY DEF Next, HostRefuses, Make, ScheduleChange, ScheduleReload, ScheduleSwitch, Enqueue,
         ClientStep, Load, StartNext, RejectNext, ReceiveState, ReceiveSwitch, ReceiveResult,
         ReceiveReceipt, ReceiveReconciled, ReceiveFailure, RetryFailed, ReloadPage, host, vars
<1> QED BY <1>1 DEF host, HostState

LEMMA KnownFirstSend ==
    ASSUME IInv, IInv', Known, [Next]_vars
    PROVE  FirstSend'
<1>0. TypeOK /\ FirstSend
  BY DEF IInv, Known
<1>1. CASE \E lost \in BOOLEAN : HostAnswers(lost)
  <2>1. call' # Asked
    <3>1. PICK lost \in BOOLEAN : HostAnswers(lost)
      BY <1>1
    <3>2. HostState' \in State
      BY HostStateStaysTrue DEF IInv
    <3> QED BY <1>0, <3>1, <3>2, Answered DEF TypeOK
  <2> QED BY <2>1 DEF FirstSend
<1>2. CASE StartNext
  <2> DEFINE op == Head(tail)
  <2>1. tail # <<>> /\ running = None /\ running' = [op |-> op, retry |-> FALSE, answer |-> None]
    BY <1>2 DEF StartNext, Ask
  <2>2. Changes(op) => receipts[op.id] = None /\ unresolved'.id = op.id
    <3>1. 1 \in 1 .. Len(tail) /\ tail[1] = op
      BY <1>0, <2>1 DEF TypeOK
    <3>2. Changes(op) => unresolved' = EnvelopeOf(op)
      BY <1>2 DEF StartNext, Changes
    <3> QED BY <3>1, <3>2 DEF IInv, Kept, Waiting, EnvelopeOf
  <2>3. UNCHANGED receipts
    BY <1>2 DEF StartNext, host
  <2> HIDE DEF op
  <2> QED BY <2>1, <2>2, <2>3 DEF FirstSend
<1>3. CASE Load
  <2>1. running'.op.kind = "load"
    BY <1>3 DEF Load, Ask
  <2> QED BY <2>1 DEF FirstSend, Changes, Change
<1>4. CASE RetryFailed
  <2>1. running'.retry
    BY <1>4 DEF RetryFailed, Ask
  <2> QED BY <2>1 DEF FirstSend
<1>5. CASE ReceiveReceipt
  <2>1. running'.answer \in State
    BY <1>5 DEF ReceiveReceipt, Replied
  <2> QED BY <2>1 DEF FirstSend
<1>6. CASE ~(\E lost \in BOOLEAN : HostAnswers(lost)) /\ ~StartNext /\ ~Load /\ ~RetryFailed
           /\ ~ReceiveReceipt
  <2>1. \/ running' = None
        \/ call' = Failed
        \/ UNCHANGED <<running, call, unresolved, receipts>>
    BY <1>6
       DEF Next, HostRefuses, Others, OthersEdit, OthersCommit, Activate, MoveTo, Make,
           ScheduleChange, ScheduleReload, ScheduleSwitch, Enqueue, ClientStep, RejectNext,
           ReceiveState, ReceiveSwitch, ReceiveResult, ReceiveReconciled, ReceiveFailure,
           ReloadPage, Confirmed, Release, host, client, vars
  <2> QED BY <1>0, <2>1 DEF FirstSend, Changes
<1> QED BY <1>1, <1>2, <1>3, <1>4, <1>5, <1>6

LEMMA KnownReplyIsPresent ==
    ASSUME IInv, IInv', Known, [Next]_vars
    PROVE  ReplyIsPresent'
<1>0. ReplyIsPresent
  BY DEF Known
<1>1. CASE \E lost \in BOOLEAN : HostAnswers(lost)
  <2>1. PICK lost \in BOOLEAN : HostAnswers(lost)
    BY <1>1
  <2>2. running' = running
    BY <2>1 DEF HostAnswers
  <2> QED BY <2>1, <2>2, Answered DEF Known, ReplyIsPresent, Changes
<1>2. CASE Others
  <2>1. touched'
    BY <1>2 DEF Others
  <2> QED BY <2>1 DEF ReplyIsPresent
<1>3. CASE ~(\E lost \in BOOLEAN : HostAnswers(lost)) /\ ~Others
  <2>1. HostState' = HostState
    BY <1>3, HostChanges
  <2>2. \/ running' = None
        \/ call' \in {Asked, Failed}
        \/ UNCHANGED <<running, call, touched>>
    BY <1>3
       DEF Next, HostRefuses, Make, ScheduleChange, ScheduleReload, ScheduleSwitch, Enqueue,
           ClientStep, Load, StartNext, RejectNext, ReceiveState, ReceiveSwitch,
           ReceiveResult, ReceiveReceipt, ReceiveReconciled, ReceiveFailure, RetryFailed,
           ReloadPage, Ask, Confirmed, Release, host, client, vars
  <2> QED BY <1>0, <2>1, <2>2 DEF ReplyIsPresent, Changes
<1> QED BY <1>1, <1>2, <1>3

\* "Saved" is said when a present state is installed, and unsaid before the next
\* call is sent.
LEMMA KnownSavedMeansInStep ==
    ASSUME IInv, IInv', Known, [Next]_vars
    PROVE  SavedMeansInStep'
<1>0. SavedMeansInStep /\ ReplyIsPresent
  BY DEF Known
<1>1. CASE \E lost \in BOOLEAN : HostAnswers(lost)
  <2>1. running' # None
    BY <1>1 DEF HostAnswers, Asking, IInv, Kept, DoubtIsJustified
  <2> QED BY <2>1 DEF SavedMeansInStep
<1>2. CASE Others
  <2>1. touched'
    BY <1>2 DEF Others
  <2> QED BY <2>1 DEF SavedMeansInStep
<1>3. CASE ReceiveSwitch \/ ReceiveResult \/ ReceiveReconciled
  <2>1. HostState' = HostState
    BY <1>3 DEF ReceiveSwitch, ReceiveResult, ReceiveReconciled, host, HostState
  <2>2. /\ running # None /\ call \in State /\ touched' = touched /\ current' = call
        /\ ~(Changes(running.op) /\ running.retry /\ running.answer = None)
    BY <1>3
       DEF ReceiveSwitch, ReceiveResult, ReceiveReconciled, Replied, Confirmed, Install,
           Installed, NeedsState, Changes, Change
  <2> QED BY <1>0, <2>1, <2>2 DEF SavedMeansInStep, ReplyIsPresent
<1>4. CASE /\ ~(\E lost \in BOOLEAN : HostAnswers(lost)) /\ ~Others
           /\ ~(ReceiveSwitch \/ ReceiveResult \/ ReceiveReconciled)
  <2>1. HostState' = HostState
    BY <1>4, HostChanges
  <2>2. \/ running' # None
        \/ status' # "saved"
        \/ touched'
        \/ UNCHANGED <<running, status, touched, current>>
    <3>1. CASE StartNext \/ Load \/ RetryFailed \/ ReceiveReceipt
      <4>1. call' = Asked
        BY <3>1 DEF StartNext, Load, RetryFailed, ReceiveReceipt, Ask
      <4> QED BY <4>1 DEF IInv, Kept, DoubtIsJustified
    <3>2. CASE ~(StartNext \/ Load \/ RetryFailed \/ ReceiveReceipt)
      BY <1>4, <3>2
         DEF Next, HostRefuses, Make, ScheduleChange, ScheduleReload, ScheduleSwitch, Enqueue,
             ClientStep, RejectNext, ReceiveState, ReceiveFailure, ReloadPage, Release,
             client, vars
    <3> QED BY <3>1, <3>2
  <2> QED BY <1>0, <2>1, <2>2 DEF SavedMeansInStep
<1> QED BY <1>1, <1>2, <1>3, <1>4

\* Every step keeps what the client knows.
LEMMA KnownIsKept == IInv /\ Known /\ [Next]_vars => Known'
<1> SUFFICES ASSUME IInv, Known, [Next]_vars PROVE Known'
  OBVIOUS
<1>1. IInv'
  BY StepKeeps
<1> QED BY <1>1, KnownHeldIsTrue, KnownFirstSend, KnownReplyIsPresent, KnownSavedMeansInStep
        DEF Known

LEMMA KnownAtFirst == Init => Known
  BY DEF Init, Known, HeldIsTrue, FirstSend, ReplyIsPresent, SavedMeansInStep

\* The client never shows the content of one revision under another, is never
\* ahead of the host, and says "saved" only of what the host has now: installState,
\* and the document_state that follows a receipt.
THEOREM ClientNeverDrifts == Spec => []ClientKnowsHost
<1>1. IInv /\ Known => ClientKnowsHost
  BY DEF Known, HeldIsTrue, TrueOf, ClientKnowsHost, OneStatePerRevision
<1>2. Init => Known
  BY KnownAtFirst
<1>3. IInv /\ Known /\ [Next]_vars => Known'
  BY KnownIsKept
<1> QED BY <1>1, <1>2, <1>3, AlwaysIInv, PTL DEF Spec

=============================================================================
