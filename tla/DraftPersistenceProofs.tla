----------------------- MODULE DraftPersistenceProofs -----------------------
(***************************************************************************)
(* For any edits, any number of operations and attempts, and a queue of any *)
(* length: the types hold whatever operations are started and whatever      *)
(* another window does; and with commits and closes in one window, what the *)
(* hook takes for saved is saved, so every operation finds it so.           *)
(***************************************************************************)
EXTENDS DraftPersistence, TLAPS

\* A flush is on the queue only while its operation waits for it, and once.  A
\* version action has its job on the queue until it is over, at the head of the
\* queue once it has had its turn.
Queued(q, op) ==
    /\ q \in Seq(Job) /\ op \in Operation
    /\ \A i \in DOMAIN q : q[i].flush => q[i].kind = "save" /\ op.phase = "flush"
    /\ \A i, j \in DOMAIN q : q[i].flush /\ q[j].flush => i = j
    /\ op.phase = "wait" => op.kind \in Versions /\ \E i \in DOMAIN q : q[i].kind = "action"
    /\ op.kind \in Versions /\ op.phase \in {"act", "reload", "hydrate", "again"} =>
          1 \in DOMAIN q /\ q[1].kind = "action"

IInv == TypeOK /\ Queued(queue, operation)

USE Assumption DEF Versions, Operations, Labels

Phases == {"flush", "wait", "act", "reload", "hydrate", "again"}

-----------------------------------------------------------------------------
(* Records and sequences.                                                  *)

\* What operations are.
LEMMA OperationFields ==
    ASSUME NEW op \in Operation
    PROVE  /\ op = Idle \/ (op.kind \in Operations /\ op.phase \in Phases
                             /\ op.attempt \in 1 .. MaxAttempts /\ op.loaded \in Draft)
           /\ op = Idle => op.kind = "none" /\ op.phase = "idle"
  BY DEF Operation, Idle, Phases

\* An operation in progress goes from phase to phase.
LEMMA OperationMoves ==
    ASSUME NEW op \in Operation, op # Idle, NEW p \in Phases
    PROVE  /\ [op EXCEPT !.phase = p] \in Operation
           /\ [op EXCEPT !.phase = p].phase = p /\ [op EXCEPT !.phase = p].kind = op.kind
  BY DEF Operation, Idle, Phases

\* It keeps what has been loaded.
LEMMA OperationLoads ==
    ASSUME NEW op \in Operation, op # Idle, NEW p \in Phases, NEW d \in Draft
    PROVE  /\ [op EXCEPT !.phase = p, !.loaded = d] \in Operation
           /\ [op EXCEPT !.phase = p, !.loaded = d].phase = p
           /\ [op EXCEPT !.phase = p, !.loaded = d].kind = op.kind
  BY DEF Operation, Idle, Phases

\* It tries again.
LEMMA OperationRetries ==
    ASSUME NEW op \in Operation, op # Idle, op.attempt < MaxAttempts
    PROVE  /\ [op EXCEPT !.attempt = @ + 1] \in Operation
           /\ [op EXCEPT !.attempt = @ + 1].phase = op.phase
           /\ [op EXCEPT !.attempt = @ + 1].kind = op.kind
  BY DEF Operation, Idle

\* The head of the queue, and what is behind it.
LEMMA Leaving ==
    ASSUME NEW q \in Seq(Job), q # <<>>, NEW r, r = Tail(q)
    PROVE  /\ q[1] \in Job /\ Head(q) = q[1] /\ 1 \in DOMAIN q
           /\ r \in Seq(Job)
           /\ \A i \in DOMAIN r : i \in Nat /\ i + 1 \in DOMAIN q /\ r[i] = q[i + 1]
           /\ \A i \in DOMAIN q : i \in Nat /\ (i # 1 => i - 1 \in DOMAIN r /\ r[i - 1] = q[i])
  OBVIOUS

\* A job joins the queue: all others stay where they are.
LEMMA Joining ==
    ASSUME NEW q \in Seq(Job), NEW j \in Job, NEW r, r = Append(q, j)
    PROVE  /\ r \in Seq(Job) /\ r # <<>>
           /\ \E n \in DOMAIN r : /\ n \notin DOMAIN q /\ r[n] = j /\ (q = <<>> => n = 1)
                                 /\ DOMAIN r = DOMAIN q \cup {n}
           /\ \A i \in DOMAIN q : r[i] = q[i] /\ i \in Nat
           /\ q # <<>> => 1 \in DOMAIN q
<1>1. Len(q) \in Nat /\ DOMAIN q = 1 .. Len(q) /\ DOMAIN r = 1 .. (Len(q) + 1)
  OBVIOUS
<1>2. r[Len(q) + 1] = j
  OBVIOUS
<1>3. q = <<>> => Len(q) = 0
  OBVIOUS
<1>4. DOMAIN r = DOMAIN q \cup {Len(q) + 1} /\ Len(q) + 1 \notin DOMAIN q
  BY <1>1
<1>5. r \in Seq(Job) /\ r # <<>> /\ \A i \in DOMAIN q : r[i] = q[i]
  OBVIOUS
<1>6. q # <<>> => 1 \in DOMAIN q
  OBVIOUS
<1> QED BY <1>1, <1>2, <1>3, <1>4, <1>5, <1>6

\* The jobs that the hook makes.
LEMMA JobsMade ==
    ASSUME TypeOK, NEW flush \in BOOLEAN
    PROVE  /\ SaveJob(flush) \in Job /\ SaveJob(flush).kind = "save"
           /\ SaveJob(flush).flush = flush /\ SaveJob(flush).snapshot = shown
           /\ ActionJob \in Job /\ ActionJob.kind = "action" /\ ActionJob.flush = FALSE
           /\ ActionJob.snapshot = shown
  BY DEF TypeOK, SaveJob, ActionJob, Job

\* The commands that may be sent are envelopes.
LEMMA CommandsAreEnvelopes ==
    ASSUME TypeOK, queue # <<>>, NEW envelope \in ToSend
    PROVE  envelope \in Envelope
<1>1. CASE failure # None
  BY <1>1 DEF TypeOK, ToSend
<1>2. CASE failure = None
  <2>1. Job1.snapshot.content \in Content
    BY Leaving DEF TypeOK, Job1, Job, Snapshot
  <2>2. /\ envelope \in [revision: {known.revision}, content: Content]
    <3>1. envelope \in NextCommands(Job1.snapshot.content)
      BY <1>2 DEF ToSend
    <3>2. known.content \in Content
      BY DEF TypeOK, Draft
    <3>3. /\ {known.content \cup {x} : x \in Job1.snapshot.content \ known.content} \subseteq Content
          /\ {known.content \ {x} : x \in known.content \ Job1.snapshot.content} \subseteq Content
      BY <2>1, <3>2 DEF Content
    <3> QED BY <3>1, <3>3 DEF NextCommands
  <2>3. known.revision \in Nat
    BY DEF TypeOK, Draft
  <2> QED BY <2>2, <2>3 DEF Envelope
<1> QED BY <1>1, <1>2

\* What is sent leaves host and client with the same draft.
LEMMA SentTypes ==
    ASSUME TypeOK, NEW envelope \in Envelope, Sent(envelope)
    PROVE  /\ host' \in Draft /\ known' \in Draft /\ failure' \in Envelope \cup {None}
           /\ session' \in Nat
           /\ known' = host' /\ host'.content = envelope.content /\ failure' = None
<1>1. host' = [lineage |-> host.lineage, revision |-> host.revision + 1,
                 content |-> envelope.content]
  BY DEF TypeOK, Sent, Draft
<1>2. host' \in Draft
  BY <1>1 DEF TypeOK, Envelope, Draft
<1> QED BY <1>1, <1>2 DEF TypeOK, Sent

LEMMA ReloadedTypes ==
    ASSUME TypeOK, Reloaded
    PROVE  /\ host' \in Draft /\ known' \in Draft /\ failure' \in Envelope \cup {None}
           /\ session' \in Nat
           /\ known' = host
  BY DEF TypeOK, Reloaded

LEMMA RenderTypes ==
    ASSUME TypeOK, NEW content \in Content, Render(content), UNCHANGED client
    PROVE  /\ shown' \in Snapshot /\ target' \in Target /\ dirty' \in BOOLEAN
           /\ timer' \in BOOLEAN /\ label' \in Labels
           /\ shown'.id = shown.id + 1 /\ shown'.content = content /\ dirty'
  BY DEF TypeOK, Render, Captured, client, Snapshot, Target, Draft

-----------------------------------------------------------------------------
(* The queue.                                                              *)

\* A save that is not a flush joins the queue.
LEMMA SaveJoins ==
    ASSUME NEW q, NEW op, Queued(q, op), NEW j \in Job, ~j.flush, NEW r, r = Append(q, j)
    PROVE  Queued(r, op)
<1>1. PICK n \in DOMAIN r : /\ n \notin DOMAIN q /\ r[n] = j
                            /\ DOMAIN r = DOMAIN q \cup {n}
  BY Joining DEF Queued
<1>2. \A i \in DOMAIN q : r[i] = q[i]
  BY Joining DEF Queued
<1>3. r \in Seq(Job)
  BY Joining DEF Queued
<1> QED BY <1>1, <1>2, <1>3 DEF Queued

\* A flush joins the queue: there is no other.
LEMMA FlushJoins ==
    ASSUME NEW q, NEW op, Queued(q, op), \A i \in DOMAIN q : ~q[i].flush,
           NEW new \in Operation, new.phase = "flush",
           NEW j \in Job, j.kind = "save", NEW r, r = Append(q, j)
    PROVE  Queued(r, new)
<1>1. PICK n \in DOMAIN r : /\ n \notin DOMAIN q /\ r[n] = j
                            /\ DOMAIN r = DOMAIN q \cup {n}
  BY Joining DEF Queued
<1>2. \A i \in DOMAIN q : r[i] = q[i]
  BY Joining DEF Queued
<1>3. r \in Seq(Job)
  BY Joining DEF Queued
<1> QED BY <1>1, <1>2, <1>3 DEF Queued

\* A version action joins it: its operation waits.
LEMMA ActionJoins ==
    ASSUME NEW q, NEW op, Queued(q, op), \A i \in DOMAIN q : ~q[i].flush,
           NEW new \in Operation, new.phase = "wait", new.kind \in Versions,
           NEW j \in Job, j.kind = "action", ~j.flush, NEW r, r = Append(q, j)
    PROVE  Queued(r, new)
<1>1. PICK n \in DOMAIN r : /\ n \notin DOMAIN q /\ r[n] = j
                            /\ DOMAIN r = DOMAIN q \cup {n}
  BY Joining DEF Queued
<1>2. \A i \in DOMAIN q : r[i] = q[i]
  BY Joining DEF Queued
<1>3. r \in Seq(Job)
  BY Joining DEF Queued
<1> QED BY <1>1, <1>2, <1>3 DEF Queued

\* The save at the head of the queue leaves it.
LEMMA SaveLeaves ==
    ASSUME NEW q, NEW op, Queued(q, op), q # <<>>, q[1].kind = "save", NEW r, r = Tail(q)
    PROVE  /\ Queued(r, op)
           /\ q[1].flush => op.phase = "flush" /\ \A i \in DOMAIN r : ~r[i].flush
<1>1. /\ r \in Seq(Job) /\ 1 \in DOMAIN q
      /\ \A i \in DOMAIN r : i \in Nat /\ i + 1 \in DOMAIN q /\ r[i] = q[i + 1]
      /\ \A i \in DOMAIN q : i \in Nat /\ (i # 1 => i - 1 \in DOMAIN r /\ r[i - 1] = q[i])
  BY Leaving DEF Queued
<1>2. ASSUME NEW i \in DOMAIN r, r[i].flush
      PROVE  r[i].kind = "save" /\ op.phase = "flush" /\ ~q[1].flush
  BY <1>1, <1>2 DEF Queued
<1>3. ASSUME NEW i \in DOMAIN r, NEW j \in DOMAIN r, r[i].flush, r[j].flush
      PROVE  i = j
  BY <1>1, <1>3 DEF Queued
<1>4. op.phase = "wait" => op.kind \in Versions /\ \E i \in DOMAIN r : r[i].kind = "action"
  <2>1. SUFFICES ASSUME op.phase = "wait" PROVE \E i \in DOMAIN r : r[i].kind = "action"
    BY DEF Queued
  <2>2. PICK i \in DOMAIN q : q[i].kind = "action"
    BY <2>1 DEF Queued
  <2>3. i \in Nat /\ i # 1
    BY <1>1, <2>2
  <2>4. i - 1 \in DOMAIN r /\ r[i - 1].kind = "action"
    BY <1>1, <2>2, <2>3
  <2> QED BY <2>4
<1> QED BY <1>1, <1>2, <1>3, <1>4 DEF Queued

\* The action at the head of the queue leaves it, and its operation is over.
LEMMA ActionLeaves ==
    ASSUME NEW q, NEW op, Queued(q, op), op.kind \in Versions, op.phase # "flush",
           q # <<>>, NEW r, r = Tail(q)
    PROVE  Queued(r, Idle)
<1>1. /\ r \in Seq(Job)
      /\ \A i \in DOMAIN r : i \in Nat /\ i + 1 \in DOMAIN q /\ r[i] = q[i + 1]
  BY Leaving DEF Queued
<1>2. \A i \in DOMAIN r : ~r[i].flush
  BY <1>1 DEF Queued
<1> QED BY <1>1, <1>2 DEF Queued, Operation, Idle

-----------------------------------------------------------------------------
(* The steps.                                                              *)

LEMMA InitEstablishes == Init => IInv
<1> SUFFICES ASSUME Init PROVE IInv
  OBVIOUS
<1>1. {Proposed} \in Content
  BY DEF Content
<1>2. host \in Draft /\ known \in Draft /\ shown \in Snapshot /\ target \in Target
  BY <1>1 DEF Init, Draft, Snapshot, Target
<1>3. queue \in Seq(Job) /\ DOMAIN queue = {}
  BY DEF Init
<1>4. operation \in Operation /\ operation.phase = "idle" /\ operation.kind = "none"
  BY DEF Init, Operation, Idle
<1>5. Queued(queue, operation)
  BY <1>3, <1>4 DEF Queued
<1>6. session \in Nat /\ failure \in Envelope \cup {None} /\ started \in 0 .. MaxOperations
  BY DEF Init
<1>7. dirty \in BOOLEAN /\ timer \in BOOLEAN /\ label \in Labels /\ closed \in BOOLEAN
      /\ situation \in Situations
  BY Zenon DEF Init, Labels
<1> QED BY <1>2, <1>3, <1>4, <1>5, <1>6, <1>7 DEF IInv, TypeOK

LEMMA TypeKeeps ==
    ASSUME IInv, NEW e \in Edit, Type(e)
    PROVE  IInv'
<1>1. shown.content \cup {e} \in Content
  BY DEF IInv, TypeOK, Snapshot, Content
<1>2. /\ shown' \in Snapshot /\ target' \in Target /\ dirty' \in BOOLEAN
      /\ timer' \in BOOLEAN /\ label' \in Labels
  BY <1>1, RenderTypes DEF IInv, Type
<1> QED BY <1>2 DEF IInv, Type, client, TypeOK

LEMMA SavesAreAsked ==
    ASSUME IInv, TimerFires \/ Retry
    PROVE  IInv'
<1>1. SaveJob(FALSE) \in Job /\ ~SaveJob(FALSE).flush
  BY JobsMade DEF IInv
<1>2. Queued(queue', operation')
  BY <1>1, SaveJoins DEF IInv, TimerFires, Retry
<1> QED BY <1>2 DEF IInv, TimerFires, Retry, client, TypeOK, Queued

LEMMA BeginSaveKeeps ==
    ASSUME IInv, BeginSave
    PROVE  IInv'
<1>1. queue \in Seq(Job) /\ queue # <<>>
  BY DEF IInv, TypeOK, BeginSave, Saving
<1>2. 1 \in DOMAIN queue /\ queue[1] \in Job
  BY <1>1
<1>3. [queue[1] EXCEPT !.begun = TRUE] \in Job
  BY <1>2 DEF Job
<1>4. queue' = [queue EXCEPT ![1] = [queue[1] EXCEPT !.begun = TRUE]]
  BY DEF BeginSave
<1>5. queue' \in Seq(Job) /\ DOMAIN queue' = DOMAIN queue
  BY <1>1, <1>2, <1>3, <1>4
<1>6. \A i \in DOMAIN queue : queue'[i].flush = queue[i].flush /\ queue'[i].kind = queue[i].kind
  BY <1>1, <1>2, <1>4 DEF Job
<1>7. Queued(queue', operation')
  BY <1>5, <1>6 DEF IInv, Queued, BeginSave
<1> QED BY <1>5, <1>7 DEF IInv, BeginSave, client, TypeOK

LEMMA SendCommandKeeps ==
    ASSUME IInv, SendCommand
    PROVE  IInv'
<1>1. PICK envelope \in ToSend : Sent(envelope)
  BY DEF SendCommand
<1>2. envelope \in Envelope
  BY <1>1, CommandsAreEnvelopes DEF IInv, SendCommand, Saving
<1>3. host' \in Draft /\ known' \in Draft /\ failure' \in Envelope \cup {None} /\ session' \in Nat
  BY <1>1, <1>2, SentTypes DEF IInv
<1> QED BY <1>3 DEF IInv, SendCommand, editor, TypeOK

\* A flush that is over hands its operation on.
LEMMA OverKeeps ==
    ASSUME IInv, NEW ok \in BOOLEAN, Saving, Over(ok)
    PROVE  Queued(queue', operation')
<1>1. queue # <<>> /\ Job1 = queue[1] /\ queue[1].kind = "save" /\ Tail(queue) \in Seq(Job)
  BY Leaving DEF IInv, TypeOK, Saving, Job1
<1>2. /\ Queued(Tail(queue), operation)
      /\ queue[1].flush => /\ operation.phase = "flush"
                           /\ \A i \in DOMAIN Tail(queue) : ~Tail(queue)[i].flush
  BY <1>1, SaveLeaves DEF IInv
<1>3. CASE ~queue[1].flush
  BY <1>1, <1>2, <1>3 DEF Over, Leave
<1>4. CASE queue[1].flush
  <2>1. operation \in Operation /\ operation # Idle /\ operation.phase = "flush"
        /\ operation.kind \in Operations /\ operation.attempt \in 1 .. MaxAttempts
    BY <1>2, <1>4, OperationFields DEF IInv, TypeOK
  <2>2. AfterFlush(ok)
    BY <1>1, <1>4 DEF Over
  <2>3. CASE ok /\ Unchanged
    <3>1. Proceed(Tail(queue), operation)
      BY <2>2, <2>3 DEF AfterFlush, Leave
    <3>2. CASE operation.kind \in Versions
      <4>0. operation' = [operation EXCEPT !.phase = "wait"]
        BY <2>1, <3>1, <3>2 DEF Proceed
      <4>1. operation' \in Operation /\ operation'.phase = "wait" /\ operation'.kind \in Versions
        <5>1. "wait" \in Phases
          BY DEF Phases
        <5> QED BY <4>0, <5>1, <2>1, <3>2, OperationMoves
      <4>2. ActionJob \in Job /\ ActionJob.kind = "action" /\ ~ActionJob.flush
        BY JobsMade DEF IInv
      <4>3. queue' = Append(Tail(queue), ActionJob)
        BY <3>1, <3>2 DEF Proceed
      <4> QED BY <1>2, <1>4, <4>1, <4>2, <4>3, ActionJoins
    <3>3. CASE operation.kind \notin Versions
      <4>0. operation' = [operation EXCEPT !.phase = "act"]
        BY <2>1, <3>1, <3>3 DEF Proceed
      <4>1. operation' \in Operation /\ operation'.phase = "act" /\ operation'.kind \notin Versions
        <5>1. "act" \in Phases
          BY DEF Phases
        <5> QED BY <4>0, <5>1, <2>1, <3>3, OperationMoves
      <4>2. queue' = Tail(queue)
        BY <3>1, <3>3 DEF Proceed
      <4> QED BY <1>2, <1>4, <4>1, <4>2 DEF Queued
    <3> QED BY <3>2, <3>3
  <2>4. CASE ok /\ ~Unchanged /\ operation.attempt < MaxAttempts
    <3>1. operation' \in Operation /\ operation'.phase = "flush"
      BY <2>1, <2>2, <2>4, OperationRetries DEF AfterFlush
    <3>2. SaveJob(TRUE) \in Job /\ SaveJob(TRUE).kind = "save"
      BY JobsMade DEF IInv
    <3>3. queue' = Append(Tail(queue), SaveJob(TRUE))
      BY <2>2, <2>4 DEF AfterFlush, Leave
    <3> QED BY <1>2, <1>4, <3>1, <3>2, <3>3, FlushJoins
  <2>5. CASE ~(ok /\ Unchanged) /\ ~(ok /\ ~Unchanged /\ operation.attempt < MaxAttempts)
    <3>1. operation' = Idle /\ queue' = Tail(queue)
      BY <2>2, <2>5 DEF AfterFlush, Leave
    <3> QED BY <1>2, <1>4, <3>1 DEF Queued, Operation, Idle
  <2> QED BY <2>3, <2>4, <2>5
<1> QED BY <1>3, <1>4

LEMMA SavesEnd ==
    ASSUME IInv, SaveDone \/ SaveOutOfPlace \/ SaveFails
    PROVE  IInv'
<1>1. Saving /\ \E ok \in BOOLEAN : Over(ok)
  BY DEF SaveDone, SaveOutOfPlace, SaveFails
<1>2. Queued(queue', operation')
  BY <1>1, OverKeeps
<1>3. failure' \in Envelope \cup {None}
  <2>1. CASE SaveFails
    <3>1. PICK envelope \in ToSend : failure' \in {failure, envelope}
      BY <2>1 DEF SaveFails
    <3>2. envelope \in Envelope
      BY <1>1, <3>1, CommandsAreEnvelopes DEF IInv, Saving
    <3> QED BY <3>1, <3>2 DEF IInv, TypeOK
  <2> QED BY <2>1 DEF IInv, TypeOK, SaveDone, SaveOutOfPlace
<1>4. dirty' \in BOOLEAN /\ label' \in Labels
  BY DEF IInv, TypeOK, SaveDone, SaveOutOfPlace, SaveFails, StillDirty
<1>5. UNCHANGED <<host, known, session, shown, target, timer, started, closed, situation>>
  BY <1>1 DEF Over
<1> QED BY <1>2, <1>3, <1>4, <1>5 DEF IInv, TypeOK, Queued

LEMMA StartKeeps ==
    ASSUME IInv, NEW kind \in Kinds, Start(kind)
    PROVE  IInv'
<1> DEFINE op == [kind |-> kind, phase |-> "flush", attempt |-> 1, loaded |-> known]
<1>1. op \in Operation /\ op # Idle /\ op.phase = "flush" /\ op.kind = kind /\ kind \in Operations
  <2>1. known \in Draft /\ kind \in Operations /\ 1 \in 1 .. MaxAttempts
    BY DEF IInv, TypeOK, Kinds
  <2> QED BY <2>1 DEF Operation, Idle
<1>2. \A i \in DOMAIN queue : ~queue[i].flush
  BY DEF IInv, Queued, Start, Idle
<1>3. Queued(queue', operation')
  <2>1. CASE dirty
    <3>1. SaveJob(TRUE) \in Job /\ SaveJob(TRUE).kind = "save"
      BY JobsMade DEF IInv
    <3>2. queue' = Append(queue, SaveJob(TRUE)) /\ operation' = op
      BY <2>1 DEF Start
    <3> HIDE DEF op
    <3> QED BY <1>1, <1>2, <3>1, <3>2, FlushJoins DEF IInv
  <2>2. CASE ~dirty
    <3>1. Proceed(queue, op)
      BY <2>2 DEF Start
    <3> HIDE DEF op
    <3>2. CASE kind \in Versions
      <4>0. operation' = [op EXCEPT !.phase = "wait"]
        BY <1>1, <3>1, <3>2 DEF Proceed
      <4>1. operation' \in Operation /\ operation'.phase = "wait" /\ operation'.kind \in Versions
        <5>1. "wait" \in Phases
          BY DEF Phases
        <5> QED BY <4>0, <5>1, <1>1, <3>2, OperationMoves
      <4>2. ActionJob \in Job /\ ActionJob.kind = "action" /\ ~ActionJob.flush
        BY JobsMade DEF IInv
      <4>3. queue' = Append(queue, ActionJob)
        BY <1>1, <3>1, <3>2 DEF Proceed
      <4> QED BY <1>2, <4>1, <4>2, <4>3, ActionJoins DEF IInv
    <3>3. CASE kind \notin Versions
      <4>0. operation' = [op EXCEPT !.phase = "act"]
        BY <1>1, <3>1, <3>3 DEF Proceed
      <4>1. operation' \in Operation /\ operation'.phase = "act" /\ operation'.kind \notin Versions
        <5>1. "act" \in Phases
          BY DEF Phases
        <5> QED BY <4>0, <5>1, <1>1, <3>3, OperationMoves
      <4>2. queue' = queue
        BY <1>1, <3>1, <3>3 DEF Proceed
      <4> QED BY <1>2, <4>1, <4>2 DEF IInv, Queued
    <3> QED BY <3>2, <3>3
  <2> QED BY <2>1, <2>2
<1>4. started' \in 0 .. MaxOperations
  BY DEF IInv, TypeOK, Start
<1> QED BY <1>3, <1>4 DEF IInv, TypeOK, Queued, Start, client

\* An operation under way goes on to another phase.
LEMMA Onward ==
    ASSUME IInv, operation.kind \in Operations,
           operation.phase \in {"act", "reload", "hydrate", "again"},
           NEW p \in {"act", "reload", "hydrate", "again"}, NEW d \in Draft,
           operation' = [operation EXCEPT !.phase = p] \/
           operation' = [operation EXCEPT !.phase = p, !.loaded = d], queue' = queue
    PROVE  Queued(queue', operation')
<1>1. operation # Idle /\ operation \in Operation
  BY OperationFields DEF IInv, TypeOK
<1>2. p \in Phases
  BY DEF Phases
<1>3. operation' \in Operation /\ operation'.phase = p /\ operation'.kind = operation.kind
  <2>1. CASE operation' = [operation EXCEPT !.phase = p]
    BY <1>1, <1>2, <2>1, OperationMoves
  <2>2. CASE operation' = [operation EXCEPT !.phase = p, !.loaded = d]
    BY <1>1, <1>2, <2>2 DEF Operation, Idle, Phases
  <2> QED BY <2>1, <2>2
<1> QED BY <1>3 DEF IInv, Queued

\* It is over.
LEMMA FinishKeeps ==
    ASSUME IInv, operation.kind \in Operations,
           operation.phase \in {"act", "reload", "hydrate", "again"},
           NEW ok, Finish(ok)
    PROVE  Queued(queue', operation')
<1>1. CASE operation.kind \in Versions
  <2>1. queue # <<>>
    BY <1>1 DEF IInv, Queued
  <2> QED BY <1>1, <2>1, ActionLeaves DEF IInv, Finish, Leave
<1>2. CASE operation.kind \notin Versions
  BY <1>2 DEF IInv, Finish, Queued, Operation, Idle
<1> QED BY <1>1, <1>2

LEMMA TakeTurnKeeps ==
    ASSUME IInv, TakeTurn
    PROVE  IInv'
<1>1. operation \in Operation /\ operation # Idle /\ operation.kind \in Versions
      /\ operation.phase = "wait"
  BY DEF IInv, TypeOK, TakeTurn, In, Idle
<1>2. operation' \in Operation /\ operation'.phase = "act" /\ operation'.kind \in Versions
  <2>1. "act" \in Phases
    BY DEF Phases
  <2> QED BY <1>1, <2>1, OperationMoves DEF TakeTurn
<1>3. 1 \in DOMAIN queue /\ queue[1].kind = "action"
  <2>1. queue # <<>>
    BY <1>1 DEF IInv, Queued
  <2> QED BY <2>1, Leaving DEF IInv, TypeOK, TakeTurn, Job1
<1>4. Queued(queue', operation')
  BY <1>1, <1>2, <1>3 DEF IInv, Queued, TakeTurn
<1> QED BY <1>4 DEF IInv, TypeOK, Queued, TakeTurn, client, editor

LEMMA ActKeeps ==
    ASSUME IInv, Act
    PROVE  IInv'
<1>1. operation.kind \in Operations /\ operation.phase = "act"
  BY DEF Act, In
<1>2. Queued(queue', operation')
  BY <1>1, Onward DEF IInv, TypeOK, Act, Then
<1>3. host' \in Draft
  <2>1. host.lineage \in Nat /\ host.revision \in Nat /\ host.content \in Content
    BY DEF IInv, TypeOK, Draft
  <2>2. {Stored} \in Content /\ host.content \ {Proposed} \in Content
    BY <2>1 DEF Content
  <2>3. CASE operation.kind = "commit"
    <3>1. host' = [host EXCEPT !.lineage = @ + 1, !.revision = @ + 1]
      BY <2>3 DEF Act
    <3>2. host' = [lineage |-> host.lineage + 1, revision |-> host.revision + 1,
                   content |-> host.content]
      BY <3>1 DEF IInv, TypeOK, Draft
    <3> QED BY <2>1, <3>2 DEF Draft
  <2>4. CASE operation.kind = "load"
    BY <2>1, <2>2, <2>4 DEF Act, IInv, TypeOK, Draft
  <2>5. CASE operation.kind = "undo"
    <3>1. host' = [host EXCEPT !.revision = @ + 1, !.content = @ \ {Proposed}]
      BY <2>5 DEF Act
    <3>2. host' = [lineage |-> host.lineage, revision |-> host.revision + 1,
                   content |-> host.content \ {Proposed}]
      BY <3>1 DEF IInv, TypeOK, Draft
    <3> QED BY <2>1, <2>2, <3>2 DEF Draft
  <2> QED BY <2>3, <2>4, <2>5 DEF Act, In
<1> QED BY <1>2, <1>3 DEF IInv, TypeOK, Queued, Act, editor

LEMMA ReloadKeeps ==
    ASSUME IInv, Reload
    PROVE  IInv'
<1>1. operation.kind \in Operations /\ operation.phase = "reload"
  BY DEF Reload, In
<1>2. /\ host' \in Draft /\ known' \in Draft /\ failure' \in Envelope \cup {None}
      /\ session' \in Nat
  BY ReloadedTypes DEF IInv, Reload
<1>3. Queued(queue', operation')
  <2>1. CASE operation.kind = "commit"
    BY <1>1, <2>1, FinishKeeps DEF Reload
  <2>2. CASE operation.kind # "commit"
    BY <1>1, <1>2, <2>2, Onward DEF Reload
  <2> QED BY <2>1, <2>2
<1> QED BY <1>2, <1>3 DEF IInv, TypeOK, Queued, Reload, editor

LEMMA ImportKeeps ==
    ASSUME IInv, Import
    PROVE  IInv'
<1>1. operation.kind \in Operations /\ operation.phase = "act"
  BY DEF Import, In
<1>2. ImportRequest \in Envelope
  BY DEF IInv, TypeOK, ImportRequest, Draft, Envelope, Content
<1>3. /\ host' \in Draft /\ known' \in Draft /\ failure' \in Envelope \cup {None}
      /\ session' \in Nat
  BY <1>2, SentTypes DEF IInv, Import
<1>4. Queued(queue', operation')
  BY <1>1, <1>3, Onward DEF Import
<1> QED BY <1>3, <1>4 DEF IInv, TypeOK, Queued, Import, editor

LEMMA ApplyKeeps ==
    ASSUME IInv, Apply
    PROVE  IInv'
<1>1. operation.kind \in Operations /\ operation.phase = "hydrate"
  BY DEF Apply, In
<1>2. operation.loaded \in Draft
  BY <1>1, OperationFields DEF IInv, TypeOK
<1>3. /\ shown' \in Snapshot /\ target' \in Target /\ dirty' \in BOOLEAN
      /\ timer' \in BOOLEAN /\ label' \in Labels
  BY <1>2, RenderTypes DEF IInv, Apply, Draft
<1>4. Queued(queue', operation')
  <2>1. CASE operation.kind = "load"
    BY <1>1, <1>2, <2>1, Onward DEF Apply, Then
  <2>2. CASE operation.kind # "load"
    BY <1>1, <2>2, FinishKeeps DEF Apply
  <2> QED BY <2>1, <2>2
<1> QED BY <1>3, <1>4 DEF IInv, TypeOK, Queued, Apply, client

LEMMA ReloadAgainKeeps ==
    ASSUME IInv, ReloadAgain
    PROVE  IInv'
<1>1. operation.kind \in Operations /\ operation.phase = "again"
  BY DEF ReloadAgain, In
<1>2. /\ host' \in Draft /\ known' \in Draft /\ failure' \in Envelope \cup {None}
      /\ session' \in Nat
  BY ReloadedTypes DEF IInv, ReloadAgain
<1>3. Queued(queue', operation')
  BY <1>1, FinishKeeps DEF ReloadAgain
<1> QED BY <1>2, <1>3 DEF IInv, TypeOK, Queued, ReloadAgain, editor

LEMMA GiveUpKeeps ==
    ASSUME IInv, GiveUp
    PROVE  IInv'
<1>1. operation.phase \in {"act", "reload", "hydrate", "again"}
  BY DEF GiveUp, In
<1>2. operation.kind \in Operations
  BY <1>1, OperationFields DEF IInv, TypeOK
<1>3. Queued(queue', operation')
  BY <1>1, <1>2, FinishKeeps DEF GiveUp
<1>4. ImportRequest \in Envelope
  BY DEF IInv, TypeOK, ImportRequest, Draft, Envelope, Content
<1> QED BY <1>3, <1>4 DEF IInv, TypeOK, Queued, GiveUp, editor

LEMMA CloseKeeps ==
    ASSUME IInv, Close
    PROVE  IInv'
<1>1. operation.kind \in Operations /\ operation.phase = "act"
  BY DEF Close, In
<1>2. Queued(queue', operation')
  BY <1>1, FinishKeeps DEF Close
<1> QED BY <1>2 DEF IInv, TypeOK, Queued, Close, client, editor

LEMMA InterfereKeeps ==
    ASSUME IInv, Interfere
    PROVE  IInv'
<1>1. host' \in Draft
  <2>1. host.content \cup {Foreign} \in Content
    BY DEF IInv, TypeOK, Draft, Content
  <2>2. host' = [lineage |-> host.lineage, revision |-> host.revision + 1,
                 content |-> host.content \cup {Foreign}]
    BY DEF IInv, TypeOK, Draft, Interfere
  <2> QED BY <2>1, <2>2 DEF IInv, TypeOK, Draft
<1> QED BY <1>1 DEF IInv, TypeOK, Interfere, editor

LEMMA StepKeeps ==
    ASSUME IInv, [Next]_vars
    PROVE  IInv'
<1>1. CASE UNCHANGED vars
  BY <1>1 DEF IInv, TypeOK, vars
<1>2. CASE QueueStep
  BY <1>2, BeginSaveKeeps, SendCommandKeeps, SavesEnd DEF QueueStep
<1>3. CASE OperationStep
  BY <1>3, TakeTurnKeeps, ActKeeps, ReloadKeeps, ImportKeeps, ApplyKeeps, ReloadAgainKeeps,
     GiveUpKeeps, CloseKeeps DEF OperationStep
<1> QED BY <1>1, <1>2, <1>3, TypeKeeps, SavesAreAsked, StartKeeps, InterfereKeeps DEF Next

LEMMA InvariantHolds == Spec => []IInv
  BY InitEstablishes, StepKeeps, PTL DEF Spec

\* Whatever fails, whatever another window writes and whichever operations are
\* started, every value the hook and the client hold is of its kind.
THEOREM TypesStayCorrect == Spec => []TypeOK
<1>1. IInv => TypeOK
  BY DEF IInv
<1> QED BY <1>1, InvariantHolds, PTL

-----------------------------------------------------------------------------
(* Commits and closes in one window.                                       *)

\* The jobs on the queue are of the snapshots shown since, in their order.
Ordered(q, s) ==
    /\ \A i \in DOMAIN q : q[i].snapshot.id <= s.id
                           /\ (q[i].snapshot.id = s.id => q[i].snapshot = s)
    /\ \A i, j \in DOMAIN q : i <= j => q[i].snapshot.id <= q[j].snapshot.id

AllOf(q, s) == \A i \in DOMAIN q : q[i].snapshot = s

\* With nothing to save, the jobs left have nothing to send either.
Clean == ~dirty => /\ shown.content = known.content /\ failure = None
                   /\ AllOf(queue, shown)

CInv ==
    /\ IInv
    /\ operation.kind \in {"none", "commit", "close"}
    /\ known.content = host.content
    /\ Ordered(queue, shown)
    /\ Clean

\* A job of what is shown joins the queue.
LEMMA OrderJoins ==
    ASSUME NEW q \in Seq(Job), NEW s \in Snapshot, Ordered(q, s),
           NEW j \in Job, j.snapshot = s, NEW r, r = Append(q, j)
    PROVE  Ordered(r, s) /\ (AllOf(q, s) => AllOf(r, s))
<1>1. Len(q) \in Nat /\ DOMAIN q = 1 .. Len(q) /\ DOMAIN r = 1 .. (Len(q) + 1)
      /\ r[Len(q) + 1] = j
  OBVIOUS
<1>2. \A i \in DOMAIN q : r[i] = q[i]
  BY Joining
<1>3. \A i \in DOMAIN r : i \in DOMAIN q \/ i = Len(q) + 1
  BY <1>1
<1>4. \A i \in DOMAIN r : r[i].snapshot.id <= s.id /\ (r[i].snapshot.id = s.id => r[i].snapshot = s)
  BY <1>1, <1>2, <1>3 DEF Ordered, Snapshot
<1>5. ASSUME NEW i \in DOMAIN r, NEW k \in DOMAIN r, i <= k
      PROVE  r[i].snapshot.id <= r[k].snapshot.id
  <2>1. CASE k = Len(q) + 1
    BY <1>1, <1>4, <2>1
  <2>2. CASE k \in DOMAIN q
    <3>1. i \in DOMAIN q
      BY <1>1, <1>5, <2>2
    <3> QED BY <1>2, <1>5, <2>2, <3>1 DEF Ordered
  <2> QED BY <1>3, <2>1, <2>2
<1>6. AllOf(q, s) => AllOf(r, s)
  BY <1>1, <1>2, <1>3 DEF AllOf
<1> QED BY <1>4, <1>5, <1>6 DEF Ordered

\* The head of the queue leaves it; after a job of what is shown there are no others.
LEMMA OrderLeaves ==
    ASSUME NEW q \in Seq(Job), q # <<>>, NEW s \in Snapshot, Ordered(q, s), NEW r, r = Tail(q)
    PROVE  Ordered(r, s) /\ (AllOf(q, s) \/ q[1].snapshot = s => AllOf(r, s))
<1>1. /\ 1 \in DOMAIN q
      /\ \A i \in DOMAIN r : i \in Nat /\ i + 1 \in DOMAIN q /\ r[i] = q[i + 1]
  BY Leaving
<1>2. \A i \in DOMAIN q : i \in Nat /\ 1 <= i /\ q[i].snapshot.id \in Nat
  <2>1. \A i \in DOMAIN q : i \in Nat /\ 1 <= i /\ q[i] \in Job
    OBVIOUS
  <2> QED BY <2>1 DEF Job, Snapshot
<1>3. Ordered(r, s)
  BY <1>1 DEF Ordered
<1>4. ASSUME q[1].snapshot = s, NEW i \in DOMAIN q
      PROVE  q[i].snapshot = s
  <2>1. q[1].snapshot.id <= q[i].snapshot.id /\ q[i].snapshot.id <= s.id
    BY <1>1, <1>2 DEF Ordered
  <2>2. q[i].snapshot.id = s.id
    BY <1>2, <1>4, <2>1 DEF Snapshot
  <2> QED BY <2>2 DEF Ordered
<1>5. AllOf(q, s) \/ q[1].snapshot = s => AllOf(r, s)
  BY <1>1, <1>4 DEF AllOf
<1> QED BY <1>3, <1>5

\* A save ends, with or without its flush going on.
LEMMA OverOrdered ==
    ASSUME CInv, NEW ok \in BOOLEAN, Saving, Over(ok)
    PROVE  /\ Ordered(queue', shown)
           /\ AllOf(queue, shown) \/ Job1.snapshot = shown => AllOf(queue', shown)
           /\ operation'.kind \in {"none", "commit", "close"}
<1>1. queue \in Seq(Job) /\ queue # <<>> /\ Job1 = queue[1] /\ shown \in Snapshot
      /\ Ordered(queue, shown)
  BY Leaving DEF CInv, IInv, TypeOK, Saving, Job1
<1>2. /\ Tail(queue) \in Seq(Job) /\ Ordered(Tail(queue), shown)
      /\ AllOf(queue, shown) \/ Job1.snapshot = shown => AllOf(Tail(queue), shown)
  BY <1>1, OrderLeaves, Leaving
<1>3. /\ SaveJob(TRUE) \in Job /\ SaveJob(TRUE).snapshot = shown
      /\ ActionJob \in Job /\ ActionJob.snapshot = shown
  BY JobsMade DEF CInv, IInv
<1>4. queue' \in {Tail(queue), Append(Tail(queue), SaveJob(TRUE)), Append(Tail(queue), ActionJob)}
  BY DEF Over, AfterFlush, Proceed, Leave
<1>5. operation'.kind \in {"none", "commit", "close"}
  <2>1. operation \in Operation /\ operation.kind \in {"none", "commit", "close"}
    BY DEF CInv, IInv, TypeOK
  <2>2. operation' = Idle \/ operation'.kind = operation.kind
    BY <2>1 DEF Over, AfterFlush, Proceed, Operation, Idle
  <2> QED BY <2>1, <2>2 DEF Idle
<1>6. ASSUME NEW j \in Job, j.snapshot = shown, queue' = Append(Tail(queue), j)
      PROVE  /\ Ordered(queue', shown)
             /\ AllOf(Tail(queue), shown) => AllOf(queue', shown)
  BY <1>1, <1>2, <1>6, OrderJoins
<1> QED BY <1>2, <1>3, <1>4, <1>5, <1>6

\* With nothing to save, nothing is sent.
LEMMA CleanSendsNothing ==
    ASSUME CInv, Saving, ~dirty
    PROVE  ToSend = {}
<1>1. Job1 = queue[1] /\ 1 \in DOMAIN queue
  BY Leaving DEF CInv, IInv, TypeOK, Saving, Job1
<1>2. Job1.snapshot.content = known.content /\ failure = None
  BY <1>1 DEF CInv, Clean, AllOf
<1> QED BY <1>2 DEF ToSend, NextCommands

LEMMA CleanInit == Init => CInv
<1> SUFFICES ASSUME Init PROVE CInv
  OBVIOUS
<1>1. DOMAIN queue = {} /\ operation.kind = "none" /\ dirty /\ known.content = host.content
  BY DEF Init, Idle
<1> QED BY <1>1, InitEstablishes DEF CInv, Ordered, Clean

LEMMA QueueStepClean ==
    ASSUME CInv, QueueStep, IInv'
    PROVE  CInv'
<1>1. CASE BeginSave
  <2>1. queue \in Seq(Job) /\ 1 \in DOMAIN queue
    BY <1>1, Leaving DEF CInv, IInv, TypeOK, BeginSave, Saving
  <2>2. DOMAIN queue' = DOMAIN queue /\ \A i \in DOMAIN queue : queue'[i].snapshot = queue[i].snapshot
    BY <1>1, <2>1 DEF BeginSave, Job
  <2>3. UNCHANGED <<host, known, failure, shown, dirty, operation>>
    BY <1>1 DEF BeginSave, client
  <2>4. Ordered(queue', shown')
    BY <2>2, <2>3 DEF CInv, Ordered
  <2>5. Clean'
    BY <2>2, <2>3 DEF CInv, Clean, AllOf
  <2> QED BY <2>3, <2>4, <2>5 DEF CInv
<1>2. CASE SendCommand
  <2>1. PICK envelope \in ToSend : Sent(envelope)
    BY <1>2 DEF SendCommand
  <2>2. dirty
    BY <1>2, <2>1, CleanSendsNothing DEF SendCommand
  <2>3. known' = host' /\ UNCHANGED <<shown, dirty, queue, operation>>
    BY <1>2, <2>1 DEF Sent, SendCommand, editor
  <2> QED BY <2>2, <2>3 DEF CInv, Clean
<1>3. CASE SaveDone
  <2>1. Saving /\ Over(TRUE)
    BY <1>3 DEF SaveDone
  <2>2. UNCHANGED <<host, known, shown, failure>>
    BY <1>3 DEF SaveDone, Over
  <2>3. Ordered(queue', shown') /\ operation'.kind \in {"none", "commit", "close"}
    BY <2>1, <2>2, OverOrdered
  <2>4. ASSUME ~dirty' PROVE shown.content = known.content /\ failure = None /\ AllOf(queue', shown)
    <3>1. CASE ~dirty
      BY <2>1, <3>1, OverOrdered DEF CInv, Clean
    <3>2. CASE dirty
      <4>1. shown = Job1.snapshot
        BY <1>3, <2>4, <3>2 DEF SaveDone, StillDirty, Unchanged
      <4> QED BY <1>3, <2>1, <4>1, OverOrdered DEF SaveDone
    <3> QED BY <3>1, <3>2
  <2> QED BY <2>2, <2>3, <2>4 DEF CInv, Clean
<1>4. CASE SaveOutOfPlace
  <2>1. Saving /\ Over(FALSE)
    BY <1>4 DEF SaveOutOfPlace
  <2>2. UNCHANGED <<host, known, shown, failure, dirty>>
    BY <1>4 DEF SaveOutOfPlace, Over
  <2> QED BY <2>1, <2>2, OverOrdered DEF CInv, Clean
<1>5. CASE SaveFails
  <2>1. Saving /\ Over(FALSE)
    BY <1>5 DEF SaveFails
  <2>2. UNCHANGED <<host, known, shown, dirty>>
    BY <1>5 DEF SaveFails, Over
  <2>3. dirty
    BY <1>5, <2>1, CleanSendsNothing DEF SaveFails
  <2> QED BY <2>1, <2>2, <2>3, OverOrdered DEF CInv, Clean
<1> QED BY <1>1, <1>2, <1>3, <1>4, <1>5 DEF QueueStep

LEMMA OperationStepClean ==
    ASSUME OneWindow, CInv, OperationStep, IInv'
    PROVE  CInv'
<1>1. operation \in Operation /\ operation.kind \in {"none", "commit", "close"}
  BY DEF CInv, IInv, TypeOK
<1>2. ASSUME NEW ok, Finish(ok), operation.kind \in Operations, UNCHANGED shown,
             operation.phase \in {"act", "reload", "hydrate", "again"}
      PROVE  /\ Ordered(queue', shown') /\ operation'.kind = "none"
             /\ AllOf(queue, shown) => AllOf(queue', shown')
  <2>1. operation'.kind = "none"
    BY <1>2 DEF Finish, Idle
  <2>2. CASE operation.kind \in Versions
    <3>1. queue # <<>> /\ queue \in Seq(Job) /\ shown \in Snapshot /\ Ordered(queue, shown)
      BY <1>2, <2>2 DEF CInv, IInv, TypeOK, Queued
    <3> QED BY <1>2, <2>1, <2>2, <3>1, OrderLeaves DEF Finish, Leave
  <2>3. CASE operation.kind \notin Versions
    BY <1>2, <2>1, <2>3 DEF Finish, CInv
  <2> QED BY <2>2, <2>3
<1>3. CASE TakeTurn
  BY <1>1, <1>3 DEF TakeTurn, CInv, Clean, client, editor, Operation, Idle
<1>4. CASE Act
  <2>1. operation.kind = "commit"
    BY <1>1, <1>4 DEF Act, In
  <2>2. host'.content = host.content
    BY <1>4, <2>1 DEF Act, CInv, IInv, TypeOK, Draft
  <2>3. UNCHANGED <<known, shown, failure, dirty, queue>> /\ operation'.kind = operation.kind
    BY <1>1, <1>4 DEF Act, editor, Then, Operation, Idle
  <2> QED BY <2>1, <2>2, <2>3 DEF CInv, Clean
<1>5. CASE Reload
  <2>1. operation.kind = "commit" /\ operation.phase = "reload" /\ Finish(TRUE)
    BY <1>1, <1>5 DEF Reload, In
  <2>2. known' = host /\ UNCHANGED <<host, failure, shown, dirty>>
    BY <1>5 DEF Reload, Reloaded, editor
  <2> QED BY <1>2, <2>1, <2>2 DEF CInv, Clean
<1>6. CASE Import \/ Apply \/ ReloadAgain
  BY <1>1, <1>6 DEF Import, Apply, ReloadAgain, In
<1>7. CASE GiveUp
  <2>1. UNCHANGED <<host, known, failure, shown, dirty>>
    BY <1>1, <1>7 DEF GiveUp, In, editor
  <2>2. Finish(FALSE) /\ operation.phase \in {"act", "reload", "hydrate", "again"}
    BY <1>7 DEF GiveUp, In
  <2>3. operation.kind \in Operations
    BY <2>2, OperationFields DEF CInv, IInv, TypeOK
  <2> QED BY <1>2, <2>1, <2>2, <2>3 DEF CInv, Clean
<1>8. CASE Close
  <2>1. UNCHANGED <<host, known, failure, shown, dirty>>
    BY <1>8 DEF Close, client, editor
  <2>2. Finish(TRUE) /\ operation.phase = "act" /\ operation.kind \in Operations
    BY <1>8 DEF Close, In
  <2> QED BY <1>2, <2>1, <2>2 DEF CInv, Clean
<1> QED BY <1>3, <1>4, <1>5, <1>6, <1>7, <1>8 DEF OperationStep

LEMMA OthersClean ==
    ASSUME OneWindow, CInv, IInv',
           \/ \E e \in Edit : Type(e)
           \/ TimerFires \/ Retry
           \/ \E kind \in Kinds : Start(kind)
    PROVE  CInv'
<1>1. queue \in Seq(Job) /\ shown \in Snapshot /\ operation.kind \in {"none", "commit", "close"}
      /\ Ordered(queue, shown)
  BY DEF CInv, IInv, TypeOK
<1>2. /\ SaveJob(TRUE) \in Job /\ SaveJob(TRUE).snapshot = shown
      /\ SaveJob(FALSE) \in Job /\ SaveJob(FALSE).snapshot = shown
      /\ ActionJob \in Job /\ ActionJob.snapshot = shown
  BY JobsMade DEF CInv, IInv
<1>3. CASE \E e \in Edit : Type(e)
  <2>1. dirty' /\ shown'.id = shown.id + 1 /\ UNCHANGED <<host, known, queue, operation>>
    BY <1>3 DEF Type, Render, client
  <2>2. \A i \in DOMAIN queue : queue[i].snapshot.id \in Nat
    <3>1. \A i \in DOMAIN queue : queue[i] \in Job
      BY <1>1
    <3> QED BY <3>1 DEF Job, Snapshot
  <2>3. Ordered(queue', shown')
    BY <1>1, <2>1, <2>2 DEF Ordered, Snapshot
  <2> QED BY <2>1, <2>3 DEF CInv, Clean
<1>4. CASE TimerFires \/ Retry
  <2>1. queue' = Append(queue, SaveJob(FALSE))
        /\ UNCHANGED <<host, known, failure, shown, dirty, operation>>
    BY <1>4 DEF TimerFires, Retry, client
  <2>2. Ordered(queue', shown) /\ (AllOf(queue, shown) => AllOf(queue', shown))
    BY <1>1, <1>2, <2>1, OrderJoins
  <2> QED BY <2>1, <2>2 DEF CInv, Clean
<1>5. CASE \E kind \in Kinds : Start(kind)
  <2>1. PICK kind \in Kinds : Start(kind)
    BY <1>5
  <2>2. UNCHANGED <<host, known, failure, shown, dirty>>
    BY <2>1 DEF Start, client
  <2>3. queue' \in {queue, Append(queue, SaveJob(TRUE)), Append(queue, ActionJob)}
    BY <2>1 DEF Start, Proceed
  <2>4. operation'.kind = kind
    <3> DEFINE op == [kind |-> kind, phase |-> "flush", attempt |-> 1, loaded |-> known]
    <3>1. \/ operation' = op \/ operation' = [op EXCEPT !.phase = "wait"]
          \/ operation' = [op EXCEPT !.phase = "act"]
      BY <2>1 DEF Start, Proceed
    <3> QED BY <3>1
  <2>5. ASSUME NEW j \in Job, j.snapshot = shown, queue' = Append(queue, j)
        PROVE  Ordered(queue', shown) /\ (AllOf(queue, shown) => AllOf(queue', shown))
    BY <1>1, <2>5, OrderJoins
  <2>6. Ordered(queue', shown) /\ (AllOf(queue, shown) => AllOf(queue', shown))
    BY <1>1, <1>2, <2>3, <2>5
  <2> QED BY <2>2, <2>4, <2>6 DEF CInv, Clean, OneWindow
<1> QED BY <1>3, <1>4, <1>5

LEMMA CleanKept ==
    ASSUME OneWindow, CInv, [Next]_vars
    PROVE  CInv'
<1>1. IInv'
  BY StepKeeps DEF CInv
<1>2. CASE UNCHANGED vars
  BY <1>1, <1>2 DEF CInv, Clean, vars
<1>3. CASE QueueStep
  BY <1>1, <1>3, QueueStepClean
<1>4. CASE OperationStep
  BY <1>1, <1>4, OperationStepClean
<1>5. ~Interfere
  BY DEF Interfere, OneWindow
<1> QED BY <1>1, <1>2, <1>3, <1>4, <1>5, OthersClean DEF Next

LEMMA SituationStays == [Next]_vars => OneWindow' = OneWindow
<1> SUFFICES ASSUME [Next]_vars PROVE situation' = situation
  BY DEF OneWindow, Kinds
<1>1. CASE QueueStep
  BY <1>1 DEF QueueStep, BeginSave, SendCommand, SaveDone, SaveOutOfPlace, SaveFails, Over
<1>2. CASE OperationStep
  BY <1>2 DEF OperationStep, TakeTurn, Act, Reload, Import, Apply, ReloadAgain, GiveUp, Close
<1> QED BY <1>1, <1>2 DEF Next, vars, Type, TimerFires, Retry, Start, Interfere

LEMMA CleanHolds == Spec => [](OneWindow => CInv)
<1>1. Init => (OneWindow => CInv)
  BY CleanInit
<1>2. (OneWindow => CInv) /\ [Next]_vars => (OneWindow => CInv)'
  BY CleanKept, SituationStays
<1> QED BY <1>1, <1>2, PTL DEF Spec

\* In one window, whatever fails and however fast the user types, a commit and a
\* close may rely on what the hook takes for saved (flushDraftBeforeVersionAction
\* skips a snapshot that is not dirty).
THEOREM CleanIsSaved == Spec => []CleanMeansSaved
<1>1. (OneWindow => CInv) => CleanMeansSaved
  BY DEF CInv, Clean, CleanMeansSaved
<1> QED BY <1>1, CleanHolds, PTL

BeginsSaved ==
    operation.phase \in {"idle", "flush"} /\ operation'.phase \in {"wait", "act"}
    => known'.content = shown'.content

LEMMA BeginningIsSaved ==
    ASSUME OneWindow, CInv, [Next]_vars
    PROVE  [BeginsSaved]_vars
<1> SUFFICES ASSUME Next, operation.phase \in {"idle", "flush"}, operation'.phase \in {"wait", "act"}
             PROVE  known'.content = shown'.content
  BY DEF BeginsSaved
<1>1. operation \in Operation /\ operation.kind \in {"none", "commit", "close"}
  BY DEF CInv, IInv, TypeOK
<1>2. operation' # operation /\ operation' # Idle
  BY DEF Idle
<1>3. CASE QueueStep
  <2>1. CASE SaveDone
    <3>1. AfterFlush(TRUE) /\ UNCHANGED <<known, shown>>
      BY <1>2, <2>1 DEF SaveDone, Over
    <3>2. CASE Unchanged
      BY <2>1, <3>1, <3>2 DEF SaveDone, Unchanged
    <3>3. CASE ~Unchanged
      <4>1. operation' = [operation EXCEPT !.attempt = @ + 1]
        BY <1>2, <3>1, <3>3 DEF AfterFlush
      <4> QED BY <1>1, <4>1 DEF Operation, Idle
    <3> QED BY <3>2, <3>3
  <2>2. CASE SaveOutOfPlace \/ SaveFails
    BY <1>2, <2>2 DEF SaveOutOfPlace, SaveFails, Over, AfterFlush
  <2> QED BY <1>2, <1>3, <2>1, <2>2 DEF QueueStep, BeginSave, SendCommand
<1>4. CASE OperationStep
  <2>1. CASE GiveUp \/ Close
    BY <1>2, <2>1 DEF GiveUp, Close, Finish
  <2>2. CASE TakeTurn \/ Act \/ Reload \/ Import \/ Apply \/ ReloadAgain
    BY <2>2 DEF TakeTurn, Act, Reload, Import, Apply, ReloadAgain, In
  <2> QED BY <1>4, <2>1, <2>2 DEF OperationStep
<1>5. CASE \E kind \in Kinds : Start(kind)
  <2>1. PICK kind \in Kinds : Start(kind)
    BY <1>5
  <2>2. ~dirty
    <3>1. dirty => operation' = [kind |-> kind, phase |-> "flush", attempt |-> 1, loaded |-> known]
      BY <2>1 DEF Start
    <3> QED BY <3>1
  <2> QED BY <2>1, <2>2 DEF Start, client, CInv, Clean
<1> QED BY <1>2, <1>3, <1>4, <1>5 DEF Next, Type, TimerFires, Retry, Interfere

\* In one window, a commit or a close begins only when everything that is shown
\* has been saved, however often the flush had to begin again.
THEOREM OperationsBeginSaved == Spec => OperationsFindEverythingSaved
<1>1. (OneWindow => CInv) /\ [Next]_vars =>
        [OneWindow /\ operation.phase \in {"idle", "flush"} /\ operation.phase' \in {"wait", "act"}
         => known.content' = shown.content']_vars
  BY BeginningIsSaved DEF BeginsSaved
<1> QED BY <1>1, CleanHolds, PTL DEF Spec, OperationsFindEverythingSaved

-----------------------------------------------------------------------------
(* Two windows.                                                            *)

\* A revision is one state: what the client has confirmed at the revision of the
\* host is the draft of the host, and a command in doubt expects that revision.
InStep ==
    /\ known.revision <= host.revision
    /\ known.revision = host.revision => known = host
    /\ failure # None => failure.revision = known.revision

SInv == IInv /\ InStep

Survives ==
    Foreign \notin known.content /\ Foreign \in host.content => Foreign \in host'.content

LEMMA SentInStep ==
    ASSUME SInv, NEW envelope \in Envelope, Sent(envelope), envelope.revision = known.revision
    PROVE  InStep' /\ Survives
<1>1. host' = known' /\ failure' = None /\ known = host
  BY DEF Sent, SInv, InStep
<1>2. host' \in Draft
  BY SentTypes DEF SInv, IInv
<1> QED BY <1>1, <1>2 DEF InStep, Survives, Draft

LEMMA CommandsExpectKnown ==
    ASSUME SInv, NEW envelope \in ToSend
    PROVE  envelope.revision = known.revision
<1>1. CASE failure # None
  BY <1>1 DEF ToSend, SInv, InStep
<1>2. CASE failure = None
  BY <1>2 DEF ToSend, NextCommands
<1> QED BY <1>1, <1>2

LEMMA StepInStep ==
    ASSUME SInv, [Next]_vars
    PROVE  InStep' /\ [Survives]_vars
<1>1. host \in Draft /\ known \in Draft
  BY DEF SInv, IInv, TypeOK
<1>2. ASSUME UNCHANGED <<host, known, failure>> PROVE InStep' /\ Survives
  BY <1>2 DEF SInv, InStep, Survives
<1>3. ASSUME UNCHANGED <<host, known>>, failure' \in {failure, None} PROVE InStep' /\ Survives
  BY <1>3 DEF SInv, InStep, Survives
<1>4. CASE QueueStep
  <2>1. CASE SendCommand
    <3>1. PICK envelope \in ToSend : Sent(envelope)
      BY <2>1 DEF SendCommand
    <3>2. envelope \in Envelope
      BY <2>1, <3>1, CommandsAreEnvelopes DEF SInv, IInv, SendCommand, Saving
    <3> QED BY <3>1, <3>2, SentInStep, CommandsExpectKnown
  <2>2. CASE SaveFails
    <3>1. PICK envelope \in ToSend : failure' \in {failure, envelope}
      BY <2>2 DEF SaveFails
    <3>2. UNCHANGED <<host, known>>
      BY <2>2 DEF SaveFails, Over
    <3> QED BY <3>1, <3>2, CommandsExpectKnown DEF SInv, InStep, Survives
  <2>3. CASE BeginSave \/ SaveDone \/ SaveOutOfPlace
    BY <1>2, <2>3 DEF BeginSave, SaveDone, SaveOutOfPlace, Over, client
  <2> QED BY <1>4, <2>1, <2>2, <2>3 DEF QueueStep
<1>5. CASE OperationStep
  <2>1. CASE Act
    <3>1. host'.revision = host.revision + 1 /\ UNCHANGED <<known, failure>>
      BY <1>1, <2>1 DEF Act, Draft, In
    <3>2. InStep'
      BY <1>1, <3>1 DEF SInv, InStep, Draft
    <3>3. known = host
      BY <2>1 DEF Act, SameCursor, SInv, InStep
    <3> QED BY <3>2, <3>3 DEF Survives
  <2>2. CASE Reload \/ ReloadAgain
    <3>1. known' = host /\ failure = None /\ UNCHANGED <<host, failure>>
      BY <2>2 DEF Reload, ReloadAgain, Reloaded
    <3> QED BY <1>1, <3>1 DEF InStep, Survives, Draft
  <2>3. CASE Import
    <3>1. Sent(ImportRequest) /\ ImportRequest.revision = known.revision
      BY <2>3 DEF Import, ImportRequest
    <3>2. ImportRequest \in Envelope
      BY <1>1 DEF ImportRequest, Envelope, Draft, Content
    <3> QED BY <3>1, <3>2, SentInStep
  <2>4. CASE GiveUp
    BY <2>4 DEF GiveUp, ImportRequest, SInv, InStep, Survives
  <2>5. CASE TakeTurn \/ Apply \/ Close
    BY <1>2, <2>5 DEF TakeTurn, Apply, Close, client
  <2> QED BY <1>5, <2>1, <2>2, <2>3, <2>4, <2>5 DEF OperationStep
<1>6. CASE Interfere
  <2>1. host'.revision = host.revision + 1 /\ host.content \subseteq host'.content
        /\ UNCHANGED <<known, failure>>
    BY <1>1, <1>6 DEF Interfere, Draft
  <2> QED BY <1>1, <2>1 DEF SInv, InStep, Survives, Draft
<1>7. CASE UNCHANGED vars
  BY <1>2, <1>7 DEF vars
<1>8. CASE (\E e \in Edit : Type(e)) \/ TimerFires \/ Retry \/ (\E kind \in Kinds : Start(kind))
  BY <1>2, <1>8 DEF Type, TimerFires, Retry, Start, client
<1> QED BY <1>4, <1>5, <1>6, <1>7, <1>8 DEF Next

LEMMA SInvHolds == Spec => []SInv
<1>1. Init => SInv
  BY InitEstablishes DEF Init, SInv, InStep
<1>2. SInv /\ [Next]_vars => SInv'
  BY StepKeeps, StepInStep DEF SInv
<1> QED BY <1>1, <1>2, PTL DEF Spec

\* However many windows edit the draft, whatever is loaded over it and however often
\* a command in doubt is retried, nothing this window does to the host takes away
\* what it has not seen.
THEOREM UnseenChangesAreKept == Spec => UnseenChangesSurvive
<1>1. SInv /\ [Next]_vars =>
        [(Foreign \notin known.content /\ Foreign \in host.content)
         => Foreign \in host.content']_vars
  BY StepInStep DEF Survives
<1> QED BY <1>1, SInvHolds, PTL DEF Spec, UnseenChangesSurvive
=============================================================================
