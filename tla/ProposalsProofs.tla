--------------------------- MODULE ProposalsProofs ---------------------------
(***************************************************************************)
(* For every number of runs and proposals, whatever they propose: what has  *)
(* been decided about a proposal stays decided, a decision reaches          *)
(* only the resume the proposal was made for, what has been confirmed can   *)
(* be undone, and the window tells the user nothing the host has not stored *)
(* and shows what its client has.  All of it together is the review that    *)
(* ProposalReview promises.                                                *)
(*                                                                         *)
(* The window is at most one step of the host behind, because the host goes *)
(* on by itself only from the cursor the window has (InStep, RequestsLag).  *)
(* A receipt names the revision its decision took (ReceiptsAdvance), so     *)
(* that a window that lacks a confirmation can tell from the stored result  *)
(* (Behind), and one that has caught up has nothing left that could be      *)
(* decided behind its back (CaughtUp, AskedOK, AfterAnswer).                *)
(*                                                                         *)
(* What items do to a resume is shown by going along them: a fold is where  *)
(* its steps lead (AfterTrace, BackTrace), items about different entries do *)
(* what each of them does (OutcomeUpto), in whatever number they are chosen *)
(* (PickedApart), and taken back last first each finds the section as it    *)
(* left it (UndoReady, UndoRestores).                                      *)
(***************************************************************************)
EXTENDS Proposals, FiniteSetTheorems, WellFoundedInduction, SequenceTheorems, TLAPS

StatusType == status \in [Proposal -> Settling]

\* Decisions and calls are about proposals there are.
About ==
    /\ deciding # None => "proposal" \in DOMAIN deciding /\ deciding.proposal \in Proposal
    /\ \A r \in requests : r.proposal \in Proposal

IInv == StatusType /\ About

\* The statuses that a step may lead to, of each.
Later(s) == CASE s = "none" -> {"none", "pending"}
              [] s = "pending" -> {"pending", "confirmed", "rejected", "expired"}
              [] s = "confirmed" -> {"confirmed", "undone"}
              [] OTHER -> {s}

\* A decision is final: only a confirmation may still be undone.
DecisionsAreFinal == [][\A p \in Proposal : status'[p] \in Later(status[p])]_vars

\* What steps do to status: nothing, one proposal's decision, the end of some
\* days, or a run that proposes.
Same == UNCHANGED status

Decided(p) ==
    \E new \in Settling :
      /\ new \in Later(status[p]) /\ status[p] \notin {"none", new} /\ new # "pending"
      /\ Becomes(p, new)

Proposed(run) ==
    /\ \A p \in Proposal : RunOf[p] = run => status[p] = "none"
    /\ status' = [p \in Proposal |-> IF RunOf[p] = run THEN "pending" ELSE status[p]]

Kinds ==
    \/ Same \/ Listed
    \/ \E p \in Proposal : Decided(p)
    \/ \E run \in Run : Proposed(run)

-----------------------------------------------------------------------------
LEMMA RunOfType == RunOf \in [Proposal -> Run] /\ \A r \in Run : \E p \in Proposal : RunOf[p] = r
BY Assumption

\* Serving a call.
LEMMA ServeKinds ==
    ASSUME IInv, NEW r \in requests, NEW lost \in BOOLEAN,
           \/ Replay(r, lost) \/ Expire(r, lost) \/ Refuse(r, lost)
           \/ Confirm(r, lost) \/ Reject(r, lost) \/ Undo(r, lost)
    PROVE Kinds
<1>0. r.proposal \in Proposal /\ status[r.proposal] \in Settling
  BY DEF IInv, About, StatusType
<1>1. CASE Replay(r, lost)
  BY <1>1 DEF Replay, host, proposals, Same, Kinds
<1>2. CASE Expire(r, lost)
  <2>1. status[r.proposal] = "pending" /\ Becomes(r.proposal, "expired")
    BY <1>2 DEF Expire, Allowed
  <2> QED BY <1>0, <2>1 DEF Decided, Later, Kinds, Settling
<1>3. CASE Refuse(r, lost)
  BY <1>3 DEF Refuse, host, proposals, Same, Kinds
<1>4. CASE Confirm(r, lost)
  <2>1. status[r.proposal] = "pending" /\ Becomes(r.proposal, "confirmed")
    BY <1>4 DEF Confirm, Allowed, Taken
  <2> QED BY <1>0, <2>1 DEF Decided, Later, Kinds, Settling
<1>5. CASE Reject(r, lost)
  <2>1. status[r.proposal] = "pending" /\ Becomes(r.proposal, "rejected")
    BY <1>5 DEF Reject, Allowed, Taken
  <2> QED BY <1>0, <2>1 DEF Decided, Later, Kinds, Settling
<1>6. CASE Undo(r, lost)
  <2>1. status[r.proposal] = "confirmed" /\ Becomes(r.proposal, "undone")
    BY <1>6 DEF Undo, Allowed, Taken
  <2> QED BY <1>0, <2>1 DEF Decided, Later, Kinds, Settling
<1> QED BY <1>1, <1>2, <1>3, <1>4, <1>5, <1>6

\* Every step is of one of the kinds.
LEMMA StepKinds ==
    ASSUME IInv, [Next]_vars
    PROVE Kinds
<1>1. CASE Proceed
  <2>1. CASE Serve
    BY <2>1, ServeKinds DEF Serve
  <2>2. CASE CallFails
    BY <2>2 DEF CallFails, host, proposals, Same, Kinds
  <2>3. CASE Flushed \/ FlushFails \/ Ask
    BY <2>3 DEF Flushed, FlushFails, Ask, host, proposals, Same, Kinds
  <2>4. CASE Reload \/ ReloadFails \/ RefreshFails \/ RecoverFails
    BY <2>4 DEF Reload, ReloadFails, RefreshFails, RecoverFails, host, proposals, Same, Kinds
  <2>5. CASE Restore \/ RestoreFails
    BY <2>5 DEF Restore, RestoreFails, host, proposals, Same, Kinds
  <2>6. CASE RefreshAfter \/ Recover
    BY <2>6 DEF RefreshAfter, Recover, ReadInbox, Kinds
  <2> QED BY <1>1, <2>1, <2>2, <2>3, <2>4, <2>5, <2>6 DEF Proceed
<1>2. CASE Saving
  BY <1>2 DEF Saving, SaveNothing, Save, SaveConflicts, host, proposals, Same, Kinds
<1>3. CASE Refresh
  BY <1>3 DEF Refresh, ReadInbox, Kinds
<1>4. CASE PageReload \/ TakeBack
  BY <1>4 DEF PageReload, TakeBack, host, proposals, Same, Kinds
<1>5. CASE \E run \in Run : Propose(run)
  <2>1. PICK run \in Run : Propose(run)
    BY <1>5
  <2>2. Proposed(run)
    BY <2>1 DEF Propose, Proposed
  <2> QED BY <2>2 DEF Kinds
<1>6. CASE \E p \in Proposal : DayEnds(p)
  BY <1>6 DEF DayEnds, Same, Kinds
<1>7. CASE \E item \in Typing : Type(item)
  BY <1>7 DEF Type, host, proposals, Same, Kinds
<1>8. CASE \E l \in Place : SwitchPlace(l)
  BY <1>8 DEF SwitchPlace, proposals, Same, Kinds
<1>9. CASE \E kind \in Decision, p \in Proposal :
             /\ record[p] # None
             /\ \E chosen \in SUBSET DOMAIN record[p].items : Decide(kind, p, chosen)
  BY <1>9 DEF Decide, host, proposals, Same, Kinds
<1>10. CASE UNCHANGED vars
  BY <1>10 DEF vars, host, proposals, Same, Kinds
<1> QED BY <1>1, <1>2, <1>3, <1>4, <1>5, <1>6, <1>7, <1>8, <1>9, <1>10 DEF Next

\* Whatever becomes of a call, it is answered.
LEMMA CallsEnd ==
    ASSUME Serve \/ CallFails
    PROVE  \E r \in requests : \E ok, result, lost : Answer(r, ok, result, lost)
<1>1. CASE CallFails
  BY <1>1 DEF CallFails
<1>2. CASE Serve
  <2>1. PICK r \in requests, lost \in BOOLEAN :
          \/ Replay(r, lost) \/ Expire(r, lost) \/ Refuse(r, lost)
          \/ Confirm(r, lost) \/ Reject(r, lost) \/ Undo(r, lost)
    BY <1>2 DEF Serve
  <2>2. CASE Replay(r, lost)
    BY <2>2 DEF Replay
  <2>3. CASE Expire(r, lost) \/ Refuse(r, lost)
    BY <2>3 DEF Expire, Refuse
  <2>4. CASE Confirm(r, lost)
    BY <2>4 DEF Confirm
  <2>5. CASE Reject(r, lost)
    BY <2>5 DEF Reject
  <2>6. CASE Undo(r, lost)
    BY <2>6 DEF Undo
  <2> QED BY <2>1, <2>2, <2>3, <2>4, <2>5, <2>6
<1> QED BY <1>1, <1>2

\* The decision under way and the calls keep their proposal.
LEMMA AboutKept ==
    ASSUME About, [Next]_vars
    PROVE About'
<1>1. ASSUME NEW r \in requests, NEW ok, NEW result, NEW lost, Answer(r, ok, result, lost)
      PROVE About'
  BY <1>1 DEF Answer, About
<1>2. CASE Proceed
  <2>1. CASE Serve \/ CallFails
    BY <2>1, <1>1, CallsEnd
  <2>3. CASE Flushed \/ FlushFails
    BY <2>3 DEF Flushed, FlushFails, In, Step, About
  <2>4. CASE Ask
    BY <2>4 DEF Ask, In, About
  <2>5. CASE Reload \/ ReloadFails \/ RefreshFails
    BY <2>5 DEF Reload, ReloadFails, RefreshFails, In, Step, About
  <2>6. CASE Recover \/ RecoverFails
    BY <2>6 DEF Recover, RecoverFails, In, Step, About
  <2>7. CASE RefreshAfter \/ Restore \/ RestoreFails
    BY <2>7 DEF RefreshAfter, Restore, RestoreFails, About
  <2> QED BY <1>2, <2>1, <2>3, <2>4, <2>5, <2>6, <2>7 DEF Proceed
<1>3. CASE Saving
  BY <1>3 DEF Saving, SaveNothing, Save, SaveConflicts, About
<1>4. CASE Refresh \/ PageReload \/ TakeBack
  BY <1>4 DEF Refresh, PageReload, TakeBack, About
<1>5. CASE \E run \in Run : Propose(run)
  BY <1>5 DEF Propose, window, About
<1>6. CASE \E p \in Proposal : DayEnds(p)
  BY <1>6 DEF DayEnds, window, About
<1>7. CASE \E item \in Typing : Type(item)
  BY <1>7 DEF Type, About
<1>8. CASE \E l \in Place : SwitchPlace(l)
  BY <1>8 DEF SwitchPlace, About
<1>9. CASE \E kind \in Decision, p \in Proposal :
             /\ record[p] # None
             /\ \E chosen \in SUBSET DOMAIN record[p].items : Decide(kind, p, chosen)
  BY <1>9 DEF Decide, About
<1>10. CASE UNCHANGED vars
  BY <1>10 DEF vars, window, About
<1> QED BY <1>2, <1>3, <1>4, <1>5, <1>6, <1>7, <1>8, <1>9, <1>10 DEF Next

LEMMA StatusKept ==
    ASSUME StatusType, Kinds
    PROVE StatusType'
<1>1. CASE Same
  BY <1>1 DEF Same, StatusType
<1>2. CASE Listed
  BY <1>2 DEF Listed, StatusType, Settling
<1>3. CASE \E p \in Proposal : Decided(p)
  BY <1>3 DEF Decided, Becomes, StatusType
<1>4. CASE \E run \in Run : Proposed(run)
  BY <1>4 DEF Proposed, StatusType, Settling
<1> QED BY <1>1, <1>2, <1>3, <1>4 DEF Kinds

-----------------------------------------------------------------------------
LEMMA InitInv == Init => IInv
<1> SUFFICES ASSUME Init PROVE IInv
  OBVIOUS
<1> QED BY DEF Init, IInv, StatusType, About, Settling

LEMMA StepInv == IInv /\ [Next]_vars => IInv'
<1> SUFFICES ASSUME IInv, [Next]_vars PROVE IInv'
  OBVIOUS
<1>1. StatusType /\ About
  BY DEF IInv
<1>2. About'
  BY <1>1, AboutKept
<1>3. StatusType'
  BY <1>1, StepKinds, StatusKept
<1> QED BY <1>2, <1>3 DEF IInv

\* No step takes back a decision.
LEMMA FinalStep ==
    ASSUME IInv, [Next]_vars, NEW p \in Proposal
    PROVE status'[p] \in Later(status[p])
<1>1. StatusType
  BY DEF IInv
<1>2. status[p] \in Settling
  BY <1>1 DEF StatusType
<1>3. CASE Same
  BY <1>2, <1>3 DEF Same, Later
<1>4. CASE Listed
  BY <1>2, <1>4 DEF Listed, Later
<1>5. CASE \E q \in Proposal : Decided(q)
  <2>1. PICK q \in Proposal, new \in Settling :
          /\ new \in Later(status[q])
          /\ status' = [status EXCEPT ![q] = new]
    BY <1>5 DEF Decided, Becomes
  <2>2. CASE p = q
    BY <1>1, <2>1, <2>2 DEF StatusType
  <2>3. CASE p # q
    BY <1>1, <1>2, <2>1, <2>3 DEF StatusType, Later
  <2> QED BY <2>2, <2>3
<1>6. CASE \E run \in Run : Proposed(run)
  <2>1. PICK run \in Run : Proposed(run)
    BY <1>6
  <2>2. status'[p] = IF RunOf[p] = run THEN "pending" ELSE status[p]
    BY <2>1 DEF Proposed
  <2>3. RunOf[p] = run => status[p] = "none"
    BY <2>1 DEF Proposed
  <2> QED BY <1>2, <2>2, <2>3 DEF Later
<1> QED BY StepKinds, <1>3, <1>4, <1>5, <1>6 DEF Kinds

\* Once a proposal has been rejected, has run out or is undone, nothing is ever
\* decided about it again, and a confirmation can only be undone: the updates
\* of the four statements are all guarded by the status they read.
THEOREM DecisionsStay == Spec => DecisionsAreFinal
<1>1. ASSUME IInv, [Next]_vars
      PROVE [\A p \in Proposal : status'[p] \in Later(status[p])]_vars
  BY <1>1, FinalStep
<1> QED BY InitInv, StepInv, <1>1, PTL DEF Spec, DecisionsAreFinal

-----------------------------------------------------------------------------
(* What the window knows.                                                  *)

Steps == {"flush", "ask", "asked", "reload", "refresh", "recover", "restore"}

ShapeOK ==
    /\ at \in Cursor /\ known.place \in Place /\ known.revision \in Nat
    /\ docs = [l \in Place |-> docs[l]]
    /\ life \in Nat
    /\ requests \subseteq Request
    /\ deciding # None =>
         deciding \in [kind : Decision, proposal : Proposal, chosen : SUBSET Nat,
                       step : Steps, place : Place, request : Request \cup {None},
                       result : Cursor \cup {None}]
    /\ \A p \in Proposal : status[p] # "none" \/ record[p] # None =>
         record[p].cursor \in Cursor /\ record[p].items \in Seq(Item)

\* Receipts carry the command they answer.
ReceiptsOK ==
    \A x \in receipts :
      /\ x.kind \in Decision /\ x.proposal \in Proposal
      /\ x.request \in Cursor /\ x.result \in Cursor
      /\ x.id[2] = x.kind /\ x.id[3] = x.proposal

\* What the window has is what the host has, or had before its last step.
InStep ==
    /\ known.revision <= at.revision /\ at.revision <= known.revision + 1
    /\ known.revision = at.revision => KnownCursor = at /\ known.doc = docs[at.place]

\* A call was sent with a cursor the window had, so that one sent before the
\* host's last step finds it gone on.
RequestsLag == \A r \in requests : r.cursor.revision <= known.revision

Changing == {"confirm", "undo"}

\* A decision on the resume took one revision, the last one or an earlier one.
ReceiptsAdvance ==
    \A x \in receipts : x.kind \in Changing =>
      /\ x.result.revision = x.request.revision + 1
      /\ x.result.revision <= at.revision
      /\ x.result.revision = at.revision => x.result = at

Outcomes(kind) == CASE kind = "confirm" -> {"confirmed", "undone"}
                    [] kind = "reject" -> {"rejected"}
                    [] kind = "undo" -> {"undone"}

\* A receipt tells what has become of its proposal, and a confirmation has one.
ReceiptsTell ==
    /\ \A x \in receipts :
         /\ status[x.proposal] \in Outcomes(x.kind)
         /\ x.kind = "confirm" => x.request = record[x.proposal].cursor
    /\ \A x, y \in receipts :
         x.kind = "confirm" /\ y.kind = "confirm" /\ x.proposal = y.proposal => x = y
    /\ \A p \in Proposal : status[p] \in Outcomes("confirm") =>
         \E x \in receipts : x.kind = "confirm" /\ x.proposal = p

\* A call under way is the decision's; once the window has gone on, nothing has
\* been decided with the cursor it was sent with.
AskedOK ==
    deciding # None =>
      /\ deciding.request \in requests => deciding.step = "asked"
      /\ deciding.step = "asked" =>
           /\ deciding.request \in Request
           /\ deciding.request.kind = deciding.kind
           /\ deciding.request.proposal = deciding.proposal
           /\ deciding.request.cursor.revision <= known.revision
           /\ deciding.request.cursor.revision < known.revision =>
                \A x \in receipts : x.kind \in Changing => x.request # deciding.request.cursor

\* The window has the host's last step, and no call can make another.
CaughtUp ==
    /\ known.revision = at.revision
    /\ \A r \in requests : r.cursor.revision < known.revision

\* It lacks that step, which was the confirmation of p.
Behind(p) ==
    /\ known.revision < at.revision
    /\ \A x \in receipts : x.kind = "confirm" /\ x.proposal = p => x.result = at

AfterAnswer ==
    deciding # None =>
      /\ deciding.step = "reload" =>
           /\ deciding.kind \in Changing /\ deciding.result = at
           /\ known.revision < at.revision
      /\ deciding.step \in {"reload", "refresh", "restore"} =>
           status[deciding.proposal] \in Outcomes(deciding.kind)
      /\ deciding.step = "refresh" => deciding.kind = "reject" \/ CaughtUp
      /\ deciding.step = "restore" => deciding.kind = "confirm"
      /\ deciding.kind = "confirm" /\ status[deciding.proposal] \in Outcomes("confirm") =>
           \/ Behind(deciding.proposal)
           \/ deciding.step \in {"refresh", "recover", "restore"} /\ CaughtUp

HostInv ==
    /\ ShapeOK /\ ReceiptsOK /\ InStep /\ RequestsLag /\ ReceiptsAdvance /\ ReceiptsTell
    /\ AskedOK

\* What has been loaded after a decision is shown until the inbox is read.
LoadedIsShown ==
    deciding # None /\ deciding.step = "refresh" /\ deciding.kind # "reject" => Follows

WindowInv == HostInv /\ AfterAnswer /\ LoadedIsShown

-----------------------------------------------------------------------------
(* What a step changes of it.                                              *)

\* Steps without a receipt only let proposals run out, once they are made.
Unreceipted ==
    /\ receipts' = receipts
    /\ \A p \in Proposal :
         status'[p] = status[p] \/ (status[p] = "pending" /\ status'[p] = "expired")

Decides ==
    \E r \in requests, lost \in BOOLEAN : Confirm(r, lost) \/ Reject(r, lost) \/ Undo(r, lost)

\* The host's revision is taken by a decision, or by the window.
Carried == \E r \in requests, lost \in BOOLEAN : Confirm(r, lost) \/ Undo(r, lost)

Saved ==
    /\ KnownCursor = at /\ at' \in Cursor /\ at'.revision = at.revision + 1
    /\ docs' = [l \in Place |-> docs'[l]]
    /\ known' = HostState' /\ shown' = docs'[at'.place]
    /\ UNCHANGED <<proposals, requests, deciding, life>>

Unsaved == UNCHANGED <<docs, at>>

LEMMA ReceiptKinds ==
    ASSUME IInv, [Next]_vars
    PROVE Unreceipted \/ Decides \/ \E run \in Run : Propose(run)
<1>0. status \in [Proposal -> Settling]
  BY DEF IInv, StatusType
<1>1. CASE Proceed
  <2>1. CASE Serve
    <3>1. PICK r \in requests, lost \in BOOLEAN :
            \/ Replay(r, lost) \/ Expire(r, lost) \/ Refuse(r, lost)
            \/ Confirm(r, lost) \/ Reject(r, lost) \/ Undo(r, lost)
      BY <2>1 DEF Serve
    <3>2. CASE Replay(r, lost) \/ Refuse(r, lost)
      BY <3>2 DEF Replay, Refuse, host, proposals, Unreceipted
    <3>3. CASE Expire(r, lost)
      <4>1. /\ receipts' = receipts /\ status' = [status EXCEPT ![r.proposal] = "expired"]
            /\ status[r.proposal] = "pending"
        BY <3>3 DEF Expire, Becomes, Allowed
      <4> QED BY <1>0, <4>1 DEF Unreceipted
    <3> QED BY <3>1, <3>2, <3>3 DEF Decides
  <2>2. CASE CallFails
    BY <2>2 DEF CallFails, host, proposals, Unreceipted
  <2>3. CASE Flushed \/ FlushFails \/ Ask
    BY <2>3 DEF Flushed, FlushFails, Ask, host, proposals, Unreceipted
  <2>4. CASE Reload \/ ReloadFails \/ RefreshFails \/ RecoverFails
    BY <2>4 DEF Reload, ReloadFails, RefreshFails, RecoverFails, host, proposals, Unreceipted
  <2>5. CASE Restore \/ RestoreFails
    BY <2>5 DEF Restore, RestoreFails, host, proposals, Unreceipted
  <2>6. CASE RefreshAfter \/ Recover
    BY <2>6 DEF RefreshAfter, Recover, ReadInbox, Listed, Unreceipted
  <2> QED BY <1>1, <2>1, <2>2, <2>3, <2>4, <2>5, <2>6 DEF Proceed
<1>2. CASE Saving
  BY <1>2 DEF Saving, SaveNothing, Save, SaveConflicts, host, proposals, Unreceipted
<1>3. CASE Refresh
  BY <1>3 DEF Refresh, ReadInbox, Listed, Unreceipted
<1>4. CASE PageReload \/ TakeBack
  BY <1>4 DEF PageReload, TakeBack, host, proposals, Unreceipted
<1>5. CASE \E run \in Run : Propose(run)
  BY <1>5
<1>6. CASE \E p \in Proposal : DayEnds(p)
  BY <1>6 DEF DayEnds, Unreceipted
<1>7. CASE \E item \in Typing : Type(item)
  BY <1>7 DEF Type, host, proposals, Unreceipted
<1>8. CASE \E l \in Place : SwitchPlace(l)
  BY <1>8 DEF SwitchPlace, proposals, Unreceipted
<1>9. CASE \E kind \in Decision, p \in Proposal :
             /\ record[p] # None
             /\ \E chosen \in SUBSET DOMAIN record[p].items : Decide(kind, p, chosen)
  BY <1>9 DEF Decide, host, proposals, Unreceipted
<1>10. CASE UNCHANGED vars
  BY <1>10 DEF vars, host, proposals, Unreceipted
<1> QED BY <1>1, <1>2, <1>3, <1>4, <1>5, <1>6, <1>7, <1>8, <1>9, <1>10 DEF Next

LEMMA SaveSaves ==
    ASSUME ShapeOK, Save
    PROVE Saved
<1>1. docs' = [docs EXCEPT ![at.place] = shown] /\ at' = [at EXCEPT !.revision = @ + 1]
  BY DEF Save, Write
<1>2. at' \in Cursor /\ at'.place = at.place /\ at'.revision = at.revision + 1 /\ at.place \in Place
  BY <1>1 DEF ShapeOK, Cursor
<1>3. docs' = [l \in Place |-> docs'[l]] /\ docs'[at.place] = shown
  BY <1>1, <1>2 DEF ShapeOK
<1>4. /\ KnownCursor = at /\ known' = HostState' /\ shown' = shown
      /\ UNCHANGED <<proposals, requests, deciding, life>>
  BY DEF Save
<1> QED BY <1>2, <1>3, <1>4 DEF Saved

LEMMA SwitchSaves ==
    ASSUME ShapeOK, NEW l \in Place, SwitchPlace(l)
    PROVE Saved
<1>2. at' = [place |-> l, revision |-> at.revision + 1] /\ docs' = docs
  BY DEF SwitchPlace
<1>3. at' \in Cursor /\ at'.place = l /\ at'.revision = at.revision + 1
  BY <1>2 DEF ShapeOK, Cursor
<1>4. docs' = [m \in Place |-> docs'[m]]
  BY <1>2 DEF ShapeOK
<1>5. /\ KnownCursor = at /\ known' = HostState' /\ shown' = docs[l]
      /\ UNCHANGED <<proposals, requests, deciding, life>>
  BY DEF SwitchPlace
<1> QED BY <1>2, <1>3, <1>4, <1>5 DEF Saved

LEMMA PlaceKinds ==
    ASSUME ShapeOK, [Next]_vars
    PROVE Unsaved \/ Carried \/ Saved
<1>1. CASE Proceed
  <2>1. CASE Serve
    <3>1. PICK r \in requests, lost \in BOOLEAN :
            \/ Replay(r, lost) \/ Expire(r, lost) \/ Refuse(r, lost)
            \/ Confirm(r, lost) \/ Reject(r, lost) \/ Undo(r, lost)
      BY <2>1 DEF Serve
    <3>2. CASE Replay(r, lost) \/ Refuse(r, lost)
      BY <3>2 DEF Replay, Refuse, host, Unsaved
    <3>3. CASE Expire(r, lost) \/ Reject(r, lost)
      BY <3>3 DEF Expire, Reject, Unsaved
    <3> QED BY <3>1, <3>2, <3>3 DEF Carried
  <2>2. CASE CallFails
    BY <2>2 DEF CallFails, host, Unsaved
  <2>3. CASE Flushed \/ FlushFails \/ Ask
    BY <2>3 DEF Flushed, FlushFails, Ask, host, Unsaved
  <2>4. CASE Reload \/ ReloadFails \/ RefreshFails \/ RecoverFails
    BY <2>4 DEF Reload, ReloadFails, RefreshFails, RecoverFails, host, Unsaved
  <2>5. CASE Restore \/ RestoreFails
    BY <2>5 DEF Restore, RestoreFails, host, Unsaved
  <2>6. CASE RefreshAfter \/ Recover
    BY <2>6 DEF RefreshAfter, Recover, ReadInbox, Unsaved
  <2> QED BY <1>1, <2>1, <2>2, <2>3, <2>4, <2>5, <2>6 DEF Proceed
<1>2. CASE Saving
  BY <1>2, SaveSaves DEF Saving, SaveNothing, SaveConflicts, host, Unsaved
<1>3. CASE Refresh
  BY <1>3 DEF Refresh, ReadInbox, Unsaved
<1>4. CASE PageReload \/ TakeBack
  BY <1>4 DEF PageReload, TakeBack, host, Unsaved
<1>5. CASE \E run \in Run : Propose(run)
  BY <1>5 DEF Propose, Unsaved
<1>6. CASE \E p \in Proposal : DayEnds(p)
  BY <1>6 DEF DayEnds, Unsaved
<1>7. CASE \E item \in Typing : Type(item)
  BY <1>7 DEF Type, host, Unsaved
<1>8. CASE \E l \in Place : SwitchPlace(l)
  BY <1>8, SwitchSaves
<1>9. CASE \E kind \in Decision, p \in Proposal :
             /\ record[p] # None
             /\ \E chosen \in SUBSET DOMAIN record[p].items : Decide(kind, p, chosen)
  BY <1>9 DEF Decide, host, Unsaved
<1>10. CASE UNCHANGED vars
  BY <1>10 DEF vars, host, Unsaved
<1> QED BY <1>1, <1>2, <1>3, <1>4, <1>5, <1>6, <1>7, <1>8, <1>9, <1>10 DEF Next

\* What the host answers reaches the decision under way, and nothing else of
\* the window.
LEMMA CallsAnswer ==
    ASSUME Serve \/ CallFails
    PROVE  /\ requests' \subseteq requests
           /\ UNCHANGED <<known, shown, dirty, stuck, inbox, life>>
<1>1. ASSUME NEW r, NEW ok, NEW result, NEW lost, Answer(r, ok, result, lost)
      PROVE  /\ requests' \subseteq requests
             /\ UNCHANGED <<known, shown, dirty, stuck, inbox, life>>
  BY <1>1 DEF Answer, screen
<1> QED BY <1>1, CallsEnd

\* What the window has is what it had, or what the host has.
LEMMA KnownKinds ==
    ASSUME [Next]_vars
    PROVE known' = known \/ known' = HostState'
<1>1. CASE Proceed
  <2>1. CASE Serve \/ CallFails
    BY <2>1, CallsAnswer
  <2>2. CASE Flushed \/ FlushFails \/ Ask
    BY <2>2 DEF Flushed, FlushFails, Ask, screen
  <2>3. CASE Reload \/ ReloadFails \/ Restore \/ RestoreFails
    <3>1. docs' = docs /\ at' = at
      BY <2>3 DEF Reload, ReloadFails, Restore, RestoreFails, host
    <3> QED BY <2>3, <3>1 DEF Reload, ReloadFails, Restore, RestoreFails, Loads, screen, HostState
  <2>4. CASE RefreshFails \/ RecoverFails
    BY <2>4 DEF RefreshFails, RecoverFails, screen
  <2>5. CASE RefreshAfter \/ Recover
    BY <2>5 DEF RefreshAfter, Recover, screen
  <2> QED BY <1>1, <2>1, <2>2, <2>3, <2>4, <2>5 DEF Proceed
<1>2. CASE Saving
  BY <1>2 DEF Saving, SaveNothing, Save, SaveConflicts
<1>3. CASE Refresh \/ TakeBack
  BY <1>3 DEF Refresh, TakeBack, screen
<1>4. CASE PageReload
  <2>1. docs' = docs /\ at' = at /\ known' = HostState
    BY <1>4 DEF PageReload, host
  <2> QED BY <2>1 DEF HostState
<1>5. CASE \E run \in Run : Propose(run)
  BY <1>5 DEF Propose, window, screen
<1>6. CASE \E p \in Proposal : DayEnds(p)
  BY <1>6 DEF DayEnds, window, screen
<1>7. CASE \E item \in Typing : Type(item)
  BY <1>7 DEF Type
<1>8. CASE \E l \in Place : SwitchPlace(l)
  BY <1>8 DEF SwitchPlace
<1>9. CASE \E kind \in Decision, p \in Proposal :
             /\ record[p] # None
             /\ \E chosen \in SUBSET DOMAIN record[p].items : Decide(kind, p, chosen)
  BY <1>9 DEF Decide, screen
<1>10. CASE UNCHANGED vars
  BY <1>10 DEF vars, window, screen
<1> QED BY <1>1, <1>2, <1>3, <1>4, <1>5, <1>6, <1>7, <1>8, <1>9, <1>10 DEF Next

\* Calls are answered, and one is sent with the cursor the window has.
LEMMA RequestKinds ==
    ASSUME [Next]_vars
    PROVE requests' \subseteq requests \/ Ask
<1>1. CASE Proceed
  <2>1. CASE Serve \/ CallFails
    BY <2>1, CallsAnswer
  <2>2. CASE Flushed \/ FlushFails \/ RefreshFails \/ RecoverFails
    BY <2>2 DEF Flushed, FlushFails, RefreshFails, RecoverFails
  <2>3. CASE Reload \/ ReloadFails \/ Restore \/ RestoreFails
    BY <2>3 DEF Reload, ReloadFails, Restore, RestoreFails
  <2>4. CASE RefreshAfter \/ Recover
    BY <2>4 DEF RefreshAfter, Recover
  <2> QED BY <1>1, <2>1, <2>2, <2>3, <2>4 DEF Proceed
<1>2. CASE Saving
  BY <1>2 DEF Saving, SaveNothing, Save, SaveConflicts
<1>3. CASE Refresh \/ TakeBack \/ PageReload
  BY <1>3 DEF Refresh, TakeBack, PageReload
<1>4. CASE \E run \in Run : Propose(run)
  BY <1>4 DEF Propose
<1>5. CASE \E p \in Proposal : DayEnds(p)
  BY <1>5 DEF DayEnds
<1>6. CASE \E item \in Typing : Type(item)
  BY <1>6 DEF Type
<1>7. CASE \E l \in Place : SwitchPlace(l)
  BY <1>7 DEF SwitchPlace
<1>8. CASE \E kind \in Decision, p \in Proposal :
             /\ record[p] # None
             /\ \E chosen \in SUBSET DOMAIN record[p].items : Decide(kind, p, chosen)
  BY <1>8 DEF Decide
<1>9. CASE UNCHANGED vars
  BY <1>9 DEF vars
<1> QED BY <1>1, <1>2, <1>3, <1>4, <1>5, <1>6, <1>7, <1>8, <1>9 DEF Next

\* Only a run that proposes writes records, of proposals that had none.
LEMMA RecordKinds ==
    ASSUME [Next]_vars
    PROVE record' = record \/ \E run \in Run : Propose(run)
<1>1. CASE Proceed
  <2>1. CASE Serve \/ CallFails
    <3>1. CASE CallFails
      BY <3>1 DEF CallFails, host, proposals
    <3>2. CASE Serve
      <4>1. PICK r \in requests, lost \in BOOLEAN :
              \/ Replay(r, lost) \/ Expire(r, lost) \/ Refuse(r, lost)
              \/ Confirm(r, lost) \/ Reject(r, lost) \/ Undo(r, lost)
        BY <3>2 DEF Serve
      <4>2. CASE Replay(r, lost) \/ Refuse(r, lost)
        BY <4>2 DEF Replay, Refuse, host, proposals
      <4>3. CASE Expire(r, lost) \/ Reject(r, lost)
        BY <4>3 DEF Expire, Reject
      <4>4. CASE Confirm(r, lost) \/ Undo(r, lost)
        BY <4>4 DEF Confirm, Undo
      <4> QED BY <4>1, <4>2, <4>3, <4>4
    <3> QED BY <2>1, <3>1, <3>2
  <2>2. CASE Flushed \/ FlushFails \/ Ask \/ RefreshFails \/ RecoverFails
    BY <2>2 DEF Flushed, FlushFails, Ask, RefreshFails, RecoverFails, host, proposals
  <2>3. CASE Reload \/ ReloadFails \/ Restore \/ RestoreFails
    BY <2>3 DEF Reload, ReloadFails, Restore, RestoreFails, host, proposals
  <2>4. CASE RefreshAfter \/ Recover
    BY <2>4 DEF RefreshAfter, Recover, ReadInbox
  <2> QED BY <1>1, <2>1, <2>2, <2>3, <2>4 DEF Proceed
<1>2. CASE Saving
  BY <1>2 DEF Saving, SaveNothing, Save, SaveConflicts, host, proposals
<1>3. CASE Refresh \/ TakeBack \/ PageReload
  BY <1>3 DEF Refresh, ReadInbox, TakeBack, PageReload, host, proposals
<1>4. CASE \E p \in Proposal : DayEnds(p)
  BY <1>4 DEF DayEnds
<1>5. CASE \E item \in Typing : Type(item)
  BY <1>5 DEF Type, host, proposals
<1>6. CASE \E l \in Place : SwitchPlace(l)
  BY <1>6 DEF SwitchPlace, proposals
<1>7. CASE \E kind \in Decision, p \in Proposal :
             /\ record[p] # None
             /\ \E chosen \in SUBSET DOMAIN record[p].items : Decide(kind, p, chosen)
  BY <1>7 DEF Decide, host, proposals
<1>8. CASE UNCHANGED vars
  BY <1>8 DEF vars, host, proposals
<1> QED BY <1>1, <1>2, <1>3, <1>4, <1>5, <1>6, <1>7, <1>8 DEF Next

\* The decision an answer is for goes on to the inbox, to the resume or to
\* recovery, and no other does.
Answered(r, ok, result) ==
    /\ deciding # None /\ deciding.request = r /\ deciding.step = "asked"
    /\ deciding.kind = r.kind /\ deciding.proposal = r.proposal
    /\ \/ deciding' = [deciding EXCEPT !.step = "recover"]
       \/ /\ ok
          /\ deciding' = [deciding EXCEPT !.step = IF r.kind = "reject" THEN "refresh" ELSE "reload",
                                          !.result = result]

LEMMA AnswerKinds ==
    ASSUME ShapeOK, AskedOK, NEW r \in requests, NEW ok, NEW result, NEW lost,
           Answer(r, ok, result, lost)
    PROVE /\ requests' = requests \ {r} /\ UNCHANGED <<known, shown, dirty, stuck, inbox, life>>
          /\ \/ deciding' = deciding /\ (deciding # None => deciding.request # r)
             \/ Answered(r, ok, result)
<1>1. requests' = requests \ {r} /\ UNCHANGED <<known, shown, dirty, stuck, inbox, life>>
  BY DEF Answer, screen
<1>2. CASE deciding = None \/ deciding.request # r
  BY <1>1, <1>2 DEF Answer
<1>3. CASE deciding # None /\ deciding.request = r
  <2>1. deciding.step = "asked" /\ deciding.kind = r.kind /\ deciding.proposal = r.proposal
    BY <1>3 DEF AskedOK
  <2>2. CASE ~ok \/ lost
    BY <1>1, <1>3, <2>1, <2>2 DEF Answer, Answered
  <2>3. CASE ok /\ ~lost
    BY <1>1, <1>3, <2>1, <2>3 DEF Answer, Answered
  <2> QED BY <2>2, <2>3
<1> QED BY <1>2, <1>3

\* The answers of the host, and what it says in them.
LEMMA ServeAnswers ==
    ASSUME ShapeOK, ReceiptsOK, Serve
    PROVE \E r \in requests, lost \in BOOLEAN, ok \in BOOLEAN, result \in Cursor \cup {None} :
            /\ Answer(r, ok, result, lost)
            /\ ok => result \in Cursor
            /\ \/ Replay(r, lost) /\ \E x \in ReceiptOf(r) : ok = (x.request = r.cursor) /\ result = x.result
               \/ (Expire(r, lost) \/ Refuse(r, lost)) /\ ~ok
               \/ (Confirm(r, lost) \/ Undo(r, lost)) /\ result = at'
               \/ Reject(r, lost)
<1>1. PICK r \in requests, lost \in BOOLEAN :
        \/ Replay(r, lost) \/ Expire(r, lost) \/ Refuse(r, lost)
        \/ Confirm(r, lost) \/ Reject(r, lost) \/ Undo(r, lost)
  BY DEF Serve
<1>2. CASE Replay(r, lost)
  <2>1. PICK x \in ReceiptOf(r) : Answer(r, x.request = r.cursor, x.result, lost)
    BY <1>2 DEF Replay
  <2>2. x.result \in Cursor /\ (x.request = r.cursor) \in BOOLEAN
    BY <2>1 DEF ReceiptOf, ReceiptsOK
  <2> QED BY <1>2, <2>1, <2>2
<1>3. CASE Expire(r, lost) \/ Refuse(r, lost)
  <2>1. Answer(r, FALSE, None, lost)
    BY <1>3 DEF Expire, Refuse
  <2> QED BY <1>3, <2>1
<1>4. CASE Confirm(r, lost) \/ Undo(r, lost)
  <2>1. Answer(r, TRUE, at', lost) /\ at' = [at EXCEPT !.revision = @ + 1]
    BY <1>4 DEF Confirm, Undo, Write
  <2>2. at' \in Cursor
    BY <2>1 DEF ShapeOK, Cursor
  <2> QED BY <1>4, <2>1, <2>2
<1>5. CASE Reject(r, lost)
  <2>1. Answer(r, TRUE, record[r.proposal].cursor, lost) /\ status[r.proposal] = "pending"
    BY <1>5 DEF Reject, Taken, Allowed
  <2>2. record[r.proposal].cursor \in Cursor
    BY <2>1 DEF ShapeOK, Request
  <2> QED BY <1>5, <2>1, <2>2
<1> QED BY <1>1, <1>2, <1>3, <1>4, <1>5

\* The decision under way is one the window began, and it goes from one step
\* to the next.
Begun(p) ==
    /\ deciding = None /\ p \in inbox.pending \cup inbox.undoable
    /\ deciding' \in [kind : Decision, proposal : {p}, chosen : SUBSET Nat,
                      step : {"flush", "ask"}, place : {known.place}, request : {None},
                      result : {None}]
    /\ (deciding'.kind = "confirm" => record[p].cursor = KnownCursor)
    /\ UNCHANGED <<host, requests, known, shown, dirty, stuck, life>>

LEMMA DecideKind ==
    ASSUME ShapeOK, NEW kind \in Decision, NEW p \in Proposal, record[p] # None,
           NEW chosen \in SUBSET DOMAIN record[p].items, Decide(kind, p, chosen)
    PROVE Begun(p)
<1>1. chosen \in SUBSET Nat
  BY DEF ShapeOK
<1>2. deciding' = [kind |-> kind, proposal |-> p, chosen |-> chosen,
                   step |-> IF kind = "reject" THEN "ask" ELSE "flush",
                   place |-> known.place, request |-> None, result |-> None]
  BY DEF Decide
<1>3. /\ p \in inbox.pending \cup inbox.undoable
      /\ kind = "confirm" => record[p].cursor = KnownCursor
  BY DEF Decide, Offered
<1>4. deciding = None /\ UNCHANGED <<host, requests, known, shown, dirty, stuck, life>>
  BY DEF Decide, screen
<1> QED BY <1>1, <1>2, <1>3, <1>4 DEF Begun

LEMMA ShapeKept ==
    ASSUME IInv, ShapeOK, ReceiptsOK, AskedOK, [Next]_vars
    PROVE ShapeOK'
<1>1. /\ at' \in Cursor
      /\ docs' = [l \in Place |-> docs'[l]]
  <2>1. CASE Unsaved
    BY <2>1 DEF Unsaved, ShapeOK
  <2>2. CASE Carried
    <3>1. /\ at' = [at EXCEPT !.revision = @ + 1]
          /\ \E doc : docs' = [docs EXCEPT ![at.place] = doc]
      BY <2>2 DEF Carried, Confirm, Undo, Write
    <3> QED BY <3>1 DEF ShapeOK, Cursor
  <2>3. CASE Saved
    BY <2>3 DEF Saved
  <2> QED BY <2>1, <2>2, <2>3, PlaceKinds
<1>2. known'.place \in Place /\ known'.revision \in Nat
  BY <1>1, KnownKinds DEF HostState, ShapeOK, Cursor
<1>3. requests' \subseteq Request
  <2>1. CASE requests' \subseteq requests
    BY <2>1 DEF ShapeOK
  <2>2. CASE Ask
    <3>1. requests' = requests \cup {[kind |-> deciding.kind, proposal |-> deciding.proposal,
                 chosen |-> deciding.chosen, cursor |-> KnownCursor, life |-> life]}
      BY <2>2 DEF Ask
    <3>2. KnownCursor \in Cursor /\ life \in Nat
      BY DEF KnownCursor, Cursor, ShapeOK
    <3>3. deciding.kind \in Decision /\ deciding.proposal \in Proposal /\ deciding.chosen \in SUBSET Nat
      BY <2>2 DEF Ask, In, ShapeOK
    <3> QED BY <3>1, <3>2, <3>3 DEF Request, ShapeOK
  <2> QED BY <2>1, <2>2, RequestKinds
<1>4. \A p \in Proposal : status'[p] # "none" \/ record'[p] # None =>
         record'[p].cursor \in Cursor /\ record'[p].items \in Seq(Item)
  <2> SUFFICES ASSUME NEW p \in Proposal, status'[p] # "none" \/ record'[p] # None
               PROVE record'[p].cursor \in Cursor /\ record'[p].items \in Seq(Item)
    OBVIOUS
  <2>1. CASE \E run \in Run : Propose(run)
    <3>1. PICK run \in Run : Propose(run)
      BY <2>1
    <3>2. PICK drafts \in [{q \in Proposal : RunOf[q] = run} -> UNION {Draft[q] : q \in Proposal}] :
            /\ \A q \in DOMAIN drafts : drafts[q] \in Draft[q]
            /\ status' = [q \in Proposal |-> IF q \in DOMAIN drafts THEN "pending" ELSE status[q]]
            /\ record' = [q \in Proposal |->
                            IF q \in DOMAIN drafts
                            THEN [place |-> at.place, cursor |-> at, doc |-> docs[at.place],
                                  items |-> drafts[q],
                                  staged |-> Staged(docs[at.place], drafts[q])]
                            ELSE record[q]]
      BY <3>1 DEF Propose
    <3>3. CASE p \in DOMAIN drafts
      <4>1. record'[p].cursor = at /\ record'[p].items = drafts[p]
        BY <3>2, <3>3
      <4>2. drafts[p] \in Seq(Item)
        BY <3>2, <3>3, Assumption
      <4> QED BY <4>1, <4>2 DEF ShapeOK
    <3>4. CASE p \notin DOMAIN drafts
      BY <3>2, <3>4 DEF ShapeOK
    <3> QED BY <3>3, <3>4
  <2>2. CASE ~\E run \in Run : Propose(run)
    <3>1. record' = record
      BY <2>2, RecordKinds
    <3>2. status[p] = "none" => status'[p] = "none"
      <4>1. CASE Unreceipted
        BY <4>1 DEF Unreceipted
      <4>2. CASE Decides
        <5>1. PICK r \in requests, lost \in BOOLEAN :
                Confirm(r, lost) \/ Reject(r, lost) \/ Undo(r, lost)
          BY <4>2 DEF Decides
        <5>2. /\ \E new : status' = [status EXCEPT ![r.proposal] = new]
              /\ status[r.proposal] # "none"
          BY <5>1 DEF Confirm, Reject, Undo, Becomes, Taken, Allowed
        <5> QED BY <5>2 DEF IInv, StatusType
      <4> QED BY <2>2, <4>1, <4>2, ReceiptKinds
    <3> QED BY <3>1, <3>2 DEF ShapeOK
  <2> QED BY <2>1, <2>2
<1>5. life' \in Nat
  <2>1. life' = life \/ life' = life + 1
    <3>1. CASE Proceed
      <4>1. CASE Serve \/ CallFails
        BY <4>1, CallsAnswer
      <4>2. CASE Flushed \/ FlushFails \/ Ask \/ RefreshFails \/ RecoverFails
        BY <4>2 DEF Flushed, FlushFails, Ask, RefreshFails, RecoverFails
      <4>3. CASE Reload \/ ReloadFails \/ Restore \/ RestoreFails
        BY <4>3 DEF Reload, ReloadFails, Restore, RestoreFails
      <4>4. CASE RefreshAfter \/ Recover
        BY <4>4 DEF RefreshAfter, Recover
      <4> QED BY <3>1, <4>1, <4>2, <4>3, <4>4 DEF Proceed
    <3>2. CASE Saving
      BY <3>2 DEF Saving, SaveNothing, Save, SaveConflicts
    <3>3. CASE Refresh \/ TakeBack \/ PageReload
      BY <3>3 DEF Refresh, TakeBack, PageReload
    <3>4. CASE (\E run \in Run : Propose(run)) \/ \E p \in Proposal : DayEnds(p)
      BY <3>4 DEF Propose, DayEnds, window
    <3>5. CASE (\E item \in Typing : Type(item)) \/ \E l \in Place : SwitchPlace(l)
      BY <3>5 DEF Type, SwitchPlace
    <3>6. CASE \E kind \in Decision, p \in Proposal :
                 /\ record[p] # None
                 /\ \E chosen \in SUBSET DOMAIN record[p].items : Decide(kind, p, chosen)
      BY <3>6 DEF Decide
    <3>7. CASE UNCHANGED vars
      BY <3>7 DEF vars, window
    <3> QED BY <3>1, <3>2, <3>3, <3>4, <3>5, <3>6, <3>7 DEF Next
  <2> QED BY <2>1 DEF ShapeOK
<1>6. deciding' # None =>
         deciding' \in [kind : Decision, proposal : Proposal, chosen : SUBSET Nat,
                       step : Steps, place : Place, request : Request \cup {None},
                       result : Cursor \cup {None}]
  <2> DEFINE Whole == [kind : Decision, proposal : Proposal, chosen : SUBSET Nat,
                       step : Steps, place : Place, request : Request \cup {None},
                       result : Cursor \cup {None}]
  <2>0. deciding # None => deciding \in Whole
    BY DEF ShapeOK
  <2>a. ASSUME NEW step \in Steps, deciding # None, Step(step) PROVE deciding' \in Whole
    BY <2>0, <2>a DEF Step
  <2>1. CASE Proceed
    <3>1. CASE Serve
      <4>1. PICK r \in requests, lost \in BOOLEAN, ok \in BOOLEAN, result \in Cursor \cup {None} :
              Answer(r, ok, result, lost)
        BY <3>1, ServeAnswers
      <4>2. deciding' = deciding \/ Answered(r, ok, result)
        BY <4>1, AnswerKinds
      <4>3. CASE Answered(r, ok, result)
        <5>1. deciding \in Whole
          BY <4>3, <2>0 DEF Answered
        <5>2. CASE deciding' = [deciding EXCEPT !.step = "recover"]
          BY <5>1, <5>2 DEF Steps
        <5>3. CASE deciding' = [deciding EXCEPT !.step = "refresh", !.result = result]
          BY <5>1, <5>3 DEF Steps
        <5>4. CASE deciding' = [deciding EXCEPT !.step = "reload", !.result = result]
          BY <5>1, <5>4 DEF Steps
        <5> QED BY <4>3, <5>2, <5>3, <5>4 DEF Answered
      <4> QED BY <4>2, <4>3, <2>0
    <3>2. CASE CallFails
      <4>1. PICK r \in requests : Answer(r, FALSE, None, FALSE)
        BY <3>2 DEF CallFails
      <4>2. deciding' = deciding \/ Answered(r, FALSE, None)
        BY <4>1, AnswerKinds
      <4>3. CASE Answered(r, FALSE, None)
        BY <4>3, <2>0 DEF Answered, Steps
      <4> QED BY <4>2, <4>3, <2>0
    <3>3. CASE Flushed
      <4>1. deciding # None /\ (Step("recover") \/ Step("ask"))
        BY <3>3 DEF Flushed, In
      <4> QED BY <4>1, <2>a DEF Steps
    <3>4. CASE FlushFails \/ RefreshFails \/ ReloadFails
      <4>1. deciding # None /\ Step("recover")
        BY <3>4 DEF FlushFails, RefreshFails, ReloadFails, In
      <4> QED BY <4>1, <2>a DEF Steps
    <3>5. CASE Ask
      <4>1. deciding # None /\ requests' \subseteq Request
        BY <3>5, <1>3 DEF Ask, In
      <4>2. PICK r \in requests' : deciding' = [deciding EXCEPT !.step = "asked", !.request = r]
        BY <3>5 DEF Ask
      <4> QED BY <4>1, <4>2, <2>0 DEF Steps
    <3>6. CASE Reload
      <4>1. deciding # None /\ Step("refresh")
        BY <3>6 DEF Reload, In
      <4> QED BY <4>1, <2>a DEF Steps
    <3>7. CASE Recover
      <4>1. deciding # None /\ (Step("restore") \/ deciding' = None)
        BY <3>7 DEF Recover, In
      <4> QED BY <4>1, <2>a DEF Steps
    <3>8. CASE RefreshAfter \/ RecoverFails \/ Restore \/ RestoreFails
      BY <3>8 DEF RefreshAfter, RecoverFails, Restore, RestoreFails
    <3> QED BY <2>1, <3>1, <3>2, <3>3, <3>4, <3>5, <3>6, <3>7, <3>8 DEF Proceed
  <2>2. CASE Saving
    BY <2>0, <2>2 DEF Saving, SaveNothing, Save, SaveConflicts
  <2>3. CASE Refresh \/ TakeBack \/ PageReload
    BY <2>0, <2>3 DEF Refresh, TakeBack, PageReload
  <2>4. CASE (\E run \in Run : Propose(run)) \/ \E p \in Proposal : DayEnds(p)
    BY <2>0, <2>4 DEF Propose, DayEnds, window
  <2>5. CASE (\E item \in Typing : Type(item)) \/ \E l \in Place : SwitchPlace(l)
    BY <2>0, <2>5 DEF Type, SwitchPlace
  <2>6. CASE \E kind \in Decision, p \in Proposal :
                 /\ record[p] # None
                 /\ \E chosen \in SUBSET DOMAIN record[p].items : Decide(kind, p, chosen)
    <3>1. PICK p \in Proposal : Begun(p)
      BY <2>6, DecideKind
    <3> QED BY <3>1 DEF Begun, Steps, ShapeOK
  <2>7. CASE UNCHANGED vars
    BY <2>0, <2>7 DEF vars, window
  <2> QED BY <2>1, <2>2, <2>3, <2>4, <2>5, <2>6, <2>7 DEF Next
<1> QED BY <1>1, <1>2, <1>3, <1>4, <1>5, <1>6 DEF ShapeOK

-----------------------------------------------------------------------------
(* Receipts.                                                               *)

ReceiptFor(r, cursor) ==
    [id |-> CommandId(r), request |-> r.cursor, result |-> cursor,
     kind |-> r.kind, proposal |-> r.proposal]

\* A decision adds its receipt and its outcome.
Receives(r, cursor, new) ==
    /\ cursor \in Cursor
    /\ receipts' = receipts \cup {ReceiptFor(r, cursor)}
    /\ status' = [status EXCEPT ![r.proposal] = new]
    /\ record' = record
    /\ \/ /\ r.kind = "confirm" /\ new = "confirmed" /\ status[r.proposal] = "pending"
          /\ r.cursor = record[r.proposal].cursor
       \/ r.kind = "reject" /\ new = "rejected" /\ status[r.proposal] = "pending"
       \/ r.kind = "undo" /\ new = "undone" /\ status[r.proposal] = "confirmed"
    /\ IF r.kind \in Changing
       THEN r.cursor = at /\ cursor = at' /\ at' = [at EXCEPT !.revision = @ + 1]
       ELSE at' = at

LEMMA ConfirmReceives ==
    ASSUME ShapeOK, NEW r \in requests, NEW lost, Confirm(r, lost)
    PROVE \E cursor \in Cursor, new \in Settling : Receives(r, cursor, new)
<1>1. r.kind = "confirm" /\ status[r.proposal] = "pending" /\ r.cursor = record[r.proposal].cursor
  BY DEF Confirm, Taken, Allowed, MayConfirm
<1>2. r.cursor = at /\ at' = [at EXCEPT !.revision = @ + 1] /\ record' = record
  BY DEF Confirm, MayConfirm, Write
<1>3. status' = [status EXCEPT ![r.proposal] = "confirmed"]
  BY DEF Confirm, Becomes
<1>4. receipts' = receipts \cup {ReceiptFor(r, at')}
  BY DEF Confirm, Receipt, ReceiptFor
<1>5. at' \in Cursor
  BY <1>2 DEF ShapeOK, Cursor
<1>6. Receives(r, at', "confirmed")
  BY <1>1, <1>2, <1>3, <1>4, <1>5 DEF Receives, Changing
<1> QED BY <1>5, <1>6 DEF Settling

LEMMA RejectReceives ==
    ASSUME ShapeOK, NEW r \in requests, NEW lost, Reject(r, lost)
    PROVE \E cursor \in Cursor, new \in Settling : Receives(r, cursor, new)
<1> DEFINE c == record[r.proposal].cursor
<1>1. r.kind = "reject" /\ status[r.proposal] = "pending"
  BY DEF Reject, Taken, Allowed
<1>2. at' = at /\ record' = record
  BY DEF Reject
<1>3. status' = [status EXCEPT ![r.proposal] = "rejected"]
  BY DEF Reject, Becomes
<1>4. receipts' = receipts \cup {ReceiptFor(r, c)}
  BY DEF Reject, Receipt, ReceiptFor
<1>5. c \in Cursor
  BY <1>1 DEF ShapeOK, Request
<1> HIDE DEF c
<1>6. Receives(r, c, "rejected")
  BY <1>1, <1>2, <1>3, <1>4, <1>5 DEF Receives, Changing
<1> QED BY <1>5, <1>6 DEF Settling

LEMMA UndoReceives ==
    ASSUME ShapeOK, NEW r \in requests, NEW lost, Undo(r, lost)
    PROVE \E cursor \in Cursor, new \in Settling : Receives(r, cursor, new)
<1>1. r.kind = "undo" /\ status[r.proposal] = "confirmed"
  BY DEF Undo, Taken, Allowed
<1>2. r.cursor = at /\ at' = [at EXCEPT !.revision = @ + 1] /\ record' = record
  BY DEF Undo, MayUndo, Write
<1>3. status' = [status EXCEPT ![r.proposal] = "undone"]
  BY DEF Undo, Becomes
<1>4. receipts' = receipts \cup {ReceiptFor(r, at')}
  BY DEF Undo, Receipt, ReceiptFor
<1>5. at' \in Cursor
  BY <1>2 DEF ShapeOK, Cursor
<1>6. Receives(r, at', "undone")
  BY <1>1, <1>2, <1>3, <1>4, <1>5 DEF Receives, Changing
<1> QED BY <1>5, <1>6 DEF Settling

LEMMA DecidesReceives ==
    ASSUME ShapeOK, Decides
    PROVE \E r \in requests, cursor \in Cursor, new \in Settling : Receives(r, cursor, new)
<1>1. PICK r \in requests, lost \in BOOLEAN :
        Confirm(r, lost) \/ Reject(r, lost) \/ Undo(r, lost)
  BY DEF Decides
<1> QED BY <1>1, ConfirmReceives, RejectReceives, UndoReceives

\* A run proposes only what has no status yet.
LEMMA ProposeTouches ==
    ASSUME IInv, NEW run \in Run, Propose(run), NEW p \in Proposal, status[p] # "none"
    PROVE status'[p] = status[p] /\ record'[p] = record[p] /\ UNCHANGED <<receipts, at, docs>>
<1>1. PICK drafts \in [{q \in Proposal : RunOf[q] = run} -> UNION {Draft[q] : q \in Proposal}] :
        /\ status' = [q \in Proposal |-> IF q \in DOMAIN drafts THEN "pending" ELSE status[q]]
        /\ record' = [q \in Proposal |->
                        IF q \in DOMAIN drafts
                        THEN [place |-> at.place, cursor |-> at, doc |-> docs[at.place],
                              items |-> drafts[q],
                              staged |-> Staged(docs[at.place], drafts[q])]
                        ELSE record[q]]
  BY DEF Propose
<1>2. RunOf[p] # run
  BY DEF Propose
<1>3. p \notin DOMAIN drafts
  BY <1>2
<1>4. UNCHANGED <<receipts, at, docs>>
  BY DEF Propose
<1> HIDE DEF Propose
<1> QED BY <1>1, <1>3, <1>4

\* The places stay where they are, or go on by one revision.
LEMMA Advancing ==
    ASSUME ShapeOK, [Next]_vars
    PROVE \/ Unsaved
          \/ at'.revision = at.revision + 1
<1>1. CASE Carried
  <2>1. at' = [at EXCEPT !.revision = @ + 1]
    BY <1>1 DEF Carried, Confirm, Undo, Write
  <2> QED BY <2>1 DEF ShapeOK, Cursor
<1> QED BY <1>1, PlaceKinds DEF Saved

LEMMA ReceiptsKept ==
    ASSUME IInv, ShapeOK, ReceiptsOK, [Next]_vars
    PROVE ReceiptsOK'
<1>1. CASE receipts' = receipts
  BY <1>1 DEF ReceiptsOK
<1>2. CASE Decides
  <2>1. PICK r \in requests, cursor \in Cursor, new \in Settling : Receives(r, cursor, new)
    BY <1>2, DecidesReceives
  <2>2. r \in Request
    BY DEF ShapeOK
  <2>3. receipts' = receipts \cup {ReceiptFor(r, cursor)}
    BY <2>1 DEF Receives
  <2>4. /\ ReceiptFor(r, cursor).id[2] = r.kind /\ ReceiptFor(r, cursor).id[3] = r.proposal
        /\ ReceiptFor(r, cursor).kind = r.kind /\ ReceiptFor(r, cursor).proposal = r.proposal
        /\ ReceiptFor(r, cursor).request = r.cursor /\ ReceiptFor(r, cursor).result = cursor
    BY DEF ReceiptFor, CommandId
  <2>5. r.kind \in Decision /\ r.proposal \in Proposal /\ r.cursor \in Cursor
    BY <2>2 DEF Request
  <2> QED BY <2>3, <2>4, <2>5 DEF ReceiptsOK
<1>3. CASE Unreceipted \/ \E run \in Run : Propose(run)
  BY <1>1, <1>3 DEF Unreceipted, Propose
<1> QED BY <1>2, <1>3, ReceiptKinds

LEMMA AdvanceKept ==
    ASSUME IInv, ShapeOK, ReceiptsOK, ReceiptsAdvance, [Next]_vars
    PROVE ReceiptsAdvance'
<1>0. at.revision \in Nat
  BY DEF ShapeOK, Cursor
<1>1. CASE receipts' = receipts
  <2> SUFFICES ASSUME NEW x \in receipts, x.kind \in Changing
               PROVE /\ x.result.revision = x.request.revision + 1
                     /\ x.result.revision <= at'.revision
                     /\ x.result.revision = at'.revision => x.result = at'
    BY <1>1 DEF ReceiptsAdvance
  <2>1. /\ x.result.revision = x.request.revision + 1
        /\ x.result.revision <= at.revision
        /\ x.result.revision = at.revision => x.result = at
    BY DEF ReceiptsAdvance
  <2>2. x.result.revision \in Nat
    BY DEF ReceiptsOK, Cursor
  <2>3. CASE Unsaved
    BY <2>1, <2>3 DEF Unsaved
  <2>4. CASE at'.revision = at.revision + 1
    BY <1>0, <2>1, <2>2, <2>4
  <2> QED BY <2>3, <2>4, Advancing
<1>2. CASE Decides
  <2>1. PICK r \in requests, cursor \in Cursor, new \in Settling : Receives(r, cursor, new)
    BY <1>2, DecidesReceives
  <2> SUFFICES ASSUME NEW x \in receipts', x.kind \in Changing
               PROVE /\ x.result.revision = x.request.revision + 1
                     /\ x.result.revision <= at'.revision
                     /\ x.result.revision = at'.revision => x.result = at'
    BY DEF ReceiptsAdvance
  <2>2. CASE x \in receipts
    <3>1. /\ x.result.revision = x.request.revision + 1
          /\ x.result.revision <= at.revision
          /\ x.result.revision = at.revision => x.result = at
      BY <2>2 DEF ReceiptsAdvance
    <3>2. x.result.revision \in Nat
      BY <2>2 DEF ReceiptsOK, Cursor
    <3>3. at' = at \/ at'.revision = at.revision + 1
      BY <2>1 DEF Receives, ShapeOK, Cursor
    <3> QED BY <1>0, <3>1, <3>2, <3>3
  <2>3. CASE x \notin receipts
    <3>1. x = ReceiptFor(r, cursor)
      BY <2>1, <2>3 DEF Receives
    <3>2. x.kind = r.kind /\ x.request = r.cursor /\ x.result = cursor
      BY <3>1 DEF ReceiptFor
    <3>3. r.cursor = at /\ cursor = at' /\ at' = [at EXCEPT !.revision = @ + 1]
      BY <2>1, <3>2 DEF Receives
    <3>4. at'.revision = at.revision + 1
      BY <3>3 DEF ShapeOK, Cursor
    <3> QED BY <1>0, <3>2, <3>3, <3>4
  <2> QED BY <2>2, <2>3
<1>3. CASE Unreceipted \/ \E run \in Run : Propose(run)
  BY <1>1, <1>3 DEF Unreceipted, Propose
<1> QED BY <1>2, <1>3, ReceiptKinds

\* What a receipt tells stays true.
LEMMA OutcomesStay ==
    ASSUME IInv, [Next]_vars, NEW p \in Proposal, NEW kind \in Decision,
           status[p] \in Outcomes(kind)
    PROVE status'[p] \in Outcomes(kind)
BY FinalStep DEF Later, Outcomes, Decision

LEMMA TellKept ==
    ASSUME IInv, ShapeOK, ReceiptsOK, ReceiptsTell, [Next]_vars
    PROVE ReceiptsTell'
<1>0. status \in [Proposal -> Settling]
  BY DEF IInv, StatusType
<1>1. ASSUME NEW x \in receipts
      PROVE /\ status'[x.proposal] \in Outcomes(x.kind)
            /\ x.kind = "confirm" => x.request = record'[x.proposal].cursor
  <2>1. x.kind \in Decision /\ x.proposal \in Proposal
    BY DEF ReceiptsOK
  <2>2. /\ status[x.proposal] \in Outcomes(x.kind)
        /\ x.kind = "confirm" => x.request = record[x.proposal].cursor
    BY DEF ReceiptsTell
  <2>3. status[x.proposal] # "none"
    BY <2>1, <2>2 DEF Outcomes, Decision
  <2>4. record'[x.proposal] = record[x.proposal]
    BY <2>1, <2>3, RecordKinds, ProposeTouches
  <2> QED BY <2>1, <2>2, <2>4, OutcomesStay
<1>2. CASE Unreceipted
  <2>1. receipts' = receipts
    BY <1>2 DEF Unreceipted
  <2>2. \A p \in Proposal : status'[p] \in Outcomes("confirm") => status[p] \in Outcomes("confirm")
    BY <1>2 DEF Unreceipted, Outcomes
  <2> QED BY <1>1, <2>1, <2>2 DEF ReceiptsTell
<1>3. CASE \E run \in Run : Propose(run)
  <2>1. PICK run \in Run : Propose(run)
    BY <1>3
  <2>2. receipts' = receipts
    BY <2>1 DEF Propose
  <2>3. ASSUME NEW p \in Proposal, status'[p] \in Outcomes("confirm")
        PROVE status[p] \in Outcomes("confirm")
    <3>1. status'[p] = status[p] \/ status'[p] = "pending"
      BY <2>1 DEF Propose
    <3> QED BY <2>3, <3>1 DEF Outcomes
  <2> QED BY <1>1, <2>2, <2>3 DEF ReceiptsTell
<1>4. CASE Decides
  <2>1. PICK r \in requests, cursor \in Cursor, new \in Settling : Receives(r, cursor, new)
    BY <1>4, DecidesReceives
  <2> DEFINE n == ReceiptFor(r, cursor)
  <2>2. receipts' = receipts \cup {n}
    BY <2>1 DEF Receives
  <2>3. n.kind = r.kind /\ n.proposal = r.proposal /\ n.request = r.cursor
    BY DEF ReceiptFor
  <2>4. r.proposal \in Proposal
    BY DEF ShapeOK, Request
  <2>5. status'[r.proposal] = new /\ \A p \in Proposal : p # r.proposal => status'[p] = status[p]
    BY <1>0, <2>1, <2>4 DEF Receives
  <2> HIDE DEF n
  <2>6. /\ status'[n.proposal] \in Outcomes(n.kind)
        /\ n.kind = "confirm" => n.request = record'[n.proposal].cursor
    BY <2>1, <2>3, <2>5 DEF Receives, Outcomes
  <2>7. ASSUME NEW x \in receipts, x.kind = "confirm", n.kind = "confirm", x.proposal = n.proposal
        PROVE FALSE
    <3>1. status[r.proposal] \in Outcomes("confirm")
      BY <2>3, <2>7 DEF ReceiptsTell
    <3> QED BY <2>1, <2>3, <2>7, <3>1 DEF Receives, Outcomes
  <2>8. \A x, y \in receipts' :
          x.kind = "confirm" /\ y.kind = "confirm" /\ x.proposal = y.proposal => x = y
    BY <2>2, <2>7 DEF ReceiptsTell
  <2>9. ASSUME NEW p \in Proposal, status'[p] \in Outcomes("confirm")
        PROVE \E x \in receipts' : x.kind = "confirm" /\ x.proposal = p
    <3>1. CASE status[p] \in Outcomes("confirm")
      BY <2>2, <3>1 DEF ReceiptsTell
    <3>2. CASE status[p] \notin Outcomes("confirm")
      <4>1. p = r.proposal
        BY <2>5, <2>9, <3>2
      <4>2. r.kind = "confirm"
        BY <2>1, <2>5, <2>9, <3>2, <4>1 DEF Receives, Outcomes
      <4> QED BY <2>2, <2>3, <4>1, <4>2
    <3> QED BY <3>1, <3>2
  <2> QED BY <1>1, <2>2, <2>6, <2>8, <2>9 DEF ReceiptsTell
<1> QED BY <1>2, <1>3, <1>4, ReceiptKinds

-----------------------------------------------------------------------------
(* The window and the host.                                                *)

\* The host goes on by itself only from what the window has.
LEMMA CarriedFrom ==
    ASSUME ShapeOK, InStep, RequestsLag, Carried
    PROVE /\ known.revision = at.revision
          /\ \E r \in requests : r.cursor = at
          /\ at' = [at EXCEPT !.revision = @ + 1]
          /\ UNCHANGED <<known, shown, dirty>>
<1>1. PICK r \in requests, lost \in BOOLEAN : Confirm(r, lost) \/ Undo(r, lost)
  BY DEF Carried
<1>2. r.cursor = at /\ at' = [at EXCEPT !.revision = @ + 1]
  BY <1>1 DEF Confirm, MayConfirm, Undo, MayUndo, Write
<1>3. UNCHANGED <<known, shown, dirty>>
  BY <1>1 DEF Confirm, Undo, Answer, screen
<1>4. at.revision <= known.revision
  BY <1>2 DEF RequestsLag
<1>5. known.revision <= at.revision /\ known.revision \in Nat /\ at.revision \in Nat
  BY DEF InStep, ShapeOK, Cursor
<1> QED BY <1>2, <1>3, <1>4, <1>5

LEMMA InStepKept ==
    ASSUME ShapeOK, ShapeOK', InStep, RequestsLag, [Next]_vars
    PROVE InStep' /\ known.revision <= known'.revision
<1>0. /\ known.revision \in Nat /\ at.revision \in Nat /\ at'.revision \in Nat
      /\ known.revision <= at.revision /\ at.revision <= known.revision + 1
  BY DEF ShapeOK, Cursor, InStep
<1>1. at'.revision = at.revision \/ at'.revision = at.revision + 1
  BY Advancing DEF Unsaved
<1>2. CASE known' = HostState'
  <2>1. /\ known'.place = at'.place /\ known'.revision = at'.revision
        /\ known'.doc = docs'[at'.place]
    BY <1>2 DEF HostState
  <2>2. KnownCursor' = at'
    BY <2>1 DEF KnownCursor, ShapeOK, Cursor
  <2> QED BY <1>0, <1>1, <2>1, <2>2 DEF InStep
<1>3. CASE known' = known
  <2>1. CASE Unsaved
    <3>1. KnownCursor' = KnownCursor
      BY <1>3 DEF KnownCursor
    <3> QED BY <1>0, <1>3, <2>1, <3>1 DEF Unsaved, InStep
  <2>2. CASE Carried
    <3>1. known.revision = at.revision /\ at'.revision = at.revision + 1
      BY <2>2, CarriedFrom DEF ShapeOK, Cursor
    <3> QED BY <1>0, <1>3, <3>1 DEF InStep
  <2>3. CASE Saved
    BY <1>2, <2>3 DEF Saved
  <2> QED BY <2>1, <2>2, <2>3, PlaceKinds
<1> QED BY <1>2, <1>3, KnownKinds

LEMMA LagKept ==
    ASSUME ShapeOK, ShapeOK', RequestsLag, known.revision <= known'.revision, [Next]_vars
    PROVE RequestsLag'
<1> SUFFICES ASSUME NEW r \in requests' PROVE r.cursor.revision <= known'.revision
  BY DEF RequestsLag
<1>1. known.revision \in Nat /\ known'.revision \in Nat /\ r.cursor.revision \in Nat
  BY DEF ShapeOK, Request, Cursor
<1>2. r.cursor.revision <= known.revision
  <2>1. CASE r \in requests
    BY <2>1 DEF RequestsLag
  <2>2. CASE r \notin requests
    <3>1. Ask
      BY <2>2, RequestKinds
    <3>2. r.cursor = KnownCursor
      BY <2>2, <3>1 DEF Ask
    <3>3. r.cursor.revision = known.revision
      BY <3>2 DEF KnownCursor
    <3> QED BY <1>1, <3>3
  <2> QED BY <2>1, <2>2
<1> QED BY <1>1, <1>2

\* A confirmation the window recovers has its receipt.
LEMMA Stored ==
    ASSUME ReceiptsTell, NEW p \in Proposal, status[p] \in Outcomes("confirm")
    PROVE \E x \in receipts : x.kind = "confirm" /\ x.proposal = p /\ StoredResult(p) = x.result
<1>1. \E x \in receipts : x.kind = "confirm" /\ x.proposal = p
  BY DEF ReceiptsTell
<1> QED BY <1>1 DEF StoredResult

\* Only a load that is not shown parts the screen from the client, and the host
\* has taken that decision.
LEMMA ScreenKept ==
    ASSUME ShapeOK, AfterAnswer, Follows, [Next]_vars
    PROVE Follows' \/ ((ReloadFails \/ RestoreFails) /\ status[deciding.proposal] \in Announced)
<1>1. CASE UNCHANGED <<known, shown, dirty>>
  BY <1>1 DEF Follows
<1>2. CASE Proceed
  <2>1. CASE Serve \/ CallFails
    <3>1. UNCHANGED <<known, shown, dirty>>
      BY <2>1, CallsAnswer
    <3> QED BY <1>1, <3>1
  <2>2. CASE Flushed \/ FlushFails \/ Ask \/ RefreshFails \/ RecoverFails
    BY <1>1, <2>2 DEF Flushed, FlushFails, Ask, RefreshFails, RecoverFails, screen
  <2>3. CASE Reload \/ Restore
    BY <2>3 DEF Reload, Restore, Loads, HostState, Follows
  <2>4. CASE ReloadFails \/ RestoreFails
    <3>1. deciding # None /\ deciding.step \in {"reload", "restore"}
      BY <2>4 DEF ReloadFails, RestoreFails, In
    <3>2. status[deciding.proposal] \in Outcomes(deciding.kind)
      BY <3>1 DEF AfterAnswer
    <3>3. deciding.kind \in Decision
      BY <3>1 DEF ShapeOK
    <3>4. Announced = Outcomes(deciding.kind)
      BY <3>3 DEF Announced, Outcomes, Decision
    <3> QED BY <2>4, <3>2, <3>4
  <2>5. CASE RefreshAfter \/ Recover
    BY <1>1, <2>5 DEF RefreshAfter, Recover, screen
  <2> QED BY <1>2, <2>1, <2>2, <2>3, <2>4, <2>5 DEF Proceed
<1>3. CASE Saving
  <2>1. CASE Save
    <3>1. /\ docs' = [docs EXCEPT ![at.place] = shown] /\ at' = [at EXCEPT !.revision = @ + 1]
          /\ known' = HostState' /\ shown' = shown
      BY <2>1 DEF Save, Write
    <3>2. known'.doc = docs'[at'.place]
      BY <3>1 DEF HostState
    <3>3. at'.place = at.place /\ at.place \in Place
      BY <3>1 DEF ShapeOK, Cursor
    <3>4. docs'[at.place] = shown
      BY <3>1, <3>3 DEF ShapeOK
    <3> QED BY <3>1, <3>2, <3>3, <3>4 DEF Follows
  <2>2. CASE SaveNothing \/ SaveConflicts
    BY <2>2 DEF SaveNothing, SaveConflicts, Follows
  <2> QED BY <1>3, <2>1, <2>2 DEF Saving
<1>4. CASE Refresh
  BY <1>1, <1>4 DEF Refresh, screen
<1>5. CASE TakeBack
  BY <1>5 DEF TakeBack, Follows
<1>6. CASE PageReload
  BY <1>6 DEF PageReload, HostState, Follows
<1>7. CASE (\E run \in Run : Propose(run)) \/ \E p \in Proposal : DayEnds(p)
  BY <1>1, <1>7 DEF Propose, DayEnds, window, screen
<1>8. CASE \E item \in Typing : Type(item)
  BY <1>8 DEF Type, Follows
<1>9. CASE \E l \in Place : SwitchPlace(l)
  <2>1. PICK l \in Place : SwitchPlace(l)
    BY <1>9
  <2>2. /\ known' = HostState' /\ shown' = docs[l] /\ docs' = docs
        /\ at' = [place |-> l, revision |-> at.revision + 1]
    BY <2>1 DEF SwitchPlace
  <2>3. known'.doc = docs'[at'.place] /\ at'.place = l
    BY <2>2 DEF HostState
  <2> QED BY <2>2, <2>3 DEF Follows
<1>10. CASE \E kind \in Decision, p \in Proposal :
             /\ record[p] # None
             /\ \E chosen \in SUBSET DOMAIN record[p].items : Decide(kind, p, chosen)
  BY <1>1, <1>10 DEF Decide, screen
<1>11. CASE UNCHANGED vars
  BY <1>1, <1>11 DEF vars, window, screen
<1> QED BY <1>2, <1>3, <1>4, <1>5, <1>6, <1>7, <1>8, <1>9, <1>10, <1>11 DEF Next

-----------------------------------------------------------------------------
(* The decision under way.                                                 *)

\* It waits, while calls are answered, the user types and saves, and runs end.
Waits ==
    /\ deciding # None /\ deciding' = deciding
    /\ requests' \subseteq requests /\ (known' = known \/ Saved)

\* The host's answer.
Served(r, ok, result) ==
    /\ Answered(r, ok, result)
    /\ requests' = requests \ {r} /\ known' = known
    /\ \/ UNCHANGED host /\ \E x \in ReceiptOf(r) : ok = (x.request = r.cursor) /\ result = x.result
       \/ ~ok
       \/ ok /\ Decides /\ \E cursor \in Cursor, new \in Settling : Receives(r, cursor, new)
               /\ (r.kind \in Changing => result = at')

\* It goes on by itself.
GoesOn == Flushed \/ FlushFails \/ Reload \/ ReloadFails \/ RefreshFails \/ Recover

LEMMA ServedKinds ==
    ASSUME ShapeOK, ReceiptsOK, AskedOK, deciding # None, Serve
    PROVE \/ Waits
          \/ \E r \in requests, ok \in BOOLEAN, result \in Cursor \cup {None} : Served(r, ok, result)
<1>1. PICK r \in requests, lost \in BOOLEAN, ok \in BOOLEAN, result \in Cursor \cup {None} :
            /\ Answer(r, ok, result, lost)
            /\ ok => result \in Cursor
            /\ \/ Replay(r, lost) /\ \E x \in ReceiptOf(r) : ok = (x.request = r.cursor) /\ result = x.result
               \/ (Expire(r, lost) \/ Refuse(r, lost)) /\ ~ok
               \/ (Confirm(r, lost) \/ Undo(r, lost)) /\ result = at'
               \/ Reject(r, lost)
  BY ServeAnswers
<1>2. /\ requests' = requests \ {r} /\ known' = known
      /\ \/ deciding' = deciding
         \/ Answered(r, ok, result)
  BY <1>1, AnswerKinds
<1>3. CASE deciding' = deciding
  BY <1>2, <1>3 DEF Waits
<1>4. CASE Answered(r, ok, result)
  <2>1. CASE Replay(r, lost) /\ \E x \in ReceiptOf(r) : ok = (x.request = r.cursor) /\ result = x.result
    <3>1. UNCHANGED host
      BY <2>1 DEF Replay
    <3> QED BY <1>2, <1>4, <2>1, <3>1 DEF Served
  <2>2. CASE ~ok
    BY <1>2, <1>4, <2>2 DEF Served
  <2>3. CASE Confirm(r, lost) /\ result = at'
    <3>1. \E cursor \in Cursor, new \in Settling : Receives(r, cursor, new)
      BY <2>3, ConfirmReceives
    <3> QED BY <1>2, <1>4, <2>2, <2>3, <3>1 DEF Served, Decides
  <2>4. CASE Undo(r, lost) /\ result = at'
    <3>1. \E cursor \in Cursor, new \in Settling : Receives(r, cursor, new)
      BY <2>4, UndoReceives
    <3> QED BY <1>2, <1>4, <2>2, <2>4, <3>1 DEF Served, Decides
  <2>5. CASE Reject(r, lost)
    <3>1. \E cursor \in Cursor, new \in Settling : Receives(r, cursor, new)
      BY <2>5, RejectReceives
    <3>2. r.kind \notin Changing
      BY <2>5 DEF Reject, Changing
    <3> QED BY <1>2, <1>4, <2>2, <2>5, <3>1, <3>2 DEF Served, Decides
  <2> QED BY <1>1, <2>1, <2>2, <2>3, <2>4, <2>5
<1> QED BY <1>2, <1>3, <1>4

LEMMA DecidingKinds ==
    ASSUME ShapeOK, ReceiptsOK, AskedOK, [Next]_vars
    PROVE \/ deciding' = None
          \/ Waits
          \/ \E r \in requests, ok \in BOOLEAN, result \in Cursor \cup {None} : Served(r, ok, result)
          \/ GoesOn \/ Ask
          \/ \E p \in Proposal : Begun(p)
<1>0. CASE deciding' = deciding /\ requests' = requests /\ known' = known
  BY <1>0 DEF Waits
<1>1. CASE Proceed
  <2>1. CASE Serve
    <3>1. CASE deciding = None
      <4>1. deciding' = None
        BY <2>1, <3>1, CallsEnd DEF Answer
      <4> QED BY <4>1
    <3> QED BY <2>1, <3>1, ServedKinds
  <2>2. CASE CallFails
    <3>1. PICK r \in requests : Answer(r, FALSE, None, FALSE)
      BY <2>2 DEF CallFails
    <3>2. requests' = requests \ {r} /\ known' = known
      BY <3>1 DEF Answer, screen
    <3>3. deciding' = deciding \/ Answered(r, FALSE, None)
      BY <3>1, AnswerKinds
    <3>4. CASE Answered(r, FALSE, None)
      BY <3>2, <3>4 DEF Served
    <3> QED BY <3>2, <3>3, <3>4 DEF Waits
  <2>3. CASE RefreshAfter \/ RecoverFails \/ Restore \/ RestoreFails
    BY <2>3 DEF RefreshAfter, RecoverFails, Restore, RestoreFails
  <2> QED BY <1>1, <2>1, <2>2, <2>3 DEF Proceed, GoesOn
<1>2. CASE Saving
  <2>1. CASE Save
    <3>1. deciding' = deciding /\ requests' = requests
      BY <2>1 DEF Save
    <3>2. Saved
      BY <2>1, SaveSaves
    <3> QED BY <3>1, <3>2 DEF Waits
  <2>2. CASE SaveNothing \/ SaveConflicts
    BY <1>0, <2>2 DEF SaveNothing, SaveConflicts
  <2> QED BY <1>2, <2>1, <2>2 DEF Saving
<1>3. CASE Refresh \/ PageReload
  BY <1>3 DEF Refresh, PageReload
<1>4. CASE TakeBack
  BY <1>0, <1>4 DEF TakeBack
<1>5. CASE (\E run \in Run : Propose(run)) \/ \E p \in Proposal : DayEnds(p)
  BY <1>0, <1>5 DEF Propose, DayEnds, window, screen
<1>6. CASE \E item \in Typing : Type(item)
  BY <1>0, <1>6 DEF Type
<1>7. CASE \E l \in Place : SwitchPlace(l)
  <2>1. PICK l \in Place : SwitchPlace(l)
    BY <1>7
  <2>2. deciding' = deciding /\ requests' = requests
    BY <2>1 DEF SwitchPlace
  <2>3. Saved
    BY <2>1, SwitchSaves
  <2> QED BY <2>2, <2>3 DEF Waits
<1>8. CASE \E kind \in Decision, p \in Proposal :
             /\ record[p] # None
             /\ \E chosen \in SUBSET DOMAIN record[p].items : Decide(kind, p, chosen)
  BY <1>8, DecideKind
<1>9. CASE UNCHANGED vars
  BY <1>0, <1>9 DEF vars, window, screen
<1> QED BY <1>1, <1>2, <1>3, <1>4, <1>5, <1>6, <1>7, <1>8, <1>9 DEF Next

\* A call still under way has the cursor it was sent with.
LEMMA AskedKept ==
    ASSUME IInv, ShapeOK, ShapeOK', ReceiptsOK, InStep, RequestsLag, ReceiptsAdvance, AskedOK,
           known.revision <= known'.revision, [Next]_vars
    PROVE AskedOK'
<1> SUFFICES ASSUME deciding' # None PROVE AskedOK'
  BY DEF AskedOK
<1>1. CASE Waits
  <2>1. deciding # None /\ deciding' = deciding /\ requests' \subseteq requests /\ (known' = known \/ Saved)
    BY <1>1 DEF Waits
  <2>2. SUFFICES ASSUME deciding.step = "asked"
        PROVE /\ deciding.request.cursor.revision <= known'.revision
              /\ deciding.request.cursor.revision < known'.revision =>
                   \A x \in receipts' : x.kind \in Changing => x.request # deciding.request.cursor
    BY <2>1 DEF AskedOK
  <2> DEFINE c == deciding.request.cursor
  <2>3. c \in Cursor /\ c.revision \in Nat /\ c.revision <= known.revision
    BY <2>1, <2>2 DEF AskedOK, Request, Cursor
  <2>4. c.revision < known.revision => \A x \in receipts : x.kind \in Changing => x.request # c
    BY <2>1, <2>2 DEF AskedOK
  <2>5. /\ known.revision \in Nat /\ known'.revision \in Nat /\ at.revision \in Nat
        /\ known.revision <= at.revision
    BY DEF ShapeOK, Cursor, InStep
  <2> HIDE DEF c
  <2>6. c.revision <= known'.revision
    BY <2>3, <2>5
  <2>7. ASSUME c.revision < known'.revision, NEW x \in receipts', x.kind \in Changing, x.request = c
        PROVE FALSE
    <3>1. CASE x \in receipts
      <4>1. c.revision = known.revision /\ known'.revision # known.revision
        BY <2>3, <2>4, <2>5, <2>7, <3>1
      <4>2. KnownCursor = at
        BY <2>1, <4>1 DEF Saved
      <4>3. known.revision = at.revision
        BY <4>2 DEF KnownCursor
      <4>4. x.result.revision = c.revision + 1 /\ x.result.revision <= at.revision
        BY <2>7, <3>1 DEF ReceiptsAdvance
      <4> QED BY <2>3, <2>5, <4>1, <4>3, <4>4
    <3>2. CASE x \notin receipts
      <4>1. Decides
        BY <3>2, ReceiptKinds DEF Unreceipted, Propose
      <4>2. PICK r \in requests, cursor \in Cursor, new \in Settling : Receives(r, cursor, new)
        BY <4>1, DecidesReceives
      <4>3. x = ReceiptFor(r, cursor)
        BY <3>2, <4>2 DEF Receives
      <4>4. x.kind = r.kind /\ x.request = r.cursor
        BY <4>3 DEF ReceiptFor
      <4>5. r.cursor = at
        BY <2>7, <4>2, <4>4 DEF Receives
      <4>6. known' = known
        BY <4>1 DEF Decides, Confirm, Reject, Undo, Answer, screen
      <4> QED BY <2>5, <2>7, <4>4, <4>5, <4>6
    <3> QED BY <3>1, <3>2
  <2> QED BY <2>6, <2>7 DEF c
<1>2. ASSUME NEW r \in requests, NEW ok \in BOOLEAN, NEW result \in Cursor \cup {None}, Served(r, ok, result)
      PROVE AskedOK'
  <2>1. deciding'.request = r /\ r \notin requests' /\ deciding'.step # "asked"
    BY <1>2 DEF Served, Answered, ShapeOK
  <2> QED BY <2>1 DEF AskedOK
<1>3. CASE GoesOn
  <2>1. /\ deciding # None /\ deciding.step # "asked" /\ requests' = requests
        /\ \E step \in {"ask", "refresh", "recover", "restore"} : Step(step)
    BY <1>3 DEF GoesOn, Flushed, FlushFails, Reload, ReloadFails, RefreshFails, Recover, In
  <2>2. deciding'.request = deciding.request /\ deciding'.step # "asked"
    BY <2>1 DEF Step, ShapeOK
  <2> QED BY <2>1, <2>2 DEF AskedOK
<1>4. CASE Ask
  <2>1. PICK r : /\ r = [kind |-> deciding.kind, proposal |-> deciding.proposal,
                         chosen |-> deciding.chosen, cursor |-> KnownCursor, life |-> life]
                 /\ requests' = requests \cup {r}
                 /\ deciding' = [deciding EXCEPT !.step = "asked", !.request = r]
                 /\ deciding # None /\ known' = known
    BY <1>4 DEF Ask, In, screen
  <2>2. deciding'.step = "asked" /\ deciding'.request = r /\ deciding'.kind = deciding.kind
        /\ deciding'.proposal = deciding.proposal
    BY <2>1 DEF ShapeOK
  <2>3. r \in Request /\ r.kind = deciding.kind /\ r.proposal = deciding.proposal
    BY <2>1 DEF ShapeOK
  <2>4. r.cursor.revision = known'.revision /\ known'.revision \in Nat
    BY <2>1 DEF KnownCursor, ShapeOK
  <2> QED BY <2>2, <2>3, <2>4 DEF AskedOK
<1>5. ASSUME NEW p \in Proposal, Begun(p)
      PROVE AskedOK'
  <2>1. deciding'.request = None /\ deciding'.step # "asked" /\ requests' = requests
    BY <1>5 DEF Begun
  <2>2. None \notin requests'
    BY <2>1, NoneAssumption DEF ShapeOK
  <2> QED BY <2>1, <2>2 DEF AskedOK
<1> QED BY <1>1, <1>2, <1>3, <1>4, <1>5, DecidingKinds

-----------------------------------------------------------------------------
(* What becomes of a confirmation.                                         *)

\* While the window lacks the host's last step, the host takes no other.
LEMMA Frozen ==
    ASSUME ShapeOK, InStep, RequestsLag, known.revision < at.revision, [Next]_vars
    PROVE Unsaved
<1>1. known.revision \in Nat /\ at.revision \in Nat
  BY DEF ShapeOK, Cursor
<1>2. CASE Carried
  BY <1>1, <1>2, CarriedFrom
<1>3. CASE Saved
  BY <1>1, <1>3 DEF Saved, KnownCursor
<1> QED BY <1>2, <1>3, PlaceKinds

LEMMA BehindKept ==
    ASSUME IInv, ShapeOK, InStep, RequestsLag, ReceiptsTell, NEW p \in Proposal, Behind(p),
           status[p] \in Outcomes("confirm"), known' = known \/ Saved, [Next]_vars
    PROVE Behind(p)'
<1>1. Unsaved
  BY Frozen DEF Behind
<1>2. known' = known
  <2>1. known.revision \in Nat /\ at.revision \in Nat /\ known.revision < at.revision
    BY DEF ShapeOK, Cursor, Behind
  <2> QED BY <2>1 DEF Saved, KnownCursor
<1>3. ASSUME NEW x \in receipts', x.kind = "confirm", x.proposal = p PROVE x \in receipts
  <2> SUFFICES ASSUME x \notin receipts PROVE FALSE
    OBVIOUS
  <2>1. Decides
    BY ReceiptKinds DEF Unreceipted, Propose
  <2>2. PICK r \in requests, cursor \in Cursor, new \in Settling : Receives(r, cursor, new)
    BY <2>1, DecidesReceives
  <2>3. x = ReceiptFor(r, cursor)
    BY <2>2 DEF Receives
  <2>4. r.kind = "confirm" /\ r.proposal = p
    BY <1>3, <2>3 DEF ReceiptFor
  <2> QED BY <2>2, <2>4 DEF Receives, Outcomes
<1> QED BY <1>1, <1>2, <1>3 DEF Behind, Unsaved

\* A confirmation just made leaves the window behind.
LEMMA NewlyBehind ==
    ASSUME IInv, ShapeOK, InStep, RequestsLag, ReceiptsTell, ReceiptsTell', NEW p \in Proposal,
           status[p] \notin Outcomes("confirm"), status'[p] \in Outcomes("confirm"), [Next]_vars
    PROVE Behind(p)'
<1>0. status \in [Proposal -> Settling]
  BY DEF IInv, StatusType
<1>1. Decides
  <2>1. ~Unreceipted
    BY DEF Unreceipted, Outcomes
  <2>2. \A run \in Run : ~Propose(run)
    BY DEF Propose, Outcomes
  <2> QED BY <2>1, <2>2, ReceiptKinds
<1>2. PICK r \in requests, cursor \in Cursor, new \in Settling : Receives(r, cursor, new)
  BY <1>1, DecidesReceives
<1>3. r.proposal = p /\ r.kind = "confirm"
  <2>1. status' = [status EXCEPT ![r.proposal] = new]
    BY <1>2 DEF Receives
  <2>2. r.proposal = p /\ new = status'[p]
    BY <1>0, <2>1
  <2> QED BY <1>2, <2>2 DEF Receives, Outcomes
<1>4. r.cursor = at /\ cursor = at' /\ at' = [at EXCEPT !.revision = @ + 1]
  BY <1>2, <1>3 DEF Receives, Changing
<1>5. known' = known
  BY <1>1 DEF Decides, Confirm, Reject, Undo, Answer, screen
<1>6. known.revision <= at.revision /\ known.revision \in Nat /\ at.revision \in Nat
  BY DEF ShapeOK, Cursor, InStep
<1>7. at'.revision = at.revision + 1
  BY <1>4 DEF ShapeOK, Cursor
<1>8. ReceiptFor(r, cursor) \in receipts'
  BY <1>2 DEF Receives
<1>9. ReceiptFor(r, cursor).kind = "confirm" /\ ReceiptFor(r, cursor).proposal = p
      /\ ReceiptFor(r, cursor).result = at'
  BY <1>3, <1>4 DEF ReceiptFor
<1>10. \A x \in receipts' : x.kind = "confirm" /\ x.proposal = p => x = ReceiptFor(r, cursor)
  BY <1>8, <1>9 DEF ReceiptsTell
<1>11. known'.revision < at'.revision
  BY <1>5, <1>6, <1>7
<1> QED BY <1>9, <1>10, <1>11 DEF Behind

\* Once it has caught up, it stays so while no call is sent.
LEMMA CaughtUpKept ==
    ASSUME ShapeOK, InStep, RequestsLag, CaughtUp, requests' \subseteq requests,
           known' = known \/ Saved, [Next]_vars
    PROVE CaughtUp' /\ ~Carried
<1>0. /\ known.revision \in Nat /\ at.revision \in Nat /\ known.revision = at.revision
      /\ \A r \in requests : r.cursor.revision < known.revision /\ r.cursor.revision \in Nat
  BY DEF ShapeOK, Cursor, Request, CaughtUp
<1>1. ~Carried
  BY <1>0, CarriedFrom
<1>2. CASE Saved
  <2>1. known'.revision = at'.revision /\ at'.revision = at.revision + 1
    BY <1>2 DEF Saved, HostState
  <2>2. \A r \in requests : r.cursor.revision < known'.revision
    BY <1>0, <2>1
  <2> QED BY <1>1, <2>1, <2>2 DEF CaughtUp
<1>3. CASE Unsaved /\ known' = known
  BY <1>0, <1>1, <1>3 DEF CaughtUp, Unsaved
<1> QED BY <1>1, <1>2, <1>3, PlaceKinds

\* The last part of AfterAnswer.
Followed ==
    deciding.kind = "confirm" /\ status[deciding.proposal] \in Outcomes("confirm") =>
      \/ Behind(deciding.proposal)
      \/ deciding.step \in {"refresh", "recover", "restore"} /\ CaughtUp

LEMMA FollowedKept ==
    ASSUME IInv, ShapeOK, InStep, RequestsLag, ReceiptsTell, ReceiptsTell', Followed,
           deciding # None, deciding'.kind = deciding.kind, deciding'.proposal = deciding.proposal,
           deciding.step \in {"refresh", "recover", "restore"} =>
             /\ deciding'.step \in {"refresh", "recover", "restore"}
             /\ requests' \subseteq requests,
           known' = known \/ Saved, [Next]_vars
    PROVE Followed'
<1>0. deciding.proposal \in Proposal
  BY DEF ShapeOK
<1> SUFFICES ASSUME NEW p \in Proposal, p = deciding.proposal,
                    deciding.kind = "confirm", status'[p] \in Outcomes("confirm")
             PROVE \/ Behind(p)'
                   \/ deciding'.step \in {"refresh", "recover", "restore"} /\ CaughtUp'
  BY <1>0 DEF Followed, Behind
<1>1. CASE status[p] \notin Outcomes("confirm")
  BY <1>1, NewlyBehind
<1>2. CASE status[p] \in Outcomes("confirm")
  <2>1. CASE Behind(p)
    BY <1>2, <2>1, BehindKept
  <2>2. CASE deciding.step \in {"refresh", "recover", "restore"} /\ CaughtUp
    BY <2>2, CaughtUpKept
  <2> QED BY <1>2, <2>1, <2>2 DEF Followed
<1> QED BY <1>1, <1>2

\* What an answer leads to.
LEMMA ServedFollows ==
    ASSUME IInv, ShapeOK, ShapeOK', ReceiptsOK, InStep, RequestsLag, ReceiptsAdvance, ReceiptsTell,
           AskedOK, NEW r \in requests, NEW ok \in BOOLEAN, NEW result \in Cursor \cup {None},
           Served(r, ok, result), [Next]_vars
    PROVE \/ deciding'.step = "recover"
          \/ deciding'.step = "refresh" /\ deciding'.kind = "reject" /\ status'[r.proposal] = "rejected"
          \/ /\ deciding'.step = "reload" /\ deciding'.kind \in Changing /\ deciding'.result = at'
             /\ known'.revision < at'.revision
             /\ status'[r.proposal] \in Outcomes(deciding'.kind)
<1>0. /\ known.revision \in Nat /\ at.revision \in Nat
      /\ known.revision <= at.revision /\ at.revision <= known.revision + 1
      /\ r \in Request /\ r.kind \in Decision /\ r.proposal \in Proposal /\ r.cursor \in Cursor
      /\ r.cursor.revision \in Nat
  BY DEF ShapeOK, Cursor, InStep, Request
<1>1. known' = known /\ Answered(r, ok, result)
  BY DEF Served
<1>2. deciding \in [kind : Decision, proposal : Proposal, chosen : SUBSET Nat,
                    step : Steps, place : Place, request : Request \cup {None},
                    result : Cursor \cup {None}]
  BY <1>1 DEF Answered, ShapeOK
<1>3. CASE deciding' = [deciding EXCEPT !.step = "recover"]
  BY <1>2, <1>3
<1>4. CASE /\ ok
           /\ deciding' = [deciding EXCEPT !.step = IF r.kind = "reject" THEN "refresh" ELSE "reload",
                                           !.result = result]
  <2>1. /\ deciding'.step = (IF r.kind = "reject" THEN "refresh" ELSE "reload")
        /\ deciding'.result = result /\ deciding'.kind = r.kind
    <3>1. deciding.kind = r.kind
      BY <1>1 DEF Answered
    <3> QED BY <1>2, <1>4, <3>1
  <2>2. r.kind # "reject" => r.kind \in Changing
    BY <1>0 DEF Decision, Changing
  <2>3. CASE UNCHANGED host /\ \E x \in ReceiptOf(r) : ok = (x.request = r.cursor) /\ result = x.result
    <3>1. PICK x \in ReceiptOf(r) : x.request = r.cursor /\ result = x.result
      BY <1>4, <2>3
    <3>2. x \in receipts /\ x.kind = r.kind /\ x.proposal = r.proposal
      BY <3>1 DEF ReceiptOf, CommandId, ReceiptsOK
    <3>3. status' = status /\ at' = at
      BY <2>3 DEF host, proposals
    <3>4. status[r.proposal] \in Outcomes(r.kind)
      BY <3>2 DEF ReceiptsTell
    <3>5. CASE r.kind = "reject"
      BY <2>1, <3>3, <3>4, <3>5 DEF Outcomes
    <3>6. CASE r.kind \in Changing
      <4>1. r.cursor.revision <= known.revision
        BY DEF RequestsLag
      <4>2. ~(r.cursor.revision < known.revision)
        BY <1>1, <3>1, <3>2, <3>6 DEF Answered, AskedOK
      <4>3. r.cursor.revision = known.revision
        BY <1>0, <4>1, <4>2
      <4>4. /\ x.result.revision = known.revision + 1 /\ x.result.revision <= at.revision
            /\ x.result.revision = at.revision => x.result = at
        BY <3>1, <3>2, <3>6, <4>3 DEF ReceiptsAdvance
      <4>5. known.revision < at.revision /\ x.result.revision = at.revision
        BY <1>0, <4>4
      <4> QED BY <1>1, <2>1, <3>1, <3>3, <3>4, <3>6, <4>4, <4>5 DEF Changing
    <3> QED BY <2>2, <3>5, <3>6
  <2>4. CASE ok /\ Decides /\ (\E cursor \in Cursor, new \in Settling : Receives(r, cursor, new))
               /\ (r.kind \in Changing => result = at')
    <3>1. PICK cursor \in Cursor, new \in Settling : Receives(r, cursor, new)
      BY <2>4
    <3>2. status'[r.proposal] = new
      <4>1. status' = [status EXCEPT ![r.proposal] = new] /\ status \in [Proposal -> Settling]
        BY <3>1 DEF Receives, IInv, StatusType
      <4> QED BY <1>0, <4>1
    <3>3. CASE r.kind = "reject"
      BY <2>1, <3>1, <3>2, <3>3 DEF Receives
    <3>4. CASE r.kind \in Changing
      <4>1. at' = [at EXCEPT !.revision = @ + 1] /\ new \in Outcomes(r.kind)
        BY <3>1, <3>4 DEF Receives, Outcomes, Changing
      <4>2. at'.revision = at.revision + 1
        BY <4>1 DEF ShapeOK, Cursor
      <4>3. known.revision < at'.revision
        BY <1>0, <4>2
      <4> QED BY <1>1, <2>1, <2>4, <3>2, <3>4, <4>1, <4>3 DEF Changing
    <3> QED BY <2>2, <3>3, <3>4
  <2> QED BY <1>4, <2>3, <2>4 DEF Served
<1> QED BY <1>1, <1>3, <1>4 DEF Answered

LEMMA AfterAnswerKept ==
    ASSUME IInv, ShapeOK, ShapeOK', ReceiptsOK, InStep, InStep', RequestsLag,
           RequestsLag', ReceiptsAdvance, ReceiptsTell, ReceiptsTell', AskedOK, AfterAnswer,
           [Next]_vars
    PROVE AfterAnswer'
<1> DEFINE Led ==
        /\ deciding.step = "reload" =>
             /\ deciding.kind \in Changing /\ deciding.result = at
             /\ known.revision < at.revision
        /\ deciding.step \in {"reload", "refresh", "restore"} =>
             status[deciding.proposal] \in Outcomes(deciding.kind)
        /\ deciding.step = "refresh" => deciding.kind = "reject" \/ CaughtUp
        /\ deciding.step = "restore" => deciding.kind = "confirm"
<1>0. AfterAnswer <=> (deciding # None => Led /\ Followed)
  BY DEF AfterAnswer, Followed
<1>00. AfterAnswer' <=> (deciding' # None => Led' /\ Followed')
  BY DEF AfterAnswer, Followed
<1> SUFFICES ASSUME deciding' # None PROVE Led' /\ Followed'
  BY <1>00
<1>1. CASE Waits
  <2>1. deciding # None /\ deciding' = deciding /\ requests' \subseteq requests /\ (known' = known \/ Saved)
    BY <1>1 DEF Waits
  <2>2. deciding.proposal \in Proposal /\ deciding.kind \in Decision
    BY <2>1 DEF ShapeOK
  <2>3. Followed'
    BY <1>0, <2>1, FollowedKept
  <2>4. ASSUME known.revision < at.revision PROVE at' = at /\ known' = known
    <3>1. Unsaved
      BY <2>4, Frozen
    <3>2. known.revision \in Nat /\ at.revision \in Nat
      BY DEF ShapeOK, Cursor
    <3>3. ~Saved
      BY <2>4, <3>2 DEF Saved, KnownCursor
    <3> QED BY <2>1, <3>1, <3>3 DEF Unsaved
  <2>5. CaughtUp => CaughtUp'
    BY <2>1, CaughtUpKept
  <2>6. status[deciding.proposal] \in Outcomes(deciding.kind) =>
          status'[deciding.proposal] \in Outcomes(deciding.kind)
    BY <2>2, OutcomesStay
  <2>7. Led
    BY <1>0, <2>1
  <2>8. Led'
    BY <2>1, <2>4, <2>5, <2>6, <2>7
  <2> QED BY <2>3, <2>8
<1>2. ASSUME NEW r \in requests, NEW ok \in BOOLEAN, NEW result \in Cursor \cup {None}, Served(r, ok, result)
      PROVE Led' /\ Followed'
  <2>1. /\ deciding # None /\ deciding.step = "asked" /\ deciding.proposal = r.proposal
        /\ deciding'.kind = deciding.kind /\ deciding'.proposal = deciding.proposal
        /\ known' = known
    BY <1>2 DEF Served, Answered, ShapeOK
  <2>2. Followed'
    BY <1>0, <2>1, FollowedKept
  <2>3. \/ deciding'.step = "recover"
        \/ deciding'.step = "refresh" /\ deciding'.kind = "reject" /\ status'[r.proposal] = "rejected"
        \/ /\ deciding'.step = "reload" /\ deciding'.kind \in Changing /\ deciding'.result = at'
           /\ known'.revision < at'.revision
           /\ status'[r.proposal] \in Outcomes(deciding'.kind)
    BY <1>2, ServedFollows
  <2>4. "rejected" \in Outcomes("reject")
    BY DEF Outcomes
  <2>5. Led'
    BY <2>1, <2>3, <2>4
  <2> QED BY <2>2, <2>5
<1>3. CASE GoesOn
  <2>1. deciding # None /\ requests' = requests /\ Led /\ Followed
    BY <1>0, <1>3 DEF GoesOn, Flushed, FlushFails, Reload, ReloadFails, RefreshFails, Recover, In
  <2>2. deciding.proposal \in Proposal /\ deciding.kind \in Decision
    BY <2>1 DEF ShapeOK
  <2>3. status[deciding.proposal] \in Outcomes(deciding.kind) =>
          status'[deciding.proposal] \in Outcomes(deciding.kind)
    BY <2>2, OutcomesStay
  <2>4. ASSUME NEW step \in Steps, Step(step)
        PROVE deciding'.step = step /\ deciding'.kind = deciding.kind
              /\ deciding'.proposal = deciding.proposal
    BY <2>1, <2>4 DEF Step, ShapeOK
  <2>5. CASE Flushed \/ FlushFails
    <3>1. deciding.step = "flush" /\ known' = known /\ (Step("ask") \/ Step("recover"))
      BY <2>5 DEF Flushed, FlushFails, In, screen
    <3>2. /\ deciding'.step \in {"ask", "recover"} /\ deciding'.kind = deciding.kind
          /\ deciding'.proposal = deciding.proposal
      BY <2>4, <3>1 DEF Steps
    <3>3. Followed'
      BY <2>1, <3>1, <3>2, FollowedKept
    <3> QED BY <3>2, <3>3
  <2>50. ASSUME deciding.step = "reload", known' = HostState, at' = at PROVE CaughtUp'
    <3>1. known.revision < at.revision /\ known'.revision = at.revision
      BY <2>1, <2>50 DEF HostState
    <3>2. \A r \in requests : r.cursor.revision <= known.revision /\ r.cursor.revision \in Nat
      BY DEF RequestsLag, ShapeOK, Request, Cursor
    <3>3. known.revision \in Nat /\ at.revision \in Nat
      BY DEF ShapeOK, Cursor
    <3>4. \A r \in requests : r.cursor.revision < known'.revision
      BY <3>1, <3>2, <3>3
    <3> QED BY <2>1, <2>50, <3>1, <3>4 DEF CaughtUp
  <2>6. CASE Reload
    <3>1. deciding.step = "reload" /\ known' = HostState /\ at' = at /\ docs' = docs /\ Step("refresh")
      BY <2>6 DEF Reload, In, Loads, host
    <3>2. /\ deciding'.step = "refresh" /\ deciding'.kind = deciding.kind
          /\ deciding'.proposal = deciding.proposal
      BY <2>4, <3>1 DEF Steps
    <3>3. CaughtUp'
      BY <2>50, <3>1
    <3>4. Followed'
      BY <3>2, <3>3 DEF Followed
    <3>5. Led'
      BY <2>1, <2>3, <3>1, <3>2, <3>3
    <3> QED BY <3>4, <3>5
  <2>7. CASE ReloadFails
    <3>1. deciding.step = "reload" /\ Step("recover") /\ at' = at
      BY <2>7 DEF ReloadFails, In, host
    <3>2. /\ deciding'.step = "recover" /\ deciding'.kind = deciding.kind
          /\ deciding'.proposal = deciding.proposal
      BY <2>4, <3>1 DEF Steps
    <3>3. CASE known' = known
      <4>1. Followed'
        BY <2>1, <3>1, <3>2, <3>3, FollowedKept
      <4> QED BY <3>2, <4>1
    <3>4. CASE known' = HostState
      <4>1. CaughtUp'
        BY <2>50, <3>1, <3>4
      <4>2. Followed'
        BY <3>2, <4>1 DEF Followed
      <4> QED BY <3>2, <4>2
    <3> QED BY <2>7, <3>3, <3>4 DEF ReloadFails, screen
  <2>8. CASE RefreshFails
    <3>1. Step("recover") /\ known' = known
      BY <2>8 DEF RefreshFails, screen
    <3>2. /\ deciding'.step = "recover" /\ deciding'.kind = deciding.kind
          /\ deciding'.proposal = deciding.proposal
      BY <2>4, <3>1 DEF Steps
    <3>3. Followed'
      BY <2>1, <3>1, <3>2, FollowedKept
    <3> QED BY <3>2, <3>3
  <2>9. CASE Recover
    <3>1. /\ deciding.step = "recover" /\ Step("restore") /\ known' = known
          /\ deciding.kind = "confirm" /\ deciding.proposal \in inbox'.undoable
          /\ inbox'.undoable = {p \in Proposal : status'[p] = "confirmed"}
      BY <2>9 DEF Recover, In, Recovers, ReadInbox, screen
    <3>2. /\ deciding'.step = "restore" /\ deciding'.kind = deciding.kind
          /\ deciding'.proposal = deciding.proposal
      BY <2>4, <3>1 DEF Steps
    <3>3. Followed'
      BY <2>1, <3>1, <3>2, FollowedKept
    <3>4. status'[deciding.proposal] \in Outcomes("confirm")
      BY <3>1 DEF Outcomes
    <3> QED BY <3>1, <3>2, <3>3, <3>4
  <2> QED BY <1>3, <2>5, <2>6, <2>7, <2>8, <2>9 DEF GoesOn
<1>4. CASE Ask
  <2>1. /\ deciding # None /\ deciding.step = "ask" /\ known' = known
        /\ \E r : deciding' = [deciding EXCEPT !.step = "asked", !.request = r]
    BY <1>4 DEF Ask, In, screen
  <2>2. deciding'.step = "asked" /\ deciding'.kind = deciding.kind /\ deciding'.proposal = deciding.proposal
    BY <2>1 DEF ShapeOK
  <2>3. Followed'
    BY <1>0, <2>1, <2>2, FollowedKept
  <2> QED BY <2>2, <2>3
<1>5. ASSUME NEW p \in Proposal, Begun(p)
      PROVE Led' /\ Followed'
  <2>1. /\ deciding'.step \in {"flush", "ask"} /\ deciding'.proposal = p
        /\ deciding'.kind = "confirm" => record[p].cursor = KnownCursor
        /\ UNCHANGED <<host, known>>
    BY <1>5 DEF Begun
  <2>2. UNCHANGED <<docs, at, receipts, status>>
    BY <2>1 DEF host, proposals
  <2>3. ASSUME deciding'.kind = "confirm", status[p] \in Outcomes("confirm")
        PROVE Behind(p)
    <3>1. PICK x \in receipts : x.kind = "confirm" /\ x.proposal = p
      BY <2>3 DEF ReceiptsTell
    <3>2. ASSUME NEW y \in receipts, y.kind = "confirm", y.proposal = p
          PROVE y.result = at /\ known.revision < at.revision
      <4>1. y.request.revision = known.revision
        BY <2>1, <2>3, <3>2 DEF ReceiptsTell, KnownCursor
      <4>2. /\ y.result.revision = y.request.revision + 1 /\ y.result.revision <= at.revision
            /\ y.result.revision = at.revision => y.result = at
        BY <3>2 DEF ReceiptsAdvance, Changing
      <4>3. known.revision \in Nat /\ at.revision \in Nat /\ at.revision <= known.revision + 1
        BY DEF ShapeOK, Cursor, InStep
      <4> QED BY <4>1, <4>2, <4>3
    <3> QED BY <3>1, <3>2 DEF Behind
  <2>4. Behind(p) => Behind(p)'
    BY <2>1, <2>2 DEF Behind
  <2>5. Behind(p)' /\ deciding'.proposal = p => Behind(deciding.proposal)'
    BY DEF Behind
  <2>6. Followed'
    BY <2>1, <2>2, <2>3, <2>4, <2>5 DEF Followed
  <2> QED BY <2>1, <2>6
<1> QED BY <1>1, <1>2, <1>3, <1>4, <1>5, DecidingKinds

\* What is loaded stays shown, since no failure keeps the window there.
LEMMA LoadedKept ==
    ASSUME IInv, ShapeOK, ShapeOK', ReceiptsOK, InStep, RequestsLag, ReceiptsAdvance, ReceiptsTell,
           AskedOK, AfterAnswer, LoadedIsShown, [Next]_vars
    PROVE LoadedIsShown'
<1> SUFFICES ASSUME deciding' # None, deciding'.step = "refresh", deciding'.kind # "reject"
             PROVE Follows'
  BY DEF LoadedIsShown
<1>1. CASE Waits
  <2>1. deciding # None /\ deciding' = deciding
    BY <1>1 DEF Waits
  <2>2. Follows
    BY <2>1 DEF LoadedIsShown
  <2>3. ~ReloadFails /\ ~RestoreFails
    BY <2>1 DEF ReloadFails, RestoreFails, In
  <2> QED BY <2>2, <2>3, ScreenKept
<1>2. ASSUME NEW r \in requests, NEW ok \in BOOLEAN, NEW result \in Cursor \cup {None}, Served(r, ok, result)
      PROVE FALSE
  BY <1>2, ServedFollows
<1>3. CASE GoesOn
  <2>1. CASE Reload
    BY <2>1 DEF Reload, Loads, HostState, Follows
  <2>2. CASE Flushed \/ FlushFails \/ ReloadFails \/ RefreshFails \/ Recover
    <3>1. deciding # None /\ \E step \in {"ask", "recover", "restore"} : Step(step)
      BY <2>2 DEF Flushed, FlushFails, ReloadFails, RefreshFails, Recover, In
    <3> QED BY <3>1 DEF Step, ShapeOK
  <2> QED BY <1>3, <2>1, <2>2 DEF GoesOn
<1>4. CASE Ask
  <2>1. deciding # None /\ \E r : deciding' = [deciding EXCEPT !.step = "asked", !.request = r]
    BY <1>4 DEF Ask, In
  <2> QED BY <2>1 DEF ShapeOK
<1>5. ASSUME NEW p \in Proposal, Begun(p) PROVE FALSE
  BY <1>5 DEF Begun
<1> QED BY <1>1, <1>2, <1>3, <1>4, <1>5, DecidingKinds

-----------------------------------------------------------------------------
LEMMA InitHost == Init => HostInv
<1> SUFFICES ASSUME Init PROVE HostInv
  OBVIOUS
<1>1. /\ at = [place |-> Home, revision |-> 0] /\ at \in Cursor /\ at.place = Home
      /\ known = HostState
      /\ deciding = None /\ requests = {} /\ receipts = {} /\ life = 0
      /\ status = [p \in Proposal |-> "none"] /\ record = [p \in Proposal |-> None]
  BY Assumption DEF Init, Cursor
<1>2. docs = [l \in Place |-> docs[l]]
  BY DEF Init
<1>3. KnownCursor = at /\ known.doc = docs[at.place] /\ known.revision = 0 /\ known.place = Home
  BY <1>1 DEF HostState, KnownCursor
<1>4. ShapeOK
  BY <1>1, <1>2, <1>3, Assumption DEF ShapeOK
<1>5. ReceiptsOK /\ ReceiptsAdvance /\ ReceiptsTell /\ RequestsLag /\ AskedOK
  BY <1>1 DEF ReceiptsOK, ReceiptsAdvance, ReceiptsTell, RequestsLag, Outcomes, AskedOK
<1>6. InStep
  BY <1>1, <1>3 DEF InStep
<1> QED BY <1>4, <1>5, <1>6 DEF HostInv

LEMMA StepHost ==
    ASSUME IInv, HostInv, [Next]_vars
    PROVE HostInv'
<1>1. /\ ShapeOK /\ ReceiptsOK /\ InStep /\ RequestsLag /\ ReceiptsAdvance /\ ReceiptsTell
      /\ AskedOK
  BY DEF HostInv
<1>2. ShapeOK'
  BY <1>1, ShapeKept
<1>3. ReceiptsOK' /\ ReceiptsAdvance' /\ ReceiptsTell'
  BY <1>1, ReceiptsKept, AdvanceKept, TellKept
<1>4. InStep' /\ known.revision <= known'.revision
  BY <1>1, <1>2, InStepKept
<1>5. RequestsLag'
  BY <1>1, <1>2, <1>4, LagKept
<1>6. AskedOK'
  BY <1>1, <1>2, <1>4, AskedKept
<1> QED BY <1>2, <1>3, <1>4, <1>5, <1>6 DEF HostInv

LEMMA InitWindow == Init => WindowInv
<1> SUFFICES ASSUME Init PROVE WindowInv
  OBVIOUS
<1>1. HostInv
  BY InitHost
<1>2. AfterAnswer /\ LoadedIsShown
  BY DEF Init, AfterAnswer, LoadedIsShown
<1> QED BY <1>1, <1>2 DEF WindowInv

LEMMA StepWindow ==
    ASSUME IInv, WindowInv, [Next]_vars
    PROVE WindowInv'
<1>1. HostInv /\ HostInv' /\ AfterAnswer /\ LoadedIsShown
  BY StepHost DEF WindowInv
<1>2. AfterAnswer'
  BY <1>1, AfterAnswerKept DEF HostInv
<1>3. LoadedIsShown'
  BY <1>1, LoadedKept DEF HostInv
<1> QED BY <1>1, <1>2, <1>3 DEF WindowInv

\* Whatever is lost, repeated, reloaded, misread or typed, what is on the screen
\* and has not been typed stays what the client has, so that a save sends nothing
\* but the user's edits (NativeDocumentClient.ts:115): they part only when the
\* resume of a decision that the host has taken is loaded and not shown
\* (workspace.ts:77).
THEOREM ScreenAlwaysFollows == Spec => ScreenFollowsClient
<1>1. IInv /\ WindowInv /\ [Next]_vars => (IInv /\ WindowInv)'
  BY StepInv, StepWindow
<1>2. ASSUME IInv, WindowInv, [Next]_vars
      PROVE [Follows => \/ Follows'
                        \/ /\ ReloadFails \/ RestoreFails
                           /\ status[deciding.proposal] \in Announced]_vars
  BY <1>2, ScreenKept DEF WindowInv, HostInv
<1> QED BY InitInv, InitWindow, <1>1, <1>2, PTL DEF Spec, ScreenFollowsClient

\* What the user is told is what the host has stored, and what the host has is
\* on the screen: the receipts tie the decision to its outcome, and the window
\* that reads the inbox has the host's last step
\* (runAcceptNativeProposal and its recovery, runUndoNativeProposal).
THEOREM WhatIsToldIsTrue == Spec => ToldIsTrue
<1>1. IInv /\ WindowInv /\ [Next]_vars => (IInv /\ WindowInv)'
  BY StepInv, StepWindow
<1>2. ASSUME IInv, WindowInv, [Next]_vars
      PROVE [Announces =>
               /\ status'[deciding.proposal] \in Announced
               /\ deciding.kind # "reject" /\ ~dirty' => shown' = docs'[at'.place]]_vars
  <2> SUFFICES ASSUME Announces
               PROVE /\ status'[deciding.proposal] \in Announced
                     /\ deciding.kind # "reject" /\ ~dirty' => shown' = docs'[at'.place]
    OBVIOUS
  <2>1. ShapeOK /\ InStep /\ AfterAnswer /\ LoadedIsShown
    BY <1>2 DEF WindowInv, HostInv
  <2>2. deciding # None /\ deciding.step \in {"refresh", "restore"}
    BY DEF Announces, RefreshAfter, Restore, In
  <2>3. deciding.proposal \in Proposal /\ deciding.kind \in Decision
    BY <2>1, <2>2 DEF ShapeOK
  <2>4. status[deciding.proposal] \in Outcomes(deciding.kind)
    BY <2>1, <2>2 DEF AfterAnswer
  <2>5. status'[deciding.proposal] \in Outcomes(deciding.kind)
    BY <1>2, <2>3, <2>4, OutcomesStay
  <2>6. Announced = Outcomes(deciding.kind)
    BY DEF Announced, Outcomes
  <2>7. CASE Restore
    <3>1. shown' = docs[at.place] /\ docs' = docs /\ at' = at
      BY <2>7 DEF Restore, Loads, host
    <3> QED BY <2>5, <2>6, <3>1
  <2>8. CASE RefreshAfter
    <3>1. deciding.step = "refresh" /\ UNCHANGED <<docs, at, known, shown, dirty>>
      BY <2>8 DEF RefreshAfter, In, ReadInbox, screen
    <3>2. ASSUME deciding.kind # "reject", ~dirty' PROVE shown' = docs'[at'.place]
      <4>1. known.revision = at.revision
        BY <2>1, <2>2, <3>1, <3>2 DEF AfterAnswer, CaughtUp
      <4>2. known.doc = docs[at.place] /\ shown = known.doc
        BY <2>1, <2>2, <3>1, <3>2, <4>1 DEF InStep, LoadedIsShown, Follows
      <4> QED BY <3>1, <4>2
    <3> QED BY <2>5, <2>6, <3>2
  <2> QED BY <2>7, <2>8 DEF Announces
<1> QED BY InitInv, InitWindow, <1>1, <1>2, PTL DEF Spec, ToldIsTrue

-----------------------------------------------------------------------------
(* What a decision is about.                                               *)

\* A proposal is about the resume of its cursor: while the host is still there,
\* that is the resume at hand.
MadeForThis ==
    \A p \in Proposal : status[p] # "none" =>
      /\ record[p].cursor.revision <= at.revision
      /\ record[p].cursor.revision = at.revision =>
           record[p].place = at.place /\ record[p].doc = docs[at.place]

\* A confirmation is made on the resume the proposal was made for, and neither
\* it nor its undo touches another place.
DecisionsStayInPlace ==
    [][\A p \in Proposal :
         /\ status[p] = "pending" /\ status'[p] = "confirmed" =>
              docs[record[p].place] = record[p].doc
         /\ status'[p] # status[p] /\ status'[p] \in {"confirmed", "undone"} =>
              \A l \in Place \ {record[p].place} : docs'[l] = docs[l]]_vars

LEMMA MadeKept ==
    ASSUME IInv, ShapeOK, ShapeOK', MadeForThis, [Next]_vars
    PROVE MadeForThis'
<1> SUFFICES ASSUME NEW p \in Proposal, status'[p] # "none"
             PROVE /\ record'[p].cursor.revision <= at'.revision
                   /\ record'[p].cursor.revision = at'.revision =>
                        record'[p].place = at'.place /\ record'[p].doc = docs'[at'.place]
  BY DEF MadeForThis
<1>0. at.revision \in Nat /\ at'.revision \in Nat
  BY DEF ShapeOK, Cursor
<1>1. CASE status[p] # "none"
  <2>1. record'[p] = record[p]
    BY <1>1, RecordKinds, ProposeTouches
  <2>2. /\ record[p].cursor.revision <= at.revision
        /\ record[p].cursor.revision = at.revision =>
             record[p].place = at.place /\ record[p].doc = docs[at.place]
        /\ record[p].cursor.revision \in Nat
    BY <1>1 DEF MadeForThis, ShapeOK, Cursor
  <2>3. CASE Unsaved
    BY <2>1, <2>2, <2>3 DEF Unsaved
  <2>4. CASE at'.revision = at.revision + 1
    BY <1>0, <2>1, <2>2, <2>4
  <2> QED BY <2>3, <2>4, Advancing
<1>2. CASE status[p] = "none"
  <2>1. PICK run \in Run : Propose(run)
    <3>1. ~Unreceipted
      BY <1>2 DEF Unreceipted
    <3>2. ~Decides
      <4> SUFFICES ASSUME Decides PROVE FALSE
        OBVIOUS
      <4>1. PICK r \in requests, cursor \in Cursor, new \in Settling : Receives(r, cursor, new)
        BY DecidesReceives
      <4>2. status' = [status EXCEPT ![r.proposal] = new] /\ status[r.proposal] # "none"
        BY <4>1 DEF Receives
      <4> QED BY <1>2, <4>2 DEF IInv, StatusType
    <3> QED BY <3>1, <3>2, ReceiptKinds
  <2>2. PICK drafts \in [{q \in Proposal : RunOf[q] = run} -> UNION {Draft[q] : q \in Proposal}] :
          /\ status' = [q \in Proposal |-> IF q \in DOMAIN drafts THEN "pending" ELSE status[q]]
          /\ record' = [q \in Proposal |->
                          IF q \in DOMAIN drafts
                          THEN [place |-> at.place, cursor |-> at, doc |-> docs[at.place],
                                items |-> drafts[q],
                                staged |-> Staged(docs[at.place], drafts[q])]
                          ELSE record[q]]
    BY <2>1 DEF Propose
  <2>3. p \in DOMAIN drafts
    BY <1>2, <2>2
  <2>4. record'[p].cursor = at /\ record'[p].place = at.place /\ record'[p].doc = docs[at.place]
    BY <2>2, <2>3
  <2>5. at' = at /\ docs' = docs
    BY <2>1 DEF Propose
  <2> QED BY <1>0, <2>4, <2>5
<1> QED BY <1>1, <1>2

\* Whatever the window has on its screen, a confirmation is carried out on the
\* resume the proposal was made for and no decision reaches another place: the
\* host compares the cursors in the transaction that writes
\* (confirm_agent_proposal, undo_agent_proposal).
THEOREM DecisionsAlwaysStayInPlace == Spec => DecisionsStayInPlace
<1> DEFINE Inv == IInv /\ HostInv /\ MadeForThis
<1>1. Init => Inv
  BY InitInv, InitHost DEF Init, MadeForThis
<1>2. Inv /\ [Next]_vars => Inv'
  <2> SUFFICES ASSUME Inv, [Next]_vars PROVE Inv'
    OBVIOUS
  <2>1. IInv' /\ HostInv'
    BY StepInv, StepHost
  <2>2. MadeForThis'
    BY <2>1, MadeKept DEF HostInv
  <2> QED BY <2>1, <2>2
<1>3. ASSUME Inv, [Next]_vars
      PROVE [\A p \in Proposal :
               /\ status[p] = "pending" /\ status'[p] = "confirmed" =>
                    docs[record[p].place] = record[p].doc
               /\ status'[p] # status[p] /\ status'[p] \in {"confirmed", "undone"} =>
                    \A l \in Place \ {record[p].place} : docs'[l] = docs[l]]_vars
  <2> SUFFICES ASSUME NEW p \in Proposal, status'[p] # status[p],
                      status'[p] \in {"confirmed", "undone"}
               PROVE /\ status[p] = "pending" /\ status'[p] = "confirmed" =>
                          docs[record[p].place] = record[p].doc
                     /\ \A l \in Place \ {record[p].place} : docs'[l] = docs[l]
    OBVIOUS
  <2>1. PICK r \in requests, lost \in BOOLEAN :
          Confirm(r, lost) \/ Reject(r, lost) \/ Undo(r, lost)
    <3>1. ~Unreceipted /\ ~\E run \in Run : Propose(run)
      BY DEF Unreceipted, Propose
    <3> QED BY <1>3, <3>1, ReceiptKinds DEF Decides
  <2>2. status \in [Proposal -> Settling] /\ ShapeOK /\ MadeForThis
    BY <1>3 DEF IInv, StatusType, HostInv
  <2>3. r.proposal = p
    <3>1. \E new : status' = [status EXCEPT ![r.proposal] = new]
      BY <2>1 DEF Confirm, Reject, Undo, Becomes
    <3> QED BY <2>2, <3>1
  <2>4. /\ status[p] # "none" /\ r.cursor = at
        /\ \E doc : docs' = [docs EXCEPT ![at.place] = doc]
        /\ status'[p] = "confirmed" => record[p].cursor = r.cursor
        /\ status'[p] # "confirmed" => r.cursor.place = record[p].place
    <3>1. CASE Confirm(r, lost)
      <4>1. status[p] = "pending" /\ record[p].cursor = r.cursor /\ r.cursor = at
        BY <2>3, <3>1 DEF Confirm, Taken, Allowed, MayConfirm
      <4>2. status' = [status EXCEPT ![p] = "confirmed"]
        BY <2>3, <3>1 DEF Confirm, Becomes
      <4>3. \E doc : docs' = [docs EXCEPT ![at.place] = doc]
        BY <3>1 DEF Confirm, Write
      <4> QED BY <2>2, <4>1, <4>2, <4>3
    <3>2. CASE Reject(r, lost)
      <4>1. status' = [status EXCEPT ![p] = "rejected"]
        BY <2>3, <3>2 DEF Reject, Becomes
      <4> QED BY <2>2, <4>1
    <3>3. CASE Undo(r, lost)
      <4>1. status[p] = "confirmed" /\ r.cursor.place = record[p].place /\ r.cursor = at
        BY <2>3, <3>3 DEF Undo, Taken, Allowed, MayUndo
      <4>2. status' = [status EXCEPT ![p] = "undone"]
        BY <2>3, <3>3 DEF Undo, Becomes
      <4>3. \E doc : docs' = [docs EXCEPT ![at.place] = doc]
        BY <3>3 DEF Undo, Write
      <4> QED BY <2>2, <4>1, <4>2, <4>3
    <3> QED BY <2>1, <3>1, <3>2, <3>3
  <2>5. status'[p] = "confirmed" => record[p].place = at.place /\ record[p].doc = docs[at.place]
    BY <2>2, <2>4 DEF MadeForThis
  <2>6. record[p].place = at.place
    BY <2>4, <2>5
  <2>7. \A l \in Place \ {record[p].place} : docs'[l] = docs[l]
    BY <2>2, <2>4, <2>6 DEF ShapeOK
  <2> QED BY <2>5, <2>6, <2>7
<1> QED BY <1>1, <1>2, <1>3, PTL DEF Spec, DecisionsStayInPlace

-----------------------------------------------------------------------------
(* Folds: their values, item after item.                                   *)

\* Numbers have a least one.
LEMMA HasLeast ==
    ASSUME NEW S \in SUBSET Nat, S # {}
    PROVE  \E m \in S : \A n \in S : m <= n
<1>1. \E x \in S : \A y \in S : ~(<<y, x>> \in OpToRel(<, Nat))
  BY WFMin, NatLessThanWellFounded
<1>2. PICK x \in S : \A y \in S : ~(<<y, x>> \in OpToRel(<, Nat))
  BY <1>1
<1>3. ASSUME NEW y \in S PROVE x <= y
  <2>1. x \in Nat /\ y \in Nat
    OBVIOUS
  <2>2. ~(y < x)
    BY <1>2, <2>1 DEF OpToRel
  <2> QED BY <2>1, <2>2
<1> QED BY <1>2, <1>3

\* The largest of some indices is the last.
LEMMA LastIsMax ==
    ASSUME NEW m \in Nat, NEW S \in SUBSET (1 .. m), m \in S
    PROVE  Max(S) = m
<1>1. \A x \in S : x \in Nat /\ m >= x
  OBVIOUS
<1>2. \A x \in S : (\A y \in S : x >= y) => x = m
  BY <1>1
<1> QED BY <1>1, <1>2 DEF Max

Applying(f, doc, items, n) ==
    f = [S \in SUBSET (1 .. n) |->
                         IF S = {} THEN doc ELSE Applied(f[S \ {Max(S)}], items[Max(S)])]

\* What a fold is defined by exists: one more index is one more application.
LEMMA ApplyingExists ==
    ASSUME NEW doc, NEW items, NEW n \in Nat
    PROVE  \E f : Applying(f, doc, items, n)
<1> DEFINE Fold(f, k) == Applying(f, doc, items, k)
           Bad == {k \in Nat : ~\E f : Fold(f, k)}
<1>1. SUFFICES ASSUME Bad # {} PROVE FALSE
  OBVIOUS
<1>2. PICK m \in Bad : \A k \in Bad : m <= k
  <2> HIDE DEF Bad
  <2>1. Bad \subseteq Nat
    BY DEF Bad
  <2> QED BY <1>1, <2>1, HasLeast
<1>3. CASE m = 0
  <2>1. \A S \in SUBSET (1 .. 0) : S = {}
    OBVIOUS
  <2>2. Fold([S \in SUBSET (1 .. 0) |-> doc], 0)
    BY <2>1 DEF Applying
  <2> QED BY <1>2, <1>3, <2>2
<1>4. CASE m # 0
  <2>1. m \in Nat /\ m - 1 \in Nat
    BY <1>2, <1>4
  <2>0. m - 1 \notin Bad
    <3> HIDE DEF Bad
    <3> QED BY <1>2, <2>1
  <2>2. PICK f : Fold(f, m - 1)
    BY <2>0, <2>1
  <2> DEFINE g == [S \in SUBSET (1 .. m) |->
                     IF S \subseteq 1 .. m - 1 THEN f[S] ELSE Applied(f[S \ {m}], items[m])]
  <2>3. ASSUME NEW S \in SUBSET (1 .. m)
        PROVE g[S] = IF S = {} THEN doc ELSE Applied(g[S \ {Max(S)}], items[Max(S)])
    <3>1. CASE S \subseteq 1 .. m - 1
      <4>1. S \ {Max(S)} \subseteq 1 .. m - 1 /\ S \ {Max(S)} \subseteq 1 .. m
        BY <3>1
      <4>2. g[S] = f[S] /\ g[S \ {Max(S)}] = f[S \ {Max(S)}]
        BY <3>1, <4>1
      <4>3. f[S] = IF S = {} THEN doc ELSE Applied(f[S \ {Max(S)}], items[Max(S)])
        BY <2>2, <3>1 DEF Applying
      <4> QED BY <4>2, <4>3
    <3>2. CASE ~(S \subseteq 1 .. m - 1)
      <4>1. m \in S
        BY <2>1, <3>2
      <4>2. Max(S) = m /\ S # {}
        BY <2>1, <4>1, LastIsMax
      <4>3. S \ {m} \subseteq 1 .. m - 1 /\ S \ {m} \subseteq 1 .. m
        BY <2>1
      <4>4. g[S] = Applied(f[S \ {m}], items[m]) /\ g[S \ {m}] = f[S \ {m}]
        BY <3>2, <4>3
      <4> QED BY <4>2, <4>4
    <3> QED BY <3>1, <3>2
  <2>4. Fold(g, m)
    <3> HIDE DEF g
    <3>1. g = [S \in SUBSET (1 .. m) |-> g[S]]
      BY DEF g
    <3> QED BY <2>3, <3>1 DEF Applying
  <2> QED BY <1>2, <2>4
<1> QED BY <1>3, <1>4

\* A fold is where the steps lead.
LEMMA AfterTrace ==
    ASSUME NEW doc, NEW items, NEW n \in Nat, DOMAIN items = 1 .. n,
           NEW t, t[0] = doc, \A k \in 1 .. n : t[k] = Applied(t[k - 1], items[k])
    PROVE  After(doc, items) = t[n]
<1> DEFINE f == CHOOSE g : Applying(g, doc, items, n)
<1>1. Applying(f, doc, items, n)
  BY ApplyingExists
<1>2. After(doc, items) = f[1 .. n]
  BY DEF After, FoldLeft, MapThenFoldSet, Applying
<1> HIDE DEF f
<1> DEFINE Bad == {k \in 0 .. n : f[1 .. k] # t[k]}
<1>3. SUFFICES ASSUME Bad # {} PROVE FALSE
  BY <1>2
<1>4. PICK m \in Bad : \A k \in Bad : m <= k
  <2> HIDE DEF Bad
  <2>1. Bad \subseteq Nat
    BY DEF Bad
  <2> QED BY <1>3, <2>1, HasLeast
<1>5. m # 0
  <2>1. 1 .. 0 = {} /\ 1 .. 0 \in SUBSET (1 .. n)
    OBVIOUS
  <2>2. f[1 .. 0] = doc
    BY <1>1, <2>1 DEF Applying
  <2> QED BY <1>4, <2>2
<1>6. m \in 1 .. n /\ m - 1 \in 0 .. n /\ m - 1 \notin Bad
  BY <1>4, <1>5
<1>7. f[1 .. m - 1] = t[m - 1]
  BY <1>6
<1>8. 1 .. m \in SUBSET (1 .. n) /\ 1 .. m # {} /\ Max(1 .. m) = m /\ (1 .. m) \ {m} = 1 .. m - 1
  <2>1. 1 .. m \in SUBSET (1 .. n) /\ m \in 1 .. m /\ (1 .. m) \ {m} = 1 .. m - 1
    BY <1>6
  <2>2. Max(1 .. m) = m
    BY <1>6, <2>1, LastIsMax
  <2> QED BY <2>1, <2>2
<1>9. f[1 .. m] = Applied(f[1 .. m - 1], items[m])
  BY <1>1, <1>8 DEF Applying
<1> QED BY <1>4, <1>6, <1>7, <1>9

\* The resume before each item, and after the last.
LEMMA UptoSteps ==
    ASSUME NEW doc, NEW S, NEW items \in Seq(S)
    PROVE  /\ Upto(doc, items, 1) = doc
           /\ \A k \in 1 .. Len(items) : Upto(doc, items, k + 1) = Applied(Upto(doc, items, k), items[k])
           /\ After(doc, items) = Upto(doc, items, Len(items) + 1)
<1>0. Len(items) \in Nat /\ DOMAIN items = 1 .. Len(items)
  OBVIOUS
<1>1. PICK f : Applying(f, doc, items, Len(items))
  BY <1>0, ApplyingExists
<1> DEFINE t == [k \in 0 .. Len(items) |-> f[1 .. k]]
<1>2. t[0] = doc
  <2>1. 1 .. 0 = {} /\ 1 .. 0 \in SUBSET (1 .. Len(items))
    OBVIOUS
  <2> QED BY <1>1, <2>1 DEF Applying
<1>3. ASSUME NEW k \in 1 .. Len(items) PROVE t[k] = Applied(t[k - 1], items[k])
  <2>1. /\ 1 .. k \in SUBSET (1 .. Len(items)) /\ k \in 1 .. k /\ (1 .. k) \ {k} = 1 .. k - 1
        /\ k \in 0 .. Len(items) /\ k - 1 \in 0 .. Len(items)
    OBVIOUS
  <2>2. Max(1 .. k) = k
    BY <2>1, LastIsMax
  <2>3. f[1 .. k] = Applied(f[1 .. k - 1], items[k])
    BY <1>1, <2>1, <2>2 DEF Applying
  <2> QED BY <2>1, <2>3
<1> HIDE DEF t
<1>4. ASSUME NEW k \in 1 .. Len(items) + 1 PROVE Upto(doc, items, k) = t[k - 1]
  <2> DEFINE s == SubSeq(items, 1, k - 1)
  <2>1. s \in Seq(S) /\ Len(s) = k - 1 /\ \A i \in 1 .. k - 1 : s[i] = items[i]
    OBVIOUS
  <2>2. DOMAIN s = 1 .. k - 1 /\ k - 1 \in Nat /\ \A i \in 1 .. k - 1 : i \in 1 .. Len(items)
    BY <2>1
  <2> HIDE DEF s
  <2>3. \A i \in 1 .. k - 1 : t[i] = Applied(t[i - 1], s[i])
    BY <1>3, <2>1, <2>2
  <2>4. After(doc, s) = t[k - 1]
    BY <1>2, <2>2, <2>3, AfterTrace
  <2> QED BY <2>4 DEF Upto, s
<1>5. After(doc, items) = t[Len(items)]
  <2>1. Len(items) + 1 \in 1 .. Len(items) + 1 /\ Len(items) + 1 - 1 = Len(items)
    BY <1>0
  <2>2. Upto(doc, items, Len(items) + 1) = t[Len(items)]
    BY <1>4, <2>1
  <2> DEFINE s == SubSeq(items, 1, Len(items) + 1 - 1)
  <2>3. s = items
    OBVIOUS
  <2>4. After(doc, s) = t[Len(items)]
    BY <2>2 DEF Upto
  <2> HIDE DEF s
  <2> QED BY <2>3, <2>4
<1>6. \A k \in 1 .. Len(items) : k \in 1 .. Len(items) + 1 /\ k + 1 \in 1 .. Len(items) + 1 /\ k + 1 - 1 = k
  OBVIOUS
<1>7. 1 \in 1 .. Len(items) + 1 /\ Len(items) + 1 \in 1 .. Len(items) + 1 /\ Len(items) + 1 - 1 = Len(items)
  OBVIOUS
<1>8. Upto(doc, items, 1) = doc
  BY <1>2, <1>4, <1>7
<1>9. \A k \in 1 .. Len(items) : Upto(doc, items, k + 1) = Applied(Upto(doc, items, k), items[k])
  BY <1>3, <1>4, <1>6
<1> QED BY <1>4, <1>5, <1>7, <1>8, <1>9

\* The fold that reverts, and its steps: the same.
Back(doc, items) == FoldLeft(Revert, doc, items)

BackTo(doc, back, k) == Back(doc, SubSeq(back, 1, k - 1))

Reverting(f, doc, items, n) ==
    f = [S \in SUBSET (1 .. n) |->
                         IF S = {} THEN doc ELSE Revert(f[S \ {Max(S)}], items[Max(S)])]

\* The same of the fold that reverts.
LEMMA RevertingExists ==
    ASSUME NEW doc, NEW items, NEW n \in Nat
    PROVE  \E f : Reverting(f, doc, items, n)
<1> DEFINE Fold(f, k) == Reverting(f, doc, items, k)
           Bad == {k \in Nat : ~\E f : Fold(f, k)}
<1>1. SUFFICES ASSUME Bad # {} PROVE FALSE
  OBVIOUS
<1>2. PICK m \in Bad : \A k \in Bad : m <= k
  <2> HIDE DEF Bad
  <2>1. Bad \subseteq Nat
    BY DEF Bad
  <2> QED BY <1>1, <2>1, HasLeast
<1>3. CASE m = 0
  <2>1. \A S \in SUBSET (1 .. 0) : S = {}
    OBVIOUS
  <2>2. Fold([S \in SUBSET (1 .. 0) |-> doc], 0)
    BY <2>1 DEF Reverting
  <2> QED BY <1>2, <1>3, <2>2
<1>4. CASE m # 0
  <2>1. m \in Nat /\ m - 1 \in Nat
    BY <1>2, <1>4
  <2>0. m - 1 \notin Bad
    <3> HIDE DEF Bad
    <3> QED BY <1>2, <2>1
  <2>2. PICK f : Fold(f, m - 1)
    BY <2>0, <2>1
  <2> DEFINE g == [S \in SUBSET (1 .. m) |->
                     IF S \subseteq 1 .. m - 1 THEN f[S] ELSE Revert(f[S \ {m}], items[m])]
  <2>3. ASSUME NEW S \in SUBSET (1 .. m)
        PROVE g[S] = IF S = {} THEN doc ELSE Revert(g[S \ {Max(S)}], items[Max(S)])
    <3>1. CASE S \subseteq 1 .. m - 1
      <4>1. S \ {Max(S)} \subseteq 1 .. m - 1 /\ S \ {Max(S)} \subseteq 1 .. m
        BY <3>1
      <4>2. g[S] = f[S] /\ g[S \ {Max(S)}] = f[S \ {Max(S)}]
        BY <3>1, <4>1
      <4>3. f[S] = IF S = {} THEN doc ELSE Revert(f[S \ {Max(S)}], items[Max(S)])
        BY <2>2, <3>1 DEF Reverting
      <4> QED BY <4>2, <4>3
    <3>2. CASE ~(S \subseteq 1 .. m - 1)
      <4>1. m \in S
        BY <2>1, <3>2
      <4>2. Max(S) = m /\ S # {}
        BY <2>1, <4>1, LastIsMax
      <4>3. S \ {m} \subseteq 1 .. m - 1 /\ S \ {m} \subseteq 1 .. m
        BY <2>1
      <4>4. g[S] = Revert(f[S \ {m}], items[m]) /\ g[S \ {m}] = f[S \ {m}]
        BY <3>2, <4>3
      <4> QED BY <4>2, <4>4
    <3> QED BY <3>1, <3>2
  <2>4. Fold(g, m)
    <3> HIDE DEF g
    <3>1. g = [S \in SUBSET (1 .. m) |-> g[S]]
      BY DEF g
    <3> QED BY <2>3, <3>1 DEF Reverting
  <2> QED BY <1>2, <2>4
<1> QED BY <1>3, <1>4

LEMMA BackTrace ==
    ASSUME NEW doc, NEW items, NEW n \in Nat, DOMAIN items = 1 .. n,
           NEW t, t[0] = doc, \A k \in 1 .. n : t[k] = Revert(t[k - 1], items[k])
    PROVE  Back(doc, items) = t[n]
<1> DEFINE f == CHOOSE g : Reverting(g, doc, items, n)
<1>1. Reverting(f, doc, items, n)
  BY RevertingExists
<1>2. Back(doc, items) = f[1 .. n]
  BY DEF Back, FoldLeft, MapThenFoldSet, Reverting
<1> HIDE DEF f
<1> DEFINE Bad == {k \in 0 .. n : f[1 .. k] # t[k]}
<1>3. SUFFICES ASSUME Bad # {} PROVE FALSE
  BY <1>2
<1>4. PICK m \in Bad : \A k \in Bad : m <= k
  <2> HIDE DEF Bad
  <2>1. Bad \subseteq Nat
    BY DEF Bad
  <2> QED BY <1>3, <2>1, HasLeast
<1>5. m # 0
  <2>1. 1 .. 0 = {} /\ 1 .. 0 \in SUBSET (1 .. n)
    OBVIOUS
  <2>2. f[1 .. 0] = doc
    BY <1>1, <2>1 DEF Reverting
  <2> QED BY <1>4, <2>2
<1>6. m \in 1 .. n /\ m - 1 \in 0 .. n /\ m - 1 \notin Bad
  BY <1>4, <1>5
<1>7. f[1 .. m - 1] = t[m - 1]
  BY <1>6
<1>8. 1 .. m \in SUBSET (1 .. n) /\ 1 .. m # {} /\ Max(1 .. m) = m /\ (1 .. m) \ {m} = 1 .. m - 1
  <2>1. 1 .. m \in SUBSET (1 .. n) /\ m \in 1 .. m /\ (1 .. m) \ {m} = 1 .. m - 1
    BY <1>6
  <2>2. Max(1 .. m) = m
    BY <1>6, <2>1, LastIsMax
  <2> QED BY <2>1, <2>2
<1>9. f[1 .. m] = Revert(f[1 .. m - 1], items[m])
  BY <1>1, <1>8 DEF Reverting
<1> QED BY <1>4, <1>6, <1>7, <1>9

LEMMA BackSteps ==
    ASSUME NEW doc, NEW S, NEW back \in Seq(S)
    PROVE  /\ BackTo(doc, back, 1) = doc
           /\ \A k \in 1 .. Len(back) : BackTo(doc, back, k + 1) = Revert(BackTo(doc, back, k), back[k])
           /\ Back(doc, back) = BackTo(doc, back, Len(back) + 1)
<1>0. Len(back) \in Nat /\ DOMAIN back = 1 .. Len(back)
  OBVIOUS
<1>1. PICK f : Reverting(f, doc, back, Len(back))
  BY <1>0, RevertingExists
<1> DEFINE t == [k \in 0 .. Len(back) |-> f[1 .. k]]
<1>2. t[0] = doc
  <2>1. 1 .. 0 = {} /\ 1 .. 0 \in SUBSET (1 .. Len(back))
    OBVIOUS
  <2> QED BY <1>1, <2>1 DEF Reverting
<1>3. ASSUME NEW k \in 1 .. Len(back) PROVE t[k] = Revert(t[k - 1], back[k])
  <2>1. /\ 1 .. k \in SUBSET (1 .. Len(back)) /\ k \in 1 .. k /\ (1 .. k) \ {k} = 1 .. k - 1
        /\ k \in 0 .. Len(back) /\ k - 1 \in 0 .. Len(back)
    OBVIOUS
  <2>2. Max(1 .. k) = k
    BY <2>1, LastIsMax
  <2>3. f[1 .. k] = Revert(f[1 .. k - 1], back[k])
    BY <1>1, <2>1, <2>2 DEF Reverting
  <2> QED BY <2>1, <2>3
<1> HIDE DEF t
<1>4. ASSUME NEW k \in 1 .. Len(back) + 1 PROVE BackTo(doc, back, k) = t[k - 1]
  <2> DEFINE s == SubSeq(back, 1, k - 1)
  <2>1. s \in Seq(S) /\ Len(s) = k - 1 /\ \A i \in 1 .. k - 1 : s[i] = back[i]
    OBVIOUS
  <2>2. DOMAIN s = 1 .. k - 1 /\ k - 1 \in Nat /\ \A i \in 1 .. k - 1 : i \in 1 .. Len(back)
    BY <2>1
  <2> HIDE DEF s
  <2>3. \A i \in 1 .. k - 1 : t[i] = Revert(t[i - 1], s[i])
    BY <1>3, <2>1, <2>2
  <2>4. Back(doc, s) = t[k - 1]
    BY <1>2, <2>2, <2>3, BackTrace
  <2> QED BY <2>4 DEF BackTo, s
<1>5. Back(doc, back) = t[Len(back)]
  <2>1. Len(back) + 1 \in 1 .. Len(back) + 1 /\ Len(back) + 1 - 1 = Len(back)
    BY <1>0
  <2>2. BackTo(doc, back, Len(back) + 1) = t[Len(back)]
    BY <1>4, <2>1
  <2> DEFINE s == SubSeq(back, 1, Len(back) + 1 - 1)
  <2>3. s = back
    OBVIOUS
  <2>4. Back(doc, s) = t[Len(back)]
    BY <2>2 DEF BackTo
  <2> HIDE DEF s
  <2> QED BY <2>3, <2>4
<1>6. \A k \in 1 .. Len(back) : k \in 1 .. Len(back) + 1 /\ k + 1 \in 1 .. Len(back) + 1 /\ k + 1 - 1 = k
  OBVIOUS
<1>7. 1 \in 1 .. Len(back) + 1 /\ Len(back) + 1 \in 1 .. Len(back) + 1 /\ Len(back) + 1 - 1 = Len(back)
  OBVIOUS
<1>8. BackTo(doc, back, 1) = doc
  BY <1>2, <1>4, <1>7
<1>9. \A k \in 1 .. Len(back) : BackTo(doc, back, k + 1) = Revert(BackTo(doc, back, k), back[k])
  BY <1>3, <1>4, <1>6
<1> QED BY <1>4, <1>5, <1>7, <1>8, <1>9

-----------------------------------------------------------------------------
(* Sections, and what is taken from them and put back.                     *)

\* What remains of a sequence.
LEMMA RemoveAtIs ==
    ASSUME NEW S, NEW s \in Seq(S), NEW i \in 1 .. Len(s)
    PROVE  /\ RemoveAt(s, i) \in Seq(S) /\ Len(RemoveAt(s, i)) = Len(s) - 1
           /\ \A k \in 1 .. Len(s) - 1 : RemoveAt(s, i)[k] = IF k < i THEN s[k] ELSE s[k + 1]
<1> DEFINE front == SubSeq(s, 1, i - 1)
           back == SubSeq(s, i + 1, Len(s))
<1>0. Len(s) \in Nat /\ i \in Nat /\ 1 <= i /\ i <= Len(s)
  OBVIOUS
<1>1. front \in Seq(S) /\ Len(front) = i - 1 /\ \A k \in 1 .. i - 1 : front[k] = s[k]
  OBVIOUS
<1>2. back \in Seq(S) /\ Len(back) = Len(s) - i /\ \A k \in 1 .. Len(s) - i : back[k] = s[i + k]
  BY SubSeqProperties
<1> HIDE DEF front, back
<1>3. /\ front \o back \in Seq(S) /\ Len(front \o back) = Len(s) - 1
      /\ \A k \in 1 .. Len(s) - 1 : (front \o back)[k] = IF k <= i - 1 THEN front[k] ELSE back[k - (i - 1)]
  <2>1. front \in Seq(S) /\ back \in Seq(S) /\ Len(front) = i - 1 /\ Len(back) = Len(s) - i
    BY <1>1, <1>2
  <2>2. /\ front \o back \in Seq(S) /\ Len(front \o back) = Len(front) + Len(back)
        /\ \A k \in 1 .. Len(front) + Len(back) :
             (front \o back)[k] = IF k <= Len(front) THEN front[k] ELSE back[k - Len(front)]
    BY <2>1, ConcatProperties
  <2>3. Len(front) + Len(back) = Len(s) - 1
    BY <1>0, <2>1
  <2> QED BY <2>1, <2>2, <2>3
<1>4. ASSUME NEW k \in 1 .. Len(s) - 1 PROVE (front \o back)[k] = IF k < i THEN s[k] ELSE s[k + 1]
  BY <1>0, <1>1, <1>2, <1>3
<1>5. RemoveAt(s, i) = front \o back
  BY DEF RemoveAt, front, back
<1> QED BY <1>3, <1>4, <1>5

LEMMA InsertAtIs ==
    ASSUME NEW S, NEW s \in Seq(S), NEW e \in S, NEW i \in 1 .. Len(s) + 1
    PROVE  /\ InsertAt(s, i, e) \in Seq(S) /\ Len(InsertAt(s, i, e)) = Len(s) + 1
           /\ \A k \in 1 .. Len(s) + 1 :
                InsertAt(s, i, e)[k] = IF k < i THEN s[k] ELSE IF k = i THEN e ELSE s[k - 1]
<1> DEFINE front == SubSeq(s, 1, i - 1)
           back == SubSeq(s, i, Len(s))
<1>0. Len(s) \in Nat /\ i \in Nat /\ 1 <= i /\ i <= Len(s) + 1
  OBVIOUS
<1>1. front \in Seq(S) /\ Len(front) = i - 1 /\ \A k \in 1 .. i - 1 : front[k] = s[k]
  OBVIOUS
<1>2. back \in Seq(S) /\ Len(back) = Len(s) + 1 - i /\ \A k \in 1 .. Len(s) + 1 - i : back[k] = s[i + k - 1]
  BY SubSeqProperties
<1>3. <<e>> \in Seq(S) /\ Len(<<e>>) = 1 /\ <<e>>[1] = e
  OBVIOUS
<1> HIDE DEF front, back
<1> DEFINE one == <<e>>
<1>4. one \in Seq(S) /\ Len(one) = 1 /\ one[1] = e
  BY <1>3
<1> HIDE DEF one
<1> DEFINE left == front \o one
<1>5. left \in Seq(S) /\ Len(left) = i /\ \A k \in 1 .. i : left[k] = IF k <= i - 1 THEN front[k] ELSE one[k - (i - 1)]
  <2>1. /\ front \o one \in Seq(S) /\ Len(front \o one) = Len(front) + Len(one)
        /\ \A k \in 1 .. Len(front) + Len(one) :
             (front \o one)[k] = IF k <= Len(front) THEN front[k] ELSE one[k - Len(front)]
    BY <1>1, <1>4, ConcatProperties
  <2> QED BY <1>0, <1>1, <1>4, <2>1
<1>6. \A k \in 1 .. i : left[k] = IF k < i THEN s[k] ELSE e
  BY <1>0, <1>1, <1>4, <1>5
<1> HIDE DEF left
<1>7. /\ left \o back \in Seq(S) /\ Len(left \o back) = Len(s) + 1
      /\ \A k \in 1 .. Len(s) + 1 : (left \o back)[k] = IF k <= i THEN left[k] ELSE back[k - i]
  <2>1. /\ left \o back \in Seq(S) /\ Len(left \o back) = Len(left) + Len(back)
        /\ \A k \in 1 .. Len(left) + Len(back) :
             (left \o back)[k] = IF k <= Len(left) THEN left[k] ELSE back[k - Len(left)]
    BY <1>2, <1>5, ConcatProperties
  <2> QED BY <1>0, <1>2, <1>5, <2>1
<1>8. ASSUME NEW k \in 1 .. Len(s) + 1
      PROVE (left \o back)[k] = IF k < i THEN s[k] ELSE IF k = i THEN e ELSE s[k - 1]
  BY <1>0, <1>2, <1>6, <1>7
<1>9. InsertAt(s, i, e) = left \o back
  BY DEF InsertAt, front, back, left, one
<1> QED BY <1>7, <1>8, <1>9

\* The orders of resumes.
Orders == {o \in Seq(Entry) : IsInjective(o)}

LEMMA OrdersAre ==
    \A o : o \in Orders <=> o \in SeqOf(Entry, Cardinality(Entry)) /\ IsInjective(o)
<1>0. IsFiniteSet(Entry) /\ Cardinality(Entry) \in Nat
  BY ItemsAssumption, FS_CardinalityType
<1>1. ASSUME NEW o \in Orders PROVE o \in SeqOf(Entry, Cardinality(Entry)) /\ IsInjective(o)
  <2>1. o \in [1 .. Len(o) -> Entry] /\ IsInjective(o) /\ Len(o) \in Nat
    BY DEF Orders
  <2>2. IsFiniteSet(1 .. Len(o)) /\ Cardinality(1 .. Len(o)) = Len(o)
    <3>1. 1 \in Int /\ Len(o) \in Int
      BY <2>1
    <3>2. Cardinality(1 .. Len(o)) = IF 1 > Len(o) THEN 0 ELSE Len(o) - 1 + 1
      BY <3>1, FS_Interval
    <3>3. IsFiniteSet(1 .. Len(o))
      BY <3>1, FS_Interval
    <3> QED BY <2>1, <3>2, <3>3
  <2>3. o \in Injection(1 .. Len(o), Entry)
    BY <2>1 DEF Injection
  <2>4. Len(o) <= Cardinality(Entry)
    BY <1>0, <2>2, <2>3, FS_Injection
  <2>5. Len(o) \in 0 .. Cardinality(Entry)
    BY <1>0, <2>1, <2>4
  <2> QED BY <2>1, <2>5 DEF SeqOf
<1>2. ASSUME NEW o, o \in SeqOf(Entry, Cardinality(Entry)), IsInjective(o) PROVE o \in Orders
  <2>1. PICK n \in 0 .. Cardinality(Entry) : o \in [1 .. n -> Entry]
    BY <1>2 DEF SeqOf
  <2>2. n \in Nat
    BY <1>0
  <2>3. o \in Seq(Entry)
    BY <2>1, <2>2
  <2> QED BY <1>2, <2>3 DEF Orders
<1> QED BY <1>1, <1>2

Bodies == [Entry -> Value \cup {None}]

\* Resumes, by their parts.
LEMMA DocParts ==
    ASSUME NEW d \in Doc
    PROVE  /\ d.order \in Orders /\ d.body \in Bodies /\ d.text \in Value
           /\ d = [order |-> d.order, body |-> d.body, text |-> d.text]
           /\ \A e \in Entry : d.body[e] # None <=> Present(d, e)
<1>1. /\ d \in [order: SeqOf(Entry, Cardinality(Entry)), body: Bodies, text: Value]
      /\ IsInjective(d.order)
      /\ \A e \in Entry : d.body[e] # None <=> e \in Range(d.order)
  BY DEF Doc, Bodies
<1> QED BY <1>1, OrdersAre DEF Present

LEMMA DocOfParts ==
    ASSUME NEW o \in Orders, NEW body \in Bodies, NEW text \in Value,
           \A e \in Entry : body[e] # None <=> e \in Range(o)
    PROVE  [order |-> o, body |-> body, text |-> text] \in Doc
<1> DEFINE d == [order |-> o, body |-> body, text |-> text]
<1>1. /\ d \in [order: SeqOf(Entry, Cardinality(Entry)), body: Bodies, text: Value]
      /\ IsInjective(d.order) /\ d.order = o /\ d.body = body
  BY OrdersAre
<1> QED BY <1>1 DEF Doc, Bodies

\* An order, by its places.
LEMMA OrderParts ==
    ASSUME NEW o \in Orders
    PROVE  /\ o \in Seq(Entry) /\ Len(o) \in Nat /\ DOMAIN o = 1 .. Len(o)
           /\ \A j \in 1 .. Len(o) : o[j] \in Entry /\ o[j] \in Range(o)
           /\ \A j, k \in 1 .. Len(o) : o[j] = o[k] => j = k
           /\ \A e : e \in Range(o) <=> \E j \in 1 .. Len(o) : o[j] = e
<1>1. o \in Seq(Entry) /\ IsInjective(o) /\ Len(o) \in Nat /\ DOMAIN o = 1 .. Len(o)
  BY DEF Orders
<1>2. \A e : e \in Range(o) <=> \E j \in 1 .. Len(o) : o[j] = e
  BY <1>1 DEF Range
<1>3. \A j, k \in 1 .. Len(o) : o[j] = o[k] => j = k
  BY <1>1 DEF IsInjective
<1> QED BY <1>1, <1>2, <1>3

LEMMA IndexIs ==
    ASSUME NEW d \in Doc, NEW e, Present(d, e)
    PROVE  IndexOf(d, e) \in 1 .. Len(d.order) /\ d.order[IndexOf(d, e)] = e
<1>1. d.order \in Orders
  BY DocParts
<1>2. DOMAIN d.order = 1 .. Len(d.order) /\ \E j \in 1 .. Len(d.order) : d.order[j] = e
  BY <1>1, OrderParts DEF Present
<1> QED BY <1>2 DEF IndexOf

\* A section without one of its entries.
LEMMA RemovedOrder ==
    ASSUME NEW o \in Orders, NEW i \in 1 .. Len(o)
    PROVE  /\ RemoveAt(o, i) \in Orders /\ Range(RemoveAt(o, i)) = Range(o) \ {o[i]}
<1> DEFINE s == RemoveAt(o, i)
<1>1. /\ o \in Seq(Entry) /\ Len(o) \in Nat /\ \A j, k \in 1 .. Len(o) : o[j] = o[k] => j = k
      /\ \A e : e \in Range(o) <=> \E j \in 1 .. Len(o) : o[j] = e
  BY OrderParts
<1>2. /\ s \in Seq(Entry) /\ Len(s) = Len(o) - 1
      /\ \A k \in 1 .. Len(o) - 1 : s[k] = IF k < i THEN o[k] ELSE o[k + 1]
  BY <1>1, RemoveAtIs
<1> HIDE DEF s
<1>3. DOMAIN s = 1 .. Len(o) - 1
  BY <1>2
<1>4. IsInjective(s)
  <2> SUFFICES ASSUME NEW j \in 1 .. Len(o) - 1, NEW k \in 1 .. Len(o) - 1, s[j] = s[k] PROVE j = k
    BY <1>3 DEF IsInjective
  <2>1. j \in 1 .. Len(o) /\ j + 1 \in 1 .. Len(o) /\ k \in 1 .. Len(o) /\ k + 1 \in 1 .. Len(o)
    BY <1>1
  <2> QED BY <1>1, <1>2, <2>1
<1>5. ASSUME NEW e, e \in Range(s) PROVE e \in Range(o) \ {o[i]}
  <2>1. PICK k \in 1 .. Len(o) - 1 : s[k] = e
    BY <1>3, <1>5 DEF Range
  <2>2. k \in 1 .. Len(o) /\ k + 1 \in 1 .. Len(o)
    BY <1>1
  <2>3. CASE k < i
    <3>1. e = o[k] /\ k # i
      BY <1>2, <2>1, <2>3
    <3> QED BY <1>1, <2>2, <3>1
  <2>4. CASE ~(k < i)
    <3>1. e = o[k + 1] /\ k + 1 # i
      BY <1>2, <2>1, <2>4
    <3> QED BY <1>1, <2>2, <3>1
  <2> QED BY <2>3, <2>4
<1>6. ASSUME NEW e, e \in Range(o) \ {o[i]} PROVE e \in Range(s)
  <2>1. PICK j \in 1 .. Len(o) : o[j] = e
    BY <1>1, <1>6
  <2>2. CASE j < i
    <3>1. j \in 1 .. Len(o) - 1 /\ s[j] = e
      BY <1>1, <1>2, <2>1, <2>2
    <3> QED BY <1>3, <3>1 DEF Range
  <2>3. CASE j > i
    <3>1. j - 1 \in 1 .. Len(o) - 1 /\ ~(j - 1 < i) /\ j - 1 + 1 = j
      BY <1>1, <2>3
    <3>2. s[j - 1] = e
      BY <1>2, <2>1, <3>1
    <3> QED BY <1>3, <3>1, <3>2 DEF Range
  <2>4. j # i
    BY <1>6, <2>1
  <2> QED BY <2>2, <2>3, <2>4
<1>7. s \in Orders /\ Range(s) = Range(o) \ {o[i]}
  BY <1>2, <1>4, <1>5, <1>6 DEF Orders
<1> QED BY <1>7 DEF s

\* A section with one entry more.
LEMMA InsertedOrder ==
    ASSUME NEW o \in Orders, NEW e \in Entry, e \notin Range(o), NEW i \in 1 .. Len(o) + 1
    PROVE  /\ InsertAt(o, i, e) \in Orders /\ Range(InsertAt(o, i, e)) = Range(o) \cup {e}
<1> DEFINE s == InsertAt(o, i, e)
<1>1. /\ o \in Seq(Entry) /\ Len(o) \in Nat /\ \A j, k \in 1 .. Len(o) : o[j] = o[k] => j = k
      /\ \A x : x \in Range(o) <=> \E j \in 1 .. Len(o) : o[j] = x
  BY OrderParts
<1>2. /\ s \in Seq(Entry) /\ Len(s) = Len(o) + 1
      /\ \A k \in 1 .. Len(o) + 1 : s[k] = IF k < i THEN o[k] ELSE IF k = i THEN e ELSE o[k - 1]
  BY <1>1, InsertAtIs
<1> HIDE DEF s
<1>3. DOMAIN s = 1 .. Len(o) + 1
  BY <1>2
<1>4. IsInjective(s)
  <2> SUFFICES ASSUME NEW j \in 1 .. Len(o) + 1, NEW k \in 1 .. Len(o) + 1, s[j] = s[k] PROVE j = k
    BY <1>3 DEF IsInjective
  <2>1. \A x \in 1 .. Len(o) + 1 : x < i => x \in 1 .. Len(o)
    BY <1>1
  <2>2. \A x \in 1 .. Len(o) + 1 : x > i => x - 1 \in 1 .. Len(o)
    BY <1>1
  <2>3. \A x \in 1 .. Len(o) : o[x] # e
    BY <1>1
  <2>4. CASE j < i /\ k < i
    <3>1. s[j] = o[j] /\ s[k] = o[k]
      BY <1>2, <2>4
    <3> QED BY <1>1, <2>1, <2>4, <3>1
  <2>5. CASE j > i /\ k > i
    <3>1. s[j] = o[j - 1] /\ s[k] = o[k - 1] /\ j - 1 \in 1 .. Len(o) /\ k - 1 \in 1 .. Len(o)
      BY <1>2, <2>2, <2>5
    <3>2. j - 1 = k - 1
      BY <1>1, <3>1
    <3> QED BY <3>2
  <2>6. CASE j < i /\ k > i
    <3>1. s[j] = o[j] /\ s[k] = o[k - 1] /\ j \in 1 .. Len(o) /\ k - 1 \in 1 .. Len(o)
      BY <1>2, <2>1, <2>2, <2>6
    <3>2. j = k - 1
      BY <1>1, <3>1
    <3> QED BY <2>6, <3>2
  <2>7. CASE j > i /\ k < i
    <3>1. s[j] = o[j - 1] /\ s[k] = o[k] /\ k \in 1 .. Len(o) /\ j - 1 \in 1 .. Len(o)
      BY <1>2, <2>1, <2>2, <2>7
    <3>2. k = j - 1
      BY <1>1, <3>1
    <3> QED BY <2>7, <3>2
  <2>8. CASE j = i /\ k # i
    <3>1. s[j] = e /\ \E x \in 1 .. Len(o) : s[k] = o[x]
      BY <1>2, <2>1, <2>2, <2>8
    <3> QED BY <2>3, <3>1
  <2>9. CASE j # i /\ k = i
    <3>1. s[k] = e /\ \E x \in 1 .. Len(o) : s[j] = o[x]
      BY <1>2, <2>1, <2>2, <2>9
    <3> QED BY <2>3, <3>1
  <2> QED BY <2>4, <2>5, <2>6, <2>7, <2>8, <2>9
<1>5. ASSUME NEW x, x \in Range(s) PROVE x \in Range(o) \cup {e}
  <2>1. PICK k \in 1 .. Len(o) + 1 : s[k] = x
    BY <1>3, <1>5 DEF Range
  <2>2. CASE k < i
    <3>1. k \in 1 .. Len(o) /\ x = o[k]
      BY <1>1, <1>2, <2>1, <2>2
    <3> QED BY <1>1, <3>1
  <2>3. CASE k > i
    <3>1. k - 1 \in 1 .. Len(o) /\ x = o[k - 1]
      BY <1>1, <1>2, <2>1, <2>3
    <3> QED BY <1>1, <3>1
  <2>4. CASE k = i
    BY <1>2, <2>1, <2>4
  <2> QED BY <2>2, <2>3, <2>4
<1>6. ASSUME NEW x, x \in Range(o) \cup {e} PROVE x \in Range(s)
  <2>1. CASE x = e
    <3>1. i \in 1 .. Len(o) + 1 /\ s[i] = e
      BY <1>2
    <3> QED BY <1>3, <2>1, <3>1 DEF Range
  <2>2. CASE x \in Range(o)
    <3>1. PICK j \in 1 .. Len(o) : o[j] = x
      BY <1>1, <2>2
    <3>2. CASE j < i
      <4>1. j \in 1 .. Len(o) + 1 /\ s[j] = x
        BY <1>1, <1>2, <3>1, <3>2
      <4> QED BY <1>3, <4>1 DEF Range
    <3>3. CASE ~(j < i)
      <4>1. j + 1 \in 1 .. Len(o) + 1 /\ ~(j + 1 < i) /\ j + 1 # i /\ j + 1 - 1 = j
        BY <1>1, <3>3
      <4>2. s[j + 1] = x
        BY <1>2, <3>1, <4>1
      <4> QED BY <1>3, <4>1, <4>2 DEF Range
    <3> QED BY <3>2, <3>3
  <2> QED BY <1>6, <2>1, <2>2
<1>7. s \in Orders /\ Range(s) = Range(o) \cup {e}
  BY <1>2, <1>4, <1>5, <1>6 DEF Orders
<1> QED BY <1>7 DEF s

\* Putting back what was taken out.
LEMMA RemoveInsert ==
    ASSUME NEW o \in Orders, NEW i \in 1 .. Len(o)
    PROVE  InsertAt(RemoveAt(o, i), i, o[i]) = o /\ i \in 1 .. Len(RemoveAt(o, i)) + 1
<1> DEFINE r == RemoveAt(o, i)
           e == o[i]
<1>1. o \in Seq(Entry) /\ Len(o) \in Nat /\ e \in Entry
  BY OrderParts
<1>2. /\ r \in Seq(Entry) /\ Len(r) = Len(o) - 1
      /\ \A k \in 1 .. Len(o) - 1 : r[k] = IF k < i THEN o[k] ELSE o[k + 1]
  BY <1>1, RemoveAtIs
<1>3. i \in 1 .. Len(r) + 1
  BY <1>1, <1>2
<1> HIDE DEF r, e
<1> DEFINE s == InsertAt(r, i, e)
<1>4. /\ s \in Seq(Entry) /\ Len(s) = Len(r) + 1
      /\ \A k \in 1 .. Len(r) + 1 : s[k] = IF k < i THEN r[k] ELSE IF k = i THEN e ELSE r[k - 1]
  <2> HIDE DEF s
  <2>1. /\ InsertAt(r, i, e) \in Seq(Entry) /\ Len(InsertAt(r, i, e)) = Len(r) + 1
        /\ \A k \in 1 .. Len(r) + 1 :
             InsertAt(r, i, e)[k] = IF k < i THEN r[k] ELSE IF k = i THEN e ELSE r[k - 1]
    BY <1>1, <1>2, <1>3, InsertAtIs
  <2> QED BY <2>1 DEF s
<1> HIDE DEF s
<1>5. Len(s) = Len(o)
  BY <1>1, <1>2, <1>4
<1>6. ASSUME NEW k \in 1 .. Len(o) PROVE s[k] = o[k]
  <2>0. o[i] = e
    BY DEF e
  <2>1. CASE k < i
    <3>1. k \in 1 .. Len(o) - 1 /\ s[k] = r[k]
      BY <1>1, <1>2, <1>4, <2>1
    <3> QED BY <1>2, <2>1, <3>1
  <2>2. CASE k = i
    BY <1>1, <1>2, <1>4, <2>0, <2>2
  <2>3. CASE k > i
    <3>1. k - 1 \in 1 .. Len(o) - 1 /\ ~(k - 1 < i) /\ k - 1 + 1 = k
      BY <1>1, <2>3
    <3>2. s[k] = r[k - 1]
      BY <1>1, <1>2, <1>4, <2>3
    <3> QED BY <1>2, <3>1, <3>2
  <2> QED BY <2>1, <2>2, <2>3
<1>7. s = o
  BY <1>1, <1>4, <1>5, <1>6, SeqEqual
<1> QED BY <1>3, <1>7 DEF s, r, e

\* What is left of a section, with the inbox's notions.
LEMMA WithoutIs ==
    ASSUME NEW o, NEW gone, NEW r
    PROVE  Review!Without(o, gone, r) <=>
             /\ Range(r) = Range(o) \ gone
             /\ \A j, k \in DOMAIN r : j < k =>
                  \E m, n \in DOMAIN o : m < n /\ o[m] = r[j] /\ o[n] = r[k]
BY DEF Review!Without, Review!Range, Range

\* Without nothing it is what it was.
LEMMA WithoutNothing ==
    ASSUME NEW o \in Orders
    PROVE  Review!Without(o, {}, o)
BY WithoutIs

\* One entry less.
LEMMA WithoutRemoved ==
    ASSUME NEW o \in Orders, NEW r \in Orders, NEW gone, Review!Without(o, gone, r),
           NEW i \in 1 .. Len(r)
    PROVE  Review!Without(o, gone \cup {r[i]}, RemoveAt(r, i))
<1> DEFINE s == RemoveAt(r, i)
<1>1. r \in Seq(Entry) /\ Len(r) \in Nat /\ DOMAIN r = 1 .. Len(r)
  BY OrderParts
<1>2. /\ s \in Seq(Entry) /\ Len(s) = Len(r) - 1
      /\ \A k \in 1 .. Len(r) - 1 : s[k] = IF k < i THEN r[k] ELSE r[k + 1]
  BY <1>1, RemoveAtIs
<1>3. Range(s) = Range(r) \ {r[i]}
  BY RemovedOrder
<1> HIDE DEF s
<1>4. /\ Range(r) = Range(o) \ gone
      /\ \A j, k \in 1 .. Len(r) : j < k =>
           \E m, n \in DOMAIN o : m < n /\ o[m] = r[j] /\ o[n] = r[k]
  BY <1>1, WithoutIs
<1>5. ASSUME NEW j \in 1 .. Len(r) - 1, NEW k \in 1 .. Len(r) - 1, j < k
      PROVE  \E m, n \in DOMAIN o : m < n /\ o[m] = s[j] /\ o[n] = s[k]
  <2> DEFINE up(x) == IF x < i THEN x ELSE x + 1
  <2>1. up(j) \in 1 .. Len(r) /\ up(k) \in 1 .. Len(r) /\ up(j) < up(k)
    BY <1>1, <1>5
  <2>2. s[j] = r[up(j)] /\ s[k] = r[up(k)]
    BY <1>2
  <2> QED BY <1>4, <2>1, <2>2
<1>6. DOMAIN s = 1 .. Len(r) - 1
  BY <1>2
<1>7. Range(s) = Range(o) \ (gone \cup {r[i]})
  BY <1>3, <1>4
<1> QED BY <1>5, <1>6, <1>7, WithoutIs DEF s

\* One entry more.
LEMMA WithoutInserted ==
    ASSUME NEW o \in Orders, NEW r \in Orders, NEW gone, Review!Without(r, gone, o),
           NEW e \in Entry, e \notin Range(r), NEW i \in 1 .. Len(r) + 1
    PROVE  Review!Without(InsertAt(r, i, e), gone \cup {e}, o)
<1> DEFINE s == InsertAt(r, i, e)
<1>1. r \in Seq(Entry) /\ Len(r) \in Nat /\ DOMAIN r = 1 .. Len(r)
  BY OrderParts
<1>2. /\ s \in Seq(Entry) /\ Len(s) = Len(r) + 1
      /\ \A k \in 1 .. Len(r) + 1 : s[k] = IF k < i THEN r[k] ELSE IF k = i THEN e ELSE r[k - 1]
  <2>1. /\ InsertAt(r, i, e) \in Seq(Entry) /\ Len(InsertAt(r, i, e)) = Len(r) + 1
        /\ \A k \in 1 .. Len(r) + 1 :
             InsertAt(r, i, e)[k] = IF k < i THEN r[k] ELSE IF k = i THEN e ELSE r[k - 1]
    BY <1>1, InsertAtIs
  <2> QED BY <2>1
<1>3. Range(s) = Range(r) \cup {e}
  BY InsertedOrder
<1> HIDE DEF s
<1>4. /\ Range(o) = Range(r) \ gone
      /\ \A j, k \in DOMAIN o : j < k =>
           \E m, n \in 1 .. Len(r) : m < n /\ r[m] = o[j] /\ r[n] = o[k]
  BY <1>1, WithoutIs
<1>6. DOMAIN s = 1 .. Len(r) + 1
  BY <1>2
<1>5. ASSUME NEW j \in DOMAIN o, NEW k \in DOMAIN o, j < k
      PROVE  \E m, n \in DOMAIN s : m < n /\ s[m] = o[j] /\ s[n] = o[k]
  <2> DEFINE up(x) == IF x < i THEN x ELSE x + 1
  <2>1. PICK m \in 1 .. Len(r), n \in 1 .. Len(r) : m < n /\ r[m] = o[j] /\ r[n] = o[k]
    BY <1>4, <1>5
  <2>2. up(m) \in 1 .. Len(r) + 1 /\ up(n) \in 1 .. Len(r) + 1 /\ up(m) < up(n)
    BY <1>1, <2>1
  <2>3. ASSUME NEW x \in 1 .. Len(r) PROVE s[up(x)] = r[x]
    <3>1. up(x) \in 1 .. Len(r) + 1
      BY <1>1
    <3>2. CASE x < i
      BY <1>2, <3>1, <3>2
    <3>3. CASE ~(x < i)
      <4>1. ~(x + 1 < i) /\ x + 1 # i /\ x + 1 - 1 = x /\ x + 1 \in 1 .. Len(r) + 1
        BY <1>1, <3>3
      <4>2. s[x + 1] = r[x]
        BY <1>2, <4>1
      <4> QED BY <3>3, <4>2
    <3> QED BY <3>2, <3>3
  <2> QED BY <1>6, <2>1, <2>2, <2>3
<1>7. Range(o) = Range(s) \ (gone \cup {e})
  BY <1>3, <1>4
<1> QED BY <1>5, <1>7, WithoutIs DEF s

\* What is left of a section is in the order it was in: two that have agreed so
\* far agree on.
LEMMA WithoutAgrees ==
    ASSUME NEW o \in Orders, NEW r \in Orders, NEW t \in Orders, NEW gone,
           Review!Without(o, gone, r), Review!Without(o, gone, t),
           NEW m \in 1 .. Len(r),
           \A k \in 1 .. m - 1 : k \in 1 .. Len(t) /\ r[k] = t[k]
    PROVE  m \in 1 .. Len(t) /\ r[m] = t[m]
<1> SUFFICES ASSUME ~(m \in 1 .. Len(t) /\ r[m] = t[m]) PROVE FALSE
  OBVIOUS
<1>1. /\ DOMAIN o = 1 .. Len(o) /\ Len(o) \in Nat
      /\ \A j, k \in 1 .. Len(o) : o[j] = o[k] => j = k
  BY OrderParts
<1>2. /\ DOMAIN r = 1 .. Len(r) /\ Len(r) \in Nat
      /\ \A j, k \in 1 .. Len(r) : r[j] = r[k] => j = k
      /\ \A e : e \in Range(r) <=> \E j \in 1 .. Len(r) : r[j] = e
  BY OrderParts
<1>3. /\ DOMAIN t = 1 .. Len(t) /\ Len(t) \in Nat
      /\ \A j, k \in 1 .. Len(t) : t[j] = t[k] => j = k
      /\ \A e : e \in Range(t) <=> \E j \in 1 .. Len(t) : t[j] = e
  BY OrderParts
<1>4. Range(r) = Range(t)
  BY WithoutIs
<1>5. PICK n \in 1 .. Len(t) : t[n] = r[m]
  <2>1. r[m] \in Range(r)
    BY <1>2
  <2> QED BY <1>3, <1>4, <2>1
<1>6. n > m
  <2>1. n # m
    BY <1>5
  <2>2. ~(n < m)
    <3> SUFFICES ASSUME n < m PROVE FALSE
      OBVIOUS
    <3>1. n \in 1 .. m - 1 /\ n \in 1 .. Len(r)
      BY <1>2, <1>3
    <3>2. r[n] = r[m]
      BY <1>5, <3>1
    <3> QED BY <1>2, <3>1, <3>2
  <2> QED BY <1>3, <2>1, <2>2
<1>7. m \in 1 .. Len(t) /\ t[m] # r[m]
  BY <1>2, <1>3, <1>6
<1>8. PICK l \in 1 .. Len(r) : r[l] = t[m]
  <2>1. t[m] \in Range(t)
    BY <1>3, <1>7
  <2> QED BY <1>2, <1>4, <2>1
<1>9. l > m
  <2>1. l # m
    BY <1>7, <1>8
  <2>2. ~(l < m)
    <3> SUFFICES ASSUME l < m PROVE FALSE
      OBVIOUS
    <3>1. l \in 1 .. m - 1 /\ l \in 1 .. Len(t)
      BY <1>2, <1>3
    <3>2. t[l] = t[m]
      BY <1>8, <3>1
    <3> QED BY <1>3, <1>7, <3>1, <3>2
  <2> QED BY <1>2, <2>1, <2>2
<1>10. PICK a \in 1 .. Len(o), b \in 1 .. Len(o) : a < b /\ o[a] = r[m] /\ o[b] = r[l]
  <2>1. \A j, k \in DOMAIN r : j < k => \E x, y \in DOMAIN o : x < y /\ o[x] = r[j] /\ o[y] = r[k]
    BY WithoutIs
  <2> QED BY <1>1, <1>2, <1>9, <2>1
<1>11. PICK c \in 1 .. Len(o), d \in 1 .. Len(o) : c < d /\ o[c] = t[m] /\ o[d] = t[n]
  <2>1. \A j, k \in DOMAIN t : j < k => \E x, y \in DOMAIN o : x < y /\ o[x] = t[j] /\ o[y] = t[k]
    BY WithoutIs
  <2> QED BY <1>1, <1>3, <1>6, <1>7, <2>1
<1>12. b = c /\ a = d
  BY <1>1, <1>5, <1>8, <1>10, <1>11
<1> QED BY <1>1, <1>10, <1>11, <1>12

LEMMA WithoutOnce ==
    ASSUME NEW o \in Orders, NEW r \in Orders, NEW t \in Orders, NEW gone,
           Review!Without(o, gone, r), Review!Without(o, gone, t)
    PROVE  r = t
<1>1. /\ r \in Seq(Entry) /\ Len(r) \in Nat /\ t \in Seq(Entry) /\ Len(t) \in Nat
  BY OrderParts
<1> DEFINE Same1(k) == k \in 1 .. Len(r) /\ k \in 1 .. Len(t) /\ r[k] = t[k]
           Bad == {k \in Nat : (k \in 1 .. Len(r) \/ k \in 1 .. Len(t)) /\ ~Same1(k)}
<1>2. Bad = {}
  <2> SUFFICES ASSUME Bad # {} PROVE FALSE
    OBVIOUS
  <2>1. PICK m \in Bad : \A k \in Bad : m <= k
    <3> HIDE DEF Bad
    <3>1. Bad \subseteq Nat
      BY DEF Bad
    <3> QED BY <3>1, HasLeast
  <2>2. m \in Nat /\ (m \in 1 .. Len(r) \/ m \in 1 .. Len(t)) /\ ~Same1(m)
    OBVIOUS
  <2>3. ASSUME NEW k \in 1 .. m - 1 PROVE Same1(k)
    <3>1. k \in Nat /\ k < m /\ (k \in 1 .. Len(r) \/ k \in 1 .. Len(t))
      BY <1>1, <2>2
    <3>2. k \notin Bad
      <4> HIDE DEF Bad
      <4> QED BY <2>1, <2>2, <3>1
    <3> QED BY <3>1, <3>2
  <2> HIDE DEF Bad
  <2>4. CASE m \in 1 .. Len(r)
    <3>1. \A k \in 1 .. m - 1 : k \in 1 .. Len(t) /\ r[k] = t[k]
      BY <2>3
    <3>2. m \in 1 .. Len(t) /\ r[m] = t[m]
      BY <2>4, <3>1, WithoutAgrees
    <3> QED BY <2>2, <2>4, <3>2
  <2>5. CASE m \in 1 .. Len(t)
    <3>1. \A k \in 1 .. m - 1 : k \in 1 .. Len(r) /\ t[k] = r[k]
      BY <2>3
    <3>2. m \in 1 .. Len(r) /\ t[m] = r[m]
      BY <2>5, <3>1, WithoutAgrees
    <3> QED BY <2>2, <2>5, <3>2
  <2> QED BY <2>2, <2>4, <2>5
<1>3. \A k \in 1 .. Len(r) : k \in 1 .. Len(t) /\ r[k] = t[k]
  BY <1>1, <1>2
<1>4. \A k \in 1 .. Len(t) : k \in 1 .. Len(r)
  BY <1>1, <1>2
<1> HIDE DEF Bad
<1>5. Len(r) = Len(t)
  <2>1. Len(r) # 0 => Len(r) \in 1 .. Len(r)
    BY <1>1
  <2>2. Len(t) # 0 => Len(t) \in 1 .. Len(t)
    BY <1>1
  <2>3. Len(r) <= Len(t)
    BY <1>1, <1>3, <2>1
  <2>4. Len(t) <= Len(r)
    BY <1>1, <1>4, <2>2
  <2> QED BY <1>1, <2>3, <2>4
<1> QED BY <1>1, <1>3, <1>5, SeqEqual

-----------------------------------------------------------------------------
(* One item, applied and taken back.                                       *)

\* What holds at the first of some steps and is handed on holds at the last.
LEMMA Reaches ==
    ASSUME NEW n \in Nat, NEW S, 1 \in S, \A k \in 1 .. n : k \in S => k + 1 \in S
    PROVE  \A k \in 1 .. n + 1 : k \in S
<1> DEFINE Bad == {k \in 1 .. n + 1 : k \notin S}
<1>1. SUFFICES ASSUME Bad # {} PROVE FALSE
  OBVIOUS
<1>2. Bad \subseteq Nat /\ \A k \in Bad : k \in 1 .. n + 1 /\ k \notin S
  OBVIOUS
<1>3. \A k \in 1 .. n + 1 : k \notin S => k \in Bad
  OBVIOUS
<1> HIDE DEF Bad
<1>4. PICK m \in Bad : \A k \in Bad : m <= k
  BY <1>1, <1>2, HasLeast
<1>5. m \in 1 .. n + 1 /\ m \notin S /\ m # 1
  BY <1>2, <1>4
<1>6. m - 1 \in 1 .. n /\ m - 1 \in 1 .. n + 1 /\ m - 1 + 1 = m
  BY <1>5
<1>7. m - 1 \notin S
  BY <1>5, <1>6
<1>8. m <= m - 1
  BY <1>3, <1>4, <1>6, <1>7
<1> QED BY <1>5, <1>8

\* Items, by their kinds.
LEMMA ItemIs ==
    ASSUME NEW item \in Item
    PROVE  /\ item.kind \in {"body", "delete", "text", "commit"}
           /\ item.kind = "body" => item.entry \in Entry /\ item.value \in Value
           /\ item.kind = "delete" => item.entry \in Entry /\ item.value = None
           /\ item.kind = "text" => item.entry = None /\ item.value \in Value
           /\ item.kind = "commit" => item.entry = None /\ item.value = None
           /\ item.entry # None <=> item.kind \in {"body", "delete"}
           /\ item.entry # None => item.entry \in Entry
BY ItemsAssumption DEF Item

\* What is no value is no entry and no place of one either.
LEMMA NoneIs == None \notin Entry /\ None \notin Value
BY ItemsAssumption

\* What an item does, and what it leaves alone.
LEMMA AppliedIs ==
    ASSUME NEW d \in Doc, NEW item \in Item
    PROVE  /\ Applied(d, item) \in Doc
           /\ \A e \in Entry : e # item.entry => Applied(d, item).body[e] = d.body[e]
           /\ item.kind # "delete" => Applied(d, item).order = d.order
           /\ item.kind = "delete" /\ Present(d, item.entry) =>
                Applied(d, item).order = RemoveAt(d.order, IndexOf(d, item.entry))
           /\ item.kind = "delete" => ~Present(Applied(d, item), item.entry)
           /\ item.entry # None /\ Present(d, item.entry) =>
                Applied(d, item).body[item.entry] = item.value
           /\ item.kind = "text" => Applied(d, item).text = item.value
           /\ item.kind # "text" => Applied(d, item).text = d.text
<1> DEFINE x == Applied(d, item)
<1>1. /\ d.order \in Orders /\ d.body \in Bodies /\ d.text \in Value
      /\ d = [order |-> d.order, body |-> d.body, text |-> d.text]
      /\ \A e \in Entry : d.body[e] # None <=> e \in Range(d.order)
  BY DocParts DEF Present
<1>2. /\ item.kind = "body" => item.entry \in Entry /\ item.value \in Value /\ item.value # None
      /\ item.kind = "delete" => item.entry \in Entry /\ item.value = None
      /\ item.kind = "text" => item.entry = None /\ item.value \in Value
      /\ item.kind = "commit" => item.entry = None
  BY ItemIs, NoneIs
<1>3. CASE item.kind = "commit"
  BY <1>1, <1>2, <1>3 DEF Applied
<1>4. CASE item.kind = "text"
  <2>1. x = [order |-> d.order, body |-> d.body, text |-> item.value]
    BY <1>1, <1>4 DEF Applied
  <2>2. x \in Doc
    BY <1>1, <1>2, <1>4, <2>1, DocOfParts
  <2> QED BY <1>2, <1>4, <2>1, <2>2
<1>5. CASE item.kind \in {"body", "delete"} /\ ~Present(d, item.entry)
  <2>1. x = d
    BY <1>5 DEF Applied
  <2> QED BY <1>5, <2>1
<1>6. CASE item.kind = "body" /\ Present(d, item.entry)
  <2> DEFINE body == [d.body EXCEPT ![item.entry] = item.value]
  <2>1. x = [order |-> d.order, body |-> body, text |-> d.text]
    BY <1>1, <1>6 DEF Applied
  <2>2. body \in Bodies /\ body[item.entry] = item.value /\ \A e \in Entry : e # item.entry => body[e] = d.body[e]
    BY <1>1, <1>2, <1>6 DEF Bodies
  <2>3. \A e \in Entry : body[e] # None <=> e \in Range(d.order)
    BY <1>1, <1>2, <1>6, <2>2 DEF Present
  <2> HIDE DEF body
  <2>4. x \in Doc
    BY <1>1, <2>1, <2>2, <2>3, DocOfParts
  <2> QED BY <1>6, <2>1, <2>2, <2>4
<1>7. CASE item.kind = "delete" /\ Present(d, item.entry)
  <2> DEFINE body == [d.body EXCEPT ![item.entry] = None]
             i == IndexOf(d, item.entry)
             order == RemoveAt(d.order, i)
  <2>1. x = [order |-> order, body |-> body, text |-> d.text]
    BY <1>1, <1>7 DEF Applied
  <2>2. body \in Bodies /\ body[item.entry] = None /\ \A e \in Entry : e # item.entry => body[e] = d.body[e]
    BY <1>1, <1>2, <1>7 DEF Bodies
  <2>3. i \in 1 .. Len(d.order) /\ d.order[i] = item.entry
    BY <1>7, IndexIs
  <2>4. order \in Orders /\ Range(order) = Range(d.order) \ {item.entry}
    BY <1>1, <2>3, RemovedOrder
  <2> HIDE DEF body, i, order
  <2>5. \A e \in Entry : body[e] # None <=> e \in Range(order)
    BY <1>1, <2>2, <2>4
  <2>6. x \in Doc
    BY <1>1, <2>1, <2>2, <2>4, <2>5, DocOfParts
  <2>7. ~Present(x, item.entry)
    BY <2>1, <2>4 DEF Present
  <2> QED BY <1>2, <1>7, <2>1, <2>2, <2>6, <2>7 DEF order, i
<1> QED BY <1>3, <1>4, <1>5, <1>6, <1>7, ItemIs

\* The value an item finds, when it is one.
Found(item, before) ==
    /\ item.kind = "body" => before \in Value
    /\ item.kind = "delete" => \E i \in Nat \ {0}, v \in Value : before = <<i, v>>
    /\ item.kind = "text" => before \in Value

LEMMA TargetFound ==
    ASSUME NEW d \in Doc, NEW item \in Item, item.entry # None => Present(d, item.entry)
    PROVE  Found(item, Target(d, item)) /\ (item.entry # None => Target(d, item) # None)
<1>1. /\ d.order \in Orders /\ d.body \in Bodies /\ d.text \in Value
      /\ \A e \in Entry : d.body[e] # None <=> Present(d, e)
  BY DocParts
<1>2. item.kind \in {"body", "delete"} => d.body[item.entry] \in Value
  BY <1>1, ItemIs DEF Bodies
<1>3. CASE item.kind = "delete"
  <2> DEFINE i == IndexOf(d, item.entry)
  <2>0. item.entry \in Entry /\ Present(d, item.entry)
    BY <1>3, ItemIs
  <2>1. Target(d, item) = <<i, d.body[item.entry]>>
    BY <1>3, <2>0 DEF Target
  <2>2. i \in 1 .. Len(d.order) /\ Len(d.order) \in Nat /\ d.order \in Seq(Entry)
    BY <1>1, <2>0, IndexIs, OrderParts
  <2>3. i \in Nat \ {0}
    BY <2>2
  <2>4. i \in 1 .. Cardinality(Entry)
    <3>1. d.order \in SeqOf(Entry, Cardinality(Entry))
      BY <1>1, OrdersAre
    <3>2. PICK n \in 0 .. Cardinality(Entry) : d.order \in [1 .. n -> Entry]
      BY <3>1 DEF SeqOf
    <3>3. DOMAIN d.order = 1 .. n /\ DOMAIN d.order = 1 .. Len(d.order)
      BY <2>2, <3>2
    <3>4. i \in 1 .. n
      BY <2>2, <3>3
    <3>5. Cardinality(Entry) \in Nat
      BY ItemsAssumption, FS_CardinalityType
    <3> QED BY <3>4, <3>5
  <2> HIDE DEF i
  <2>5. Target(d, item) # None
    BY <1>2, <1>3, <2>1, <2>4, ItemsAssumption
  <2> QED BY <1>2, <1>3, <2>1, <2>3, <2>5 DEF Found
<1>4. CASE item.kind = "body"
  BY <1>1, <1>2, <1>4, ItemIs, NoneIs DEF Found, Target
<1>5. CASE item.kind = "text"
  BY <1>1, <1>5, ItemIs DEF Found, Target
<1>6. CASE item.kind = "commit"
  BY <1>6, ItemIs DEF Found
<1> QED BY <1>3, <1>4, <1>5, <1>6, ItemIs

\* An item taken back where it has just been applied.
LEMMA InvertApplied ==
    ASSUME NEW d \in Doc, NEW item \in Item, item.entry # None => Present(d, item.entry)
    PROVE  /\ Inverted(Applied(d, item), item, Target(d, item)) = d
           /\ Invertible(Applied(d, item), item, Target(d, item))
<1>1. /\ d.order \in Orders /\ d.body \in Bodies /\ d.text \in Value
      /\ d = [order |-> d.order, body |-> d.body, text |-> d.text]
  BY DocParts
<1>2. CASE item.kind = "commit"
  BY <1>2 DEF Applied, Inverted, Invertible
<1>3. CASE item.kind = "text"
  <2>1. Applied(d, item) = [order |-> d.order, body |-> d.body, text |-> item.value]
    BY <1>1, <1>3 DEF Applied
  <2>2. Target(d, item) = d.text
    BY <1>3 DEF Target
  <2> QED BY <1>1, <1>3, <2>1, <2>2 DEF Inverted, Invertible
<1>4. CASE item.kind = "body"
  <2> DEFINE body == [d.body EXCEPT ![item.entry] = item.value]
  <2>1. Applied(d, item) = [order |-> d.order, body |-> body, text |-> d.text]
    BY <1>1, <1>4, ItemIs DEF Applied
  <2>2. Target(d, item) = d.body[item.entry]
    BY <1>4 DEF Target
  <2>3. [body EXCEPT ![item.entry] = d.body[item.entry]] = d.body
    BY <1>1, <1>4, ItemIs DEF Bodies
  <2> HIDE DEF body
  <2>4. Inverted(Applied(d, item), item, Target(d, item)) =
          [order |-> d.order, body |-> [body EXCEPT ![item.entry] = d.body[item.entry]], text |-> d.text]
    BY <1>4, <2>1, <2>2 DEF Inverted
  <2> QED BY <1>1, <1>4, <2>3, <2>4 DEF Invertible
<1>5. CASE item.kind = "delete"
  <2> DEFINE body == [d.body EXCEPT ![item.entry] = None]
             i == IndexOf(d, item.entry)
             order == RemoveAt(d.order, i)
  <2>0. item.entry \in Entry /\ Present(d, item.entry)
    BY <1>5, ItemIs
  <2>1. Applied(d, item) = [order |-> order, body |-> body, text |-> d.text]
    BY <1>1, <1>5, <2>0 DEF Applied
  <2>2. Target(d, item) = <<i, d.body[item.entry]>>
    BY <1>5, <2>0 DEF Target
  <2>3. [body EXCEPT ![item.entry] = d.body[item.entry]] = d.body
    BY <1>1, <2>0 DEF Bodies
  <2>4. i \in 1 .. Len(d.order) /\ d.order[i] = item.entry
    BY <2>0, IndexIs
  <2>5. InsertAt(order, i, item.entry) = d.order /\ i \in 1 .. Len(order) + 1
    BY <1>1, <2>4, RemoveInsert
  <2>6. i <= Len(order) + 1
    BY <2>5
  <2> HIDE DEF body, i, order
  <2>7. Inverted(Applied(d, item), item, Target(d, item)) =
          [order |-> InsertAt(order, i, item.entry),
           body |-> [body EXCEPT ![item.entry] = d.body[item.entry]], text |-> d.text]
    <3> DEFINE x == Applied(d, item)
               before == Target(d, item)
    <3>1. before[1] = i /\ before[2] = d.body[item.entry]
      BY <2>2
    <3>2. x.order = order /\ x.body = body /\ x.text = d.text /\ DOMAIN x = {"order", "body", "text"}
      BY <2>1
    <3> HIDE DEF before
    <3>3. Inverted(x, item, before) = [x EXCEPT !.order = InsertAt(@, before[1], item.entry),
                                                !.body[item.entry] = before[2]]
      BY <1>5 DEF Inverted
    <3>4. x = [order |-> order, body |-> body, text |-> d.text]
      BY <2>1
    <3> HIDE DEF x
    <3> DEFINE v == d.body[item.entry]
               text == d.text
    <3>5. x = [order |-> order, body |-> body, text |-> text] /\ before[1] = i /\ before[2] = v
      BY <3>1, <3>4
    <3> HIDE DEF v, text
    <3>6. Inverted(x, item, before) =
            [order |-> InsertAt(order, i, item.entry), body |-> [body EXCEPT ![item.entry] = v], text |-> text]
      BY <3>3, <3>5
    <3> QED BY <3>6 DEF x, before, v, text
  <2>8. Invertible(Applied(d, item), item, Target(d, item))
    BY <2>1, <2>2, <2>6 DEF Invertible
  <2> QED BY <1>1, <2>3, <2>5, <2>7, <2>8
<1> QED BY <1>2, <1>3, <1>4, <1>5, ItemIs

\* Where an item can be taken back, what that does and what it leaves alone.
Revertible1(d, item, before) ==
    /\ Found(item, before) /\ Invertible(d, item, before)
    /\ item.kind = "body" => Present(d, item.entry)
    /\ item.kind = "delete" => ~Present(d, item.entry)

LEMMA InvertedIs ==
    ASSUME NEW d \in Doc, NEW item \in Item, NEW before, Revertible1(d, item, before)
    PROVE  /\ Inverted(d, item, before) \in Doc
           /\ \A e \in Entry : e # item.entry => Inverted(d, item, before).body[e] = d.body[e]
           /\ item.kind # "delete" => Inverted(d, item, before).order = d.order
           /\ item.kind = "delete" =>
                /\ before[1] \in 1 .. Len(d.order) + 1
                /\ Inverted(d, item, before).order = InsertAt(d.order, before[1], item.entry)
                /\ Inverted(d, item, before).body[item.entry] = before[2]
           /\ item.kind = "body" => Inverted(d, item, before).body[item.entry] = before
           /\ item.kind = "text" => Inverted(d, item, before).text = before
           /\ item.kind # "text" => Inverted(d, item, before).text = d.text
<1> DEFINE x == Inverted(d, item, before)
<1>1. /\ d.order \in Orders /\ d.body \in Bodies /\ d.text \in Value
      /\ d = [order |-> d.order, body |-> d.body, text |-> d.text]
      /\ \A e \in Entry : d.body[e] # None <=> e \in Range(d.order)
  BY DocParts DEF Present
<1>2. CASE item.kind = "commit"
  <2>1. x = d
    BY <1>2 DEF Inverted
  <2> QED BY <1>2, <2>1, ItemIs
<1>3. CASE item.kind = "text"
  <2>1. before \in Value
    BY <1>3 DEF Revertible1, Found
  <2>2. x = [order |-> d.order, body |-> d.body, text |-> before]
    BY <1>1, <1>3 DEF Inverted
  <2>3. x \in Doc
    BY <1>1, <2>1, <2>2, DocOfParts
  <2> QED BY <1>3, <2>2, <2>3
<1>4. CASE item.kind = "body"
  <2> DEFINE body == [d.body EXCEPT ![item.entry] = before]
  <2>0. before \in Value /\ before # None /\ item.entry \in Entry /\ item.entry \in Range(d.order)
    BY <1>4, ItemIs, NoneIs DEF Revertible1, Found, Present
  <2>1. x = [order |-> d.order, body |-> body, text |-> d.text]
    BY <1>1, <1>4 DEF Inverted
  <2>2. body \in Bodies /\ body[item.entry] = before /\ \A e \in Entry : e # item.entry => body[e] = d.body[e]
    BY <1>1, <2>0 DEF Bodies
  <2>3. \A e \in Entry : body[e] # None <=> e \in Range(d.order)
    BY <1>1, <2>0, <2>2
  <2> HIDE DEF body
  <2>4. x \in Doc
    BY <1>1, <2>1, <2>2, <2>3, DocOfParts
  <2> QED BY <1>4, <2>1, <2>2, <2>4
<1>5. CASE item.kind = "delete"
  <2>1. PICK i \in Nat \ {0}, v \in Value : before = <<i, v>>
    BY <1>5 DEF Revertible1, Found
  <2>2. before[1] = i /\ before[2] = v
    BY <2>1
  <2>3. v # None /\ item.entry \in Entry /\ item.entry \notin Range(d.order)
    BY <1>5, ItemIs, NoneIs DEF Revertible1, Present
  <2>4. i \in 1 .. Len(d.order) + 1
    <3>1. i <= Len(d.order) + 1
      BY <1>5, <2>2 DEF Revertible1, Invertible
    <3>2. Len(d.order) \in Nat
      BY <1>1, OrderParts
    <3> QED BY <3>1, <3>2
  <2> DEFINE body == [d.body EXCEPT ![item.entry] = v]
             order == InsertAt(d.order, i, item.entry)
  <2>5. x = [order |-> order, body |-> body, text |-> d.text]
    BY <1>1, <1>5, <2>2 DEF Inverted
  <2>6. body \in Bodies /\ body[item.entry] = v /\ \A e \in Entry : e # item.entry => body[e] = d.body[e]
    BY <1>1, <2>3 DEF Bodies
  <2>7. order \in Orders /\ Range(order) = Range(d.order) \cup {item.entry}
    BY <1>1, <2>3, <2>4, InsertedOrder
  <2> HIDE DEF body, order
  <2>8. \A e \in Entry : body[e] # None <=> e \in Range(order)
    BY <1>1, <2>3, <2>6, <2>7
  <2>9. x \in Doc
    BY <1>1, <2>5, <2>6, <2>7, <2>8, DocOfParts
  <2> QED BY <1>5, <2>2, <2>4, <2>5, <2>6, <2>9 DEF order
<1> QED BY <1>2, <1>3, <1>4, <1>5, ItemIs

-----------------------------------------------------------------------------
(* What the items of a proposal do together.                               *)

\* Items that can be applied one after the other to a resume.
Apart(d, items) ==
    /\ items \in Seq(Item) /\ Disjoint(items)
    /\ \A k \in DOMAIN items : items[k].entry # None => Present(d, items[k].entry)

Those(items, k) == {items[j] : j \in 1 .. k - 1}

\* An outcome, with one item more.
LEMMA OutcomeStep ==
    ASSUME NEW d \in Doc, NEW x \in Doc, NEW picks \in SUBSET Item, Review!Outcome(d, x, picks),
           NEW item \in Item,
           item.entry # None =>
             Present(d, item.entry) /\ \A other \in picks : other.entry # item.entry,
           item.kind = "text" => \A other \in picks : other.kind # "text"
    PROVE  /\ item.entry # None =>
                Present(x, item.entry) /\ x.body[item.entry] = d.body[item.entry]
           /\ item.kind = "text" => x.text = d.text
           /\ Review!Outcome(d, Applied(x, item), picks \cup {item})
<1> DEFINE y == Applied(x, item)
<1>1. /\ Review!Without(d.order, Review!Deleted(picks), x.order)
      /\ \A e \in Entry : (\A i \in picks : i.entry # e) => x.body[e] = d.body[e]
      /\ \A i \in picks : i.entry # None => x.body[i.entry] = i.value
      /\ \A i \in picks : i.kind = "text" => x.text = i.value
      /\ (\A i \in picks : i.kind # "text") => x.text = d.text
  BY DEF Review!Outcome, Review!Touched, Review!TouchesText
<1>2. item.entry # None => x.body[item.entry] = d.body[item.entry]
  BY <1>1, ItemIs
<1>3. item.entry # None => Present(x, item.entry)
  <2>1. \A e \in Entry : (d.body[e] # None <=> Present(d, e)) /\ (x.body[e] # None <=> Present(x, e))
    BY DocParts
  <2> QED BY <1>2, <2>1, ItemIs
<1>4. item.kind = "text" => x.text = d.text
  BY <1>1
<1>5. /\ y \in Doc
      /\ \A e \in Entry : e # item.entry => y.body[e] = x.body[e]
      /\ item.kind # "delete" => y.order = x.order
      /\ item.kind = "delete" => y.order = RemoveAt(x.order, IndexOf(x, item.entry))
      /\ item.entry # None => y.body[item.entry] = item.value
      /\ item.kind = "text" => y.text = item.value
      /\ item.kind # "text" => y.text = x.text
  BY <1>3, AppliedIs, ItemIs
<1> HIDE DEF y
<1>6. Review!Without(d.order, Review!Deleted(picks \cup {item}), y.order)
  <2>1. CASE item.kind # "delete"
    <3>1. Review!Deleted(picks \cup {item}) = Review!Deleted(picks)
      BY <2>1 DEF Review!Deleted
    <3> QED BY <1>1, <1>5, <2>1, <3>1
  <2>2. CASE item.kind = "delete"
    <3>1. Review!Deleted(picks \cup {item}) = Review!Deleted(picks) \cup {item.entry}
      BY <2>2 DEF Review!Deleted
    <3>2. IndexOf(x, item.entry) \in 1 .. Len(x.order) /\ x.order[IndexOf(x, item.entry)] = item.entry
      BY <1>3, <2>2, IndexIs, ItemIs
    <3>3. d.order \in Orders /\ x.order \in Orders
      BY DocParts
    <3> DEFINE i == IndexOf(x, item.entry)
    <3>4. i \in 1 .. Len(x.order) /\ x.order[i] = item.entry /\ y.order = RemoveAt(x.order, i)
      BY <1>5, <2>2, <3>2
    <3> HIDE DEF i
    <3>5. Review!Without(d.order, Review!Deleted(picks) \cup {x.order[i]}, RemoveAt(x.order, i))
      BY <1>1, <3>3, <3>4, WithoutRemoved
    <3> QED BY <3>1, <3>4, <3>5
  <2> QED BY <2>1, <2>2
<1>7. \A e \in Entry : (\A i \in picks \cup {item} : i.entry # e) => y.body[e] = d.body[e]
  BY <1>1, <1>5
<1>8. ASSUME NEW i \in picks \cup {item}, i.entry # None PROVE y.body[i.entry] = i.value
  <2>1. CASE i = item
    BY <1>5, <1>8, <2>1
  <2>2. CASE i \in picks
    <3>1. i.entry # item.entry /\ i.entry \in Entry
      BY <1>8, <2>2, ItemIs
    <3> QED BY <1>1, <1>5, <1>8, <2>2, <3>1
  <2> QED BY <2>1, <2>2
<1>9. ASSUME NEW i \in picks \cup {item}, i.kind = "text" PROVE y.text = i.value
  BY <1>1, <1>5, <1>9
<1>10. (\A i \in picks \cup {item} : i.kind # "text") => y.text = d.text
  BY <1>1, <1>5
<1>11. Review!Outcome(d, y, picks \cup {item})
  BY <1>6, <1>7, <1>8, <1>9, <1>10 DEF Review!Outcome, Review!Touched, Review!TouchesText
<1> QED BY <1>2, <1>3, <1>4, <1>11 DEF y

\* An outcome is what the items say it is.
LEMMA OutcomeOnce ==
    ASSUME NEW d \in Doc, NEW x \in Doc, NEW y \in Doc, NEW picks \in SUBSET Item,
           Review!Outcome(d, x, picks), Review!Outcome(d, y, picks)
    PROVE  x = y
<1>1. x.order = y.order
  <2>1. d.order \in Orders /\ x.order \in Orders /\ y.order \in Orders
    BY DocParts
  <2> QED BY <2>1, WithoutOnce DEF Review!Outcome
<1>2. ASSUME NEW e \in Entry PROVE x.body[e] = y.body[e]
  <2>1. CASE e \in Review!Touched(picks)
    <3>1. PICK i \in picks : i.entry = e
      BY <2>1 DEF Review!Touched
    <3>2. i.entry # None
      BY <3>1, NoneIs
    <3> QED BY <3>1, <3>2 DEF Review!Outcome
  <2>2. CASE e \notin Review!Touched(picks)
    BY <2>2 DEF Review!Outcome
  <2> QED BY <2>1, <2>2
<1>3. x.text = y.text
  BY DEF Review!Outcome, Review!TouchesText
<1>4. x.body = y.body
  BY <1>2, DocParts DEF Bodies
<1> QED BY <1>1, <1>3, <1>4, DocParts

\* Items that are apart do what each of them does, at every step.
LEMMA OutcomeUpto ==
    ASSUME NEW d \in Doc, NEW items, Apart(d, items)
    PROVE  /\ \A k \in 1 .. Len(items) + 1 :
                Upto(d, items, k) \in Doc /\ Review!Outcome(d, Upto(d, items, k), Those(items, k))
           /\ \A k \in 1 .. Len(items) :
                /\ items[k].entry # None =>
                     /\ Present(Upto(d, items, k), items[k].entry)
                     /\ Upto(d, items, k).body[items[k].entry] = d.body[items[k].entry]
                /\ items[k].kind = "text" => Upto(d, items, k).text = d.text
<1>0. /\ items \in Seq(Item) /\ Len(items) \in Nat /\ DOMAIN items = 1 .. Len(items)
      /\ \A k \in 1 .. Len(items) : items[k] \in Item
  BY DEF Apart
<1>1. /\ Upto(d, items, 1) = d
      /\ \A k \in 1 .. Len(items) : Upto(d, items, k + 1) = Applied(Upto(d, items, k), items[k])
  <2>1. items \in Seq(Item)
    BY <1>0
  <2>2. /\ Upto(d, items, 1) = d
        /\ \A k \in 1 .. Len(items) : Upto(d, items, k + 1) = Applied(Upto(d, items, k), items[k])
        /\ After(d, items) = Upto(d, items, Len(items) + 1)
    BY <2>1, UptoSteps, Zenon
  <2> QED BY <2>2
<1> DEFINE Good(k) == Upto(d, items, k) \in Doc /\ Review!Outcome(d, Upto(d, items, k), Those(items, k))
           S == {k \in 1 .. Len(items) + 1 : Good(k)}
<1>2. Good(1)
  <2>1. Those(items, 1) = {}
    BY DEF Those
  <2>2. Review!Without(d.order, {}, d.order)
    BY DocParts, WithoutNothing
  <2>3. Review!Outcome(d, d, {})
    <3>1. Review!Deleted({}) = {}
      BY DEF Review!Deleted
    <3> QED BY <2>2, <3>1 DEF Review!Outcome
  <2> QED BY <1>1, <2>1, <2>3
<1>3. ASSUME NEW k \in 1 .. Len(items), Good(k)
      PROVE  /\ Good(k + 1)
             /\ items[k].entry # None =>
                  /\ Present(Upto(d, items, k), items[k].entry)
                  /\ Upto(d, items, k).body[items[k].entry] = d.body[items[k].entry]
             /\ items[k].kind = "text" => Upto(d, items, k).text = d.text
  <2> DEFINE x == Upto(d, items, k)
             item == items[k]
             picks == Those(items, k)
  <2>1. k \in 1 .. Len(items) + 1 /\ \A j \in 1 .. k - 1 : j \in 1 .. Len(items) /\ j # k
    BY <1>0
  <2>2. x \in Doc /\ Review!Outcome(d, x, picks) /\ item \in Item /\ picks \in SUBSET Item
    BY <1>0, <1>3, <2>1 DEF Those
  <2>3. Those(items, k + 1) = picks \cup {item}
    <3>1. 1 .. k + 1 - 1 = (1 .. k - 1) \cup {k}
      BY <1>0
    <3> QED BY <3>1 DEF Those
  <2>4. item.entry # None => Present(d, item.entry) /\ \A other \in picks : other.entry # item.entry
    <3>1. \A j \in 1 .. k - 1 : items[j].entry = items[k].entry => items[j].entry = None
      BY <1>0, <2>1 DEF Apart, Disjoint
    <3> QED BY <1>0, <3>1 DEF Apart, Those
  <2>5. item.kind = "text" => \A other \in picks : other.kind # "text"
    <3>1. \A j \in 1 .. k - 1 : items[j].entry = items[k].entry => items[j].kind # items[k].kind
      BY <1>0, <2>1 DEF Apart, Disjoint
    <3>2. \A other \in picks : other.kind = "text" => other.entry = None
      BY <2>2, ItemIs
    <3>3. item.kind = "text" => item.entry = None
      BY <2>2, ItemIs
    <3> QED BY <3>1, <3>2, <3>3 DEF Those
  <2> HIDE DEF x, item, picks
  <2>6. /\ item.entry # None => Present(x, item.entry) /\ x.body[item.entry] = d.body[item.entry]
        /\ item.kind = "text" => x.text = d.text
        /\ Review!Outcome(d, Applied(x, item), picks \cup {item})
    BY <2>2, <2>4, <2>5, OutcomeStep
  <2>7. Applied(x, item) \in Doc
    BY <2>2, AppliedIs
  <2> QED BY <1>1, <2>3, <2>6, <2>7 DEF x, item, picks
<1>4. \A k \in 1 .. Len(items) + 1 : k \in S
  <2>1. 1 \in S
    BY <1>0, <1>2
  <2>2. \A k \in 1 .. Len(items) : k \in S => k + 1 \in S
    BY <1>0, <1>3
  <2> HIDE DEF S
  <2> QED BY <1>0, <2>1, <2>2, Reaches
<1>5. \A k \in 1 .. Len(items) : k \in 1 .. Len(items) + 1
  BY <1>0
<1> QED BY <1>3, <1>4, <1>5

LEMMA OutcomeAfter ==
    ASSUME NEW d \in Doc, NEW items, Apart(d, items)
    PROVE  /\ After(d, items) \in Doc
           /\ Review!Outcome(d, After(d, items), {items[k] : k \in DOMAIN items})
<1>0. items \in Seq(Item) /\ Len(items) \in Nat /\ DOMAIN items = 1 .. Len(items)
  BY DEF Apart
<1>1. After(d, items) = Upto(d, items, Len(items) + 1)
  BY <1>0, UptoSteps
<1>2. Len(items) + 1 \in 1 .. Len(items) + 1 /\ Len(items) + 1 - 1 = Len(items)
  BY <1>0
<1>3. Those(items, Len(items) + 1) = {items[k] : k \in DOMAIN items}
  BY <1>0, <1>2 DEF Those
<1>4. /\ Upto(d, items, Len(items) + 1) \in Doc
      /\ Review!Outcome(d, Upto(d, items, Len(items) + 1), Those(items, Len(items) + 1))
  BY <1>2, OutcomeUpto
<1> QED BY <1>1, <1>3, <1>4

\* What an item leaves.
Left(item) == CASE item.kind = "body" -> item.value
                [] item.kind = "delete" -> None
                [] item.kind = "text" -> item.value
                [] item.kind = "commit" -> "message"

LEMMA OutcomeTarget ==
    ASSUME NEW d \in Doc, NEW x \in Doc, NEW picks \in SUBSET Item, Review!Outcome(d, x, picks),
           NEW item \in picks
    PROVE  Target(x, item) = Left(item)
<1>1. /\ item.entry # None => x.body[item.entry] = item.value
      /\ item.kind = "text" => x.text = item.value
  BY DEF Review!Outcome
<1>2. item.kind = "delete" => ~Present(x, item.entry)
  BY <1>1, DocParts, ItemIs
<1> QED BY <1>1, <1>2, ItemIs DEF Target, Left

\* The values a proposal says its items change, when it is right about them.
LEMMA FitsIs ==
    ASSUME NEW d \in Doc, NEW S, NEW picked \in Seq(S), Apart(d, Items(picked)), Fits(d, picked)
    PROVE  \A k \in 1 .. Len(picked) :
             /\ picked[k].item = Items(picked)[k] /\ picked[k].item \in Item
             /\ picked[k].before = Target(Upto(d, Items(picked), k), picked[k].item)
             /\ picked[k].after = Left(picked[k].item)
             /\ Found(picked[k].item, picked[k].before)
             /\ picked[k].item.kind = "body" => picked[k].before = d.body[picked[k].item.entry]
             /\ picked[k].item.kind = "delete" => picked[k].before[2] = d.body[picked[k].item.entry]
             /\ picked[k].item.kind = "text" => picked[k].before = d.text
<1> DEFINE items == Items(picked)
<1>0. /\ DOMAIN picked = 1 .. Len(picked) /\ Len(picked) \in Nat
      /\ items \in Seq(Item) /\ DOMAIN items = 1 .. Len(picked) /\ Len(items) = Len(picked)
      /\ \A k \in 1 .. Len(picked) : items[k] = picked[k].item
  <2>1. DOMAIN picked = 1 .. Len(picked) /\ Len(picked) \in Nat
    OBVIOUS
  <2>2. items \in Seq(Item) /\ DOMAIN items = DOMAIN picked
    BY DEF Apart, Items
  <2> QED BY <2>1, <2>2 DEF Items
<1> SUFFICES ASSUME NEW k \in 1 .. Len(picked)
             PROVE  /\ picked[k].item = items[k] /\ picked[k].item \in Item
                    /\ picked[k].before = Target(Upto(d, items, k), picked[k].item)
                    /\ picked[k].after = Left(picked[k].item)
                    /\ Found(picked[k].item, picked[k].before)
                    /\ picked[k].item.kind = "body" => picked[k].before = d.body[picked[k].item.entry]
                    /\ picked[k].item.kind = "delete" => picked[k].before[2] = d.body[picked[k].item.entry]
                    /\ picked[k].item.kind = "text" => picked[k].before = d.text
  OBVIOUS
<1> DEFINE item == picked[k].item
           x == Upto(d, items, k)
           y == Upto(d, items, k + 1)
<1>1. item = items[k] /\ item \in Item
  BY <1>0
<1>2. picked[k].before = Target(x, item) /\ picked[k].after = Target(y, item)
  BY <1>0 DEF Fits
<1>3. k \in 1 .. Len(items) + 1 /\ k + 1 \in 1 .. Len(items) + 1 /\ k \in 1 .. Len(items)
  BY <1>0
<1>4. Apart(d, items)
  OBVIOUS
<1> HIDE DEF items
<1>5. /\ x \in Doc /\ y \in Doc /\ Review!Outcome(d, y, Those(items, k + 1))
      /\ item.entry # None => Present(x, item.entry) /\ x.body[item.entry] = d.body[item.entry]
      /\ item.kind = "text" => x.text = d.text
  BY <1>1, <1>3, <1>4, OutcomeUpto
<1>6. Those(items, k + 1) \in SUBSET Item /\ item \in Those(items, k + 1)
  <2>1. \A j \in 1 .. k + 1 - 1 : j \in 1 .. Len(items)
    BY <1>0, <1>3
  <2>2. k \in 1 .. k + 1 - 1
    BY <1>3
  <2> QED BY <1>0, <1>1, <2>1, <2>2 DEF Those
<1> HIDE DEF item, x, y
<1>7. picked[k].after = Left(item)
  BY <1>2, <1>5, <1>6, OutcomeTarget
<1>8. Found(item, picked[k].before)
  BY <1>1, <1>2, <1>5, TargetFound
<1>9. /\ item.kind = "body" => picked[k].before = d.body[item.entry]
      /\ item.kind = "text" => picked[k].before = d.text
  BY <1>1, <1>2, <1>5, ItemIs DEF Target
<1>10. item.kind = "delete" => picked[k].before[2] = d.body[item.entry]
  <2> SUFFICES ASSUME item.kind = "delete" PROVE picked[k].before[2] = d.body[item.entry]
    OBVIOUS
  <2>1. Present(x, item.entry) /\ x.body[item.entry] = d.body[item.entry]
    BY <1>1, <1>5, ItemIs
  <2>2. picked[k].before = <<IndexOf(x, item.entry), x.body[item.entry]>>
    BY <1>2, <2>1 DEF Target
  <2> QED BY <2>1, <2>2
<1> QED BY <1>1, <1>2, <1>7, <1>8, <1>9, <1>10 DEF item, x

\* The items in the order in which they are taken back.
LEMMA BackIs ==
    ASSUME NEW doc, NEW S, NEW picked \in Seq(S)
    PROVE  /\ Reverse(picked) \in Seq(S) /\ Len(Reverse(picked)) = Len(picked) /\ Len(picked) \in Nat
           /\ DOMAIN Reverse(picked) = 1 .. Len(picked) /\ DOMAIN picked = 1 .. Len(picked)
           /\ \A k \in 1 .. Len(picked) :
                Reverse(picked)[k] = picked[Len(picked) + 1 - k] /\ Len(picked) + 1 - k \in 1 .. Len(picked)
           /\ BackTo(doc, Reverse(picked), 1) = doc
           /\ \A k \in 1 .. Len(picked) :
                BackTo(doc, Reverse(picked), k + 1) =
                  Revert(BackTo(doc, Reverse(picked), k), Reverse(picked)[k])
           /\ Reverted(doc, picked) = BackTo(doc, Reverse(picked), Len(picked) + 1)
<1> DEFINE back == Reverse(picked)
<1>0. Len(picked) \in Nat /\ DOMAIN picked = 1 .. Len(picked)
  OBVIOUS
<1>1. \A k \in 1 .. Len(picked) : Len(picked) - k + 1 \in 1 .. Len(picked) /\ Len(picked) - k + 1 = Len(picked) + 1 - k
  BY <1>0
<1>2. back \in [1 .. Len(picked) -> S]
  BY <1>0, <1>1 DEF Reverse
<1>3. back \in Seq(S) /\ Len(back) = Len(picked) /\ DOMAIN back = 1 .. Len(picked)
  BY <1>0, <1>2
<1>4. \A k \in 1 .. Len(picked) : back[k] = picked[Len(picked) + 1 - k]
  BY <1>1 DEF Reverse
<1>5. Reverted(doc, picked) = Back(doc, back)
  BY DEF Reverted, Back
<1> HIDE DEF back
<1>6. /\ BackTo(doc, back, 1) = doc
      /\ \A k \in 1 .. Len(back) : BackTo(doc, back, k + 1) = Revert(BackTo(doc, back, k), back[k])
      /\ Back(doc, back) = BackTo(doc, back, Len(back) + 1)
  BY <1>3, BackSteps
<1> QED BY <1>0, <1>1, <1>3, <1>4, <1>5, <1>6 DEF back

LEMMA RevertibleIs ==
    ASSUME NEW doc, NEW S, NEW picked \in Seq(S)
    PROVE  Revertible(doc, picked) <=>
             /\ \E k \in DOMAIN picked : picked[k].item.kind # "commit"
             /\ \A k \in 1 .. Len(picked) :
                  Invertible(BackTo(doc, Reverse(picked), k), Reverse(picked)[k].item,
                             Reverse(picked)[k].before)
<1>1. DOMAIN Reverse(picked) = 1 .. Len(picked)
  BY BackIs
<1> QED BY <1>1 DEF Revertible, BackTo, Back

\* What has just been confirmed can be undone, and then the resume is as it was.
LEMMA UndoReady ==
    ASSUME NEW d \in Doc, NEW S, NEW picked \in Seq(S), Apart(d, Items(picked)), Fits(d, picked)
    PROVE  /\ StillThere(After(d, Items(picked)), picked)
           /\ (\E k \in DOMAIN picked : picked[k].item.kind # "commit") =>
                Revertible(After(d, Items(picked)), picked)
           /\ Reverted(After(d, Items(picked)), picked) = d
<1> DEFINE items == Items(picked)
           x == After(d, items)
           back == Reverse(picked)
           n == Len(picked)
<1>0. /\ n \in Nat /\ DOMAIN picked = 1 .. n /\ DOMAIN items = 1 .. n
      /\ items \in Seq(Item) /\ Len(items) = n
      /\ \A k \in 1 .. n : items[k] = picked[k].item
  <2>1. n \in Nat /\ DOMAIN picked = 1 .. n
    OBVIOUS
  <2>2. items \in Seq(Item) /\ DOMAIN items = DOMAIN picked
    BY DEF Apart, Items
  <2> QED BY <2>1, <2>2 DEF Items
<1>1. Apart(d, items)
  OBVIOUS
<1>2. \A k \in 1 .. n :
        /\ picked[k].item = items[k] /\ picked[k].item \in Item
        /\ picked[k].before = Target(Upto(d, items, k), picked[k].item)
        /\ picked[k].after = Left(picked[k].item)
  BY FitsIs
<1> HIDE DEF items
<1>3. x \in Doc /\ Review!Outcome(d, x, {items[k] : k \in DOMAIN items})
  BY <1>1, OutcomeAfter
<1>4. StillThere(x, picked)
  <2> SUFFICES ASSUME NEW k \in 1 .. n PROVE Target(x, picked[k].item) = picked[k].after
    BY <1>0 DEF StillThere
  <2>1. {items[j] : j \in DOMAIN items} \in SUBSET Item /\ picked[k].item \in {items[j] : j \in DOMAIN items}
    BY <1>0, <1>2
  <2> HIDE DEF x, n
  <2> QED BY <1>2, <1>3, <2>1, OutcomeTarget
<1>5. /\ Upto(d, items, n + 1) = x
      /\ \A k \in 1 .. n : Upto(d, items, k + 1) = Applied(Upto(d, items, k), items[k])
      /\ Upto(d, items, 1) = d
  BY <1>0, UptoSteps
<1>6. \A k \in 1 .. n :
        /\ Upto(d, items, k) \in Doc
        /\ items[k].entry # None => Present(Upto(d, items, k), items[k].entry)
  <2>1. \A k \in 1 .. n : k \in 1 .. n + 1
    BY <1>0
  <2> QED BY <1>0, <1>1, <2>1, OutcomeUpto
<1>7. /\ back \in Seq(S) /\ Len(back) = n
      /\ \A k \in 1 .. n : back[k] = picked[n + 1 - k] /\ n + 1 - k \in 1 .. n
      /\ BackTo(x, back, 1) = x
      /\ \A k \in 1 .. n : BackTo(x, back, k + 1) = Revert(BackTo(x, back, k), back[k])
      /\ Reverted(x, picked) = BackTo(x, back, n + 1)
  <2> HIDE DEF x
  <2>1. picked \in Seq(S)
    OBVIOUS
  <2>2. /\ Reverse(picked) \in Seq(S) /\ Len(Reverse(picked)) = Len(picked) /\ Len(picked) \in Nat
        /\ DOMAIN Reverse(picked) = 1 .. Len(picked) /\ DOMAIN picked = 1 .. Len(picked)
        /\ \A k \in 1 .. Len(picked) :
             Reverse(picked)[k] = picked[Len(picked) + 1 - k] /\ Len(picked) + 1 - k \in 1 .. Len(picked)
        /\ BackTo(x, Reverse(picked), 1) = x
        /\ \A k \in 1 .. Len(picked) :
             BackTo(x, Reverse(picked), k + 1) =
               Revert(BackTo(x, Reverse(picked), k), Reverse(picked)[k])
        /\ Reverted(x, picked) = BackTo(x, Reverse(picked), Len(picked) + 1)
    BY <2>1, BackIs, Zenon
  <2> QED BY <2>2
<1>8. Revertible(x, picked) <=>
             /\ \E k \in DOMAIN picked : picked[k].item.kind # "commit"
             /\ \A k \in 1 .. n : Invertible(BackTo(x, back, k), back[k].item, back[k].before)
  BY RevertibleIs
<1> HIDE DEF x, back, n
<1> DEFINE Along == {k \in 1 .. n + 1 : BackTo(x, back, k) = Upto(d, items, n + 2 - k)}
<1>9. ASSUME NEW k \in 1 .. n, k \in Along
      PROVE  k + 1 \in Along /\ Invertible(BackTo(x, back, k), back[k].item, back[k].before)
  <2> DEFINE j == n + 1 - k
             y == Upto(d, items, j)
             item == items[j]
  <2>1. j \in 1 .. n /\ n + 2 - k = j + 1 /\ n + 2 - (k + 1) = j /\ k + 1 \in 1 .. n + 1
    BY <1>0
  <2>2. BackTo(x, back, k) = Applied(y, item)
    BY <1>5, <1>9, <2>1
  <2>3. back[k].item = item /\ back[k].before = Target(y, item) /\ item \in Item
    BY <1>2, <1>7, <2>1
  <2>4. y \in Doc /\ (item.entry # None => Present(y, item.entry))
    BY <1>6, <2>1
  <2> HIDE DEF y, item, j
  <2>5. /\ Inverted(Applied(y, item), item, Target(y, item)) = y
        /\ Invertible(Applied(y, item), item, Target(y, item))
    BY <2>3, <2>4, InvertApplied
  <2>6. BackTo(x, back, k + 1) = y
    BY <1>7, <2>2, <2>3, <2>5 DEF Revert
  <2>7. y = Upto(d, items, n + 2 - (k + 1))
    BY <2>1 DEF y
  <2> QED BY <2>1, <2>2, <2>3, <2>5, <2>6, <2>7
<1>10. 1 \in Along
  <2>1. n + 2 - 1 = n + 1 /\ 1 \in 1 .. n + 1
    BY <1>0
  <2> QED BY <1>5, <1>7, <2>1
<1>11. \A k \in 1 .. n + 1 : k \in Along
  <2> HIDE DEF Along
  <2> QED BY <1>0, <1>9, <1>10, Reaches
<1>12. BackTo(x, back, n + 1) = d
  <2>1. n + 1 \in 1 .. n + 1 /\ n + 2 - (n + 1) = 1
    BY <1>0
  <2> QED BY <1>5, <1>11, <2>1
<1>13. \A k \in 1 .. n : Invertible(BackTo(x, back, k), back[k].item, back[k].before)
  <2>1. \A k \in 1 .. n : k \in 1 .. n + 1
    BY <1>0
  <2> HIDE DEF Along
  <2> QED BY <1>9, <1>11, <2>1
<1> QED BY <1>4, <1>7, <1>8, <1>12, <1>13 DEF x, items

\* b is old with what the picks touched as it was in d.
Partly(old, b, d, picks) ==
    /\ b \in Doc
    /\ Review!Without(b.order, Review!Deleted(picks), old.order)
    /\ \A e \in Entry : b.body[e] = IF e \in Review!Touched(picks) THEN d.body[e] ELSE old.body[e]
    /\ b.text = IF Review!TouchesText(picks) THEN d.text ELSE old.text

\* One item more is taken back.
LEMMA PartlyStep ==
    ASSUME NEW old \in Doc, NEW d \in Doc, NEW b, NEW picks \in SUBSET Item, Partly(old, b, d, picks),
           NEW item \in Item, NEW before, Found(item, before), Invertible(b, item, before),
           item.entry # None => \A other \in picks : other.entry # item.entry,
           item.kind = "body" => Present(old, item.entry) /\ before = d.body[item.entry],
           item.kind = "delete" => ~Present(old, item.entry) /\ before[2] = d.body[item.entry],
           item.kind = "text" => before = d.text
    PROVE  Partly(old, Inverted(b, item, before), d, picks \cup {item})
<1> DEFINE c == Inverted(b, item, before)
           more == picks \cup {item}
<1>1. /\ b \in Doc
      /\ Review!Without(b.order, Review!Deleted(picks), old.order)
      /\ \A e \in Entry : b.body[e] = IF e \in Review!Touched(picks) THEN d.body[e] ELSE old.body[e]
      /\ b.text = IF Review!TouchesText(picks) THEN d.text ELSE old.text
  BY DEF Partly
<1>2. item.entry # None =>
        /\ item.entry \in Entry /\ item.entry \notin Review!Touched(picks)
        /\ b.body[item.entry] = old.body[item.entry]
  BY <1>1, ItemIs DEF Review!Touched
<1>3. item.entry # None => (Present(b, item.entry) <=> Present(old, item.entry))
  <2>1. \A e \in Entry : (b.body[e] # None <=> Present(b, e)) /\ (old.body[e] # None <=> Present(old, e))
    BY <1>1, DocParts
  <2> QED BY <1>2, <2>1
<1>4. Revertible1(b, item, before)
  BY <1>3, ItemIs DEF Revertible1
<1>5. /\ c \in Doc
      /\ \A e \in Entry : e # item.entry => c.body[e] = b.body[e]
      /\ item.kind # "delete" => c.order = b.order
      /\ item.kind = "delete" =>
           /\ before[1] \in 1 .. Len(b.order) + 1
           /\ c.order = InsertAt(b.order, before[1], item.entry)
      /\ item.entry # None => c.body[item.entry] = d.body[item.entry]
      /\ item.kind = "text" => c.text = d.text
      /\ item.kind # "text" => c.text = b.text
  BY <1>1, <1>4, InvertedIs, ItemIs
<1> HIDE DEF c
<1>6. Review!Without(c.order, Review!Deleted(more), old.order)
  <2>1. CASE item.kind # "delete"
    <3>1. Review!Deleted(more) = Review!Deleted(picks)
      BY <2>1 DEF Review!Deleted
    <3> QED BY <1>1, <1>5, <2>1, <3>1
  <2>2. CASE item.kind = "delete"
    <3> DEFINE i == before[1]
               e == item.entry
    <3>1. Review!Deleted(more) = Review!Deleted(picks) \cup {e}
      BY <2>2 DEF Review!Deleted
    <3>2. e \in Entry /\ e \notin Range(b.order)
      BY <1>3, <2>2, ItemIs DEF Present
    <3>3. b.order \in Orders /\ old.order \in Orders
      BY <1>1, DocParts
    <3>4. i \in 1 .. Len(b.order) + 1 /\ c.order = InsertAt(b.order, i, e)
      BY <1>5, <2>2
    <3> HIDE DEF i, e
    <3>5. Review!Without(InsertAt(b.order, i, e), Review!Deleted(picks) \cup {e}, old.order)
      BY <1>1, <3>2, <3>3, <3>4, WithoutInserted
    <3> QED BY <3>1, <3>4, <3>5
  <2> QED BY <2>1, <2>2
<1>7. ASSUME NEW e \in Entry
      PROVE  c.body[e] = IF e \in Review!Touched(more) THEN d.body[e] ELSE old.body[e]
  <2>1. e \in Review!Touched(more) <=> e \in Review!Touched(picks) \/ e = item.entry
    BY DEF Review!Touched
  <2>2. CASE e = item.entry
    BY <1>5, <2>1, <2>2, NoneIs
  <2>3. CASE e # item.entry
    BY <1>1, <1>5, <2>1, <2>3
  <2> QED BY <2>2, <2>3
<1>8. c.text = IF Review!TouchesText(more) THEN d.text ELSE old.text
  <2>1. Review!TouchesText(more) <=> Review!TouchesText(picks) \/ item.kind = "text"
    BY DEF Review!TouchesText
  <2> QED BY <1>1, <1>5, <2>1
<1> QED BY <1>5, <1>6, <1>7, <1>8 DEF Partly, c

Backed(back, k) == {back[j].item : j \in 1 .. k - 1}

LEMMA BackedAll ==
    ASSUME NEW back, NEW n \in Nat
    PROVE  Backed(back, n + 1) = {back[j].item : j \in 1 .. n}
<1>1. n + 1 - 1 = n
  OBVIOUS
<1> QED BY <1>1 DEF Backed

\* What an undo leaves: what the items touched is as it was in the resume they
\* were made for, the rest as it is.
LEMMA UndoRestores ==
    ASSUME NEW d \in Doc, NEW old \in Doc, NEW S, NEW picked \in Seq(S),
           Apart(d, Items(picked)), Fits(d, picked), StillThere(old, picked), Revertible(old, picked)
    PROVE  /\ Reverted(old, picked) \in Doc
           /\ Review!Restored(old, Reverted(old, picked), d, {picked[k].item : k \in DOMAIN picked})
<1> DEFINE items == Items(picked)
           back == Reverse(picked)
           n == Len(picked)
<1>0. /\ n \in Nat /\ DOMAIN picked = 1 .. n
      /\ \A k \in 1 .. n : picked[k].item \in Item /\ picked[k].item = items[k]
      /\ \A j, k \in 1 .. n : j # k /\ picked[j].item.entry = picked[k].item.entry =>
                                picked[j].item.entry = None
      /\ \A k \in 1 .. n : picked[k].item.entry # None => Present(d, picked[k].item.entry)
      /\ items \in Seq(Item) /\ DOMAIN items = 1 .. n
  <2>1. n \in Nat /\ DOMAIN picked = 1 .. n
    OBVIOUS
  <2>2. DOMAIN items = 1 .. n /\ \A k \in 1 .. n : items[k] = picked[k].item
    BY <2>1 DEF Items
  <2> HIDE DEF items
  <2>3. /\ items \in Seq(Item) /\ Disjoint(items)
        /\ \A k \in DOMAIN items : items[k].entry # None => Present(d, items[k].entry)
    BY DEF Apart, items
  <2>4. \A k \in 1 .. n : items[k] \in Item
    BY <2>2, <2>3
  <2> QED BY <2>1, <2>2, <2>3, <2>4 DEF Disjoint
<1>1. \A k \in 1 .. n :
        /\ picked[k].after = Left(picked[k].item)
        /\ Found(picked[k].item, picked[k].before)
        /\ picked[k].item.kind = "body" => picked[k].before = d.body[picked[k].item.entry]
        /\ picked[k].item.kind = "delete" => picked[k].before[2] = d.body[picked[k].item.entry]
        /\ picked[k].item.kind = "text" => picked[k].before = d.text
  BY FitsIs
<1>2. \A k \in 1 .. n : Target(old, picked[k].item) = Left(picked[k].item)
  BY <1>0, <1>1 DEF StillThere
<1>3. /\ back \in Seq(S) /\ Len(back) = n
      /\ \A k \in 1 .. n : back[k] = picked[n + 1 - k] /\ n + 1 - k \in 1 .. n
      /\ BackTo(old, back, 1) = old
      /\ \A k \in 1 .. n : BackTo(old, back, k + 1) = Revert(BackTo(old, back, k), back[k])
      /\ Reverted(old, picked) = BackTo(old, back, n + 1)
  <2>1. /\ Reverse(picked) \in Seq(S) /\ Len(Reverse(picked)) = Len(picked) /\ Len(picked) \in Nat
        /\ DOMAIN Reverse(picked) = 1 .. Len(picked) /\ DOMAIN picked = 1 .. Len(picked)
        /\ \A k \in 1 .. Len(picked) :
             Reverse(picked)[k] = picked[Len(picked) + 1 - k] /\ Len(picked) + 1 - k \in 1 .. Len(picked)
        /\ BackTo(old, Reverse(picked), 1) = old
        /\ \A k \in 1 .. Len(picked) :
             BackTo(old, Reverse(picked), k + 1) =
               Revert(BackTo(old, Reverse(picked), k), Reverse(picked)[k])
        /\ Reverted(old, picked) = BackTo(old, Reverse(picked), Len(picked) + 1)
    BY BackIs, Zenon
  <2> QED BY <2>1
<1>4. \A k \in 1 .. n : Invertible(BackTo(old, back, k), back[k].item, back[k].before)
  BY RevertibleIs
<1> HIDE DEF back, n, items
<1> DEFINE Good == {k \in 1 .. n + 1 : Partly(old, BackTo(old, back, k), d, Backed(back, k))}
<1>5. 1 \in Good
  <2>1. Backed(back, 1) = {} /\ 1 \in 1 .. n + 1
    BY <1>0 DEF Backed
  <2>2. Partly(old, old, d, {})
    <3>1. Review!Deleted({}) = {} /\ Review!Touched({}) = {} /\ ~Review!TouchesText({})
      BY DEF Review!Deleted, Review!Touched, Review!TouchesText
    <3>2. Review!Without(old.order, {}, old.order)
      BY DocParts, WithoutNothing
    <3> QED BY <3>1, <3>2 DEF Partly
  <2> QED BY <1>3, <2>1, <2>2
<1>6. ASSUME NEW k \in 1 .. n, k \in Good PROVE k + 1 \in Good
  <2> DEFINE m == n + 1 - k
             item == picked[m].item
             before == picked[m].before
             b == BackTo(old, back, k)
             picks == Backed(back, k)
  <2>1. m \in 1 .. n /\ back[k] = picked[m] /\ k + 1 \in 1 .. n + 1
    BY <1>0, <1>3
  <2>2. Partly(old, b, d, picks) /\ Invertible(b, item, before)
    BY <1>4, <1>6, <2>1
  <2>3. \A j \in 1 .. k - 1 : n + 1 - j \in 1 .. n /\ n + 1 - j # m /\ back[j] = picked[n + 1 - j]
    BY <1>0, <1>3
  <2>4. /\ item \in Item /\ picks \in SUBSET Item /\ Found(item, before)
        /\ item.kind = "body" => before = d.body[item.entry]
        /\ item.kind = "delete" => before[2] = d.body[item.entry]
        /\ item.kind = "text" => before = d.text
    BY <1>0, <1>1, <2>1, <2>3 DEF Backed
  <2>5. item.entry # None => \A other \in picks : other.entry # item.entry
    BY <1>0, <2>1, <2>3 DEF Backed
  <2>6. Backed(back, k + 1) = picks \cup {item}
    <3>1. 1 .. k + 1 - 1 = (1 .. k - 1) \cup {k}
      BY <1>0
    <3> QED BY <2>1, <3>1 DEF Backed
  <2>7. BackTo(old, back, k + 1) = Inverted(b, item, before)
    BY <1>3, <2>1 DEF Revert
  <2>8. Target(old, item) = Left(item)
    BY <1>2, <2>1
  <2> HIDE DEF m, item, before, b
  <2>9. item.kind = "body" => Present(old, item.entry)
    <3> SUFFICES ASSUME item.kind = "body" PROVE Present(old, item.entry)
      OBVIOUS
    <3>1. old.body[item.entry] = item.value /\ item.value # None /\ item.entry \in Entry
      BY <2>4, <2>8, ItemIs, NoneIs DEF Target, Left
    <3> QED BY <3>1, DocParts
  <2>10. item.kind = "delete" => ~Present(old, item.entry)
    <3> SUFFICES ASSUME item.kind = "delete", Present(old, item.entry) PROVE FALSE
      OBVIOUS
    <3>1. Target(old, item) # None
      BY <2>4, TargetFound, ItemIs
    <3> QED BY <2>8, <3>1 DEF Left
  <2>11. Partly(old, Inverted(b, item, before), d, picks \cup {item})
    BY <2>2, <2>4, <2>5, <2>9, <2>10, PartlyStep
  <2> QED BY <2>1, <2>6, <2>7, <2>11
<1>7. n + 1 \in Good
  <2> HIDE DEF Good
  <2>1. \A k \in 1 .. n + 1 : k \in Good
    BY <1>0, <1>5, <1>6, Reaches
  <2>2. n + 1 \in 1 .. n + 1
    BY <1>0
  <2> QED BY <2>1, <2>2
<1> DEFINE picks == {picked[k].item : k \in DOMAIN picked}
           new == Reverted(old, picked)
<1>8. Backed(back, n + 1) = picks
  <2>0. Backed(back, n + 1) = {back[j].item : j \in 1 .. n}
    BY <1>0, BackedAll
  <2>1. ASSUME NEW i \in Backed(back, n + 1) PROVE i \in picks
    <3>1. PICK j \in 1 .. n : i = back[j].item
      BY <2>0
    <3> QED BY <1>0, <1>3, <3>1
  <2>2. ASSUME NEW i \in picks PROVE i \in Backed(back, n + 1)
    <3>1. PICK k \in 1 .. n : i = picked[k].item
      BY <1>0
    <3>2. n + 1 - k \in 1 .. n /\ n + 1 - (n + 1 - k) = k /\ n + 1 - 1 = n
      BY <1>0
    <3> DEFINE m == n + 1 - k
    <3>3. m \in 1 .. n /\ back[m] = picked[k]
      BY <1>3, <3>2
    <3> HIDE DEF m
    <3> QED BY <2>0, <3>1, <3>3
  <2> QED BY <2>1, <2>2
<1>9. Partly(old, new, d, picks)
  BY <1>3, <1>7, <1>8
<1>10. Review!Outcome(d, old, picks) => new = d
  <2> SUFFICES ASSUME Review!Outcome(d, old, picks) PROVE new = d
    OBVIOUS
  <2>1. After(d, items) \in Doc /\ Review!Outcome(d, After(d, items), {items[k] : k \in DOMAIN items})
    BY OutcomeAfter DEF items
  <2>2. {items[k] : k \in DOMAIN items} = picks
    BY <1>0
  <2>3. picks \in SUBSET Item
    BY <1>0
  <2> HIDE DEF picks
  <2>4. old = After(d, items)
    BY <2>1, <2>2, <2>3, OutcomeOnce
  <2>5. Reverted(After(d, items), picked) = d
    BY UndoReady DEF items
  <2> QED BY <2>4, <2>5
<1> HIDE DEF picks, new
<1>11. new \in Doc /\ Review!Restored(old, new, d, picks)
  BY <1>9, <1>10 DEF Partly, Review!Restored
<1> QED BY <1>11 DEF picks, new

-----------------------------------------------------------------------------
(* Whatever part of a proposal is chosen.                                  *)

\* The first n numbers.
LEMMA OneTo ==
    ASSUME NEW n \in Nat
    PROVE  IsFiniteSet(1 .. n) /\ Cardinality(1 .. n) = n
<1>1. 1 \in Int /\ n \in Int
  OBVIOUS
<1>2. Cardinality(1 .. n) = IF 1 > n THEN 0 ELSE n - 1 + 1
  BY <1>1, FS_Interval
<1>3. IsFiniteSet(1 .. n)
  BY <1>1, FS_Interval
<1> QED BY <1>2, <1>3

\* Indices can be put in order: the least first.
LEMMA AscendingExists ==
    ASSUME NEW C \in SUBSET Nat, IsFiniteSet(C)
    PROVE  \E f \in [1 .. Cardinality(C) -> C] : Ascending(f)
<1> DEFINE Ordered(D, n) == \E f \in [1 .. n -> D] : Ascending(f)
           Small(D, n) == D \in SUBSET Nat /\ IsFiniteSet(D) /\ Cardinality(D) = n
           Bad == {n \in Nat : \E D : Small(D, n) /\ ~Ordered(D, n)}
<1>1. Cardinality(C) \in Nat
  BY FS_CardinalityType
<1>2. SUFFICES ASSUME Bad # {} PROVE FALSE
  BY <1>1
<1>3. /\ Bad \subseteq Nat /\ \A n \in Bad : \E D : Small(D, n) /\ ~Ordered(D, n)
      /\ \A n \in Nat : n \notin Bad => \A D : Small(D, n) => Ordered(D, n)
  <2> HIDE DEF Small, Ordered
  <2> QED OBVIOUS
<1> HIDE DEF Bad
<1>4. PICK n \in Bad : \A k \in Bad : n <= k
  BY <1>2, <1>3, HasLeast
<1>5. PICK D : Small(D, n) /\ ~Ordered(D, n)
  <2> HIDE DEF Small, Ordered
  <2> QED BY <1>3, <1>4
<1>6. n \in Nat
  BY <1>3, <1>4
<1>7. CASE n = 0
  <2> DEFINE f == [k \in 1 .. 0 |-> k]
  <2>1. 1 .. 0 = {}
    OBVIOUS
  <2>2. f \in [1 .. 0 -> D] /\ DOMAIN f = {}
    BY <2>1
  <2> HIDE DEF f
  <2>3. Ascending(f)
    BY <2>2 DEF Ascending
  <2> QED BY <1>5, <1>7, <2>2, <2>3
<1>8. CASE n # 0
  <2>1. D # {} /\ D \in SUBSET Nat /\ IsFiniteSet(D) /\ Cardinality(D) = n
    BY <1>5, <1>8, FS_EmptySet
  <2>2. PICK x \in D : \A y \in D : x <= y
    BY <2>1, HasLeast
  <2> DEFINE E == D \ {x}
             m == n - 1
  <2>3. m \in Nat /\ m + 1 = n /\ ~(n <= m)
    BY <1>6, <1>8
  <2>4. Small(E, m)
    BY <2>1, <2>2, FS_RemoveElement
  <2>5. m \notin Bad
    BY <1>4, <2>3
  <2>6. Ordered(E, m)
    <3> HIDE DEF Small, Ordered, E, m
    <3> QED BY <1>3, <2>3, <2>4, <2>5
  <2>7. PICK g \in [1 .. m -> E] : Ascending(g)
    BY <2>6
  <2> DEFINE f == [k \in 1 .. n |-> IF k = 1 THEN x ELSE g[k - 1]]
  <2> HIDE DEF m
  <2>8. \A k \in 1 .. n : k # 1 => k - 1 \in 1 .. m /\ g[k - 1] \in D /\ x < g[k - 1]
    <3>1. \A k \in 1 .. n : k # 1 => k - 1 \in 1 .. m
      BY <1>6, <2>3
    <3>2. \A j \in 1 .. m : g[j] \in D /\ g[j] # x
      BY <2>7
    <3>3. \A y \in D : y # x => x < y
      BY <2>1, <2>2
    <3> QED BY <3>1, <3>2, <3>3
  <2>9. f \in [1 .. n -> D] /\ DOMAIN f = 1 .. n
    BY <2>2, <2>8
  <2>10. ASSUME NEW j \in 1 .. n, NEW k \in 1 .. n, j < k PROVE f[j] < f[k]
    <3>1. k # 1 /\ f[k] = g[k - 1] /\ k - 1 \in 1 .. m
      BY <1>6, <2>8, <2>10
    <3>2. CASE j = 1
      BY <2>8, <3>1, <3>2
    <3>3. CASE j # 1
      <4>1. f[j] = g[j - 1] /\ j - 1 \in 1 .. m /\ j - 1 < k - 1
        BY <1>6, <2>8, <2>10, <3>3
      <4>2. DOMAIN g = 1 .. m
        BY <2>7
      <4>3. g[j - 1] < g[k - 1]
        BY <2>7, <3>1, <4>1, <4>2 DEF Ascending
      <4> QED BY <3>1, <4>1, <4>3
    <3> QED BY <3>2, <3>3
  <2> HIDE DEF f
  <2>11. Ascending(f)
    BY <2>9, <2>10 DEF Ascending
  <2> QED BY <1>5, <2>9, <2>11
<1> QED BY <1>7, <1>8

\* picked is what was chosen of staged, each of it once.
TakenFrom(picked, staged, chosen) ==
    \E f \in [DOMAIN picked -> chosen] :
      /\ \A k \in DOMAIN picked : picked[k] = staged[f[k]]
      /\ \A j, k \in DOMAIN picked : f[j] = f[k] => j = k
      /\ \A c \in chosen : \E k \in DOMAIN picked : f[k] = c

LEMMA PickedIs ==
    ASSUME NEW S, NEW staged \in Seq(S), NEW chosen \in SUBSET DOMAIN staged
    PROVE  Picked(staged, chosen) \in Seq(S) /\ TakenFrom(Picked(staged, chosen), staged, chosen)
<1> DEFINE n == Cardinality(chosen)
           f == CHOOSE g \in [1 .. n -> chosen] : Ascending(g)
           picked == [k \in DOMAIN f |-> staged[f[k]]]
<1>1. Len(staged) \in Nat /\ DOMAIN staged = 1 .. Len(staged)
  OBVIOUS
<1>2. IsFiniteSet(chosen) /\ chosen \in SUBSET Nat
  <2>1. chosen \in SUBSET (1 .. Len(staged))
    BY <1>1
  <2>2. chosen \in SUBSET Nat
    BY <2>1
  <2> QED BY <1>1, <2>1, <2>2, OneTo, FS_Subset
<1>3. n \in Nat
  BY <1>2, FS_CardinalityType
<1>4. f \in [1 .. n -> chosen] /\ Ascending(f)
  <2>1. \E g \in [1 .. n -> chosen] : Ascending(g)
    BY <1>2, AscendingExists
  <2> HIDE DEF n
  <2> QED BY <2>1
<1>5. Picked(staged, chosen) = picked
  BY DEF Picked
<1>6. IsFiniteSet(1 .. n) /\ Cardinality(1 .. n) = n
  BY <1>3, OneTo
<1> HIDE DEF f
<1>7. DOMAIN f = 1 .. n /\ \A k \in 1 .. n : f[k] \in chosen /\ f[k] \in Nat
  BY <1>2, <1>4
<1>8. \A j, k \in 1 .. n : f[j] = f[k] => j = k
  <2> SUFFICES ASSUME NEW j \in 1 .. n, NEW k \in 1 .. n, f[j] = f[k] PROVE j = k
    OBVIOUS
  <2>1. \A i, l \in 1 .. n : i < l => f[i] < f[l]
    BY <1>4, <1>7 DEF Ascending
  <2>2. f[j] \in Nat /\ f[k] \in Nat
    BY <1>7
  <2> HIDE DEF n
  <2>3. ~(j < k) /\ ~(k < j)
    BY <2>1, <2>2
  <2> QED BY <1>3, <2>3
<1>9. f \in Injection(1 .. n, chosen)
  BY <1>4, <1>7, <1>8 DEF Injection, IsInjective
<1>10. f \in Surjection(1 .. n, chosen)
  <2>1. Cardinality(1 .. n) = Cardinality(chosen)
    BY <1>6
  <2> HIDE DEF n
  <2> QED BY <1>2, <1>9, <2>1, FS_Injection
<1>11. \A c \in chosen : \E k \in 1 .. n : f[k] = c
  BY <1>7, <1>10 DEF Surjection
<1> HIDE DEF n
<1>12. picked \in [1 .. n -> S] /\ DOMAIN picked = 1 .. n
  <2>1. \A c \in chosen : staged[c] \in S
    BY <1>1
  <2> QED BY <1>7, <2>1
<1>13. picked \in Seq(S)
  BY <1>3, <1>12
<1>14. \A k \in 1 .. n : picked[k] = staged[f[k]]
  BY <1>7
<1> HIDE DEF picked
<1>15. /\ picked \in Seq(S) /\ f \in [DOMAIN picked -> chosen]
       /\ \A k \in DOMAIN picked : picked[k] = staged[f[k]]
       /\ \A j, k \in DOMAIN picked : f[j] = f[k] => j = k
       /\ \A c \in chosen : \E k \in DOMAIN picked : f[k] = c
  BY <1>4, <1>8, <1>11, <1>12, <1>13, <1>14
<1> QED BY <1>5, <1>15 DEF TakenFrom

\* What has been picked of a proposal, and the items it is.
Part(d, picked, picks) ==
    /\ \E S : picked \in Seq(S)
    /\ Apart(d, Items(picked))
    /\ {picked[k].item : k \in DOMAIN picked} = picks
    /\ {Items(picked)[k] : k \in DOMAIN Items(picked)} = picks

\* Whatever part of a proposal is chosen can be applied, item after item.
LEMMA PickedApart ==
    ASSUME NEW d \in Doc, NEW items \in Seq(Item), Stageable(d, items),
           NEW chosen \in SUBSET DOMAIN items
    PROVE  Part(d, Picked(Staged(d, items), chosen), {items[k] : k \in chosen})
<1> DEFINE staged == Staged(d, items)
           picked == Picked(staged, chosen)
           S == {staged[k] : k \in DOMAIN staged}
<1>1. Len(items) \in Nat /\ DOMAIN items = 1 .. Len(items) /\ \A k \in 1 .. Len(items) : items[k] \in Item
  OBVIOUS
<1>2. DOMAIN staged = 1 .. Len(items) /\ \A k \in 1 .. Len(items) : staged[k].item = items[k]
  BY <1>1 DEF Staged
<1>3. staged \in [1 .. Len(items) -> S]
  <2>1. staged = [k \in DOMAIN staged |-> staged[k]]
    BY DEF Staged
  <2> HIDE DEF staged
  <2> QED BY <1>2, <2>1
<1> HIDE DEF staged, S
<1>4. staged \in Seq(S) /\ chosen \in SUBSET DOMAIN staged
  BY <1>1, <1>2, <1>3
<1>5. picked \in Seq(S) /\ TakenFrom(picked, staged, chosen)
  BY <1>4, PickedIs
<1> HIDE DEF picked
<1>6. PICK f \in [DOMAIN picked -> chosen] :
           /\ \A k \in DOMAIN picked : picked[k] = staged[f[k]]
           /\ \A j, k \in DOMAIN picked : f[j] = f[k] => j = k
           /\ \A c \in chosen : \E k \in DOMAIN picked : f[k] = c
  BY <1>5 DEF TakenFrom
<1> DEFINE taken == Items(picked)
<1>7. /\ DOMAIN taken = DOMAIN picked
      /\ \A k \in DOMAIN picked : taken[k] = picked[k].item /\ taken[k] = items[f[k]] /\ f[k] \in DOMAIN items
  BY <1>1, <1>2, <1>6 DEF Items
<1>8. taken \in Seq(Item)
  <2>1. DOMAIN picked = 1 .. Len(picked) /\ Len(picked) \in Nat
    BY <1>5
  <2>2. taken \in [1 .. Len(picked) -> Item]
    BY <1>1, <1>7, <2>1 DEF Items
  <2> QED BY <2>1, <2>2
<1> HIDE DEF taken
<1>9. Disjoint(taken)
  <2> SUFFICES ASSUME NEW j \in DOMAIN taken, NEW k \in DOMAIN taken, j # k, taken[j].entry = taken[k].entry
               PROVE  taken[j].entry = None /\ taken[j].kind # taken[k].kind
    BY DEF Disjoint
  <2>1. f[j] # f[k] /\ f[j] \in DOMAIN items /\ f[k] \in DOMAIN items
    BY <1>6, <1>7
  <2> QED BY <1>7, <2>1 DEF Stageable, Disjoint
<1>10. \A k \in DOMAIN taken : taken[k].entry # None => Present(d, taken[k].entry)
  BY <1>7 DEF Stageable
<1>11. {taken[k] : k \in DOMAIN taken} = {items[k] : k \in chosen}
  BY <1>6, <1>7
<1>12. {picked[k].item : k \in DOMAIN picked} = {taken[k] : k \in DOMAIN taken}
  BY <1>7
<1>13. Apart(d, taken)
  BY <1>8, <1>9, <1>10 DEF Apart
<1> QED BY <1>5, <1>11, <1>12, <1>13 DEF Part, taken, picked, staged

\* A proposal commits at most one version.
LEMMA CommitsAre ==
    ASSUME NEW d, NEW items, Apart(d, items)
    PROVE  /\ Commits(items) = Cardinality({i \in {items[k] : k \in DOMAIN items} : i.kind = "commit"})
           /\ Commits(items) \in Nat
<1> DEFINE K == {k \in DOMAIN items : items[k].kind = "commit"}
           I == {i \in {items[k] : k \in DOMAIN items} : i.kind = "commit"}
<1>1. \A k \in DOMAIN items : items[k] \in Item
  BY DEF Apart
<1>2. \A j, k \in K : j = k
  <2>1. \A k \in K : items[k].entry = None
    BY <1>1, ItemIs
  <2> QED BY <2>1 DEF Apart, Disjoint
<1>3. CASE K = {}
  <2>1. I = {}
    BY <1>3
  <2>2. Commits(items) = 0
    BY <1>3, FS_EmptySet DEF Commits
  <2>3. Cardinality(I) = 0
    BY <2>1, FS_EmptySet
  <2> QED BY <2>2, <2>3
<1>4. ASSUME NEW k \in K
      PROVE  Cardinality(K) = 1 /\ Cardinality(I) = 1
  <2>1. K = {k} /\ I = {items[k]}
    BY <1>2
  <2> HIDE DEF K, I
  <2> QED BY <2>1, FS_Singleton
<1>5. Commits(items) = Cardinality(K)
  BY DEF Commits
<1> HIDE DEF K
<1>6. CASE K # {}
  <2>1. PICK k \in K : TRUE
    BY <1>6
  <2>2. Cardinality(K) = 1 /\ Cardinality(I) = 1
    BY <1>4, <2>1
  <2> QED BY <1>5, <2>2
<1> QED BY <1>3, <1>6

-----------------------------------------------------------------------------
(* The inbox and the review.                                               *)

\* The review's notions are the inbox's.
LEMMA SameDocs == Review!Doc = Doc
<1>1. \A S : Review!Cardinality(S) = Cardinality(S)
  BY DEF Review!Cardinality, Cardinality
<1>2. \A S, n : Review!SeqOf(S, n) = SeqOf(S, n)
  BY DEF Review!SeqOf, SeqOf
<1>3. \A f : Review!IsInjective(f) <=> IsInjective(f)
  BY DEF Review!IsInjective, IsInjective
<1>4. \A f : Review!Range(f) = Range(f)
  BY DEF Review!Range, Range
<1> QED BY <1>1, <1>2, <1>3, <1>4 DEF Review!Doc, Doc

-----------------------------------------------------------------------------
(* What proposals say, and resumes are.                                    *)

DocsOK == docs \in [Place -> Doc] /\ shown \in Doc /\ known.doc \in Doc

\* A record says what the items of a proposal do to the resume it was made for.
RecordsOK ==
    \A p \in Proposal :
      /\ status[p] = "none" => record[p] = None
      /\ status[p] # "none" =>
           /\ record[p].place \in Place /\ record[p].doc \in Doc
           /\ record[p].items \in Seq(Item) /\ Stageable(record[p].doc, record[p].items)
           /\ record[p].staged = Staged(record[p].doc, record[p].items)

\* Items a decision or a call names are the proposal's.
Chosen(x) ==
    status[x.proposal] # "none" /\ x.chosen \subseteq DOMAIN record[x.proposal].items

ChosenOK ==
    /\ deciding # None => Chosen(deciding)
    /\ \A r \in requests : Chosen(r)

\* What has been confirmed was what the proposal said, on the resume it was made for.
AcceptedOK ==
    /\ accepted = [p \in Proposal |-> accepted[p]]
    /\ \A p \in Proposal : status[p] = "confirmed" =>
         /\ accepted[p] \subseteq DOMAIN record[p].items
         /\ Fits(record[p].doc, PicksOf(p, accepted[p]))

ContentInv ==
    /\ IInv /\ HostInv /\ MadeForThis
    /\ DocsOK /\ RecordsOK /\ ChosenOK /\ AcceptedOK

\* What steps do to the resumes and the inbox.
Quiet == UNCHANGED <<docs, status, record, accepted, heads, versions>>

Closes ==
    /\ \A p \in Proposal :
         \/ status'[p] = status[p]
         \/ status[p] = "pending" /\ status'[p] \in {"rejected", "expired"}
    /\ UNCHANGED <<docs, record, accepted, heads, versions>>

Edits ==
    /\ docs' = [docs EXCEPT ![at.place] = shown]
    /\ UNCHANGED <<status, record, accepted, heads, versions>>

LEMMA ContentKinds ==
    ASSUME IInv, [Next]_vars
    PROVE  Quiet \/ Closes \/ Edits \/ Carried \/ \E run \in Run : Propose(run)
<1>0. status \in [Proposal -> Settling] /\ \A r \in requests : r.proposal \in Proposal
  BY DEF IInv, StatusType, About
<1>1. CASE Proceed
  <2>1. CASE Serve
    <3>1. PICK r \in requests, lost \in BOOLEAN :
            \/ Replay(r, lost) \/ Expire(r, lost) \/ Refuse(r, lost)
            \/ Confirm(r, lost) \/ Reject(r, lost) \/ Undo(r, lost)
      BY <2>1 DEF Serve
    <3>2. CASE Replay(r, lost) \/ Refuse(r, lost)
      BY <3>2 DEF Replay, Refuse, host, proposals, Quiet
    <3>3. CASE Expire(r, lost)
      <4>1. status[r.proposal] = "pending" /\ status' = [status EXCEPT ![r.proposal] = "expired"]
        BY <3>3 DEF Expire, Allowed, Becomes
      <4>2. UNCHANGED <<docs, record, accepted, heads, versions>>
        BY <3>3 DEF Expire
      <4> QED BY <1>0, <4>1, <4>2 DEF Closes
    <3>4. CASE Reject(r, lost)
      <4>1. status[r.proposal] = "pending" /\ status' = [status EXCEPT ![r.proposal] = "rejected"]
        BY <3>4 DEF Reject, Taken, Allowed, Becomes
      <4>2. UNCHANGED <<docs, record, accepted, heads, versions>>
        BY <3>4 DEF Reject
      <4> QED BY <1>0, <4>1, <4>2 DEF Closes
    <3>5. CASE Confirm(r, lost) \/ Undo(r, lost)
      BY <3>5 DEF Carried
    <3> QED BY <3>1, <3>2, <3>3, <3>4, <3>5
  <2>2. CASE CallFails
    BY <2>2 DEF CallFails, host, proposals, Quiet
  <2>3. CASE Flushed \/ FlushFails \/ Ask \/ RefreshFails \/ RecoverFails
    BY <2>3 DEF Flushed, FlushFails, Ask, RefreshFails, RecoverFails, host, proposals, Quiet
  <2>4. CASE Reload \/ ReloadFails \/ Restore \/ RestoreFails
    BY <2>4 DEF Reload, ReloadFails, Restore, RestoreFails, host, proposals, Quiet
  <2>5. CASE RefreshAfter \/ Recover
    BY <2>5 DEF RefreshAfter, Recover, ReadInbox, Listed, Closes
  <2> QED BY <1>1, <2>1, <2>2, <2>3, <2>4, <2>5 DEF Proceed
<1>2. CASE Saving
  <2>1. CASE Save
    BY <2>1 DEF Save, Write, proposals, Edits
  <2>2. CASE SaveNothing \/ SaveConflicts
    BY <2>2 DEF SaveNothing, SaveConflicts, host, proposals, Quiet
  <2> QED BY <1>2, <2>1, <2>2 DEF Saving
<1>3. CASE Refresh
  BY <1>3 DEF Refresh, ReadInbox, Listed, Closes
<1>4. CASE PageReload \/ TakeBack
  BY <1>4 DEF PageReload, TakeBack, host, proposals, Quiet
<1>5. CASE \E p \in Proposal : DayEnds(p)
  BY <1>5 DEF DayEnds, Quiet
<1>6. CASE \E item \in Typing : Type(item)
  BY <1>6 DEF Type, host, proposals, Quiet
<1>7. CASE \E l \in Place : SwitchPlace(l)
  BY <1>7 DEF SwitchPlace, proposals, Quiet
<1>8. CASE \E kind \in Decision, p \in Proposal :
             /\ record[p] # None
             /\ \E chosen \in SUBSET DOMAIN record[p].items : Decide(kind, p, chosen)
  BY <1>8 DEF Decide, host, proposals, Quiet
<1>9. CASE UNCHANGED vars
  BY <1>9 DEF vars, host, proposals, Quiet
<1> QED BY <1>1, <1>2, <1>3, <1>4, <1>5, <1>6, <1>7, <1>8, <1>9 DEF Next

\* The screen has a resume of the host or the client, or what the user makes of it.
LEMMA ShownKinds ==
    ASSUME DocsOK, ShapeOK, [Next]_vars
    PROVE  \/ shown' = shown \/ shown' = known.doc \/ \E l \in Place : shown' = docs[l]
           \/ \E item \in Typing : shown' = Applied(shown, item)
<1>0. at.place \in Place
  BY DEF ShapeOK, Cursor
<1>1. CASE Proceed
  <2>1. CASE Serve \/ CallFails
    BY <2>1, CallsAnswer
  <2>2. CASE Flushed \/ FlushFails \/ Ask \/ RefreshFails \/ RecoverFails \/ RefreshAfter \/ Recover
    BY <2>2 DEF Flushed, FlushFails, Ask, RefreshFails, RecoverFails, RefreshAfter, Recover, screen
  <2>3. CASE Reload \/ ReloadFails \/ Restore \/ RestoreFails
    BY <1>0, <2>3 DEF Reload, ReloadFails, Restore, RestoreFails, Loads, screen
  <2> QED BY <1>1, <2>1, <2>2, <2>3 DEF Proceed
<1>2. CASE Saving
  BY <1>2 DEF Saving, SaveNothing, Save, SaveConflicts
<1>3. CASE Refresh \/ TakeBack \/ PageReload
  BY <1>0, <1>3 DEF Refresh, TakeBack, PageReload, screen
<1>4. CASE \E run \in Run : Propose(run)
  BY <1>4 DEF Propose, window, screen
<1>5. CASE \E p \in Proposal : DayEnds(p)
  BY <1>5 DEF DayEnds, window, screen
<1>6. CASE \E item \in Typing : Type(item)
  BY <1>6 DEF Type
<1>7. CASE \E l \in Place : SwitchPlace(l)
  BY <1>7 DEF SwitchPlace
<1>8. CASE \E kind \in Decision, p \in Proposal :
             /\ record[p] # None
             /\ \E chosen \in SUBSET DOMAIN record[p].items : Decide(kind, p, chosen)
  BY <1>8 DEF Decide, screen
<1>9. CASE UNCHANGED vars
  BY <1>9 DEF vars, window, screen
<1> QED BY <1>1, <1>2, <1>3, <1>4, <1>5, <1>6, <1>7, <1>8, <1>9 DEF Next

\* The decision under way keeps the items chosen for it.
LEMMA ChoiceKinds ==
    ASSUME ShapeOK, [Next]_vars
    PROVE  \/ deciding' = None
           \/ /\ deciding # None
              /\ deciding'.proposal = deciding.proposal /\ deciding'.chosen = deciding.chosen
           \/ \E p \in Proposal :
                /\ record[p] # None /\ UNCHANGED <<status, record>>
                /\ deciding'.proposal = p /\ deciding'.chosen \subseteq DOMAIN record[p].items
<1>0. deciding # None =>
        DOMAIN deciding = {"kind", "proposal", "chosen", "step", "place", "request", "result"}
  BY DEF ShapeOK
<1>a. ASSUME NEW r \in requests, NEW ok, NEW result, NEW lost, Answer(r, ok, result, lost)
      PROVE  \/ deciding' = None
             \/ /\ deciding # None
                /\ deciding'.proposal = deciding.proposal /\ deciding'.chosen = deciding.chosen
  BY <1>0, <1>a DEF Answer
<1>b. ASSUME deciding' = deciding
      PROVE  \/ deciding' = None
             \/ /\ deciding # None
                /\ deciding'.proposal = deciding.proposal /\ deciding'.chosen = deciding.chosen
  BY <1>b
<1>1. CASE Proceed
  <2>1. CASE Serve \/ CallFails
    BY <2>1, <1>a, CallsEnd
  <2>3. CASE Flushed \/ FlushFails \/ Reload \/ ReloadFails \/ RefreshFails
    BY <1>0, <2>3 DEF Flushed, FlushFails, Reload, ReloadFails, RefreshFails, In, Step
  <2>4. CASE Ask
    BY <1>0, <2>4 DEF Ask, In
  <2>5. CASE Recover
    BY <1>0, <2>5 DEF Recover, In, Step
  <2>6. CASE RefreshAfter \/ RecoverFails \/ Restore \/ RestoreFails
    BY <2>6 DEF RefreshAfter, RecoverFails, Restore, RestoreFails
  <2> QED BY <1>1, <2>1, <2>3, <2>4, <2>5, <2>6 DEF Proceed
<1>2. CASE Saving
  BY <1>b, <1>2 DEF Saving, SaveNothing, Save, SaveConflicts
<1>3. CASE Refresh \/ TakeBack \/ PageReload
  BY <1>b, <1>3 DEF Refresh, TakeBack, PageReload
<1>4. CASE \E run \in Run : Propose(run)
  BY <1>b, <1>4 DEF Propose, window
<1>5. CASE \E p \in Proposal : DayEnds(p)
  BY <1>b, <1>5 DEF DayEnds, window
<1>6. CASE \E item \in Typing : Type(item)
  BY <1>b, <1>6 DEF Type
<1>7. CASE \E l \in Place : SwitchPlace(l)
  BY <1>b, <1>7 DEF SwitchPlace
<1>8. CASE \E kind \in Decision, p \in Proposal :
             /\ record[p] # None
             /\ \E chosen \in SUBSET DOMAIN record[p].items : Decide(kind, p, chosen)
  <2>1. PICK kind \in Decision, p \in Proposal :
             /\ record[p] # None
             /\ \E chosen \in SUBSET DOMAIN record[p].items : Decide(kind, p, chosen)
    BY <1>8
  <2>2. PICK chosen \in SUBSET DOMAIN record[p].items : Decide(kind, p, chosen)
    BY <2>1
  <2>3. deciding'.proposal = p /\ deciding'.chosen = chosen /\ UNCHANGED <<status, record>>
    BY <2>2 DEF Decide, host, proposals
  <2> QED BY <2>1, <2>3
<1>9. CASE UNCHANGED vars
  BY <1>b, <1>9 DEF vars, window
<1> QED BY <1>1, <1>2, <1>3, <1>4, <1>5, <1>6, <1>7, <1>8, <1>9 DEF Next

\* At first there is nothing in the inbox.
LEMMA InitContent == Init => ContentInv
<1> SUFFICES ASSUME Init PROVE ContentInv
  OBVIOUS
<1>1. IInv /\ HostInv
  BY InitInv, InitHost
<1>2. /\ at.place \in Place /\ at.place = Home
      /\ status = [p \in Proposal |-> "none"] /\ record = [p \in Proposal |-> None]
      /\ accepted = [p \in Proposal |-> {}] /\ requests = {} /\ deciding = None
      /\ known = HostState /\ shown = docs[at.place]
  BY Assumption DEF Init
<1>3. MadeForThis /\ RecordsOK /\ ChosenOK /\ AcceptedOK
  BY <1>2 DEF MadeForThis, RecordsOK, ChosenOK, AcceptedOK
<1>4. docs \in [Place -> Doc]
  <2>1. docs \in [Place -> Beginning] /\ Beginning \subseteq Doc
    BY Assumption DEF Init
  <2> QED BY <2>1
<1>5. DocsOK
  BY <1>2, <1>4 DEF DocsOK, HostState
<1> QED BY <1>1, <1>3, <1>5 DEF ContentInv

\* The items chosen of a proposal, and what it says of them.
LEMMA ChosenPart ==
    ASSUME ContentInv, NEW p \in Proposal, status[p] # "none",
           NEW chosen \in SUBSET DOMAIN record[p].items
    PROVE  /\ record[p].place \in Place /\ record[p].doc \in Doc
           /\ Part(record[p].doc, PicksOf(p, chosen), {record[p].items[k] : k \in chosen})
<1>1. /\ record[p].place \in Place /\ record[p].doc \in Doc
      /\ record[p].items \in Seq(Item) /\ Stageable(record[p].doc, record[p].items)
      /\ record[p].staged = Staged(record[p].doc, record[p].items)
  BY DEF ContentInv, RecordsOK
<1>2. Part(record[p].doc, Picked(Staged(record[p].doc, record[p].items), chosen),
           {record[p].items[k] : k \in chosen})
  BY <1>1, PickedApart
<1> QED BY <1>1, <1>2 DEF PicksOf

\* A confirmation, as the review has it.
ConfirmedAs(p, chosen) ==
    /\ status[p] = "pending" /\ record[p].place = at.place /\ record[p].doc = docs[at.place]
    /\ chosen # {} /\ chosen \subseteq DOMAIN record[p].items
    /\ Fits(record[p].doc, PicksOf(p, chosen))
    /\ status' = [status EXCEPT ![p] = "confirmed"]
    /\ accepted' = [accepted EXCEPT ![p] = chosen]
    /\ docs' = [docs EXCEPT ![at.place] = After(docs[at.place], Items(PicksOf(p, chosen)))]
    /\ docs'[at.place] \in Doc
    /\ Review!Outcome(docs[at.place], docs'[at.place], {record[p].items[k] : k \in chosen})
    /\ versions' = versions + Cardinality({i \in {record[p].items[k] : k \in chosen} : i.kind = "commit"})
    /\ UNCHANGED record

LEMMA ConfirmIs ==
    ASSUME ContentInv, NEW r \in requests, NEW lost, Confirm(r, lost)
    PROVE  r.proposal \in Proposal /\ ConfirmedAs(r.proposal, r.chosen)
<1> DEFINE p == r.proposal
           picked == PicksOf(p, r.chosen)
           picks == {record[p].items[k] : k \in r.chosen}
<1>1. /\ p \in Proposal /\ status[p] # "none" /\ r.chosen \in SUBSET DOMAIN record[p].items
      /\ at.place \in Place /\ docs \in [Place -> Doc]
  BY DEF ContentInv, ChosenOK, Chosen, IInv, About, HostInv, ShapeOK, Cursor, DocsOK
<1>2. /\ status[p] = "pending" /\ r.chosen # {} /\ record[p].cursor = at
      /\ Fits(docs[at.place], picked)
  BY DEF Confirm, Taken, Allowed, MayConfirm
<1>3. record[p].place = at.place /\ record[p].doc = docs[at.place]
  BY <1>1, <1>2 DEF ContentInv, MadeForThis
<1>4. /\ docs' = [docs EXCEPT ![at.place] = After(docs[at.place], Items(picked))]
      /\ versions' = versions + Commits(Items(picked))
      /\ accepted' = [accepted EXCEPT ![p] = r.chosen]
      /\ status' = [status EXCEPT ![p] = "confirmed"]
      /\ UNCHANGED record
  BY DEF Confirm, Write, Becomes
<1>5. Part(docs[at.place], picked, picks)
  BY <1>1, <1>3, ChosenPart
<1>6. docs'[at.place] = After(docs[at.place], Items(picked)) /\ docs[at.place] \in Doc
  BY <1>1, <1>4
<1> HIDE DEF picked, picks
<1>7. /\ Apart(docs[at.place], Items(picked))
      /\ {Items(picked)[k] : k \in DOMAIN Items(picked)} = picks
  BY <1>5 DEF Part
<1>8. /\ After(docs[at.place], Items(picked)) \in Doc
      /\ Review!Outcome(docs[at.place], After(docs[at.place], Items(picked)),
                        {Items(picked)[k] : k \in DOMAIN Items(picked)})
  BY <1>6, <1>7, OutcomeAfter, Zenon
<1>9. Commits(Items(picked)) =
        Cardinality({i \in {Items(picked)[k] : k \in DOMAIN Items(picked)} : i.kind = "commit"})
  BY <1>7, CommitsAre, Zenon
<1>10. Commits(Items(picked)) = Cardinality({i \in picks : i.kind = "commit"})
  BY <1>7, <1>9
<1>11. docs'[at.place] \in Doc /\ Review!Outcome(docs[at.place], docs'[at.place], picks)
  BY <1>6, <1>7, <1>8
<1>12. versions' = versions + Cardinality({i \in picks : i.kind = "commit"})
  BY <1>4, <1>10
<1>13. Fits(record[p].doc, picked)
  BY <1>2, <1>3
<1> QED BY <1>1, <1>2, <1>3, <1>4, <1>11, <1>12, <1>13 DEF ConfirmedAs, picked, picks

\* An undo, as the review has it.
UndoneAs(p) ==
    /\ status[p] = "confirmed" /\ record[p].place = at.place
    /\ status' = [status EXCEPT ![p] = "undone"]
    /\ \E doc \in Doc :
         /\ docs' = [docs EXCEPT ![at.place] = doc]
         /\ Review!Restored(docs[at.place], doc, record[p].doc,
                            {record[p].items[k] : k \in accepted[p]})
    /\ UNCHANGED <<record, accepted, versions>>

LEMMA UndoIs ==
    ASSUME ContentInv, NEW r \in requests, NEW lost, Undo(r, lost)
    PROVE  r.proposal \in Proposal /\ UndoneAs(r.proposal)
<1> DEFINE p == r.proposal
           picked == PicksOf(p, accepted[p])
           picks == {record[p].items[k] : k \in accepted[p]}
           old == docs[at.place]
           d == record[p].doc
<1>1. p \in Proposal /\ at.place \in Place /\ old \in Doc
  BY DEF ContentInv, IInv, About, HostInv, ShapeOK, Cursor, DocsOK
<1>2. /\ status[p] = "confirmed" /\ record[p].place = at.place
      /\ StillThere(old, picked) /\ Revertible(old, picked)
  BY DEF Undo, Taken, Allowed, MayUndo
<1>3. /\ docs' = [docs EXCEPT ![at.place] = Reverted(old, picked)]
      /\ status' = [status EXCEPT ![p] = "undone"]
      /\ UNCHANGED <<record, accepted, versions>>
  BY DEF Undo, Write, Becomes
<1>4. accepted[p] \in SUBSET DOMAIN record[p].items /\ Fits(d, picked)
  BY <1>1, <1>2 DEF ContentInv, AcceptedOK
<1>5. d \in Doc /\ Part(d, picked, picks)
  BY <1>1, <1>2, <1>4, ChosenPart
<1> HIDE DEF picked, picks, old, d
<1>6. PICK S : picked \in Seq(S)
  BY <1>5 DEF Part
<1>7. Apart(d, Items(picked)) /\ {picked[k].item : k \in DOMAIN picked} = picks
  BY <1>5 DEF Part
<1>8. /\ Reverted(old, picked) \in Doc
      /\ Review!Restored(old, Reverted(old, picked), d, {picked[k].item : k \in DOMAIN picked})
  BY <1>1, <1>2, <1>4, <1>5, <1>6, <1>7, UndoRestores, Zenon
<1>9. Review!Restored(old, Reverted(old, picked), d, picks)
  BY <1>7, <1>8
<1> QED BY <1>1, <1>2, <1>3, <1>8, <1>9 DEF UndoneAs, picked, picks, old, d

\* Resumes stay resumes.
LEMMA DocsKept ==
    ASSUME ContentInv, [Next]_vars
    PROVE  DocsOK'
<1>0. /\ docs \in [Place -> Doc] /\ shown \in Doc /\ known.doc \in Doc /\ at.place \in Place
      /\ IInv /\ ShapeOK /\ DocsOK
  BY DEF ContentInv, DocsOK, HostInv, ShapeOK, Cursor
<1>1. docs' \in [Place -> Doc]
  <2>1. CASE Quiet \/ Closes \/ \E run \in Run : Propose(run)
    BY <1>0, <2>1 DEF Quiet, Closes, Propose
  <2>2. CASE Edits
    BY <1>0, <2>2 DEF Edits
  <2>3. CASE Carried
    <3>1. PICK r \in requests, lost \in BOOLEAN : Confirm(r, lost) \/ Undo(r, lost)
      BY <2>3 DEF Carried
    <3>2. CASE Confirm(r, lost)
      <4>1. /\ docs' = [docs EXCEPT ![at.place] = docs'[at.place]]
            /\ docs'[at.place] \in Doc
        BY <1>0, <3>2, ConfirmIs DEF ConfirmedAs
      <4> QED BY <1>0, <4>1
    <3>3. CASE Undo(r, lost)
      <4>1. PICK doc \in Doc : docs' = [docs EXCEPT ![at.place] = doc]
        BY <3>3, UndoIs DEF UndoneAs
      <4> QED BY <1>0, <4>1
    <3> QED BY <3>1, <3>2, <3>3
  <2> QED BY <1>0, <2>1, <2>2, <2>3, ContentKinds
<1>2. shown' \in Doc
  <2>1. CASE \E item \in Typing : shown' = Applied(shown, item)
    <3>1. PICK item \in Typing : shown' = Applied(shown, item)
      BY <2>1
    <3>2. item \in Item
      BY Assumption
    <3> QED BY <1>0, <3>1, <3>2, AppliedIs
  <2>2. CASE shown' = shown \/ shown' = known.doc \/ \E l \in Place : shown' = docs[l]
    BY <1>0, <2>2
  <2> QED BY <1>0, <2>1, <2>2, ShownKinds
<1>3. known'.doc \in Doc
  <2>1. ShapeOK'
    BY <1>0, StepHost DEF ContentInv, HostInv
  <2>2. at'.place \in Place
    BY <2>1 DEF ShapeOK, Cursor
  <2>3. known'.doc = known.doc \/ known'.doc = docs'[at'.place]
    BY KnownKinds DEF HostState
  <2> QED BY <1>0, <1>1, <2>2, <2>3
<1> QED BY <1>1, <1>2, <1>3 DEF DocsOK

\* Only a run that proposes gives a proposal without a status one.
LEMMA StillNone ==
    ASSUME IInv, [Next]_vars, ~\E run \in Run : Propose(run), NEW p \in Proposal
    PROVE  record'[p] = record[p] /\ (status[p] = "none" => status'[p] = "none")
<1>1. record' = record
  BY RecordKinds
<1>2. ASSUME status[p] = "none" PROVE status'[p] = "none"
  <2>1. CASE Unreceipted
    BY <1>2, <2>1 DEF Unreceipted
  <2>2. CASE Decides
    <3>1. PICK r \in requests, lost \in BOOLEAN :
            Confirm(r, lost) \/ Reject(r, lost) \/ Undo(r, lost)
      BY <2>2 DEF Decides
    <3>2. /\ \E new : status' = [status EXCEPT ![r.proposal] = new]
          /\ status[r.proposal] # "none"
      BY <3>1 DEF Confirm, Reject, Undo, Becomes, Taken, Allowed
    <3> QED BY <1>2, <3>2 DEF IInv, StatusType
  <2> QED BY <2>1, <2>2, ReceiptKinds
<1> QED BY <1>1, <1>2

\* A proposal that has been made keeps its status, or is decided, and its record.
LEMMA MadeStays ==
    ASSUME IInv, [Next]_vars, NEW p \in Proposal, status[p] # "none"
    PROVE  record'[p] = record[p] /\ status'[p] # "none"
<1>1. record'[p] = record[p]
  BY RecordKinds, ProposeTouches
<1>2. status'[p] \in Later(status[p]) /\ status[p] \in Settling
  BY FinalStep DEF IInv, StatusType
<1>3. status'[p] # "none"
  BY <1>2 DEF Later, Settling
<1> QED BY <1>1, <1>3

\* What a run proposes is for the resume at hand.
LEMMA ProposeMakes ==
    ASSUME ContentInv, NEW run \in Run, Propose(run), NEW p \in Proposal
    PROVE  \/ /\ status'[p] = status[p] /\ record'[p] = record[p]
           \/ /\ status[p] = "none" /\ status'[p] = "pending"
              /\ record'[p].place = at.place /\ record'[p].doc = docs[at.place]
              /\ record'[p].items \in Seq(Item) /\ Stageable(docs[at.place], record'[p].items)
              /\ record'[p].staged = Staged(docs[at.place], record'[p].items)
<1>1. PICK drafts \in [{q \in Proposal : RunOf[q] = run} -> UNION {Draft[q] : q \in Proposal}] :
        /\ \A q \in DOMAIN drafts : drafts[q] \in Draft[q] /\ Stageable(docs[at.place], drafts[q])
        /\ status' = [q \in Proposal |-> IF q \in DOMAIN drafts THEN "pending" ELSE status[q]]
        /\ record' = [q \in Proposal |->
                        IF q \in DOMAIN drafts
                        THEN [place |-> at.place, cursor |-> at, doc |-> docs[at.place],
                              items |-> drafts[q],
                              staged |-> Staged(docs[at.place], drafts[q])]
                        ELSE record[q]]
  BY DEF Propose
<1>2. CASE p \in DOMAIN drafts
  <2>1. RunOf[p] = run
    BY <1>2
  <2>2. status[p] = "none"
    BY <2>1 DEF Propose, ContentInv
  <2>3. drafts[p] \in Seq(Item) /\ Stageable(docs[at.place], drafts[p])
    BY <1>1, <1>2, Assumption
  <2>4. /\ status'[p] = "pending"
        /\ record'[p].place = at.place /\ record'[p].doc = docs[at.place]
        /\ record'[p].items = drafts[p] /\ record'[p].staged = Staged(docs[at.place], drafts[p])
    BY <1>1, <1>2
  <2> HIDE DEF Propose
  <2> QED BY <2>2, <2>3, <2>4
<1>3. CASE p \notin DOMAIN drafts
  BY <1>1, <1>3
<1> QED BY <1>2, <1>3

\* Records stay what a proposal says of the resume it was made for.
LEMMA RecordsKept ==
    ASSUME ContentInv, [Next]_vars
    PROVE  RecordsOK'
<1>0. IInv /\ RecordsOK /\ docs \in [Place -> Doc] /\ at.place \in Place
  BY DEF ContentInv, DocsOK, HostInv, ShapeOK, Cursor
<1> SUFFICES ASSUME NEW p \in Proposal
             PROVE  /\ status'[p] = "none" => record'[p] = None
                    /\ status'[p] # "none" =>
                         /\ record'[p].place \in Place /\ record'[p].doc \in Doc
                         /\ record'[p].items \in Seq(Item)
                         /\ Stageable(record'[p].doc, record'[p].items)
                         /\ record'[p].staged = Staged(record'[p].doc, record'[p].items)
  BY DEF RecordsOK
<1>1. CASE status[p] # "none"
  <2>1. record'[p] = record[p] /\ status'[p] # "none"
    BY <1>0, <1>1, MadeStays
  <2> QED BY <1>0, <1>1, <2>1 DEF RecordsOK
<1>2. CASE status[p] = "none" /\ \E run \in Run : Propose(run)
  <2>1. PICK run \in Run : Propose(run)
    BY <1>2
  <2>2. \/ /\ status'[p] = status[p] /\ record'[p] = record[p]
        \/ /\ status[p] = "none" /\ status'[p] = "pending"
           /\ record'[p].place = at.place /\ record'[p].doc = docs[at.place]
           /\ record'[p].items \in Seq(Item) /\ Stageable(docs[at.place], record'[p].items)
           /\ record'[p].staged = Staged(docs[at.place], record'[p].items)
    BY <2>1, ProposeMakes
  <2> QED BY <1>0, <1>2, <2>2 DEF RecordsOK
<1>3. CASE status[p] = "none" /\ ~\E run \in Run : Propose(run)
  <2>1. record'[p] = record[p] /\ status'[p] = "none"
    BY <1>0, <1>3, StillNone
  <2> QED BY <1>0, <1>3, <2>1 DEF RecordsOK
<1> QED BY <1>1, <1>2, <1>3

\* Decisions and calls stay about items of their proposal.
LEMMA ChosenKept ==
    ASSUME ContentInv, [Next]_vars
    PROVE  ChosenOK'
<1>0. /\ IInv /\ ShapeOK /\ ChosenOK /\ RecordsOK
      /\ deciding # None => deciding.proposal \in Proposal
      /\ \A r \in requests : r.proposal \in Proposal
  BY DEF ContentInv, HostInv, IInv, About
<1>a. ASSUME NEW x, Chosen(x), x.proposal \in Proposal
      PROVE  Chosen(x)'
  BY <1>0, <1>a, MadeStays DEF Chosen
<1>1. ASSUME deciding' # None
      PROVE  status'[deciding'.proposal] # "none" /\
             deciding'.chosen \subseteq DOMAIN record'[deciding'.proposal].items
  <2>1. CASE /\ deciding # None
             /\ deciding'.proposal = deciding.proposal /\ deciding'.chosen = deciding.chosen
    <3>1. /\ status[deciding.proposal] # "none" /\ deciding.proposal \in Proposal
          /\ deciding.chosen \subseteq DOMAIN record[deciding.proposal].items
      BY <1>0, <2>1 DEF ChosenOK, Chosen
    <3>2. status'[deciding.proposal] # "none" /\ record'[deciding.proposal] = record[deciding.proposal]
      BY <1>0, <3>1, MadeStays
    <3> QED BY <2>1, <3>1, <3>2
  <2>2. CASE \E p \in Proposal :
               /\ record[p] # None /\ UNCHANGED <<status, record>>
               /\ deciding'.proposal = p /\ deciding'.chosen \subseteq DOMAIN record[p].items
    BY <1>0, <2>2 DEF RecordsOK
  <2> QED BY <1>0, <1>1, <2>1, <2>2, ChoiceKinds
<1>2. ASSUME NEW r \in requests'
      PROVE  status'[r.proposal] # "none" /\ r.chosen \subseteq DOMAIN record'[r.proposal].items
  <2>1. CASE r \in requests
    <3>1. /\ status[r.proposal] # "none" /\ r.proposal \in Proposal
          /\ r.chosen \subseteq DOMAIN record[r.proposal].items
      BY <1>0, <2>1 DEF ChosenOK, Chosen
    <3>2. status'[r.proposal] # "none" /\ record'[r.proposal] = record[r.proposal]
      BY <1>0, <3>1, MadeStays
    <3> QED BY <3>1, <3>2
  <2>2. CASE r \notin requests
    <3>1. Ask
      BY <2>2, RequestKinds
    <3>2. r = [kind |-> deciding.kind, proposal |-> deciding.proposal,
               chosen |-> deciding.chosen, cursor |-> KnownCursor, life |-> life]
      BY <2>2, <3>1 DEF Ask
    <3>3. deciding # None /\ UNCHANGED <<status, record>>
      BY <3>1 DEF Ask, In, host, proposals
    <3>4. /\ status[deciding.proposal] # "none"
          /\ deciding.chosen \subseteq DOMAIN record[deciding.proposal].items
      BY <1>0, <3>3 DEF ChosenOK, Chosen
    <3> QED BY <3>2, <3>3, <3>4
  <2> QED BY <2>1, <2>2
<1> QED BY <1>1, <1>2 DEF ChosenOK, Chosen

\* What has been confirmed stays what the proposal said.
LEMMA AcceptedKept ==
    ASSUME ContentInv, [Next]_vars
    PROVE  AcceptedOK'
<1>0. /\ IInv /\ AcceptedOK /\ status \in [Proposal -> Settling]
      /\ \A p \in Proposal : status[p] # "none" => record'[p] = record[p]
  BY MadeStays DEF ContentInv, IInv, StatusType
<1>a. ASSUME accepted' = accepted,
             \A p \in Proposal : status'[p] = "confirmed" => status[p] = "confirmed"
      PROVE  AcceptedOK'
  <2> SUFFICES ASSUME NEW p \in Proposal, status'[p] = "confirmed"
               PROVE  /\ accepted'[p] \subseteq DOMAIN record'[p].items
                      /\ Fits(record'[p].doc, Picked(record'[p].staged, accepted'[p]))
    BY <1>0, <1>a DEF AcceptedOK, PicksOf
  <2>1. status[p] = "confirmed" /\ record'[p] = record[p]
    BY <1>0, <1>a
  <2> QED BY <1>0, <1>a, <2>1 DEF AcceptedOK, PicksOf
<1>1. CASE Quiet
  BY <1>1, <1>a DEF Quiet
<1>2. CASE Closes
  BY <1>2, <1>a DEF Closes
<1>3. CASE Edits
  BY <1>3, <1>a DEF Edits
<1>4. CASE \E run \in Run : Propose(run)
  <2>1. PICK run \in Run : Propose(run)
    BY <1>4
  <2>2. \A p \in Proposal : status'[p] = status[p] \/ status'[p] = "pending"
    BY <2>1, ProposeMakes
  <2>3. accepted' = accepted
    BY <2>1 DEF Propose
  <2> QED BY <2>2, <2>3, <1>a
<1>5. CASE Carried
  <2>1. PICK r \in requests, lost \in BOOLEAN : Confirm(r, lost) \/ Undo(r, lost)
    BY <1>5 DEF Carried
  <2>2. CASE Undo(r, lost)
    <3>1. /\ status' = [status EXCEPT ![r.proposal] = "undone"] /\ accepted' = accepted
          /\ r.proposal \in Proposal
      BY <2>2, UndoIs DEF UndoneAs
    <3> QED BY <1>0, <3>1, <1>a
  <2>3. CASE Confirm(r, lost)
    <3> DEFINE q == r.proposal
    <3>1. q \in Proposal /\ ConfirmedAs(q, r.chosen)
      BY <2>3, ConfirmIs
    <3> HIDE DEF q
    <3>2. /\ status[q] = "pending" /\ r.chosen \subseteq DOMAIN record[q].items
          /\ Fits(record[q].doc, PicksOf(q, r.chosen))
          /\ status' = [status EXCEPT ![q] = "confirmed"]
          /\ accepted' = [accepted EXCEPT ![q] = r.chosen]
          /\ record' = record
      BY <3>1 DEF ConfirmedAs
    <3>3. accepted = [p \in Proposal |-> accepted[p]]
      BY <1>0 DEF AcceptedOK
    <3>4. accepted' = [p \in Proposal |-> accepted'[p]] /\ accepted'[q] = r.chosen
      BY <3>1, <3>2, <3>3
    <3> SUFFICES ASSUME NEW p \in Proposal, status'[p] = "confirmed"
                 PROVE  /\ accepted'[p] \subseteq DOMAIN record[p].items
                        /\ Fits(record[p].doc, PicksOf(p, accepted'[p]))
      BY <3>2, <3>4 DEF AcceptedOK, PicksOf
    <3>5. CASE p = q
      BY <3>2, <3>4, <3>5
    <3>6. CASE p # q
      <4>1. status[p] = "confirmed" /\ accepted'[p] = accepted[p]
        BY <1>0, <3>2, <3>3, <3>6
      <4> QED BY <1>0, <4>1 DEF AcceptedOK
    <3> QED BY <3>5, <3>6
  <2> QED BY <2>1, <2>2, <2>3
<1> QED BY <1>0, <1>1, <1>2, <1>3, <1>4, <1>5, ContentKinds

LEMMA StepContent == ContentInv /\ [Next]_vars => ContentInv'
<1> SUFFICES ASSUME ContentInv, [Next]_vars PROVE ContentInv'
  OBVIOUS
<1>1. IInv /\ HostInv /\ MadeForThis
  BY DEF ContentInv
<1>2. IInv' /\ HostInv'
  BY <1>1, StepInv, StepHost
<1>3. MadeForThis'
  BY <1>1, <1>2, MadeKept DEF HostInv
<1>4. DocsOK' /\ RecordsOK' /\ ChosenOK' /\ AcceptedOK'
  BY DocsKept, RecordsKept, ChosenKept, AcceptedKept
<1> QED BY <1>2, <1>3, <1>4 DEF ContentInv

\* What has been confirmed and not been touched can be taken back.
LEMMA ReadyToUndo == ContentInv => UndoIsPossible
<1> SUFFICES ASSUME ContentInv, NEW p \in Proposal, status[p] = "confirmed",
                    docs[record[p].place] = After(record[p].doc, Items(PicksOf(p, accepted[p]))),
                    \E k \in DOMAIN PicksOf(p, accepted[p]) :
                      PicksOf(p, accepted[p])[k].item.kind # "commit"
             PROVE  /\ StillThere(docs[record[p].place], PicksOf(p, accepted[p]))
                    /\ Revertible(docs[record[p].place], PicksOf(p, accepted[p]))
  BY DEF UndoIsPossible
<1> DEFINE picked == PicksOf(p, accepted[p])
           d == record[p].doc
<1>1. accepted[p] \in SUBSET DOMAIN record[p].items /\ Fits(d, picked)
  BY DEF ContentInv, AcceptedOK
<1>2. d \in Doc /\ Part(d, picked, {record[p].items[k] : k \in accepted[p]})
  BY <1>1, ChosenPart
<1>3. docs[record[p].place] = After(d, Items(picked))
  OBVIOUS
<1>4. \E k \in DOMAIN picked : picked[k].item.kind # "commit"
  OBVIOUS
<1> HIDE DEF picked, d
<1>5. PICK S : picked \in Seq(S)
  BY <1>2 DEF Part
<1>6. Apart(d, Items(picked))
  BY <1>2 DEF Part
<1>7. /\ StillThere(After(d, Items(picked)), picked)
      /\ (\E k \in DOMAIN picked : picked[k].item.kind # "commit") =>
           Revertible(After(d, Items(picked)), picked)
  BY <1>1, <1>2, <1>5, <1>6, UndoReady, Zenon
<1> QED BY <1>3, <1>4, <1>7 DEF picked, d

\* A confirmed proposal that nothing has touched since can be undone, whichever
\* of its items were accepted and whatever section they were taken from: each
\* inverse finds the section as its item left it, because the items of a
\* proposal are about different entries and are taken back last first.
THEOREM UndoAlwaysPossible == Spec => []UndoIsPossible
BY InitContent, StepContent, ReadyToUndo, PTL DEF Spec

-----------------------------------------------------------------------------
(* The review that is promised.                                            *)

\* The inbox begins as the review does.
LEMMA InitReview == Init => Review!Init
<1> SUFFICES ASSUME Init PROVE Review!Init
  OBVIOUS
<1>1. docs \in [Place -> Doc]
  BY InitContent DEF ContentInv, DocsOK
<1> QED BY <1>1, SameDocs DEF Init, Review!Init

\* Saving is an edit.
LEMMA EditsReview ==
    ASSUME ContentInv, ContentInv', Edits
    PROVE  Review!Edit
<1>1. docs \in [Place -> Doc] /\ docs' \in [Place -> Doc] /\ at.place \in Place
  BY DEF ContentInv, DocsOK, HostInv, ShapeOK, Cursor
<1>2. \A m \in Place \ {at.place} : docs'[m] = docs[m]
  BY <1>1 DEF Edits
<1> QED BY <1>1, <1>2, SameDocs DEF Edits, Review!Edit

\* A confirmation does what the review says of it.
LEMMA ConfirmReviews ==
    ASSUME ContentInv, NEW p \in Proposal, NEW chosen, ConfirmedAs(p, chosen)
    PROVE  Review!Confirm(p)
<1> DEFINE picks == {record[p].items[k] : k \in chosen}
<1>1. docs \in [Place -> Doc] /\ at.place \in Place /\ accepted = [q \in Proposal |-> accepted[q]]
  BY DEF ContentInv, DocsOK, HostInv, ShapeOK, Cursor, AcceptedOK
<1>2. /\ status[p] = "pending" /\ record[p].place = at.place /\ record[p].doc = docs[at.place]
      /\ chosen # {}
      /\ status' = [status EXCEPT ![p] = "confirmed"]
      /\ accepted' = [accepted EXCEPT ![p] = chosen]
      /\ docs' = [docs EXCEPT ![at.place] = docs'[at.place]]
      /\ Review!Outcome(docs[at.place], docs'[at.place], picks)
      /\ versions' = versions + Cardinality({i \in picks : i.kind = "commit"})
      /\ UNCHANGED record
  BY <1>1 DEF ConfirmedAs
<1>3. accepted'[p] = chosen
  BY <1>1, <1>2
<1>4. Review!ChosenOf(p, accepted'[p]) = picks
  BY <1>3 DEF Review!ChosenOf
<1>5. \A m \in Place \ {at.place} : docs'[m] = docs[m]
  BY <1>1, <1>2
<1>6. \A S : Review!Cardinality(S) = Cardinality(S)
  BY DEF Review!Cardinality, Cardinality
<1> HIDE DEF picks
<1> QED BY <1>2, <1>3, <1>4, <1>5, <1>6 DEF Review!Confirm

\* So does an undo.
LEMMA UndoReviews ==
    ASSUME ContentInv, NEW p \in Proposal, UndoneAs(p)
    PROVE  Review!Undo(p)
<1>1. docs \in [Place -> Doc] /\ at.place \in Place
  BY DEF ContentInv, DocsOK, HostInv, ShapeOK, Cursor
<1>2. PICK doc \in Doc :
        /\ docs' = [docs EXCEPT ![at.place] = doc]
        /\ Review!Restored(docs[at.place], doc, record[p].doc,
                           {record[p].items[k] : k \in accepted[p]})
  BY DEF UndoneAs
<1>3. docs'[at.place] = doc /\ \A m \in Place \ {at.place} : docs'[m] = docs[m]
  BY <1>1, <1>2
<1>4. Review!Restored(docs[at.place], docs'[at.place], record[p].doc, Review!ChosenOf(p, accepted[p]))
  BY <1>2, <1>3 DEF Review!ChosenOf
<1>5. /\ status[p] = "confirmed" /\ record[p].place = at.place
      /\ status' = [status EXCEPT ![p] = "undone"]
      /\ UNCHANGED <<record, accepted, versions>>
  BY DEF UndoneAs
<1> QED BY <1>3, <1>4, <1>5 DEF Review!Undo

\* And a run that proposes.
LEMMA ProposeReviews ==
    ASSUME ContentInv, NEW run \in Run, Propose(run)
    PROVE  Review!Propose
<1>1. at.place \in Place
  BY DEF ContentInv, HostInv, ShapeOK, Cursor
<1>2. \A p \in Proposal :
        \/ status'[p] = status[p] /\ record'[p] = record[p]
        \/ /\ status[p] = "none" /\ status'[p] = "pending"
           /\ record'[p].place = at.place /\ record'[p].doc = docs[at.place]
  BY ProposeMakes
<1>3. UNCHANGED <<docs, accepted, versions>>
  BY DEF Propose
<1> QED BY <1>1, <1>2, <1>3 DEF Review!Propose

\* Every step is one of the review, or none of its business.
LEMMA StepReview ==
    ASSUME ContentInv, ContentInv', [Next]_vars
    PROVE  [Review!Next]_Review!vars
<1>1. CASE Quiet
  BY <1>1 DEF Quiet, Review!vars
<1>2. CASE Closes
  BY <1>2 DEF Closes, Review!Close, Review!Next
<1>3. CASE Edits
  BY <1>3, EditsReview DEF Review!Next
<1>4. CASE \E run \in Run : Propose(run)
  BY <1>4, ProposeReviews DEF Review!Next
<1>5. CASE Carried
  <2>1. PICK r \in requests, lost \in BOOLEAN : Confirm(r, lost) \/ Undo(r, lost)
    BY <1>5 DEF Carried
  <2>2. CASE Confirm(r, lost)
    <3>1. r.proposal \in Proposal /\ ConfirmedAs(r.proposal, r.chosen)
      BY <2>2, ConfirmIs
    <3>2. Review!Confirm(r.proposal)
      BY <3>1, ConfirmReviews
    <3> QED BY <3>1, <3>2 DEF Review!Next
  <2>3. CASE Undo(r, lost)
    <3>1. r.proposal \in Proposal /\ UndoneAs(r.proposal)
      BY <2>3, UndoIs
    <3>2. Review!Undo(r.proposal)
      BY <3>1, UndoReviews
    <3> QED BY <3>1, <3>2 DEF Review!Next
  <2> QED BY <2>1, <2>2, <2>3
<1>6. IInv
  BY DEF ContentInv
<1> QED BY <1>1, <1>2, <1>3, <1>4, <1>5, <1>6, ContentKinds

\* Whatever is lost, repeated, reloaded or typed, the window and the host do
\* what a review promises: a proposal is decided once, confirming it applies
\* what was chosen on the resume it was made for and nothing else, and an undo
\* leaves every other entry and the order of the rest as they are
\* (confirm_agent_proposal, undo_agent_proposal).
THEOREM ReviewIsKept == Spec => ImplementsReview
<1>1. ContentInv /\ ContentInv' /\ [Next]_vars => [Review!Next]_Review!vars
  BY StepReview
<1> QED BY InitContent, StepContent, InitReview, <1>1, PTL DEF Spec, ImplementsReview, Review!Spec

-----------------------------------------------------------------------------
(* Types.                                                                  *)

\* What the invariants above do not need.
Kept ==
    /\ accepted \in [Proposal -> SUBSET Nat] /\ heads \in [Place -> Doc] /\ versions \in Nat
    /\ \A x, y \in receipts : x.id = y.id => x = y

LEMMA KeptKept ==
    ASSUME ContentInv, ContentInv', Kept, [Next]_vars
    PROVE  Kept'
<1>0. /\ IInv /\ ShapeOK /\ docs' \in [Place -> Doc] /\ at.place \in Place
      /\ accepted \in [Proposal -> SUBSET Nat] /\ heads \in [Place -> Doc] /\ versions \in Nat
  BY DEF ContentInv, HostInv, ShapeOK, Cursor, DocsOK, Kept
<1>1. accepted' \in [Proposal -> SUBSET Nat] /\ heads' \in [Place -> Doc] /\ versions' \in Nat
  <2>1. CASE Quiet \/ Closes \/ Edits \/ \E run \in Run : Propose(run)
    BY <1>0, <2>1 DEF Quiet, Closes, Edits, Propose
  <2>2. CASE Carried
    <3>1. PICK r \in requests, lost \in BOOLEAN : Confirm(r, lost) \/ Undo(r, lost)
      BY <2>2 DEF Carried
    <3>2. CASE Undo(r, lost)
      BY <1>0, <3>2 DEF Undo
    <3>3. CASE Confirm(r, lost)
      <4> DEFINE items == Items(PicksOf(r.proposal, r.chosen))
      <4>1. /\ versions' = versions + Commits(items)
            /\ heads' = heads \/ heads' = [heads EXCEPT ![at.place] = docs'[at.place]]
            /\ accepted' = [accepted EXCEPT ![r.proposal] = r.chosen]
        BY <3>3 DEF Confirm
      <4>2. r.chosen \in SUBSET Nat
        BY <1>0 DEF ShapeOK, Request
      <4>3. /\ r.proposal \in Proposal /\ status[r.proposal] # "none"
            /\ r.chosen \in SUBSET DOMAIN record[r.proposal].items
        BY DEF ContentInv, ChosenOK, Chosen, IInv, About
      <4>4. Apart(record[r.proposal].doc, items)
        BY <4>3, ChosenPart DEF Part
      <4> HIDE DEF items
      <4>5. Commits(items) \in Nat
        BY <4>4, CommitsAre, Zenon
      <4>6. accepted' \in [Proposal -> SUBSET Nat] /\ versions' \in Nat
        <5>1. versions' \in Nat
          BY <1>0, <4>1, <4>5
        <5>2. accepted' \in [Proposal -> SUBSET Nat]
          <6> DEFINE some == r.chosen
                     p == r.proposal
          <6>1. some \in SUBSET Nat /\ p \in Proposal /\ accepted' = [accepted EXCEPT ![p] = some]
            BY <4>1, <4>2, <4>3
          <6> HIDE DEF some, p
          <6> QED BY <1>0, <6>1
        <5> QED BY <5>1, <5>2
      <4>7. docs'[at.place] \in Doc
        BY <1>0
      <4>8. heads' \in [Place -> Doc]
        BY <1>0, <4>1, <4>7
      <4> QED BY <4>6, <4>8
    <3> QED BY <3>1, <3>2, <3>3
  <2> QED BY <1>0, <2>1, <2>2, ContentKinds
<1>2. \A x, y \in receipts' : x.id = y.id => x = y
  <2>1. CASE receipts' = receipts
    BY <2>1 DEF Kept
  <2>2. CASE Decides
    <3>1. PICK r \in requests, lost \in BOOLEAN :
            Confirm(r, lost) \/ Reject(r, lost) \/ Undo(r, lost)
      BY <2>2 DEF Decides
    <3>2. \A x \in receipts : x.id # CommandId(r)
      BY <3>1 DEF Confirm, Reject, Undo, ReceiptOf
    <3>3. \E cursor : receipts' = receipts \cup {ReceiptFor(r, cursor)}
      BY <3>1 DEF Confirm, Reject, Undo, Receipt, ReceiptFor
    <3>4. PICK cursor : receipts' = receipts \cup {ReceiptFor(r, cursor)}
      BY <3>3
    <3>5. ReceiptFor(r, cursor).id = CommandId(r)
      BY DEF ReceiptFor
    <3> QED BY <3>2, <3>4, <3>5 DEF Kept
  <2> QED BY <1>0, <2>1, <2>2, ReceiptKinds DEF Unreceipted, Propose
<1> QED BY <1>1, <1>2 DEF Kept

LEMMA TypesAre == ContentInv /\ Kept => TypeOK
<1> SUFFICES ASSUME ContentInv, Kept PROVE TypeOK
  OBVIOUS
<1>1. /\ docs \in [Place -> Doc] /\ heads \in [Place -> Doc] /\ at \in Cursor
      /\ status \in [Proposal -> Settling]
      /\ accepted \in [Proposal -> SUBSET Nat] /\ versions \in Nat
      /\ requests \subseteq Request /\ shown \in Doc /\ known.doc \in Doc
      /\ \A x, y \in receipts : x.id = y.id => x = y
  BY DEF ContentInv, Kept, DocsOK, HostInv, ShapeOK, IInv, StatusType
<1>2. ASSUME NEW p \in Proposal
      PROVE  IF status[p] = "none" THEN record[p] = None
             ELSE /\ record[p].place \in Place /\ record[p].cursor \in Cursor
                  /\ record[p].doc \in Doc /\ record[p].items \in Seq(Item)
  BY DEF ContentInv, RecordsOK, HostInv, ShapeOK
<1> QED BY <1>1, <1>2 DEF TypeOK

\* Types, whatever is proposed and decided; and a command has one receipt
\* (find_idempotent_receipt, insert_receipt).
THEOREM TypesStayCorrect == Spec => []TypeOK
<1>1. Init => ContentInv /\ Kept
  <2> SUFFICES ASSUME Init PROVE ContentInv /\ Kept
    OBVIOUS
  <2>1. ContentInv
    BY InitContent
  <2>2. heads = docs /\ versions = 0 /\ accepted = [p \in Proposal |-> {}] /\ receipts = {}
    BY DEF Init
  <2> QED BY <2>1, <2>2 DEF ContentInv, DocsOK, Kept
<1>2. ContentInv /\ Kept /\ [Next]_vars => (ContentInv /\ Kept)'
  BY StepContent, KeptKept
<1>3. ContentInv /\ Kept => TypeOK
  BY TypesAre
<1> QED BY <1>1, <1>2, <1>3, PTL DEF Spec

=============================================================================
