------------------------------ MODULE Proposals ------------------------------
(***************************************************************************)
(* The review of proposals: the host's inbox, confirmation, rejection and   *)
(* undo (zinecv-storage/src/storage/proposals/inbox.rs and confirm.rs), and *)
(* the window that asks for them and may lose their answers                 *)
(* (src/ui/agent/overlay/proposals.tsx).                                    *)
(*                                                                         *)
(* Runs put proposals into the inbox, made for the resume of the moment.    *)
(* The user decides one at a time: what is typed is saved first, the host   *)
(* carries the decision out in one transaction, the window loads the        *)
(* resume again and reads the inbox.  Any call may fail or lose its answer, *)
(* the page may be reloaded with a call still under way, and the user types *)
(* and changes the branch meanwhile.  A command id is kept for each         *)
(* decision until the page is reloaded, so a decision made again is the     *)
(* same command.                                                           *)
(*                                                                         *)
(* A place is a document, context and branch; one revision counter stands   *)
(* for theirs, and a save or a decision advances it once.  One account;     *)
(* references to job materials are always current.  What each decision and   *)
(* each reading of the inbox also does to the state of the run, in the same  *)
(* transaction, is in AgentRun (Leaves): the call of the run, which may not  *)
(* be over, writes that state too.                                          *)
(***************************************************************************)
EXTENDS ProposalItems

CONSTANTS
    Place, Home,      \* places, and the one active at first
    Proposal,
    Run, RunOf,       \* runs, and the run each proposal comes from
    Draft,            \* the items each proposal may have
    Typing,           \* edits the user may make
    Beginning,        \* resumes the places may have at first
    Lasting,          \* bound: proposals whose day does not end
    MaxRevision,      \* bound: revisions after which nothing more is typed
    MaxLife           \* bound: times the page is loaded

ASSUME Assumption ==
    /\ Home \in Place
    /\ RunOf \in [Proposal -> Run] /\ \A r \in Run : \E p \in Proposal : RunOf[p] = r
    /\ \A p \in Proposal : Draft[p] \subseteq Seq(Item)
    /\ Typing \subseteq Item
    /\ Beginning \subseteq Doc
    /\ Lasting \subseteq Proposal /\ MaxRevision \in Nat /\ MaxLife \in Nat

VARIABLES
    docs,       \* drafts: the resume of each place
    at,         \* the active place and its revision
    status,     \* agent_proposals.status
    record,     \* the rest of agent_proposals
    accepted,   \* agent_proposal_receipts.accepted_item_ids of the confirmation
    receipts,   \* agent_proposal_receipts
    heads,      \* the resume last committed at each place
    versions,   \* commits made by confirmations
    late,       \* proposals whose day is over
    requests,   \* calls sent that the host has not carried out
    known,      \* the client's state
    shown,      \* the resume on the screen
    dirty,      \* whether the user has typed since the last save
    stuck,      \* whether the client has a failed command
    inbox,      \* nativeProposalInbox
    deciding,   \* acceptingProposalIds, and how far the decision is
    life        \* the page, which keeps proposalCommandIds

proposals == <<status, record, accepted, receipts, heads, versions, late>>
host == <<docs, at, proposals>>
screen == <<known, shown, dirty, stuck>>
window == <<screen, inbox, deciding, life>>
vars == <<host, requests, window>>

Cursor == [place: Place, revision: Nat]

Decision == {"confirm", "reject", "undo"}

\* ConfirmProposalRequest and the others, with the page they come from.
Request == [kind: Decision, proposal: Proposal, chosen: SUBSET Nat, cursor: Cursor, life: Nat]

ASSUME NoneAssumption == None \notin Request

Settling == {"none", "pending", "confirmed", "rejected", "expired", "undone"}

-----------------------------------------------------------------------------
(* The host.                                                               *)

\* proposalCommandId: the cursor is part of the id of an undo only.
CommandId(r) ==
    <<r.life, r.kind, r.proposal, r.chosen, IF r.kind = "undo" THEN r.cursor ELSE None>>

ReceiptOf(r) == {x \in receipts : x.id = CommandId(r)}

\* insert_receipt and persist_receipt_result.
Receipt(r, cursor) ==
    receipts' = receipts \cup {[id |-> CommandId(r), request |-> r.cursor, result |-> cursor,
                                kind |-> r.kind, proposal |-> r.proposal]}

Becomes(p, new) == status' = [status EXCEPT ![p] = new]

\* Mutant: an error is taken for an answer.
AnswerAnyway(r, ok, result, lost) ==
    /\ requests' = requests \ {r}
    /\ deciding' =
         IF deciding = None \/ deciding.request # r THEN deciding
         ELSE [deciding EXCEPT !.step = IF r.kind = "reject" THEN "refresh" ELSE "reload",
                               !.result = result]
    /\ UNCHANGED <<screen, inbox, life>>

\* The decision under way gets its answer, or an error if that is lost.
Answer(r, ok, result, lost) ==
    /\ requests' = requests \ {r}
    /\ deciding' =
         IF deciding = None \/ deciding.request # r THEN deciding
         ELSE IF ~ok \/ lost THEN [deciding EXCEPT !.step = "recover"]
         ELSE [deciding EXCEPT !.step = IF r.kind = "reject" THEN "refresh" ELSE "reload",
                               !.result = result]
    /\ UNCHANGED <<screen, inbox, life>>

\* find_idempotent_receipt: a stored decision is answered again, another
\* request with its id is refused.
Replay(r, lost) ==
    \E x \in ReceiptOf(r) :
      /\ Answer(r, x.request = r.cursor, x.result, lost)
      /\ UNCHANGED host

PicksOf(p, chosen) == Picked(record[p].staged, chosen)

Allowed(r) ==
    LET p == r.proposal
    IN  \/ r.kind \in {"confirm", "reject"} /\ status[p] = "pending"
        \/ /\ r.kind = "undo" /\ status[p] = "confirmed"
           /\ r.cursor.place = record[p].place

\* A decision on a proposal whose day is over: it is marked, and refused.
Expire(r, lost) ==
    /\ ReceiptOf(r) = {} /\ Allowed(r) /\ r.kind # "undo"
    /\ late[r.proposal]
    /\ Becomes(r.proposal, "expired")
    /\ Answer(r, FALSE, None, lost)
    /\ UNCHANGED <<docs, at, record, accepted, receipts, heads, versions, late>>

\* Mutant: the cursor is that of the window, whatever the proposal was made for.
MayConfirmHere(r) ==
    /\ r.cursor = at
    /\ Fits(docs[at.place], PicksOf(r.proposal, r.chosen))

Commits(items) == Cardinality({k \in DOMAIN items : items[k].kind = "commit"})

\* The conditions of confirm_agent_proposal: a version needs something to commit.
MayConfirm(r) ==
    LET picked == PicksOf(r.proposal, r.chosen)
    IN  /\ r.chosen # {}
        /\ record[r.proposal].cursor = r.cursor
        /\ r.cursor = at
        /\ Fits(docs[at.place], picked)
        /\ Commits(Items(picked)) > 0 =>
             After(docs[at.place], Items(picked)) # heads[at.place]

\* The conditions of undo_agent_proposal.
MayUndo(r) ==
    LET picked == PicksOf(r.proposal, accepted[r.proposal])
    IN  /\ r.cursor = at
        /\ StillThere(docs[at.place], picked)
        /\ Revertible(docs[at.place], picked)

Permitted(r) ==
    CASE r.kind = "confirm" -> MayConfirm(r)
      [] r.kind = "reject" -> TRUE
      [] r.kind = "undo" -> MayUndo(r)

Taken(r) == Allowed(r) /\ (r.kind # "undo" => ~late[r.proposal])

Refuse(r, lost) ==
    /\ ReceiptOf(r) = {}
    /\ Taken(r) => ~Permitted(r)
    /\ ~(Allowed(r) /\ r.kind # "undo" /\ late[r.proposal])
    /\ Answer(r, FALSE, None, lost)
    /\ UNCHANGED host

Write(doc) ==
    /\ docs' = [docs EXCEPT ![at.place] = doc]
    /\ at' = [at EXCEPT !.revision = @ + 1]

\* confirm_agent_proposal: resume, version, receipt and status at once.
Confirm(r, lost) ==
    LET p == r.proposal
        items == Items(PicksOf(p, r.chosen))
    IN  /\ ReceiptOf(r) = {} /\ r.kind = "confirm" /\ Taken(r) /\ MayConfirm(r)
        /\ Write(After(docs[at.place], items))
        /\ versions' = versions + Commits(items)
        /\ heads' = IF Commits(items) > 0
                    THEN [heads EXCEPT ![at.place] = docs'[at.place]] ELSE heads
        /\ accepted' = [accepted EXCEPT ![p] = r.chosen]
        /\ Becomes(p, "confirmed")
        /\ Receipt(r, at')
        /\ Answer(r, TRUE, at', lost)
        /\ UNCHANGED <<record, late>>

\* reject_agent_proposal.
Reject(r, lost) ==
    /\ ReceiptOf(r) = {} /\ r.kind = "reject" /\ Taken(r)
    /\ Becomes(r.proposal, "rejected")
    /\ Receipt(r, record[r.proposal].cursor)
    /\ Answer(r, TRUE, record[r.proposal].cursor, lost)
    /\ UNCHANGED <<docs, at, record, accepted, heads, versions, late>>

\* undo_agent_proposal.
Undo(r, lost) ==
    LET p == r.proposal
    IN  /\ ReceiptOf(r) = {} /\ r.kind = "undo" /\ Taken(r) /\ MayUndo(r)
        /\ Write(Reverted(docs[at.place], PicksOf(p, accepted[p])))
        /\ Becomes(p, "undone")
        /\ Receipt(r, at')
        /\ Answer(r, TRUE, at', lost)
        /\ UNCHANGED <<record, accepted, heads, versions, late>>

Serve ==
    \E r \in requests, lost \in BOOLEAN :
      \/ Replay(r, lost) \/ Expire(r, lost) \/ Refuse(r, lost)
      \/ Confirm(r, lost) \/ Reject(r, lost) \/ Undo(r, lost)

\* The call fails before the host begins.
CallFails ==
    /\ \E r \in requests : Answer(r, FALSE, None, FALSE)
    /\ UNCHANGED host

\* create_agent_proposals: what a run has drafted for the resume at hand is
\* stored together.  Whatever else the call of the run has to write, the
\* proposals can be seen and decided from here on.
Propose(run) ==
    /\ \A p \in Proposal : RunOf[p] = run => status[p] = "none"
    /\ \E drafts \in [{p \in Proposal : RunOf[p] = run} -> UNION {Draft[p] : p \in Proposal}] :
         /\ \A p \in DOMAIN drafts :
              drafts[p] \in Draft[p] /\ Stageable(docs[at.place], drafts[p])
         /\ status' = [p \in Proposal |-> IF p \in DOMAIN drafts THEN "pending" ELSE status[p]]
         /\ record' = [p \in Proposal |->
                         IF p \in DOMAIN drafts
                         THEN [place |-> at.place, cursor |-> at, doc |-> docs[at.place],
                               items |-> drafts[p],
                               staged |-> Staged(docs[at.place], drafts[p])]
                         ELSE record[p]]
    /\ UNCHANGED <<docs, at, accepted, receipts, heads, versions, late, requests, window>>

\* A day goes by.
DayEnds(p) ==
    /\ p \notin Lasting
    /\ status[p] = "pending" /\ ~late[p]
    /\ late' = [late EXCEPT ![p] = TRUE]
    /\ UNCHANGED <<docs, at, status, record, accepted, receipts, heads, versions,
                   requests, window>>

\* list_agent_proposals, which marks those that have run out first.
Listed ==
    status' = [p \in Proposal |->
                 IF status[p] = "pending" /\ late[p] THEN "expired" ELSE status[p]]

ReadInbox ==
    /\ Listed
    /\ inbox' = [pending |-> {p \in Proposal : status'[p] = "pending"},
                 undoable |-> {p \in Proposal : status'[p] = "confirmed"}]
    /\ UNCHANGED <<docs, at, record, accepted, receipts, heads, versions, late>>

-----------------------------------------------------------------------------
(* The window.                                                             *)

KnownCursor == [place |-> known.place, revision |-> known.revision]

HostState == [place |-> at.place, revision |-> at.revision, doc |-> docs[at.place]]

\* The user types.
Type(item) ==
    /\ at.revision < MaxRevision
    /\ Stageable(shown, <<item>>)
    /\ shown' = Applied(shown, item) /\ shown' # shown
    /\ dirty' = TRUE
    /\ UNCHANGED <<host, requests, known, stuck, inbox, deciding, life>>

\* The user takes back what has been typed since the last save.
TakeBack ==
    /\ dirty /\ shown # known.doc
    /\ shown' = known.doc
    /\ UNCHANGED <<host, requests, known, dirty, stuck, inbox, deciding, life>>

\* The draft is saved: commands for what differs from the client's resume,
\* which the host takes only at the client's cursor.
SaveNothing ==
    /\ dirty /\ ~stuck /\ shown = known.doc
    /\ dirty' = FALSE
    /\ UNCHANGED <<host, requests, known, shown, stuck, inbox, deciding, life>>

Save ==
    /\ dirty /\ ~stuck /\ shown # known.doc /\ KnownCursor = at
    /\ Write(shown)
    /\ known' = HostState'
    /\ dirty' = FALSE
    /\ UNCHANGED <<proposals, requests, shown, stuck, inbox, deciding, life>>

SaveConflicts ==
    /\ dirty /\ ~stuck /\ shown # known.doc /\ KnownCursor # at
    /\ stuck' = TRUE
    /\ UNCHANGED <<host, requests, known, shown, dirty, inbox, deciding, life>>

\* Another branch is loaded, with everything saved (one whose avatar cannot be
\* read is the matter of DraftPersistence).
SwitchPlace(l) ==
    /\ at.revision < MaxRevision
    /\ ~dirty /\ ~stuck /\ KnownCursor = at /\ l # at.place
    /\ at' = [place |-> l, revision |-> at.revision + 1]
    /\ UNCHANGED <<docs, proposals, requests, dirty, stuck, inbox, deciding, life>>
    /\ known' = HostState' /\ shown' = docs[l]

\* The inbox is read when an account is loaded and when a run has ended.
Refresh ==
    /\ deciding = None
    /\ ReadInbox
    /\ UNCHANGED <<requests, screen, deciding, life>>

\* The page is loaded again.
PageReload ==
    /\ life < MaxLife /\ life' = life + 1
    /\ known' = HostState /\ shown' = docs[at.place]
    /\ dirty' = FALSE /\ stuck' = FALSE
    /\ inbox' = [pending |-> {}, undoable |-> {}]
    /\ deciding' = None
    /\ UNCHANGED <<host, requests>>

\* runAcceptNativeProposal, runRejectNativeProposal and runUndoNativeProposal,
\* from their cards.
Offered(kind, p, chosen) ==
    \/ /\ kind = "confirm" /\ p \in inbox.pending /\ chosen # {}
       /\ KnownCursor = record[p].cursor
    \/ kind = "reject" /\ p \in inbox.pending /\ chosen = {}
    \/ kind = "undo" /\ p \in inbox.undoable /\ chosen = {} /\ known.place = record[p].place

Decide(kind, p, chosen) ==
    /\ deciding = None
    /\ Offered(kind, p, chosen)
    /\ deciding' = [kind |-> kind, proposal |-> p, chosen |-> chosen,
                    step |-> IF kind = "reject" THEN "ask" ELSE "flush",
                    place |-> known.place, request |-> None, result |-> None]
    /\ UNCHANGED <<host, requests, screen, inbox, life>>

In(step) == deciding # None /\ deciding.step = step

Step(step) == deciding' = [deciding EXCEPT !.step = step]

\* Everything typed is saved; an undo asks that its place has stayed.
Flushed ==
    /\ In("flush") /\ ~dirty /\ ~stuck
    /\ Step(IF deciding.kind = "undo" /\ known.place # deciding.place THEN "recover" ELSE "ask")
    /\ UNCHANGED <<host, requests, screen, inbox, life>>

FlushFails ==
    /\ In("flush") /\ (dirty \/ stuck)
    /\ Step("recover")
    /\ UNCHANGED <<host, requests, screen, inbox, life>>

\* The cursor is read in the turn in which the flush ends.
Ask ==
    /\ In("ask")
    /\ LET r == [kind |-> deciding.kind, proposal |-> deciding.proposal,
                 chosen |-> deciding.chosen, cursor |-> KnownCursor, life |-> life]
       IN  /\ requests' = requests \cup {r}
           /\ deciding' = [deciding EXCEPT !.step = "asked", !.request = r]
    /\ UNCHANGED <<host, screen, inbox, life>>

\* Mutant: the window goes on with the text it has.
Keeps ==
    /\ ~stuck
    /\ known' = HostState
    /\ UNCHANGED <<shown, dirty, stuck>>

\* reloadWorkspaceState and onNativeWorkspaceReload.
Loads ==
    /\ ~stuck
    /\ known' = HostState /\ shown' = docs[at.place] /\ dirty' = FALSE
    /\ UNCHANGED stuck

Reload ==
    /\ In("reload") /\ deciding.result = at
    /\ Loads
    /\ Step("refresh")
    /\ UNCHANGED <<host, requests, inbox, life>>

\* The call fails, the client refuses it, the host has moved on, or the avatar of
\* the resume cannot be read: by the last two the client has the resume already,
\* and the screen stays as it is.
ReloadFails ==
    /\ In("reload")
    /\ \/ UNCHANGED screen
       \/ /\ ~stuck /\ known' = HostState
          /\ UNCHANGED <<shown, dirty, stuck>>
    /\ Step("recover")
    /\ UNCHANGED <<host, requests, inbox, life>>

RefreshAfter ==
    /\ In("refresh")
    /\ ReadInbox
    /\ deciding' = None
    /\ UNCHANGED <<requests, screen, life>>

RefreshFails ==
    /\ In("refresh")
    /\ Step("recover")
    /\ UNCHANGED <<host, requests, screen, inbox, life>>

\* Whether the inbox shows that the confirmation has been stored.
Recovers == deciding.kind = "confirm" /\ deciding.proposal \in inbox'.undoable

\* An error: the inbox is read again, and a confirmation it shows is loaded.
Recover ==
    /\ In("recover")
    /\ ReadInbox
    /\ IF Recovers THEN Step("restore") ELSE deciding' = None
    /\ UNCHANGED <<requests, screen, life>>

\* Mutant: a failure after the inbox has been read is nobody's.
RecoverFailsEarly ==
    /\ In("recover")
    /\ deciding' = None
    /\ UNCHANGED <<host, requests, screen, inbox, life>>

\* The original error is shown.
RecoverFails ==
    /\ In("recover") \/ In("restore")
    /\ deciding' = None
    /\ UNCHANGED <<host, requests, screen, inbox, life>>

StoredResult(p) == (CHOOSE x \in receipts : x.kind = "confirm" /\ x.proposal = p).result

Restore ==
    /\ In("restore") /\ StoredResult(deciding.proposal) = at
    /\ Loads
    /\ deciding' = None
    /\ UNCHANGED <<host, requests, inbox, life>>

RestoreFails ==
    /\ In("restore")
    /\ ~stuck /\ known' = HostState
    /\ deciding' = None
    /\ UNCHANGED <<host, requests, shown, dirty, stuck, inbox, life>>

-----------------------------------------------------------------------------
Init ==
    /\ docs \in [Place -> Beginning]
    /\ at = [place |-> Home, revision |-> 0]
    /\ status = [p \in Proposal |-> "none"]
    /\ record = [p \in Proposal |-> None]
    /\ accepted = [p \in Proposal |-> {}]
    /\ receipts = {} /\ versions = 0 /\ heads = docs
    /\ late = [p \in Proposal |-> FALSE]
    /\ requests = {}
    /\ known = HostState /\ shown = docs[at.place]
    /\ dirty = FALSE /\ stuck = FALSE
    /\ inbox = [pending |-> {}, undoable |-> {}]
    /\ deciding = None /\ life = 0

\* What goes on by itself once a decision has been made.
Proceed ==
    \/ CallFails \/ Serve \/ Flushed \/ FlushFails \/ Ask
    \/ Reload \/ ReloadFails \/ RefreshAfter \/ RefreshFails
    \/ Recover \/ RecoverFails \/ Restore \/ RestoreFails

Saving == SaveNothing \/ Save \/ SaveConflicts

Next ==
    \/ Proceed \/ Saving \/ Refresh \/ PageReload \/ TakeBack
    \/ \E run \in Run : Propose(run)
    \/ \E p \in Proposal : DayEnds(p)
    \/ \E item \in Typing : Type(item)
    \/ \E l \in Place : SwitchPlace(l)
    \/ \E kind \in Decision, p \in Proposal :
         /\ record[p] # None
         /\ \E chosen \in SUBSET DOMAIN record[p].items : Decide(kind, p, chosen)

Spec == Init /\ [][Next]_vars

\* Calls are answered or fail: the host serves every call and the window goes on.
\* That the user's saves run is not needed, since a flush that fails ends too.
FairSpec == Spec /\ WF_vars(Proceed)

-----------------------------------------------------------------------------
(* Properties.                                                             *)

\* Types.
TypeOK ==
    /\ docs \in [Place -> Doc] /\ heads \in [Place -> Doc] /\ at \in Cursor
    /\ status \in [Proposal -> Settling]
    /\ \A p \in Proposal :
         IF status[p] = "none" THEN record[p] = None
         ELSE /\ record[p].place \in Place /\ record[p].cursor \in Cursor
              /\ record[p].doc \in Doc /\ record[p].items \in Seq(Item)
    /\ accepted \in [Proposal -> SUBSET Nat] /\ versions \in Nat
    /\ requests \subseteq Request
    /\ shown \in Doc /\ known.doc \in Doc
    /\ \A x, y \in receipts : x.id = y.id => x = y

\* Whatever is lost, repeated, reloaded or typed, the window and the host do
\* what a review promises: each proposal is decided once, on the resume it was
\* made for, and its undo leaves everything else as it is
\* (confirm_agent_proposal, undo_agent_proposal).
Review == INSTANCE ProposalReview WITH shownOn <- record

ImplementsReview == Review!Spec

\* A confirmed proposal that nothing has touched since can be undone, whatever
\* part of it was chosen and in whatever order its items take from and put into
\* the section (undo_agent_proposal checks every value before it inverts any).
UndoIsPossible ==
    \A p \in Proposal :
      LET picked == PicksOf(p, accepted[p])
      IN  /\ status[p] = "confirmed"
          /\ docs[record[p].place] = After(record[p].doc, Items(picked))
          /\ \E k \in DOMAIN picked : picked[k].item.kind # "commit"
          => /\ StillThere(docs[record[p].place], picked)
             /\ Revertible(docs[record[p].place], picked)

\* What the user is told has happened, and is on the screen: a decision is only
\* announced when the host has taken it, and then the host's resume is on the
\* screen unless something has been typed since (runAcceptNativeProposal and
\* its recovery, runUndoNativeProposal).
Announces == RefreshAfter \/ Restore

Announced == CASE deciding.kind = "confirm" -> {"confirmed", "undone"}
               [] deciding.kind = "reject" -> {"rejected"}
               [] deciding.kind = "undo" -> {"undone"}

ToldIsTrue ==
    [][Announces =>
         /\ status'[deciding.proposal] \in Announced
         /\ deciding.kind # "reject" /\ ~dirty' => shown' = docs'[at'.place]]_vars

\* What is on the screen and has not been typed is what the client has: a save
\* sends what differs between the two, so it must be the user's
\* (NativeDocumentClient.ts:115).  Only one thing parts them: a decision that the
\* host has taken, whose resume the client has loaded and the screen has not,
\* because the host moved on or its avatar cannot be read (workspace.ts:77).
\* Nothing else does, in any order, and no decision that came to nothing.
Follows == ~dirty => shown = known.doc

ScreenFollowsClient ==
    [][Follows => \/ Follows'
                  \/ /\ ReloadFails \/ RestoreFails
                     /\ status[deciding.proposal] \in Announced]_vars

\* Every decision ends: again and again the window is free for the next, and for
\* the shutdown guard that waits for it (acceptingProposalIds is cleared in
\* finally).
EveryDecisionEnds == []<>(deciding = None)
=============================================================================
