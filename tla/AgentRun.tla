------------------------------ MODULE AgentRun ------------------------------
(***************************************************************************)
(* Agent runs: src-tauri/src/commands/agent_run.rs with the registry, the   *)
(* sessions and the restore it shares with commands/{session, providers,    *)
(* proposals, versions}.rs, over storage/agent_runs.rs.                      *)
(*                                                                         *)
(* agent_chat is an async command, so a run interleaves with everything else *)
(* at every lock it takes: it reads the generation of the database, checks   *)
(* its account and document under the store lock, registers under the        *)
(* registry lock with the store lock nested in it, hears events while the     *)
(* gateway works, and at the end removes itself and keeps the registry lock   *)
(* until its row is settled.  The synchronous commands (login, logout,        *)
(* cancel, edits, switches, backup, restore) run one at a time on the main     *)
(* thread; those that take more than one lock in turn are split at each.       *)
(*                                                                          *)
(* When proposals have been stored, the status of the run and the state in     *)
(* which it waits for its user are written one after the other, each in a      *)
(* transaction of its own, and the user may decide on the proposals meanwhile. *)
(* What a decision does to resume and inbox is the matter of Proposals; here    *)
(* it is what all of them do to the run.                                       *)
(*                                                                          *)
(* A run id is drawn by the window for one call.  A revision is one number    *)
(* per document.  agent_run_lifecycle.state is agent_runs.status except where   *)
(* a run is awaiting_confirmation.  Usage counters and partial text are left    *)
(* out, and storage that fails up to the status of the run.                     *)
(***************************************************************************)
EXTENDS Naturals, FiniteSets

CONSTANTS
    Run,          \* run ids
    Document,
    FirstDocument,
    None,
    Main,         \* the main thread, as a holder of locks
    MaxToken,     \* bound: logins
    MaxVisit,     \* bound: epochs of the active document
    MaxRevision,  \* bound: revisions of a document
    MaxRestore,   \* bound: restores
    MaxDrafts     \* bound: proposals of a run

ASSUME ConstantsAssumption ==
    /\ FirstDocument \in Document
    /\ Main \notin Run /\ None \notin Run \cup Document \cup {Main} \cup Nat
    /\ MaxToken \in Nat \ {0} /\ MaxVisit \in Nat /\ MaxRevision \in Nat /\ MaxRestore \in Nat
    /\ MaxDrafts \in Nat \ {0}

VARIABLES
    session,      \* ActiveSession: the token of this process, 0 for nobody
    tokens,       \* account_sessions: the tokens that are logged in
    nextToken,    \* tokens handed out so far (random in the code, never repeated)
    registry,     \* AgentRuns.0: the runs that can be cancelled
    generation,   \* AgentRuns.1
    registryLock, \* who holds the lock of AgentRuns.0
    storeLock,    \* who holds the lock of the store from one step to the next
    document,     \* ACTIVE_DOCUMENT: which
    visit,        \* ACTIVE_DOCUMENT: its epoch
    revision,     \* documents.revision
    database,     \* not in the code: how many restores made this database
    row,          \* agent_runs.status, or none
    pending,      \* agent_proposals: how many of each run are pending
    undoable,     \* agent_proposals: how many of each run are confirmed
    waiting,      \* agent_run_lifecycle: the runs that are awaiting_confirmation
    torn,         \* not in the code: the runs whose end did not hold together
    backup,       \* a backup file: what it holds
    pc,           \* where each agent_chat is
    origin,       \* what each was called with and has read
    marks,        \* what each has found out
    cancelled,    \* the runs whose watch channel says cancel
    published,    \* the runs whose proposals were stored
    status,       \* how each was settled
    main          \* what the main thread is in the middle of

host == <<session, tokens, nextToken, registry, generation, registryLock, storeLock>>
place == <<document, visit, revision, database>>
inbox == <<pending, undoable, waiting, torn>>
rows == <<row, inbox, backup>>
calls == <<pc, origin, marks, cancelled, published, status>>
vars == <<host, place, rows, calls, main>>

Status == {"completed", "cancelled", "failed"}
Row == Status \cup {"none", "running"}

\* Where a call is: before registration, among the events, at the end, with its
\* row settled, over.
Starting == {"called", "checked", "admitting"}
Ending == {"closing", "judged", "settling"}
Settled == {"settled", "awaiting"}
Pc == {"idle", "running", "answered", "over"} \cup Starting \cup Ending \cup Settled

Origin == [token: 0 .. MaxToken, generation: Nat, document: Document,
           target: Nat, visit: Nat, database: Nat]

NoOrigin == [token |-> 0, generation |-> 0, document |-> FirstDocument,
             target |-> 0, visit |-> 0, database |-> 0]

\* target_changed, the drafts of the gateway, the ids its events announced, a
\* successful answer, another session, refused proposals.
Mark == {"stale", "drafts", "staged", "ok", "switched", "rejected"}

Main0 == [pc |-> "idle", old |-> 0, new |-> 0]
MainPc == {"idle", "login", "loggedIn", "logout", "ending", "restoring"}

\* The file a user has at the start is of an empty database.
NoBackup == [row |-> [r \in Run |-> "none"], pending |-> [r \in Run |-> 0],
             undoable |-> [r \in Run |-> 0], waiting |-> {}, torn |-> {}]

Init ==
    /\ session = 1 /\ tokens = {1} /\ nextToken = 1
    /\ registry = {} /\ generation = 0
    /\ registryLock = None /\ storeLock = None
    /\ document = FirstDocument /\ visit = 1
    /\ revision = [d \in Document |-> 0] /\ database = 0
    /\ row = [r \in Run |-> "none"]
    /\ pending = [r \in Run |-> 0] /\ undoable = [r \in Run |-> 0]
    /\ waiting = {} /\ torn = {}
    /\ backup = NoBackup
    /\ pc = [r \in Run |-> "idle"] /\ origin = [r \in Run |-> NoOrigin]
    /\ marks = [r \in Run |-> {}] /\ cancelled = {} /\ published = {}
    /\ status = [r \in Run |-> "none"]
    /\ main = Main0

(* ---------------------------------------------------------------------- *)
(* A run, from the call to its registration                                *)
(* ---------------------------------------------------------------------- *)

\* A call that is over keeps what the ledger records.
Over(r, outcome) ==
    /\ pc' = [pc EXCEPT ![r] = "over"]
    /\ origin' = [origin EXCEPT ![r] = NoOrigin]
    /\ marks' = [marks EXCEPT ![r] = {}]
    /\ status' = [status EXCEPT ![r] = outcome]
    /\ UNCHANGED <<cancelled, published>>

Refused(r) == Over(r, "none")

Goes(r, to) == pc' = [pc EXCEPT ![r] = to]

\* The request names a document and its cursor as the window shows them; the
\* generation of the database is read first, then the token.
AgentChat(r) ==
    /\ pc[r] = "idle" /\ session # 0
    /\ Goes(r, "called")
    /\ origin' = [origin EXCEPT ![r] =
         [token |-> session, generation |-> generation, document |-> document,
          target |-> revision[document], visit |-> 0, database |-> 0]]
    /\ UNCHANGED <<host, place, rows, marks, cancelled, published, status, main>>

Authorised(r) == origin[r].token \in tokens

\* Under the store lock: the document is active (its epoch is noted) and the
\* token belongs to an account with a provider.
Check(r) ==
    /\ pc[r] = "called" /\ storeLock = None
    /\ IF origin[r].document = document /\ Authorised(r)
       THEN /\ Goes(r, "checked")
            /\ origin' = [origin EXCEPT ![r].visit = visit]
            /\ UNCHANGED <<marks, cancelled, published, status>>
       ELSE Refused(r)
    /\ UNCHANGED <<host, place, rows, main>>

SameGeneration(r) == generation = origin[r].generation

\* The registry lock is taken and kept while the run is stored.
Admit(r) ==
    /\ pc[r] = "checked" /\ registryLock = None
    /\ IF SameGeneration(r)
       THEN /\ Goes(r, "admitting") /\ registryLock' = r
            /\ UNCHANGED <<origin, marks, cancelled, published, status>>
       ELSE Refused(r) /\ UNCHANGED registryLock
    /\ UNCHANGED <<session, tokens, nextToken, registry, generation, storeLock, place, rows, main>>

\* Mutant: only the document is compared, not the visit.
OnDocument(r) == document = origin[r].document

OnTarget(r) == document = origin[r].document /\ visit = origin[r].visit

CursorCurrent(r) == revision[origin[r].document] = origin[r].target

\* The store lock is nested in the registry lock.  The row is inserted if the
\* cursor is current, the run marked running and registered.
Begin(r) ==
    /\ pc[r] = "admitting" /\ storeLock = None
    /\ IF OnTarget(r) /\ CursorCurrent(r) /\ row[r] = "none"
       THEN /\ Goes(r, "running")
            /\ origin' = [origin EXCEPT ![r].database = database]
            /\ row' = [row EXCEPT ![r] = "running"]
            /\ registry' = registry \cup {r}
            /\ UNCHANGED <<marks, cancelled, published, status>>
       ELSE Refused(r) /\ UNCHANGED <<row, registry>>
    /\ registryLock' = None
    /\ UNCHANGED <<session, tokens, nextToken, generation, storeLock, place, inbox, backup, main>>

(* ---------------------------------------------------------------------- *)
(* Events, while the gateway works                                          *)
(* ---------------------------------------------------------------------- *)

\* What an event sees: the run is cancelled or its session has ended ...
Gone(r) == r \in cancelled \/ session # origin[r].token \/ ~SameGeneration(r)

\* ... or else its document was left; a tool may start only on the cursor of
\* the run.
Moved(r, toolStarts) == ~OnTarget(r) \/ (toolStarts /\ ~CursorCurrent(r))

\* Either cancels the run.
Notice(r, toolStarts, found) ==
    /\ cancelled' = cancelled \cup {x \in {r} : Gone(r) \/ Moved(r, toolStarts)}
    /\ marks' = [marks EXCEPT ![r] = @ \cup found
                    \cup {x \in {"stale"} : ~Gone(r) /\ Moved(r, toolStarts)}]
    /\ UNCHANGED <<host, place, rows, pc, origin, published, status, main>>

\* A delta, or a lifecycle event.
Event(r, toolStarts) ==
    /\ pc[r] = "running" /\ storeLock = None
    /\ Notice(r, toolStarts, {})

\* proposal.ready: the gateway has drafted a proposal; its id is noted unless
\* the run is cancelled by this very event.
ProposalReady(r) ==
    /\ pc[r] = "running" /\ storeLock = None /\ "drafts" \notin marks[r]
    /\ Notice(r, FALSE, IF Gone(r) \/ Moved(r, FALSE) THEN {"drafts"} ELSE {"drafts", "staged"})

\* The gateway answers, fails, times out or notices the cancellation; drafts
\* come with an answer only.
Answer(r, ok) ==
    /\ pc[r] = "running"
    /\ Goes(r, "answered")
    /\ marks' = [marks EXCEPT ![r] = IF ok THEN @ \cup {"ok"} ELSE @ \ {"drafts", "staged"}]
    /\ UNCHANGED <<host, place, rows, origin, cancelled, published, status, main>>

(* ---------------------------------------------------------------------- *)
(* Completion                                                               *)
(* ---------------------------------------------------------------------- *)

\* Removing the run from the registry decides between cancel and finish; the
\* lock is kept until the row is settled.
Close(r) ==
    /\ pc[r] = "answered" /\ registryLock = None
    /\ registryLock' = r
    /\ registry' = registry \ {r}
    /\ Goes(r, "closing")
    /\ UNCHANGED <<session, tokens, nextToken, generation, storeLock, place, rows,
                   origin, marks, cancelled, published, status, main>>

Judge(r) ==
    /\ pc[r] = "closing"
    /\ Goes(r, "judged")
    /\ marks' = [marks EXCEPT ![r] = @ \cup {x \in {"switched"} : session # origin[r].token}
                                      \cup {x \in {"stale"} : ~OnTarget(r)}]
    /\ UNCHANGED <<host, place, rows, origin, cancelled, published, status, main>>

\* Mutant: completion forgets the cancellation.
MayPublishCancelled(r) ==
    {"ok", "drafts"} \subseteq marks[r] /\ marks[r] \cap {"switched", "stale"} = {}

MayPublish(r) ==
    /\ {"ok", "drafts"} \subseteq marks[r]
    /\ marks[r] \cap {"switched", "stale"} = {} /\ r \notin cancelled

\* The drafts are those the events announced, the visit, the database and the
\* cursor still those of the run: checked again under the store lock.
Publishable(r) == "staged" \in marks[r] /\ OnTarget(r) /\ SameGeneration(r) /\ CursorCurrent(r)

Publish(r) ==
    /\ pc[r] = "judged" /\ storeLock = None
    /\ Goes(r, "settling")
    /\ published' = published \cup {x \in {r} : MayPublish(r) /\ Publishable(r)}
    /\ \E drafts \in 1 .. MaxDrafts :
         pending' = IF r \in published' THEN [pending EXCEPT ![r] = drafts] ELSE pending
    /\ marks' = [marks EXCEPT ![r] =
                   @ \cup {x \in {"rejected"} : MayPublish(r) /\ ~Publishable(r)}]
    /\ UNCHANGED <<host, place, row, undoable, waiting, torn, backup,
                   origin, cancelled, status, main>>

FinalStatus(r) ==
    IF "stale" \in marks[r] THEN "failed"
    ELSE IF "switched" \in marks[r] \/ r \in cancelled THEN "cancelled"
    ELSE IF "ok" \in marks[r] /\ "rejected" \notin marks[r] THEN "completed" ELSE "failed"

\* finish_agent_run settles a row that is running; the lifecycle says the same.
Settle(r) ==
    /\ pc[r] = "settling" /\ storeLock = None
    /\ row' = [row EXCEPT ![r] = IF @ = "running" THEN FinalStatus(r) ELSE @]
    /\ Goes(r, "settled")
    /\ status' = [status EXCEPT ![r] = FinalStatus(r)]
    /\ marks' = [marks EXCEPT ![r] = {}]
    /\ UNCHANGED <<host, place, inbox, backup, origin, cancelled, published, main>>

\* A run that has published is said to wait for its user, once for each of its
\* proposals and once more, each time under the store lock.
Awaits(r) == r \in published /\ status[r] = "completed"

Await(r) ==
    /\ pc[r] \in Settled /\ storeLock = None /\ Awaits(r)
    /\ waiting' = waiting \cup {r}
    /\ Goes(r, "awaiting")
    /\ UNCHANGED <<host, place, row, pending, undoable, torn, backup,
                   origin, marks, cancelled, published, status, main>>

\* The last of these, or that of a run without proposals; the lock of the
\* registry goes with the call.
Finish(r) ==
    /\ pc[r] = IF Awaits(r) THEN "awaiting" ELSE "settled"
    /\ storeLock = None
    /\ waiting' = IF Awaits(r) THEN waiting \cup {r} ELSE waiting \ {r}
    /\ Over(r, status[r])
    /\ registryLock' = None
    /\ UNCHANGED <<session, tokens, nextToken, registry, generation, storeLock, place,
                   row, pending, undoable, torn, backup, main>>

\* The proposals are stored and nothing says yet that the run waits for them.
Unsaid == {r \in published : pc[r] \in {"settling", "settled"}}

\* Any of these writes fails, and the call with it.
FinishFails(r) ==
    /\ pc[r] \in Settled
    /\ torn' = torn \cup ({r} \cap Unsaid)
    /\ Over(r, status[r])
    /\ registryLock' = None
    /\ UNCHANGED <<session, tokens, nextToken, registry, generation, storeLock, place,
                   row, pending, undoable, waiting, backup, main>>

(* ---------------------------------------------------------------------- *)
(* Commands of the main thread                                              *)
(* ---------------------------------------------------------------------- *)

MainFree == main.pc = "idle"

\* The runs of a token that can be cancelled.
RunsOf(t) == {r \in registry : origin[r].token = t}

Cancel(S) ==
    /\ cancelled' = cancelled \cup S
    /\ UNCHANGED <<pc, origin, marks, published, status>>

\* cancel_agent_run: only the session that owns a run may cancel it.
CancelAgentRun(r) ==
    /\ MainFree /\ registryLock = None
    /\ session # 0 /\ r \in RunsOf(session)
    /\ Cancel({r})
    /\ UNCHANGED <<host, place, rows, main>>

CancelRunsForToken(t) == Cancel(RunsOf(t))

\* Mutant: the store stays locked while login locks the registry.
HeldThroughLogin == Main


\* login_account, under the store lock: a new token, the old one deleted.  The
\* store lock is dropped before the registry is locked.
HeldAfterLogin == None

LoginAccount ==
    /\ MainFree /\ storeLock = None /\ nextToken < MaxToken
    /\ nextToken' = nextToken + 1
    /\ tokens' = (tokens \cup {nextToken + 1}) \ {session}
    /\ storeLock' = HeldAfterLogin
    /\ main' = [pc |-> "login", old |-> session, new |-> nextToken + 1]
    /\ UNCHANGED <<session, registry, generation, registryLock, place, rows, calls>>

LoginCancels ==
    /\ main.pc = "login"
    /\ (main.old # 0) => (registryLock = None)
    /\ CancelRunsForToken(main.old)
    /\ storeLock' = None
    /\ main' = [main EXCEPT !.pc = "loggedIn"]
    /\ UNCHANGED <<session, tokens, nextToken, registry, generation, registryLock, place, rows>>

LoginEnds ==
    /\ main.pc = "loggedIn"
    /\ session' = main.new
    /\ main' = Main0
    /\ UNCHANGED <<tokens, nextToken, registry, generation, registryLock, storeLock, place, rows, calls>>

\* logout_account: runs are cancelled first, then the token is deleted.
LogoutAccount ==
    /\ MainFree /\ session # 0 /\ registryLock = None
    /\ CancelRunsForToken(session)
    /\ main' = [Main0 EXCEPT !.pc = "logout", !.old = session]
    /\ UNCHANGED <<host, place, rows>>

LogoutDeletes ==
    /\ main.pc = "logout" /\ storeLock = None
    /\ tokens' = tokens \ {main.old}
    /\ main' = [main EXCEPT !.pc = "ending"]
    /\ UNCHANGED <<session, nextToken, registry, generation, registryLock, storeLock, place, rows, calls>>

LogoutEnds ==
    /\ main.pc = "ending"
    /\ session' = 0
    /\ main' = Main0
    /\ UNCHANGED <<tokens, nextToken, registry, generation, registryLock, storeLock, place, rows, calls>>

Edit ==
    /\ MainFree /\ storeLock = None /\ revision[document] < MaxRevision
    /\ revision' = [revision EXCEPT ![document] = @ + 1]
    /\ UNCHANGED <<host, document, visit, database, rows, calls, main>>

SwitchActiveDocument(d) ==
    /\ MainFree /\ storeLock = None /\ d # document /\ visit < MaxVisit
    /\ document' = d /\ visit' = visit + 1
    /\ UNCHANGED <<host, revision, database, rows, calls, main>>

\* The call has more to write about the proposals it has stored.
EndingNow == {r \in published : pc[r] \in {"settling"} \cup Settled}

\* Mutant: the runs of what is decided are not looked at.
NoneSettles(left, runs) == UNCHANGED waiting

\* update_lifecycle_if_settled: a run that waits with nothing pending is completed.
Settles(left, runs) == waiting' = waiting \ {r \in runs : left[r] = 0}

\* A command on the proposals of the account leaves these pending.
Leaves(left, runs) ==
    /\ MainFree /\ storeLock = None /\ session \in tokens
    /\ pending' = left /\ Settles(left, runs)
    /\ torn' = torn \cup {r \in EndingNow : left[r] = 0}
    /\ UNCHANGED <<host, document, visit, database, row, backup, calls, main>>

LeavesOne(r) == pending[r] > 0 /\ Leaves([pending EXCEPT ![r] = @ - 1], {r})

\* A confirmation and an undo edit the resume; whether the proposal still fits
\* it is the matter of Proposals.
Edited ==
    /\ revision[document] < MaxRevision
    /\ revision' = [revision EXCEPT ![document] = @ + 1]

ConfirmProposal(r) ==
    /\ LeavesOne(r) /\ Edited
    /\ undoable' = [undoable EXCEPT ![r] = @ + 1]

\* ... or the day of the proposal is over, when a confirmation finds it as well.
RejectProposal(r) == LeavesOne(r) /\ UNCHANGED <<revision, undoable>>

UndoConfirmedProposal(r) ==
    /\ undoable[r] > 0 /\ Leaves(pending, {r}) /\ Edited
    /\ undoable' = [undoable EXCEPT ![r] = @ - 1]

\* list_agent_proposals: those whose day is over expire together.
ListAgentProposals(due) ==
    /\ \A r \in Run : due[r] <= pending[r]
    /\ Leaves([r \in Run |-> pending[r] - due[r]], {r \in Run : due[r] > 0})
    /\ UNCHANGED <<revision, undoable>>

ExportDatabaseBackup ==
    /\ MainFree /\ storeLock = None /\ backup = NoBackup
    /\ backup' = [row |-> row, pending |-> pending, undoable |-> undoable,
                  waiting |-> waiting, torn |-> torn \cup Unsaid]
    /\ UNCHANGED <<host, place, row, inbox, calls, main>>

\* Mutant: a restore does not wait for runs.
NoRunsNeeded == TRUE


NoRuns == registry = {}

\* restore_database_backup: the registry is locked, no run may be registered,
\* and the generation moves before the store is locked ...
RestoreDatabaseBackup ==
    /\ MainFree /\ registryLock = None /\ NoRuns
    /\ database < MaxRestore /\ generation < 2 * MaxRestore /\ visit < MaxVisit
    /\ registryLock' = Main
    /\ generation' = generation + 1
    /\ main' = [Main0 EXCEPT !.pc = "restoring"]
    /\ UNCHANGED <<session, tokens, nextToken, registry, storeLock, place, rows, calls>>

\* Mutant: opening leaves the runs it finds as they are.
NotRecovered(r, found) == found

\* A database that is opened settles the runs it finds running.
Recovered(r, found) == IF found = "running" THEN "failed" ELSE found

\* ... and again when the other database is there.  It has no sessions, its
\* interrupted runs are settled and its revisions are new.
RestoreSwaps ==
    /\ main.pc = "restoring" /\ storeLock = None
    /\ generation' = generation + 1
    /\ tokens' = {} /\ session' = 0
    /\ row' = [r \in Run |-> Recovered(r, backup.row[r])]
    /\ pending' = backup.pending /\ undoable' = backup.undoable
    /\ waiting' = backup.waiting /\ torn' = backup.torn
    /\ visit' = visit + 1
    /\ revision' = [d \in Document |-> revision[d] + 1]
    /\ database' = database + 1
    /\ registryLock' = None
    /\ main' = Main0
    /\ UNCHANGED <<nextToken, registry, storeLock, document, backup, calls>>

\* A file that is no backup: the generation has moved, nothing else.
RestoreFails ==
    /\ main.pc = "restoring" /\ storeLock = None
    /\ generation' = generation + 1
    /\ registryLock' = None
    /\ main' = Main0
    /\ UNCHANGED <<session, tokens, nextToken, registry, storeLock, place, rows, calls>>

(* ---------------------------------------------------------------------- *)
(* The process                                                              *)
(* ---------------------------------------------------------------------- *)

\* The process dies and starts again: memory and calls are gone, the database
\* settles what was running.
Restart ==
    /\ session' = 0 /\ registry' = {} /\ generation' = 0
    /\ registryLock' = None /\ storeLock' = None
    /\ visit' = 1 /\ main' = Main0
    /\ row' = [r \in Run |-> Recovered(r, row[r])]
    /\ LET dead == {r \in Run : pc[r] \notin {"idle", "over"}}
       IN  /\ pc' = [r \in Run |-> IF r \in dead THEN "over" ELSE pc[r]]
           /\ status' = [r \in Run |-> IF r \in dead /\ pc[r] \notin Starting \cup Settled
                                         THEN "failed" ELSE status[r]]
    /\ torn' = torn \cup Unsaid
    /\ origin' = [r \in Run |-> NoOrigin] /\ marks' = [r \in Run |-> {}]
    /\ UNCHANGED <<tokens, nextToken, document, revision, database, pending, undoable, waiting,
                   backup, cancelled, published>>

RunStep(r) ==
    \/ Check(r) \/ Admit(r) \/ Begin(r)
    \/ Close(r) \/ Judge(r) \/ Publish(r) \/ Settle(r)
    \/ Await(r) \/ Finish(r) \/ FinishFails(r)
    \/ \E ok \in BOOLEAN : Answer(r, ok)

MainStep == LoginCancels \/ LoginEnds \/ LogoutDeletes \/ LogoutEnds
            \/ RestoreSwaps \/ RestoreFails

Next ==
    \/ \E r \in Run : AgentChat(r) \/ RunStep(r) \/ ProposalReady(r) \/ CancelAgentRun(r)
    \/ \E r \in Run, toolStarts \in BOOLEAN : Event(r, toolStarts)
    \/ MainStep
    \/ LoginAccount \/ LogoutAccount
    \/ Edit \/ \E d \in Document : SwitchActiveDocument(d)
    \/ \E r \in Run : ConfirmProposal(r) \/ RejectProposal(r) \/ UndoConfirmedProposal(r)
    \/ \E due \in [Run -> 0 .. MaxDrafts] : ListAgentProposals(due)
    \/ ExportDatabaseBackup \/ RestoreDatabaseBackup
    \/ Restart

Spec == Init /\ [][Next]_vars

\* Every lock is released and taken again, the gateway ends within its timeouts
\* and the main thread goes on.  Nobody has to send events, log in or cancel.
Fairness ==
    /\ \A r \in Run : WF_vars(RunStep(r))
    /\ WF_vars(MainStep)

FairSpec == Spec /\ Fairness

(* ---------------------------------------------------------------------- *)
(* Properties                                                               *)
(* ---------------------------------------------------------------------- *)

InboxType ==
    /\ pending \in [Run -> Nat] /\ undoable \in [Run -> Nat]
    /\ waiting \subseteq Run /\ torn \subseteq Run
    /\ backup \in [row: [Run -> Row], pending: [Run -> Nat], undoable: [Run -> Nat],
                   waiting: SUBSET Run, torn: SUBSET Run]

\* Every variable holds a value of its type.
TypeOK ==
    /\ InboxType
    /\ session \in 0 .. MaxToken /\ tokens \subseteq 1 .. MaxToken /\ nextToken \in 1 .. MaxToken
    /\ registry \subseteq Run /\ generation \in Nat
    /\ registryLock \in Run \cup {None, Main} /\ storeLock \in Run \cup {None, Main}
    /\ document \in Document /\ visit \in Nat /\ database \in Nat
    /\ revision \in [Document -> Nat]
    /\ row \in [Run -> Row]
    /\ pc \in [Run -> Pc] /\ origin \in [Run -> Origin]
    /\ marks \in [Run -> SUBSET Mark] /\ status \in [Run -> Row]
    /\ cancelled \subseteq Run /\ published \subseteq Run
    /\ main \in [pc: MainPc, old: 0 .. MaxToken, new: 0 .. MaxToken]

Alive == {"running", "answered"} \cup Ending

\* A row says running exactly as long as there is a call that will settle it,
\* through restarts and through restores of backups taken while runs were in
\* progress (recover_interrupted_agent_runs, the registry check of a restore).
RowsFollowCalls == \A r \in Run : row[r] = "running" <=> pc[r] \in Alive

\* A run waits for its user exactly as long as one of its proposals is pending,
\* however the last of them went (update_lifecycle_if_settled is called from four
\* places) and whatever is restored.  Its end is three transactions and more
\* (create_agent_proposals, finish_agent_run, update_agent_run_state for each
\* proposal and once more), so there are exceptions, and these are all.  Until
\* the first of the last writes the run does not wait, nor ever if that write
\* fails, the process dies before it or a backup was taken before it; and if the
\* last proposal is decided before the last write, the run waits for nothing.
RunsSettle ==
    \A r \in Run \ (torn \cup Unsaid) : r \in waiting <=> pending[r] > 0

\* Proposals are only stored on what the run was started on: the same database,
\* the same visit to the document and the same revision of it, though the answer
\* arrives at any later time.
ProposalsFitTarget ==
    [][\A r \in Run : r \in published' \ published =>
         /\ database = origin[r].database
         /\ document = origin[r].document /\ visit = origin[r].visit
         /\ revision[origin[r].document] = origin[r].target]_vars

\* What AgentRunLedger sees of a run: it is open while it can be cancelled.
Outcome(r) ==
    CASE pc[r] \in {"idle"} \cup Starting -> "none"
      [] pc[r] \in {"running", "answered"} -> "open"
      [] pc[r] \in Ending -> "closing"
      [] OTHER -> status[r]

Ledger == INSTANCE AgentRunLedger WITH
    outcome <- [r \in Run |-> Outcome(r)],
    cancelled <- cancelled, published <- published

\* The locks, the registry and the checks of a completion implement the ledger:
\* a cancellation is accepted or comes too late, and never both.
ImplementsLedger == Ledger!Spec

\* Every call ends, whatever logins, restores and other runs hold the locks.
EveryCallEnds == \A r \in Run : pc[r] \in Starting \cup Alive \cup Settled ~> pc[r] = "over"

=============================================================================
