# A TLA+ verification of ZineCV

ZineCV is a résumé editor: a React window over a Rust host (Tauri), which keeps
everything in one SQLite database and sets pages with Typst.  The modules in this
directory model how a résumé is edited, saved, versioned and switched, and how its
assistant is asked, stopped, stored, and its proposals decided, and how it is exported
while the application updates itself.  TLC checks them on small instances, and TLAPS
checks proofs that hold for every instance.  Paths below
are relative to the repository.

## 1. The system

### 1.1 Parts, state, operations

| part | state it keeps | operations | module |
| --- | --- | --- | --- |
| **Version store** `crates/zinecv-storage/src/storage/{drafts,branches,snapshots,history_mutations,legacy_mapping}.rs` | tables `documents`, `editing_contexts`, `branches`, `branch_tombstones`, `commits`, `commit_links`, `snapshots`, `drafts` | apply an edit, commit, create or switch a branch, enter an editing context, load or delete a commit, delete a branch, replace the graph | `VersionStore` |
| **Document host** `src-tauri/src/commands/{session,documents,versions}.rs`, `src-tauri/src/lib.rs`, `storage/{settings,document_mutations,mutation_receipts,backup,publication}.rs` | the process-wide `ACTIVE_DOCUMENT` (id, epoch), the setting `active-document-id`, `command_receipts` | switch, create, copy, archive, unarchive, edit, replace, back up, restore, restart | `DocumentHost` |
| **Native document client** `src/platform/NativeDocumentClient.ts` | confirmed state, session epoch, queue (`tail`), the failed command or import | load, reload, submit, applyImport, retryFailed, switchDocument, switchEditingContext | `NativeDocumentClient` |
| **Draft persistence** `src/platform/{useNativeResumePersistence,workspace,useNativeResumeVersions}.ts` and callers in `src/ui` | working snapshot and target, dirty flag, timer, save queue (`persistTail`), save label | debounced save, retry, flush, version actions, undo of a proposal, import, close | `DraftPersistence` |
| **Domain commands and their bridge** `crates/zinecv-domain`, `src/platform/{documentBridge,legacySnapshot}.ts`, `src/ui/app/{useResumeEditing.ts,workspace/*.tsx}` | none of their own: two forms of one document | editor's edits, the next command of a save, what the host does with it, loading | `DocumentCommands`, `DocumentBridge` |
| **Agent run** `src-tauri/src/commands/{agent_run,providers,proposals,versions,session}.rs`, `storage/agent_runs.rs` | registry of runs, its generation, `agent_runs`, the session of the process | start, events, cancel, finish, login, logout, restore, recover | `AgentRun`, `AgentRunLedger` |
| **Agent conversation** `src/ui/agent/{sessions,stream}.ts`, `src/ui/agent/overlay/{sendMessage,sessions,providerSettings}.tsx`, `AgentOverlay.tsx`, `storage/agent_sessions.rs` | conversations on the screen, effect and timer, queue of writes, the send, the change of account, the shutdown guard | send, stream, stop, turn to another conversation, write, log in and out, settle | `AgentConversation` |
| **Proposals** `crates/zinecv-storage/src/storage/proposals/`, `src/ui/agent/overlay/proposals.tsx` | inbox, receipts, items with what they found; the decision on its way | propose, list, expire, confirm, reject, undo, recover | `ProposalItems`, `ProposalReview`, `Proposals` |
| Document transition `src/ui/app/DocumentWorkspace.tsx` | transition and recovery mode | settle, flush, switch, reload, recover | none |
| Agent gateway `crates/zinecv-agent` | messages, budget of a run | model and tool calls | a step of `AgentRun` |
| Imports `storage/imports.rs` | drafts and their status | create, transition, apply | its client side only |
| Resources `storage/{resources,resource_links}.rs` | blobs, references, leases | put, link, lease, collect | none |
| **Export sessions** `src-tauri/src/export_sessions.rs`, `src-tauri/src/commands/rendering.rs`, `storage/export_receipts.rs`, `src/ui/app/workspace/exports.tsx` | tickets, writes in flight, generation, receipts; the export on its way in the window | review, render, write, verify, retry; register, prepare, finish, abandon, invalidate | `ExportSessions`, `Exports` |
| Render worker and scheduler `src-tauri/src/{render_worker,render_scheduler}.rs` | worker process, lanes | render, fit, restart | none |
| **Application update** `src-tauri/src/app_update.rs`, `app_update/{trust,download}.rs`, `src/ui/app/useAppUpdate.ts` | phase, download generation, abort handle, cache, exports in flight | check, download, cancel, install | `AppUpdate`, `Exports` |
| Job materials, templates, settings, accounts | rows | single transactions | none |
| Typst engine, migrations, web build, editor UI | none, or data conversion | | none |

`PROJECT.json` lists the same parts with their files and why each stands where it
does.

### 1.2 How the parts interact

* The editor changes a working snapshot (`DocumentBridge`).  Draft persistence turns
  it into domain commands, one at a time, through the native document client, which
  sends `apply_document_command` and waits for a durable receipt.
* Version actions (commit, switch, load, delete) call the host directly, inside the
  save queue, then reload the client.  Undo of a proposal, confirmation and import
  wait for a flush but run outside the save queue.
* The host checks that a command is for the active document, the store checks the
  *authority cursor* (document, context, branch, head, revision) by compare-and-swap.
  Every operation on the store is one immediate SQLite transaction.
* A switch of document, a creation, and a restore change the active document and
  its epoch; requests that carry an epoch are refused in any other.
* Retries carry the same command id; a receipt answers a request that was carried
  out before.
* A message of the assistant is stored by the window (`AgentConversation`), then
  `agent_chat` runs in the host (`AgentRun`); what the run proposes goes into the
  inbox when it ends (`Publish`), and the window reads and decides it (`Proposals`).
* An export compares its cursor, freezes the state, renders it, and hands its bytes to
  writes by ticket; every command of it holds an export guard, which an installation
  of an update waits for and shuts out (`Exports` over `ExportSessions`, `AppUpdate`).

### 1.3 What runs concurrently

Synchronous Tauri commands run one at a time on the main thread and hold the `Store`
lock from the first check to the answer, so each is atomic unless it takes several
locks in turn (login, logout and restore do, and are split in `AgentRun`).  `async`
commands (agent runs, renders, exports, downloads) interleave with them at every
lock.  In the window everything interleaves at every `await`: the user types, timers
fire, replies arrive or are lost, React renders now and runs effects later.  Several
windows, or a window and its agent, may work on one database.  The process may stop
at any time; then only SQLite's tables remain.

### 1.4 What is hard, and the properties that make each part correct

* *Version store.*  Long sequences of legal operations: an active draft of an old
  revision locks the document; deleting a commit cuts history, orphans a head or
  loses what is being edited; reachability keeps too little or too much.
* *Document host.*  A late, repeated or restored request: no lost update, nothing
  takes effect twice, no edit lands in a later visit to a document, and memory and
  disk agree after every crash.
* *Client.*  A reply that is lost after the host acted: the command stays in doubt
  and blocks what follows; edits land only where they were made; an old receipt never
  takes the place of a later state; every caller hears.
* *Draft persistence.*  Typing during a save, flush, reload: what is typed is saved,
  replaced or reported; operations find everything saved.
* *Bridge.*  Two documents compared again and again: each command must bring them
  nearer, one must be found as long as they differ, and what is loaded must be what
  was saved.
* *Agent run.*  Cancellation against completion, logout against start, a restore
  against everything, the order of two locks, and an end of several transactions that
  the user's decisions may overtake.
* *Conversation.*  Accounts and conversations that change while an answer streams, a
  write waits or fails; nothing may cross, be lost in silence, or wait for ever.
* *Proposals.*  A decision whose answer is lost, typing meanwhile, the end of the
  day, an undo that has to find what it would take back.
* *Exports and updates.*  A file is written again because the answer was lost, the
  document changes between two locks, a restore or an installation comes in between, a
  download is cancelled before it can be.

`PROJECT.json` lists every hazard at its line, with the properties that cover it or
the reason why none does.

## 2. The modules

Each component is a module with its state, an action per handler or per stretch of
code between two awaits or locks, `Next`, `Spec` and, where something must happen,
`FairSpec`.  `MCx.tla` gives an instance its values and holds nothing else;
`xProofs.tla` holds the theorems.  Operators that only mutants of a run use are
marked so.

### VersionStore

One document.  Variables are the tables; a snapshot is addressed by the hash of its
document and therefore is the content itself.  An action takes the cursor its caller
presents, and `Next` presents the present one: any other is refused by the first
comparison, a roll-back.  `Ancestry` is the recursive SQL query that finds what
branches reach.  Titles, messages, times and receipts are left out.

* `DocumentOpens`: the document can be opened and edited whatever was deleted: it has
  content, and its active draft has the revision that the next edit demands.
* `HistoryIsSound`: heads and parents exist, history has no loop, every snapshot
  used is stored.
* `NothingLeaks`: no commit without a branch, no snapshot without a commit.
* `ChangesAdvance`: a change of cursor or content takes a new revision.
* `BranchesKeepHistory`: a step takes no history from a branch that stays, but for the
  commit that is deleted.
* `WorkSurvives`: a dirty draft is discarded only with consent
  (`UncommittedWorkSurvives`), and deleting a commit leaves what is edited alone
  (`DeletingKeepsDocument`).

### DocumentHost

All documents of a database, the selection in memory and on disk, and requests that
arrive late and again.  `Issue` lets a caller read and make a request of any kind;
each handler may then run at any later time.  A refusal or a receipt's answer is a
stutter.  `RestoreBackup` brings revisions past every revision there was;
`Restart` loses memory and the callers.  The cursor is one revision, which
`VersionStore`'s `ChangesAdvance` justifies.

* `HostMatchesDisk`: the active document exists, is not archived, and is the one a
  restart opens.
* `EditsSeenContent`: an edit takes effect only on what its caller saw.
* `LateEditsDie`: an edit made in one visit is refused in all later ones, though
  `apply_document_command` checks no epoch; the revision that a departure takes is
  what refuses it.
* `EffectiveOnce`: a request takes effect at most once, also when a restore took its
  receipt away.

### NativeDocumentClient

One window's client against a host that others change, with every call split into
request, the host's answer, and the reply or its loss (`HostAnswers(lost)`,
`HostRefuses`).  `tail` is a sequence of operations; `Release` is the promise chain.
Branch and head are one number.

* `EditsLandWhereMade`: an edit lands in the document, context and session it was
  made in, whatever is switched in between.
* `ClientKnowsHost`: two states with one revision are one state
  (`OneStatePerRevision`); a status of "saved" means the client has what the host has,
  unless others changed it (`SavedMeansInStep`).
* `UnresolvedIsKept`: an edit carried out without its caller's knowledge is kept for
  the retry, until the page is reloaded.
* `EveryCallerHears`: each promise settles.

### DraftPersistence

The hook above the client, whose calls are single steps here.  `shown` is
`latestSnapshot`, with an identity of its own as in the code, where snapshots are
compared by reference; `target` is `latestTarget`; `queue` is `persistTail`; a
save sends one command per edit that differs, in any order.  `situation` says what
may happen in a behaviour: which edits and operations, whether calls fail, whether
another window writes.  One operation is in progress at a
time: `runVersionAction` has a flag, the dialogs of the others are modal.  A flush
with nothing to save takes no time: the saves that can be waiting then are of the
snapshot that was just saved.

* `CleanMeansSaved`: what the dirty flag lets a flush skip has been saved.
* `OperationsFindEverythingSaved`: an operation begins only when all that is shown
  at the end of its flush is saved.
* `UnseenChangesSurvive`: no save removes what another window wrote unseen.
* `OperationsEnd`, `EveryEditIsSettled`: operations end; what is typed is saved,
  replaced or reported (violated, see section 5).

### DocumentCommands and DocumentBridge

`DocumentCommands` are pure operators: `DocumentOf` and `Shown` are the two
conversions between the editor's snapshot and the host's document, `NextCommand` is
`nextDocumentCommand` with its order of comparisons, `Accepts` and `Apply` are what
the host's `apply_command_inner` does with one.  Where the code treats many fields
alike one stands for all: an entry has a plain field, an optional one and a body;
the layout is one number, which the host keeps with less precision (f32).

`DocumentBridge` saves with them what an editor does: `Edit` are the edits of the
workspace, a template or a reset; `StartSave`, `Submit`, `Saved`, `NotSaved` are the
loop of `runPersist`; `Load`, `Reopen` and `Confirm` replace what is shown.  Host and
client are one here, failing calls and other windows are in the modules above.

* `EveryCommandHelps`: as long as the documents differ there is a command, and the
  host takes it (`CommandsAreTaken`); it settles a difference and makes no new one, so a
  page closed in the middle of a save leaves a mixture of two documents and nothing
  else (`CommandsOnlyHelp`).
* `SavedComesBack`: what was saved is what a load shows.
* `EverythingIsSaved`: everything is saved in the end, though one save may send only
  `Limit` commands; `SavesConverge` (violated, section 5): one save is enough.

### AgentRun and AgentRunLedger

`AgentRun` is `agent_chat` from its admission to its end, a step per lock it takes:
`AgentChat`, `Check` (store), `Admit` (registry, with the store inside), `Begin`,
`Event` and `ProposalReady` while the gateway works, `Answer`, `Close` (leaves the
registry), `Judge`, `Publish` (the proposals are stored), `Settle` (the status), `Await`
(the run waits for its user, once for each proposal), `Finish` (and once more).  The last
four are transactions of their own, each under a store lock of its own
(`agent_run.rs:408-513`), and `FinishFails` is one of the last that fails.  With it
the commands that meet it: login and logout, each split at its locks, cancellation of
one run or of a token's, edits, switches, backup and restore (`RestoreDatabaseBackup`,
`RestoreSwaps`, `RestoreFails`), `Restart`, and what is done to its proposals from the
moment they are stored: `ConfirmProposal`, `RejectProposal`, `UndoConfirmedProposal`,
`ListAgentProposals` (those whose day is over).  A proposal here is a number in
`pending` or `undoable`; what is in it is the matter of `Proposals`.

`AgentRunLedger` is what the application promises of a run: a cancellation is
accepted before closing or not at all, and one that was accepted publishes nothing.

* `ImplementsLedger`: the locks, the registry and the checks implement the ledger.
* `RowsFollowCalls`: a row says "running" exactly as long as a call will settle it,
  through restarts and restored backups.
* `ProposalsFitTarget`: proposals are stored only in the database, visit and revision
  the run was started on.
* `RunsSettle`: a run waits for its user exactly as long as one of its proposals is
  pending.  Four places end a proposal, and each has to end the wait when it was the
  last.  The formula names what is excepted, and the model has all of it: between the
  storing of the proposals and the first word that the run waits (`Unsaid`) they can
  be seen and decided while the run is "running" or "completed"; if the process dies
  there, the write fails or a backup is taken there, proposals stay pending under a
  run that never waits; if the last of them is decided there, or between two of the
  last writes, the next write leaves the run waiting for nothing (`torn`).
  Nothing repairs either, but that an undo of one of its proposals ends such a wait.
* `EveryCallEnds`: every call ends, whoever holds the locks.

### AgentConversation

One window with its React state.  A state change renders at once and leaves its
effect (`effect`) for later, with the values of that render; effects run before the
next render's, as React runs them.  `scheduled` is the debounced write, `queue` the
chain `sessionWrites`, `failedTail` whether it is rejected, `heard` what each waiter
was told.  `Send` to `Answer` are the awaits of `runSendMessage`; `ChangeAccount` to
`Load` those of logging in and out; `Settle` to `SettleWritten` those of the guard
before a shutdown, an update or another document.  The host is who is logged in, what
is stored, and the one call in flight.

* `ConversationsStayApart`: nothing crosses from one account to another, and what a
  run says stays in the conversation of its question.
* `AskedBeforeAnswered`: a question is stored before the model is asked.
* `NothingSaidIsLost`: when nothing is under way, what is shown is stored
  (`QuietMeansStored`); the guard opens only when no call is out and all is stored
  (`SettledMeansStored`).
* `EveryWaitEnds`: sends, changes of account and shutdowns end.

### ProposalItems, ProposalReview and Proposals

`ProposalItems` is what the items of a proposal do to a section and take back
(`materialization.rs`): replace a body, delete an entry, set a text, commit.
`ProposalReview` is the promise (`docs/public-ipc-contract-v1.md:119`): decided once;
confirming applies what was chosen, on the resume it was shown with; undoing takes
exactly that back.  `Proposals` is the host's inbox with its receipts, and the window
with its client, which may lose answers and be reloaded with a call under way.
`Serve` carries out one request (`Confirm`, `Reject`, `Undo`, `Expire`, a receipt's
`Replay`, `Refuse`); `Decide` to `Restore` are the awaits of a decision in the window.

* `ImplementsReview`: host and window implement the promise.
* `UndoIsPossible`: a confirmed proposal nothing has touched since can be undone.
* `ToldIsTrue`: a decision is announced only when it was taken, with the host's
  resume on the screen.
* `ScreenFollowsClient`: a screen nobody has typed on goes on showing what the client
  has, so that a save sends nothing but the user's edits.  The run has the one failure
  that breaks this: the client has loaded the resume and the screen has not, because
  the host has moved on or the avatar cannot be read (`workspace.ts:72-86`).  It takes a
  decision the host has carried out, and nothing else parts the two; section 6 says
  what follows.
* `EveryDecisionEnds`: every decision ends and releases the guard.

### ExportSessions, AppUpdate and Exports

`ExportSessions` is the table of tickets: registration with its evictions, the guards
of `prepare_write`, `finish_write` and `abandon_write`, expiry, and the generation that
a restore ends.  `AppUpdate` is the state of updates under its one lock: phases, the
generation of a download and the handle that aborts it, the cache, the two gates of an
installation, and the counter of exports in flight.  `Exports` composes them: `Flow` is
`runDownloadResume` from the click to the notice, a step per await; a member of `calls`
is a command in the host, which goes on when its answer is lost or the page is loaded
again, a step per lock and per operation on a file.  Meanwhile the document is edited,
switched and restored, other programs change files, and tickets run out.

* `FilesAreReviewed`: only the revision the user approved is written, whatever changes
  between the locks, and a recorded file is left as others have made it since.
* `SavedIsRecorded`: who is told that all is saved finds it recorded, unless a restore
  has just replaced the database.
* `InstallCutsNothing`: when the process makes way for the installer no command of an
  export is under way, and the bytes are verified and of the version shown.
* `DownloadsCanBeStopped`: the download that runs is the one whose handle is held; any
  other has been told to stop.
* `EveryExportEnds`: exports and installations end, whatever answers are lost.

## 3. The runs

| run | instance | shows |
| --- | --- | --- |
| `version_store` | 3 branches, 2 contexts, 2 contents each way, 4 commits, revision 6 | the properties of the store |
| `document_host` | 3 requests of 7 kinds, 3 created documents and the default, revision 3, epoch 4, symmetric | the four properties of the host |
| `native_client` | 2 documents, 2 contexts, 1 edit, 1 waiting operation, 2 sessions, revision 2, fair | the four properties of the client |
| `draft_saves` | 3 edits, commit and close, calls may fail; or 1 edit, load, undo and import, another window; 2 operations, fair | flush and dirty flag; unseen changes; operations end whatever fails |
| `document_bridge` | 2 sections and the summary, 5 entry ids, 3 commands per save, 3 edits, loads or proposals in a row, fair | three properties of saving |
| `agent_run` | 1 run with up to 2 proposals, 2 documents, 2 logins, 3 visits, 1 edit each, 1 restore, fair | the ledger, rows, waiting, targets; no order of locks blocks |
| `agent_conversation` | 2 accounts, 2 conversations each, 1 message, 1 piece of answer, 1 refused write, 1 waiting write, fair | four properties of the conversation |
| `proposals` | 2 proposals of one run (delete two entries; a text and a commit), 2 places, revision 2, 1 page reload, fair | the review and four more |
| `exports` | 2 pages, 2 documents, 1 ticket; 2 exports and 2 incidents, or 1 export, 3 calls of the updater and 1 incident, or 5 calls; 2 releases, 2 installations, fair | five properties of exports and updates |

Three further runs end with a counterexample (section 5).

*Bounds, and why they are enough.*  Each is a conjunct of a guard and stands where
the code counts without end.

* Four commits are a chain with an inner commit and a fork; six revisions let every
  operation follow any two others.
* Two documents and epochs up to four give a departure, a return and a restore, which
  is what a late edit has to survive.  One edit before and one behind an operation are
  what a queue can confuse; three edits are one saved, one in the save, one typed
  during it.  `MaxAttempts` stands for the eight attempts of `flushDraft`.
* The bridge: three commands per save stand for 64 (`COMMAND_LIMIT`); an edit that
  needs more (a reset does, and moves do) is what the limit is about.  Three steps in
  a row reach each pair of edits with a load or a closed page between them.
* A run meets at most one restore, two logins and a departure with a return, and has two
  proposals, so that one is decided between the writes about the other; two runs
  were explored apart, and the proofs hold for any number.
* The conversation: one message is enough for every race of a send with its writes
  and with a change of account or conversation.  Two messages, two conversations and
  two waiting writes, six million states, were explored apart and showed nothing else.
* The proposals hold both orders in which two deletions take from one section, and a
  choice of part of the items.  All sequences of up to four of seven items on a section
  of three entries, with every choice, were compared with the reference definitions
  apart (734 853 cases).

* The exports: room for one ticket makes the second export evict the first or be
  refused.  An incident is what the code has no say in (an edit, a switch, a restore, a
  changed file, a lost answer, a page loaded again, time passing); two of them let a
  lost answer meet each other one.

*Deadlock* is not checked: every system here may stop, when bounds are used up, a
window is closed, or no user does anything.  Waiting for each other is what the
liveness properties find.

*Symmetry* is used for command ids and for edits, which nothing distinguishes, and
never with liveness.

*Fairness* is weak, and only of what goes on by itself.

* `NativeDocumentClient`: the host answers or refuses each call and the client takes
  its next step; the code awaits each call and Tauri settles every invocation.
* `DraftPersistence`: timers fire, promises settle, calls return or fail.
* `DocumentBridge`: a save goes on until it ends, and a failed one is retried.  It is
  written with `Pending` in the place of `ENABLED Persist`, which is the same.
* `AgentRun`: each lock is released and taken again (the standard mutex serves its
  waiters), the gateway's timeouts end each call, the main thread goes on.
* `AgentConversation`: timers, promises, effects and calls go on.  A send is one
  condition over its steps: one of them can be taken until it has ended.
* `Proposals`: requests are served or fail and the window goes on; nothing asks that
  the autosave runs, since a decision whose flush fails ends too.
* `Exports`: the window, each of its commands and the updater go on until the process
  exits.

Nothing makes the user type, retry, decide or start anything, and nothing makes a
call succeed.

## 4. What is proved

The proofs hold for every number of branches, commits, requests, documents, runs,
accounts, conversations, messages, proposals, releases, exports and pages.  They assume
what the modules' `ASSUME`s say: the start is among the values, `None` and its like are
not, bounds are naturals, the entries of a section are finitely many
(`ItemsAssumption`).  Each has a lemma per action, or per group of actions that
touch the same variables, a lemma for `Next`, and `PTL` for the temporal step.  Where a
theorem has a hypothesis besides these, it is named below.

* **VersionStore.**  `TypesStayCorrect`, `DocumentAlwaysOpens`, `HistoryStaysSound`,
  `EveryChangeAdvances`, `DeletingKeepsTheDocument`, `NothingEverLeaks`,
  `HistoriesStay`, `WorkAlwaysSurvives`.  `IInv` is types, current draft, content and
  sound history together: the active draft is needed to see that deleting a commit has
  something to keep, and sound history to see that the draft it makes exists.
  `Ancestry(heads, parent)` is the intersection of all sets that hold the heads and are
  closed under parents.  What a step keeps reachable therefore needs no induction:
  take any closed set of the state after it, put back what the step took away, and it
  is a closed set of the state before.  `NothingEverLeaks` assumes that every graph that
  may be imported reaches its own commits; `replace_version_store` accepts others, whose
  unreached commits then stay until the next deletion.
* **DocumentHost.**  `TypesStayCorrect`, `HostAlwaysMatchesDisk`,
  `EditsApplyToSeenContent`, `EditsDieWithTheirVisit`, `RequestsTakeEffectOnce`.
  `IInv` adds `Fence` (a request that could still pass saw what is there, in the
  present visit), `Bounded` and `MadeBefore` (no request or backup is ahead of the
  host), `DoneIsPast` (what took effect can pass no comparison again) and `Saved`
  (setting and memory agree).  The fence is the argument: a departure and a
  restore take a revision past everything any pending request holds.
* **NativeDocumentClient.**  `TypesHold`, `ChangesStayHome`, `NoDoubtIsForgotten`,
  `ChangesStayInTheirSession`, `ClientNeverDrifts`.  `IInv` adds what is in the queue
  (`Waiting`, `WaitingOnce`, `QueueFollowsLoad`), what is being sent (`InDoubt`: the
  envelope is that of the edit and its place that of the client), why there is a doubt
  (`DoubtIsJustified`), and that a receipt is of a command sent (`KnownToHost`).  For the
  last theorem `Known` says that whatever anyone holds (the client, a reply, a receipt)
  is true of the host at its revision (`HeldIsTrue`), that a first send has no
  receipt yet (`FirstSend`), and that a reply is the present state unless others have
  written since or a receipt is replayed (`ReplyIsPresent`).
* **DraftPersistence.**  `TypesStayCorrect` and `UnseenChangesAreKept` without
  condition: a save never takes out of the draft what another window put in and this one
  has not seen, because a revision is one state and a command in doubt expects the
  revision it was made on (`InStep`).  `CleanIsSaved` and `OperationsBeginSaved` prove
  properties that speak of `OneWindow`: the operations are commits and closing, and no
  other window writes.  `CInv` says that with a clean flag the client has what is shown
  and every job left is of it, and that jobs are in the order of what was shown.  The
  condition is needed: section 6 says what happens without it.
* **AgentRun.**  `TypesStayCorrect`, `RowsAreSettled`, `RunsAlwaysSettle`,
  `ProposalsAlwaysFit` and `RunsKeepTheLedger`, the refinement of `AgentRunLedger`, for
  any number of runs and proposals.
  `IInv` adds that what is in the registry is open (`RegistryIsOpen`), who may hold
  which lock (`LockHolders`), that a restore is alone (`RestoresAlone`), that a run of
  the present generation is of the present database (`SameDatabase`) and that what is
  published will be completed (`PublishedCompletes`).
* **AgentConversation.**  `TypesStayCorrect`, `ConversationsAreApart`,
  `QuestionsAreStored`, `NothingSaidIsEverLost`.  `IInv` says whose is what the screen,
  the effect, each waiting write and the store hold (`ScreenOK`, `EffectOK`, `WritesFit`,
  `StoresFit`), where the send, the change of account and the waits can be (`PlaceOK`,
  `RunOK`, `MarksOK`, `WaitsOK`), and follows one question (`QuestionOK`): until it is
  stored some write in the queue carries it, no later write of its account is without
  it, and the send waits for that write.  That nothing is lost follows what the screen
  shows: once the effect of a render has run, the timer, else the last write waiting,
  else the store has exactly that (`Newest`), and while the shutdown guard waits, the
  write it waits for is the last (`Settling`).
* **Proposals.**  `DecisionsStay`, a status never goes back and only a confirmation can
  still be undone; `DecisionsAlwaysStayInPlace`, a decision reaches only the resume its
  proposal was made for; `ScreenAlwaysFollows` and `WhatIsToldIsTrue`.  The window is at
  most one step of the host behind (`InStep`, `RequestsLag`).  A receipt names the revision its decision took
  (`ReceiptsAdvance`, `ReceiptsTell`), so a window that missed a confirmation finds
  it in the stored result, and one that has caught up (`CaughtUp`, `AskedOK`,
  `AfterAnswer`) has nothing left that could be decided behind its back.  Loads that
  fail between client and screen are among the steps: such a load ends in an error, so
  what is announced was shown when it was loaded (`LoadedIsShown`), and only typing
  can have changed it since.

  For sections of any length and proposals with any number of
  items: `ReviewIsKept`, the refinement of `ProposalReview`; `UndoAlwaysPossible`; and
  `TypesStayCorrect`.  `ContentInv` adds that a record says what its items do to the
  resume it was made for (`RecordsOK`), that what is asked for is items of the proposal
  (`ChosenOK`), and that what was confirmed fitted (`AcceptedOK`).  The rest of the
  argument is about items and resumes alone:
  1. A fold is where its steps lead (`AfterTrace`, `BackTrace`).  The library defines
     folds by recursion over sets; the proof shows that the function this recursion
     chooses exists, for sets of any size (`ApplyingExists`, `RevertingExists`).
  2. Putting an entry back where it was taken out restores the section
     (`RemoveInsert`), and what is left of a section is determined by its entries and
     the order they had (`WithoutAgrees`, `WithoutOnce`).
  3. The items of a proposal are about different entries (`Apart`), whichever of them
     were chosen (`PickedApart`).  So each finds its entry with the body it had, though
     perhaps at another place, and all of them together change what they name and
     nothing else (`OutcomeUpto`, `OutcomeAfter`).
  4. Taken back last first, each finds the section as it left it, so right after the
     confirmation the undo passes and gives the old resume (`UndoReady`); later, if it
     passes, it changes what the items touched and nothing else (`UndoRestores`).

  Each of these is an induction over the items.  The provers do not take an induction
  theorem, whose parameter is an operator; the lemmas take the least number at which
  the claim fails instead (`HasLeast`, `Reaches`), which needs none.
* **Exports.**  `TypesStayCorrect`, `InstallationsCutNothing`,
  `OnlyTheShownDownloadRuns`, `WritesStayInFlight`, `SavedMeansRecorded`,
  `OnlyReviewedFilesAreWritten`.  `UpdateInv` is about the updater alone: nothing but
  the check moves the phase during one (`CheckIsShown`), a generation is of one
  download (`Generations`), and "installing" is shown for just one call (`OneStarts`).
  `Base` adds the window and the commands: each call has a key of its own and the window
  awaits only what it sent (`Numbered`), and `flights` is the cardinality of
  the commands that hold a guard (`Counted`), hence zero where both gates have found
  it so (`NoFlights`).  `Inv` follows a write: its ticket has the cursor that was
  approved (`Reviewed`, `Ticketed`); each page has at most one writer, whose ticket
  stays unless a restore has come between (`InPlace`); what is about to be written
  has no receipt (`Unrecorded`); what was answered well has one (`Recorded`).

*Only model-checked.*  Liveness, which is out of the prover's reach: `EveryCallerHears`,
`OperationsEnd`, `EverythingIsSaved`, `EveryCallEnds`, `EveryWaitEnds`,
`EveryDecisionEnds`, `EveryExportEnds`.  All of `DocumentBridge`: its two
safety properties compare sections and their filtered orders, built with `SelectSeq`,
whose definition the prover does not open, and `NextCommand` chooses among filtered
sequences of sequences.  Every other safety property of a passing run is stated by a
theorem, and so are the types of every module but the bridge's.

## 5. Where the code and its words part

Each is a run that TLC ends with a counterexample.

| run | what happens | what says otherwise |
| --- | --- | --- |
| `every_edit_is_settled` | an edit typed while a commit is under way is never saved, under "saving" | `tests/unit/persistence.test.mjs:155` |
| `later_edits_stay` | what is typed while a proposal is undone is lost | `proposals.tsx:387`, `docs/NEXT_MAJOR_VERSION_PLAN.md:182` |
| `saves_converge` | a field 学院 that is filled and emptied again makes a save send the same command until it fails, and each later save | `documentBridge.ts:305` |

Five more were met on the way and have no run of their own.

* *A failed switch.*  A context switch whose reply is lost leaves the client behind
  the host, and its retry is refused (`tests/unit/persistence.test.mjs:469`).
  Deleting the first commit from another branch leaves the default branch without a
  head, and it cannot be entered (`history_mutations.rs:386`).
* *A stop that reaches nobody.*  `invokeAgentStream` looks at the signal once
  (`stream.ts:27`), waits for a timer and for the writes, and listens only later
  (`stream.ts:59`): a stop in between is shown as done
  (`overlay/sendMessage.tsx:634`) and the run goes on.  `Stop` has that step.
* *Last words of a conversation.*  Logging out waits for the writes chained so far
  and not for the send (`providerSettings.tsx:118`): what the send writes after that
  is refused and lost (against `sessions.ts:11`), and the chain stays rejected, so
  that every later change of account, update or change of document fails in
  `flushAgentSessionWrites` until the page is loaded again.
* *An update that is ready is not kept ready.*  `trust.rs:284` says that a manifest and
  a verified cache of the same version stay ready to install, but the comparison
  includes `cached`, which differs: each check takes a downloaded update back to
  "available".
* *A retry that writes over later changes.*  When the read-back of a file fails, no
  proof is left (`export_sessions.rs:377`), so the window's retry
  (`workspace/exports.tsx:330`) writes the file again over whatever another program
  has made of it, against `docs/public-ipc-contract-v1.md:211`.  `FilesAreReviewed`
  therefore speaks of recorded files.

## 6. What the models leave out

* *Client:* `createDocument`, a switch to the context already open, two overlapping
  first loads, two retries at once.
* *Draft persistence:* deletions of commits and branches, document transitions,
  browser-only events.  With a load or an undo whose avatar cannot be read, or another
  window that writes, `CleanMeansSaved` does not hold: the client takes in what the
  screen does not show, and the next save deletes it.  An import that fails leaves a
  failed request under a clean flag, and a save queued during the reload of an undo
  undoes it.
* *Bridge:* rich text and its conversion, details of presentation, `RestoreBasicFields`,
  migration of personal sites, templates without a résumé.  `SavedComesBack` excludes
  two things that do come back otherwise: hiding every section shows all again
  (`workspace/documents.tsx:66`), and an empty title of the summary becomes 自我评价.
  A template whose entry lacks a college, applied over an entry that was edited, leads
  to the same endless save as in section 5; the templates of the run have one.
* *Agent run:* storage calls that fail up to the status of the run, usage counters,
  partial text, the loop of model and tool calls inside a run.  A `finish_agent_run` that
  fails leaves the row running, with nobody to settle it before the next start.  The
  browser's host (`crates/zinecv-wasm/src/agent_host.rs:160-233`) has its own calls and
  never says that a run waits.
* *Conversation:* local skills, tools the window runs, settings of a provider, the
  revision of a session row, deleting a conversation.
* *Proposals:* the browser's own proposals, moves and added entries, assets,
  references to job materials, accounts.  What follows a load that the client has and
  the screen has not (`ReloadFails`, `RestoreFails`) is modelled and no property forbids
  it: the user is told of an error, and with the next thing typed the autosave sends all
  that differs, the old text among it, and so takes the decision back; the proposal
  stays confirmed.  The same failure in `SwitchPlace` belongs to `DraftPersistence`.  Two
  deletions in one section may not be acceptable one without the other
  (`docs/NEXT_MAJOR_VERSION_PLAN.md:176` has items chosen one by one); confirming one
  proposal of a run strands the others; after a lost answer to an undo the client is
  not loaded again.
* *Host:* who sent a request, writing the setting `active-document-id` by name, more
  than one backup.  Replacing the version graph deletes the drafts of the other
  editing contexts (`legacy_mapping.rs:213`) and refuses a document whose work is all
  committed, for want of a draft (`legacy_mapping.rs:168`).
* *Label of a save:* "saved" is shown when one save ends, though more has been typed
  (`useNativeResumePersistence.ts:109`).
* *Exports and updates:* rendering and the bytes of a file, builds without an update
  channel, `export_document_pdf` and the other commands that hold an export guard.
* *Everywhere:* wording, times, hashes, layout.

Not modelled at all: the *typesetting engine* and *previews* (geometry, beyond
enumeration), the *agent gateway* (I/O with providers; its outcomes are the answers
of `AgentRun`), *job materials, templates, settings, accounts* (rows written by single
transactions under compare-and-swap), *migrations* (one-off conversions), the *web
build* (the same store behind another transport), the *editor's own UI* (rendering).
*Document transitions*, *imports*, *resources* and the *render scheduler* have control
worth a model.

## 7. Plan

1. Done: the modules above, with proofs but for the bridge, and the refinements of
   `AgentRunLedger` and `ProposalReview` proved.
2. `ResourceStore`: nothing referenced or leased is collected.
3. `Imports`, then document transitions in `DraftPersistence`.
4. Proofs of what is added; those of the present modules are done as far as section 4
   says.
