------------------------------- MODULE Exports -------------------------------
(***************************************************************************)
(* Exports and updates together: the window's exports                       *)
(* (ui/app/workspace/exports.tsx with ui/app/ExportReviewHost.tsx), the        *)
(* commands they call (src-tauri/src/commands/rendering.rs over                *)
(* ExportSessions, export_io.rs and the store), and the installation of an     *)
(* update (ui/app/useAppUpdate.ts over AppUpdate), which must not cut one.      *)
(*                                                                         *)
(* The window has one export at a time.  A command goes on when its answer is    *)
(* lost or the page is loaded again.  The user edits and changes the document,   *)
(* another window edits, a full backup is restored, other programs change the    *)
(* files.  What the code has no say in is an incident; a budget bounds them.         *)
(*                                                                         *)
(* What a render makes of a state is that state: its document and revision,      *)
(* which no restore brings back (DocumentHost), and the database it is of.       *)
(* The places the user picks are distinct.                                      *)
(***************************************************************************)
EXTENDS AppUpdate, ExportSessions

CONSTANTS
    Document,
    FirstDocument,
    Other,         \* what another program has made of a file
    MaxExports,    \* bound: exports asked for
    Budgets        \* bounds: what the user asks for, and what else happens

ASSUME ExportsAssumption ==
    /\ FirstDocument \in Document /\ None # "preparing"
    /\ Page \subseteq Nat \ {0}
    /\ MaxExports \in Nat
    /\ Budgets \subseteq [exports: 0 .. MaxExports, calls: Nat, incidents: Nat]

VARIABLES
    active,     \* the document of the host
    revision,   \* documents.revision
    database,   \* not in the code: how many restores made this database
    client,     \* the window's confirmed document, revision and session epoch
    flow,       \* the export under way in the window
    asked,      \* not in the code: exports asked for
    approved,   \* not in the code: the cursor the user has approved for each
    told,       \* what the user was last told
    calls,      \* the commands under way in the host, or answered
    files,      \* what has been written for each export
    asking,     \* the window's installation: none, in preparation, or its call
    reloading,  \* a restore is about to load the page again
    budget      \* not in the code: the exports, calls and incidents to come

updates == <<update, flights, exited>>
world == <<active, revision, database>>
export == <<flow, asked, approved, told>>
window == <<client, export, asking, reloading>>
vars == <<updates, sessions, world, window, calls, files, budget>>

Export == 1 .. MaxExports

Cursor == [document: Document, revision: Nat]

Content == [cursor: Cursor, database: Nat]

Client == [cursor: Cursor, visit: Nat]

Idle == [stage |-> "idle"]

\* An export of the window: its number, the target at the click, the cursor it
\* is for, its ticket and bytes, the page being saved, how often it was tried,
\* how many are saved, and whether one was not recorded.
Flow == [n: Export, stage: {"flush", "check", "review", "render", "choose", "write", "end"},
         target: Client, cursor: Cursor, ticket: Nat, content: Content \cup {None},
         page: Page \cup {0}, attempt: 1 .. 2, saved: Nat, unrecorded: BOOLEAN]

Words == {"nothing", "saved", "unrecorded", "partly", "failed", "cancelled"}

Result == {"none", "ok", "unrecorded", "refused", "again"}

\* A command: for which export, page and attempt (none for the render), and what
\* it was given or has read.
Call == [n: Export, page: Page \cup {0}, attempt: 0 .. 2, cursor: Cursor, epoch: Nat,
         ticket: Nat, content: Content \cup {None}, verify: BOOLEAN,
         stage: {"sent", "checked", "frozen", "prepared", "replaced", "verified", "answered"},
         result: Result]

Init ==
    /\ UpdateInit
    /\ SessionsInit
    /\ active = FirstDocument
    /\ revision = [d \in Document |-> 0]
    /\ database = 0
    /\ client = [cursor |-> [document |-> FirstDocument, revision |-> 0], visit |-> 0]
    /\ flow = Idle
    /\ asked = 0
    /\ approved = [n \in Export |-> None]
    /\ told = "nothing"
    /\ calls = {}
    /\ files = [n \in Export |-> [p \in Page |-> None]]
    /\ asking = None
    /\ reloading = FALSE
    /\ budget \in Budgets

Spends(name) == budget[name] > 0 /\ budget' = [budget EXCEPT ![name] = @ - 1]

Happens == Spends("incidents")

-----------------------------------------------------------------------------
(* An export in the window.                                                *)

\* The cursor of the host, of the document that is open.
HostCursor == [document |-> active, revision |-> revision[active]]

\* sameCursor, with what the client has confirmed.
StillShown == flow.cursor = client.cursor

\* assertTarget.
TargetHolds ==
    /\ flow.target.visit = client.visit
    /\ flow.target.cursor.document = client.cursor.document
    /\ flow.target.cursor.revision <= client.cursor.revision

In(stage) == flow # Idle /\ flow.stage = stage

\* The export is over, whatever came of it, and the user is told.
Ends(word) ==
    /\ told' = word
    /\ flow' = [flow EXCEPT !.stage = "end"]

Fails == Ends(IF flow.saved > 0 THEN "partly" ELSE "failed")

beyond == <<updates, sessions, world, files, asking, reloading>>

\* begin, with the target of the click; the page is inert while an update is
\* being installed.
Click ==
    /\ flow = Idle /\ asking = None
    /\ Spends("exports")
    /\ asked' = asked + 1
    /\ flow' = [n |-> asked', stage |-> "flush", target |-> client, cursor |-> client.cursor,
                ticket |-> 0, content |-> None, page |-> 0, attempt |-> 1, saved |-> 0,
                unrecorded |-> FALSE]
    /\ told' = "nothing"
    /\ UNCHANGED <<beyond, client, approved, calls>>

\* Everything typed is saved and the state read again, if it is still the target.
Reads ==
    /\ In("flush")
    /\ IF TargetHolds /\ active = client.cursor.document
       THEN /\ client' = [client EXCEPT !.cursor = HostCursor]
            /\ flow' = [flow EXCEPT !.stage = "check", !.cursor = HostCursor]
            /\ UNCHANGED told
       ELSE Fails /\ UNCHANGED client
    /\ UNCHANGED <<beyond, asked, approved, calls, budget>>

\* The jobs have been read: the review is shown.
Checks ==
    /\ In("check")
    /\ IF StillShown THEN flow' = [flow EXCEPT !.stage = "review"] /\ UNCHANGED told ELSE Fails
    /\ UNCHANGED <<beyond, client, asked, approved, calls, budget>>

RenderCall ==
    [n |-> flow.n, page |-> 0, attempt |-> 0, cursor |-> flow.cursor, epoch |-> 0, ticket |-> 0,
     content |-> None, verify |-> FALSE, stage |-> "sent", result |-> "none"]

\* The user has read the review and goes on.
Approves ==
    /\ In("review")
    /\ IF StillShown
       THEN /\ approved' = [approved EXCEPT ![flow.n] = flow.cursor]
            /\ flow' = [flow EXCEPT !.stage = "render"]
            /\ calls' = calls \cup {RenderCall}
            /\ UNCHANGED told
       ELSE Fails /\ UNCHANGED <<approved, calls>>
    /\ UNCHANGED <<beyond, client, asked, budget>>

\* The user leaves the review, or picks no place.
Cancels ==
    /\ In("review") \/ In("choose")
    /\ Ends("cancelled")
    /\ UNCHANGED <<beyond, client, asked, approved, calls, budget>>

\* Mutant: the window does not hear the second answer to a write.
AwaitedOnce(c) ==
    \/ In("render") /\ c.n = flow.n /\ c.attempt = 0
    \/ In("write") /\ c.n = flow.n /\ c.page = flow.page /\ c.attempt = 1

\* The command whose answer the export waits for.
Awaited(c) ==
    \/ In("render") /\ c.n = flow.n /\ c.attempt = 0
    \/ In("write") /\ c.n = flow.n /\ c.page = flow.page /\ c.attempt = flow.attempt

Answered(c) == Awaited(c) /\ c.stage = "answered"

\* The frozen files have come; the checks of the output may still refuse them.
Receives(c) ==
    /\ In("render") /\ Answered(c)
    /\ \/ /\ c.result = "ok"
          /\ flow' = [flow EXCEPT !.stage = "choose", !.ticket = c.ticket, !.content = c.content]
          /\ UNCHANGED told
       \/ Fails
    /\ calls' = calls \ {c}
    /\ UNCHANGED <<beyond, client, asked, approved, budget>>

Lowest(pages) == CHOOSE p \in pages : \A q \in pages : p <= q

WriteCall(page, attempt) ==
    [RenderCall EXCEPT !.page = page, !.attempt = attempt, !.ticket = flow.ticket,
                       !.content = flow.content]

\* The user picks a place, and the first file is on its way.
Chooses ==
    /\ In("choose")
    /\ flow' = [flow EXCEPT !.stage = "write", !.page = Lowest(Page)]
    /\ calls' = calls \cup {WriteCall(Lowest(Page), 1)}
    /\ UNCHANGED <<beyond, client, asked, approved, told, budget>>

\* A file is saved: the next one, or the end.
SavesNext(c) ==
    LET more == {p \in Page : p > flow.page}
        now  == [flow EXCEPT !.saved = @ + 1, !.unrecorded = @ \/ c.result = "unrecorded"]
    IN  IF more # {}
        THEN /\ flow' = [now EXCEPT !.page = Lowest(more), !.attempt = 1]
             /\ calls' = (calls \ {c}) \cup {WriteCall(Lowest(more), 1)}
             /\ UNCHANGED told
        ELSE /\ flow' = [now EXCEPT !.stage = "end"]
             /\ told' = IF now.unrecorded THEN "unrecorded" ELSE "saved"
             /\ calls' = calls \ {c}

\* The exact same write is tried once more.
TriesAgain(rest) ==
    IF flow.attempt = 1
    THEN /\ flow' = [flow EXCEPT !.attempt = 2]
         /\ calls' = rest \cup {WriteCall(flow.page, 2)}
         /\ UNCHANGED told
    ELSE Fails /\ calls' = rest

\* Mutant: a write that has to be tried again counts as saved.
SavedSilently(c) == c.result # "refused"

\* The file is on the disk.
Saved(c) == c.result \in {"ok", "unrecorded"}

WriteAnswered(c) ==
    /\ In("write") /\ Answered(c)
    /\ IF Saved(c) THEN SavesNext(c)
       ELSE IF c.result = "again" THEN TriesAgain(calls \ {c})
       ELSE Fails /\ calls' = calls \ {c}
    /\ UNCHANGED <<beyond, client, asked, approved, budget>>

\* The answer is lost: the command may still be under way.
LosesAnswer(c) ==
    /\ Awaited(c)
    /\ Happens
    /\ LET rest == IF c.stage = "answered" THEN calls \ {c} ELSE calls
       IN  IF In("write") THEN TriesAgain(rest) ELSE Fails /\ calls' = rest
    /\ UNCHANGED <<beyond, client, asked, approved>>

\* The export is at its end; after a file has been saved the state is read again,
\* if that succeeds.
Leaves ==
    /\ In("end")
    /\ flow' = Idle
    /\ \/ UNCHANGED client
       \/ /\ flow.saved > 0
          /\ client.cursor.document = flow.cursor.document /\ client.cursor.document = active
          /\ client' = [client EXCEPT !.cursor = HostCursor]
    /\ UNCHANGED <<beyond, asked, approved, told, calls, budget>>

-----------------------------------------------------------------------------
(* The commands of an export.                                              *)

hosts == <<update, exited, world, window, budget>>

Becomes(c, d) == calls' = (calls \ {c}) \cup {d}

\* A command is over: its answer goes to the window, if that waits for it.
Answers(c, result) ==
    calls' = (calls \ {c}) \cup
             (IF Awaited(c) THEN {[c EXCEPT !.stage = "answered", !.result = result]} ELSE {})

\* An update is being installed.
TurnedAway(c) ==
    /\ c.stage = "sent" /\ ~Admits
    /\ Answers(c, "again")
    /\ UNCHANGED <<hosts, sessions, flights, files>>

Rendering(c, stage) == c.attempt = 0 /\ c.stage = stage

\* The host still has the cursor that was asked for.
CursorCurrent(c) == c.cursor = HostCursor

\* freeze_export.
Freezes(c) == CursorCurrent(c)

\* render_document_export, the first lock: the generation is read.
RenderBegins(c) ==
    /\ Rendering(c, "sent") /\ Admitted
    /\ CursorCurrent(c)
    /\ Becomes(c, [c EXCEPT !.stage = "checked", !.epoch = epoch])
    /\ UNCHANGED <<hosts, sessions, files>>

\* The cursor is no longer the host's, at the first lock or the second.
RenderRefused(c) ==
    /\ \/ Rendering(c, "sent") /\ Admits /\ ~CursorCurrent(c) /\ UNCHANGED flights
       \/ Rendering(c, "checked") /\ ~Freezes(c) /\ Landed
    /\ Answers(c, "refused")
    /\ UNCHANGED <<hosts, sessions, files>>

\* The second lock: the state is frozen, and then rendered.
RenderFreezes(c) ==
    /\ Rendering(c, "checked")
    /\ Freezes(c)
    /\ Becomes(c, [c EXCEPT !.stage = "frozen",
                            !.content = [cursor |-> HostCursor, database |-> database]])
    /\ UNCHANGED <<hosts, sessions, flights, files>>

\* register, and the answer.
RenderRegisters(c) ==
    /\ Rendering(c, "frozen")
    /\ Registers(c.epoch)
    /\ calls' = (calls \ {c}) \cup
                (IF Awaited(c)
                 THEN {[c EXCEPT !.stage = "answered", !.result = "ok", !.ticket = sequence']}
                 ELSE {})
    /\ Landed
    /\ UNCHANGED <<hosts, files>>

\* The engine fails, or the ticket is refused.
RenderFails(c) ==
    /\ Rendering(c, "frozen")
    /\ \/ RegisterRefuses(c.epoch)
       \/ UNCHANGED sessions
    /\ Answers(c, "refused")
    /\ Landed
    /\ UNCHANGED <<hosts, files>>

Writing(c, stage) == c.attempt > 0 /\ c.stage = stage

\* write_export_file: prepare_write.
WriteBegins(c) ==
    /\ Writing(c, "sent") /\ Admitted
    /\ Prepares(c.ticket, c.page)
    /\ Becomes(c, [c EXCEPT !.stage = "prepared", !.epoch = epoch,
                            !.verify = AlreadyWritten(c.ticket, c.page)])
    /\ UNCHANGED <<hosts, files>>

WriteRefused(c) ==
    /\ Writing(c, "sent") /\ Admits
    /\ ~Preparable(c.ticket, c.page)
    /\ Answers(c, IF Usable(c.ticket) THEN "again" ELSE "refused")
    /\ UNCHANGED <<hosts, sessions, flights, files>>

\* The new file takes the place of what is there, unless it has been written.
WriteReplaces(c) ==
    /\ Writing(c, "prepared")
    /\ files' = IF c.verify THEN files ELSE [files EXCEPT ![c.n][c.page] = c.content]
    /\ Becomes(c, [c EXCEPT !.stage = "replaced"])
    /\ UNCHANGED <<hosts, sessions, flights>>

\* The file is read back.
WriteVerifies(c) ==
    /\ Writing(c, "replaced")
    /\ files[c.n][c.page] = c.content
    /\ Becomes(c, [c EXCEPT !.stage = "verified"])
    /\ UNCHANGED <<hosts, sessions, flights, files>>

\* It is not what was written, or the disk or another program is in the way.
WriteFails(c) ==
    /\ \/ /\ Writing(c, "replaced") /\ files[c.n][c.page] # c.content
          /\ Answers(c, "refused")
          /\ UNCHANGED budget
       \/ /\ Writing(c, "prepared") \/ Writing(c, "replaced")
          /\ Happens
          /\ Answers(c, "again") \/ Answers(c, "refused")
    /\ Abandons(c.ticket, c.page)
    /\ Landed
    /\ UNCHANGED <<update, exited, world, window, files>>

\* finish_write: the receipt is stored, or the file remains without one.
WriteFinishes(c) ==
    /\ Writing(c, "verified")
    /\ \/ /\ Finishes(c.epoch, c.ticket, c.page, TRUE)
          /\ Answers(c, "ok")
          /\ UNCHANGED budget
       \/ /\ Finishes(c.epoch, c.ticket, c.page, FALSE)
          /\ Happens
          /\ Answers(c, "unrecorded")
       \/ /\ ~Finishable(c.epoch, c.ticket)
          /\ Answers(c, "unrecorded")
          /\ UNCHANGED <<sessions, budget>>
    /\ Landed
    /\ UNCHANGED <<update, exited, world, window, files>>

CommandStep ==
    \E c \in calls :
        \/ TurnedAway(c)
        \/ RenderBegins(c)
        \/ RenderRefused(c)
        \/ RenderFreezes(c)
        \/ RenderRegisters(c)
        \/ RenderFails(c)
        \/ WriteBegins(c)
        \/ WriteRefused(c)
        \/ WriteReplaces(c)
        \/ WriteVerifies(c)
        \/ WriteFails(c)
        \/ WriteFinishes(c)

-----------------------------------------------------------------------------
(* The world.                                                              *)

around == <<updates, calls, files>>

\* The user edits the document, and the edit is saved.
Edit ==
    /\ asking = None
    /\ client.cursor = HostCursor
    /\ Happens
    /\ revision' = [revision EXCEPT ![active] = @ + 1]
    /\ client' = [client EXCEPT !.cursor.revision = @ + 1]
    /\ UNCHANGED <<around, sessions, active, database, export, asking, reloading>>

\* Another window edits it.
Interferes ==
    /\ Happens
    /\ revision' = [revision EXCEPT ![active] = @ + 1]
    /\ UNCHANGED <<around, sessions, active, database, window>>

\* The user turns to another document; the one that is left has its revision
\* advanced, the client has another session.
Switches(d) ==
    /\ asking = None
    /\ d # active /\ client.cursor = HostCursor
    /\ Happens
    /\ active' = d
    /\ revision' = [revision EXCEPT ![active] = @ + 1]
    /\ client' = [cursor |-> [document |-> d, revision |-> revision[d]], visit |-> client.visit + 1]
    /\ UNCHANGED <<around, sessions, database, export, asking, reloading>>

\* restore_database_backup: another database, in which no old revision is found
\* again and there are no receipts of these exports; the window is to load again.
Restores ==
    /\ asking = None /\ ~reloading
    /\ Happens
    /\ revision' = [d \in Document |-> revision[d] + 1]
    /\ database' = database + 1
    /\ Invalidates
    /\ receipts' = {}
    /\ reloading' = TRUE
    /\ UNCHANGED <<around, active, client, export, asking>>

\* The page is loaded again: what the window was about is forgotten.
Loads ==
    /\ IF reloading THEN UNCHANGED budget ELSE Happens
    /\ reloading' = FALSE
    /\ client' = [cursor |-> HostCursor, visit |-> client.visit + 1]
    /\ flow' = Idle /\ told' = "nothing"
    /\ asking' = None
    /\ calls' = {c \in calls : c.stage # "answered"}
    /\ UNCHANGED <<updates, sessions, world, asked, approved, files>>

\* Another program changes a file that has been written.
FileChanges(n, p) ==
    /\ files[n][p] \notin {None, Other}
    /\ Happens
    /\ files' = [files EXCEPT ![n][p] = Other]
    /\ UNCHANGED <<updates, sessions, world, window, calls>>

TimePasses ==
    /\ Expires
    /\ Happens
    /\ UNCHANGED <<updates, world, window, calls, files>>

-----------------------------------------------------------------------------
(* An update in the window.                                                *)

page == <<sessions, world, client, export, calls, files, reloading>>

\* A check, a download or its cancellation is called for, or the cache is spoilt.
Calls ==
    /\ UpdateCall
    /\ Spends("calls")
    /\ UNCHANGED <<page, asking>>

\* isExporting, and one installation at a time.
Installable == flow = Idle /\ asking = None

\* The user asks for the installation: the page becomes inert.
AsksInstall ==
    /\ Installable
    /\ Phase({"ready"})
    /\ asking' = "preparing"
    /\ UNCHANGED <<page, updates, budget>>

\* Everything is settled and saved, and the host is called, or something fails.
Prepared ==
    /\ asking = "preparing"
    /\ \/ \E i \in Install : InstallBegins(i) /\ asking' = i
       \/ asking' = None /\ UNCHANGED updates
    /\ UNCHANGED <<page, budget>>

\* The host has given up: the window is as before.
InstallAnswered ==
    /\ asking \in Install
    /\ installs[asking] = NotAsked
    /\ asking' = None
    /\ UNCHANGED <<page, updates, budget>>

Update == UpdateStep /\ UNCHANGED <<page, asking, budget>>

-----------------------------------------------------------------------------
WindowStep ==
    \/ Reads
    \/ Checks
    \/ \E c \in calls : Receives(c) \/ WriteAnswered(c)
    \/ Leaves
    \/ reloading /\ Loads
    \/ Prepared
    \/ InstallAnswered

UserStep ==
    \/ Click
    \/ Approves
    \/ Cancels
    \/ Chooses
    \/ AsksInstall

Incident ==
    \/ \E c \in calls : LosesAnswer(c)
    \/ Edit
    \/ Interferes
    \/ \E d \in Document : Switches(d)
    \/ Restores
    \/ Loads
    \/ \E n \in Export, p \in Page : FileChanges(n, p)
    \/ TimePasses
    \/ Calls

\* Nothing happens in a process that has exited.
Next == ~exited /\ (WindowStep \/ CommandStep \/ Update \/ UserStep \/ Incident)

Spec == Init /\ [][Next]_vars

\* The window goes on, commands run to their end, and so do those of an update.
FairSpec ==
    /\ Spec
    /\ WF_vars(~exited /\ WindowStep)
    /\ WF_vars(~exited /\ CommandStep)
    /\ WF_vars(~exited /\ Update)

-----------------------------------------------------------------------------
TypeOK ==
    /\ UpdateTypeOK
    /\ SessionsTypeOK
    /\ active \in Document
    /\ revision \in [Document -> Nat]
    /\ database \in Nat
    /\ client \in Client
    /\ flow \in Flow \cup {Idle}
    /\ asked \in 0 .. MaxExports
    /\ approved \in [Export -> Cursor \cup {None}]
    /\ told \in Words
    /\ calls \subseteq Call
    /\ files \in [Export -> [Page -> Content \cup {None, Other}]]
    /\ asking \in Install \cup {None, "preparing"}
    /\ reloading \in BOOLEAN
    /\ budget \in [exports: 0 .. MaxExports, calls: Nat, incidents: Nat]

\* When the process makes way for the installer no command of an export is under
\* way, nor is the window that asks for it in the middle of one, and the bytes are
\* verified and of the version shown.  A page that was loaded again since may have
\* begun an export: its commands are refused.
InstallCutsNothing ==
    Phase({"installing"}) =>
        /\ flights = 0
        /\ \A c \in calls : c.stage \in {"sent", "answered"}
        /\ asking \in Install /\ installs[asking].stage = "grace" => flow = Idle
        /\ \E i \in Install : /\ installs[i].stage = "grace"
                              /\ installs[i].version = phase.target.version

\* Only one download runs, the one that can be cancelled; a cancelled one is told to
\* stop and no longer counts.
DownloadsCanBeStopped ==
    \A d \in downloads :
        Transferring(d) /\ ~d.aborted => Current(d) /\ task = d.generation

\* A write in flight keeps its ticket, unless another database takes the place of
\* this one, and no two of the same file are under way.
WritesKeepTheirTicket ==
    \A c \in calls :
        c.stage \in {"prepared", "replaced", "verified"} =>
            /\ c.epoch = epoch => c.ticket \in Held /\ Flying(c.ticket, c.page)
            /\ \A d \in calls :
                  d.stage \in {"prepared", "replaced", "verified"} /\ d.n = c.n /\ d.page = c.page
                  => d = c

\* Who is told that everything has been saved finds every file recorded, unless
\* the database has just been replaced.
SavedIsRecorded ==
    [][told' = "saved" /\ told # "saved" =>
          reloading \/ \A p \in Page : <<flow.ticket, p>> \in receipts]_vars

\* Whatever is edited, switched or restored while an export is under way, and however
\* often a write is tried, the program only writes the very revision the user has
\* approved, and never a file that is recorded: what another program has made of
\* that one stays.
FilesAreReviewed ==
    [][\A n \in Export, p \in Page :
          files[n][p] # files'[n][p] /\ files'[n][p] # Other =>
            /\ files'[n][p].cursor = approved[n]
            /\ \A c \in calls : c.n = n /\ c.page = p => <<c.ticket, p>> \notin receipts]_vars

\* Nothing but the user keeps an export or an installation from its end.
Working == asking # None \/ (flow # Idle /\ flow.stage \notin {"review", "choose"})

EveryExportEnds == Working ~> exited \/ ~Working
=============================================================================
