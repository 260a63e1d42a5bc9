---------------------------- MODULE DocumentHost ----------------------------
(***************************************************************************)
(* The host's active document: which of the résumés in the database the    *)
(* application is editing, and the epoch that tells one visit from the     *)
(* next.  src-tauri/src/commands/{session, documents, versions}.rs over     *)
(* storage/{settings, document_mutations, mutation_receipts, publication,   *)
(* backup}.rs.                                                              *)
(*                                                                         *)
(* A caller sends a request built from what it last read: the active        *)
(* document, its epoch and its cursor.  The request may reach the host any  *)
(* time later, and again when the caller retries it, while others switch,   *)
(* create, archive, back up and restore.  The handlers hold the Store lock  *)
(* from the first check to the reply, so each is one action; a refused      *)
(* request, and one answered from its receipt, change nothing.              *)
(*                                                                         *)
(* The cursor is reduced to its revision: VersionStore shows that every     *)
(* operation on a document advances it.  A document's content is the set of *)
(* the edits it includes.                                                   *)
(***************************************************************************)
EXTENDS Naturals

CONSTANTS
    Command,      \* command ids, each drawn by the caller for one request
    Default,      \* DEFAULT_DOCUMENT_ID, made at the first start
    None,         \* an absent row, setting or request
    Lost,         \* a request whose caller went away with the process
    Foreign,      \* a full database backup made on another machine
    MaxRevision,  \* bound: document revisions
    MaxEpoch      \* bound: epochs of one process

\* The document a command creates is named after it: "doc:<commandId>".
Doc == {Default} \cup Command

\* Foreign edits are those a database from elsewhere brings along.
Content == SUBSET (Command \cup {Foreign})

\* A row of documents, with the content its draft or head holds.
Row == [revision: Nat, archived: BOOLEAN, content: Content]

\* A database: the tables documents, settings.active-document-id and
\* command_receipts.
Database == [docs: [Doc -> Row \cup {None}], setting: Doc \cup {None},
             receipts: SUBSET Command]

NewRow(d) == [revision |-> 0, archived |-> FALSE, content |-> d]

\* The other machine has edited its default document once.
ForeignDatabase ==
    [docs |-> [d \in Doc |-> IF d = Default
                THEN [revision |-> 1, archived |-> FALSE, content |-> {Foreign}] ELSE None],
     setting |-> None, receipts |-> {}]

Kind == {"edit", "create", "copy", "switch", "replace", "archive", "unarchive"}

\* A request, with the authority its caller had read.  seen is not in the code:
\* it is the content the caller was looking at.
Request == [kind: Kind, doc: Doc, epoch: Nat, revision: Nat, target: Doc,
            seen: Content]

ASSUME ConstantsAssumption ==
    /\ Default \notin Command
    /\ MaxRevision \in Nat /\ MaxEpoch \in Nat

ASSUME NoneAssumption ==
    /\ None \notin Row \cup Request \cup Doc
    /\ Lost \notin Request \cup {None}

VARIABLES
    docs,      \* the rows of documents
    setting,   \* settings.active-document-id
    receipts,  \* the rows of command_receipts
    active,    \* ACTIVE_DOCUMENT: the document being edited
    epoch,     \* ACTIVE_DOCUMENT: its epoch
    backup,    \* the last full backup the user holds
    request,   \* the requests, by command id; None until issued
    done       \* not in the code: the requests that have taken effect

disk == <<docs, setting, receipts>>
vars == <<disk, active, epoch, backup, request, done>>

-----------------------------------------------------------------------------
Existing(rows) == {d \in Doc : rows[d] # None}

Available(rows) == {d \in Existing(rows) : ~rows[d].archived}

\* Where a process starts: the saved selection, if it can still be opened.
StartupChoice(rows, saved) == IF saved \in Available(rows) THEN saved ELSE Default

Pending(c) == request[c] \notin {None, Lost}

\* load_active_document: what document_state hands to a caller.
Read(k, t) ==
    [kind |-> k, doc |-> active, epoch |-> epoch, revision |-> docs[active].revision,
     target |-> t, seen |-> docs[active].content]

\* A first start.
Init ==
    /\ docs = [d \in Doc |-> IF d = Default THEN NewRow({}) ELSE None]
    /\ setting = None
    /\ receipts = {}
    /\ active = Default
    /\ epoch = 1
    /\ backup = ForeignDatabase
    /\ request = [c \in Command |-> None]
    /\ done = {}

\* A caller reads the state and builds a request from it.
Issue(c, k, t) ==
    /\ request[c] = None
    /\ k \notin {"switch", "archive", "unarchive"} => t = active
    /\ request' = [request EXCEPT ![c] = Read(k, t)]
    /\ UNCHANGED <<disk, active, epoch, backup, done>>

\* The document of the request is still the active one (require_active_document).
OnActive(c) == request[c].doc = active

\* The caller's expectedCurrentId and expectedEpoch are the host's.
InEpoch(c) == OnActive(c) /\ request[c].epoch = epoch

\* The caller's cursor is the document's.
CursorCurrent(c) == request[c].revision = docs[active].revision

NextEpoch == epoch < MaxEpoch /\ epoch' = epoch + 1

Advancing == docs[active].revision < MaxRevision

\* A row whose cursor is no longer valid.
Advanced(row) == [row EXCEPT !.revision = row.revision + 1]

\* Mutant: the host leaves the old document as it is.
NotLeft(rows) == rows

\* The documents once the active one is left.
Left(rows) == [rows EXCEPT ![active] = Advanced(rows[active])]

\* apply_document_command: an edit of the active document.
ApplyCommand(c) ==
    LET row == docs[active]
    IN  /\ Pending(c) /\ request[c].kind = "edit"
        /\ OnActive(c)
        /\ c \notin receipts
        /\ CursorCurrent(c) /\ Advancing
        /\ docs' = [docs EXCEPT ![active] =
                      [revision |-> row.revision + 1, archived |-> row.archived,
                       content |-> row.content \cup {c}]]
        /\ receipts' = receipts \cup {c}
        /\ done' = done \cup {c}
        /\ UNCHANGED <<setting, active, epoch, backup, request>>

\* replace_version_store: the version graph is replaced under the draft, which
\* counts as a new visit.
ReplaceVersionStore(c) ==
    /\ Pending(c) /\ request[c].kind = "replace"
    /\ OnActive(c) /\ CursorCurrent(c) /\ Advancing
    /\ docs' = [docs EXCEPT ![active] = Advanced(docs[active])]
    /\ NextEpoch
    /\ done' = done \cup {c}
    /\ UNCHANGED <<setting, receipts, active, backup, request>>

\* switch_active_document: the departure and the saved selection commit
\* together, then the host moves on.
SwitchActiveDocument(c) ==
    LET t == request[c].target
    IN  /\ Pending(c) /\ request[c].kind = "switch"
        /\ InEpoch(c) /\ Advancing
        /\ t \in Available(docs)
        /\ docs' = Left(docs)
        /\ setting' = t
        /\ active' = t
        /\ NextEpoch
        /\ done' = done \cup {c}
        /\ UNCHANGED <<receipts, backup, request>>

\* Mutant: a creation only asks for the active document it was sent from.
CreatableAnyTime(c) == OnActive(c)

\* The host conditions of a first execution.
Creatable(c) == InEpoch(c)

\* Mutant: the selection is left for a later call to save.
SelectedLater(d) == setting

\* The selection a creation saves.
Selected(d) == d

\* document_create: a blank document, or a copy of the active one, is created,
\* selected and receipted in one transaction.
CreateDocument(c) ==
    LET copy == request[c].kind = "copy"
    IN  /\ Pending(c) /\ request[c].kind \in {"create", "copy"}
        /\ c \notin receipts
        /\ Creatable(c) /\ Advancing
        /\ docs[c] = None
        /\ copy => active \in Available(docs)
        /\ docs' = [Left(docs) EXCEPT ![c] =
                      NewRow(IF copy THEN docs[active].content ELSE {})]
        /\ setting' = Selected(c)
        /\ receipts' = receipts \cup {c}
        /\ active' = c
        /\ NextEpoch
        /\ done' = done \cup {c}
        /\ UNCHANGED <<backup, request>>

\* document_archive and document_restore: flags a document, whatever the epoch.
SetArchived(c) ==
    LET t == request[c].target
        archiving == request[c].kind = "archive"
    IN  /\ Pending(c) /\ request[c].kind \in {"archive", "unarchive"}
        /\ c \notin receipts
        /\ t \in Existing(docs) /\ docs[t].archived = ~archiving
        /\ archiving => t # active
        /\ docs' = [docs EXCEPT ![t] = [docs[t] EXCEPT !.archived = archiving]]
        /\ receipts' = receipts \cup {c}
        /\ done' = done \cup {c}
        /\ UNCHANGED <<setting, active, epoch, backup, request>>

\* export_database_backup.
ExportBackup ==
    /\ backup' = [docs |-> docs, setting |-> setting, receipts |-> receipts]
    /\ UNCHANGED <<disk, active, epoch, request, done>>

\* Mutant: restored documents only outrun the backup.
OutrunsBackup(revision, newest) == revision + 1

\* The revision of a restored document: beyond the backup and the live database.
Outruns(revision, newest) == (IF revision > newest THEN revision ELSE newest) + 1

\* maximum_document_revision.
Newest(n) == /\ \E d \in Existing(docs) : docs[d].revision = n
             /\ \A d \in Existing(docs) : docs[d].revision <= n

\* restore_database_backup: the backup takes the place of the live database,
\* with every cursor invalidated and an open document, a, selected; newest is
\* the highest live revision.
RestoreBackup(a, newest) ==
    /\ Newest(newest)
    /\ a \in Available(backup.docs)
    /\ backup.setting \in Available(backup.docs) => a = backup.setting
    /\ \A d \in Existing(backup.docs) :
          Outruns(backup.docs[d].revision, newest) <= MaxRevision
    /\ docs' = [d \in Doc |->
                  IF backup.docs[d] = None THEN None
                  ELSE [revision |-> Outruns(backup.docs[d].revision, newest),
                        archived |-> backup.docs[d].archived,
                        content |-> backup.docs[d].content]]
    /\ setting' = a
    /\ receipts' = backup.receipts
    /\ active' = a
    /\ NextEpoch
    /\ UNCHANGED <<backup, request, done>>

\* The process ends, in order or not, and starts again: only the database is
\* left, and the requests die with the window that made them.
Restart ==
    /\ docs' = [docs EXCEPT ![Default] =
                  IF docs[Default] = None THEN NewRow({}) ELSE docs[Default]]
    /\ active' = StartupChoice(docs', setting)
    /\ epoch' = 1
    /\ request' = [c \in Command |-> IF request[c] = None THEN None ELSE Lost]
    /\ UNCHANGED <<setting, receipts, backup, done>>

Next ==
    \/ \E c \in Command, k \in Kind, t \in Doc : Issue(c, k, t)
    \/ \E c \in Command : ApplyCommand(c)
    \/ \E c \in Command : ReplaceVersionStore(c)
    \/ \E c \in Command : SwitchActiveDocument(c)
    \/ \E c \in Command : CreateDocument(c)
    \/ \E c \in Command : SetArchived(c)
    \/ ExportBackup
    \/ \E a \in Doc, newest \in 0 .. MaxRevision : RestoreBackup(a, newest)
    \/ Restart

Spec == Init /\ [][Next]_vars

-----------------------------------------------------------------------------
TypeOK ==
    /\ docs \in [Doc -> Row \cup {None}]
    /\ setting \in Doc \cup {None}
    /\ receipts \subseteq Command
    /\ active \in Doc
    /\ epoch \in Nat
    /\ backup \in Database
    /\ request \in [Command -> Request \cup {None, Lost}]
    /\ done \subseteq Command

\* The host and the disk agree: what is being edited can be opened, and a
\* process that dies now comes back to it.  The startup code's fallback to the
\* default document (lib.rs:162) is never what a user of this program sees.
HostMatchesDisk == active \in Available(docs) /\ StartupChoice(docs, setting) = active

\* An edit only ever changes the content its caller was looking at, on
\* whatever database is live by then: no switch, restore or retry brings an
\* old cursor back to life over other content (publication.rs:85, "A cursor
\* from either the live database or the backup must never become valid again").
EditsSeenContent ==
    [][\A c \in Command : ApplyCommand(c) => request[c].seen = docs[active].content]_vars

\* An edit takes effect in the visit it was made in or not at all, though
\* apply_document_command never looks at the epoch: leaving a document and
\* coming back invalidates what was sent before.
LateEditsDie ==
    [][\A c \in Command : ApplyCommand(c) => request[c].epoch = epoch]_vars

\* A retried request takes effect once, even when a restore has taken its
\* receipt away: "Identical retries never create again"
\* (public-ipc-contract-v1.md).  Archiving is not in the list: nothing but the
\* archived state guards it.
EffectiveOnce ==
    [][\A c \in Command :
         ApplyCommand(c) \/ ReplaceVersionStore(c) \/ SwitchActiveDocument(c)
           \/ CreateDocument(c)
         => c \notin done]_vars
=============================================================================
