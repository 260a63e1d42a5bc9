--------------------------- MODULE DocumentBridge ---------------------------
(***************************************************************************)
(* Saving what the editor shows, command by command: the loop of runPersist *)
(* (src/platform/useNativeResumePersistence.ts), the edits of the workspace *)
(* (src/ui/app/useResumeEditing.ts, workspace/navigation.tsx and            *)
(* documents.tsx) that it has to bring to the host, and the way back when   *)
(* the document is loaded.                                                  *)
(*                                                                         *)
(* The host's document and the client's copy of it are one here: calls that *)
(* fail and others that write are NativeDocumentClient and DraftPersistence.*)
(* A page that is closed in the middle of a save leaves the document as far *)
(* as it has come.                                                          *)
(***************************************************************************)
EXTENDS DocumentCommands

CONSTANTS
    EntryId,       \* ids of entries
    Beginnings,    \* documents the host may hold at first
    Templates,     \* what an imported template fills the editor with
    Proposed,      \* commands of proposals the user may confirm
    Looks,         \* layouts, 0 .. Looks
    Limit,         \* COMMAND_LIMIT: commands of one save (64 in the code)
    MayClear,      \* whether the user empties an optional field of an entry
    MaxSteps       \* bound: edits, loads, proposals and closed pages

ASSUME BridgeAssumption ==
    /\ \A d \in Beginnings : Valid(d)
    /\ Limit \in Nat \ {0} /\ MaxSteps \in Nat /\ Looks \in Nat
    /\ MayClear \in BOOLEAN

VARIABLES
    document,   \* the document of the host, and nativeClient.snapshot
    shown,      \* workingSnapshot
    dirty,      \* dirty
    save,       \* the run of runPersist
    label,      \* the save state the user sees
    used,       \* not in the code: ids that have been given
    steps       \* not in the code: edits, loads, proposals and closed pages so far

vars == <<document, shown, dirty, save, label, used, steps>>

Entry == [id: EntryId, title: Text, college: Optional, body: Text]

Section == [id: Key, title: Text, visible: BOOLEAN, body: Text, entries: Seq(Entry)]

Basics == [name: Text, site: Optional, avatar: Avatar \cup {None}]

Document == [title: Text, basic: Basics, sections: Seq(Section), look: 0 .. Looks,
             template: BOOLEAN]

Snapshot == [title: Text, basic: Basics, entries: [Module -> Seq(Entry)], summary: Text,
             names: [Key -> Text], order: Seq(Key), look: 0 .. Looks, template: BOOLEAN]

Save == [desired: Document, sent: 0 .. Limit, later: BOOLEAN] \cup {None}

\* Ids that are not new: those of the documents and templates there are.
Known == UNION ({EntryIds(d) : d \in Beginnings}
                \cup {Ids(t.entries[key]) : t \in Templates, key \in Module})

Init ==
    /\ document \in Beginnings
    /\ shown = Shown(document)
    /\ dirty = TRUE /\ save = None /\ label = "loading"
    /\ used = Known
    /\ steps = 0

-----------------------------------------------------------------------------
(* Edits.                                                                  *)

\* A new working snapshot is rendered; one like the last is left out.
Render(next) ==
    /\ steps < MaxSteps /\ next # shown
    /\ steps' = steps + 1
    /\ shown' = next
    /\ dirty' = TRUE
    /\ save' = IF save = None THEN None ELSE [save EXCEPT !.later = TRUE]
    /\ UNCHANGED <<document, label>>

Retitle(text) == Render([shown EXCEPT !.title = text]) /\ UNCHANGED used

UpdateBasic(field, value) ==
    Render([shown EXCEPT !.basic[field] = value]) /\ UNCHANGED used

UpdateEntry(key, i, field, text) ==
    /\ i \in DOMAIN shown.entries[key]
    /\ field = "college" /\ ~MayClear => text # Empty
    /\ Render([shown EXCEPT !.entries[key][i][field] = text])
    /\ UNCHANGED used

\* addEntry: createEmptyEntry with a new id.
AddEntry(key, id) ==
    /\ id \notin used
    /\ used' = used \cup {id}
    /\ Render([shown EXCEPT !.entries[key] =
                  Append(@, [id |-> id, title |-> Empty, college |-> None, body |-> Empty])])

RemoveEntry(key, id) ==
    /\ Place(shown.entries[key], id) # 0
    /\ Render([shown EXCEPT !.entries[key] = Without(@, id)])
    /\ UNCHANGED used

\* SortableEntryList: an entry is put in another's place.
ReorderEntries(key, i, j) ==
    /\ {i, j} \subseteq DOMAIN shown.entries[key] /\ i # j
    /\ Render([shown EXCEPT !.entries[key] = Moved(@, @[i], j)])
    /\ UNCHANGED used

HideSection(key) ==
    /\ Contains(shown.order, key)
    /\ Render([shown EXCEPT !.order = SelectSeq(@, LAMBDA k : k # key)])
    /\ UNCHANGED used

\* showSection: before the summary when that is visible, else at the end.
ShowSection(key) ==
    LET i == SelectInSeq(shown.order, LAMBDA k : k = Summary)
    IN /\ ~Contains(shown.order, key)
       /\ Render([shown EXCEPT !.order = IF i = 0 THEN Append(@, key) ELSE InsertAt(@, i, key)])
       /\ UNCHANGED used

\* moveSection, reorderModule, commitModuleOrder.
ReorderSections(i, j) ==
    /\ {i, j} \subseteq DOMAIN shown.order /\ i # j
    /\ Render([shown EXCEPT !.order = InsertAt(RemoveAt(@, i), j, @[i])])
    /\ UNCHANGED used

RenameSection(key, text) == Render([shown EXCEPT !.names[key] = text]) /\ UNCHANGED used

WriteSummary(text) == Render([shown EXCEPT !.summary = text]) /\ UNCHANGED used

SetLayout(look) == Render([shown EXCEPT !.look = look]) /\ UNCHANGED used

\* resetResume.
ResetResume ==
    /\ Render([shown EXCEPT
            !.basic = [name |-> Empty, site |-> Empty, avatar |-> None],
            !.entries = [key \in Module |-> <<>>], !.summary = Empty,
            !.order = Keys, !.names = [key \in Key |-> Name], !.title = Name])
    /\ UNCHANGED used

\* applyImportedTemplate, with a template that has contents: everything but the
\* title of the document is replaced at once.
ApplyTemplate(template) ==
    /\ Render([Normalized(template) EXCEPT !.title = shown.title])
    /\ UNCHANGED used

Edit ==
    \/ \E text \in Text : Retitle(text) \/ WriteSummary(text)
    \/ \E field \in {"name", "site"}, text \in Text : UpdateBasic(field, text)
    \/ \E avatar \in Avatar \cup {None} : UpdateBasic("avatar", avatar)
    \/ \E key \in Module :
          \/ \E id \in EntryId : AddEntry(key, id) \/ RemoveEntry(key, id)
          \/ \E i \in DOMAIN shown.entries[key] :
                \/ \E field \in {"title", "college", "body"}, text \in Text :
                      UpdateEntry(key, i, field, text)
                \/ \E j \in DOMAIN shown.entries[key] : ReorderEntries(key, i, j)
    \/ \E key \in Key : HideSection(key) \/ ShowSection(key)
    \/ \E key \in Key, text \in Text : RenameSection(key, text)
    \/ \E i, j \in DOMAIN shown.order : ReorderSections(i, j)
    \/ \E look \in 0 .. Looks : SetLayout(look)
    \/ ResetResume
    \/ \E template \in Templates : ApplyTemplate(template)

-----------------------------------------------------------------------------
(* runPersist.                                                             *)

\* The autosave timer, a flush or the user's retry.
StartSave ==
    /\ save = None /\ dirty
    /\ save' = IF Convertible(shown)
               THEN [desired |-> DocumentOf(shown), sent |-> 0, later |-> FALSE]
               ELSE None
    /\ label' = IF Convertible(shown) THEN "saving" ELSE "failed"
    /\ UNCHANGED <<document, shown, dirty, used, steps>>

Remaining == NextCommand(document, save.desired)

CanSend == save.sent < Limit /\ Remaining # None /\ Accepts(document, Remaining)

\* One command is submitted and taken.
Submit ==
    /\ save # None /\ document # save.desired /\ CanSend
    /\ document' = Apply(document, Remaining)
    /\ save' = [save EXCEPT !.sent = @ + 1]
    /\ UNCHANGED <<shown, dirty, label, used, steps>>

\* The document is what was to be saved; what has been typed since is not.
Saved ==
    /\ save # None /\ document = save.desired
    /\ dirty' = save.later
    /\ save' = None /\ label' = "saved"
    /\ UNCHANGED <<document, shown, used, steps>>

\* The host refuses, no command is left, or there have been too many.
NotSaved ==
    /\ save # None /\ document # save.desired /\ ~CanSend
    /\ save' = None /\ label' = "failed"
    /\ UNCHANGED <<document, shown, dirty, used, steps>>

-----------------------------------------------------------------------------
(* The way back.                                                           *)

\* The workspace is loaded again when everything has been saved.
Load ==
    /\ save = None /\ ~dirty /\ steps < MaxSteps
    /\ shown' = Shown(document) /\ dirty' = TRUE
    /\ steps' = steps + 1
    /\ UNCHANGED <<document, save, label, used>>

\* The page is closed and opened again, whatever it was doing.
Reopen ==
    /\ steps < MaxSteps
    /\ shown' = Shown(document) /\ dirty' = TRUE /\ save' = None /\ label' = "loading"
    /\ steps' = steps + 1
    /\ UNCHANGED <<document, used>>

\* A proposal is confirmed: the draft is flushed, the host changes the document,
\* the workspace is loaded again.
Confirm(c) ==
    /\ save = None /\ ~dirty /\ steps < MaxSteps
    /\ Accepts(document, c)
    /\ document' = Apply(document, c)
    /\ used' = used \cup EntryIds(document')
    /\ shown' = Shown(document') /\ dirty' = TRUE
    /\ steps' = steps + 1
    /\ UNCHANGED <<save, label>>

Persist == StartSave \/ Submit \/ Saved \/ NotSaved

Next == Persist \/ Edit \/ Load \/ Reopen \/ \E c \in Proposed : Confirm(c)

Spec == Init /\ [][Next]_vars

\* There is something for Persist to do.
Pending == save # None \/ (dirty /\ (Convertible(shown) \/ label # "failed"))

\* A save goes on until it ends, and the user retries one that has failed.  This
\* is WF_vars(Persist) with Pending, which is the same, in the place of its ENABLED.
FairSpec == Spec /\ ([]<>~Pending \/ []<><<Persist>>_vars)

-----------------------------------------------------------------------------
(* Properties.                                                             *)

\* Documents and snapshots only hold values of their types; a document has each
\* section once and keeps its layout with the precision of the host.
TypeOK ==
    /\ document \in Document /\ shown \in Snapshot
    /\ Valid(document) /\ Ids(document.sections) = Key
    /\ document.look = Rounded(document.look)
    /\ dirty \in BOOLEAN /\ save \in Save
    /\ label \in {"loading", "saving", "saved", "failed"}
    /\ used \subseteq EntryId /\ steps \in 0 .. MaxSteps

\* The things in which a document differs from the one that is wanted.
OutOfPlace(current, desired) ==
    {i \in DOMAIN desired :
        \E j \in 1 .. i : j \notin DOMAIN current \/ current[j].id # desired[j].id}

Differences(current, desired) ==
    LET here == EntryIds(current)
        there == EntryIds(desired)
    IN  {x \in {"title", "look", "template"} \X {None} : current[x[1]] # desired[x[1]]}
        \cup {x \in {"basic"} \X DOMAIN desired.basic : current.basic[x[2]] # desired.basic[x[2]]}
        \cup {x \in {"title", "visible", "body"} \X Key :
                SectionOf(current, x[2])[x[1]] # SectionOf(desired, x[2])[x[1]]}
        \cup {"present"} \X ((here \ there) \cup (there \ here))
        \cup {x \in {"title", "college", "body"} \X (here \cap there) :
                EntryOf(current, x[2])[x[1]] # EntryOf(desired, x[2])[x[1]]}
        \cup {"place"} \X OutOfPlace(current.sections, desired.sections)
        \cup UNION {{k} \X OutOfPlace(SectionOf(current, k).entries, SectionOf(desired, k).entries)
                        : k \in Key}

\* Every command brings the document nearer to what is wanted: it settles a
\* difference and makes no new one, so that nothing that is in both documents is
\* touched and a page closed between two commands finds a mixture of the two.
\* (nextDocumentCommand against apply_command_inner.)
CommandsOnlyHelp ==
    [][save # None /\ document' # document =>
          LET before == Differences(document, save.desired)
              after == Differences(document', save.desired)
          IN after \subseteq before /\ after # before]_vars

\* The host takes every command the editor sends, and as long as the documents
\* differ there is one to send.
CommandsAreTaken ==
    save # None /\ document # save.desired =>
        Remaining # None /\ Accepts(document, Remaining)

\* So each command of a save is one the host carries out and one step nearer.
EveryCommandHelps == []CommandsAreTaken /\ CommandsOnlyHelp

\* What has been saved is what a load shows again: no edit is undone by the way
\* to the host and back.  runApplyVersionSnapshot puts defaults where no section
\* is visible or the summary has no title, which is left out here.
SavedComesBack ==
    save = None /\ ~dirty /\ shown.order # <<>> /\ shown.names[Summary] # Empty =>
        Shown(document) = [shown EXCEPT !.look = Rounded(@)]

\* A save of a few edits does not run out of commands (runPersist, COMMAND_LIMIT).
SavesConverge == save # None /\ document # save.desired => save.sent < Limit

\* Whatever has been typed is saved in the end, in as many attempts as COMMAND_LIMIT
\* makes it take, unless the document has lost its title.
EverythingIsSaved == []<>(~dirty \/ ~Convertible(shown))

=============================================================================
