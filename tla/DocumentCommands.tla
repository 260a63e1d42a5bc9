-------------------------- MODULE DocumentCommands --------------------------
(***************************************************************************)
(* How a snapshot of the editor becomes the commands that save it: the      *)
(* conversions between the editor's snapshot and the host's document        *)
(* (src/platform/documentBridge.ts, legacySnapshot.ts), the next command    *)
(* that brings one document nearer to another (nextDocumentCommand), and    *)
(* what the host does with a command (crates/zinecv-domain).                *)
(*                                                                         *)
(* A document has a section for every key.  Of the fields that are treated  *)
(* alike one stands for all: an entry has one plain field (title), one      *)
(* optional field (college) and a body; the basic information has a plain   *)
(* field, an optional one and the avatar.  A text is Empty or opaque, and   *)
(* rich text and its conversion are left out.  The layout is one number,    *)
(* which the host keeps with less precision than the editor (f32).          *)
(***************************************************************************)
EXTENDS Naturals, Sequences, SequencesExt

CONSTANTS
    Keys,      \* sectionKeys: all sections, in the order hidden ones are kept in
    Summary,   \* the section that has a body and no entries
    Text,      \* what may be typed into a field
    Empty,     \* the empty text
    Name,      \* the title a section has by default
    Avatar,    \* avatars
    None       \* null and undefined

Key == ToSet(Keys)
Module == Key \ {Summary}

ASSUME CommandsAssumption ==
    /\ IsInjective(Keys) /\ Summary \in Key
    /\ {Empty, Name} \subseteq Text /\ Empty # Name
    /\ None \notin Text /\ None \notin Avatar /\ Empty \notin Avatar

Optional == Text \cup {None}

-----------------------------------------------------------------------------
(* Finding things.                                                         *)

\* The place of the section or entry with this id, or 0.
Place(seq, id) == SelectInSeq(seq, LAMBDA x : x.id = id)

Ids(seq) == {seq[i].id : i \in DOMAIN seq}

SectionOf(document, key) == document.sections[Place(document.sections, key)]

\* All entries of a document, of whatever section.
EntryIds(document) == UNION {Ids(document.sections[i].entries) : i \in DOMAIN document.sections}

\* The first that is a command; None when there is none.
FirstOf(commands) ==
    LET i == SelectInSeq(commands, LAMBDA c : c # None)
    IN IF i = 0 THEN None ELSE commands[i]

\* The first command that Command finds for an element, in their order.
FirstFor(seq, Command(_)) == FirstOf([i \in DOMAIN seq |-> Command(seq[i])])

-----------------------------------------------------------------------------
(* What the editor shows, and the document it stands for.                  *)

\* nativeFloat32, and what is left of a layout in an f32 field.
Rounded(look) == look - (look % 2)

\* inspectLegacySnapshot: hidden sections follow the visible ones.
SectionOrder(order) == order \o SelectSeq(Keys, LAMBDA key : key \notin ToSet(order))

SectionFrom(shown, key) ==
    [id |-> key, title |-> shown.names[key], visible |-> Contains(shown.order, key),
     body |-> IF key = Summary THEN shown.summary ELSE Empty,
     entries |-> IF key = Summary THEN <<>> ELSE shown.entries[key]]

\* documentFromSnapshot; a snapshot without a title has no document.
Convertible(shown) == shown.title # Empty

\* Mutant: the layout keeps the precision of the editor.
DocumentOfUnrounded(shown) ==
    LET order == SectionOrder(shown.order)
    IN [title |-> shown.title, basic |-> shown.basic,
        sections |-> [i \in DOMAIN order |-> SectionFrom(shown, order[i])],
        look |-> shown.look, template |-> shown.template]

DocumentOf(shown) ==
    LET order == SectionOrder(shown.order)
    IN [title |-> shown.title, basic |-> shown.basic,
        sections |-> [i \in DOMAIN order |-> SectionFrom(shown, order[i])],
        look |-> Rounded(shown.look), template |-> shown.template]

\* Mutant: hidden sections are taken for visible.
VisibleAll(sections) == sections

Visible(sections) == SelectSeq(sections, LAMBDA s : s.visible)

\* snapshotFromDocument.
SnapshotOf(document) ==
    LET visible == Visible(document.sections)
    IN [title |-> document.title, basic |-> document.basic,
        entries |-> [key \in Module |-> SectionOf(document, key).entries],
        summary |-> SectionOf(document, Summary).body,
        names |-> [key \in Key |-> SectionOf(document, key).title],
        order |-> [i \in DOMAIN visible |-> visible[i].id],
        look |-> document.look, template |-> document.template]

\* runApplyVersionSnapshot, normalizeResumeState, normalizeSectionOrder: an
\* absent basic field is shown as empty, an empty optional one of an entry is
\* absent, the summary has a title, some section is visible.
Normalized(snapshot) ==
    [snapshot EXCEPT
        !.basic.site = IF @ = None THEN Empty ELSE @,
        !.entries = [key \in Module |->
            [i \in DOMAIN @[key] |->
                [@[key][i] EXCEPT !.college = IF @ = Empty THEN None ELSE @]]],
        !.names[Summary] = IF @ = Empty THEN Name ELSE @,
        !.order = IF @ = <<>> THEN Keys ELSE @]

\* What the editor shows when a document has been loaded.
Shown(document) == Normalized(SnapshotOf(document))

-----------------------------------------------------------------------------
(* nextDocumentCommand: in the order of the code.                          *)

\* A patch names the new value of each field that differs; null means no change.
Patch(old, new) == [f \in DOMAIN old |-> IF old[f] = new[f] THEN None ELSE new[f]]

Titling(current, desired) ==
    IF current.title = desired.title THEN None
    ELSE [type |-> "setDocumentTitle", title |-> desired.title]

\* basicPatchFrom: an empty string asks for the avatar to be removed.
BasicPatch(old, new) ==
    [Patch(old, new) EXCEPT !.avatar =
        IF old.avatar # None /\ new.avatar = None THEN Empty ELSE @]

Basic(current, desired) ==
    IF current.basic = desired.basic THEN None
    ELSE [type |-> "updateBasic", patch |-> BasicPatch(current.basic, desired.basic)]

\* entryFieldPatch.
Fields(entry) == [title |-> entry.title, college |-> entry.college]

EntryCommand(before, entry) ==
    LET i == Place(before.entries, entry.id)
        existing == before.entries[i]
    IN FirstOf(<<
        IF i # 0 THEN None
        ELSE [type |-> "addEntry", section |-> before.id, entry |-> entry],
        IF i = 0 \/ Fields(existing) = Fields(entry) THEN None
        ELSE [type |-> "updateEntryFields", entry |-> entry.id,
              patch |-> Patch(Fields(existing), Fields(entry))],
        IF i = 0 \/ existing.body = entry.body THEN None
        ELSE [type |-> "setEntryBody", entry |-> entry.id, body |-> entry.body]>>)

Deletion(section, old) ==
    IF Place(section.entries, old.id) # 0 THEN None
    ELSE [type |-> "deleteEntry", entry |-> old.id]

\* 1) The contents of a section.
Content(current, section) ==
    LET before == SectionOf(current, section.id)
    IN FirstOf(<<
        IF section.id # Summary \/ before.body = section.body THEN None
        ELSE [type |-> "setSummaryBody", section |-> section.id, body |-> section.body],
        FirstFor(section.entries, LAMBDA entry : EntryCommand(before, entry)),
        FirstFor(before.entries, LAMBDA old : Deletion(section, old))>>)

\* 2) Its visibility and title.
Heading(current, section) ==
    LET before == SectionOf(current, section.id)
    IN FirstOf(<<
        IF before.visible = section.visible THEN None
        ELSE [type |-> "setSectionVisibility", section |-> section.id,
              visible |-> section.visible],
        IF before.title = section.title THEN None
        ELSE [type |-> "renameSection", section |-> section.id, title |-> section.title]>>)

\* Mutant: the last place at which they differ.
MisplacedLast(current, desired) ==
    SelectLastInSeq([i \in DOMAIN desired |-> i],
        LAMBDA i : i \notin DOMAIN current \/ current[i].id # desired[i].id)

\* The first place at which two sequences hold different things, or 0.
Misplaced(current, desired) ==
    SelectInSeq([i \in DOMAIN desired |-> i],
        LAMBDA i : i \notin DOMAIN current \/ current[i].id # desired[i].id)

\* 3) The first section out of place.  Places count from 1.
SectionMove(current, desired) ==
    LET i == Misplaced(current.sections, desired.sections)
    IN IF i = 0 THEN None
       ELSE [type |-> "moveSection", section |-> desired.sections[i].id, index |-> i]

\* 4) The first entry out of place.
EntryMove(current, section) ==
    LET i == Misplaced(SectionOf(current, section.id).entries, section.entries)
    IN IF i = 0 THEN None
       ELSE [type |-> "moveEntry", entry |-> section.entries[i].id,
             section |-> section.id, index |-> i]

\* 5) and 6) The layout and the imported template.
Layout(current, desired) ==
    IF current.look = desired.look THEN None
    ELSE [type |-> "setLayout", look |-> desired.look]

Extensions(current, desired) ==
    IF current.template = desired.template THEN None
    ELSE [type |-> "setLegacyExtensions", template |-> desired.template]

NextCommand(current, desired) ==
    FirstOf(<<
        Titling(current, desired),
        Basic(current, desired),
        FirstFor(desired.sections, LAMBDA s : Content(current, s)),
        FirstFor(desired.sections, LAMBDA s : Heading(current, s)),
        SectionMove(current, desired),
        FirstFor(desired.sections, LAMBDA s : EntryMove(current, s)),
        Layout(current, desired),
        Extensions(current, desired)>>)

-----------------------------------------------------------------------------
(* The host: apply_command_inner.                                          *)

\* An option of the patch that is None leaves its field alone.
Patched(old, patch) == [f \in DOMAIN old |-> IF patch[f] = None THEN old[f] ELSE patch[f]]

\* An empty string clears an optional field of an entry, and the avatar.
Cleared(value) == IF value = Empty THEN None ELSE value

WithSection(document, key, Change(_)) ==
    [document EXCEPT !.sections =
        [i \in DOMAIN @ |-> IF @[i].id = key THEN Change(@[i]) ELSE @[i]]]

\* Change the entry with this id, wherever it is.
WithEntry(document, id, Change(_)) ==
    [document EXCEPT !.sections =
        [i \in DOMAIN @ |-> [@[i] EXCEPT !.entries =
            [j \in DOMAIN @ |-> IF @[j].id = id THEN Change(@[j]) ELSE @[j]]]]]

Without(seq, id) == SelectSeq(seq, LAMBDA x : x.id # id)

WithoutEntry(document, id) ==
    [document EXCEPT !.sections =
        [i \in DOMAIN @ |-> [@[i] EXCEPT !.entries = Without(@, id)]]]

Moved(seq, x, index) == InsertAt(Without(seq, x.id), index, x)

EntryOf(document, id) ==
    LET i == SelectInSeq(document.sections, LAMBDA s : Place(s.entries, id) # 0)
        entries == document.sections[i].entries
    IN entries[Place(entries, id)]

Apply(document, c) ==
    CASE c.type = "setDocumentTitle" -> [document EXCEPT !.title = c.title]
      [] c.type = "updateBasic" ->
            [document EXCEPT !.basic =
                [Patched(@, c.patch) EXCEPT !.avatar = Cleared(@)]]
      [] c.type = "setSummaryBody" ->
            WithSection(document, c.section, LAMBDA s : [s EXCEPT !.body = c.body])
      [] c.type = "addEntry" ->
            WithSection(document, c.section,
                LAMBDA s : [s EXCEPT !.entries = Append(@, c.entry)])
      [] c.type = "updateEntryFields" ->
            WithEntry(document, c.entry, LAMBDA e :
                [e EXCEPT !.title = IF c.patch.title = None THEN @ ELSE c.patch.title,
                          !.college = IF c.patch.college = None THEN @
                                      ELSE Cleared(c.patch.college)])
      [] c.type = "setEntryBody" ->
            WithEntry(document, c.entry, LAMBDA e : [e EXCEPT !.body = c.body])
      [] c.type = "deleteEntry" -> WithoutEntry(document, c.entry)
      [] c.type = "setSectionVisibility" ->
            WithSection(document, c.section, LAMBDA s : [s EXCEPT !.visible = c.visible])
      [] c.type = "renameSection" ->
            WithSection(document, c.section, LAMBDA s : [s EXCEPT !.title = c.title])
      [] c.type = "moveSection" ->
            [document EXCEPT !.sections = Moved(@, SectionOf(document, c.section), c.index)]
      [] c.type = "moveEntry" ->
            WithSection(WithoutEntry(document, c.entry), c.section,
                LAMBDA s : [s EXCEPT !.entries =
                    InsertAt(@, c.index, EntryOf(document, c.entry))])
      [] c.type = "setLayout" -> [document EXCEPT !.look = Rounded(c.look)]
      [] c.type = "setLegacyExtensions" -> [document EXCEPT !.template = c.template]

\* validate_document.
Valid(document) ==
    /\ document.title # Empty
    /\ IsInjective([i \in DOMAIN document.sections |-> document.sections[i].id])
    /\ \A i, j \in DOMAIN document.sections :
          LET a == document.sections[i].entries
              b == document.sections[j].entries
          IN \A m \in DOMAIN a, n \in DOMAIN b : a[m].id = b[n].id => i = j /\ m = n

\* The command names what is there and the document it leads to is valid.
Accepts(document, c) ==
    /\ c.type \in {"updateEntryFields", "setEntryBody", "deleteEntry", "moveEntry"} =>
          c.entry \in EntryIds(document)
    /\ c.type = "moveSection" => c.index \in DOMAIN document.sections
    /\ c.type = "moveEntry" =>
          c.index \in 1 .. Len(Without(SectionOf(document, c.section).entries, c.entry)) + 1
    /\ Valid(Apply(document, c))

=============================================================================
