---------------------------- MODULE VersionStore ----------------------------
(***************************************************************************)
(* The version graph and the drafts of one résumé document, as the SQLite  *)
(* store keeps them: crates/zinecv-storage/src/storage/{drafts, branches,  *)
(* snapshots, history_mutations, legacy_mapping}.rs.                        *)
(*                                                                         *)
(* Every operation of the store is one immediate SQLite transaction, so it *)
(* is one action here.  An operation is presented with the authority       *)
(* cursor its caller last read and refuses any other than the present one; *)
(* a refused operation rolls back, which is a stutter.                     *)
(*                                                                         *)
(* A whole résumé is one element of Content.  Snapshots are content        *)
(* addressed (their id is the hash of the document), so a snapshot is the  *)
(* content itself.  The titles, messages and timestamps of the rows are    *)
(* left out.                                                               *)
(***************************************************************************)
EXTENDS Naturals, FiniteSets

CONSTANTS
    Context,      \* ids of the editing contexts a document may have
    Workspace,    \* the context every document starts with
    Branch,       \* branch ids, drawn at random by the code
    Main,         \* default_branch_id(document): "main:<document>"
    Name,         \* branch names, case folded
    MainName,     \* the name "main"
    Content,      \* documents, up to their canonical hash
    SourceOf,     \* the context a content belongs to (its importedTemplate mark)
    Replacements, \* version graphs a user may import over the present one
    None,         \* SQL NULL, an absent row, an absent argument
    Deleted,      \* the name "__deleted__:<id>" a tombstoned branch is given
    MaxCommit,    \* bound: commits ever created
    MaxRevision   \* bound: document revisions

Commit == 1 .. MaxCommit
OptCommit == Commit \cup {None}

\* A version graph as the caller of replace_version_store supplies it.
Graph == [current: Branch,
          name: [Branch -> Name \cup {None}],
          head: [Branch -> OptCommit],
          parent: [Commit -> OptCommit],
          snapshotOf: [Commit -> Content \cup {None}]]

ASSUME ConstantsAssumption ==
    /\ Workspace \in Context /\ Main \in Branch /\ MainName \in Name
    /\ SourceOf \in [Content -> Context]
    /\ Replacements \subseteq Graph
    /\ MaxCommit \in Nat \ {0} /\ MaxRevision \in Nat

ASSUME NoneAssumption ==
    /\ None \notin Context \cup Branch \cup Name \cup Content \cup Nat
    /\ None \notin [revision: Nat, content: Content]
    /\ Deleted \notin Name \cup {None}

VARIABLES
    revision,    \* documents.revision
    current,     \* documents.current_branch_id
    active,      \* documents.active_context_id
    contexts,    \* the rows of editing_contexts
    name,        \* branches.name; None where there is no row, Deleted on a tombstone
    head,        \* branches.head_commit_id
    parent,      \* commit_links.visible_parent_id
    snapshotOf,  \* commits.snapshot_id; None where there is no row
    lastCommit,  \* the newest commit id: ids are never drawn twice
    snapshots,   \* the rows of snapshots
    draft        \* the rows of drafts, by context and branch

vars == <<revision, current, active, contexts, name, head, parent,
          snapshotOf, lastCommit, snapshots, draft>>

-----------------------------------------------------------------------------
(* Reading the tables.                                                     *)

Draft == [revision: Nat, content: Content]

Live == {b \in Branch : name[b] \in Name}

Commits == {c \in Commit : snapshotOf[c] # None}

HeadContent(b) == IF head[b] = None THEN None ELSE snapshotOf[head[b]]

\* load_cursor: what a caller must present to change the document.
Authority == [context |-> active, revision |-> revision,
              branch |-> current, head |-> head[current]]

\* load_current: the draft of the active context on the current branch, else
\* the content of the branch's head, else nothing.
CurrentContent ==
    IF draft[active][current] # None THEN draft[active][current].content
                                     ELSE HeadContent(current)

\* A draft that differs from the head of its branch is uncommitted work.
Dirty(x, b) == draft[x][b] # None /\ draft[x][b].content # HeadContent(b)

\* The heads and everything above them under the parent relation p: the
\* smallest set that holds the heads and is closed under p.
Ancestry(heads, p) ==
    {c \in Commit : \A S \in SUBSET Commit :
        (heads \subseteq S /\ \A d \in S : p[d] # None => p[d] \in S) => c \in S}

HeadsOf(branches, h) == {h[b] : b \in branches} \ {None}

History(b) == Ancestry(HeadsOf({b}, head), parent)

\* prune_unreferenced_snapshots, given the snapshots the commits refer to.
Referenced(s) == {s[c] : c \in Commit} \ {None}

-----------------------------------------------------------------------------
(* Operations.  Each takes the cursor its caller presents, e.              *)

Fresh(e) == e = Authority /\ revision < MaxRevision

\* Mutant: an operation that leaves the revision alone.
NoAdvance == UNCHANGED revision

Advance == revision' = revision + 1

\* The draft row an operation writes: it always carries the new revision.
Drafted(d) == [revision |-> revision + 1, content |-> d]

\* initialize_document_tx: a new document has one context, one branch, a draft
\* and a first commit with the draft's content.
Init ==
    \E d \in Content :
        /\ revision = 0
        /\ current = Main
        /\ active = Workspace
        /\ contexts = {Workspace}
        /\ name = [b \in Branch |-> IF b = Main THEN MainName ELSE None]
        /\ head = [b \in Branch |-> IF b = Main THEN 1 ELSE None]
        /\ parent = [c \in Commit |-> None]
        /\ snapshotOf = [c \in Commit |-> IF c = 1 THEN d ELSE None]
        /\ lastCommit = 1
        /\ snapshots = {d}
        /\ draft = [x \in Context |-> [b \in Branch |->
                      IF x = Workspace /\ b = Main
                      THEN [revision |-> 0, content |-> d] ELSE None]]

\* apply_command, for a command whose result is the document d.  The draft is
\* written whether or not it existed; without one the command starts from the
\* head, and a document with neither is refused.
ApplyCommand(e, d) ==
    /\ Fresh(e)
    /\ CurrentContent # None
    /\ draft' = [draft EXCEPT ![active][current] = Drafted(d)]
    /\ Advance
    /\ UNCHANGED <<current, active, contexts, name, head, parent,
                   snapshotOf, lastCommit, snapshots>>

\* commit_draft: the active draft becomes a commit on the current branch and
\* stops being a draft.
CommitDraft(e) ==
    LET c == lastCommit + 1
        d == draft[active][current].content
    IN  /\ Fresh(e) /\ c \in Commit
        /\ draft[active][current] # None
        /\ draft[active][current].revision = revision
        /\ d # HeadContent(current)
        /\ snapshots' = snapshots \cup {d}
        /\ snapshotOf' = [snapshotOf EXCEPT ![c] = d]
        /\ parent' = [parent EXCEPT ![c] = head[current]]
        /\ head' = [head EXCEPT ![current] = c]
        /\ lastCommit' = c
        /\ draft' = [draft EXCEPT ![active][current] = None]
        /\ Advance
        /\ UNCHANGED <<current, active, contexts, name>>

\* create_branch_from_current: the present content becomes the first commit of
\* a new branch, which becomes current.  A branch without a head first gets a
\* baseline commit of its own.
CreateBranch(e, n, b) ==
    LET d == CurrentContent
        baseline == lastCommit + 1
        base == IF head[current] = None THEN baseline ELSE head[current]
        c == IF head[current] = None THEN baseline + 1 ELSE baseline
    IN  /\ Fresh(e) /\ c \in Commit
        /\ name[b] = None
        /\ \A other \in Branch : name[other] # n
        /\ d # None
        /\ snapshots' = snapshots \cup {d}
        /\ snapshotOf' = [i \in Commit |->
                            IF i \in {baseline, c} THEN d ELSE snapshotOf[i]]
        /\ parent' = [parent EXCEPT ![c] = base]
        /\ head' = [head EXCEPT ![current] = base, ![b] = c]
        /\ name' = [name EXCEPT ![b] = n]
        /\ lastCommit' = c
        /\ draft' = [draft EXCEPT ![active][current] = None]
        /\ current' = b
        /\ Advance
        /\ UNCHANGED <<active, contexts>>

\* Mutant: the draft waiting on the target branch is not looked at.
SwitchWithoutLooking(b, discard) == Dirty(active, current) => discard

\* What switch_branch asks about drafts: uncommitted work here needs the
\* caller's consent, uncommitted work there is an error.
MaySwitch(b, discard) ==
    /\ Dirty(active, current) => discard
    /\ ~Dirty(active, b)

\* switch_branch: leaves the current branch for b.
SwitchBranch(e, b, discard) ==
    /\ Fresh(e)
    /\ b # current
    /\ head[current] # None
    /\ b \in Live /\ head[b] # None
    /\ MaySwitch(b, discard)
    /\ draft' = [draft EXCEPT ![active][current] = None, ![active][b] = None]
    /\ current' = b
    /\ Advance
    /\ UNCHANGED <<active, contexts, name, head, parent, snapshotOf,
                   lastCommit, snapshots>>

\* A context can be entered when there is something to edit in it: its draft on
\* this branch, the caller's document d on the first visit, the branch's head.
CanEnter(x, d) ==
    draft[x][current] = None => IF x \in contexts THEN head[current] # None ELSE d # None

\* Mutant: the draft found waiting keeps the revision it was left with.
StaleDraftEntering(x, d) ==
    IF draft[x][current] = None /\ x \notin contexts
    THEN [draft EXCEPT ![x][current] = Drafted(d)]
    ELSE draft

\* The drafts after entering x: a draft found or made there gets the new revision.
DraftEntering(x, d) ==
    IF draft[x][current] # None
    THEN [draft EXCEPT ![x][current] = Drafted(draft[x][current].content)]
    ELSE IF x \notin contexts
    THEN [draft EXCEPT ![x][current] = Drafted(d)]
    ELSE draft

\* switch_editing_context: makes context x active, registering it on the first
\* visit.
SwitchEditingContext(e, x, d) ==
    /\ Fresh(e)
    /\ x # active
    /\ CanEnter(x, d)
    /\ contexts' = contexts \cup {x}
    /\ draft' = DraftEntering(x, d)
    /\ active' = x
    /\ Advance
    /\ UNCHANGED <<current, name, head, parent, snapshotOf, lastCommit, snapshots>>

\* load_commit_into_draft: the content of an old commit becomes the draft of
\* the context that content belongs to, which becomes active.  No head moves.
LoadCommit(e, c) ==
    LET d == snapshotOf[c]
        x == SourceOf[d]
    IN  /\ Fresh(e)
        /\ c \in Commits
        /\ contexts' = contexts \cup {x}
        /\ active' = x
        /\ draft' = [draft EXCEPT ![x][current] = Drafted(d)]
        /\ Advance
        /\ UNCHANGED <<current, name, head, parent, snapshotOf, lastCommit,
                       snapshots>>

\* Mutant: what hung below the deleted commit loses the rest of its history.
Severed(c, p) == IF p = c THEN None ELSE p

\* Mutant: the references to the deleted commit stay.
Dangling(c, p) == p

\* The commit that takes the place of p when c is deleted.
Reconnected(c, p) == IF p = c THEN parent[c] ELSE p

\* The drafts when c is deleted: the document being edited keeps its content,
\* as a draft when it had none and c is the current head.
DraftKeeping(c) ==
    IF draft[active][current] # None
    THEN [draft EXCEPT ![active][current] = Drafted(draft[active][current].content)]
    ELSE IF head[current] = c
    THEN [draft EXCEPT ![active][current] = Drafted(snapshotOf[c])]
    ELSE draft

\* delete_commit: children and branch heads on the commit move to its parent.
DeleteCommit(e, c) ==
    /\ Fresh(e)
    /\ c \in Commits
    /\ draft[active][current] # None => draft[active][current].revision = revision
    /\ draft' = DraftKeeping(c)
    /\ parent' = [i \in Commit |-> IF i = c THEN None ELSE Reconnected(c, parent[i])]
    /\ head' = [b \in Branch |-> Reconnected(c, head[b])]
    /\ snapshotOf' = [snapshotOf EXCEPT ![c] = None]
    /\ snapshots' = snapshots \cap Referenced(snapshotOf')
    /\ Advance
    /\ UNCHANGED <<current, active, contexts, name, lastCommit>>

\* Mutant: the commits only the deleted branch reached stay.
NothingUnreachable(b) == Commits

\* The commits that outlive branch b: those a remaining branch reaches.
Outliving(b) == Ancestry(HeadsOf(Live \ {b}, head), parent)

\* delete_branch: the branch becomes a tombstone, its drafts go, and so do the
\* commits no other branch reaches.  m is the branch the document is on
\* afterwards: deleting the current branch moves to the one named "main".
DeleteBranch(e, b, m) ==
    LET leaving == b = current
    IN  /\ Fresh(e)
        /\ b \in Live /\ name[b] # MainName /\ b # Main
        /\ IF leaving THEN name[m] = MainName /\ head[m] # None /\ ~Dirty(active, m)
                      ELSE m = current
        /\ current' = m
        /\ draft' = [x \in Context |-> [i \in Branch |->
                       IF i = b THEN None
                       ELSE IF x # active \/ i # m \/ draft[x][i] = None THEN draft[x][i]
                       ELSE IF leaving THEN None
                       ELSE Drafted(draft[x][i].content)]]
        /\ name' = [name EXCEPT ![b] = Deleted]
        /\ head' = [head EXCEPT ![b] = None]
        /\ parent' = [i \in Commit |-> IF i \in Outliving(b) THEN parent[i] ELSE None]
        /\ snapshotOf' = [i \in Commit |-> IF i \in Outliving(b) THEN snapshotOf[i] ELSE None]
        /\ snapshots' = snapshots \cap Referenced(snapshotOf')
        /\ Advance
        /\ UNCHANGED <<active, contexts, lastCommit>>

\* What replace_version_store_tx demands of the graph it is given.  A parent
\* must be inserted before its children (foreign keys are immediate).
Acceptable(g) ==
    LET rows == {c \in Commit : g.snapshotOf[c] # None}
    IN  /\ \A b \in Branch : g.head[b] # None => g.name[b] # None /\ g.head[b] \in rows
        /\ \A c \in Commit : g.parent[c] # None => c \in rows /\ g.parent[c] \in rows
                                                   /\ g.parent[c] < c
        /\ \A b1, b2 \in Branch : g.name[b1] = g.name[b2] => b1 = b2 \/ g.name[b1] = None
        /\ g.name[Main] # None
        /\ g.name[g.current] # None

\* replace_version_store: the graph g takes the place of the whole version
\* graph; the active draft moves to g's current branch, the other drafts go.
ReplaceVersionStore(e, g) ==
    LET own == draft[active][current]
    IN  /\ Fresh(e)
        /\ own # None /\ own.revision = revision
        /\ Acceptable(g)
        /\ name' = g.name
        /\ head' = g.head
        /\ parent' = g.parent
        /\ snapshotOf' = g.snapshotOf
        /\ snapshots' = Referenced(g.snapshotOf)
        /\ \E newest \in {lastCommit} \cup {c \in Commit : g.snapshotOf[c] # None} :
             /\ \A c \in Commit : g.snapshotOf[c] # None => c <= newest
             /\ newest >= lastCommit
             /\ lastCommit' = newest
        /\ current' = g.current
        /\ draft' = [x \in Context |-> [b \in Branch |->
                       IF x = active /\ b = g.current
                       THEN Drafted(own.content)
                       ELSE None]]
        /\ Advance
        /\ UNCHANGED <<active, contexts>>

Next ==
    \/ \E d \in Content : ApplyCommand(Authority, d)
    \/ CommitDraft(Authority)
    \/ \E n \in Name, b \in Branch : CreateBranch(Authority, n, b)
    \/ \E b \in Branch, discard \in BOOLEAN : SwitchBranch(Authority, b, discard)
    \/ \E x \in Context, d \in Content \cup {None} : SwitchEditingContext(Authority, x, d)
    \/ \E c \in Commit : LoadCommit(Authority, c)
    \/ \E c \in Commit : DeleteCommit(Authority, c)
    \/ \E b, m \in Branch : DeleteBranch(Authority, b, m)
    \/ \E g \in Replacements : ReplaceVersionStore(Authority, g)

Spec == Init /\ [][Next]_vars

-----------------------------------------------------------------------------
(* Properties.                                                             *)

TypeOK ==
    /\ revision \in Nat
    /\ current \in Branch
    /\ active \in Context
    /\ contexts \subseteq Context
    /\ name \in [Branch -> Name \cup {None, Deleted}]
    /\ head \in [Branch -> OptCommit]
    /\ parent \in [Commit -> OptCommit]
    /\ snapshotOf \in [Commit -> Content \cup {None}]
    /\ lastCommit \in Commit
    /\ snapshots \subseteq Content
    /\ draft \in [Context -> [Branch -> Draft \cup {None}]]

\* The active draft always carries the document's revision.  load_current,
\* commit_draft, delete_commit and the restore check all refuse a document
\* whose draft does not (snapshots.rs:33, history_mutations.rs:238), so one
\* operation that forgot to carry the draft along would lock the document.
ActiveDraftIsCurrent ==
    draft[active][current] # None => draft[active][current].revision = revision

\* There is always something to open: load_active_document never ends in
\* MissingDraft (drafts.rs:33), whatever was deleted before.
DocumentHasContent == CurrentContent # None

\* So the document can be opened and edited after every sequence of operations.
DocumentOpens == ActiveDraftIsCurrent /\ DocumentHasContent

\* The rows refer to rows that exist: heads and parents to commits, the
\* document to a live branch and a registered context, drafts to live branches
\* and registered contexts; a parent is older than its child, so a history
\* never loops, and no commit id is drawn twice.
HistoryIsSound ==
    /\ current \in Live /\ active \in contexts
    /\ \A c \in Commits : c <= lastCommit
    /\ \A b \in Branch : head[b] # None => b \in Live /\ head[b] \in Commits
    /\ \A c \in Commit : parent[c] # None =>
          c \in Commits /\ parent[c] \in Commits /\ parent[c] < c
    /\ \A x \in Context, b \in Branch :
          draft[x][b] # None => x \in contexts /\ b \in Live

\* Nothing leaks and nothing dangles: the snapshots kept are exactly those of
\* the commits, and each commit is in the history of a live branch (so the
\* branch graph the user sees shows every commit that is stored).
NothingLeaks ==
    /\ snapshots = Referenced(snapshotOf)
    /\ Commits \subseteq Ancestry(HeadsOf(Live, head), parent)

\* What makes compare-and-swap on the cursor sound: a step that changes what is
\* edited, or the content itself, takes a revision never used before.
ChangesAdvance ==
    [][<<Authority, CurrentContent>>' # <<Authority, CurrentContent>>
         => revision' > revision]_vars

\* A branch that stays keeps its history, but for the one commit a user deletes
\* ("other branches' ancestors are kept", ARCHITECTURE_TARGET_CPLUS.md:28).
BranchesKeepHistory ==
    [][(\A g \in Replacements : ~ReplaceVersionStore(Authority, g)) =>
         \E gone \in Commits \cup {None} :
           /\ gone # None => DeleteCommit(Authority, gone)
           /\ \A b \in Live : name'[b] \in Name => History(b) \ {gone} \subseteq History(b)']_vars

\* Uncommitted work disappears only when the user consents: in a step that does
\* not ask (commit, new branch, plain switches, deleting a commit), a dirty
\* draft is still there afterwards or its content has become a commit.
UncommittedWorkSurvives ==
    [][\/ CommitDraft(Authority)
       \/ \E n \in Name, b \in Branch : CreateBranch(Authority, n, b)
       \/ \E b \in Branch : SwitchBranch(Authority, b, FALSE)
       \/ \E x \in Context, d \in Content \cup {None} : SwitchEditingContext(Authority, x, d)
       \/ \E c \in Commit : DeleteCommit(Authority, c)
       => \A x \in Context, b \in Branch : Dirty(x, b) =>
            \/ draft'[x][b] # None /\ draft'[x][b].content = draft[x][b].content
            \/ draft[x][b].content \in snapshots']_vars

\* Deleting a commit changes history, never the document being edited (the
\* test deleting_commit_reconnects_children_and_branch_heads_without_changing
\* _current_document, for every graph).
DeletingKeepsDocument ==
    [][\A c \in Commit : DeleteCommit(Authority, c) =>
         CurrentContent' = CurrentContent]_vars

\* Nothing the user has written is lost without a word.
WorkSurvives == UncommittedWorkSurvives /\ DeletingKeepsDocument
=============================================================================
