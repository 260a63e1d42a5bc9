------------------------- MODULE VersionStoreProofs -------------------------
(***************************************************************************)
(* The version store keeps its types, its active draft up to date, its     *)
(* history sound and its document openable, for any number of contexts,    *)
(* branches, commits and contents; every commit stays reachable and every  *)
(* branch keeps its history.                                               *)
(*                                                                         *)
(* A commit is reachable when it is in every set that holds the heads and   *)
(* is closed under the parents (Ancestry).  So what a step keeps reachable   *)
(* is found without induction: a closed set of the state after it, with     *)
(* what the step took away put back, is a closed set of the state before.   *)
(***************************************************************************)
EXTENDS VersionStore, TLAPS

\* The inductive invariant.  ActiveDraftIsCurrent needs nothing else;
\* DocumentHasContent needs HistoryIsSound, for a head must be a commit that is
\* still there, and both need the types.
IInv == TypeOK /\ ActiveDraftIsCurrent /\ DocumentHasContent /\ HistoryIsSound

USE DEF Commit, OptCommit, Draft

\* An ancestry holds the commits it starts from.
LEMMA AncestryHolds ==
    ASSUME NEW heads \in SUBSET Commit, NEW p
    PROVE  heads \subseteq Ancestry(heads, p)
BY DEF Ancestry

\* An ancestry is closed under the parent relation.
LEMMA AncestryClosed ==
    ASSUME NEW heads \in SUBSET Commit, NEW p \in [Commit -> OptCommit],
           NEW c \in Ancestry(heads, p), p[c] # None
    PROVE  p[c] \in Ancestry(heads, p)
BY DEF Ancestry

\* A new document satisfies the invariant.
LEMMA InitEstablishes == Init => IInv
BY ConstantsAssumption, NoneAssumption
   DEF Init, IInv, TypeOK, ActiveDraftIsCurrent, DocumentHasContent, HistoryIsSound,
       CurrentContent, HeadContent, Live, Commits

LEMMA ApplyCommandKeeps ==
    ASSUME IInv, NEW d \in Content, ApplyCommand(Authority, d) PROVE IInv'
BY ConstantsAssumption, NoneAssumption
   DEF ApplyCommand, Drafted, Fresh, Advance, IInv, TypeOK, ActiveDraftIsCurrent,
       DocumentHasContent, HistoryIsSound, CurrentContent, HeadContent, Live, Commits

LEMMA CommitDraftKeeps ==
    ASSUME IInv, CommitDraft(Authority) PROVE IInv'
BY ConstantsAssumption, NoneAssumption
   DEF CommitDraft, Fresh, Advance, IInv, TypeOK, ActiveDraftIsCurrent,
       DocumentHasContent, HistoryIsSound, CurrentContent, HeadContent, Live, Commits

LEMMA CreateBranchKeeps ==
    ASSUME IInv, NEW n \in Name, NEW b \in Branch, CreateBranch(Authority, n, b)
    PROVE  IInv'
<1> DEFINE old == lastCommit + 1
           base == IF head[current] = None THEN old ELSE head[current]
           c == IF head[current] = None THEN old + 1 ELSE old
<1> USE ConstantsAssumption, NoneAssumption
<1>1. /\ c \in Commit /\ old \in Commit /\ base \in Commit /\ base < c
      /\ name[b] = None /\ b # current /\ head[b] = None /\ n \in Name
      /\ lastCommit < old /\ old <= c /\ snapshotOf[old] = None /\ snapshotOf[c] = None
      /\ CurrentContent \in Content
      /\ revision \in Nat
  BY DEF CreateBranch, IInv, TypeOK, DocumentHasContent, HistoryIsSound, CurrentContent,
         HeadContent, Live, Commits
<1>2. /\ snapshotOf' = [i \in Commit |-> IF i \in {old, c} THEN CurrentContent ELSE snapshotOf[i]]
      /\ parent' = [parent EXCEPT ![c] = base]
      /\ head' = [head EXCEPT ![current] = base, ![b] = c]
      /\ name' = [name EXCEPT ![b] = n]
      /\ draft' = [draft EXCEPT ![active][current] = None]
      /\ snapshots' = snapshots \cup {CurrentContent}
      /\ lastCommit' = c /\ current' = b /\ revision' = revision + 1
      /\ UNCHANGED <<active, contexts>>
  BY DEF CreateBranch, Advance
<1> HIDE DEF old, base, c
<1>3. TypeOK'
  <2>1. draft' \in [Context -> [Branch -> Draft \cup {None}]]
    BY <1>2 DEF IInv, TypeOK
  <2>2. /\ snapshotOf' \in [Commit -> Content \cup {None}]
        /\ parent' \in [Commit -> OptCommit] /\ head' \in [Branch -> OptCommit]
    BY <1>1, <1>2 DEF IInv, TypeOK
  <2>3. name' \in [Branch -> Name \cup {None, Deleted}]
    BY <1>1, <1>2 DEF IInv, TypeOK
  <2>4. /\ revision' \in Nat /\ current' \in Branch /\ active' \in Context
        /\ contexts' \subseteq Context /\ lastCommit' \in Commit /\ snapshots' \subseteq Content
    BY <1>1, <1>2 DEF IInv, TypeOK
  <2> QED
    BY <2>1, <2>2, <2>3, <2>4 DEF TypeOK
<1>4. draft'[active][b] = None
  BY <1>1, <1>2 DEF IInv, TypeOK, HistoryIsSound, Live
<1>5. ActiveDraftIsCurrent'
  BY <1>2, <1>4 DEF ActiveDraftIsCurrent
<1>6. DocumentHasContent'
  BY <1>1, <1>2, <1>4 DEF IInv, TypeOK, DocumentHasContent, CurrentContent, HeadContent
<1>7. HistoryIsSound'
  <2>1. Live' = Live \cup {b} /\ Commits' = Commits \cup {old, c}
    BY <1>1, <1>2 DEF IInv, TypeOK, Live, Commits
  <2>2. \A x \in Context, i \in Branch : draft'[x][i] # None => draft[x][i] # None
    BY <1>2 DEF IInv, TypeOK
  <2>3. base \in Commits \cup {old}
    BY DEF IInv, HistoryIsSound, TypeOK, base
  <2> QED
    BY <1>1, <1>2, <2>1, <2>2, <2>3 DEF IInv, TypeOK, HistoryIsSound
<1> QED
  BY <1>3, <1>5, <1>6, <1>7 DEF IInv

LEMMA SwitchBranchKeeps ==
    ASSUME IInv, NEW b \in Branch, NEW discard \in BOOLEAN,
           SwitchBranch(Authority, b, discard)
    PROVE  IInv'
<1> USE ConstantsAssumption, NoneAssumption
<1>1. /\ b \in Live /\ head[b] # None
      /\ draft' = [draft EXCEPT ![active][current] = None, ![active][b] = None]
      /\ current' = b /\ revision' = revision + 1
      /\ UNCHANGED <<active, contexts, name, head, parent, snapshotOf, lastCommit, snapshots>>
  BY DEF SwitchBranch, Advance
<1>2. /\ draft' \in [Context -> [Branch -> Draft \cup {None}]]
      /\ draft'[active][b] = None
      /\ \A x \in Context, i \in Branch : draft'[x][i] # None => draft[x][i] # None
  BY <1>1 DEF IInv, TypeOK
<1>3. TypeOK'
  BY <1>1, <1>2 DEF IInv, TypeOK
<1>4. ActiveDraftIsCurrent'
  BY <1>1, <1>2 DEF ActiveDraftIsCurrent
<1>5. DocumentHasContent'
  BY <1>1, <1>2 DEF IInv, TypeOK, DocumentHasContent, HistoryIsSound, CurrentContent,
                    HeadContent, Commits
<1>6. HistoryIsSound'
  BY <1>1, <1>2 DEF IInv, TypeOK, HistoryIsSound, Live, Commits
<1> QED
  BY <1>3, <1>4, <1>5, <1>6 DEF IInv

LEMMA SwitchEditingContextKeeps ==
    ASSUME IInv, NEW x \in Context, NEW d \in Content \cup {None},
           SwitchEditingContext(Authority, x, d)
    PROVE  IInv'
BY ConstantsAssumption, NoneAssumption
   DEF SwitchEditingContext, CanEnter, DraftEntering, Drafted, Fresh, Advance, IInv, TypeOK,
       ActiveDraftIsCurrent, DocumentHasContent, HistoryIsSound, CurrentContent,
       HeadContent, Live, Commits

LEMMA LoadCommitKeeps ==
    ASSUME IInv, NEW c \in Commit, LoadCommit(Authority, c)
    PROVE  IInv'
BY ConstantsAssumption, NoneAssumption
   DEF LoadCommit, Drafted, Fresh, Advance, IInv, TypeOK, ActiveDraftIsCurrent,
       DocumentHasContent, HistoryIsSound, CurrentContent, HeadContent, Live, Commits

LEMMA DeleteCommitKeeps ==
    ASSUME IInv, NEW c \in Commit, DeleteCommit(Authority, c)
    PROVE  IInv'
BY ConstantsAssumption, NoneAssumption
   DEF DeleteCommit, DraftKeeping, Drafted, Reconnected, Referenced, Fresh, Advance, IInv, TypeOK,
       ActiveDraftIsCurrent, DocumentHasContent, HistoryIsSound, CurrentContent,
       HeadContent, Live, Commits

LEMMA ReplaceVersionStoreKeeps ==
    ASSUME IInv, NEW g \in Replacements, ReplaceVersionStore(Authority, g)
    PROVE  IInv'
BY ConstantsAssumption, NoneAssumption
   DEF ReplaceVersionStore, Drafted, Acceptable, Graph, Referenced, Fresh, Advance, IInv, TypeOK,
       ActiveDraftIsCurrent, DocumentHasContent, HistoryIsSound, CurrentContent,
       HeadContent, Live, Commits

LEMMA DeleteBranchKeeps ==
    ASSUME IInv, NEW b \in Branch, NEW m \in Branch, DeleteBranch(Authority, b, m)
    PROVE  IInv'
<1> USE ConstantsAssumption, NoneAssumption
<1> DEFINE kept == Outliving(b)
<1>1. /\ b \in Live /\ m \in Live /\ m # b
      /\ b = current => head[m] # None
      /\ b # current => m = current
  BY DEF DeleteBranch, IInv, HistoryIsSound, Live
<1>2. /\ current' = m /\ revision' = revision + 1
      /\ draft' = [x \in Context |-> [i \in Branch |->
                     IF i = b THEN None
                     ELSE IF x # active \/ i # m \/ draft[x][i] = None THEN draft[x][i]
                     ELSE IF b = current THEN None ELSE Drafted(draft[x][i].content)]]
      /\ name' = [name EXCEPT ![b] = Deleted]
      /\ head' = [head EXCEPT ![b] = None]
      /\ parent' = [i \in Commit |-> IF i \in kept THEN parent[i] ELSE None]
      /\ snapshotOf' = [i \in Commit |-> IF i \in kept THEN snapshotOf[i] ELSE None]
      /\ snapshots' = snapshots \cap Referenced(snapshotOf')
      /\ UNCHANGED <<active, contexts, lastCommit>>
  BY DEF DeleteBranch, Advance
<1>3. /\ kept \subseteq Commit
      /\ \A i \in Branch : i \in Live \ {b} /\ head[i] # None => head[i] \in kept
      /\ \A i \in kept : parent[i] # None => parent[i] \in kept
  <2> DEFINE heads == HeadsOf(Live \ {b}, head)
  <2>1. heads \in SUBSET Commit
    BY DEF IInv, TypeOK, HeadsOf, Live
  <2>2. \A i \in Branch : i \in Live \ {b} /\ head[i] # None => head[i] \in heads
    BY DEF HeadsOf
  <2>3. parent \in [Commit -> OptCommit]
    BY DEF IInv, TypeOK
  <2>4. kept = Ancestry(heads, parent) /\ kept \subseteq Commit
    BY DEF Outliving, Ancestry
  <2> HIDE DEF heads
  <2> QED
    BY <2>1, <2>2, <2>3, <2>4, AncestryHolds, AncestryClosed
<1> HIDE DEF kept
<1>4. TypeOK'
  BY <1>2, <1>3 DEF IInv, TypeOK, Drafted
<1>5. ActiveDraftIsCurrent'
  BY <1>1, <1>2 DEF IInv, TypeOK, ActiveDraftIsCurrent, Drafted
<1>6. Live' = Live \ {b} /\ Commits' = Commits \cap kept
  BY <1>2, <1>3 DEF IInv, TypeOK, Live, Commits
<1>7. HistoryIsSound'
  BY <1>1, <1>2, <1>3, <1>6 DEF IInv, TypeOK, HistoryIsSound
<1>8. DocumentHasContent'
  <2>1. CASE draft'[active][m] # None
    BY <2>1, <1>2, <1>4 DEF TypeOK, DocumentHasContent, CurrentContent
  <2>2. CASE draft'[active][m] = None
    <3>1. head[m] # None /\ m # b
      BY <1>1, <1>2, <2>2 DEF IInv, TypeOK, DocumentHasContent, CurrentContent, HeadContent,
                             Drafted
    <3>2. head'[m] = head[m] /\ head[m] \in Commits /\ head[m] \in kept
      BY <1>1, <1>2, <1>3, <3>1 DEF IInv, TypeOK, HistoryIsSound
    <3> QED
      BY <1>2, <1>6, <2>2, <3>1, <3>2
      DEF DocumentHasContent, CurrentContent, HeadContent, Commits
  <2> QED
    BY <2>1, <2>2
<1> QED
  BY <1>4, <1>5, <1>7, <1>8 DEF IInv

\* Every step keeps the invariant.
LEMMA NextKeeps == IInv /\ [Next]_vars => IInv'
<1> SUFFICES ASSUME IInv, [Next]_vars PROVE IInv'
  OBVIOUS
<1>1. CASE Next
  BY <1>1, ApplyCommandKeeps, CommitDraftKeeps, CreateBranchKeeps, SwitchBranchKeeps,
     SwitchEditingContextKeeps, LoadCommitKeeps, DeleteCommitKeeps, DeleteBranchKeeps,
     ReplaceVersionStoreKeeps
  DEF Next
<1>2. CASE UNCHANGED vars
  BY <1>2 DEF vars, IInv, TypeOK, ActiveDraftIsCurrent, DocumentHasContent, HistoryIsSound,
              CurrentContent, HeadContent, Live, Commits
<1> QED
  BY <1>1, <1>2

LEMMA Invariance == Spec => []IInv
BY InitEstablishes, NextKeeps, PTL DEF Spec

-----------------------------------------------------------------------------
(* Reachability.                                                           *)

\* A set of commits with which every parent of a member is a member.
Closed(S, p) == \A d \in S : p[d] # None => p[d] \in S

\* An ancestry lies in every closed set that holds its heads.
LEMMA AncestryWithin ==
    ASSUME NEW heads, NEW p, NEW S \in SUBSET Commit, heads \subseteq S, Closed(S, p)
    PROVE  Ancestry(heads, p) \subseteq S
BY DEF Ancestry, Closed

\* To find a set in an ancestry it is enough to find it in each closed set.
LEMMA WithinAncestry ==
    ASSUME NEW heads, NEW p, NEW C \in SUBSET Commit,
           \A S \in SUBSET Commit : heads \subseteq S /\ Closed(S, p) => C \subseteq S
    PROVE  C \subseteq Ancestry(heads, p)
BY DEF Ancestry, Closed

\* A commit id that has not been drawn yet has no row.
LEMMA NewIdsAreFree ==
    ASSUME IInv, NEW c \in Commit, c > lastCommit
    PROVE  snapshotOf[c] = None /\ parent[c] = None
BY ConstantsAssumption, NoneAssumption DEF IInv, TypeOK, HistoryIsSound, Commits

\* A new commit has no parent before and its old head behind it afterwards:
\* what is closed afterwards was closed before.
LEMMA NewCommitsKeepClosed ==
    ASSUME IInv,
           \/ CommitDraft(Authority)
           \/ \E n \in Name, b \in Branch : CreateBranch(Authority, n, b),
           NEW S \in SUBSET Commit, Closed(S, parent')
    PROVE  Closed(S, parent)
<1> USE ConstantsAssumption, NoneAssumption
<1>1. PICK c \in Commit : /\ snapshotOf[c] = None
                          /\ \E base : parent' = [parent EXCEPT ![c] = base]
  <2>1. CASE CommitDraft(Authority)
    <3>1. lastCommit + 1 \in Commit /\ parent' = [parent EXCEPT ![lastCommit + 1] = head[current]]
      BY <2>1 DEF CommitDraft
    <3>2. lastCommit + 1 > lastCommit
      BY DEF IInv, TypeOK
    <3>3. snapshotOf[lastCommit + 1] = None
      BY <3>1, <3>2, NewIdsAreFree
    <3> QED
      BY <3>1, <3>3
  <2>2. CASE \E n \in Name, b \in Branch : CreateBranch(Authority, n, b)
    <3>1. PICK n \in Name, b \in Branch : CreateBranch(Authority, n, b)
      BY <2>2
    <3> DEFINE old == lastCommit + 1
               c == IF head[current] = None THEN old + 1 ELSE old
    <3>2. c \in Commit /\ c > lastCommit
      BY <3>1 DEF CreateBranch, IInv, TypeOK
    <3>3. \E base : parent' = [parent EXCEPT ![c] = base]
      BY <3>1 DEF CreateBranch
    <3>4. snapshotOf[c] = None
      BY <3>2, NewIdsAreFree
    <3> QED
      BY <3>2, <3>3, <3>4
  <2> QED
    BY <2>1, <2>2
<1>2. parent[c] = None
  BY <1>1 DEF IInv, TypeOK, HistoryIsSound, Commits
<1> QED
  BY <1>1, <1>2 DEF Closed, IInv, TypeOK

\* Deleting a commit reconnects around it: what was reached from some heads is
\* reached from the reconnected heads, but for the commit itself.
LEMMA DeleteCommitReconnects ==
    ASSUME IInv, NEW c \in Commit, DeleteCommit(Authority, c),
           NEW heads \in SUBSET Commit,
           NEW S \in SUBSET Commit, Closed(S, parent'),
           \A h \in heads : Reconnected(c, h) # None => Reconnected(c, h) \in S
    PROVE  Ancestry(heads, parent) \ {c} \subseteq S \ {c}
<1> USE NoneAssumption
<1> DEFINE reached == c \in heads \/ \E d \in S : d # c /\ parent[d] = c
           T == IF reached THEN S \cup {c} ELSE S \ {c}
<1>1. /\ c \in Commits
      /\ \A d \in Commit : parent'[d] = IF d = c THEN None ELSE Reconnected(c, parent[d])
      /\ parent \in [Commit -> OptCommit]
      /\ parent[c] # None => parent[c] < c /\ parent[c] \in Commit
      /\ None \notin Commit
  BY DEF DeleteCommit, IInv, TypeOK, HistoryIsSound, Commits
<1>2. heads \subseteq T
  BY <1>1 DEF Reconnected
<1>3. Closed(T, parent)
  <2> SUFFICES ASSUME NEW d \in T, parent[d] # None PROVE parent[d] \in T
    BY DEF Closed
  <2>1. CASE d # c
    <3>1. d \in S /\ parent'[d] = Reconnected(c, parent[d]) /\ d \in Commit
      BY <2>1, <1>1
    <3>2. CASE parent[d] = c
      BY <2>1, <3>1, <3>2
    <3>3. CASE parent[d] # c
      <4>1. parent'[d] = parent[d]
        BY <3>1, <3>3 DEF Reconnected
      <4> QED
        BY <3>1, <3>3, <4>1 DEF Closed
    <3> QED
      BY <3>2, <3>3
  <2>2. CASE d = c
    <3>1. reached /\ parent[c] # c
      BY <2>2, <1>1
    <3>2. parent[c] \in S
      <4>1. CASE c \in heads
        BY <2>2, <4>1 DEF Reconnected
      <4>2. CASE \E e \in S : e # c /\ parent[e] = c
        <5>1. PICK e \in S : e # c /\ parent[e] = c
          BY <4>2
        <5>2. parent'[e] = parent[c]
          BY <1>1, <5>1 DEF Reconnected
        <5> QED
          BY <2>2, <5>1, <5>2 DEF Closed
      <4> QED
        BY <3>1, <4>1, <4>2
    <3> QED
      BY <2>2, <3>1, <3>2
  <2> QED
    BY <2>1, <2>2
<1>4. T \in SUBSET Commit
  OBVIOUS
<1> HIDE DEF T
<1>5. Ancestry(heads, parent) \subseteq T
  BY <1>2, <1>3, <1>4, AncestryWithin
<1> QED
  BY <1>5 DEF T

\* Deleting a branch keeps all that the other branches reach.
LEMMA DeleteBranchKeepsOthers ==
    ASSUME IInv, NEW b \in Branch, NEW m \in Branch, DeleteBranch(Authority, b, m),
           NEW heads, heads \subseteq HeadsOf(Live \ {b}, head),
           NEW S \in SUBSET Commit, Closed(S, parent'), heads \subseteq S
    PROVE  Ancestry(heads, parent) \subseteq S
<1> DEFINE others == HeadsOf(Live \ {b}, head)
           kept == Ancestry(others, parent)
<1>1. /\ others \in SUBSET Commit /\ kept \subseteq Commit
      /\ parent \in [Commit -> OptCommit]
      /\ \A d \in Commit : parent'[d] = IF d \in kept THEN parent[d] ELSE None
  BY DEF DeleteBranch, Outliving, IInv, TypeOK, HeadsOf, Ancestry, Live
<1> HIDE DEF others
<1>2. others \subseteq kept /\ \A d \in kept : parent[d] # None => parent[d] \in kept
  BY <1>1, AncestryHolds, AncestryClosed
<1> HIDE DEF kept
<1>3. heads \subseteq S \cap kept
  BY <1>2 DEF others
<1>4. Closed(S \cap kept, parent)
  BY <1>1, <1>2 DEF Closed
<1>5. Ancestry(heads, parent) \subseteq S \cap kept
  BY <1>1, <1>3, <1>4, AncestryWithin
<1> QED
  BY <1>5

-----------------------------------------------------------------------------
(* The theorems.                                                           *)

\* The tables only ever hold rows of their types.
THEOREM TypesStayCorrect == Spec => []TypeOK
<1>1. IInv => TypeOK
  BY DEF IInv
<1> QED
  BY <1>1, Invariance, PTL

\* Whatever is committed, branched, loaded, deleted or replaced, the document
\* can be opened: load_active_document finds a draft or a head, and a draft that
\* carries the document's revision, so that no caller with a fresh cursor is
\* refused because the store disagrees with itself.
THEOREM DocumentAlwaysOpens == Spec => []DocumentOpens
<1>1. IInv => DocumentOpens
  BY DEF IInv, DocumentOpens
<1> QED
  BY <1>1, Invariance, PTL

\* Heads, parents, drafts and the document's own references never dangle, and no
\* history loops.
THEOREM HistoryStaysSound == Spec => []HistoryIsSound
<1>1. IInv => HistoryIsSound
  BY DEF IInv
<1> QED
  BY <1>1, Invariance, PTL

\* Compare-and-swap on the cursor is sound: whatever changes the cursor or the
\* content takes a new revision, so a cursor read before the change never
\* matches after it.
THEOREM EveryChangeAdvances == Spec => ChangesAdvance
<1> DEFINE A == <<Authority, CurrentContent>>' # <<Authority, CurrentContent>>
                  => revision' > revision
<1>1. IInv /\ [Next]_vars => [A]_vars
  <2> SUFFICES ASSUME IInv, Next PROVE A
    BY DEF vars
  <2>1. /\ \A d : ApplyCommand(Authority, d) => Advance
        /\ CommitDraft(Authority) => Advance
        /\ \A n, b : CreateBranch(Authority, n, b) => Advance
        /\ \A b, discard : SwitchBranch(Authority, b, discard) => Advance
    BY DEF ApplyCommand, CommitDraft, CreateBranch, SwitchBranch
  <2>2. /\ \A x, d : SwitchEditingContext(Authority, x, d) => Advance
        /\ \A c : LoadCommit(Authority, c) => Advance
        /\ \A c : DeleteCommit(Authority, c) => Advance
    BY DEF SwitchEditingContext, LoadCommit, DeleteCommit
  <2>3. /\ \A b, m : DeleteBranch(Authority, b, m) => Advance
        /\ \A g : ReplaceVersionStore(Authority, g) => Advance
    BY DEF DeleteBranch, ReplaceVersionStore
  <2>4. Advance
    BY <2>1, <2>2, <2>3, Zenon DEF Next
  <2> QED
    BY <2>4 DEF IInv, TypeOK, Advance
<1> QED
  BY <1>1, Invariance, PTL DEF Spec, ChangesAdvance

\* Deleting a commit never changes the document being edited.
THEOREM DeletingKeepsTheDocument == Spec => DeletingKeepsDocument
<1> DEFINE A == \A c \in Commit : DeleteCommit(Authority, c)
                                   => CurrentContent' = CurrentContent
<1>1. IInv => A
  <2> SUFFICES ASSUME IInv, NEW c \in Commit, DeleteCommit(Authority, c)
               PROVE  CurrentContent' = CurrentContent
    OBVIOUS
  <2> USE NoneAssumption
  <2>1. CASE draft[active][current] # None
    BY <2>1 DEF IInv, TypeOK, DeleteCommit, DraftKeeping, Drafted, CurrentContent
  <2>2. CASE draft[active][current] = None /\ head[current] = c
    BY <2>2 DEF IInv, TypeOK, DeleteCommit, DraftKeeping, Drafted, CurrentContent,
                HeadContent, Commits
  <2>3. CASE draft[active][current] = None /\ head[current] # c
    <3>1. draft' = draft /\ current' = current /\ active' = active
      BY <2>3 DEF DeleteCommit, DraftKeeping
    <3>2. head'[current] = head[current]
      BY <2>3 DEF IInv, TypeOK, DeleteCommit, Reconnected
    <3>3. head[current] # None => snapshotOf'[head[current]] = snapshotOf[head[current]]
      BY <2>3 DEF IInv, TypeOK, DeleteCommit
    <3> QED
      BY <2>3, <3>1, <3>2, <3>3 DEF CurrentContent, HeadContent
  <2> QED
    BY <2>1, <2>2, <2>3
<1> QED
  BY <1>1, Invariance, PTL DEF DeletingKeepsDocument
-----------------------------------------------------------------------------
(* Nothing leaks.                                                          *)

\* An imported graph brings no commit that none of its branches reaches.  The
\* code does not ask for this: a commit that it does bring stays, unseen, until
\* a branch is deleted.
Reaching(g) ==
    {c \in Commit : g.snapshotOf[c] # None} \subseteq
        Ancestry(HeadsOf({b \in Branch : g.name[b] \in Name}, g.head), g.parent)

\* The snapshots are those of the commits: an operation adds both or, with a
\* commit, the snapshot that no other needs.
LEMMA SnapshotsFollow ==
    ASSUME IInv, snapshots = Referenced(snapshotOf), [Next]_vars
    PROVE  snapshots' = Referenced(snapshotOf')
<1> USE ConstantsAssumption, NoneAssumption
<1>1. ASSUME UNCHANGED <<snapshots, snapshotOf>>
      PROVE  snapshots' = Referenced(snapshotOf')
  BY <1>1
<1>2. CASE CommitDraft(Authority)
  <2> DEFINE c == lastCommit + 1
             d == draft[active][current].content
  <2>1. /\ c \in Commit /\ d \in Content /\ snapshots' = snapshots \cup {d}
        /\ snapshotOf' = [snapshotOf EXCEPT ![c] = d]
    BY <1>2 DEF CommitDraft, IInv, TypeOK
  <2>2. snapshotOf[c] = None
    BY <2>1 DEF IInv, TypeOK, HistoryIsSound, Commits
  <2> HIDE DEF c, d
  <2> QED
    BY <2>1, <2>2 DEF Referenced, IInv, TypeOK
<1>3. CASE \E n \in Name, b \in Branch : CreateBranch(Authority, n, b)
  <2>1. PICK n \in Name, b \in Branch : CreateBranch(Authority, n, b)
    BY <1>3
  <2> DEFINE d == CurrentContent
             new == IF head[current] = None THEN {lastCommit + 1, lastCommit + 2}
                                            ELSE {lastCommit + 1}
  <2>2. /\ d # None /\ snapshots' = snapshots \cup {d}
        /\ lastCommit \in Commit
        /\ (IF head[current] = None THEN lastCommit + 2 ELSE lastCommit + 1) \in Commit
    BY <2>1 DEF CreateBranch, IInv, TypeOK
  <2>3. new \subseteq Commit /\ new # {} /\ \A i \in new : i > lastCommit
    BY <2>2
  <2>4. \A i \in new : snapshotOf[i] = None
    BY <2>3, NewIdsAreFree
  <2>5. snapshotOf' = [i \in Commit |-> IF i \in new THEN d ELSE snapshotOf[i]]
    <3>1. CASE head[current] = None
      BY <2>1, <2>2, <3>1 DEF CreateBranch
    <3>2. CASE head[current] # None
      BY <2>1, <2>2, <3>2 DEF CreateBranch
    <3> QED
      BY <3>1, <3>2
  <2> HIDE DEF new, d
  <2> QED
    BY <2>2, <2>3, <2>4, <2>5 DEF Referenced, IInv, TypeOK
<1>4. CASE \E c \in Commit : DeleteCommit(Authority, c)
  <2>1. PICK c \in Commit : DeleteCommit(Authority, c)
    BY <1>4
  <2>2. Referenced(snapshotOf') \subseteq Referenced(snapshotOf)
    BY <2>1 DEF DeleteCommit, Referenced, IInv, TypeOK
  <2> QED
    BY <2>1, <2>2 DEF DeleteCommit
<1>5. CASE \E b, m \in Branch : DeleteBranch(Authority, b, m)
  <2>1. PICK b \in Branch, m \in Branch : DeleteBranch(Authority, b, m)
    BY <1>5
  <2>2. Referenced(snapshotOf') \subseteq Referenced(snapshotOf)
    BY <2>1 DEF DeleteBranch, Referenced, IInv, TypeOK
  <2> QED
    BY <2>1, <2>2 DEF DeleteBranch
<1>6. CASE \E g \in Replacements : ReplaceVersionStore(Authority, g)
  BY <1>6 DEF ReplaceVersionStore
<1>7. CASE \/ \E d \in Content : ApplyCommand(Authority, d)
           \/ \E b \in Branch, discard \in BOOLEAN : SwitchBranch(Authority, b, discard)
           \/ \E x \in Context, d \in Content \cup {None} : SwitchEditingContext(Authority, x, d)
           \/ \E c \in Commit : LoadCommit(Authority, c)
           \/ UNCHANGED vars
  BY <1>1, <1>7 DEF ApplyCommand, SwitchBranch, SwitchEditingContext, LoadCommit, vars
<1> QED
  BY <1>2, <1>3, <1>4, <1>5, <1>6, <1>7 DEF Next

\* Every commit stays in the history of a live branch.
Reached == Commits \subseteq Ancestry(HeadsOf(Live, head), parent)

LEMMA ReachedStays ==
    ASSUME IInv, Reached, [Next]_vars, \A g \in Replacements : Reaching(g)
    PROVE  Reached'
<1> USE ConstantsAssumption, NoneAssumption
<1> DEFINE heads == HeadsOf(Live, head)
<1>0. /\ heads \in SUBSET Commit /\ Commits \subseteq Ancestry(heads, parent)
      /\ heads' \in SUBSET Commit /\ Commits' \subseteq Commit
  <2>1. IInv'
    BY NextKeeps
  <2>2. head \in [Branch -> OptCommit] /\ head' \in [Branch -> OptCommit]
    BY <2>1 DEF IInv, TypeOK
  <2>3. heads \in SUBSET Commit
    BY <2>2 DEF HeadsOf, Live
  <2>4. heads' \in SUBSET Commit
    BY <2>2 DEF HeadsOf, Live
  <2> QED
    BY <2>3, <2>4 DEF Reached, Commits
<1>1. ASSUME UNCHANGED <<name, head, parent, snapshotOf>>
      PROVE  Reached'
  BY <1>1 DEF Reached, Commits, HeadsOf, Live, Ancestry
<1>2. ASSUME NEW S \in SUBSET Commit, heads' \subseteq S, Closed(S, parent'),
             \/ CommitDraft(Authority)
             \/ \E n \in Name, b \in Branch : CreateBranch(Authority, n, b)
             \/ \E c \in Commit : DeleteCommit(Authority, c)
             \/ \E b, m \in Branch : DeleteBranch(Authority, b, m)
      PROVE  Commits' \subseteq S
  <2>1. CASE CommitDraft(Authority)
    <3> DEFINE c == lastCommit + 1
    <3>1. /\ c \in Commit /\ current \in Live /\ Live' = Live
          /\ head' = [head EXCEPT ![current] = c] /\ head \in [Branch -> OptCommit]
          /\ parent' = [parent EXCEPT ![c] = head[current]]
          /\ Commits' = Commits \cup {c}
      BY <2>1 DEF CommitDraft, IInv, TypeOK, HistoryIsSound, Live, Commits
    <3> HIDE DEF c
    <3>2. c \in heads'
      BY <3>1 DEF HeadsOf, IInv, TypeOK, Live
    <3>3. head[current] # None => head[current] \in S
      BY <1>2, <3>1, <3>2 DEF Closed, IInv, TypeOK
    <3>4. \A b \in Live : b # current /\ head[b] # None => head[b] \in heads'
      BY <3>1 DEF HeadsOf, Live
    <3>5. heads \subseteq S
      BY <1>2, <3>3, <3>4 DEF HeadsOf
    <3>6. Closed(S, parent)
      BY <1>2, <2>1, NewCommitsKeepClosed
    <3>7. Commits \subseteq S
      BY <1>0, <3>5, <3>6, AncestryWithin
    <3> QED
      BY <1>2, <3>1, <3>2, <3>7
  <2>2. CASE \E n \in Name, b \in Branch : CreateBranch(Authority, n, b)
    <3>1. PICK n \in Name, b \in Branch : CreateBranch(Authority, n, b)
      BY <2>2
    <3> DEFINE old == lastCommit + 1
               base == IF head[current] = None THEN old ELSE head[current]
               c == IF head[current] = None THEN old + 1 ELSE old
    <3>2. /\ c \in Commit /\ base \in Commit /\ current \in Live
          /\ name[b] = None /\ b \notin Live /\ Live' = Live \cup {b}
          /\ head' = [head EXCEPT ![current] = base, ![b] = c]
          /\ parent' = [parent EXCEPT ![c] = base]
          /\ Commits' \subseteq Commits \cup {base, c}
      BY <3>1 DEF CreateBranch, IInv, TypeOK, HistoryIsSound, Live, Commits
    <3>3. head[current] # None => head[current] = base
      OBVIOUS
    <3> HIDE DEF base, c
    <3>4. c \in heads' /\ base \in heads'
      BY <3>2 DEF HeadsOf, IInv, TypeOK, Live
    <3>5. \A i \in Live : i # current /\ head[i] # None => head[i] \in heads'
      BY <3>2 DEF HeadsOf, Live, IInv, TypeOK
    <3>6. heads \subseteq S
      BY <1>2, <3>3, <3>4, <3>5 DEF HeadsOf
    <3>7. Closed(S, parent)
      BY <1>2, <2>2, NewCommitsKeepClosed
    <3>8. Commits \subseteq S
      BY <1>0, <3>6, <3>7, AncestryWithin
    <3> QED
      BY <1>2, <3>2, <3>4, <3>8
  <2>3. CASE \E c \in Commit : DeleteCommit(Authority, c)
    <3>1. PICK c \in Commit : DeleteCommit(Authority, c)
      BY <2>3
    <3>2. /\ Live' = Live /\ Commits' = Commits \ {c}
          /\ \A b \in Branch : head'[b] = Reconnected(c, head[b])
      BY <3>1 DEF DeleteCommit, Live, Commits, IInv, TypeOK
    <3>3. \A h \in heads : Reconnected(c, h) # None => Reconnected(c, h) \in S
      <4> SUFFICES ASSUME NEW h \in heads, Reconnected(c, h) # None
                   PROVE  Reconnected(c, h) \in heads'
        BY <1>2
      <4>1. PICK b \in Live : h = head[b]
        BY DEF HeadsOf
      <4> QED
        BY <3>2, <4>1 DEF HeadsOf, Live
    <3>4. Ancestry(heads, parent) \ {c} \subseteq S \ {c}
      BY <1>0, <1>2, <3>1, <3>3, DeleteCommitReconnects
    <3> QED
      BY <1>0, <3>2, <3>4
  <2>4. CASE \E b, m \in Branch : DeleteBranch(Authority, b, m)
    <3>1. PICK b \in Branch, m \in Branch : DeleteBranch(Authority, b, m)
      BY <2>4
    <3> DEFINE others == HeadsOf(Live \ {b}, head)
    <3>2. /\ Live' = Live \ {b} /\ Commits' \subseteq Ancestry(others, parent)
          /\ \A i \in Live \ {b} : head'[i] = head[i]
      BY <3>1 DEF DeleteBranch, Outliving, Live, Commits, IInv, TypeOK
    <3>3. others \subseteq heads'
      BY <3>2 DEF HeadsOf
    <3> HIDE DEF heads
    <3>4. Ancestry(others, parent) \subseteq S
      BY <1>2, <3>1, <3>3, DeleteBranchKeepsOthers
    <3> QED
      BY <3>2, <3>4
  <2> QED
    BY <1>2, <2>1, <2>2, <2>3, <2>4
<1>3. CASE \/ CommitDraft(Authority)
           \/ \E n \in Name, b \in Branch : CreateBranch(Authority, n, b)
           \/ \E c \in Commit : DeleteCommit(Authority, c)
           \/ \E b, m \in Branch : DeleteBranch(Authority, b, m)
  <2>1. \A S \in SUBSET Commit : heads' \subseteq S /\ Closed(S, parent') => Commits' \subseteq S
    BY <1>2, <1>3
  <2>2. Commits' \subseteq Ancestry(heads', parent')
    BY <1>0, <2>1, WithinAncestry
  <2> QED
    BY <2>2 DEF Reached, Ancestry
<1>4. CASE \E g \in Replacements : ReplaceVersionStore(Authority, g)
  <2>1. PICK g \in Replacements : ReplaceVersionStore(Authority, g)
    BY <1>4
  <2>2. name' = g.name /\ head' = g.head /\ parent' = g.parent /\ snapshotOf' = g.snapshotOf
    BY <2>1 DEF ReplaceVersionStore
  <2>3. Live' = {b \in Branch : g.name[b] \in Name} /\ Commits' = {c \in Commit : g.snapshotOf[c] # None}
    BY <2>2 DEF Live, Commits
  <2> QED
    BY <2>2, <2>3 DEF Reached, Reaching, Ancestry, HeadsOf
<1>5. CASE \/ \E d \in Content : ApplyCommand(Authority, d)
           \/ \E b \in Branch, discard \in BOOLEAN : SwitchBranch(Authority, b, discard)
           \/ \E x \in Context, d \in Content \cup {None} : SwitchEditingContext(Authority, x, d)
           \/ \E c \in Commit : LoadCommit(Authority, c)
           \/ UNCHANGED vars
  BY <1>1, <1>5 DEF ApplyCommand, SwitchBranch, SwitchEditingContext, LoadCommit, vars
<1> QED
  BY <1>3, <1>4, <1>5 DEF Next

\* Nothing leaks, as long as no imported graph does: the snapshots are exactly
\* those of the commits, and each commit is in the history of a live branch.
THEOREM NothingEverLeaks ==
    ASSUME \A g \in Replacements : Reaching(g)
    PROVE  Spec => []NothingLeaks
<1>1. Init => NothingLeaks
  <2> SUFFICES ASSUME Init PROVE NothingLeaks
    OBVIOUS
  <2> USE ConstantsAssumption, NoneAssumption
  <2>1. snapshots = Referenced(snapshotOf)
    <3>1. PICK d \in Content : /\ snapshots = {d}
                              /\ snapshotOf = [c \in Commit |-> IF c = 1 THEN d ELSE None]
      BY DEF Init
    <3> QED
      BY <3>1 DEF Referenced
  <2>2. Commits = {1} /\ 1 \in HeadsOf(Live, head) /\ HeadsOf(Live, head) \in SUBSET Commit
    BY DEF Init, Commits, Live, HeadsOf
  <2> QED
    BY <2>1, <2>2, AncestryHolds DEF NothingLeaks
<1>2. IInv /\ NothingLeaks /\ [Next]_vars => NothingLeaks'
  BY SnapshotsFollow, ReachedStays DEF NothingLeaks, Reached
<1> QED
  BY <1>1, <1>2, Invariance, PTL DEF Spec

-----------------------------------------------------------------------------
(* Histories and work stay.                                                *)

\* A step that adds commits keeps the history of every branch.
LEMMA CommittingKeepsHistory ==
    ASSUME IInv, NEW b \in Live,
           \/ CommitDraft(Authority)
           \/ \E n \in Name, i \in Branch : CreateBranch(Authority, n, i)
    PROVE  History(b) \subseteq History(b)'
<1> USE ConstantsAssumption, NoneAssumption
<1> DEFINE heads == HeadsOf({b}, head)
<1>1. ASSUME NEW S \in SUBSET Commit, heads' \subseteq S, Closed(S, parent')
      PROVE  heads \subseteq S
  <2>1. CASE CommitDraft(Authority)
    <3> DEFINE c == lastCommit + 1
    <3>1. /\ c \in Commit /\ parent' = [parent EXCEPT ![c] = head[current]]
          /\ head' = [head EXCEPT ![current] = c]
          /\ head \in [Branch -> OptCommit] /\ parent \in [Commit -> OptCommit]
          /\ b \in Branch
      BY <2>1 DEF CommitDraft, IInv, TypeOK, Live
    <3> HIDE DEF c
    <3>2. CASE b # current
      BY <1>1, <3>1, <3>2 DEF HeadsOf
    <3>3. CASE b = current
      <4>1. c \in S
        BY <1>1, <3>1, <3>3 DEF HeadsOf
      <4>2. head[b] # None => head[b] \in S
        BY <1>1, <3>1, <3>3, <4>1 DEF Closed
      <4> QED
        BY <4>2 DEF HeadsOf
    <3> QED
      BY <3>2, <3>3
  <2>2. CASE \E n \in Name, i \in Branch : CreateBranch(Authority, n, i)
    <3>1. PICK n \in Name, i \in Branch : CreateBranch(Authority, n, i)
      BY <2>2
    <3> DEFINE base == IF head[current] = None THEN lastCommit + 1 ELSE head[current]
               c == IF head[current] = None THEN lastCommit + 1 + 1 ELSE lastCommit + 1
    <3>2. i # b /\ head' = [head EXCEPT ![current] = base, ![i] = c]
      BY <3>1 DEF CreateBranch, Live
    <3>3. head[b] # None => head'[b] = head[b]
      BY <3>2 DEF IInv, TypeOK, Live
    <3> QED
      BY <1>1, <3>3 DEF HeadsOf
  <2> QED
    BY <1>1, <2>1, <2>2
<1>2. Ancestry(heads, parent) \in SUBSET Commit
  BY DEF Ancestry
<1>3. ASSUME NEW S \in SUBSET Commit, heads' \subseteq S, Closed(S, parent')
      PROVE  Ancestry(heads, parent) \subseteq S
  <2>1. Closed(S, parent)
    BY <1>3, NewCommitsKeepClosed
  <2> QED
    BY <1>1, <1>3, <2>1, AncestryWithin
<1> HIDE DEF heads
<1>4. Ancestry(heads, parent) \subseteq Ancestry(heads', parent')
  BY <1>2, <1>3, WithinAncestry
<1> QED
  BY <1>4 DEF History, heads, Ancestry

\* A branch that stays keeps its history, but for a commit that is deleted.
THEOREM HistoriesStay == Spec => BranchesKeepHistory
<1> USE ConstantsAssumption, NoneAssumption
<1> DEFINE Keeps(gone) == \A b \in Live : name'[b] \in Name => History(b) \ {gone} \subseteq History(b)'
           A == (\A g \in Replacements : ~ReplaceVersionStore(Authority, g)) =>
                  \E gone \in Commits \cup {None} :
                    /\ gone # None => DeleteCommit(Authority, gone)
                    /\ Keeps(gone)
<1>1. ASSUME IInv, Next PROVE A
  <2>1. CASE \/ CommitDraft(Authority)
             \/ \E n \in Name, b \in Branch : CreateBranch(Authority, n, b)
    <3>1. \A b \in Live : History(b) \subseteq History(b)'
      BY <1>1, <2>1, CommittingKeepsHistory
    <3>2. Keeps(None)
      BY <3>1
    <3> HIDE DEF Keeps
    <3> QED
      BY <3>2
  <2>2. CASE \E c \in Commit : DeleteCommit(Authority, c)
    <3>1. PICK c \in Commit : DeleteCommit(Authority, c)
      BY <2>2
    <3>2. ASSUME NEW b \in Live PROVE History(b) \ {c} \subseteq History(b)'
      <4> DEFINE heads == HeadsOf({b}, head)
      <4>1. /\ heads \in SUBSET Commit /\ Ancestry(heads, parent) \in SUBSET Commit
            /\ head' = [i \in Branch |-> Reconnected(c, head[i])] /\ b \in Branch
        BY <1>1, <3>1 DEF DeleteCommit, HeadsOf, Ancestry, IInv, TypeOK, Live
      <4>2. \A h \in heads : Reconnected(c, h) # None => Reconnected(c, h) \in heads'
        BY <4>1 DEF HeadsOf
      <4> HIDE DEF heads
      <4>3. ASSUME NEW S \in SUBSET Commit, heads' \subseteq S, Closed(S, parent')
            PROVE  Ancestry(heads, parent) \ {c} \subseteq S
        <5>1. \A h \in heads : Reconnected(c, h) # None => Reconnected(c, h) \in S
          BY <4>2, <4>3
        <5>2. Ancestry(heads, parent) \ {c} \subseteq S \ {c}
          BY <1>1, <3>1, <4>1, <4>3, <5>1, DeleteCommitReconnects
        <5> QED
          BY <5>2
      <4>4. Ancestry(heads, parent) \ {c} \subseteq Ancestry(heads', parent')
        BY <4>1, <4>3, WithinAncestry
      <4> QED
        BY <4>4 DEF History, heads, Ancestry
    <3>3. Keeps(c)
      BY <3>2
    <3>4. c \in Commits
      BY <3>1 DEF DeleteCommit
    <3> HIDE DEF Keeps
    <3> QED
      BY <3>1, <3>3, <3>4
  <2>3. CASE \E b, m \in Branch : DeleteBranch(Authority, b, m)
    <3>1. PICK b \in Branch, m \in Branch : DeleteBranch(Authority, b, m)
      BY <2>3
    <3>2. ASSUME NEW i \in Live, name'[i] \in Name PROVE History(i) \subseteq History(i)'
      <4> DEFINE heads == HeadsOf({i}, head)
      <4>1. i # b /\ i \in Branch /\ head'[i] = head[i]
        BY <1>1, <3>1, <3>2 DEF DeleteBranch, IInv, TypeOK, Live
      <4>2. heads' = heads /\ heads \subseteq HeadsOf(Live \ {b}, head)
        BY <4>1 DEF HeadsOf
      <4>3. Ancestry(heads, parent) \in SUBSET Commit
        BY DEF Ancestry
      <4> HIDE DEF heads
      <4>4. ASSUME NEW S \in SUBSET Commit, heads' \subseteq S, Closed(S, parent')
            PROVE  Ancestry(heads, parent) \subseteq S
        BY <1>1, <3>1, <4>2, <4>4, DeleteBranchKeepsOthers
      <4>5. Ancestry(heads, parent) \subseteq Ancestry(heads', parent')
        BY <4>3, <4>4, WithinAncestry
      <4> QED
        BY <4>5 DEF History, heads, Ancestry
    <3>3. Keeps(None)
      BY <3>2
    <3> HIDE DEF Keeps
    <3> QED
      BY <3>3
  <2>4. CASE \/ \E d \in Content : ApplyCommand(Authority, d)
             \/ \E b \in Branch, discard \in BOOLEAN : SwitchBranch(Authority, b, discard)
             \/ \E x \in Context, d \in Content \cup {None} : SwitchEditingContext(Authority, x, d)
             \/ \E c \in Commit : LoadCommit(Authority, c)
    <3>1. UNCHANGED <<head, parent>>
      BY <2>4 DEF ApplyCommand, SwitchBranch, SwitchEditingContext, LoadCommit
    <3>2. Keeps(None)
      BY <3>1 DEF History, HeadsOf, Ancestry
    <3> HIDE DEF Keeps
    <3> QED
      BY <3>2
  <2>5. CASE \E g \in Replacements : ReplaceVersionStore(Authority, g)
    BY <2>5
  <2> QED
    BY <1>1, <2>1, <2>2, <2>3, <2>4, <2>5 DEF Next
<1>2. IInv /\ [Next]_vars => [A]_vars
  BY <1>1
<1> QED
  BY <1>2, Invariance, PTL DEF Spec, BranchesKeepHistory

\* Uncommitted work is discarded only with the user's consent, and deleting a
\* commit leaves what is being edited as it is.
THEOREM WorkAlwaysSurvives == Spec => WorkSurvives
<1> USE ConstantsAssumption, NoneAssumption
<1> DEFINE Asks == \/ CommitDraft(Authority)
                   \/ \E n \in Name, b \in Branch : CreateBranch(Authority, n, b)
                   \/ \E b \in Branch : SwitchBranch(Authority, b, FALSE)
                   \/ \E x \in Context, d \in Content \cup {None} :
                         SwitchEditingContext(Authority, x, d)
                   \/ \E c \in Commit : DeleteCommit(Authority, c)
           Survives == \A x \in Context, b \in Branch : Dirty(x, b) =>
                          \/ draft'[x][b] # None /\ draft'[x][b].content = draft[x][b].content
                          \/ draft[x][b].content \in snapshots'
<1>1. ASSUME IInv, Asks PROVE Survives
  <2> SUFFICES ASSUME NEW x \in Context, NEW b \in Branch, Dirty(x, b)
               PROVE  \/ draft'[x][b] # None /\ draft'[x][b].content = draft[x][b].content
                      \/ draft[x][b].content \in snapshots'
    OBVIOUS
  <2>0. draft \in [Context -> [Branch -> Draft \cup {None}]] /\ draft[x][b] # None
    BY <1>1 DEF IInv, TypeOK, Dirty
  <2>1. CASE CommitDraft(Authority)
    BY <2>0, <2>1 DEF CommitDraft
  <2>2. CASE \E n \in Name, i \in Branch : CreateBranch(Authority, n, i)
    BY <2>0, <2>2 DEF CreateBranch, CurrentContent
  <2>3. CASE \E i \in Branch : SwitchBranch(Authority, i, FALSE)
    <3>1. PICK i \in Branch : SwitchBranch(Authority, i, FALSE)
      BY <2>3
    <3>2. ~Dirty(active, current) /\ ~Dirty(active, i)
      BY <3>1 DEF SwitchBranch, MaySwitch
    <3> QED
      BY <2>0, <3>1, <3>2 DEF SwitchBranch
  <2>4. CASE \E y \in Context, d \in Content \cup {None} : SwitchEditingContext(Authority, y, d)
    <3>1. PICK y \in Context, d \in Content \cup {None} : SwitchEditingContext(Authority, y, d)
      BY <2>4
    <3>2. draft' = DraftEntering(y, d)
      BY <3>1 DEF SwitchEditingContext
    <3> QED
      BY <1>1, <2>0, <3>2 DEF DraftEntering, Drafted, IInv, TypeOK
  <2>5. CASE \E c \in Commit : DeleteCommit(Authority, c)
    <3>1. PICK c \in Commit : DeleteCommit(Authority, c)
      BY <2>5
    <3>2. draft' = DraftKeeping(c)
      BY <3>1 DEF DeleteCommit
    <3> QED
      BY <1>1, <2>0, <3>2 DEF DraftKeeping, Drafted, IInv, TypeOK
  <2> QED
    BY <1>1, <2>1, <2>2, <2>3, <2>4, <2>5
<1>2. IInv => [Asks => Survives]_vars
  BY <1>1
<1>3. Spec => UncommittedWorkSurvives
  BY <1>2, Invariance, PTL DEF UncommittedWorkSurvives
<1> QED
  BY <1>3, DeletingKeepsTheDocument, PTL DEF WorkSurvives
=============================================================================
