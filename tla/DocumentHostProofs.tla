------------------------- MODULE DocumentHostProofs -------------------------
(***************************************************************************)
(* For any number of requests, documents, switches and restores: an edit    *)
(* takes effect only on the content its caller saw and in the visit it was  *)
(* made in, every request takes effect once, and the host and the disk      *)
(* agree on the document being edited.                                      *)
(***************************************************************************)
EXTENDS DocumentHost, TLAPS

\* A pending request comes from this epoch or an earlier one, and its revision
\* is not beyond the newest revision of the database.
Bounded ==
    \A c \in Command : Pending(c) =>
        /\ request[c].epoch <= epoch
        /\ \E d \in Doc : docs[d] # None /\ request[c].revision <= docs[d].revision

\* The fence.  No pending request is ahead of its document, and one that is
\* level with it was made in this visit, on this content.
Fence ==
    \A c \in Command : Pending(c) =>
        LET r == request[c]
        IN  docs[r.doc] # None =>
              /\ r.revision <= docs[r.doc].revision
              /\ r.revision = docs[r.doc].revision =>
                    r.doc = active /\ r.epoch = epoch /\ r.seen = docs[r.doc].content

\* A document that exists, did in the backup, or was seen by a caller was made by
\* a request of an earlier epoch: that request cannot make it again.
MadeBefore ==
    /\ \A c \in Command : (docs[c] # None \/ backup.docs[c] # None) =>
          request[c] # None /\ (Pending(c) => request[c].epoch < epoch)
    /\ \A c, e \in Command : Pending(c) /\ request[c].doc = e =>
          request[e] # None /\ (Pending(e) => request[e].epoch < request[c].epoch)

\* What has been done cannot be done again: an edit is behind its document,
\* the others are behind the host.
DoneIsPast ==
    \A c \in done :
        LET r == request[c]
        IN  /\ r # None
            /\ Pending(c) /\ r.kind = "edit" =>
                  docs[r.doc] = None \/ r.revision < docs[r.doc].revision
            /\ Pending(c) /\ r.kind \in {"replace", "switch", "create", "copy"} =>
                  r.epoch < epoch

\* The saved selection is the active document, or there is none yet: it cannot
\* name an archived document that becomes the startup choice when restored.
Saved == setting = active \/ (setting = None /\ active = Default)

IInv ==
    TypeOK /\ HostMatchesDisk /\ Saved /\ Bounded /\ Fence /\ MadeBefore /\ DoneIsPast

USE ConstantsAssumption, NoneAssumption
USE DEF Doc, Database, Row, Request, Kind, Content, Pending, Existing, Available

LEMMA InitEstablishes == Init => IInv
<1> SUFFICES ASSUME Init PROVE IInv
  OBVIOUS
<1> USE DEF Init, NewRow, ForeignDatabase
<1>0. docs[Default] # None /\ ~docs[Default].archived
  <2>1. [revision |-> 0, archived |-> FALSE, content |-> {}] \in Row
    OBVIOUS
  <2> QED BY <2>1
<1>1. TypeOK
  <2>1. docs \in [Doc -> Row \cup {None}]
    <3>1. [revision |-> 0, archived |-> FALSE, content |-> {}] \in Row
      OBVIOUS
    <3> QED BY <3>1
  <2>2. backup \in Database
    <3> DEFINE rows == [d \in Doc |-> IF d = Default
                 THEN [revision |-> 1, archived |-> FALSE, content |-> {Foreign}] ELSE None]
    <3>1. [revision |-> 1, archived |-> FALSE, content |-> {Foreign}] \in Row
      OBVIOUS
    <3>2. rows \in [Doc -> Row \cup {None}]
      BY <3>1
    <3>3. backup = [docs |-> rows, setting |-> None, receipts |-> {}]
      OBVIOUS
    <3> HIDE DEF rows
    <3> QED BY <3>2, <3>3
  <2> QED BY <2>1, <2>2 DEF TypeOK
<1>2. HostMatchesDisk BY <1>0 DEF HostMatchesDisk, StartupChoice
<1>3. Bounded /\ Fence /\ DoneIsPast BY DEF Bounded, Fence, DoneIsPast
<1>4. MadeBefore BY DEF MadeBefore
<1>5. Saved BY DEF Saved
<1> QED BY <1>1, <1>2, <1>3, <1>4, <1>5 DEF IInv

LEMMA IssueKeeps ==
    ASSUME IInv, NEW c \in Command, NEW k \in Kind, NEW t \in Doc, Issue(c, k, t)
    PROVE  IInv'
<1> USE DEF IInv, Issue, Read, disk
<1>1. TypeOK' BY DEF TypeOK, HostMatchesDisk
<1>2. HostMatchesDisk' BY DEF HostMatchesDisk, StartupChoice
<1>3. Bounded' BY DEF TypeOK, HostMatchesDisk, Bounded
<1>4. Fence' BY DEF TypeOK, HostMatchesDisk, Fence
<1>5. MadeBefore' BY DEF TypeOK, HostMatchesDisk, MadeBefore
<1>6. DoneIsPast' BY DEF TypeOK, HostMatchesDisk, DoneIsPast
<1>7. Saved' BY DEF Saved, StartupChoice, HostMatchesDisk
<1> QED BY <1>1, <1>2, <1>3, <1>4, <1>5, <1>6, <1>7

LEMMA ApplyCommandKeeps ==
    ASSUME IInv, NEW c \in Command, ApplyCommand(c)
    PROVE  IInv'
<1> USE DEF IInv, ApplyCommand, OnActive, CursorCurrent
<1>1. TypeOK' BY DEF TypeOK, HostMatchesDisk
<1>2. HostMatchesDisk' BY DEF TypeOK, HostMatchesDisk, StartupChoice
<1>3. Bounded' BY DEF TypeOK, HostMatchesDisk, Bounded, Fence
<1>4. Fence' BY DEF TypeOK, HostMatchesDisk, Bounded, Fence, MadeBefore
<1>5. MadeBefore' BY DEF TypeOK, HostMatchesDisk, Bounded, MadeBefore
<1>6. DoneIsPast' BY DEF TypeOK, HostMatchesDisk, Bounded, Fence, MadeBefore, DoneIsPast
<1>7. Saved' BY DEF Saved, StartupChoice, HostMatchesDisk
<1> QED BY <1>1, <1>2, <1>3, <1>4, <1>5, <1>6, <1>7

LEMMA ReplaceVersionStoreKeeps ==
    ASSUME IInv, NEW c \in Command, ReplaceVersionStore(c)
    PROVE  IInv'
<1> USE DEF IInv, ReplaceVersionStore, OnActive, CursorCurrent, Advanced, NextEpoch
<1>1. TypeOK' BY DEF TypeOK, HostMatchesDisk
<1>2. HostMatchesDisk' BY DEF TypeOK, HostMatchesDisk, StartupChoice
<1>3. Bounded' BY DEF TypeOK, HostMatchesDisk, Bounded, Fence
<1>4. Fence' BY DEF TypeOK, HostMatchesDisk, Bounded, Fence, MadeBefore
<1>5. MadeBefore' BY DEF TypeOK, HostMatchesDisk, Bounded, MadeBefore
<1>6. DoneIsPast' BY DEF TypeOK, HostMatchesDisk, Bounded, Fence, MadeBefore, DoneIsPast
<1>7. Saved' BY DEF Saved, StartupChoice, HostMatchesDisk
<1> QED BY <1>1, <1>2, <1>3, <1>4, <1>5, <1>6, <1>7

LEMMA SwitchActiveDocumentKeeps ==
    ASSUME IInv, NEW c \in Command, SwitchActiveDocument(c)
    PROVE  IInv'
<1> USE DEF IInv, SwitchActiveDocument, OnActive, InEpoch, Left, Advanced, NextEpoch
<1> DEFINE t == request[c].target
<1>0. /\ active \in Doc /\ t \in Doc /\ docs[active] \in Row
      /\ docs[t] \in Row /\ ~docs[t].archived
  BY DEF TypeOK, HostMatchesDisk
<1>1. TypeOK' BY DEF TypeOK, HostMatchesDisk
<1>2. HostMatchesDisk'
  <2>1. docs'[t] # None /\ ~docs'[t].archived
    BY <1>0 DEF TypeOK
  <2>2. t \in Available(docs')
    BY <1>0, <2>1
  <2> QED BY <2>2 DEF HostMatchesDisk, StartupChoice
<1>3. Bounded' BY DEF TypeOK, HostMatchesDisk, Bounded, Fence
<1>4. Fence' BY DEF TypeOK, HostMatchesDisk, Bounded, Fence, MadeBefore
<1>5. MadeBefore' BY DEF TypeOK, HostMatchesDisk, Bounded, MadeBefore
<1>6. DoneIsPast' BY DEF TypeOK, HostMatchesDisk, Bounded, Fence, MadeBefore, DoneIsPast
<1>7. Saved' BY DEF Saved, StartupChoice, HostMatchesDisk
<1> QED BY <1>1, <1>2, <1>3, <1>4, <1>5, <1>6, <1>7

LEMMA CreateDocumentKeeps ==
    ASSUME IInv, NEW c \in Command, CreateDocument(c)
    PROVE  IInv'
<1> USE DEF IInv, CreateDocument, OnActive, InEpoch, Creatable, Selected, Left, Advanced,
            NextEpoch, NewRow
<1> DEFINE new == NewRow(IF request[c].kind = "copy" THEN docs[active].content ELSE {})
<1>0. /\ active \in Doc /\ c \in Doc /\ active # c /\ docs[active] \in Row
      /\ new \in Row /\ new.revision = 0 /\ ~new.archived
      /\ docs \in [Doc -> Row \cup {None}] /\ docs[c] = None
  BY DEF TypeOK, HostMatchesDisk
<1>a. docs' = [[docs EXCEPT ![active] = Advanced(docs[active])] EXCEPT ![c] = new]
  BY DEF CreateDocument
<1>b. /\ Advanced(docs[active]) \in Row
      /\ Advanced(docs[active]).revision = docs[active].revision + 1
  BY <1>0
<1> HIDE DEF new
<1>c. /\ docs' \in [Doc -> Row \cup {None}]
      /\ docs'[c] = new /\ docs'[active] = Advanced(docs[active])
      /\ \A d \in Doc \ {c, active} : docs'[d] = docs[d]
  BY <1>0, <1>a, <1>b DEF Advanced
<1> HIDE DEF Advanced, Left, NewRow
<1>1. TypeOK' BY <1>0, <1>c DEF TypeOK
<1>2. HostMatchesDisk'
  <2>1. c \in Available(docs')
    BY <1>0, <1>c
  <2> QED BY <2>1 DEF HostMatchesDisk, StartupChoice
<1>3. Bounded'
  <2> SUFFICES ASSUME NEW e \in Command, Pending(e)'
               PROVE  /\ request[e].epoch <= epoch'
                      /\ \E d \in Doc : docs'[d] # None /\ request[e].revision <= docs'[d].revision
    BY DEF Bounded
  <2>1. PICK d \in Doc : docs[d] # None /\ request[e].revision <= docs[d].revision
    BY DEF Bounded
  <2>2. request[e] \in Request /\ docs[d] \in Row
    BY <2>1 DEF TypeOK
  <2>3. docs'[d] # None /\ docs'[d].revision >= docs[d].revision
    BY <1>0, <1>b, <1>c, <2>1, <2>2
  <2>4. docs'[d] \in Row
    BY <2>3, <1>c
  <2> QED BY <2>1, <2>2, <2>3, <2>4 DEF Bounded, TypeOK
<1>4. Fence' BY <1>0, <1>b, <1>c DEF TypeOK, HostMatchesDisk, Bounded, Fence, MadeBefore
<1>5. MadeBefore' BY <1>0, <1>c DEF TypeOK, HostMatchesDisk, Bounded, MadeBefore
<1>6. DoneIsPast' BY <1>0, <1>b, <1>c DEF TypeOK, HostMatchesDisk, Bounded, Fence, MadeBefore, DoneIsPast
<1>7. Saved' BY DEF Saved, StartupChoice, HostMatchesDisk
<1> QED BY <1>1, <1>2, <1>3, <1>4, <1>5, <1>6, <1>7

LEMMA SetArchivedKeeps ==
    ASSUME IInv, NEW c \in Command, SetArchived(c)
    PROVE  IInv'
<1> USE DEF IInv, SetArchived
<1> DEFINE t == request[c].target
           flag == request[c].kind = "archive"
<1>a. t \in Doc /\ docs[t] \in Row /\ docs \in [Doc -> Row \cup {None}]
  BY DEF TypeOK
<1>b. /\ docs' = [docs EXCEPT ![t] = [docs[t] EXCEPT !.archived = flag]]
      /\ flag => t # active
  BY DEF SetArchived
<1>c. flag \in BOOLEAN
  OBVIOUS
<1> HIDE DEF t, flag
<1>0. /\ docs'[t] \in Row /\ docs'[t].archived = flag
      /\ docs'[t].revision = docs[t].revision /\ docs'[t].content = docs[t].content
      /\ \A d \in Doc \ {t} : docs'[d] = docs[d]
  BY <1>a, <1>b, <1>c
<1>1. TypeOK'
  <2>1. docs' \in [Doc -> Row \cup {None}]
    BY <1>0, <1>a, <1>b
  <2> QED BY <2>1 DEF TypeOK
<1>2. HostMatchesDisk'
  <2>1. active \in Available(docs')
    BY <1>0, <1>a, <1>b DEF HostMatchesDisk, TypeOK
  <2> QED BY <2>1 DEF HostMatchesDisk, StartupChoice, Saved
<1>3. Bounded'
  <2> SUFFICES ASSUME NEW e \in Command, Pending(e)'
               PROVE  \E d \in Doc : docs'[d] # None /\ request[e].revision <= docs'[d].revision
    BY DEF Bounded
  <2>1. PICK d \in Doc : docs[d] # None /\ request[e].revision <= docs[d].revision
    BY DEF Bounded
  <2> QED BY <1>0, <2>1
<1>4. Fence' BY <1>0 DEF TypeOK, Fence
<1>5. MadeBefore' BY <1>0 DEF TypeOK, MadeBefore
<1>6. DoneIsPast' BY <1>0 DEF TypeOK, DoneIsPast
<1>7. Saved' BY DEF Saved, StartupChoice, HostMatchesDisk
<1> QED BY <1>1, <1>2, <1>3, <1>4, <1>5, <1>6, <1>7

LEMMA ExportBackupKeeps ==
    ASSUME IInv, ExportBackup
    PROVE  IInv'
<1> USE DEF IInv, ExportBackup, disk
<1>1. TypeOK'
  <2>1. /\ backup'.docs = docs /\ backup'.setting = setting /\ backup'.receipts = receipts
    OBVIOUS
  <2>2. backup' \in [docs: [Doc -> Row \cup {None}], setting: Doc \cup {None},
                      receipts: SUBSET Command]
    BY DEF TypeOK
  <2> QED BY <2>2 DEF TypeOK
<1>2. HostMatchesDisk' BY DEF TypeOK, HostMatchesDisk, StartupChoice
<1>3. Bounded' BY DEF TypeOK, HostMatchesDisk, Bounded, Fence
<1>4. Fence' BY DEF TypeOK, HostMatchesDisk, Bounded, Fence, MadeBefore
<1>5. MadeBefore' BY DEF TypeOK, HostMatchesDisk, Bounded, MadeBefore
<1>6. DoneIsPast' BY DEF TypeOK, HostMatchesDisk, Bounded, Fence, MadeBefore, DoneIsPast
<1>7. Saved' BY DEF Saved, StartupChoice, HostMatchesDisk
<1> QED BY <1>1, <1>2, <1>3, <1>4, <1>5, <1>6, <1>7

LEMMA RestoreBackupKeeps ==
    ASSUME IInv, NEW a \in Doc, NEW n \in 0 .. MaxRevision, RestoreBackup(a, n)
    PROVE  IInv'
<1> USE DEF IInv, RestoreBackup, Newest, Outruns, NextEpoch
<1>1. TypeOK' BY DEF TypeOK, HostMatchesDisk
<1>2. HostMatchesDisk' BY DEF TypeOK, HostMatchesDisk, StartupChoice
<1>3. Bounded'
  <2> SUFFICES ASSUME NEW e \in Command, Pending(e)'
               PROVE  /\ request[e].epoch <= epoch'
                      /\ \E d \in Doc : docs'[d] # None /\ request[e].revision <= docs'[d].revision
    BY DEF Bounded
  <2>1. PICK d \in Doc : docs[d] # None /\ request[e].revision <= docs[d].revision
    BY DEF Bounded
  <2>2. request[e] \in Request /\ docs[d] \in Row /\ epoch \in Nat /\ request[e].epoch <= epoch
    BY <2>1 DEF TypeOK, Bounded
  <2>3. docs[d].revision <= n
    BY <2>1
  <2>4. backup.docs[a] \in Row
    BY DEF TypeOK
  <2>5. docs'[a] # None /\ docs'[a].revision >= n + 1 /\ docs'[a].revision \in Nat
    BY <2>4
  <2> QED BY <2>1, <2>2, <2>3, <2>5
<1>4. Fence' BY DEF TypeOK, HostMatchesDisk, Bounded, Fence, MadeBefore
<1>5. MadeBefore' BY DEF TypeOK, HostMatchesDisk, Bounded, MadeBefore
<1>6. DoneIsPast' BY DEF TypeOK, HostMatchesDisk, Bounded, Fence, MadeBefore, DoneIsPast
<1>7. Saved' BY DEF Saved, StartupChoice, HostMatchesDisk
<1> QED BY <1>1, <1>2, <1>3, <1>4, <1>5, <1>6, <1>7

LEMMA RestartKeeps ==
    ASSUME IInv, Restart
    PROVE  IInv'
<1> USE DEF IInv, Restart, NewRow
<1>1. TypeOK'
  <2>1. NewRow({}) \in Row
    OBVIOUS
  <2>2. docs' \in [Doc -> Row \cup {None}]
    BY <2>1 DEF TypeOK
  <2>3. active' \in Doc
    BY DEF StartupChoice
  <2> QED BY <2>2, <2>3 DEF TypeOK
<1>2. HostMatchesDisk' BY DEF TypeOK, HostMatchesDisk, StartupChoice
<1>3. Bounded' BY DEF TypeOK, HostMatchesDisk, Bounded, Fence
<1>4. Fence' BY DEF TypeOK, HostMatchesDisk, Bounded, Fence, MadeBefore
<1>5. MadeBefore' BY DEF TypeOK, HostMatchesDisk, Bounded, MadeBefore
<1>6. DoneIsPast' BY DEF TypeOK, HostMatchesDisk, Bounded, Fence, MadeBefore, DoneIsPast
<1>7. Saved' BY DEF Saved, StartupChoice, HostMatchesDisk
<1> QED BY <1>1, <1>2, <1>3, <1>4, <1>5, <1>6, <1>7
\* Every step of the host keeps the invariant.
LEMMA NextKeeps == IInv /\ [Next]_vars => IInv'
<1> SUFFICES ASSUME IInv, [Next]_vars PROVE IInv'
  OBVIOUS
<1>1. CASE UNCHANGED vars
  BY <1>1 DEF vars, disk, IInv, TypeOK, HostMatchesDisk, Saved, Bounded, Fence, MadeBefore,
              DoneIsPast, StartupChoice
<1>2. CASE Next
  BY <1>2, IssueKeeps, ApplyCommandKeeps, ReplaceVersionStoreKeeps, SwitchActiveDocumentKeeps,
     CreateDocumentKeeps, SetArchivedKeeps, ExportBackupKeeps, RestoreBackupKeeps, RestartKeeps
  DEF Next
<1> QED BY <1>1, <1>2

LEMMA Invariance == Spec => []IInv
BY InitEstablishes, NextKeeps, PTL DEF Spec

\* The tables, the host and the requests only hold values of their types.
THEOREM TypesStayCorrect == Spec => []TypeOK
BY Invariance, PTL DEF IInv

\* The active document can always be opened, and a restarted process opens the
\* same one.
THEOREM HostAlwaysMatchesDisk == Spec => []HostMatchesDisk
BY Invariance, PTL DEF IInv

\* An edit changes the content its caller saw, in the visit it was made in.
LEMMA EditsAreFenced ==
    ASSUME IInv, NEW c \in Command, ApplyCommand(c)
    PROVE  request[c].seen = docs[active].content /\ request[c].epoch = epoch
BY DEF IInv, Fence, HostMatchesDisk, ApplyCommand, OnActive, CursorCurrent

\* What takes effect has not taken effect before.
LEMMA EffectsAreNew ==
    ASSUME IInv, NEW c \in Command,
           ApplyCommand(c) \/ ReplaceVersionStore(c) \/ SwitchActiveDocument(c) \/ CreateDocument(c)
    PROVE  c \notin done
<1>1. /\ active \in Doc /\ docs[active] \in Row /\ epoch \in Nat
      /\ Pending(c) => request[c] \in Request
  BY DEF IInv, TypeOK, HostMatchesDisk
<1>2. CASE ApplyCommand(c)
  BY <1>1, <1>2 DEF IInv, DoneIsPast, ApplyCommand, OnActive, CursorCurrent
<1>3. CASE ReplaceVersionStore(c)
  BY <1>1, <1>3 DEF IInv, Fence, DoneIsPast, ReplaceVersionStore, OnActive, CursorCurrent
<1>4. CASE SwitchActiveDocument(c)
  BY <1>1, <1>4 DEF IInv, DoneIsPast, SwitchActiveDocument, InEpoch
<1>5. CASE CreateDocument(c)
  BY <1>1, <1>5 DEF IInv, DoneIsPast, CreateDocument, Creatable, InEpoch
<1> QED BY <1>2, <1>3, <1>4, <1>5

\* No lost update: whatever was switched, restored or retried in between, an
\* edit is applied to the content its caller was looking at.
THEOREM EditsApplyToSeenContent == Spec => EditsSeenContent
<1>1. IInv /\ [Next]_vars =>
        [\A c \in Command : ApplyCommand(c) => request[c].seen = docs[active].content]_vars
  BY EditsAreFenced
<1> QED BY <1>1, Invariance, PTL DEF Spec, EditsSeenContent

\* An edit sent in one visit never takes effect in a later one.
THEOREM EditsDieWithTheirVisit == Spec => LateEditsDie
<1>1. IInv /\ [Next]_vars => [\A c \in Command : ApplyCommand(c) => request[c].epoch = epoch]_vars
  BY EditsAreFenced
<1> QED BY <1>1, Invariance, PTL DEF Spec, LateEditsDie

\* A retried edit, replacement, switch or creation takes effect once, though a
\* restore may have taken its receipt away.
THEOREM RequestsTakeEffectOnce == Spec => EffectiveOnce
<1>1. IInv /\ [Next]_vars =>
        [\A c \in Command :
           ApplyCommand(c) \/ ReplaceVersionStore(c) \/ SwitchActiveDocument(c) \/ CreateDocument(c)
           => c \notin done]_vars
  BY EffectsAreNew
<1> QED BY <1>1, Invariance, PTL DEF Spec, EffectiveOnce
=============================================================================
