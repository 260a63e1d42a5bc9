--------------------------- MODULE AgentRunProofs ---------------------------
(***************************************************************************)
(* For any number of runs, logins, documents, revisions and restores: a row  *)
(* says running as long as a call will settle it, a run waits for its user as *)
(* long as one of its proposals is pending, but for what RunsSettle excepts,  *)
(* proposals are stored only where their run began, and the locks and checks  *)
(* of a completion implement the ledger of runs.                              *)
(***************************************************************************)
EXTENDS AgentRun, TLAPS

\* The registry holds the runs that are open.
RegistryIsOpen == \A r \in Run : r \in registry <=> pc[r] \in {"running", "answered"}

\* The lock of the registry is held by the run that is being admitted or is
\* completing, and by a restore; so there is one of these at a time.
LockHolders ==
    /\ \A r \in Run : registryLock = r <=> pc[r] \in {"admitting"} \cup Ending \cup Settled
    /\ registryLock = Main <=> main.pc = "restoring"

\* A restore has found no run, and none can be admitted before it ends.
RestoresAlone == main.pc = "restoring" => registry = {}

\* The database has not been replaced under a run.
SameDatabase == \A r \in Run : pc[r] \in Alive => origin[r].database = database

\* What was published was published by a run that will be completed.
PublishedCompletes ==
    \A r \in published :
        /\ pc[r] \in {"settling", "over"} \cup Settled
        /\ pc[r] = "settling" => MayPublish(r) /\ "rejected" \notin marks[r]
        /\ pc[r] \in Settled => status[r] = "completed"

\* Nothing is refused before a completion looks at it, nor settled before its end.
NothingYet ==
    \A r \in Run : /\ pc[r] # "settling" => "rejected" \notin marks[r]
                   /\ pc[r] \notin {"over"} \cup Settled => status[r] = "none"

\* Proposals are pending, here or in a backup, of runs that have published.
InboxFits == \A r \in Run : pending[r] > 0 \/ backup.pending[r] > 0 => r \in published

\* What has been published is pending as long as its run may yet be said to wait,
\* and a backup is as sound as the database it is of.
StatesHold ==
    /\ RunsSettle
    /\ \A r \in EndingNow \ torn : pending[r] > 0
    /\ \A r \in Run \ backup.torn : r \in backup.waiting <=> backup.pending[r] > 0

IInv ==
    /\ TypeOK /\ RowsFollowCalls /\ RegistryIsOpen /\ LockHolders
    /\ RestoresAlone /\ SameDatabase /\ PublishedCompletes /\ NothingYet
    /\ InboxFits /\ StatesHold

USE ConstantsAssumption
USE DEF Status, Row, Starting, Ending, Settled, Pc, Alive, Mark, Goes, MainPc, NoBackup,
        Main0, Origin, NoOrigin

LEMMA InitEstablishes == Init => IInv
<1> SUFFICES ASSUME Init PROVE IInv
  OBVIOUS
<1> USE DEF Init
<1>1. TypeOK BY DEF TypeOK, InboxType
<1>2. RowsFollowCalls BY DEF RowsFollowCalls
<1>3. RegistryIsOpen /\ LockHolders /\ RestoresAlone /\ SameDatabase /\ NothingYet
  BY DEF RegistryIsOpen, LockHolders, RestoresAlone, SameDatabase, NothingYet
<1>4. PublishedCompletes BY DEF PublishedCompletes
<1>5. InboxFits BY DEF InboxFits
<1>6. StatesHold BY DEF StatesHold, RunsSettle, EndingNow
<1> QED BY <1>1, <1>2, <1>3, <1>4, <1>5, <1>6 DEF IInv

LEMMA InboxTypeStays == ASSUME InboxType, UNCHANGED <<inbox, backup>> PROVE InboxType'
BY DEF InboxType, inbox

\* Nothing happens to the proposals while no call that has published moves.
LEMMA InboxStays ==
    ASSUME IInv, UNCHANGED <<inbox, backup, published>>,
           \A r \in published : pc'[r] = pc[r]
    PROVE  InboxFits' /\ StatesHold'
<1>1. EndingNow' = EndingNow /\ Unsaid' = Unsaid BY DEF EndingNow, Unsaid
<1> QED BY <1>1 DEF IInv, InboxFits, StatesHold, RunsSettle, inbox

\* A call refused before it was registered leaves only its own state.
LEMMA AgentChatKeeps == ASSUME IInv, NEW r \in Run, AgentChat(r) PROVE IInv'
<1> USE DEF IInv, AgentChat, host, place, rows, inbox
<1>1. TypeOK' BY InboxTypeStays DEF TypeOK
<1>2. RowsFollowCalls' BY DEF TypeOK, RowsFollowCalls
<1>3. RegistryIsOpen' /\ LockHolders' /\ RestoresAlone'
  BY DEF TypeOK, RegistryIsOpen, LockHolders, RestoresAlone
<1>4. SameDatabase' BY DEF TypeOK, SameDatabase
<1>5. PublishedCompletes' BY DEF TypeOK, PublishedCompletes, MayPublish
<1>6. NothingYet' BY DEF TypeOK, NothingYet
<1>9. InboxFits' /\ StatesHold'
  <2>1. \A x \in published : pc'[x] = pc[x] BY DEF TypeOK, PublishedCompletes
  <2> QED BY <2>1, InboxStays
<1> QED BY <1>9, <1>1, <1>2, <1>3, <1>4, <1>5, <1>6

LEMMA RefusedKeeps ==
    ASSUME IInv, NEW r \in Run, pc[r] \in {"called", "checked"}, Refused(r),
           UNCHANGED <<host, place, rows, main>>
    PROVE  IInv'
<1> USE DEF IInv, Refused, Over, host, place, rows, inbox
<1>1. TypeOK' BY InboxTypeStays DEF TypeOK
<1>2. RowsFollowCalls' BY DEF TypeOK, RowsFollowCalls
<1>3. RegistryIsOpen' BY DEF TypeOK, RegistryIsOpen
<1>4. LockHolders' /\ RestoresAlone' BY DEF TypeOK, LockHolders, RestoresAlone
<1>5. SameDatabase' BY DEF TypeOK, SameDatabase
<1>6. PublishedCompletes'
  <2>1. \A x \in published : x # r BY DEF PublishedCompletes
  <2> QED BY <2>1 DEF TypeOK, PublishedCompletes, MayPublish
<1>7. NothingYet' BY DEF TypeOK, NothingYet
<1>9. InboxFits' /\ StatesHold'
  <2>1. \A x \in published : pc'[x] = pc[x] BY DEF TypeOK, PublishedCompletes
  <2> QED BY <2>1, InboxStays
<1> QED BY <1>9, <1>1, <1>2, <1>3, <1>4, <1>5, <1>6, <1>7

LEMMA OriginUpdates ==
    ASSUME TypeOK, NEW r \in Run, NEW n \in Nat
    PROVE  /\ [origin EXCEPT ![r].visit = n] \in [Run -> Origin]
           /\ [origin EXCEPT ![r].database = n] \in [Run -> Origin]
BY DEF TypeOK

LEMMA CheckKeeps == ASSUME IInv, NEW r \in Run, Check(r) PROVE IInv'
<1>1. CASE ~(origin[r].document = document /\ Authorised(r))
  BY <1>1, RefusedKeeps DEF Check
<1>2. CASE origin[r].document = document /\ Authorised(r)
  <2> USE <1>2 DEF IInv, Check, host, place, rows, inbox
  <2>1. TypeOK'
    <3>0. TypeOK /\ visit \in Nat BY DEF TypeOK
    <3>2. origin' = [origin EXCEPT ![r].visit = visit] OBVIOUS
    <3>1. origin' \in [Run -> Origin] BY <3>0, <3>2, OriginUpdates
    <3> QED BY <3>1, InboxTypeStays DEF TypeOK
  <2>2. RowsFollowCalls' BY DEF TypeOK, RowsFollowCalls
  <2>3. RegistryIsOpen' BY DEF TypeOK, RegistryIsOpen
  <2>7. LockHolders' /\ RestoresAlone' BY DEF TypeOK, LockHolders, RestoresAlone
  <2>4. SameDatabase' BY DEF TypeOK, SameDatabase
  <2>5. PublishedCompletes' BY DEF TypeOK, PublishedCompletes, MayPublish
  <2>6. NothingYet' BY DEF TypeOK, NothingYet
  <2>9. InboxFits' /\ StatesHold'
    <3>1. \A x \in published : pc'[x] = pc[x] BY DEF TypeOK, PublishedCompletes
    <3> QED BY <3>1, InboxStays
  <2> QED BY <2>9, <2>1, <2>2, <2>3, <2>4, <2>5, <2>6, <2>7
<1> QED BY <1>1, <1>2

LEMMA AdmitKeeps == ASSUME IInv, NEW r \in Run, Admit(r) PROVE IInv'
<1>1. CASE ~SameGeneration(r) BY <1>1, RefusedKeeps DEF Admit, host
<1>2. CASE SameGeneration(r)
  <2> USE <1>2 DEF IInv, Admit, place, rows, inbox
  <2>1. TypeOK' BY InboxTypeStays DEF TypeOK
  <2>2. RowsFollowCalls' BY DEF TypeOK, RowsFollowCalls
  <2>3. RegistryIsOpen' /\ RestoresAlone' BY DEF TypeOK, RegistryIsOpen, RestoresAlone
  <2>4. LockHolders' BY DEF TypeOK, LockHolders
  <2>5. SameDatabase' BY DEF TypeOK, SameDatabase
  <2>6. PublishedCompletes' BY DEF TypeOK, PublishedCompletes, MayPublish
  <2>7. NothingYet' BY DEF TypeOK, NothingYet
  <2>9. InboxFits' /\ StatesHold'
    <3>1. \A x \in published : pc'[x] = pc[x] BY DEF TypeOK, PublishedCompletes
    <3> QED BY <3>1, InboxStays
  <2> QED BY <2>9, <2>1, <2>2, <2>3, <2>4, <2>5, <2>6, <2>7
<1> QED BY <1>1, <1>2

LEMMA BeginKeeps == ASSUME IInv, NEW r \in Run, Begin(r) PROVE IInv'
<1> USE DEF IInv, Begin, Refused, Over, place
<1>1. TypeOK'
  <2>1. origin' \in [Run -> Origin]
    <3>1. CASE origin' = [origin EXCEPT ![r].database = database]
      BY <3>1, OriginUpdates DEF TypeOK
    <3>2. CASE origin' = [origin EXCEPT ![r] = NoOrigin] BY <3>2 DEF TypeOK
    <3> QED BY <3>1, <3>2
  <2>2. pc' \in [Run -> Pc] /\ row' \in [Run -> Row] /\ status' \in [Run -> Row] BY DEF TypeOK
  <2>3. marks' \in [Run -> SUBSET Mark] /\ registry' \subseteq Run
    <3>1. CASE marks' = marks BY <3>1 DEF TypeOK
    <3>2. CASE marks' = [marks EXCEPT ![r] = {}] BY <3>2 DEF TypeOK
    <3> QED BY <3>1, <3>2 DEF TypeOK
  <2> QED BY <2>1, <2>2, <2>3, InboxTypeStays DEF TypeOK
<1>2. RowsFollowCalls' BY DEF TypeOK, RowsFollowCalls
<1>3. RegistryIsOpen' BY DEF TypeOK, RegistryIsOpen
<1>4. LockHolders' /\ RestoresAlone' BY DEF TypeOK, LockHolders, RestoresAlone
<1>5. SameDatabase' BY DEF TypeOK, SameDatabase
<1>6. PublishedCompletes' BY DEF TypeOK, PublishedCompletes, MayPublish
<1>7. NothingYet' BY DEF TypeOK, NothingYet
<1>9. InboxFits' /\ StatesHold'
  <2>1. \A x \in published : pc'[x] = pc[x] BY DEF TypeOK, PublishedCompletes
  <2> QED BY <2>1, InboxStays
<1> QED BY <1>9, <1>1, <1>2, <1>3, <1>4, <1>5, <1>6, <1>7

\* An event of any kind.
LEMMA NoticeKeeps ==
    ASSUME IInv, NEW r \in Run, NEW toolStarts \in BOOLEAN, NEW found \in SUBSET {"drafts", "staged"},
           pc[r] = "running", Notice(r, toolStarts, found)
    PROVE  IInv'
<1> USE DEF IInv, Notice, host, place, rows, inbox
<1>1. TypeOK' BY InboxTypeStays DEF TypeOK
<1>2. RowsFollowCalls' BY DEF TypeOK, RowsFollowCalls
<1>3. RegistryIsOpen' /\ LockHolders' /\ RestoresAlone'
  BY DEF TypeOK, RegistryIsOpen, LockHolders, RestoresAlone
<1>4. SameDatabase' BY DEF TypeOK, SameDatabase
<1>5. PublishedCompletes' BY DEF TypeOK, PublishedCompletes, MayPublish
<1>6. NothingYet' BY DEF TypeOK, NothingYet
<1>9. InboxFits' /\ StatesHold'
  <2>1. \A x \in published : pc'[x] = pc[x] BY DEF TypeOK, PublishedCompletes
  <2> QED BY <2>1, InboxStays
<1> QED BY <1>9, <1>1, <1>2, <1>3, <1>4, <1>5, <1>6

LEMMA AnswerKeeps == ASSUME IInv, NEW r \in Run, NEW ok \in BOOLEAN, Answer(r, ok) PROVE IInv'
<1> USE DEF IInv, Answer, host, place, rows, inbox
<1>1. TypeOK' BY InboxTypeStays DEF TypeOK
<1>2. RowsFollowCalls' BY DEF TypeOK, RowsFollowCalls
<1>3. RegistryIsOpen' /\ LockHolders' /\ RestoresAlone'
  BY DEF TypeOK, RegistryIsOpen, LockHolders, RestoresAlone
<1>4. SameDatabase' BY DEF TypeOK, SameDatabase
<1>5. PublishedCompletes' BY DEF TypeOK, PublishedCompletes, MayPublish
<1>6. NothingYet' BY DEF TypeOK, NothingYet
<1>9. InboxFits' /\ StatesHold'
  <2>1. \A x \in published : pc'[x] = pc[x] BY DEF TypeOK, PublishedCompletes
  <2> QED BY <2>1, InboxStays
<1> QED BY <1>9, <1>1, <1>2, <1>3, <1>4, <1>5, <1>6

LEMMA CloseKeeps == ASSUME IInv, NEW r \in Run, Close(r) PROVE IInv'
<1> USE DEF IInv, Close, place, rows, inbox
<1>1. TypeOK' BY InboxTypeStays DEF TypeOK
<1>2. RowsFollowCalls' BY DEF TypeOK, RowsFollowCalls
<1>3. RegistryIsOpen' BY DEF TypeOK, RegistryIsOpen
<1>4. LockHolders' /\ RestoresAlone' BY DEF TypeOK, LockHolders, RestoresAlone
<1>5. SameDatabase' BY DEF TypeOK, SameDatabase
<1>6. PublishedCompletes' BY DEF TypeOK, PublishedCompletes, MayPublish
<1>7. NothingYet' BY DEF TypeOK, NothingYet
<1>9. InboxFits' /\ StatesHold'
  <2>1. \A x \in published : pc'[x] = pc[x] BY DEF TypeOK, PublishedCompletes
  <2> QED BY <2>1, InboxStays
<1> QED BY <1>9, <1>1, <1>2, <1>3, <1>4, <1>5, <1>6, <1>7

LEMMA JudgeKeeps == ASSUME IInv, NEW r \in Run, Judge(r) PROVE IInv'
<1> USE DEF IInv, Judge, host, place, rows, inbox
<1>1. TypeOK' BY InboxTypeStays DEF TypeOK
<1>2. RowsFollowCalls' BY DEF TypeOK, RowsFollowCalls
<1>3. RegistryIsOpen' /\ LockHolders' /\ RestoresAlone'
  BY DEF TypeOK, RegistryIsOpen, LockHolders, RestoresAlone
<1>4. SameDatabase' BY DEF TypeOK, SameDatabase
<1>5. PublishedCompletes' BY DEF TypeOK, PublishedCompletes, MayPublish
<1>6. NothingYet' BY DEF TypeOK, NothingYet
<1>9. InboxFits' /\ StatesHold'
  <2>1. \A x \in published : pc'[x] = pc[x] BY DEF TypeOK, PublishedCompletes
  <2> QED BY <2>1, InboxStays
<1> QED BY <1>9, <1>1, <1>2, <1>3, <1>4, <1>5, <1>6

LEMMA PublishKeeps == ASSUME IInv, NEW r \in Run, Publish(r) PROVE IInv'
<1> USE DEF IInv, Publish, host, place
<1>0. PICK n \in 1 .. MaxDrafts :
        pending' = IF r \in published' THEN [pending EXCEPT ![r] = n] ELSE pending
  OBVIOUS
<1>10. InboxType' BY <1>0 DEF TypeOK, InboxType
<1>1. TypeOK' BY <1>10 DEF TypeOK
<1>2. RowsFollowCalls' BY DEF TypeOK, RowsFollowCalls
<1>3. RegistryIsOpen' /\ LockHolders' /\ RestoresAlone'
  BY DEF TypeOK, RegistryIsOpen, LockHolders, RestoresAlone
<1>4. SameDatabase' BY DEF TypeOK, SameDatabase
<1>5. PublishedCompletes' BY DEF TypeOK, PublishedCompletes, NothingYet, MayPublish
<1>6. NothingYet' BY DEF TypeOK, NothingYet
<1>7. InboxFits' BY <1>0 DEF TypeOK, InboxType, InboxFits
<1>8. StatesHold'
  <2>1. r \notin published BY DEF PublishedCompletes
  <2>2. \A x \in Run \ {r} : pending'[x] = pending[x] BY <1>0 DEF TypeOK, InboxType
  <2>3. \A x \in Run \ {r} : /\ x \in Unsaid' <=> x \in Unsaid
                             /\ x \in EndingNow' <=> x \in EndingNow
    BY DEF TypeOK, Unsaid, EndingNow
  <2>4. CASE r \in published'
    <3>1. r \in Unsaid' /\ pending'[r] > 0 BY <1>0, <2>4 DEF TypeOK, InboxType, Unsaid
    <3> QED BY <2>2, <2>3, <3>1 DEF TypeOK, StatesHold, RunsSettle, EndingNow
  <2>5. CASE r \notin published'
    <3>1. r \notin Unsaid /\ r \notin Unsaid' /\ r \notin EndingNow' /\ pending' = pending
      BY <1>0, <2>1, <2>5 DEF Unsaid, EndingNow
    <3> QED BY <2>3, <3>1 DEF StatesHold, RunsSettle, EndingNow
  <2> QED BY <2>4, <2>5
<1> QED BY <1>1, <1>2, <1>3, <1>4, <1>5, <1>6, <1>7, <1>8

\* A run that has published completes.
LEMMA PublishedIsCompleted ==
    ASSUME IInv, NEW r \in published, pc[r] = "settling" PROVE FinalStatus(r) = "completed"
BY DEF IInv, PublishedCompletes, MayPublish, FinalStatus

LEMMA SettleKeeps == ASSUME IInv, NEW r \in Run, Settle(r) PROVE IInv'
<1> USE DEF IInv, Settle, host, place, inbox
<1>0. FinalStatus(r) \in Status BY DEF FinalStatus
<1>1. TypeOK' BY InboxTypeStays, <1>0 DEF TypeOK
<1>2. RowsFollowCalls' BY <1>0 DEF TypeOK, RowsFollowCalls
<1>3. RegistryIsOpen' /\ RestoresAlone' BY DEF TypeOK, RegistryIsOpen, RestoresAlone
<1>4. LockHolders' BY DEF TypeOK, LockHolders
<1>5. SameDatabase' BY DEF TypeOK, SameDatabase
<1>6. PublishedCompletes'
  <2>1. r \in published => status'[r] = "completed" BY PublishedIsCompleted DEF TypeOK
  <2> QED BY <2>1 DEF TypeOK, PublishedCompletes, MayPublish
<1>7. NothingYet' BY DEF TypeOK, NothingYet
<1>8. InboxFits' BY DEF InboxFits
<1>9. StatesHold'
  <2>1. Unsaid' = Unsaid /\ EndingNow' = EndingNow BY DEF TypeOK, Unsaid, EndingNow
  <2> QED BY <2>1 DEF StatesHold, RunsSettle
<1> QED BY <1>1, <1>2, <1>3, <1>4, <1>5, <1>6, <1>7, <1>8, <1>9

LEMMA AwaitKeeps == ASSUME IInv, NEW r \in Run, Await(r) PROVE IInv'
<1> USE DEF IInv, Await, Awaits, host, place
<1>10. InboxType' BY DEF TypeOK, InboxType
<1>1. TypeOK' BY <1>10 DEF TypeOK
<1>2. RowsFollowCalls' BY DEF TypeOK, RowsFollowCalls
<1>3. RegistryIsOpen' /\ LockHolders' /\ RestoresAlone'
  BY DEF TypeOK, RegistryIsOpen, LockHolders, RestoresAlone
<1>4. SameDatabase' BY DEF TypeOK, SameDatabase
<1>5. PublishedCompletes' BY DEF TypeOK, PublishedCompletes, MayPublish
<1>6. NothingYet' BY DEF TypeOK, NothingYet
<1>7. InboxFits' BY DEF InboxFits
<1>8. StatesHold'
  <2>1. EndingNow' = EndingNow /\ r \in EndingNow BY DEF TypeOK, EndingNow
  <2>2. \A x \in Run \ {r} : x \in Unsaid' <=> x \in Unsaid BY DEF TypeOK, Unsaid
  <2>3. r \in waiting' /\ (r \notin torn => pending[r] > 0) BY <2>1 DEF StatesHold
  <2> QED BY <2>1, <2>2, <2>3 DEF StatesHold, RunsSettle
<1> QED BY <1>1, <1>2, <1>3, <1>4, <1>5, <1>6, <1>7, <1>8

\* The end of a call, apart from what it does to the state of its run.
LEMMA OverKeeps ==
    ASSUME IInv, NEW r \in Run, pc[r] \in Settled, Over(r, status[r]), registryLock' = None,
           UNCHANGED <<session, tokens, nextToken, registry, generation, storeLock, place,
                       row, backup, main>>
    PROVE  /\ RowsFollowCalls' /\ RegistryIsOpen' /\ LockHolders' /\ RestoresAlone'
           /\ SameDatabase' /\ PublishedCompletes' /\ NothingYet'
<1> USE DEF IInv, Over, place
<1>1. RowsFollowCalls' BY DEF TypeOK, RowsFollowCalls
<1>2. RegistryIsOpen' /\ RestoresAlone' BY DEF TypeOK, RegistryIsOpen, RestoresAlone
<1>3. LockHolders' BY DEF TypeOK, LockHolders
<1>4. SameDatabase' BY DEF TypeOK, SameDatabase
<1>5. PublishedCompletes' BY DEF TypeOK, PublishedCompletes, MayPublish
<1>6. NothingYet' BY DEF TypeOK, NothingYet
<1> QED BY <1>1, <1>2, <1>3, <1>4, <1>5, <1>6

LEMMA FinishKeeps == ASSUME IInv, NEW r \in Run, Finish(r) PROVE IInv'
<1>1. pc[r] \in Settled BY DEF Finish
<1> USE DEF Finish, place
<1>2. /\ RowsFollowCalls' /\ RegistryIsOpen' /\ LockHolders' /\ RestoresAlone'
      /\ SameDatabase' /\ PublishedCompletes' /\ NothingYet'
  BY <1>1, OverKeeps
<1> USE DEF IInv, Over
<1>10. InboxType' BY DEF TypeOK, InboxType, Unsaid
<1>3. TypeOK' BY <1>10 DEF TypeOK
<1>4. InboxFits' BY DEF InboxFits
<1>5. StatesHold'
  <2>1. \A x \in Run \ {r} : /\ x \in Unsaid' <=> x \in Unsaid
                             /\ x \in EndingNow' => x \in EndingNow
    BY DEF TypeOK, Unsaid, EndingNow
  <2>2. r \notin Unsaid' /\ r \notin EndingNow' BY DEF TypeOK, Unsaid, EndingNow
  <2>5. EndingNow \subseteq Run /\ r \notin EndingNow' BY <2>2 DEF EndingNow, TypeOK
  <2>6. \A x \in EndingNow' \ torn : pending[x] > 0
    <3>1. \A x \in EndingNow' : x \in EndingNow BY <2>1, <2>5 DEF EndingNow, TypeOK
    <3> QED BY <3>1 DEF StatesHold
  <2>7. UNCHANGED <<pending, torn, backup>> OBVIOUS
  <2>3. CASE r \in published
    <3>1. Awaits(r) BY <1>1, <2>3 DEF Awaits, PublishedCompletes
    <3>2. r \in EndingNow /\ r \in waiting' BY <1>1, <2>3, <3>1 DEF EndingNow
    <3>3. /\ r \in Run \ torn => pending[r] > 0
          /\ \A x \in Run \ {r} : x \in waiting' <=> x \in waiting
      BY <3>2 DEF StatesHold
    <3>4. \A x \in Run \ (torn \cup Unsaid') : x \in waiting' <=> pending[x] > 0
      BY <2>1, <3>2, <3>3 DEF StatesHold, RunsSettle
    <3> QED BY <2>6, <2>7, <3>4 DEF StatesHold, RunsSettle
  <2>4. CASE r \notin published
    <3>1. r \notin waiting' BY <2>4 DEF Awaits
    <3>2. ~(pending[r] > 0) BY <2>4 DEF InboxFits
    <3>3. \A x \in Run \ {r} : x \in waiting' <=> x \in waiting OBVIOUS
    <3>4. \A x \in Run \ (torn \cup Unsaid') : x \in waiting' <=> pending[x] > 0
      BY <2>1, <3>1, <3>2, <3>3 DEF StatesHold, RunsSettle
    <3> QED BY <2>6, <2>7, <3>4 DEF StatesHold, RunsSettle
  <2> QED BY <2>3, <2>4
<1> QED BY <1>2, <1>3, <1>4, <1>5

LEMMA FinishFailsKeeps == ASSUME IInv, NEW r \in Run, FinishFails(r) PROVE IInv'
<1> USE DEF FinishFails, place
<1>2. /\ RowsFollowCalls' /\ RegistryIsOpen' /\ LockHolders' /\ RestoresAlone'
      /\ SameDatabase' /\ PublishedCompletes' /\ NothingYet'
  BY OverKeeps
<1> USE DEF IInv, Over
<1>10. InboxType' BY DEF TypeOK, InboxType, Unsaid
<1>3. TypeOK' BY <1>10 DEF TypeOK
<1>4. InboxFits' BY DEF InboxFits
<1>5. StatesHold'
  <2>1. \A x \in Run \ {r} : /\ x \in Unsaid' <=> x \in Unsaid
                             /\ x \in EndingNow' => x \in EndingNow
                             /\ x \in torn' <=> x \in torn
    BY DEF TypeOK, Unsaid, EndingNow
  <2>2. /\ r \notin Unsaid' /\ r \notin EndingNow'
        /\ r \in Unsaid => r \in torn'
        /\ torn \subseteq torn'
    BY DEF TypeOK, Unsaid, EndingNow
  <2>3. \A x \in Run \ (torn' \cup Unsaid') : x \notin Unsaid BY <2>1, <2>2
  <2>4. \A x \in Run \ (torn' \cup Unsaid') : x \in waiting <=> pending[x] > 0
    BY <2>2, <2>3 DEF StatesHold, RunsSettle
  <2>5. \A x \in EndingNow' \ torn' : x \in EndingNow \ torn
    BY <2>1, <2>2 DEF EndingNow, TypeOK
  <2> QED BY <2>4, <2>5 DEF StatesHold, RunsSettle
<1> QED BY <1>2, <1>3, <1>4, <1>5

\* What a command leaves pending is part of what was, and a run that waits with
\* nothing left stops waiting.
LEMMA LeavesKeeps ==
    ASSUME IInv, NEW left \in [Run -> Nat], NEW runs \in SUBSET Run, Leaves(left, runs),
           \A r \in Run : left[r] <= pending[r] /\ (left[r] # pending[r] => r \in runs),
           undoable' \in [Run -> Nat], revision' \in [Document -> Nat]
    PROVE  IInv'
<1> USE DEF IInv, Leaves, host, calls
<1>10. InboxType' BY DEF TypeOK, InboxType, Settles, EndingNow
<1>1. TypeOK' BY <1>10 DEF TypeOK
<1>2. RowsFollowCalls' /\ RegistryIsOpen' BY DEF RowsFollowCalls, RegistryIsOpen
<1>3. LockHolders' /\ RestoresAlone' BY DEF LockHolders, RestoresAlone
<1>4. SameDatabase' /\ NothingYet' BY DEF SameDatabase, NothingYet
<1>5. PublishedCompletes' BY DEF PublishedCompletes, MayPublish
<1>6. InboxFits' BY DEF TypeOK, InboxType, InboxFits
<1>7. StatesHold'
  <2>1. EndingNow' = EndingNow /\ Unsaid' = Unsaid BY DEF EndingNow, Unsaid
  <2>2. ASSUME NEW r \in Run, r \notin torn', r \notin Unsaid
        PROVE  r \in waiting' <=> pending'[r] > 0
    <3>1. r \in waiting <=> pending[r] > 0 BY <2>2 DEF StatesHold, RunsSettle
    <3>2. CASE r \in runs BY <3>1, <3>2 DEF TypeOK, InboxType, Settles
    <3>3. CASE r \notin runs BY <3>1, <3>3 DEF TypeOK, InboxType, Settles
    <3> QED BY <3>2, <3>3
  <2>3. ASSUME NEW r \in EndingNow \ torn' PROVE pending'[r] > 0
    BY <2>3 DEF TypeOK, InboxType, EndingNow
  <2> QED BY <2>1, <2>2, <2>3 DEF StatesHold, RunsSettle
<1> QED BY <1>1, <1>2, <1>3, <1>4, <1>5, <1>6, <1>7

LEMMA DecisionsKeep ==
    ASSUME IInv,
           \/ \E r \in Run : ConfirmProposal(r) \/ RejectProposal(r) \/ UndoConfirmedProposal(r)
           \/ \E due \in [Run -> 0 .. MaxDrafts] : ListAgentProposals(due)
    PROVE  IInv'
<1>0. TypeOK /\ InboxType BY DEF IInv, TypeOK
<1>1. ASSUME NEW r \in Run, LeavesOne(r), undoable' \in [Run -> Nat],
             revision' \in [Document -> Nat]
      PROVE  IInv'
  <2> DEFINE left == [pending EXCEPT ![r] = @ - 1]
  <2>1. /\ left \in [Run -> Nat]
        /\ \A x \in Run : left[x] <= pending[x] /\ (left[x] # pending[x] => x \in {r})
    BY <1>0, <1>1 DEF LeavesOne, TypeOK, InboxType
  <2>2. Leaves(left, {r}) BY <1>1 DEF LeavesOne
  <2> HIDE DEF left
  <2> QED BY <1>1, <2>1, <2>2, LeavesKeeps
<1>2. ASSUME Edited PROVE revision' \in [Document -> Nat]
  BY <1>0, <1>2 DEF Edited, TypeOK, InboxType
<1>3. ASSUME NEW r \in Run, ConfirmProposal(r) PROVE IInv'
  BY <1>0, <1>1, <1>2, <1>3 DEF ConfirmProposal, TypeOK, InboxType
<1>4. ASSUME NEW r \in Run, RejectProposal(r) PROVE IInv'
  BY <1>0, <1>1, <1>4 DEF RejectProposal, TypeOK, InboxType
<1>5. ASSUME NEW r \in Run, UndoConfirmedProposal(r) PROVE IInv'
  <2>1. undoable' \in [Run -> Nat] BY <1>0, <1>5 DEF UndoConfirmedProposal, TypeOK, InboxType
  <2>2. Leaves(pending, {r}) /\ pending \in [Run -> Nat] BY <1>0, <1>5 DEF UndoConfirmedProposal, TypeOK, InboxType
  <2>3. \A x \in Run : pending[x] <= pending[x] BY <1>0 DEF TypeOK, InboxType
  <2> QED BY <1>2, <1>5, <2>1, <2>2, <2>3, LeavesKeeps DEF UndoConfirmedProposal
<1>6. ASSUME NEW due \in [Run -> 0 .. MaxDrafts], ListAgentProposals(due) PROVE IInv'
  <2> DEFINE left == [r \in Run |-> pending[r] - due[r]]
             runs == {r \in Run : due[r] > 0}
  <2>1. /\ left \in [Run -> Nat]
        /\ \A x \in Run : left[x] <= pending[x] /\ (left[x] # pending[x] => x \in runs)
    BY <1>0, <1>6 DEF ListAgentProposals, TypeOK, InboxType
  <2>2. Leaves(left, runs) BY <1>6 DEF ListAgentProposals
  <2>3. undoable' \in [Run -> Nat] /\ revision' \in [Document -> Nat]
    BY <1>0, <1>6 DEF ListAgentProposals, TypeOK, InboxType
  <2> HIDE DEF left, runs
  <2>4. runs \in SUBSET Run BY DEF runs
  <2> QED BY <2>1, <2>2, <2>3, <2>4, LeavesKeeps
<1> QED BY <1>3, <1>4, <1>5, <1>6

\* Cancelling touches only runs that are registered, and so not published.
LEMMA CancelKeeps ==
    ASSUME IInv, LogoutAccount \/ LoginCancels \/ (\E r \in Run : CancelAgentRun(r))
    PROVE  IInv'
<1>1. cancelled' \subseteq cancelled \cup registry
  BY DEF LogoutAccount, LoginCancels, CancelAgentRun, CancelRunsForToken, Cancel, RunsOf
<1> USE DEF IInv, LogoutAccount, LoginCancels, CancelAgentRun, CancelRunsForToken, Cancel,
            host, place, rows, inbox
<1>7. main' \in [pc: MainPc, old: 0 .. MaxToken, new: 0 .. MaxToken] /\ storeLock' \in {storeLock, None}
      /\ main.pc # "restoring" /\ main'.pc # "restoring"
  <2>1. CASE LogoutAccount
    <3>1. main' = [pc |-> "logout", old |-> session, new |-> 0] BY <2>1
    <3> QED BY <2>1, <3>1 DEF TypeOK, MainFree
  <2>2. CASE LoginCancels BY <2>2 DEF TypeOK
  <2>3. CASE \E r \in Run : CancelAgentRun(r) BY <2>3 DEF TypeOK, MainFree
  <2> QED BY <2>1, <2>2, <2>3
<1>8. UNCHANGED <<place, rows, pc, origin, marks, published, status, session, tokens,
                   nextToken, registry, generation, registryLock>>
  OBVIOUS
<1>2. TypeOK' BY InboxTypeStays, <1>1, <1>7, <1>8 DEF TypeOK
<1>3. RowsFollowCalls' BY DEF TypeOK, RowsFollowCalls
<1>4. RegistryIsOpen' /\ LockHolders' /\ RestoresAlone'
  BY <1>7, <1>8 DEF RegistryIsOpen, LockHolders, RestoresAlone
<1>5. SameDatabase' /\ NothingYet' BY DEF TypeOK, SameDatabase, NothingYet
<1>6. PublishedCompletes'
  BY <1>1 DEF TypeOK, PublishedCompletes, MayPublish, RegistryIsOpen
<1>9. InboxFits' /\ StatesHold' BY <1>8, InboxStays
<1> QED BY <1>2, <1>3, <1>4, <1>5, <1>6, <1>9

\* What else the main thread does leaves the calls alone.
LEMMA MainKeeps ==
    ASSUME IInv, \/ LoginAccount \/ LoginEnds \/ LogoutDeletes \/ LogoutEnds
                 \/ Edit \/ ExportDatabaseBackup \/ \E d \in Document : SwitchActiveDocument(d)
    PROVE  IInv'
<1> USE DEF IInv, LoginAccount, LoginEnds, LogoutDeletes, LogoutEnds, Edit,
            ExportDatabaseBackup, SwitchActiveDocument, MainFree, host, place, rows, inbox, calls
<1>10. InboxType'
  <2>1. CASE UNCHANGED <<inbox, backup>> BY <2>1, InboxTypeStays DEF TypeOK
  <2>2. CASE ExportDatabaseBackup
    <3>1. torn \cup Unsaid \in SUBSET Run BY DEF TypeOK, InboxType, Unsaid
    <3> QED BY <2>2, <3>1 DEF TypeOK, InboxType
  <2> QED BY <2>1, <2>2
<1>1. TypeOK'
  <2>1. CASE LoginAccount BY <1>10, <2>1 DEF TypeOK, HeldAfterLogin
  <2>2. CASE LoginEnds \/ LogoutDeletes \/ LogoutEnds BY <1>10, <2>2 DEF TypeOK
  <2>3. CASE Edit BY <1>10, <2>3 DEF TypeOK
  <2>4. CASE ExportDatabaseBackup BY <1>10, <2>4 DEF TypeOK
  <2>5. CASE \E d \in Document : SwitchActiveDocument(d) BY <1>10, <2>5 DEF TypeOK
  <2> QED BY <2>1, <2>2, <2>3, <2>4, <2>5
<1>2. RowsFollowCalls' /\ RegistryIsOpen' BY DEF RowsFollowCalls, RegistryIsOpen
<1>3. LockHolders' BY DEF TypeOK, LockHolders
<1>4. RestoresAlone' BY DEF TypeOK, RestoresAlone
<1>5. SameDatabase' /\ NothingYet' BY DEF SameDatabase, NothingYet
<1>6. PublishedCompletes' BY DEF PublishedCompletes, MayPublish
<1>7. InboxFits' /\ StatesHold'
  <2>1. EndingNow' = EndingNow /\ Unsaid' = Unsaid BY DEF EndingNow, Unsaid
  <2>2. CASE UNCHANGED backup BY <2>1, <2>2 DEF InboxFits, StatesHold, RunsSettle
  <2>3. CASE ExportDatabaseBackup
    <3>1. backup'.pending = pending /\ backup'.waiting = waiting /\ backup'.torn = torn \cup Unsaid
      BY <2>3
    <3>2. inbox' = inbox BY <2>3
    <3> QED BY <2>1, <3>1, <3>2 DEF InboxFits, StatesHold, RunsSettle
  <2> QED BY <2>2, <2>3
<1> QED BY <1>1, <1>2, <1>3, <1>4, <1>5, <1>6, <1>7

LEMMA RestoreKeeps ==
    ASSUME IInv, RestoreDatabaseBackup \/ RestoreSwaps \/ RestoreFails
    PROVE  IInv'
<1> USE DEF IInv, RestoreDatabaseBackup, RestoreSwaps, RestoreFails, MainFree, NoRuns,
            host, place, rows, inbox, calls
<1>0. RestoreSwaps => \A r \in Run : pc[r] \notin Alive
  BY DEF LockHolders, RestoresAlone, RegistryIsOpen, TypeOK
<1>1. TypeOK'
  <2>1. CASE RestoreDatabaseBackup BY <2>1, InboxTypeStays DEF TypeOK
  <2>2. CASE RestoreSwaps
    <3>1. InboxType' /\ backup.row \in [Run -> Row] BY <2>2 DEF TypeOK, InboxType
    <3> QED BY <2>2, <3>1 DEF TypeOK, Recovered
  <2>3. CASE RestoreFails BY <2>3, InboxTypeStays DEF TypeOK
  <2> QED BY <2>1, <2>2, <2>3
<1>2. RowsFollowCalls' BY <1>0 DEF TypeOK, InboxType, RowsFollowCalls, Recovered
<1>3. RegistryIsOpen' BY DEF RegistryIsOpen
<1>4. LockHolders' /\ RestoresAlone' BY DEF TypeOK, LockHolders, RestoresAlone
<1>5. SameDatabase' /\ NothingYet' BY <1>0 DEF SameDatabase, NothingYet
<1>6. PublishedCompletes' BY DEF PublishedCompletes, MayPublish
<1>7. InboxFits' /\ StatesHold'
  <2>1. CASE UNCHANGED <<inbox, backup>> BY <2>1, InboxStays
  <2>2. CASE RestoreSwaps
    <3>1. EndingNow' = {} /\ Unsaid' = {}
      BY <2>2 DEF EndingNow, Unsaid, LockHolders, TypeOK
    <3>2. /\ backup' = backup /\ pending' = backup.pending /\ waiting' = backup.waiting
          /\ torn' = backup.torn /\ published' = published
      BY <2>2
    <3> QED BY <3>1, <3>2 DEF InboxFits, StatesHold, RunsSettle
  <2> QED BY <2>1, <2>2
<1> QED BY <1>1, <1>2, <1>3, <1>4, <1>5, <1>6, <1>7

LEMMA RestartKeeps == ASSUME IInv, Restart PROVE IInv'
<1> USE DEF IInv, Restart
<1>10. InboxType' BY DEF TypeOK, InboxType, Unsaid
<1>1. TypeOK'
  <2>1. row' \in [Run -> Row] BY DEF TypeOK, Recovered
  <2>2. pc' \in [Run -> Pc] /\ status' \in [Run -> Row] BY DEF TypeOK
  <2> QED BY <1>10, <2>1, <2>2 DEF TypeOK
<1>2. RowsFollowCalls' BY DEF TypeOK, RowsFollowCalls, Recovered
<1>3. RegistryIsOpen' BY DEF TypeOK, RegistryIsOpen
<1>4. LockHolders' /\ RestoresAlone' BY DEF TypeOK, LockHolders, RestoresAlone
<1>5. SameDatabase' /\ NothingYet' BY DEF TypeOK, SameDatabase, NothingYet
<1>6. PublishedCompletes' BY DEF TypeOK, PublishedCompletes, MayPublish
<1>7. InboxFits' BY DEF InboxFits
<1>8. StatesHold'
  <2>1. EndingNow' = {} /\ Unsaid' = {} BY DEF TypeOK, EndingNow, Unsaid
  <2> QED BY <2>1 DEF StatesHold, RunsSettle
<1> QED BY <1>1, <1>2, <1>3, <1>4, <1>5, <1>6, <1>7, <1>8

LEMMA NextKeeps == IInv /\ [Next]_vars => IInv'
<1> SUFFICES ASSUME IInv, [Next]_vars PROVE IInv'
  OBVIOUS
<1>1. ASSUME NEW r \in Run, AgentChat(r) \/ RunStep(r) \/ ProposalReady(r) PROVE IInv'
  <2>1. CASE ProposalReady(r)
    BY <2>1, NoticeKeeps DEF ProposalReady
  <2> QED BY <1>1, <2>1, AgentChatKeeps, CheckKeeps, AdmitKeeps, BeginKeeps, AnswerKeeps,
             CloseKeeps, JudgeKeeps, PublishKeeps, SettleKeeps, AwaitKeeps, FinishKeeps,
             FinishFailsKeeps DEF RunStep
<1>2. ASSUME NEW r \in Run, NEW t \in BOOLEAN, Event(r, t) PROVE IInv'
  BY <1>2, NoticeKeeps DEF Event
<1>3. CASE MainStep
  BY <1>3, CancelKeeps, MainKeeps, RestoreKeeps DEF MainStep
<1>4. CASE UNCHANGED vars
  BY <1>4 DEF vars, host, place, rows, inbox, calls, IInv, TypeOK, RowsFollowCalls, RegistryIsOpen,
              LockHolders, RestoresAlone, SameDatabase, PublishedCompletes, MayPublish,
              NothingYet, InboxType, InboxFits, StatesHold, RunsSettle, EndingNow, Unsaid, inbox
<1> QED BY <1>1, <1>2, <1>3, <1>4, CancelKeeps, DecisionsKeep, MainKeeps, RestoreKeeps, RestartKeeps DEF Next

LEMMA Invariance == Spec => []IInv
BY InitEstablishes, NextKeeps, PTL DEF Spec

\* Every variable holds a value of its type, for any number of runs and logins.
THEOREM TypesStayCorrect == Spec => []TypeOK
BY Invariance, PTL DEF IInv

\* No run is left behind: a row says running exactly as long as a call of this
\* process will settle it, through restarts and restores.
THEOREM RowsAreSettled == Spec => []RowsFollowCalls
BY Invariance, PTL DEF IInv

\* A run waits for its user exactly as long as a proposal of it is pending, but
\* for the exceptions that RunsSettle names, for any number of runs and proposals.
THEOREM RunsAlwaysSettle == Spec => []RunsSettle
<1>1. IInv => RunsSettle BY DEF IInv, StatesHold
<1> QED BY <1>1, Invariance, PTL

\* Only Publish publishes, and only on the target it finds unchanged.
LEMMA PublishingFits ==
    ASSUME IInv, [Next]_vars, NEW r \in Run, r \in published' \ published
    PROVE  /\ Publish(r) /\ pc[r] = "judged"
           /\ database = origin[r].database
           /\ document = origin[r].document /\ visit = origin[r].visit
           /\ revision[origin[r].document] = origin[r].target
<1>1. Publish(r)
  <2>1. PICK x \in Run : Publish(x) \/ UNCHANGED published
    BY DEF Next, vars, calls, AgentChat, RunStep, Check, Admit, Begin, Answer, Close, Judge,
           Settle, Await, Finish, FinishFails, ConfirmProposal, RejectProposal, LeavesOne,
           UndoConfirmedProposal, ListAgentProposals, Leaves, Refused, Over, ProposalReady, Event, Notice, CancelAgentRun, Cancel, MainStep,
           LoginAccount, LoginCancels, LoginEnds, LogoutAccount, LogoutDeletes, LogoutEnds,
           CancelRunsForToken, Edit, SwitchActiveDocument, ExportDatabaseBackup,
           RestoreDatabaseBackup, RestoreSwaps, RestoreFails, Restart
  <2> QED BY <2>1 DEF Publish
<1>2. Publishable(r) BY <1>1 DEF Publish
<1>3. database = origin[r].database BY <1>1 DEF Publish, IInv, SameDatabase
<1> QED BY <1>1, <1>2, <1>3 DEF Publish, Publishable, OnTarget, CursorCurrent

\* Whenever the answer arrives: proposals are stored on what their run was
\* started on or not at all.
THEOREM ProposalsAlwaysFit == Spec => ProposalsFitTarget
<1>1. IInv /\ [Next]_vars =>
        [\A r \in Run : r \in published' \ published =>
           /\ database = origin[r].database
           /\ document = origin[r].document /\ visit = origin[r].visit
           /\ revision[origin[r].document] = origin[r].target]_vars
  BY PublishingFits
<1> QED BY <1>1, Invariance, PTL DEF Spec, ProposalsFitTarget

(* ---------------------------------------------------------------------- *)
(* Refinement                                                               *)
(* ---------------------------------------------------------------------- *)

\* What the ledger calls the outcome of the runs.
Outcomes == [r \in Run |-> Outcome(r)]

\* A run that moves from one place to another, alone.
LEMMA OutcomeMoves ==
    ASSUME IInv, NEW r \in Run, NEW to \in Row \cup {"open", "closing"}, NEW p \in Pc, NEW s \in Row,
           pc' = [pc EXCEPT ![r] = p],
           status' = [status EXCEPT ![r] = s],
           to = CASE p \in {"idle"} \cup Starting -> "none"
                  [] p \in {"running", "answered"} -> "open"
                  [] p \in Ending -> "closing"
                  [] OTHER -> s
    PROVE  Outcomes' = [Outcomes EXCEPT ![r] = to]
<1>1. ASSUME NEW x \in Run PROVE Outcome(x)' = IF x = r THEN to ELSE Outcome(x)
  BY DEF Outcome, IInv, TypeOK
<1> QED BY <1>1 DEF Outcomes

\* A move that does not settle.
LEMMA OutcomeGoes ==
    ASSUME IInv, NEW r \in Run, NEW p \in Pc \ ({"over"} \cup Settled), Goes(r, p), UNCHANGED status
    PROVE  Outcomes' = [Outcomes EXCEPT ![r] =
             CASE p \in {"idle"} \cup Starting -> "none"
               [] p \in {"running", "answered"} -> "open"
               [] p \in Ending -> "closing"]
<1>1. status' = [status EXCEPT ![r] = status[r]] /\ status[r] \in Row
  BY DEF IInv, TypeOK
<1> QED BY <1>1, OutcomeMoves

LEMMA SameOutcome ==
    ASSUME IInv, UNCHANGED <<pc, status, cancelled, published>>
    PROVE  UNCHANGED Ledger!vars
BY DEF Ledger!vars, Outcome

\* Before it is registered a run is nothing to the ledger.
LEMMA StartsAreSilent ==
    ASSUME IInv, NEW r \in Run, AgentChat(r) \/ Check(r) \/ Admit(r)
    PROVE  UNCHANGED Ledger!vars
<1>1. UNCHANGED <<cancelled, published>>
  BY DEF AgentChat, Check, Admit, Refused, Over
<1>2. Outcomes' = Outcomes
  <2>1. PICK p \in {"called", "checked", "admitting", "over"} : pc' = [pc EXCEPT ![r] = p]
    BY DEF AgentChat, Check, Admit, Refused, Over
  <2>2. status' = [status EXCEPT ![r] = IF p = "over" THEN "none" ELSE status[r]]
    BY <2>1 DEF AgentChat, Check, Admit, Refused, Over, IInv, TypeOK
  <2>3. Outcome(r) = "none"
    BY DEF AgentChat, Check, Admit, Outcome
  <2>4. Outcomes' = [Outcomes EXCEPT ![r] = "none"]
    BY <2>1, <2>2, OutcomeMoves DEF IInv, TypeOK
  <2> QED BY <2>3, <2>4 DEF Outcomes
<1> QED BY <1>1, <1>2 DEF Outcomes, Ledger!vars

LEMMA BeginOpens ==
    ASSUME IInv, NEW r \in Run, Begin(r) PROVE Ledger!Open(r) \/ UNCHANGED Ledger!vars
<1>0. UNCHANGED <<cancelled, published>> /\ Outcomes[r] = "none"
  BY DEF Begin, Refused, Over, Outcome, Outcomes
<1>1. CASE OnTarget(r) /\ CursorCurrent(r) /\ row[r] = "none"
  <2>1. status' = [status EXCEPT ![r] = status[r]] /\ pc' = [pc EXCEPT ![r] = "running"]
    BY <1>1 DEF Begin, IInv, TypeOK
  <2>2. Outcomes' = [Outcomes EXCEPT ![r] = "open"]
    BY <2>1, OutcomeMoves DEF IInv, TypeOK
  <2> QED BY <1>0, <2>2 DEF Ledger!Open, Outcomes
<1>2. CASE ~(OnTarget(r) /\ CursorCurrent(r) /\ row[r] = "none")
  <2>1. status' = [status EXCEPT ![r] = "none"] /\ pc' = [pc EXCEPT ![r] = "over"]
    BY <1>2 DEF Begin, Refused, Over
  <2>2. Outcomes' = [Outcomes EXCEPT ![r] = "none"]
    BY <2>1, OutcomeMoves
  <2> QED BY <1>0, <2>2 DEF Outcomes, Ledger!vars
<1> QED BY <1>1, <1>2

LEMMA NoticeCancels ==
    ASSUME IInv, NEW r \in Run, NEW t \in BOOLEAN, NEW f, pc[r] = "running", Notice(r, t, f)
    PROVE  Ledger!Next \/ UNCHANGED Ledger!vars
<1>1. Outcomes' = Outcomes /\ Outcomes[r] = "open" /\ published' = published
  BY DEF Notice, Outcomes, Outcome
<1>2. CASE cancelled' = cancelled \cup {r}
  <2>1. Ledger!Cancel({r}) BY <1>1, <1>2 DEF Ledger!Cancel, Outcomes
  <2> QED BY <2>1 DEF Ledger!Next
<1>3. CASE cancelled' = cancelled
  BY <1>1, <1>3 DEF Ledger!vars, Outcomes
<1> QED BY <1>2, <1>3 DEF Notice

LEMMA AnswerAndJudgeAreSilent ==
    ASSUME IInv, NEW r \in Run, Judge(r) \/ \E ok \in BOOLEAN : Answer(r, ok)
    PROVE  UNCHANGED Ledger!vars
<1>1. CASE Judge(r)
  <2>1. Outcomes' = [Outcomes EXCEPT ![r] = "closing"]
    BY <1>1, OutcomeGoes DEF Judge
  <2> QED BY <1>1, <2>1 DEF Judge, Outcomes, Outcome, Ledger!vars
<1>2. CASE \E ok \in BOOLEAN : Answer(r, ok)
  <2>1. Outcomes' = [Outcomes EXCEPT ![r] = "open"]
    BY <1>2, OutcomeGoes DEF Answer
  <2> QED BY <1>2, <2>1 DEF Answer, Outcomes, Outcome, Ledger!vars
<1> QED BY <1>1, <1>2

LEMMA CloseCloses == ASSUME IInv, NEW r \in Run, Close(r) PROVE Ledger!Close(r)
<1>1. Outcomes' = [Outcomes EXCEPT ![r] = "closing"]
  BY OutcomeGoes DEF Close
<1> QED BY <1>1 DEF Close, Ledger!Close, Outcomes, Outcome

LEMMA PublishPublishes ==
    ASSUME IInv, NEW r \in Run, Publish(r) PROVE Ledger!Publish(r) \/ UNCHANGED Ledger!vars
<1>1. Outcomes' = [Outcomes EXCEPT ![r] = "closing"]
  BY OutcomeGoes DEF Publish
<1>2. Outcomes[r] = "closing" /\ Outcomes' = Outcomes /\ cancelled' = cancelled
  BY <1>1 DEF Publish, Outcomes, Outcome
<1>3. r \notin published BY DEF Publish, IInv, PublishedCompletes
<1>4. CASE published' = published BY <1>2, <1>4 DEF Ledger!vars, Outcomes
<1>5. CASE published' = published \cup {r} /\ MayPublish(r)
  BY <1>2, <1>3, <1>5 DEF Ledger!Publish, MayPublish, Outcomes
<1> QED BY <1>4, <1>5 DEF Publish

LEMMA SettleSettles ==
    ASSUME IInv, NEW r \in Run, Settle(r) PROVE Ledger!Settle(r, FinalStatus(r))
<1>1. FinalStatus(r) \in Status BY DEF FinalStatus
<1>2. Outcomes' = [Outcomes EXCEPT ![r] = FinalStatus(r)]
  BY <1>1, OutcomeMoves DEF Settle, Over
<1>3. FinalStatus(r) = "completed" => r \notin cancelled BY DEF FinalStatus
<1>4. r \in published => FinalStatus(r) = "completed"
  BY DEF Settle, IInv, PublishedCompletes, MayPublish, FinalStatus
<1> QED BY <1>2, <1>3, <1>4 DEF Settle, Over, Ledger!Settle, Outcomes, Outcome

\* To the ledger a run is settled with its row.
LEMMA EndsAreSilent ==
    ASSUME IInv, NEW r \in Run, Await(r) \/ Finish(r) \/ FinishFails(r)
    PROVE  UNCHANGED Ledger!vars
<1>1. /\ UNCHANGED <<cancelled, published>> /\ status' = [status EXCEPT ![r] = status[r]]
      /\ pc[r] \in Settled /\ status[r] \in Row
  BY DEF Await, Finish, FinishFails, Over, IInv, TypeOK
<1>2. PICK p \in {"awaiting", "over"} : pc' = [pc EXCEPT ![r] = p]
  BY DEF Await, Finish, FinishFails, Over
<1>3. Outcomes' = [Outcomes EXCEPT ![r] = status[r]] BY <1>1, <1>2, OutcomeMoves
<1>4. Outcomes[r] = status[r] BY <1>1 DEF Outcomes, Outcome
<1> QED BY <1>1, <1>3, <1>4 DEF Outcomes, Ledger!vars

LEMMA CancelCancels ==
    ASSUME IInv, LogoutAccount \/ LoginCancels \/ (\E r \in Run : CancelAgentRun(r))
    PROVE  Ledger!Next \/ UNCHANGED Ledger!vars
<1>1. PICK S \in SUBSET registry : Cancel(S)
  BY DEF LogoutAccount, LoginCancels, CancelAgentRun, CancelRunsForToken, RunsOf
<1>2. S \subseteq Run /\ \A x \in S : Outcome(x) = "open"
  BY DEF IInv, TypeOK, RegistryIsOpen, Outcome
<1>3. Ledger!Cancel(S) BY <1>1, <1>2 DEF Cancel, Ledger!Cancel, Outcome
<1> QED BY <1>2, <1>3 DEF Ledger!Next

LEMMA RestartInterrupts == ASSUME IInv, Restart PROVE Ledger!Interrupt
<1>1. ASSUME NEW x \in Run
      PROVE  Outcome(x)' = IF Outcome(x) \in {"open", "closing"} THEN "failed" ELSE Outcome(x)
  <2>1. CASE pc[x] \in {"idle", "over"} BY <2>1 DEF Restart, IInv, TypeOK, Outcome
  <2>2. CASE pc[x] \in Starting BY <2>2 DEF Restart, IInv, TypeOK, NothingYet, Outcome
  <2>3. CASE pc[x] \in Alive BY <2>3 DEF Restart, IInv, TypeOK, Outcome
  <2>4. CASE pc[x] \in Settled
    <3>1. Outcome(x) = status[x] /\ Outcome(x)' = status[x]
      BY <2>4 DEF Restart, IInv, TypeOK, Outcome
    <3>2. status[x] \in Row BY DEF IInv, TypeOK
    <3> QED BY <3>1, <3>2
  <2> QED BY <2>1, <2>2, <2>3, <2>4 DEF IInv, TypeOK
<1>2. \A x \in Run : Outcome(x) = Outcomes[x] BY DEF Outcomes
<1> QED BY <1>1, <1>2 DEF Restart, Ledger!Interrupt, Outcomes

LEMMA LedgerSteps ==
    ASSUME IInv, [Next]_vars PROVE [Ledger!Next]_(Ledger!vars)
<1>1. ASSUME NEW r \in Run, AgentChat(r) \/ RunStep(r) \/ ProposalReady(r)
      PROVE  [Ledger!Next]_(Ledger!vars)
  <2>1. CASE ProposalReady(r) BY <2>1, NoticeCancels DEF ProposalReady
  <2>2. CASE Settle(r)
    <3>1. FinalStatus(r) \in Status BY DEF FinalStatus
    <3> QED BY <2>2, <3>1, SettleSettles DEF Ledger!Next
  <2>3. CASE Await(r) \/ Finish(r) \/ FinishFails(r)
    BY <2>3, EndsAreSilent
  <2> QED BY <1>1, <2>1, <2>2, <2>3, StartsAreSilent, BeginOpens, AnswerAndJudgeAreSilent, CloseCloses,
             PublishPublishes DEF RunStep, Ledger!Next
<1>2. ASSUME NEW r \in Run, NEW t \in BOOLEAN, Event(r, t) PROVE [Ledger!Next]_(Ledger!vars)
  BY <1>2, NoticeCancels DEF Event
<1>3. ASSUME UNCHANGED calls PROVE [Ledger!Next]_(Ledger!vars)
  BY <1>3, SameOutcome DEF calls
<1>4. \/ \E r \in Run : AgentChat(r) \/ RunStep(r) \/ ProposalReady(r)
      \/ \E r \in Run, t \in BOOLEAN : Event(r, t)
      \/ LogoutAccount \/ LoginCancels \/ (\E r \in Run : CancelAgentRun(r))
      \/ Restart \/ UNCHANGED calls
  BY DEF Next, MainStep, vars, calls, LoginAccount, LoginEnds, LogoutDeletes, LogoutEnds, Edit,
         SwitchActiveDocument, ExportDatabaseBackup, RestoreDatabaseBackup, RestoreSwaps,
         RestoreFails, ConfirmProposal, RejectProposal, UndoConfirmedProposal, LeavesOne,
         ListAgentProposals, Leaves
<1> QED BY <1>1, <1>2, <1>3, <1>4, CancelCancels, RestartInterrupts DEF Ledger!Next

\* The locks of the host and the checks of a completion keep the promise of the
\* ledger, for any number of runs.
THEOREM RunsKeepTheLedger == Spec => ImplementsLedger
<1>1. Init => Ledger!Init
  BY DEF Init, Ledger!Init, Outcome
<1>2. IInv /\ [Next]_vars => [Ledger!Next]_(Ledger!vars)
  BY LedgerSteps
<1> QED BY <1>1, <1>2, Invariance, PTL DEF Spec, Ledger!Spec, ImplementsLedger
=============================================================================
