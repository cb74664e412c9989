-------------------------- MODULE WorkerLoopProofs --------------------------
(***************************************************************************)
(* Proofs about WorkerLoop, for any rows, batch sizes, schedules, days,    *)
(* requests and faults: vectors fit their rows, a backup belongs to the    *)
(* day it is recorded under, and a success stays on Drive.                 *)
(***************************************************************************)
EXTENDS WorkerLoop, SequenceTheorems, FiniteSetTheorems, TLAPS

----------------------------------------------------------------------------
(* Types.                                                                  *)

\* A worker at a branch has the type of a worker.
LEMMA AtBranchType ==
    ASSUME NEW b \in WorkerAt
    PROVE  AtBranch(b) \in WorkerState
BY WorkerAssumption DEF AtBranch, WorkerState

LEMMA CycleStartType == CycleStart \in WorkerState
BY AtBranchType DEF CycleStart, WorkerAt, Branch

\* What is listed is a set of entries.
LEMMA PendingBatchType ==
    ASSUME TypeOK, NEW kind \in {"transactions", "payments"}
    PROVE  /\ PendingBatch(kind) \subseteq Entry
           /\ \A e \in PendingBatch(kind) : e.name = rows[e.row].name
<1>1. Oldest(kind) \subseteq Row
  BY DEF Oldest, Pending, RowsOf, Row
<1>2. \A r \in Row : rows[r].name \in Name
  BY DEF TypeOK
<1>3. ASSUME NEW e \in PendingBatch(kind)
      PROVE  e \in Entry /\ e.name = rows[e.row].name
  <2>1. PICK r \in Oldest(kind) : e = [row |-> r, name |-> rows[r].name]
    BY DEF PendingBatch
  <2> QED BY <2>1, <1>1, <1>2 DEF Entry
<1> QED BY <1>3

\* The newest files are files.
LEMMA NewestType ==
    ASSUME drive \in Seq(Day), Len(drive) > RetentionCount
    PROVE  Newest(drive) \in Seq(Day)
<1>1. Len(drive) - RetentionCount + 1 \in Int /\ Len(drive) \in Int
  BY WorkerAssumption
<1>2. \A i \in Len(drive) - RetentionCount + 1 .. Len(drive) : drive[i] \in Day
  BY WorkerAssumption
<1> QED BY <1>1, <1>2, SubSeqProperties DEF Newest

\* What a failed attempt leaves on Drive are files.
LEMMA LeftByFailureType ==
    ASSUME TypeOK, worker.at \in {"uploading", "retaining"}, worker.date \in Day,
           NEW files \in LeftByFailure
    PROVE  files \in Seq(Day)
<1>1. drive \in Seq(Day) /\ Len(drive) \in Nat
  BY DEF TypeOK
<1>2. CASE worker.at = "uploading"
  BY <1>1, <1>2 DEF LeftByFailure
<1>3. CASE worker.at # "uploading" /\ Len(drive) - RetentionCount <= 0
  BY <1>1, <1>3 DEF LeftByFailure
<1>4. CASE worker.at # "uploading" /\ ~(Len(drive) - RetentionCount <= 0)
  <2>1. PICK k \in 0 .. Len(drive) - RetentionCount : files = SubSeq(drive, 1, k) \o Newest(drive)
    BY <1>4 DEF LeftByFailure
  <2>2. k \in Int /\ \A i \in 1 .. k : drive[i] \in Day
    BY <1>1, WorkerAssumption
  <2>3. SubSeq(drive, 1, k) \in Seq(Day)
    BY <2>2, SubSeqProperties
  <2>4. Newest(drive) \in Seq(Day)
    BY <1>1, <1>4, NewestType, WorkerAssumption
  <2> QED BY <2>1, <2>3, <2>4
<1> QED BY <1>2, <1>3, <1>4

\* TypeOK with what its steps need: a backup under way has a date.
DatedBackup == worker.at \in {"uploading", "retaining"} => worker.date \in Day
TypeInv == TypeOK /\ DatedBackup

LEMMA TypeInit == Init => TypeInv
<1> SUFFICES ASSUME Init PROVE TypeInv
  OBVIOUS
<1> USE WorkerAssumption DEF Init
<1>1. clock \in [day : Day, hour : 0..LastHour] /\ drive \in Seq(Day)
  BY DEF Day
<1>2. due \subseteq Branch /\ poisoned \subseteq Guarded
  BY DEF Branch
<1>3. rows \in [Row -> [name : Name, status : Status]] /\ vectors \in [Row -> Name \cup {NoName}]
  BY DEF Status
<1>4. backups \in [Day -> BackupRow]
  BY DEF BackupRow, NoBackup, Day
<1>5. worker \in WorkerState /\ worker.at = "run"
  BY CycleStartType DEF CycleStart, AtBranch
<1>6. request \in {NoRequest} \cup [row : Payment, name : Name, status : Status] /\ raced \subseteq Payment
  OBVIOUS
<1>7. left \in [requests : Nat, faults : Nat]
  OBVIOUS
<1> QED BY <1>1, <1>2, <1>3, <1>4, <1>5, <1>6, <1>7 DEF TypeInv, TypeOK, DatedBackup

\* Asking and failing only lower what is left.
LEMMA LeftType ==
    ASSUME left \in [requests : Nat, faults : Nat], Ask \/ Fault
    PROVE  left' \in [requests : Nat, faults : Nat]
BY DEF Ask, Fault

\* A backup that ends leaves a row of its outcome.
LEMMA RecordedType ==
    ASSUME TypeInv, worker.at \in {"uploading", "retaining"},
           NEW outcome \in {"success", "failed"}, Recorded(outcome)
    PROVE  backups' \in [Day -> BackupRow] /\ worker' = CycleStart
BY DEF Recorded, TypeInv, TypeOK, DatedBackup, BackupRow, WorkerState

LEMMA TypeStep == TypeInv /\ [Next]_vars => TypeInv'
<1> SUFFICES ASSUME TypeInv, [Next]_vars PROVE TypeInv'
  OBVIOUS
<1> USE DEF TypeInv, TypeOK, DatedBackup
<1>0. CycleStart \in WorkerState /\ CycleStart.at = "run"
  BY CycleStartType DEF CycleStart, AtBranch
<1>1. ASSUME NEW b \in Branch, FindNothing(b) PROVE TypeInv'
  <2>1. NextBranch[b] \in WorkerAt \ {"uploading", "retaining"}
    BY <1>1 DEF NextBranch, Branch, WorkerAt
  <2>2. AtBranch(NextBranch[b]) \in WorkerState /\ AtBranch(NextBranch[b]).at \notin {"uploading", "retaining"}
    BY <2>1, AtBranchType DEF AtBranch
  <2> QED BY <1>1, <2>2 DEF FindNothing
<1>2. ASSUME NEW b \in Branch, Serve(b) PROVE TypeInv'
  <2>1. due' \subseteq Branch
    BY <1>2 DEF Serve, Follows, Branch
  <2> QED BY <1>0, <1>2, <2>1 DEF Serve
<1>3. ASSUME NEW b \in Branch, GuardedBranchRaises(b) PROVE TypeInv'
  <2>1. NextBranch[b] \in WorkerAt \ {"uploading", "retaining"}
    BY <1>3 DEF NextBranch, Branch, WorkerAt
  <2>2. AtBranch(NextBranch[b]) \in WorkerState /\ AtBranch(NextBranch[b]).at \notin {"uploading", "retaining"}
    BY <2>1, AtBranchType DEF AtBranch
  <2> QED BY <1>3, <2>2 DEF GuardedBranchRaises, AfterRaise
<1>4. ASSUME NEW b \in Branch, BranchRaises(b) PROVE TypeInv'
  BY <1>0, <1>4, LeftType DEF BranchRaises
<1>5. CASE CheckBackup
  <2>1. AtBranch("detection") \in WorkerState /\ AtBranch("detection").at = "detection"
    BY AtBranchType DEF AtBranch, WorkerAt, Branch
  <2>2. AtBranch("backing") \in WorkerState /\ AtBranch("backing").at = "backing"
    BY AtBranchType DEF AtBranch, WorkerAt
  <2>3. clock.day \in 0..MaxDays
    BY WorkerAssumption DEF Day
  <2>4. [AtBranch("backing") EXCEPT !.checked = clock.day] \in WorkerState
        /\ [AtBranch("backing") EXCEPT !.checked = clock.day].at = "backing"
    BY <2>2, <2>3 DEF WorkerState
  <2> QED BY <1>5, <2>1, <2>4 DEF CheckBackup
<1>6. CASE StartBackup
  <2>1. clock.day \in Day /\ clock.day \in 0..MaxDays /\ clock.hour \in 0..LastHour
    BY WorkerAssumption DEF Day
  <2>2. worker' \in WorkerState /\ worker'.date \in Day
    BY <1>6, <2>1 DEF StartBackup, WorkerState, WorkerAt
  <2> QED BY <1>6, <2>2 DEF StartBackup
<1>7. CASE Upload
  <2>1. worker.date \in Day
    BY <1>7 DEF Upload
  <2>2. drive' \in Seq(Day)
    <3>1. <<worker.date, worker.date>> \in Seq(Day)
      BY <2>1
    <3>2. drive \o <<worker.date, worker.date>> \in Seq(Day) /\ Append(drive, worker.date) \in Seq(Day)
      BY <2>1, <3>1, ConcatProperties, AppendProperties
    <3> QED BY <1>7, <3>2 DEF Upload
  <2>3. worker' \in WorkerState /\ worker'.date = worker.date
    BY <1>7 DEF Upload, WorkerState, WorkerAt
  <2>4. left' \in [requests : Nat, faults : Nat]
    BY <1>7, LeftType DEF Upload
  <2> QED BY <1>7, <2>1, <2>2, <2>3, <2>4 DEF Upload
<1>8. CASE EnforceRetention
  <2>1. drive' \in Seq(Day)
    BY <1>8, NewestType DEF EnforceRetention, Retained
  <2>2. backups' \in [Day -> BackupRow] /\ worker' = CycleStart
    BY <1>8, RecordedType DEF EnforceRetention
  <2> QED BY <1>0, <1>8, <2>1, <2>2 DEF EnforceRetention
<1>9. CASE BackupFails
  <2>1. drive' \in Seq(Day)
    BY <1>9, LeftByFailureType DEF BackupFails
  <2>2. backups' \in [Day -> BackupRow] /\ worker' = CycleStart
    BY <1>9, RecordedType DEF BackupFails
  <2> QED BY <1>0, <1>9, <2>1, <2>2, LeftType DEF BackupFails
<1>10. CASE BackupUnrecorded
  BY <1>0, <1>10, LeftType DEF BackupUnrecorded
<1>11. ASSUME NEW kind \in {"transactions", "payments"}, ListPending(kind) PROVE TypeInv'
  <2>1. PendingBatch(kind) \subseteq Entry
    BY PendingBatchType
  <2>2. worker' \in WorkerState /\ worker'.at = "storing"
    BY <1>11, <2>1 DEF ListPending, WorkerState, WorkerAt
  <2> QED BY <1>11, <2>2 DEF ListPending
<1>12. ASSUME NEW e \in worker.batch, Upsert(e) PROVE TypeInv'
  <2>1. e \in Entry
    BY DEF WorkerState
  <2>2. vectors' \in [Row -> Name \cup {NoName}]
    BY <1>12, <2>1 DEF Upsert, Entry
  <2>3. worker' \in WorkerState /\ worker'.at = "marking"
    BY <1>12 DEF Upsert, WorkerState, WorkerAt
  <2> QED BY <1>12, <2>2, <2>3 DEF Upsert
<1>13. ASSUME NEW e \in worker.batch, MarkEmbedded(e) PROVE TypeInv'
  <2>1. e \in Entry /\ e.row \in Row
    BY DEF WorkerState, Entry
  <2>2. worker' \in WorkerState /\ worker'.at \in {"run", "storing"}
    BY <1>0, <1>13, <2>1 DEF MarkEmbedded, WorkerState, WorkerAt
  <2> QED BY <1>13, <2>2 DEF MarkEmbedded
<1>14. ASSUME CommitMarks
       PROVE  rows' \in [Row -> [name : Name, status : Status]] /\ worker' = CycleStart
  BY <1>14 DEF CommitMarks, Status
<1>15. CASE FinishBatch
  BY <1>0, <1>14, <1>15 DEF FinishBatch
<1>16. CASE StopEarly
  BY <1>0, <1>14, <1>16, LeftType DEF StopEarly
<1>17. ASSUME NEW b \in Branch, Queue(b) PROVE TypeInv'
  <2>1. due' \subseteq Branch
    BY <1>17 DEF Queue
  <2> QED BY <1>17, <2>1, LeftType DEF Queue
<1>18. ASSUME NEW p \in Payment, NEW n \in Name, LoadPayment(p, n) PROVE TypeInv'
  <2>1. rows[p].status \in Status
    BY DEF Row
  <2>2. request' \in [row : Payment, name : Name, status : Status]
    BY <1>18, <2>1 DEF LoadPayment
  <2> QED BY <1>18, <2>2, LeftType DEF LoadPayment
<1>19. ASSUME NEW p \in Payment, DeletePayment(p) PROVE TypeInv'
  <2>1. p \in Row /\ rows[p] \in [name : Name, status : Status] /\ "absent" \in Status
    BY DEF Row, Status
  <2>2. [rows[p] EXCEPT !.status = "absent"] \in [name : Name, status : Status]
    BY <2>1
  <2>3. rows' \in [Row -> [name : Name, status : Status]]
    BY <1>19, <2>1, <2>2 DEF DeletePayment
  <2> QED BY <1>19, <2>3, LeftType DEF DeletePayment
<1>20. CASE RenamePayment
  <2>1. request \in [row : Payment, name : Name, status : Status]
    BY <1>20 DEF RenamePayment
  <2>2. RenamedStatus(request.row) \in Status
    BY <2>1 DEF RenamedStatus, Status, Row
  <2>3. rows' \in [Row -> [name : Name, status : Status]]
    BY <1>20, <2>1, <2>2 DEF RenamePayment
  <2>4. raced' \subseteq Payment /\ request' = NoRequest
    BY <1>20, <2>1 DEF RenamePayment
  <2> QED BY <1>20, <2>3, <2>4 DEF RenamePayment
<1>21. CASE RenameFails
  BY <1>21 DEF RenameFails
<1>22. CASE Tick
  <2>1. clock' \in [day : Day, hour : 0..LastHour]
    <3>1. CASE clock.hour < LastHour /\ clock' = [clock EXCEPT !.hour = @ + 1]
      <4>1. clock.hour + 1 \in 0..LastHour
        BY <3>1, WorkerAssumption
      <4> QED BY <3>1, <4>1
    <3>2. CASE clock.day < MaxDays /\ clock' = [day |-> clock.day + 1, hour |-> 0]
      <4>1. clock.day + 1 \in Day /\ 0 \in 0..LastHour
        BY <3>2, WorkerAssumption DEF Day
      <4> QED BY <3>2, <4>1
    <3> QED BY <1>22, <3>1, <3>2 DEF Tick
  <2>2. due' \subseteq Branch
    BY <1>22 DEF Tick, Branch
  <2> QED BY <1>22, <2>1, <2>2 DEF Tick
<1>23. CASE Crash
  <2>1. AtBranch("down") \in WorkerState /\ AtBranch("down").at = "down"
    BY AtBranchType DEF AtBranch, WorkerAt
  <2> QED BY <1>23, <2>1, LeftType DEF Crash
<1>24. CASE Restart
  BY <1>0, <1>24 DEF Restart
<1>25. CASE UNCHANGED vars
  BY <1>25 DEF vars
<1> QED
  BY <1>1, <1>2, <1>3, <1>4, <1>5, <1>6, <1>7, <1>8, <1>9, <1>10, <1>11, <1>12, <1>13, <1>15, <1>16,
     <1>17, <1>18, <1>19, <1>20, <1>21, <1>22, <1>23, <1>24, <1>25
  DEF Next, PollOnce, Failure, User

\* The rows and the local states of the worker have their types, always.
THEOREM TypeCorrectness == Spec => []TypeOK
<1>1. TypeInv => TypeOK
  BY DEF TypeInv
<1> QED BY <1>1, TypeInit, TypeStep, PTL DEF Spec

----------------------------------------------------------------------------
(* A backup belongs to the day it is recorded under.                       *)

\* Between the due check and the record: the hour is the schedule's or later,
\* or midnight has passed since the check.
CheckedInTime ==
    worker.at = "backing" =>
        /\ worker.checked <= clock.day
        /\ clock.hour >= ScheduleHour \/ worker.checked < clock.day
AttemptedInTime ==
    worker.at \in {"uploading", "retaining"} =>
        worker.hour >= ScheduleHour \/ worker.checked < worker.date
BackupInv == TypeInv /\ CheckedInTime /\ AttemptedInTime /\ BackupsLandOnTheirDay

\* A step that starts no backup and records none.
LEMMA NoBackupStep ==
    ASSUME BackupInv, TypeInv', UNCHANGED <<clock, backups>>,
           \/ UNCHANGED worker
           \/ worker'.at \notin {"backing", "uploading", "retaining"}
    PROVE  BackupInv'
BY DEF BackupInv, CheckedInTime, AttemptedInTime, BackupsLandOnTheirDay

\* The record says what the worker holds.
LEMMA RecordInTime ==
    ASSUME BackupInv, TypeInv', worker.at \in {"uploading", "retaining"}, UNCHANGED clock,
           NEW outcome, Recorded(outcome)
    PROVE  BackupInv'
<1>1. worker'.at = "run"
  BY DEF Recorded, CycleStart, AtBranch
<1>2. worker.date \in Day /\ backups \in [Day -> BackupRow]
  BY DEF BackupInv, TypeInv, TypeOK, DatedBackup
<1>3. ASSUME NEW d \in Day, backups'[d] # NoBackup
      PROVE  backups'[d].hour >= ScheduleHour \/ backups'[d].checked < d
  <2>1. CASE d = worker.date
    <3>1. backups'[d].hour = worker.hour /\ backups'[d].checked = worker.checked
      BY <1>2, <2>1 DEF Recorded
    <3> QED BY <2>1, <3>1 DEF BackupInv, AttemptedInTime
  <2>2. CASE d # worker.date
    <3>1. backups'[d] = backups[d]
      BY <1>2, <2>2 DEF Recorded
    <3> QED BY <1>3, <3>1 DEF BackupInv, BackupsLandOnTheirDay
  <2> QED BY <2>1, <2>2
<1> QED BY <1>1, <1>3 DEF BackupInv, CheckedInTime, AttemptedInTime, BackupsLandOnTheirDay

LEMMA BackupInit == Init => BackupInv
<1> SUFFICES ASSUME Init PROVE BackupInv
  OBVIOUS
<1>1. worker.at = "run" /\ \A d \in Day : backups[d] = NoBackup
  BY DEF Init, CycleStart, AtBranch
<1> QED BY <1>1, TypeInit DEF BackupInv, CheckedInTime, AttemptedInTime, BackupsLandOnTheirDay

LEMMA BackupStep == BackupInv /\ [Next]_vars => BackupInv'
<1> SUFFICES ASSUME BackupInv, [Next]_vars PROVE BackupInv'
  OBVIOUS
<1>0. TypeInv /\ TypeInv' /\ TypeOK
  BY TypeStep DEF BackupInv, TypeInv
<1>a. clock.day \in Nat /\ clock.hour \in Nat /\ ScheduleHour \in Nat
  BY <1>0, WorkerAssumption DEF TypeOK, Day
<1>b. worker.checked \in Nat /\ worker.date \in Nat /\ worker.hour \in Nat
  BY <1>0, WorkerAssumption DEF TypeOK, WorkerState
<1>c. \A b \in WorkerAt : AtBranch(b).at = b
  BY DEF AtBranch
<1>d. CycleStart.at = "run"
  BY DEF CycleStart, AtBranch
<1>1. ASSUME NEW b \in Branch, FindNothing(b) \/ Serve(b) \/ GuardedBranchRaises(b) \/ BranchRaises(b)
      PROVE  BackupInv'
  <2>1. AtBranch(NextBranch[b]).at \in {"job", "removal", "backup", "detection", "pairScan", "embedding"}
    BY DEF NextBranch, Branch, AtBranch
  <2>2. worker'.at \notin {"backing", "uploading", "retaining"} /\ UNCHANGED <<clock, backups>>
    BY <1>1, <1>d, <2>1 DEF FindNothing, Serve, GuardedBranchRaises, AfterRaise, BranchRaises
  <2> QED BY <1>0, <2>2, NoBackupStep
<1>2. CASE CheckBackup
  <2>1. CASE BackupDue
    <3>1. worker' = [AtBranch("backing") EXCEPT !.checked = clock.day]
      BY <1>2, <2>1 DEF CheckBackup
    <3>2. worker'.at = "backing" /\ worker'.checked = clock.day
      BY <3>1 DEF AtBranch
    <3>3. clock' = clock /\ backups' = backups /\ clock.hour >= ScheduleHour
      BY <1>2, <2>1 DEF CheckBackup, BackupDue
    <3> QED BY <1>0, <1>a, <3>2, <3>3 DEF BackupInv, CheckedInTime, AttemptedInTime, BackupsLandOnTheirDay
  <2>2. CASE ~BackupDue
    <3>1. worker'.at = "detection" /\ UNCHANGED <<clock, backups>>
      BY <1>2, <2>2 DEF CheckBackup, AtBranch
    <3> QED BY <1>0, <3>1, NoBackupStep
  <2> QED BY <2>1, <2>2
<1>3. CASE StartBackup
  <2>1. worker \in WorkerState
    BY <1>0 DEF TypeOK
  <2>2. /\ worker'.at = "uploading" /\ worker'.date = clock.day /\ worker'.hour = clock.hour
        /\ worker'.checked = worker.checked
    BY <1>3, <2>1 DEF StartBackup, WorkerState
  <2>3. clock.hour >= ScheduleHour \/ worker.checked < clock.day
    BY <1>3 DEF StartBackup, BackupInv, CheckedInTime
  <2> QED BY <1>0, <1>3, <2>2, <2>3
      DEF StartBackup, BackupInv, CheckedInTime, AttemptedInTime, BackupsLandOnTheirDay
<1>4. CASE Upload
  <2>1. worker \in WorkerState
    BY <1>0 DEF TypeOK
  <2>2. /\ worker'.at = "retaining" /\ worker'.date = worker.date /\ worker'.hour = worker.hour
        /\ worker'.checked = worker.checked
    BY <1>4, <2>1 DEF Upload, WorkerState
  <2> QED BY <1>0, <1>4, <2>2
      DEF Upload, BackupInv, CheckedInTime, AttemptedInTime, BackupsLandOnTheirDay
<1>5. CASE EnforceRetention
  BY <1>0, <1>5, RecordInTime DEF EnforceRetention
<1>6. CASE BackupFails
  BY <1>0, <1>6, RecordInTime DEF BackupFails
<1>7. CASE BackupUnrecorded
  BY <1>0, <1>d, <1>7, NoBackupStep DEF BackupUnrecorded
<1>8. ASSUME NEW kind \in {"transactions", "payments"}, ListPending(kind) PROVE BackupInv'
  <2>1. worker'.at = "storing"
    BY <1>0, <1>8 DEF ListPending, TypeOK, WorkerState
  <2> QED BY <1>0, <1>8, <2>1, NoBackupStep DEF ListPending
<1>9. ASSUME NEW e \in worker.batch, Upsert(e) \/ MarkEmbedded(e) PROVE BackupInv'
  <2>1. worker'.at \in {"marking", "storing", "run"}
    BY <1>0, <1>d, <1>9 DEF Upsert, MarkEmbedded, TypeOK, WorkerState
  <2> QED BY <1>0, <1>9, <2>1, NoBackupStep DEF Upsert, MarkEmbedded
<1>10. CASE FinishBatch \/ StopEarly
  BY <1>0, <1>d, <1>10, NoBackupStep DEF FinishBatch, StopEarly, CommitMarks
<1>11. CASE User
  BY <1>0, <1>11, NoBackupStep DEF User, Queue, LoadPayment, DeletePayment, RenamePayment, RenameFails
<1>12. CASE Tick
  <2>1. worker' = worker /\ backups' = backups
    BY <1>12 DEF Tick
  <2>2. \/ clock'.day = clock.day /\ clock'.hour = clock.hour + 1
        \/ clock'.day = clock.day + 1
    <3>1. clock \in [day : Day, hour : 0..LastHour]
      BY <1>0 DEF TypeOK
    <3> QED BY <1>12, <3>1 DEF Tick
  <2>3. CheckedInTime'
    BY <1>a, <1>b, <2>1, <2>2 DEF BackupInv, CheckedInTime
  <2> QED BY <1>0, <2>1, <2>3 DEF BackupInv, AttemptedInTime, BackupsLandOnTheirDay
<1>13. CASE Crash \/ Restart
  <2>1. worker'.at \in {"down", "run"}
    BY <1>d, <1>13 DEF Crash, Restart, AtBranch
  <2> QED BY <1>0, <1>13, <2>1, NoBackupStep DEF Crash, Restart
<1>14. CASE UNCHANGED vars
  BY <1>0, <1>14, NoBackupStep DEF vars
<1> QED
  BY <1>1, <1>2, <1>3, <1>4, <1>5, <1>6, <1>7, <1>8, <1>9, <1>10, <1>11, <1>12, <1>13, <1>14
  DEF Next, PollOnce, Failure

\* A backup that a day is charged with was attempted in that day's time, or its
\* due check fell on an earlier day (backup/service.py).
THEOREM BackupsBelongToTheirDay == Spec => []BackupsLandOnTheirDay
<1>1. BackupInv => BackupsLandOnTheirDay
  BY DEF BackupInv
<1> QED BY <1>1, BackupInit, BackupStep, PTL DEF Spec

----------------------------------------------------------------------------
(* Vectors fit their rows.                                                 *)

\* What is marked and not committed fits; what is listed is still so called;
\* what has just been stored is what the row is called.
MarksFit == \A r \in worker.marked \ raced : vectors[r] = rows[r].name
BatchFits == \A e \in worker.batch : e.row \notin raced => e.name = rows[e.row].name
StoredFits ==
    worker.at = "marking" =>
        \A e \in worker.batch : FirstInBatch(e) /\ e.row \notin raced => vectors[e.row] = rows[e.row].name
VectorInv == TypeInv /\ MarksFit /\ BatchFits /\ StoredFits /\ VectorsFit

\* A step that stores, marks and renames nothing.
LEMMA NoVectorStep ==
    ASSUME VectorInv, TypeInv', UNCHANGED <<rows, vectors, raced>>,
           \/ UNCHANGED worker
           \/ /\ worker'.at # "marking"
              /\ worker'.batch \subseteq worker.batch /\ worker'.marked \subseteq worker.marked
    PROVE  VectorInv'
BY DEF VectorInv, MarksFit, BatchFits, StoredFits, VectorsFit, FirstInBatch

LEMMA VectorInit == Init => VectorInv
<1> SUFFICES ASSUME Init PROVE VectorInv
  OBVIOUS
<1>1. worker.batch = {} /\ worker.marked = {} /\ worker.at = "run"
  BY DEF Init, CycleStart, AtBranch
<1>2. \A r \in Row : rows[r].status = "pending"
  BY DEF Init
<1> QED BY <1>1, <1>2, TypeInit DEF VectorInv, MarksFit, BatchFits, StoredFits, VectorsFit

\* The commit of a batch completes the rows that are marked.
LEMMA CommitFits ==
    ASSUME VectorInv, TypeInv', CommitMarks, UNCHANGED <<vectors, raced>>
    PROVE  VectorInv'
<1>1. worker'.batch = {} /\ worker'.marked = {} /\ worker'.at = "run"
  BY DEF CommitMarks, CycleStart, AtBranch
<1>2. rows \in [Row -> [name : Name, status : Status]]
  BY DEF VectorInv, TypeInv, TypeOK
<1>3. ASSUME NEW r \in Row \ raced, rows'[r].status = "completed"
      PROVE  vectors[r] = rows'[r].name
  <2>1. rows'[r].name = rows[r].name
    BY <1>2 DEF CommitMarks
  <2>2. r \in worker.marked \/ rows[r].status = "completed"
    BY <1>2, <1>3 DEF CommitMarks
  <2> QED BY <2>1, <2>2 DEF VectorInv, MarksFit, VectorsFit
<1> QED BY <1>1, <1>3 DEF VectorInv, MarksFit, BatchFits, StoredFits, VectorsFit

\* Storing the first of the batch.
LEMMA UpsertFits ==
    ASSUME VectorInv, TypeInv', NEW e \in worker.batch, Upsert(e)
    PROVE  VectorInv'
<1>1. worker \in WorkerState /\ vectors \in [Row -> Name \cup {NoName}] /\ e \in Entry /\ e.row \in Row
  BY DEF VectorInv, TypeInv, TypeOK, WorkerState, Entry
<1>2. worker'.batch = worker.batch /\ worker'.marked = worker.marked /\ rows' = rows /\ raced' = raced
  BY <1>1 DEF Upsert, WorkerState
<1>3. e.row \notin raced => e.name = rows[e.row].name
  BY DEF VectorInv, BatchFits
<1>4. \A r \in Row : vectors'[r] = IF r = e.row THEN e.name ELSE vectors[r]
  BY <1>1 DEF Upsert
<1>5. MarksFit' /\ VectorsFit'
  BY <1>1, <1>2, <1>3, <1>4 DEF VectorInv, MarksFit, VectorsFit, WorkerState
<1>6. BatchFits'
  BY <1>2 DEF VectorInv, BatchFits
<1>7. StoredFits'
  <2>1. SUFFICES ASSUME NEW f \in worker.batch, FirstInBatch(f), f.row \notin raced
                 PROVE  vectors'[f.row] = rows[f.row].name
    BY <1>2 DEF StoredFits, FirstInBatch
  <2>2. f.row \in Row /\ Age[f.row] \in Nat /\ Age[e.row] \in Nat
    BY <1>1, WorkerAssumption DEF WorkerState, Entry
  <2>3. Age[f.row] <= Age[e.row] /\ Age[e.row] <= Age[f.row]
    BY <2>1 DEF FirstInBatch, Upsert
  <2>4. f.row = e.row
    BY <1>1, <2>2, <2>3, WorkerAssumption
  <2> QED BY <1>1, <1>3, <1>4, <2>1, <2>4
<1> QED BY <1>5, <1>6, <1>7 DEF VectorInv

\* Marking it.
LEMMA MarkFits ==
    ASSUME VectorInv, TypeInv', NEW e \in worker.batch, MarkEmbedded(e)
    PROVE  VectorInv'
<1>1. worker \in WorkerState
  BY DEF VectorInv, TypeInv, TypeOK
<1>2. UNCHANGED <<rows, vectors, raced>>
  BY DEF MarkEmbedded
<1>3. CASE rows[e.row].status = "absent"
  <2>1. worker'.batch = {} /\ worker'.marked = {} /\ worker'.at = "run"
    BY <1>3 DEF MarkEmbedded, CycleStart, AtBranch
  <2> QED BY <1>2, <2>1, NoVectorStep
<1>4. CASE rows[e.row].status # "absent"
  <2>1. /\ worker'.batch = worker.batch \ {e} /\ worker'.marked = worker.marked \cup {e.row}
        /\ worker'.at = "storing"
    BY <1>1, <1>4 DEF MarkEmbedded, WorkerState
  <2>2. e.row \notin raced => vectors[e.row] = rows[e.row].name
    BY DEF VectorInv, StoredFits, MarkEmbedded
  <2> QED BY <1>2, <2>1, <2>2 DEF VectorInv, MarksFit, BatchFits, StoredFits, VectorsFit
<1> QED BY <1>3, <1>4

\* A rename: under the batch the payment counts as raced, otherwise its status
\* is pending again.
LEMMA RenameFits ==
    ASSUME VectorInv, TypeInv', RenamePayment
    PROVE  VectorInv'
<1> DEFINE p == request.row
<1>1. /\ rows \in [Row -> [name : Name, status : Status]] /\ p \in Payment /\ p \in Row
      /\ worker.marked \subseteq Row /\ worker.batch \subseteq Entry
  BY DEF VectorInv, TypeInv, TypeOK, RenamePayment, WorkerState, Row
<1>2. \A r \in Row : rows'[r] = IF r = p THEN [name |-> request.name, status |-> RenamedStatus(p)] ELSE rows[r]
  BY <1>1 DEF RenamePayment
<1>3. vectors' = vectors /\ worker' = worker /\ p \notin worker.marked
  BY DEF RenamePayment
<1>4. raced' = IF Overtaken(p) THEN raced \cup {p} ELSE raced \ {p}
  BY DEF RenamePayment
<1>5. \A r \in Row \ {p} : r \in raced' <=> r \in raced
  BY <1>4
<1>6. p \notin raced' => RenamedStatus(p) # "completed" /\ ~InBatch(p)
  BY <1>4 DEF Overtaken, RenamedStatus
<1> HIDE DEF p
<1>7. MarksFit'
  BY <1>1, <1>2, <1>3, <1>5 DEF VectorInv, MarksFit
<1>8. BatchFits'
  <2>1. SUFFICES ASSUME NEW e \in worker.batch, e.row \notin raced'
                 PROVE  e.name = rows'[e.row].name
    BY <1>3 DEF BatchFits
  <2>2. e.row \in Row /\ e.row # p
    BY <1>1, <1>6, <2>1 DEF InBatch, Entry
  <2> QED BY <1>2, <1>5, <2>1, <2>2 DEF VectorInv, BatchFits
<1>9. StoredFits'
  <2>1. SUFFICES ASSUME worker.at = "marking", NEW e \in worker.batch, FirstInBatch(e), e.row \notin raced'
                 PROVE  vectors[e.row] = rows'[e.row].name
    BY <1>3 DEF StoredFits, FirstInBatch
  <2>2. e.row \in Row /\ e.row # p
    BY <1>1, <1>6, <2>1 DEF InBatch, Entry
  <2> QED BY <1>2, <1>5, <2>1, <2>2 DEF VectorInv, StoredFits
<1>10. VectorsFit'
  <2>1. SUFFICES ASSUME NEW r \in Row \ raced', rows'[r].status = "completed"
                 PROVE  vectors[r] = rows'[r].name
    BY <1>3 DEF VectorsFit
  <2>2. r # p
    BY <1>1, <1>2, <1>6, <2>1
  <2> QED BY <1>2, <1>5, <2>1, <2>2 DEF VectorInv, VectorsFit
<1> QED BY <1>7, <1>8, <1>9, <1>10 DEF VectorInv

\* A deletion names nothing anew.
LEMMA DeleteFits ==
    ASSUME VectorInv, TypeInv', NEW p \in Payment, DeletePayment(p)
    PROVE  VectorInv'
<1>1. /\ rows \in [Row -> [name : Name, status : Status]] /\ p \in Row
      /\ worker.marked \subseteq Row /\ worker.batch \subseteq Entry
  BY DEF VectorInv, TypeInv, TypeOK, WorkerState, Row
<1>2. /\ UNCHANGED <<vectors, worker, raced>>
      /\ \A r \in Row : rows'[r] = IF r = p THEN [rows[p] EXCEPT !.status = "absent"] ELSE rows[r]
  BY <1>1 DEF DeletePayment
<1>3. /\ \A r \in Row : rows'[r].name = rows[r].name
      /\ \A r \in Row : rows'[r].status = "completed" => rows[r].status = "completed"
  BY <1>1, <1>2
<1>4. \A e \in worker.batch : e.row \in Row
  BY <1>1 DEF Entry
<1> QED BY <1>1, <1>2, <1>3, <1>4 DEF VectorInv, MarksFit, BatchFits, StoredFits, VectorsFit, FirstInBatch

LEMMA VectorStep == VectorInv /\ [Next]_vars => VectorInv'
<1> SUFFICES ASSUME VectorInv, [Next]_vars PROVE VectorInv'
  OBVIOUS
<1>0. TypeInv /\ TypeInv' /\ TypeOK /\ worker \in WorkerState
  BY TypeStep DEF VectorInv, TypeInv, TypeOK
<1>a. \A b \in WorkerAt : AtBranch(b).at = b /\ AtBranch(b).batch = {} /\ AtBranch(b).marked = {}
  BY DEF AtBranch
<1>b. CycleStart.at = "run" /\ CycleStart.batch = {} /\ CycleStart.marked = {}
  BY DEF CycleStart, AtBranch
<1>1. ASSUME NEW b \in Branch, FindNothing(b) \/ Serve(b) \/ GuardedBranchRaises(b) \/ BranchRaises(b)
      PROVE  VectorInv'
  <2>1. NextBranch[b] \in WorkerAt \ {"marking"}
    BY DEF NextBranch, Branch, WorkerAt
  <2>2. /\ worker'.at # "marking" /\ worker'.batch = {} /\ worker'.marked = {}
        /\ UNCHANGED <<rows, vectors, raced>>
    BY <1>1, <1>a, <1>b, <2>1 DEF FindNothing, Serve, GuardedBranchRaises, AfterRaise, BranchRaises
  <2> QED BY <1>0, <2>2, NoVectorStep
<1>2. CASE CheckBackup
  <2>1. worker'.at # "marking" /\ worker'.batch = {} /\ worker'.marked = {}
    BY <1>2 DEF CheckBackup, AtBranch
  <2> QED BY <1>0, <1>2, <2>1, NoVectorStep DEF CheckBackup
<1>3. CASE StartBackup \/ Upload
  <2>1. worker'.at # "marking" /\ worker'.batch = worker.batch /\ worker'.marked = worker.marked
    BY <1>0, <1>3 DEF StartBackup, Upload, WorkerState
  <2> QED BY <1>0, <1>3, <2>1, NoVectorStep DEF StartBackup, Upload
<1>4. CASE EnforceRetention \/ BackupFails \/ BackupUnrecorded
  BY <1>0, <1>b, <1>4, NoVectorStep DEF EnforceRetention, BackupFails, BackupUnrecorded, Recorded
<1>5. ASSUME NEW kind \in {"transactions", "payments"}, ListPending(kind) PROVE VectorInv'
  <2>1. /\ worker'.at = "storing" /\ worker'.batch = PendingBatch(kind) /\ worker'.marked = worker.marked
        /\ UNCHANGED <<rows, vectors, raced>>
    BY <1>0, <1>5 DEF ListPending, WorkerState
  <2>2. \A e \in PendingBatch(kind) : e.name = rows[e.row].name
    BY <1>0, PendingBatchType
  <2> QED BY <1>0, <2>1, <2>2 DEF VectorInv, MarksFit, BatchFits, StoredFits, VectorsFit
<1>6. ASSUME NEW e \in worker.batch, Upsert(e) \/ MarkEmbedded(e) PROVE VectorInv'
  BY <1>0, <1>6, UpsertFits, MarkFits
<1>7. CASE FinishBatch \/ StopEarly
  BY <1>0, <1>7, CommitFits DEF FinishBatch, StopEarly
<1>8. CASE User
  <2>1. CASE RenamePayment
    BY <1>0, <2>1, RenameFits
  <2>2. ASSUME NEW p \in Payment, DeletePayment(p) PROVE VectorInv'
    BY <1>0, <2>2, DeleteFits
  <2>3. CASE RenameFails \/ (\E b \in Branch : Queue(b)) \/ \E p \in Payment, n \in Name : LoadPayment(p, n)
    BY <1>0, <2>3, NoVectorStep DEF RenameFails, Queue, LoadPayment
  <2> QED BY <1>8, <2>1, <2>2, <2>3 DEF User
<1>9. CASE Tick
  BY <1>0, <1>9, NoVectorStep DEF Tick
<1>10. CASE Crash \/ Restart
  <2>1. worker'.at # "marking" /\ worker'.batch = {} /\ worker'.marked = {}
    BY <1>b, <1>10 DEF Crash, Restart, AtBranch
  <2> QED BY <1>0, <1>10, <2>1, NoVectorStep DEF Crash, Restart
<1>11. CASE UNCHANGED vars
  BY <1>0, <1>11, NoVectorStep DEF vars
<1> QED
  BY <1>1, <1>2, <1>3, <1>4, <1>5, <1>6, <1>7, <1>8, <1>9, <1>10, <1>11 DEF Next, PollOnce, Failure

\* A row marked embedded has the vector of the name it bears, unless a request
\* renamed it under a batch (embedding/service.py).
THEOREM EmbeddedRowsFit == Spec => []VectorsFit
<1>1. VectorInv => VectorsFit
  BY DEF VectorInv
<1> QED BY <1>1, VectorInit, VectorStep, PTL DEF Spec

----------------------------------------------------------------------------
(* A success stays on Drive until later files displace it.                 *)

\* The files are in the order of their days; none is of a later day than today,
\* and once one is uploaded none is of a later day than it.
FilesInOrder == \A i, j \in DOMAIN drive : i <= j => drive[i] <= drive[j]
FilesPast == \A i \in DOMAIN drive : drive[i] <= clock.day
UploadIsLatest ==
    worker.at \in {"uploading", "retaining"} =>
        /\ worker.date <= clock.day
        /\ \A i \in DOMAIN drive : drive[i] <= worker.date
UploadIsLast ==
    worker.at = "retaining" => Len(drive) > 0 /\ drive[Len(drive)] = worker.date

\* RetentionCount files are of later days than d.  As the files are in order,
\* these are the last ones.
OnDrive(d) == \E i \in DOMAIN drive : drive[i] = d
Displaced(d) == Len(drive) >= RetentionCount /\ drive[Len(drive) - RetentionCount + 1] > d
SuccessesKept == \A d \in Day : backups[d].outcome = "success" => OnDrive(d) \/ Displaced(d)

DriveInv == /\ TypeInv /\ FilesInOrder /\ FilesPast /\ UploadIsLatest /\ UploadIsLast
            /\ SuccessesKept

\* A file's day is a number.
LEMMA FilesAreDays ==
    ASSUME NEW files \in Seq(Day)
    PROVE  /\ Len(files) \in Nat /\ DOMAIN files = 1..Len(files)
           /\ \A i \in DOMAIN files : files[i] \in Nat
<1>1. \A i \in 1..Len(files) : files[i] \in Day
  BY ElementOfSeq
<1>2. Day \subseteq Nat
  BY WorkerAssumption DEF Day
<1> QED BY <1>1, <1>2, LenProperties

\* The files from RetentionCount before the end all are of later days.
LEMMA DisplacedByCount ==
    ASSUME DriveInv, NEW d \in Day, Displaced(d)
    PROVE  Cardinality({i \in DOMAIN drive : drive[i] > d}) >= RetentionCount
<1> DEFINE later == {i \in DOMAIN drive : drive[i] > d}
           first == Len(drive) - RetentionCount + 1
<1>1. /\ drive \in Seq(Day) /\ Len(drive) \in Nat /\ RetentionCount \in Nat \ {0}
      /\ DOMAIN drive = 1..Len(drive) /\ Day \subseteq Nat
  <2>1. drive \in Seq(Day)
    BY DEF DriveInv, TypeInv, TypeOK
  <2>2. Day \subseteq Nat /\ RetentionCount \in Nat \ {0}
    BY WorkerAssumption DEF Day
  <2> QED BY <2>1, <2>2, FilesAreDays
<1>2. first \in 1..Len(drive) /\ drive[first] > d
  BY <1>1 DEF Displaced
<1>3. ASSUME NEW i \in first..Len(drive) PROVE i \in later
  <2>1. i \in DOMAIN drive /\ first <= i /\ first \in DOMAIN drive
    BY <1>1, <1>2
  <2>2. drive[first] <= drive[i]
    BY <2>1 DEF DriveInv, FilesInOrder
  <2>3. drive[i] \in Nat /\ drive[first] \in Nat /\ d \in Nat
    BY <1>1, <2>1, FilesAreDays
  <2> QED BY <1>2, <2>1, <2>2, <2>3
<1> HIDE DEF later
<1>4. IsFiniteSet(later)
  <2>1. later \in SUBSET (1..Len(drive))
    BY <1>1 DEF later
  <2>2. IsFiniteSet(1..Len(drive))
    BY <1>1, FS_Interval
  <2> QED BY <2>1, <2>2, FS_Subset
<1>5. (first..Len(drive)) \in SUBSET later
  BY <1>3
<1>6. Cardinality(first..Len(drive)) = RetentionCount
  <2>1. first \in Int /\ Len(drive) \in Int
    BY <1>1
  <2>2. Cardinality(first..Len(drive)) = IF first > Len(drive) THEN 0 ELSE Len(drive) - first + 1
    BY <2>1, FS_Interval
  <2> QED BY <1>1, <1>2, <2>2
<1>7. Cardinality(first..Len(drive)) <= Cardinality(later)
  BY <1>4, <1>5, FS_Subset
<1>8. Cardinality(later) \in Nat
  BY <1>4, FS_CardinalityType
<1> QED BY <1>1, <1>6, <1>7, <1>8 DEF later

\* A step that leaves the files and the outcomes alone.
LEMMA NoFileStep ==
    ASSUME DriveInv, TypeInv', UNCHANGED <<drive, backups>>,
           clock'.day >= clock.day,
           \/ UNCHANGED worker
           \/ worker'.at \notin {"uploading", "retaining"}
    PROVE  DriveInv'
<1>1. /\ clock.day \in Nat /\ clock'.day \in Nat /\ Day \subseteq Nat /\ drive \in Seq(Day)
      /\ worker.date \in Nat
  BY WorkerAssumption DEF DriveInv, TypeInv, TypeOK, Day, WorkerState
<1>2. \A i \in DOMAIN drive : drive[i] \in Nat
  BY <1>1, FilesAreDays
<1>3. FilesPast'
  BY <1>1, <1>2 DEF DriveInv, FilesPast
<1>4. UploadIsLatest' /\ UploadIsLast'
  BY <1>1 DEF DriveInv, UploadIsLatest, UploadIsLast
<1> QED BY <1>3, <1>4 DEF DriveInv, FilesInOrder, SuccessesKept, OnDrive, Displaced

\* One more file, of the day of the upload.
LEMMA AppendKeeps ==
    ASSUME DriveInv, TypeInv', worker.at = "uploading", UNCHANGED clock,
           NEW n \in {1, 2},
           Len(drive') = Len(drive) + n,
           \A i \in 1..Len(drive) : drive'[i] = drive[i],
           \A i \in Len(drive) + 1 .. Len(drive) + n : drive'[i] = worker.date
    PROVE  /\ FilesInOrder' /\ FilesPast'
           /\ \A d \in Day : OnDrive(d) \/ Displaced(d) => OnDrive(d)' \/ Displaced(d)'
           /\ \A i \in DOMAIN drive' : drive'[i] <= worker.date
           /\ Len(drive') > 0 /\ drive'[Len(drive')] = worker.date
<1>1. /\ drive \in Seq(Day) /\ drive' \in Seq(Day) /\ Len(drive) \in Nat /\ Day \subseteq Nat
      /\ DOMAIN drive = 1..Len(drive) /\ DOMAIN drive' = 1..Len(drive')
      /\ worker.date \in Nat /\ clock.day \in Nat /\ RetentionCount \in Nat \ {0}
  <2>1. drive \in Seq(Day) /\ drive' \in Seq(Day)
    BY DEF DriveInv, TypeInv, TypeOK
  <2>2. Day \subseteq Nat
    BY WorkerAssumption DEF Day
  <2>3. worker.date \in Day /\ clock.day \in Day
    BY DEF DriveInv, TypeInv, TypeOK, WorkerState
  <2>4. /\ Len(drive) \in Nat /\ DOMAIN drive = 1..Len(drive)
        /\ DOMAIN drive' = 1..Len(drive')
    BY <2>1, LenProperties
  <2>5. RetentionCount \in Nat \ {0}
    BY WorkerAssumption
  <2> QED BY <2>1, <2>2, <2>3, <2>4, <2>5
<1>2. worker.date <= clock.day /\ \A i \in DOMAIN drive : drive[i] <= worker.date
  BY DEF DriveInv, UploadIsLatest
<1>3. \A i \in DOMAIN drive' : IF i <= Len(drive) THEN i \in DOMAIN drive /\ drive'[i] = drive[i]
                                                  ELSE drive'[i] = worker.date
  BY <1>1
<1>4. /\ \A i \in DOMAIN drive : drive[i] \in Nat
      /\ \A i \in DOMAIN drive' : drive'[i] \in Nat
  BY <1>1, FilesAreDays
<1>5. FilesInOrder'
  <2>1. ASSUME NEW i \in DOMAIN drive', NEW j \in DOMAIN drive', i <= j
        PROVE  drive'[i] <= drive'[j]
    <3>1. i \in Nat /\ j \in Nat
      BY <1>1
    <3>2. CASE j <= Len(drive)
      <4>1. i <= Len(drive)
        BY <1>1, <2>1, <3>1, <3>2
      <4>2. drive[i] <= drive[j] /\ i \in DOMAIN drive /\ j \in DOMAIN drive
        BY <1>3, <2>1, <3>2, <4>1 DEF DriveInv, FilesInOrder
      <4> QED BY <1>3, <3>2, <4>1, <4>2
    <3>3. CASE ~(j <= Len(drive))
      BY <1>1, <1>2, <1>3, <3>3
    <3> QED BY <3>2, <3>3
  <2> QED BY <2>1 DEF FilesInOrder
<1>6. \A i \in DOMAIN drive' : drive'[i] <= worker.date
  BY <1>1, <1>2, <1>3
<1>7. FilesPast'
  BY <1>1, <1>2, <1>4, <1>6 DEF FilesPast
<1>8. Len(drive') > 0 /\ drive'[Len(drive')] = worker.date
  BY <1>1
<1>9. ASSUME NEW d \in Day, OnDrive(d) \/ Displaced(d) PROVE OnDrive(d)' \/ Displaced(d)'
  <2>2. CASE OnDrive(d)
    BY <1>1, <1>3, <2>2 DEF OnDrive
  <2>3. CASE Displaced(d)
    <3> DEFINE first == Len(drive) - RetentionCount + 1
    <3>1. first \in DOMAIN drive /\ drive[first] > d
      BY <1>1, <2>3 DEF Displaced
    <3>2. first \in DOMAIN drive' /\ drive'[first] > d
      BY <1>1, <3>1
    <3>3. /\ Len(drive') - RetentionCount + 1 \in DOMAIN drive' /\ Len(drive') >= RetentionCount
          /\ first <= Len(drive') - RetentionCount + 1
      BY <1>1, <3>1
    <3>4. drive'[first] <= drive'[Len(drive') - RetentionCount + 1]
      BY <1>5, <3>2, <3>3 DEF FilesInOrder
    <3>5. d \in Nat /\ drive'[first] \in Nat /\ drive'[Len(drive') - RetentionCount + 1] \in Nat
      BY <1>1, <1>4, <3>2, <3>3
    <3> QED BY <3>2, <3>3, <3>4, <3>5 DEF Displaced
  <2> QED BY <1>9, <2>2, <2>3
<1> QED BY <1>5, <1>6, <1>7, <1>8, <1>9

\* Deletions take the oldest files, and leave the newest RetentionCount.
LEMMA TrimKeeps ==
    ASSUME DriveInv, drive' \in Seq(Day), UNCHANGED clock,
           Len(drive) > RetentionCount, NEW k \in 0..Len(drive) - RetentionCount,
           drive' = SubSeq(drive, 1, k) \o Newest(drive)
    PROVE  /\ FilesInOrder' /\ FilesPast'
           /\ \A d \in Day : OnDrive(d) \/ Displaced(d) => OnDrive(d)' \/ Displaced(d)'
           /\ worker.at = "retaining" => \E i \in DOMAIN drive' : drive'[i] = worker.date
<1> DEFINE stale == Len(drive) - RetentionCount
           From(i) == IF i <= k THEN i ELSE i - k + stale
<1>1. /\ drive \in Seq(Day) /\ Len(drive) \in Nat /\ RetentionCount \in Nat \ {0}
      /\ DOMAIN drive = 1..Len(drive) /\ Day \subseteq Nat
      /\ \A i \in 1..Len(drive) : drive[i] \in Day /\ drive[i] \in Nat
  <2>1. drive \in Seq(Day)
    BY DEF DriveInv, TypeInv, TypeOK
  <2>2. Day \subseteq Nat /\ RetentionCount \in Nat \ {0}
    BY WorkerAssumption DEF Day
  <2>3. \A i \in 1..Len(drive) : drive[i] \in Day
    BY <2>1, ElementOfSeq
  <2> QED BY <2>1, <2>2, <2>3, FilesAreDays
<1>2. k \in Nat /\ stale \in Nat /\ k <= stale /\ stale + RetentionCount = Len(drive)
  BY <1>1
<1>3. /\ SubSeq(drive, 1, k) \in Seq(Day) /\ Len(SubSeq(drive, 1, k)) = k
      /\ \A i \in 1..k : SubSeq(drive, 1, k)[i] = drive[i]
  <2>1. 1 \in Int /\ k \in Int /\ \A i \in 1..k : drive[i] \in Day
    BY <1>1, <1>2
  <2>2. /\ SubSeq(drive, 1, k) \in Seq(Day)
        /\ Len(SubSeq(drive, 1, k)) = IF 1 <= k THEN k - 1 + 1 ELSE 0
        /\ \A i \in 1..k - 1 + 1 : SubSeq(drive, 1, k)[i] = drive[1 + i - 1]
    BY <2>1, SubSeqProperties
  <2> QED BY <1>2, <2>2
<1>4. /\ Newest(drive) \in Seq(Day) /\ Len(Newest(drive)) = RetentionCount
      /\ \A i \in 1..RetentionCount : Newest(drive)[i] = drive[stale + i]
  <2> DEFINE m == Len(drive) - RetentionCount + 1
             n == Len(drive)
  <2>1. m \in Int /\ n \in Int /\ m <= n /\ n - m + 1 = RetentionCount /\ \A i \in m..n : drive[i] \in Day
    BY <1>1, <1>2
  <2>2. /\ SubSeq(drive, m, n) \in Seq(Day)
        /\ Len(SubSeq(drive, m, n)) = IF m <= n THEN n - m + 1 ELSE 0
        /\ \A i \in 1..n - m + 1 : SubSeq(drive, m, n)[i] = drive[m + i - 1]
    <3> HIDE DEF m, n
    <3> QED BY <2>1, SubSeqProperties
  <2>3. \A i \in 1..RetentionCount : m + i - 1 = stale + i
    BY <1>1
  <2> QED BY <2>1, <2>2, <2>3 DEF Newest
<1>5. /\ Len(drive') = k + RetentionCount /\ DOMAIN drive' = 1..Len(drive')
      /\ \A i \in 1..Len(drive') : From(i) \in 1..Len(drive) /\ drive'[i] = drive[From(i)]
  <2>1. /\ Len(drive') = k + RetentionCount
        /\ \A i \in 1..k + RetentionCount :
              drive'[i] = IF i <= k THEN SubSeq(drive, 1, k)[i] ELSE Newest(drive)[i - k]
    BY <1>3, <1>4, ConcatProperties
  <2>2. ASSUME NEW i \in 1..k + RetentionCount
        PROVE  From(i) \in 1..Len(drive) /\ drive'[i] = drive[From(i)]
    <3>1. CASE i <= k
      <4>1. i \in 1..k /\ i \in 1..Len(drive) /\ From(i) = i
        BY <1>1, <1>2, <3>1
      <4>2. drive'[i] = SubSeq(drive, 1, k)[i]
        BY <2>1, <3>1
      <4> HIDE DEF From
      <4> QED BY <1>3, <4>1, <4>2
    <3>2. CASE ~(i <= k)
      <4>1. i - k \in 1..RetentionCount /\ From(i) = stale + (i - k)
        BY <1>1, <1>2, <3>2
      <4>2. drive'[i] = Newest(drive)[i - k]
        BY <2>1, <3>2
      <4>3. Newest(drive)[i - k] = drive[stale + (i - k)]
        BY <1>4, <4>1
      <4>4. From(i) \in 1..Len(drive)
        BY <1>1, <1>2, <4>1
      <4> HIDE DEF From
      <4> QED BY <4>1, <4>2, <4>3, <4>4
    <3> QED BY <3>1, <3>2
  <2>3. DOMAIN drive' = 1..Len(drive')
    BY FilesAreDays
  <2> QED BY <2>1, <2>2, <2>3
<1>6. \A i, j \in 1..Len(drive') : i <= j => From(i) <= From(j)
  BY <1>1, <1>2, <1>5
<1> HIDE DEF From
<1>7. FilesInOrder'
  <2>1. ASSUME NEW i \in DOMAIN drive', NEW j \in DOMAIN drive', i <= j
        PROVE  drive'[i] <= drive'[j]
    <3>1. /\ From(i) \in DOMAIN drive /\ drive'[i] = drive[From(i)]
          /\ From(j) \in DOMAIN drive /\ drive'[j] = drive[From(j)]
      BY <1>1, <1>5
    <3>2. From(i) <= From(j)
      BY <1>5, <1>6, <2>1
    <3>3. drive[From(i)] <= drive[From(j)]
      BY <3>1, <3>2 DEF DriveInv, FilesInOrder
    <3> QED BY <3>1, <3>3
  <2> QED BY <2>1 DEF FilesInOrder
<1>8. FilesPast'
  BY <1>1, <1>5 DEF DriveInv, FilesPast
<1>9. /\ \A j \in stale + 1 .. Len(drive) : \E i \in DOMAIN drive' : drive'[i] = drive[j]
      /\ Len(drive') - RetentionCount + 1 \in DOMAIN drive' /\ Len(drive') >= RetentionCount
      /\ drive'[Len(drive') - RetentionCount + 1] = drive[stale + 1]
  <2>1. ASSUME NEW j \in stale + 1 .. Len(drive)
        PROVE  j - stale + k \in DOMAIN drive' /\ drive'[j - stale + k] = drive[j]
    <3>1. j - stale + k \in 1..Len(drive') /\ ~(j - stale + k <= k)
      BY <1>1, <1>2, <1>5
    <3>2. From(j - stale + k) = j
      BY <1>2, <3>1 DEF From
    <3> QED BY <1>5, <3>1, <3>2
  <2>2. stale + 1 \in stale + 1 .. Len(drive) /\ (stale + 1) - stale + k = Len(drive') - RetentionCount + 1
    BY <1>1, <1>2, <1>5
  <2>3. Len(drive') >= RetentionCount
    BY <1>1, <1>2, <1>5
  <2> QED BY <2>1, <2>2, <2>3
<1>10. ASSUME NEW d \in Day, OnDrive(d) \/ Displaced(d) PROVE OnDrive(d)' \/ Displaced(d)'
  <2>1. CASE Displaced(d)
    <3>1. drive[stale + 1] > d
      BY <2>1 DEF Displaced
    <3> QED BY <1>9, <3>1 DEF Displaced
  <2>2. CASE OnDrive(d)
    <3>1. PICK j \in 1..Len(drive) : drive[j] = d
      BY <1>1, <2>2 DEF OnDrive
    <3>2. CASE j >= stale + 1
      <4>1. j \in stale + 1 .. Len(drive)
        BY <1>2, <3>1, <3>2
      <4> QED BY <1>9, <3>1, <4>1 DEF OnDrive
    <3>3. CASE ~(j >= stale + 1)
      <4>1. stale + 1 \in 1..Len(drive) /\ j <= stale + 1
        BY <1>1, <1>2, <3>1, <3>3
      <4>2. drive[j] <= drive[stale + 1]
        BY <1>1, <3>1, <4>1 DEF DriveInv, FilesInOrder
      <4>3. d \in Nat /\ drive[stale + 1] \in Nat
        BY <1>1, <4>1
      <4>4. CASE drive[stale + 1] = d
        <5>1. stale + 1 \in stale + 1 .. Len(drive)
          BY <1>2, <4>1
        <5> QED BY <1>9, <4>4, <5>1 DEF OnDrive
      <4>5. CASE drive[stale + 1] # d
        <5>1. drive[stale + 1] > d
          BY <3>1, <4>2, <4>3, <4>5
        <5> QED BY <1>9, <5>1 DEF Displaced
      <4> QED BY <4>4, <4>5
    <3> QED BY <3>2, <3>3
  <2> QED BY <1>10, <2>1, <2>2
<1>11. ASSUME worker.at = "retaining" PROVE \E i \in DOMAIN drive' : drive'[i] = worker.date
  <2>1. drive[Len(drive)] = worker.date /\ Len(drive) \in stale + 1 .. Len(drive)
    BY <1>1, <1>2, <1>11 DEF DriveInv, UploadIsLast
  <2> QED BY <1>9, <2>1
<1> QED BY <1>7, <1>8, <1>10, <1>11

LEMMA DriveInit == Init => DriveInv
<1> SUFFICES ASSUME Init PROVE DriveInv
  OBVIOUS
<1>1. /\ worker.at = "run" /\ drive = <<>> /\ DOMAIN drive = {}
      /\ \A d \in Day : backups[d].outcome = "none"
  BY DEF Init, CycleStart, AtBranch, NoBackup
<1> QED BY <1>1, TypeInit
    DEF DriveInv, FilesInOrder, FilesPast, UploadIsLatest, UploadIsLast, SuccessesKept

\* What a recorded outcome changes: the row of the worker's date, and the cycle ends.
LEMMA RecordKeeps ==
    ASSUME DriveInv, TypeInv', worker.at \in {"uploading", "retaining"}, UNCHANGED clock,
           NEW outcome \in {"success", "failed"}, Recorded(outcome),
           FilesInOrder', FilesPast',
           \A d \in Day : OnDrive(d) \/ Displaced(d) => OnDrive(d)' \/ Displaced(d)',
           outcome = "success" => \E i \in DOMAIN drive' : drive'[i] = worker.date
    PROVE  DriveInv'
<1>1. worker'.at = "run"
  BY DEF Recorded, CycleStart, AtBranch
<1>2. worker.date \in Day /\ backups \in [Day -> BackupRow]
  BY DEF DriveInv, TypeInv, TypeOK, DatedBackup
<1>3. ASSUME NEW d \in Day, backups'[d].outcome = "success" PROVE OnDrive(d)' \/ Displaced(d)'
  <2>1. CASE d = worker.date
    <3>1. backups'[d].outcome = outcome
      BY <1>2, <2>1 DEF Recorded
    <3> QED BY <1>3, <2>1, <3>1 DEF OnDrive
  <2>2. CASE d # worker.date
    <3>1. backups'[d] = backups[d]
      BY <1>2, <2>2 DEF Recorded
    <3> QED BY <1>3, <3>1 DEF DriveInv, SuccessesKept
  <2> QED BY <2>1, <2>2
<1> QED BY <1>1, <1>3 DEF DriveInv, UploadIsLatest, UploadIsLast, SuccessesKept

LEMMA UploadKeeps ==
    ASSUME DriveInv, TypeInv', Upload
    PROVE  DriveInv'
<1>1. /\ drive \in Seq(Day) /\ worker \in WorkerState /\ worker.date \in Day
      /\ worker.at = "uploading" /\ UNCHANGED <<clock, backups>>
  BY DEF DriveInv, TypeInv, TypeOK, DatedBackup, Upload
<1>2. worker'.at = "retaining" /\ worker'.date = worker.date
  BY <1>1 DEF Upload, WorkerState
<1>3. \E n \in {1, 2} :
         /\ Len(drive') = Len(drive) + n
         /\ \A i \in 1..Len(drive) : drive'[i] = drive[i]
         /\ \A i \in Len(drive) + 1 .. Len(drive) + n : drive'[i] = worker.date
  <2>1. CASE drive' = Append(drive, worker.date)
    <3>1. /\ Len(drive') = Len(drive) + 1 /\ \A i \in 1..Len(drive) : drive'[i] = drive[i]
          /\ drive'[Len(drive) + 1] = worker.date
      BY <1>1, <2>1, AppendProperties
    <3>2. \A i \in Len(drive) + 1 .. Len(drive) + 1 : i = Len(drive) + 1
      BY <1>1, LenProperties
    <3> QED BY <3>1, <3>2
  <2>2. CASE drive' = drive \o <<worker.date, worker.date>>
    <3> DEFINE two == <<worker.date, worker.date>>
    <3>1. two \in Seq(Day) /\ Len(two) = 2 /\ two[1] = worker.date /\ two[2] = worker.date
      BY <1>1
    <3> HIDE DEF two
    <3>2. /\ Len(drive') = Len(drive) + Len(two)
          /\ \A i \in 1 .. Len(drive) + Len(two) :
                drive'[i] = IF i <= Len(drive) THEN drive[i] ELSE two[i - Len(drive)]
      BY <1>1, <2>2, <3>1, ConcatProperties DEF two
    <3>3. Len(drive) \in Nat
      BY <1>1
    <3>4. \A i \in Len(drive) + 1 .. Len(drive) + 2 :
            /\ i \in 1 .. Len(drive) + Len(two) /\ ~(i <= Len(drive)) /\ i - Len(drive) \in {1, 2}
      BY <3>1, <3>3
    <3>5. \A i \in 1 .. Len(drive) : i \in 1 .. Len(drive) + Len(two) /\ i <= Len(drive)
      BY <3>1, <3>3
    <3>6. \A i \in Len(drive) + 1 .. Len(drive) + 2 : drive'[i] = worker.date
      BY <3>1, <3>2, <3>4
    <3> QED BY <3>1, <3>2, <3>5, <3>6
  <2> QED BY <2>1, <2>2 DEF Upload
<1>4. /\ FilesInOrder' /\ FilesPast'
      /\ \A d \in Day : OnDrive(d) \/ Displaced(d) => OnDrive(d)' \/ Displaced(d)'
      /\ \A i \in DOMAIN drive' : drive'[i] <= worker.date
      /\ Len(drive') > 0 /\ drive'[Len(drive')] = worker.date
  BY <1>1, <1>3, AppendKeeps
<1>5. UploadIsLatest' /\ UploadIsLast'
  BY <1>1, <1>2, <1>4 DEF DriveInv, UploadIsLatest, UploadIsLast
<1>6. SuccessesKept'
  BY <1>1, <1>4 DEF DriveInv, SuccessesKept
<1> QED BY <1>4, <1>5, <1>6 DEF DriveInv

LEMMA RetentionKeeps ==
    ASSUME DriveInv, TypeInv', EnforceRetention
    PROVE  DriveInv'
<1>1. /\ drive \in Seq(Day) /\ drive' \in Seq(Day) /\ Len(drive) \in Nat
      /\ RetentionCount \in Nat \ {0} /\ worker.at = "retaining" /\ UNCHANGED clock
      /\ drive' = Retained(drive) /\ Recorded("success")
      /\ DOMAIN drive = 1..Len(drive)
  BY WorkerAssumption, FilesAreDays DEF DriveInv, TypeInv, TypeOK, EnforceRetention
<1>2. /\ FilesInOrder' /\ FilesPast'
      /\ \A d \in Day : OnDrive(d) \/ Displaced(d) => OnDrive(d)' \/ Displaced(d)'
      /\ \E i \in DOMAIN drive' : drive'[i] = worker.date
  <2>1. CASE Len(drive) > RetentionCount
    <3>1. SubSeq(drive, 1, 0) = <<>>
      BY <1>1, SubSeqEmpty
    <3>2. Newest(drive) \in Seq(Day) /\ drive' = Newest(drive)
      BY <1>1, <2>1, NewestType DEF Retained
    <3>3. drive' = SubSeq(drive, 1, 0) \o Newest(drive)
      BY <3>1, <3>2, ConcatEmptySeq
    <3>4. 0 \in 0 .. Len(drive) - RetentionCount
      BY <1>1, <2>1
    <3> QED BY <1>1, <2>1, <3>3, <3>4, TrimKeeps
  <2>2. CASE ~(Len(drive) > RetentionCount)
    <3>1. drive' = drive
      BY <1>1, <2>2 DEF Retained
    <3>2. drive[Len(drive)] = worker.date /\ Len(drive) \in DOMAIN drive
      BY <1>1 DEF DriveInv, UploadIsLast
    <3> QED BY <1>1, <3>1, <3>2 DEF DriveInv, FilesInOrder, FilesPast, OnDrive, Displaced
  <2> QED BY <2>1, <2>2
<1> QED BY <1>1, <1>2, RecordKeeps

LEMMA FailureKeeps ==
    ASSUME DriveInv, TypeInv', BackupFails
    PROVE  DriveInv'
<1>1. /\ drive \in Seq(Day) /\ drive' \in Seq(Day) /\ Len(drive) \in Nat
      /\ RetentionCount \in Nat \ {0} /\ worker.at \in {"uploading", "retaining"}
      /\ worker.date \in Day /\ UNCHANGED clock
      /\ drive' \in LeftByFailure /\ Recorded("failed")
      /\ DOMAIN drive = 1..Len(drive)
  BY WorkerAssumption, FilesAreDays DEF DriveInv, TypeInv, TypeOK, DatedBackup, BackupFails
<1>2. /\ FilesInOrder' /\ FilesPast'
      /\ \A d \in Day : OnDrive(d) \/ Displaced(d) => OnDrive(d)' \/ Displaced(d)'
  <2>1. CASE drive' = drive
    BY <1>1, <2>1 DEF DriveInv, FilesInOrder, FilesPast, OnDrive, Displaced
  <2>2. CASE worker.at = "uploading" /\ drive' = Append(drive, worker.date)
    <3>1. /\ Len(drive') = Len(drive) + 1 /\ \A i \in 1..Len(drive) : drive'[i] = drive[i]
          /\ drive'[Len(drive) + 1] = worker.date
      BY <1>1, <2>2, AppendProperties
    <3>2. \A i \in Len(drive) + 1 .. Len(drive) + 1 : drive'[i] = worker.date
      BY <1>1, <3>1
    <3> QED BY <1>1, <2>2, <3>1, <3>2, AppendKeeps
  <2>3. ASSUME Len(drive) > RetentionCount, NEW k \in 0 .. Len(drive) - RetentionCount,
               drive' = SubSeq(drive, 1, k) \o Newest(drive)
        PROVE  /\ FilesInOrder' /\ FilesPast'
               /\ \A d \in Day : OnDrive(d) \/ Displaced(d) => OnDrive(d)' \/ Displaced(d)'
    BY <1>1, <2>3, TrimKeeps
  <2>4. \/ drive' = drive
        \/ worker.at = "uploading" /\ drive' = Append(drive, worker.date)
        \/ /\ Len(drive) > RetentionCount
           /\ \E k \in 0 .. Len(drive) - RetentionCount : drive' = SubSeq(drive, 1, k) \o Newest(drive)
    <3>1. CASE worker.at = "uploading"
      BY <1>1, <3>1 DEF LeftByFailure
    <3>2. CASE worker.at # "uploading" /\ Len(drive) - RetentionCount <= 0
      BY <1>1, <3>2 DEF LeftByFailure
    <3>3. CASE worker.at # "uploading" /\ ~(Len(drive) - RetentionCount <= 0)
      <4>1. Len(drive) > RetentionCount
        BY <1>1, <3>3
      <4> QED BY <1>1, <3>3, <4>1 DEF LeftByFailure
    <3> QED BY <3>1, <3>2, <3>3
  <2> QED BY <2>1, <2>2, <2>3, <2>4
<1> QED BY <1>1, <1>2, RecordKeeps

LEMMA DriveStep == DriveInv /\ [Next]_vars => DriveInv'
<1> SUFFICES ASSUME DriveInv, [Next]_vars PROVE DriveInv'
  OBVIOUS
<1>0. TypeInv /\ TypeInv' /\ TypeOK
  BY TypeStep DEF DriveInv, TypeInv
<1>a. clock \in [day : Day, hour : 0..LastHour] /\ clock.day \in Nat
  BY <1>0, WorkerAssumption DEF TypeOK, Day
<1>b. CycleStart.at = "run" /\ clock.day >= clock.day
  BY <1>a DEF CycleStart, AtBranch
<1>1. ASSUME NEW b \in Branch, FindNothing(b) \/ Serve(b) \/ GuardedBranchRaises(b) \/ BranchRaises(b)
      PROVE  DriveInv'
  <2>1. AtBranch(NextBranch[b]).at \in {"job", "removal", "backup", "detection", "pairScan", "embedding"}
    BY DEF NextBranch, Branch, AtBranch
  <2>2. worker'.at \notin {"uploading", "retaining"} /\ UNCHANGED <<clock, drive, backups>>
    BY <1>1, <1>b, <2>1 DEF FindNothing, Serve, GuardedBranchRaises, AfterRaise, BranchRaises
  <2> QED BY <1>0, <1>b, <2>2, NoFileStep
<1>2. CASE CheckBackup
  <2>1. worker'.at \in {"backing", "detection"}
    BY <1>2 DEF CheckBackup, AtBranch
  <2> QED BY <1>0, <1>b, <1>2, <2>1, NoFileStep DEF CheckBackup
<1>3. CASE StartBackup
  <2>1. worker \in WorkerState
    BY <1>0 DEF TypeOK
  <2>2. /\ worker'.at = "uploading" /\ worker'.date = clock.day
        /\ UNCHANGED <<clock, drive, backups>>
    BY <1>3, <2>1 DEF StartBackup, WorkerState
  <2>3. FilesInOrder' /\ FilesPast' /\ SuccessesKept'
    BY <2>2 DEF DriveInv, FilesInOrder, FilesPast, SuccessesKept, OnDrive, Displaced
  <2>4. UploadIsLatest' /\ UploadIsLast'
    BY <1>b, <2>2 DEF DriveInv, FilesPast, UploadIsLatest, UploadIsLast
  <2> QED BY <1>0, <2>3, <2>4 DEF DriveInv
<1>4. CASE Upload
  BY <1>0, <1>4, UploadKeeps
<1>5. CASE EnforceRetention
  BY <1>0, <1>5, RetentionKeeps
<1>6. CASE BackupFails
  BY <1>0, <1>6, FailureKeeps
<1>7. CASE BackupUnrecorded \/ FinishBatch \/ StopEarly
  <2>1. worker'.at = "run"
    BY <1>b, <1>7 DEF BackupUnrecorded, FinishBatch, StopEarly, CommitMarks
  <2> QED BY <1>0, <1>b, <1>7, <2>1, NoFileStep DEF BackupUnrecorded, FinishBatch, StopEarly
<1>8. ASSUME NEW kind \in {"transactions", "payments"}, ListPending(kind) PROVE DriveInv'
  <2>1. worker'.at = "storing"
    BY <1>0, <1>8 DEF ListPending, TypeOK, WorkerState
  <2> QED BY <1>0, <1>b, <1>8, <2>1, NoFileStep DEF ListPending
<1>9. ASSUME NEW e \in worker.batch, Upsert(e) \/ MarkEmbedded(e) PROVE DriveInv'
  <2>1. worker'.at \in {"marking", "storing", "run"}
    BY <1>0, <1>b, <1>9 DEF Upsert, MarkEmbedded, TypeOK, WorkerState
  <2> QED BY <1>0, <1>b, <1>9, <2>1, NoFileStep DEF Upsert, MarkEmbedded
<1>10. CASE User
  BY <1>0, <1>b, <1>10, NoFileStep DEF User, Queue, LoadPayment, DeletePayment, RenamePayment, RenameFails
<1>11. CASE Tick
  <2>1. clock'.day >= clock.day /\ UNCHANGED <<drive, backups, worker>>
    BY <1>a, <1>11 DEF Tick
  <2> QED BY <1>0, <2>1, NoFileStep
<1>12. CASE Crash \/ Restart
  <2>1. worker'.at \in {"down", "run"}
    BY <1>b, <1>12 DEF Crash, Restart, AtBranch
  <2> QED BY <1>0, <1>b, <1>12, <2>1, NoFileStep DEF Crash, Restart
<1>13. CASE UNCHANGED vars
  BY <1>0, <1>b, <1>13, NoFileStep DEF vars
<1> QED
  BY <1>1, <1>2, <1>3, <1>4, <1>5, <1>6, <1>7, <1>8, <1>9, <1>10, <1>11, <1>12, <1>13
  DEF Next, PollOnce, Failure

\* What was recorded as backed up is on Drive, or RetentionCount files of later
\* days have displaced it (backup/service.py, _enforce_retention).
THEOREM SuccessesAreKept == Spec => []SuccessesStayOnDrive
<1>1. DriveInv => SuccessesStayOnDrive
  <2> SUFFICES ASSUME DriveInv, NEW d \in Day, backups[d].outcome = "success"
               PROVE  \/ \E i \in DOMAIN drive : drive[i] = d
                      \/ Cardinality({i \in DOMAIN drive : drive[i] > d}) >= RetentionCount
    BY DEF SuccessesStayOnDrive
  <2>1. OnDrive(d) \/ Displaced(d)
    BY DEF DriveInv, SuccessesKept
  <2> QED BY <2>1, DisplacedByCount DEF OnDrive
<1> QED BY <1>1, DriveInit, DriveStep, PTL DEF Spec

=============================================================================
