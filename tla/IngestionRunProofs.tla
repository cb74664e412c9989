------------------------- MODULE IngestionRunProofs -------------------------
(***************************************************************************)
(* Proofs about IngestionRun, for any runs, files, workers and requests:   *)
(* the statements follow the file rows, with or without a rolling update;  *)
(* the counters do, and the rows are those of the ledger, when no worker   *)
(* starts beside another.                                                  *)
(***************************************************************************)
EXTENDS IngestionRun, FiniteSetTheorems, TLAPS

----------------------------------------------------------------------------
(* Types.                                                                  *)

NotInFile == {"found", "claimed", "listing", "committed", "between"}

\* The worker that has begun a file has that file in hand, and no other.
FileInHand ==
    \A w \in Worker :
        /\ worker[w].step \in {"file", "written"} => worker[w].file \in File \ worker[w].todo
        /\ worker[w].step \in NotInFile => worker[w].file = NoFile
TypeInv == TypeOK /\ FileInHand

\* The state of one worker.
WorkerFits(wk) ==
    /\ wk \in WorkerState
    /\ wk.step \in {"down", "idle"} <=> wk.run = NoRun
    /\ wk.step \in {"file", "written"} => wk.file \in File \ wk.todo
    /\ wk.step \in NotInFile => wk.file = NoFile

LEMMA AtFits ==
    ASSUME NEW s \in {"down", "idle"}
    PROVE  /\ WorkerFits(At(s))
           /\ At(s).step = s /\ At(s).run = NoRun /\ At(s).loaded.status = "none"
BY DEF At, NotLoaded, NewRun, RunRow, WorkerFits, WorkerState, WorkerStep, NotInFile

\* The state of a worker that has just found run r, or the run to recover.
LEMMA HasFits ==
    ASSUME NEW s \in {"found", "recovering"}, NEW r \in Run
    PROVE  LET wk == [At(s) EXCEPT !.run = r]
           IN  /\ WorkerFits(wk)
               /\ wk.step = s /\ wk.run = r /\ wk.loaded.status = "none"
BY RunAssumption DEF At, NotLoaded, NewRun, RunRow, WorkerFits, WorkerState, WorkerStep, NotInFile

\* A step that gives one worker a state that fits keeps the workers' types.
LEMMA WorkersFit ==
    ASSUME TypeInv, NEW w \in Worker, NEW wk, WorkerFits(wk), worker' = [worker EXCEPT ![w] = wk]
    PROVE  /\ worker' \in [Worker -> WorkerState]
           /\ \A v \in Worker : worker'[v].step \in {"down", "idle"} <=> worker'[v].run = NoRun
           /\ FileInHand'
<1>1. worker \in [Worker -> WorkerState] /\ wk \in WorkerState
  BY DEF TypeInv, TypeOK, WorkerFits
<1>2. \A v \in Worker : worker'[v] = IF v = w THEN wk ELSE worker[v]
  BY <1>1
<1> QED BY <1>1, <1>2 DEF TypeInv, TypeOK, FileInHand, WorkerFits

LEMMA WorkerType ==
    ASSUME TypeInv, NEW w \in Worker
    PROVE  WorkerFits(worker[w])
BY DEF TypeInv, TypeOK, FileInHand, WorkerFits

\* The row of a run is changed in its status, in whether it is cancelled and in
\* its counters.
LEMMA RunTypes ==
    ASSUME NEW row \in RunRow
    PROVE  /\ \A s \in ActiveStatus \cup FinalStatus : [row EXCEPT !.status = s] \in RunRow
           /\ [row EXCEPT !.cancel = TRUE] \in RunRow
           /\ \A n \in Nat : [row EXCEPT !.found = n] \in RunRow
           /\ \A o \in FileOutcome, loaded \in RunRow : Recorded(row, loaded, o) \in RunRow
<1>1. ASSUME NEW s \in ActiveStatus \cup FinalStatus PROVE [row EXCEPT !.status = s] \in RunRow
  BY DEF RunRow
<1>2. ASSUME NEW n \in Nat PROVE [row EXCEPT !.found = n] \in RunRow
  BY DEF RunRow
<1>3. ASSUME NEW o \in FileOutcome, NEW loaded \in RunRow PROVE Recorded(row, loaded, o) \in RunRow
  BY DEF RunRow, Recorded, FileOutcome
<1>4. [row EXCEPT !.cancel = TRUE] \in RunRow
  BY DEF RunRow
<1> QED BY <1>1, <1>2, <1>3, <1>4

LEMMA TypeInit == Init => TypeInv
<1> SUFFICES ASSUME Init PROVE TypeInv
  OBVIOUS
<1>1. runs \in [Run -> RunRow]
  BY DEF Init, NewRun, RunRow
<1>2. worker \in [Worker -> WorkerState] /\ \A w \in Worker : WorkerFits(worker[w])
  BY AtFits DEF Init, WorkerFits
<1>3. api \in [Request -> RequestState]
  BY DEF Init, Idle, RequestState
<1>4. crashes \in 0..MaxCrashes /\ faults \in 0..MaxFaults
  BY RunAssumption DEF Init
<1> QED BY <1>1, <1>2, <1>3, <1>4 DEF Init, TypeInv, TypeOK, FileInHand, WorkerFits

\* A step of one worker that changes nothing but the workers and the runs.
LEMMA TypeFrame ==
    ASSUME TypeInv, NEW w \in Worker, NEW wk, WorkerFits(wk), worker' = [worker EXCEPT ![w] = wk],
           runs' \in [Run -> RunRow], UNCHANGED <<rows, held, session, api, crashes, faults>>
    PROVE  TypeInv'
BY WorkersFit DEF TypeInv, TypeOK

\* A worker that takes its run to an end is idle, and the run's row is a row.
LEMMA EndRunType ==
    ASSUME TypeInv, NEW w \in Worker, NEW s \in FinalStatus, worker[w].run # NoRun, EndRun(w, s)
    PROVE  /\ runs' \in [Run -> RunRow]
           /\ WorkerFits(At("idle")) /\ worker' = [worker EXCEPT ![w] = At("idle")]
<1>1. runs[worker[w].run] \in RunRow /\ worker[w].run \in Run /\ worker[w].loaded \in RunRow
  BY DEF TypeInv, TypeOK, WorkerState
<1> DEFINE t == Assigned(runs[worker[w].run].status, worker[w].loaded.status, s)
<1>2. t \in {s, runs[worker[w].run].status}
  BY DEF Assigned
<1>3. [runs[worker[w].run] EXCEPT !.status = t] \in RunRow
  <2>1. [runs[worker[w].run] EXCEPT !.status = s] \in RunRow
    BY <1>1, RunTypes
  <2>2. [runs[worker[w].run] EXCEPT !.status = runs[worker[w].run].status] = runs[worker[w].run]
    BY <1>1 DEF RunRow
  <2> HIDE DEF t
  <2> QED BY <1>1, <1>2, <2>1, <2>2
<1>4. runs' = [runs EXCEPT ![worker[w].run] = [runs[worker[w].run] EXCEPT !.status = t]]
  BY <1>1 DEF EndRun, TypeInv, TypeOK
<1> HIDE DEF t
<1>5. runs' \in [Run -> RunRow]
  BY <1>1, <1>3, <1>4 DEF TypeInv, TypeOK
<1> QED BY <1>5, AtFits DEF EndRun

\* The commit of a file.
LEMMA CommitFileType ==
    ASSUME TypeInv, NEW w \in Worker, NEW o \in FileOutcome,
           worker[w].step \in {"file", "written"}, CommitFile(w, o)
    PROVE  TypeInv'
<1> DEFINE r == worker[w].run  f == worker[w].file
           wk == [worker[w] EXCEPT !.step = "committed", !.loaded = NotLoaded, !.file = NoFile]
<1>1. WorkerFits(worker[w])
  BY WorkerType
<1>2. r \in Run /\ f \in File /\ worker[w].loaded \in RunRow
  BY <1>1 DEF WorkerFits, WorkerState
<1>3. runs' \in [Run -> RunRow]
  <2>1. runs \in [Run -> RunRow] /\ runs' = [runs EXCEPT ![r] = Recorded(runs[r], worker[w].loaded, o)]
    BY DEF CommitFile, TypeInv, TypeOK
  <2>2. Recorded(runs[r], worker[w].loaded, o) \in RunRow
    BY <1>2, <2>1, RunTypes
  <2> QED BY <1>2, <2>1, <2>2
<1>4. rows' \subseteq RunFileRow
  BY <1>2 DEF CommitFile, TypeInv, TypeOK, RunFileRow
<1>5. held' \subseteq Content /\ session' \in [Worker -> SUBSET Content]
  BY DEF CommitFile, TypeInv, TypeOK
<1>6. WorkerFits(wk)
  BY <1>1 DEF WorkerFits, WorkerState, WorkerStep, NotInFile, NotLoaded, NewRun, RunRow
<1>7. worker' = [worker EXCEPT ![w] = wk]
  BY DEF CommitFile, TypeInv, TypeOK
<1>8. UNCHANGED <<api, crashes, faults>>
  BY DEF CommitFile, faultVars
<1> HIDE DEF wk
<1> QED BY <1>3, <1>4, <1>5, <1>6, <1>7, <1>8, WorkersFit DEF TypeInv, TypeOK

LEMMA TypeStep == TypeInv /\ [Next]_vars => TypeInv'
<1> SUFFICES ASSUME TypeInv, [Next]_vars PROVE TypeInv'
  OBVIOUS
<1> USE DEF ledgerVars, faultVars
<1>0. TypeOK /\ \A w \in Worker : WorkerFits(worker[w])
  BY WorkerType DEF TypeInv
<1>1. ASSUME NEW q \in Request, User(q) PROVE TypeInv'
  <2>1. \A r \in Run : runs[r] \in RunRow
    BY <1>0 DEF TypeOK
  <2>2. CASE CheckStart(q)
    BY <1>0, <2>2 DEF CheckStart, TypeInv, TypeOK, FileInHand, RequestState
  <2>3. CASE InsertRun(q)
    <3>1. NewRun("queued") \in RunRow
      BY DEF NewRun, RunRow, ActiveStatus
    <3>2. runs' \in [Run -> RunRow]
      BY <1>0, <2>3, <3>1 DEF InsertRun, TypeOK
    <3> QED BY <1>0, <2>3, <3>2 DEF InsertRun, TypeInv, TypeOK, FileInHand, RequestState, Idle
  <2>4. CASE WriteCancel(q)
    <3>1. runs' \in [Run -> RunRow]
      BY <1>0, <2>4 DEF WriteCancel, TypeOK, RunRow
    <3> QED BY <1>0, <2>4, <3>1 DEF WriteCancel, TypeInv, TypeOK, FileInHand, RequestState, Idle
  <2>5. ASSUME NEW r \in Run, CheckCancel(q, r) PROVE TypeInv'
    BY <1>0, <2>5 DEF CheckCancel, TypeInv, TypeOK, FileInHand, RequestState
  <2> QED BY <1>1, <2>2, <2>3, <2>4, <2>5 DEF User
<1>2. ASSUME NEW w \in Worker, NEW r \in Run, FindQueuedRun(w, r) PROVE TypeInv'
  <2> DEFINE wk == [At("found") EXCEPT !.run = r]
  <2>1. WorkerFits(wk)
    BY HasFits
  <2>2. worker' = [worker EXCEPT ![w] = wk] /\ UNCHANGED <<runs, rows, held, session, api, crashes, faults>>
    BY <1>2 DEF FindQueuedRun
  <2> HIDE DEF wk
  <2> QED BY <1>0, <2>1, <2>2, TypeFrame DEF TypeOK
<1>3. ASSUME NEW w \in Worker, ClaimRun(w) PROVE TypeInv'
  <2> DEFINE r == worker[w].run  wk == [worker[w] EXCEPT !.step = "claimed"]
  <2>1. r \in Run /\ worker[w].step = "found" /\ UNCHANGED <<rows, held, session, api, crashes, faults>>
    BY <1>0, <1>3 DEF ClaimRun, WorkerFits, WorkerState
  <2>2. WorkerFits(wk)
    BY <1>0, <2>1 DEF WorkerFits, WorkerState, WorkerStep, NotInFile
  <2>3. CASE /\ runs' = [runs EXCEPT ![r].status = "running"]
             /\ worker' = [worker EXCEPT ![w].step = "claimed"]
    <3>1. runs' \in [Run -> RunRow]
      BY <1>0, <2>1, <2>3 DEF TypeOK, RunRow, ActiveStatus
    <3>2. worker' = [worker EXCEPT ![w] = wk]
      BY <1>0, <2>3 DEF TypeOK
    <3> HIDE DEF wk, r
    <3> QED BY <2>1, <2>2, <3>1, <3>2, TypeFrame
  <2>4. CASE worker' = [worker EXCEPT ![w] = At("idle")] /\ UNCHANGED runs
    BY <1>0, <2>1, <2>4, AtFits, TypeFrame DEF TypeOK
  <2> QED BY <1>3, <2>3, <2>4 DEF ClaimRun
<1>4. ASSUME NEW w \in Worker, LoadRun(w) PROVE TypeInv'
  <2>1. worker[w].run \in Run /\ runs[worker[w].run] \in RunRow
    BY <1>0, <1>4 DEF LoadRun, WorkerFits, WorkerState, TypeOK
  <2>2. [runs[worker[w].run] EXCEPT !.cancel = FALSE] \in RunRow
    BY <2>1 DEF RunRow
  <2>3. WorkerFits([worker[w] EXCEPT !.step = IF worker[w].step = "claimed" THEN "listing" ELSE "between",
                                     !.loaded = [runs[worker[w].run] EXCEPT !.cancel = FALSE]])
    BY <1>0, <1>4, <2>2 DEF LoadRun, WorkerFits, WorkerState, WorkerStep, NotInFile
  <2>4. worker' = [worker EXCEPT ![w] =
                     [worker[w] EXCEPT !.step = IF worker[w].step = "claimed" THEN "listing" ELSE "between",
                                       !.loaded = [runs[worker[w].run] EXCEPT !.cancel = FALSE]]]
    BY <1>0, <1>4 DEF LoadRun, TypeOK
  <2>5. UNCHANGED <<runs, rows, held, session, api, crashes, faults>>
    BY <1>4 DEF LoadRun
  <2> QED BY <1>0, <2>3, <2>4, <2>5, TypeFrame DEF TypeOK
<1>5. ASSUME NEW w \in Worker, ListFiles(w) PROVE TypeInv'
  <2>1. PICK listing \in Listing :
           /\ runs' = [runs EXCEPT ![worker[w].run].found =
                          Assigned(@, worker[w].loaded.found, Cardinality(listing))]
           /\ worker' = [worker EXCEPT ![w].step = "committed", ![w].loaded = NotLoaded, ![w].todo = listing]
    BY <1>5 DEF ListFiles
  <2> DEFINE wk == [worker[w] EXCEPT !.step = "committed", !.loaded = NotLoaded, !.todo = listing]
             n == Assigned(runs[worker[w].run].found, worker[w].loaded.found, Cardinality(listing))
  <2>2. Cardinality(listing) \in Nat /\ listing \subseteq File
    BY RunAssumption, FS_Subset, FS_CardinalityType
  <2>3. worker[w].run \in Run /\ runs[worker[w].run] \in RunRow
    BY <1>0, <1>5 DEF ListFiles, WorkerFits, WorkerState, TypeOK
  <2>4. n \in Nat
    BY <2>2, <2>3 DEF Assigned, RunRow
  <2>5. runs' = [runs EXCEPT ![worker[w].run] = [runs[worker[w].run] EXCEPT !.found = n]]
    BY <1>0, <2>1, <2>3 DEF TypeOK
  <2> HIDE DEF n
  <2>6. runs' \in [Run -> RunRow]
    <3>1. [runs[worker[w].run] EXCEPT !.found = n] \in RunRow
      BY <2>3, <2>4, RunTypes
    <3> QED BY <1>0, <2>3, <2>5, <3>1 DEF TypeOK
  <2>7. WorkerFits(wk)
    BY <1>0, <1>5, <2>2 DEF ListFiles, WorkerFits, WorkerState, WorkerStep, NotInFile, NotLoaded, NewRun, RunRow
  <2>8. worker' = [worker EXCEPT ![w] = wk]
    BY <1>0, <2>1 DEF TypeOK
  <2>9. UNCHANGED <<rows, held, session, api, crashes, faults>>
    BY <1>5 DEF ListFiles
  <2> HIDE DEF wk
  <2> QED BY <2>6, <2>7, <2>8, <2>9, TypeFrame
<1>6. ASSUME NEW w \in Worker,
             CancelRun(w) \/ ListingFails(w) \/ CompleteRun(w) \/ FailRun(w) \/ FailStaleRun(w)
      PROVE  TypeInv'
  <2>1. worker[w].run # NoRun
    BY <1>0, <1>6 DEF CancelRun, ListingFails, CompleteRun, FailRun, FailStaleRun, WorkerFits
  <2>2. \E s \in FinalStatus : EndRun(w, s)
    BY <1>6 DEF CancelRun, ListingFails, CompleteRun, FailRun, FailStaleRun, FinalStatus, CompletedStatus
  <2>3. /\ runs' \in [Run -> RunRow]
        /\ WorkerFits(At("idle")) /\ worker' = [worker EXCEPT ![w] = At("idle")]
    BY <2>1, <2>2, EndRunType
  <2>4. /\ held' \subseteq Content /\ session' \in [Worker -> SUBSET Content]
        /\ UNCHANGED <<rows, api, crashes, faults>>
    BY <1>0, <1>6 DEF CancelRun, ListingFails, CompleteRun, FailRun, FailStaleRun, TypeOK
  <2> QED BY <1>0, <2>3, <2>4, WorkersFit DEF TypeInv, TypeOK
<1>7. ASSUME NEW w \in Worker, NEW f \in File, BeginFile(w, f) PROVE TypeInv'
  <2> DEFINE wk == [worker[w] EXCEPT !.step = "file", !.todo = worker[w].todo \ {f}, !.file = f]
  <2>1. WorkerFits(wk)
    BY <1>0, <1>7 DEF BeginFile, WorkerFits, WorkerState, WorkerStep, NotInFile
  <2>2. worker' = [worker EXCEPT ![w] = wk] /\ UNCHANGED <<runs, rows, held, session, api, crashes, faults>>
    BY <1>0, <1>7 DEF BeginFile, TypeOK
  <2> HIDE DEF wk
  <2> QED BY <1>0, <2>1, <2>2, TypeFrame DEF TypeOK
<1>8. ASSUME NEW w \in Worker, FailFile(w) \/ SkipFile(w) \/ ProcessFile(w) PROVE TypeInv'
  BY <1>8, CommitFileType DEF FailFile, SkipFile, ProcessFile, FileOutcome
<1>9. ASSUME NEW w \in Worker, WriteStatement(w) PROVE TypeInv'
  <2> DEFINE wk == [worker[w] EXCEPT !.step = "written"]
  <2>1. WorkerFits(wk)
    BY <1>0, <1>9 DEF WriteStatement, WorkerFits, WorkerState, WorkerStep, NotInFile
  <2>2. worker' = [worker EXCEPT ![w] = wk]
    BY <1>0, <1>9 DEF WriteStatement, TypeOK
  <2>3. worker[w].file \in File
    BY <1>0, <1>9 DEF WriteStatement, WorkerFits
  <2>4. session' \in [Worker -> SUBSET Content]
    BY <1>0, <1>9, <2>3, RunAssumption DEF WriteStatement, TypeOK
  <2> HIDE DEF wk
  <2> QED BY <1>0, <1>9, <2>1, <2>2, <2>4, WorkersFit DEF WriteStatement, TypeInv, TypeOK
<1>10. ASSUME NEW w \in Worker, StatementRefused(w) \/ FileRaises(w) PROVE TypeInv'
  <2> DEFINE wk == [worker[w] EXCEPT !.step = "failing"]
  <2>1. WorkerFits(wk)
    BY <1>0, <1>10 DEF StatementRefused, FileRaises, WorkerFits, WorkerState, WorkerStep, NotInFile
  <2>2. worker' = [worker EXCEPT ![w] = wk]
    BY <1>0, <1>10 DEF StatementRefused, FileRaises, FailRunFrom, TypeOK
  <2>3. session' \in [Worker -> SUBSET Content]
    BY <1>0, <1>10 DEF StatementRefused, FileRaises, FailRunFrom, RolledBack, TypeOK
  <2>4. /\ faults' \in 0..MaxFaults /\ crashes' = crashes
        /\ UNCHANGED <<runs, rows, held, api>>
    BY <1>0, <1>10, RunAssumption DEF StatementRefused, FileRaises, FailRunFrom, TypeOK
  <2> HIDE DEF wk
  <2> QED BY <1>0, <2>1, <2>2, <2>3, <2>4, WorkersFit DEF TypeInv, TypeOK
<1>11. ASSUME NEW w \in Worker, RunRaises(w) \/ Crash(w) PROVE TypeInv'
  <2>1. \E s \in {"down", "idle"} : worker' = [worker EXCEPT ![w] = At(s)]
    BY <1>11 DEF RunRaises, Crash
  <2>2. session' \in [Worker -> SUBSET Content]
    BY <1>0, <1>11 DEF RunRaises, Crash, TypeOK
  <2>3. faults' \in 0..MaxFaults /\ crashes' \in 0..MaxCrashes /\ UNCHANGED <<runs, rows, held, api>>
    BY <1>0, <1>11, RunAssumption DEF RunRaises, Crash, TypeOK
  <2> QED BY <1>0, <2>1, <2>2, <2>3, AtFits, WorkersFit DEF TypeInv, TypeOK
<1>12. ASSUME NEW w \in Worker, StartWorker(w) PROVE TypeInv'
  <2>1. PICK wk : WorkerFits(wk) /\ worker' = [worker EXCEPT ![w] = wk]
    BY <1>12, AtFits, HasFits DEF StartWorker, ActiveRuns
  <2>2. UNCHANGED <<runs, rows, held, session, api, crashes, faults>>
    BY <1>12 DEF StartWorker
  <2> QED BY <1>0, <2>1, <2>2, TypeFrame DEF TypeOK
<1>13. CASE UNCHANGED vars
  BY <1>13 DEF vars, TypeInv, TypeOK, FileInHand
<1> QED
  BY <1>1, <1>2, <1>3, <1>4, <1>5, <1>6, <1>7, <1>8, <1>9, <1>10, <1>11, <1>12, <1>13
  DEF Next, Processing, Failure

\* Every variable has its type, and a worker at work has a run.
THEOREM TypeCorrectness == Spec => []TypeOK
<1>1. TypeInv => TypeOK
  BY DEF TypeInv
<1> QED BY <1>1, TypeInit, TypeStep, PTL DEF Spec

----------------------------------------------------------------------------
(* The statements are those the file rows record, with or without overlap. *)

\* What a worker has flushed and not committed is the statement it has written.
SessionFits ==
    \A w \in Worker :
        session[w] = IF worker[w].step = "written" THEN {ContentOf[worker[w].file]} ELSE {}

\* Two rows do not record the same content as processed; it is held if one does.
HeldOnce ==
    /\ \A d, e \in rows :
          d.outcome = "processed" /\ e.outcome = "processed" /\ ContentOf[d.file] = ContentOf[e.file]
          => d = e
    /\ \A c \in Content :
          c \in held <=> \E e \in rows : e.outcome = "processed" /\ ContentOf[e.file] = c

HeldInv == TypeInv /\ SessionFits /\ HeldOnce

LEMMA HeldInit == Init => HeldInv
<1> SUFFICES ASSUME Init PROVE HeldInv
  OBVIOUS
<1>1. SessionFits
  BY AtFits DEF Init, SessionFits
<1>2. HeldOnce
  BY DEF Init, HeldOnce
<1> QED BY <1>1, <1>2, TypeInit DEF HeldInv

\* A step of one worker that records no file.
LEMMA HeldFrame ==
    ASSUME HeldInv, TypeInv', UNCHANGED <<rows, held>>, NEW w \in Worker,
           \A v \in Worker \ {w} : worker'[v] = worker[v] /\ session'[v] = session[v],
           \/ worker'[w].step # "written" /\ session'[w] = {}
           \/ worker'[w].step = "written" /\ session'[w] = {ContentOf[worker'[w].file]}
    PROVE  HeldInv'
<1>1. SessionFits'
  BY DEF HeldInv, SessionFits
<1> QED BY <1>1 DEF HeldInv, HeldOnce

\* What the commit of a file does to the rows, the statements and the worker.
LEMMA CommitEffect ==
    ASSUME HeldInv, NEW w \in Worker, FailFile(w) \/ SkipFile(w) \/ ProcessFile(w)
    PROVE  \E o \in FileOutcome :
              /\ CommitFile(w, o) /\ worker[w].step \in {"file", "written"}
              /\ worker[w].run \in Run /\ worker[w].file \in File
              /\ o = "processed" => ContentOf[worker[w].file] \notin held
              /\ held' = IF o = "processed" THEN held \cup {ContentOf[worker[w].file]} ELSE held
<1>0. WorkerFits(worker[w])
  BY WorkerType DEF HeldInv
<1>1. PICK o \in FileOutcome :
         /\ CommitFile(w, o)
         /\ IF o = "processed" THEN worker[w].step = "written" /\ session[w] \cap held = {}
                               ELSE worker[w].step = "file"
  BY DEF FailFile, SkipFile, ProcessFile, FileOutcome
<1>2. worker[w].step \in {"file", "written"} /\ worker[w].run \in Run /\ worker[w].file \in File
  BY <1>0, <1>1 DEF WorkerFits, WorkerState
<1>3. held' = held \cup session[w]
  BY <1>1 DEF CommitFile
<1>4. session[w] = IF o = "processed" THEN {ContentOf[worker[w].file]} ELSE {}
  BY <1>1 DEF HeldInv, SessionFits
<1> QED BY <1>1, <1>2, <1>3, <1>4

\* The commit of a file: a processed one was not held, and what it wrote now is.
LEMMA HeldCommit ==
    ASSUME HeldInv, TypeInv', NEW w \in Worker, FailFile(w) \/ SkipFile(w) \/ ProcessFile(w)
    PROVE  HeldInv'
<1>0. /\ session \in [Worker -> SUBSET Content] /\ worker \in [Worker -> WorkerState]
      /\ rows \subseteq RunFileRow
  BY DEF HeldInv, TypeInv, TypeOK
<1>1. PICK o \in FileOutcome :
         /\ CommitFile(w, o) /\ worker[w].step \in {"file", "written"}
         /\ worker[w].run \in Run /\ worker[w].file \in File
         /\ o = "processed" => ContentOf[worker[w].file] \notin held
         /\ held' = IF o = "processed" THEN held \cup {ContentOf[worker[w].file]} ELSE held
  BY CommitEffect
<1> DEFINE f == worker[w].file
           row == [run |-> worker[w].run, file |-> f, by |-> w, outcome |-> o]
<1>2. rows' = rows \cup {row} /\ row.file = f /\ row.outcome = o
  BY <1>1 DEF CommitFile
<1>3. SessionFits'
  <2>1. /\ worker'[w].step = "committed" /\ session'[w] = {}
        /\ \A v \in Worker \ {w} : worker'[v] = worker[v] /\ session'[v] = session[v]
    BY <1>0, <1>1 DEF CommitFile, WorkerState
  <2> QED BY <2>1 DEF HeldInv, SessionFits
<1>4. HeldOnce'
  <2> HIDE DEF row
  <2>1. CASE o # "processed"
    BY <1>1, <1>2, <2>1 DEF HeldInv, HeldOnce
  <2>2. CASE o = "processed"
    <3>1. \A e \in rows : e.outcome = "processed" => ContentOf[e.file] # ContentOf[f]
      BY <1>1, <2>2, RunAssumption DEF HeldInv, HeldOnce
    <3>2. ASSUME NEW d \in rows', NEW e \in rows', d.outcome = "processed", e.outcome = "processed",
                 ContentOf[d.file] = ContentOf[e.file]
          PROVE  d = e
      BY <1>2, <3>1, <3>2 DEF HeldInv, HeldOnce
    <3>3. ASSUME NEW c \in Content
          PROVE  c \in held' <=> \E e \in rows' : e.outcome = "processed" /\ ContentOf[e.file] = c
      BY <1>1, <1>2, <2>2 DEF HeldInv, HeldOnce
    <3> QED BY <3>2, <3>3 DEF HeldOnce
  <2> QED BY <2>1, <2>2
<1> QED BY <1>3, <1>4 DEF HeldInv

\* A worker that steps with nothing written flushes nothing and records nothing.
Unwritten(w) ==
    \/ \E r \in Run : FindQueuedRun(w, r)
    \/ ClaimRun(w) \/ LoadRun(w) \/ ListFiles(w) \/ StartWorker(w)
    \/ CancelRun(w) \/ ListingFails(w) \/ CompleteRun(w) \/ FailRun(w) \/ FailStaleRun(w)
    \/ \E f \in File : BeginFile(w, f)

LEMMA UnwrittenStep ==
    ASSUME HeldInv, NEW w \in Worker, Unwritten(w)
    PROVE  /\ UNCHANGED <<rows, held, session>>
           /\ session[w] = {} /\ worker'[w].step # "written"
           /\ \A v \in Worker \ {w} : worker'[v] = worker[v]
<1>0. worker \in [Worker -> WorkerState] /\ session \in [Worker -> SUBSET Content]
  BY DEF HeldInv, TypeInv, TypeOK
<1>1. worker[w].step # "written"
  BY DEF Unwritten, FindQueuedRun, ClaimRun, LoadRun, ListFiles, StartWorker, CancelRun,
         ListingFails, CompleteRun, FailRun, FailStaleRun, BeginFile
<1>2. session[w] = {}
  BY <1>1 DEF HeldInv, SessionFits
<1>3. UNCHANGED <<rows, held, session>>
  BY <1>0, <1>2 DEF Unwritten, FindQueuedRun, ClaimRun, LoadRun, ListFiles, StartWorker, CancelRun,
         ListingFails, CompleteRun, FailRun, FailStaleRun, BeginFile, EndRun, ledgerVars
<1>4. worker'[w].step # "written" /\ \A v \in Worker \ {w} : worker'[v] = worker[v]
  <2>1. CASE LoadRun(w)
    BY <1>0, <2>1 DEF LoadRun, WorkerState
  <2>2. CASE ListFiles(w)
    BY <1>0, <2>2 DEF ListFiles, WorkerState
  <2>3. CASE \E f \in File : BeginFile(w, f)
    BY <1>0, <2>3 DEF BeginFile, WorkerState
  <2>4. CASE ClaimRun(w)
    BY <1>0, <2>4, AtFits DEF ClaimRun, WorkerState
  <2>5. ASSUME NEW wk, wk.step # "written", worker' = [worker EXCEPT ![w] = wk]
        PROVE  worker'[w].step # "written" /\ \A v \in Worker \ {w} : worker'[v] = worker[v]
    BY <1>0, <2>5
  <2>7. ASSUME NEW r \in Run, FindQueuedRun(w, r)
        PROVE  worker'[w].step # "written" /\ \A v \in Worker \ {w} : worker'[v] = worker[v]
    <3>1. [At("found") EXCEPT !.run = r].step # "written"
      BY HasFits
    <3> QED BY <2>5, <2>7, <3>1 DEF FindQueuedRun
  <2>8. CASE StartWorker(w)
    <3>1. At("idle").step # "written" /\ \A r \in Run : [At("recovering") EXCEPT !.run = r].step # "written"
      BY AtFits, HasFits
    <3> QED BY <2>5, <2>8, <3>1 DEF StartWorker, ActiveRuns
  <2>6. CASE CancelRun(w) \/ ListingFails(w) \/ CompleteRun(w) \/ FailRun(w) \/ FailStaleRun(w)
    BY <1>0, <2>6, AtFits DEF CancelRun, ListingFails, CompleteRun, FailRun, FailStaleRun, EndRun
  <2> QED BY <2>1, <2>2, <2>3, <2>4, <2>6, <2>7, <2>8 DEF Unwritten
<1> QED BY <1>2, <1>3, <1>4

LEMMA HeldStep == HeldInv /\ [Next]_vars => HeldInv'
<1> SUFFICES ASSUME HeldInv, [Next]_vars PROVE HeldInv'
  OBVIOUS
<1> USE DEF ledgerVars, faultVars
<1>0. /\ TypeInv' /\ worker \in [Worker -> WorkerState] /\ session \in [Worker -> SUBSET Content]
  BY TypeStep DEF HeldInv, TypeInv, TypeOK
<1>1. ASSUME NEW q \in Request, User(q) PROVE HeldInv'
  <2>1. UNCHANGED <<rows, held, worker, session>>
    BY <1>1 DEF User, CheckStart, InsertRun, WriteCancel, CheckCancel
  <2> QED BY <1>0, <2>1 DEF HeldInv, SessionFits, HeldOnce
<1>2. ASSUME NEW w \in Worker, Unwritten(w) PROVE HeldInv'
  BY <1>0, <1>2, UnwrittenStep, HeldFrame
<1>3. ASSUME NEW w \in Worker, FailFile(w) \/ SkipFile(w) \/ ProcessFile(w) PROVE HeldInv'
  BY <1>0, <1>3, HeldCommit
<1>4. ASSUME NEW w \in Worker, WriteStatement(w) PROVE HeldInv'
  <2>1. /\ worker'[w].step = "written" /\ worker'[w].file = worker[w].file /\ UNCHANGED <<rows, held>>
        /\ session'[w] = {ContentOf[worker[w].file]}
        /\ \A v \in Worker \ {w} : worker'[v] = worker[v] /\ session'[v] = session[v]
    BY <1>0, <1>4 DEF WriteStatement, WorkerState
  <2> QED BY <1>0, <2>1, HeldFrame
<1>5. ASSUME NEW w \in Worker, StatementRefused(w) \/ FileRaises(w) PROVE HeldInv'
  <2>1. /\ worker'[w].step = "failing" /\ UNCHANGED <<rows, held>> /\ session'[w] = {}
        /\ \A v \in Worker \ {w} : worker'[v] = worker[v] /\ session'[v] = session[v]
    BY <1>0, <1>5 DEF StatementRefused, FileRaises, FailRunFrom, RolledBack, WorkerState
  <2> QED BY <1>0, <2>1, HeldFrame
<1>6. ASSUME NEW w \in Worker, RunRaises(w) \/ Crash(w) PROVE HeldInv'
  <2>1. /\ UNCHANGED <<rows, held>> /\ session'[w] = {}
        /\ \E s \in {"down", "idle"} : worker' = [worker EXCEPT ![w] = At(s)]
        /\ \A v \in Worker \ {w} : session'[v] = session[v]
    BY <1>0, <1>6 DEF RunRaises, Crash
  <2> QED BY <1>0, <2>1, AtFits, HeldFrame
<1>7. CASE UNCHANGED vars
  BY <1>0, <1>7 DEF vars, HeldInv, SessionFits, HeldOnce
<1> QED
  BY <1>1, <1>2, <1>3, <1>4, <1>5, <1>6, <1>7 DEF Next, Processing, Failure, Unwritten

\* A content is held exactly when one row of all records it as processed, also
\* while two workers ingest the same folder, in two runs or in one that both have
\* claimed: the unique content hash refuses the second (orchestrator/pipeline.py,
\* _process_one_file).
THEOREM StatementsFollowRows == Spec => []StatementsMatchRows
<1>1. HeldInv => StatementsMatchRows
  <2> SUFFICES ASSUME HeldInv, NEW c \in Content
               PROVE  Cardinality({e \in rows : ContentOf[e.file] = c /\ e.outcome = "processed"})
                         = IF c \in held THEN 1 ELSE 0
    BY DEF StatementsMatchRows
  <2> DEFINE P == {e \in rows : ContentOf[e.file] = c /\ e.outcome = "processed"}
  <2>1. CASE c \notin held
    <3>1. P = {}
      BY <2>1 DEF HeldInv, HeldOnce
    <3> QED BY <2>1, <3>1, FS_EmptySet
  <2>2. CASE c \in held
    <3>1. PICK d \in rows : d.outcome = "processed" /\ ContentOf[d.file] = c
      BY <2>2 DEF HeldInv, HeldOnce
    <3>2. P = {d}
      BY <3>1 DEF HeldInv, HeldOnce
    <3> HIDE DEF P
    <3>3. Cardinality(P) = 1
      BY <3>2, FS_Singleton
    <3> QED BY <2>2, <3>3 DEF P
  <2> QED BY <2>1, <2>2
<1> QED BY <1>1, HeldInit, HeldStep, PTL DEF Spec

----------------------------------------------------------------------------
(* When no worker starts beside another, the counters are those of the rows. *)

\* What the tables hold: rows only of runs that were claimed, one for a file of a
\* run, as many of each outcome as the run's counters say.
Total(row) == row.processed + row.skipped + row.failed
SameCounters(a, b) ==
    a.found = b.found /\ a.processed = b.processed /\ a.skipped = b.skipped /\ a.failed = b.failed
Tally(r, o) == {e \in rows : e.run = r /\ e.outcome = o}

OnlyClaimed == \A e \in rows : runs[e.run].status \notin {"none", "queued"}
OneRow == \A d, e \in rows : d.run = e.run /\ d.file = e.file => d = e
Counted ==
    \A r \in Run : /\ runs[r].processed = Cardinality(Tally(r, "processed"))
                   /\ runs[r].skipped = Cardinality(Tally(r, "skipped"))
                   /\ runs[r].failed = Cardinality(Tally(r, "failed"))
FoundAtEnd == \A r \in Run : runs[r].status \in CompletedStatus => runs[r].found = Total(runs[r])

Table == IsFiniteSet(rows) /\ OnlyClaimed /\ OneRow /\ Counted /\ FoundAtEnd

\* What a worker has in hand: a run in the status the step expects, a copy of it
\* that is still right, and files that have no row yet.
Started == {"claimed", "listing", "committed", "between", "file", "written", "failing"}
Loaded == {"listing", "between", "file", "written"}
InFiles == {"committed", "between", "file", "written"}
Remaining(wk) == wk.todo \cup ({wk.file} \cap File)

Hand(w) ==
    /\ worker[w].step = "found" => runs[worker[w].run].status = "queued"
    /\ worker[w].step = "recovering" => runs[worker[w].run].status \in ActiveStatus
    /\ worker[w].step \in Started => runs[worker[w].run].status = "running"
    /\ worker[w].loaded.status \in {"none", "running"}
    /\ worker[w].step \in Loaded => SameCounters(worker[w].loaded, runs[worker[w].run])
    /\ worker[w].step \in {"claimed", "listing"} => \A e \in rows : e.run # worker[w].run
    /\ worker[w].step \in InFiles =>
          /\ \A e \in rows : e.run = worker[w].run => e.file \notin Remaining(worker[w])
          /\ runs[worker[w].run].found = Total(runs[worker[w].run]) + Cardinality(Remaining(worker[w]))

\* One run is active and one worker is up.
OneActive == \A q, r \in ActiveRuns : q = r
OneWorker == \A v, w \in Worker : v # w => worker[v].step = "down" \/ worker[w].step = "down"

SoloInv == HeldInv /\ Table /\ OneActive /\ OneWorker /\ \A w \in Worker : Hand(w)

LEMMA SoloInit == Init => SoloInv
<1> SUFFICES ASSUME Init PROVE SoloInv
  OBVIOUS
<1>1. /\ \A w \in Worker : worker[w].step = "down" /\ worker[w].loaded.status = "none"
      /\ \A r \in Run : /\ runs[r].status = "none"
                        /\ runs[r].processed = 0 /\ runs[r].skipped = 0 /\ runs[r].failed = 0
      /\ rows = {}
  BY AtFits DEF Init, NewRun
<1>2. \A w \in Worker : Hand(w)
  BY <1>1 DEF Hand, Started, Loaded, InFiles
<1>3. Table
  <2>1. \A r \in Run, o \in FileOutcome : Tally(r, o) = {}
    BY <1>1 DEF Tally
  <2>2. Counted
    BY <1>1, <2>1, FS_EmptySet DEF Counted, FileOutcome
  <2> QED BY <1>1, <2>2, FS_EmptySet DEF Table, OnlyClaimed, OneRow, FoundAtEnd, CompletedStatus
<1>4. OneActive /\ OneWorker
  BY <1>1 DEF OneActive, OneWorker, ActiveRuns, ActiveStatus
<1> QED BY <1>2, <1>3, <1>4, HeldInit DEF SoloInv

\* The rows stay, the counters too, and a run changes its status only by being
\* claimed or by an end that its counters justify.
LEMMA TableFrame ==
    ASSUME Table, UNCHANGED rows, rows \subseteq RunFileRow,
           \A r \in Run : /\ SameCounters(runs'[r], runs[r])
                          /\ \/ runs'[r].status = runs[r].status
                             \/ /\ runs'[r].status \notin {"none", "queued"}
                                /\ runs'[r].status \in CompletedStatus => runs[r].found = Total(runs[r])
    PROVE  Table'
<1>1. Counted'
  BY DEF Table, Counted, SameCounters, Tally
<1>2. FoundAtEnd'
  BY DEF Table, FoundAtEnd, SameCounters, Total
<1>3. OnlyClaimed' /\ OneRow'
  BY DEF Table, OnlyClaimed, OneRow, RunFileRow
<1> QED BY <1>1, <1>2, <1>3 DEF Table

\* The other workers are down: it is enough to look at the one that steps.
LEMMA SoloFrame ==
    ASSUME SoloInv, HeldInv', Table', OneActive', NEW w \in Worker, Hand(w)',
           worker[w].step # "down" \/ \A v \in Worker : worker[v].step = "down",
           \A v \in Worker \ {w} : worker'[v] = worker[v]
    PROVE  SoloInv'
<1>1. \A v \in Worker \ {w} : worker[v].step = "down" /\ worker'[v].step = "down"
  BY DEF SoloInv, OneWorker
<1>2. OneWorker'
  BY <1>1 DEF OneWorker
<1>3. ASSUME NEW v \in Worker PROVE Hand(v)'
  <2>1. CASE v = w
    BY <2>1
  <2>2. CASE v # w
    <3>1. worker'[v].step = "down" /\ worker'[v].loaded = worker[v].loaded
      BY <1>1, <2>2
    <3>2. worker[v].loaded.status \in {"none", "running"}
      BY DEF SoloInv, Hand
    <3> QED BY <3>1, <3>2 DEF Hand, Started, Loaded, InFiles
  <2> QED BY <2>1, <2>2
<1> QED BY <1>2, <1>3 DEF SoloInv

\* A worker that lets go of its run, or gets no further, has a hand that is right.
LEMMA EmptyHand ==
    ASSUME NEW w \in Worker, worker' = [worker EXCEPT ![w] = At("idle")] \/ worker' = [worker EXCEPT ![w] = At("down")],
           worker \in [Worker -> WorkerState]
    PROVE  /\ Hand(w)' /\ worker'[w].run = NoRun
           /\ \A v \in Worker \ {w} : worker'[v] = worker[v]
<1>1. /\ worker'[w].step \in {"idle", "down"} /\ worker'[w].loaded.status = "none"
      /\ worker'[w].run = NoRun /\ \A v \in Worker \ {w} : worker'[v] = worker[v]
  BY AtFits
<1> QED BY <1>1 DEF Hand, Started, Loaded, InFiles

LEMMA SoloTypes ==
    ASSUME SoloInv
    PROVE  /\ TypeInv /\ runs \in [Run -> RunRow] /\ worker \in [Worker -> WorkerState]
           /\ rows \subseteq RunFileRow
           /\ \A w \in Worker : /\ WorkerFits(worker[w]) /\ Hand(w) /\ worker[w].loaded \in RunRow
                                /\ worker[w].step \notin {"down", "idle"} => worker[w].run \in Run
BY WorkerType DEF SoloInv, HeldInv, TypeInv, TypeOK, WorkerFits, WorkerState

\* A step of the users: the workers and the rows stay.
LEMMA UserSolo ==
    ASSUME SoloInv, HeldInv', NEW q \in Request, User(q)
    PROVE  SoloInv'
<1> USE DEF ledgerVars, faultVars
<1>0. /\ runs \in [Run -> RunRow] /\ worker \in [Worker -> WorkerState] /\ rows \subseteq RunFileRow
      /\ \A w \in Worker : Hand(w) /\ (worker[w].step \notin {"down", "idle"} => worker[w].run \in Run)
  BY SoloTypes
<1>1. UNCHANGED <<worker, rows>>
  BY DEF User, CheckStart, InsertRun, WriteCancel, CheckCancel
<1>2. CASE \A r \in Run : SameCounters(runs'[r], runs[r]) /\ runs'[r].status = runs[r].status
  <2>1. Table'
    BY <1>0, <1>1, <1>2, TableFrame DEF SoloInv
  <2>2. \A w \in Worker : Hand(w)'
    BY <1>0, <1>1, <1>2 DEF Hand, SameCounters, Total, Started, Loaded, InFiles
  <2>3. OneActive' /\ OneWorker'
    BY <1>1, <1>2 DEF SoloInv, OneActive, OneWorker, ActiveRuns
  <2> QED BY <2>1, <2>2, <2>3 DEF SoloInv
<1>3. ASSUME NEW r \in Run, runs[r].status = "none", ActiveRuns = {},
             runs' = [runs EXCEPT ![r] = NewRun("queued")]
      PROVE  SoloInv'
  <2>1. /\ runs'[r].status = "queued" /\ \A p \in Run \ {r} : runs'[p] = runs[p]
        /\ runs'[r].processed = 0 /\ runs'[r].skipped = 0 /\ runs'[r].failed = 0
    BY <1>0, <1>3 DEF NewRun
  <2>2. \A e \in rows : e.run # r /\ e.run \in Run
    BY <1>0, <1>3 DEF SoloInv, Table, OnlyClaimed, RunFileRow
  <2>3. Table'
    <3>1. \A p \in Run, o \in FileOutcome : p = r => Tally(p, o) = {}
      BY <2>2 DEF Tally
    <3>2. Counted'
      <4>1. ASSUME NEW p \in Run
            PROVE  /\ runs'[p].processed = Cardinality(Tally(p, "processed"))
                   /\ runs'[p].skipped = Cardinality(Tally(p, "skipped"))
                   /\ runs'[p].failed = Cardinality(Tally(p, "failed"))
        BY <2>1, <3>1, FS_EmptySet DEF SoloInv, Table, Counted, FileOutcome
      <4>2. \A p, o : Tally(p, o)' = Tally(p, o)
        BY <1>1 DEF Tally
      <4> QED BY <4>1, <4>2 DEF Counted
    <3>3. FoundAtEnd'
      BY <2>1 DEF SoloInv, Table, FoundAtEnd, CompletedStatus
    <3> QED BY <1>1, <2>1, <2>2, <3>2, <3>3 DEF SoloInv, Table, OnlyClaimed, OneRow
  <2>4. \A w \in Worker : worker[w].step \in {"down", "idle"}
    <3>1. \A p \in Run : runs[p].status \notin ActiveStatus
      BY <1>3 DEF ActiveRuns
    <3> QED BY <1>0, <3>1 DEF Hand, Started, ActiveStatus, WorkerState, WorkerStep
  <2>5. \A w \in Worker : Hand(w)'
    BY <1>0, <1>1, <2>4 DEF Hand, Started, Loaded, InFiles
  <2>6. OneActive' /\ OneWorker'
    BY <1>1, <1>3, <2>1 DEF SoloInv, OneActive, OneWorker, ActiveRuns
  <2> QED BY <2>3, <2>5, <2>6 DEF SoloInv
<1>4. CASE runs' = runs
  BY <1>2, <1>4 DEF SameCounters
<1>5. CASE WriteCancel(q)
  <2>1. \A r \in Run : SameCounters(runs'[r], runs[r]) /\ runs'[r].status = runs[r].status
    BY <1>0, <1>5 DEF WriteCancel, SameCounters, RunRow
  <2> QED BY <1>2, <2>1
<1> QED BY <1>3, <1>4, <1>5 DEF User, CheckStart, InsertRun, CheckCancel

\* A worker finds, starts or goes on: no run and no row changes.
Onward(w) ==
    \/ \E r \in Run : FindQueuedRun(w, r)
    \/ StartWorker(w) \/ LoadRun(w) \/ \E f \in File : BeginFile(w, f)
    \/ WriteStatement(w) \/ StatementRefused(w) \/ FileRaises(w) \/ RunRaises(w) \/ Crash(w)

LEMMA OnwardHand ==
    ASSUME SoloInv, NEW w \in Worker, Onward(w), ~RollingUpdate
    PROVE  /\ UNCHANGED <<runs, rows, held>> /\ Hand(w)'
           /\ worker[w].step # "down" \/ \A v \in Worker : worker[v].step = "down"
           /\ \A v \in Worker \ {w} : worker'[v] = worker[v]
<1> USE DEF ledgerVars, faultVars
<1>0. /\ runs \in [Run -> RunRow] /\ worker \in [Worker -> WorkerState] /\ rows \subseteq RunFileRow
      /\ WorkerFits(worker[w]) /\ Hand(w)
  BY SoloTypes
<1>1. UNCHANGED <<runs, rows, held>>
  BY DEF Onward, FindQueuedRun, StartWorker, LoadRun, BeginFile, WriteStatement, StatementRefused,
         FileRaises, FailRunFrom, RunRaises, Crash
<1>2. worker[w].step # "down" \/ \A v \in Worker : worker[v].step = "down"
  BY DEF Onward, FindQueuedRun, StartWorker, LoadRun, BeginFile, WriteStatement, StatementRefused,
         FileRaises, RunRaises, Crash
<1>3. CASE RunRaises(w) \/ Crash(w)
  BY <1>0, <1>1, <1>2, <1>3, EmptyHand DEF RunRaises, Crash
<1>4. ASSUME NEW r \in Run, FindQueuedRun(w, r)
      PROVE  Hand(w)' /\ \A v \in Worker \ {w} : worker'[v] = worker[v]
  <2> DEFINE wk == [At("found") EXCEPT !.run = r]
  <2>1. wk.step = "found" /\ wk.run = r /\ wk.loaded.status = "none"
    BY HasFits
  <2>2. worker' = [worker EXCEPT ![w] = wk] /\ runs'[r].status = "queued"
    BY <1>1, <1>4 DEF FindQueuedRun
  <2> HIDE DEF wk
  <2> QED BY <1>0, <2>1, <2>2 DEF Hand, Started, Loaded, InFiles
<1>5. CASE StartWorker(w)
  <2>1. CASE worker' = [worker EXCEPT ![w] = At("idle")]
    BY <1>0, <1>1, <1>2, <2>1, EmptyHand
  <2>2. ASSUME NEW r \in ActiveRuns, worker' = [worker EXCEPT ![w] = [At("recovering") EXCEPT !.run = r]]
        PROVE  Hand(w)' /\ \A v \in Worker \ {w} : worker'[v] = worker[v]
    <3> DEFINE wk == [At("recovering") EXCEPT !.run = r]
    <3>1. wk.step = "recovering" /\ wk.run = r /\ wk.loaded.status = "none"
      BY HasFits DEF ActiveRuns
    <3>2. runs'[r].status \in ActiveStatus
      BY <1>1 DEF ActiveRuns
    <3> HIDE DEF wk
    <3> QED BY <1>0, <2>2, <3>1, <3>2 DEF Hand, Started, Loaded, InFiles, wk
  <2> QED BY <1>1, <1>2, <1>5, <2>1, <2>2 DEF StartWorker
<1>6. CASE LoadRun(w)
  <2>1. /\ worker[w].step \in {"claimed", "committed"} /\ worker[w].run \in Run
        /\ worker'[w].step = IF worker[w].step = "claimed" THEN "listing" ELSE "between"
        /\ worker'[w].run = worker[w].run
        /\ worker'[w].todo = worker[w].todo /\ worker'[w].file = worker[w].file
        /\ worker'[w].loaded = [runs[worker[w].run] EXCEPT !.cancel = FALSE]
        /\ \A v \in Worker \ {w} : worker'[v] = worker[v]
    BY <1>0, <1>6 DEF LoadRun, WorkerFits, WorkerState
  <2>2. /\ worker'[w].loaded.status = runs[worker[w].run].status
        /\ SameCounters(worker'[w].loaded, runs[worker[w].run])
    BY <1>0, <2>1 DEF SameCounters, RunRow
  <2>3. runs[worker[w].run].status = "running"
    BY <1>0, <2>1 DEF Hand, Started
  <2>4. Hand(w)'
    BY <1>0, <1>1, <2>1, <2>2, <2>3 DEF Hand, Started, Loaded, InFiles, Remaining
  <2> QED BY <1>1, <1>2, <2>1, <2>4
<1>7. ASSUME NEW f \in File, BeginFile(w, f)
      PROVE  Hand(w)' /\ \A v \in Worker \ {w} : worker'[v] = worker[v]
  <2>1. /\ worker[w].step = "between" /\ worker'[w].step = "file" /\ worker'[w].run = worker[w].run
        /\ worker[w].file = NoFile /\ worker'[w].file = f /\ worker'[w].loaded = worker[w].loaded
        /\ f \in worker[w].todo /\ worker'[w].todo = worker[w].todo \ {f}
        /\ \A v \in Worker \ {w} : worker'[v] = worker[v]
    BY <1>0, <1>7 DEF BeginFile, WorkerState, WorkerFits, NotInFile
  <2>2. Remaining(worker'[w]) = Remaining(worker[w])
    BY <2>1, RunAssumption DEF Remaining
  <2> QED BY <1>0, <1>1, <2>1, <2>2 DEF Hand, Started, Loaded, InFiles
<1>8. CASE WriteStatement(w)
  <2>1. /\ worker[w].step = "file" /\ worker'[w].step = "written" /\ worker'[w].run = worker[w].run
        /\ worker'[w].file = worker[w].file /\ worker'[w].loaded = worker[w].loaded
        /\ worker'[w].todo = worker[w].todo
        /\ \A v \in Worker \ {w} : worker'[v] = worker[v]
    BY <1>0, <1>8 DEF WriteStatement, WorkerState
  <2>2. Hand(w)'
    BY <1>0, <1>1, <2>1 DEF Hand, Started, Loaded, InFiles, Remaining
  <2> QED BY <1>1, <1>2, <2>1, <2>2
<1>9. CASE StatementRefused(w) \/ FileRaises(w)
  <2>1. /\ worker'[w].step = "failing" /\ worker'[w].run = worker[w].run
        /\ worker'[w].loaded = worker[w].loaded /\ worker[w].step \in Started
        /\ \A v \in Worker \ {w} : worker'[v] = worker[v]
    BY <1>0, <1>9 DEF StatementRefused, FileRaises, FailRunFrom, WorkerState, Started
  <2>2. Hand(w)'
    BY <1>0, <1>1, <2>1 DEF Hand, Started, Loaded, InFiles
  <2> QED BY <1>1, <1>2, <2>1, <2>2
<1> QED BY <1>1, <1>2, <1>3, <1>4, <1>5, <1>6, <1>7, <1>8, <1>9 DEF Onward

\* A run ends: it was active, it gets that status, and it is completed only when its
\* counters add up to what was found.
Ends(w) == CancelRun(w) \/ ListingFails(w) \/ CompleteRun(w) \/ FailRun(w) \/ FailStaleRun(w)

LEMMA EndEffect ==
    ASSUME SoloInv, NEW w \in Worker, Ends(w)
    PROVE  \E s \in FinalStatus :
              /\ worker[w].run \in Run /\ runs[worker[w].run].status \in ActiveStatus
              /\ runs' = [runs EXCEPT ![worker[w].run].status = s]
              /\ worker' = [worker EXCEPT ![w] = At("idle")] /\ worker[w].step # "down"
              /\ UNCHANGED <<rows, held>>
              /\ s \in CompletedStatus =>
                    /\ runs[worker[w].run].found = Total(runs[worker[w].run])
                    /\ s = "completed_with_failures" <=> runs[worker[w].run].failed > 0
<1> DEFINE r == worker[w].run
<1>0. /\ runs \in [Run -> RunRow] /\ worker \in [Worker -> WorkerState]
      /\ WorkerFits(worker[w]) /\ Hand(w) /\ (worker[w].step \notin {"down", "idle"} => r \in Run)
  BY SoloTypes
<1>1. PICK s \in FinalStatus :
         /\ EndRun(w, s)
         /\ s \in CompletedStatus =>
               /\ worker[w].step = "between" /\ worker[w].todo = {}
               /\ s = IF worker[w].loaded.failed > 0 THEN "completed_with_failures" ELSE "completed"
  BY DEF Ends, CancelRun, ListingFails, CompleteRun, FailRun, FailStaleRun, FinalStatus, CompletedStatus
<1>2. worker[w].step \in {"recovering"} \cup Started
  BY DEF Ends, CancelRun, ListingFails, CompleteRun, FailRun, FailStaleRun, Started
<1>3. r \in Run /\ runs[r].status \in ActiveStatus /\ worker[w].step # "down"
  BY <1>0, <1>2 DEF Hand, Started, ActiveStatus
<1>4. Assigned(runs[r].status, worker[w].loaded.status, s) = s
  BY <1>0, <1>3 DEF Assigned, Hand, FinalStatus, CompletedStatus
<1>5. UNCHANGED <<rows, held>>
  BY UnwrittenStep DEF Ends, Unwritten, SoloInv
<1>6. ASSUME s \in CompletedStatus
      PROVE  /\ runs[r].found = Total(runs[r])
             /\ s = "completed_with_failures" <=> runs[r].failed > 0
  <2>1. worker[w].step = "between" /\ Remaining(worker[w]) = {}
    BY <1>0, <1>1, <1>6, RunAssumption DEF WorkerFits, NotInFile, Remaining
  <2>2. Cardinality(Remaining(worker[w])) = 0
    BY <2>1, FS_EmptySet
  <2>3. runs[r].found = Total(runs[r]) /\ worker[w].loaded.failed = runs[r].failed
    BY <1>0, <1>3, <2>1, <2>2 DEF Hand, InFiles, Loaded, SameCounters, Total, RunRow
  <2> QED BY <1>1, <1>6, <2>3
<1> QED BY <1>1, <1>3, <1>4, <1>5, <1>6 DEF EndRun

LEMMA EndSolo ==
    ASSUME SoloInv, HeldInv', NEW w \in Worker, Ends(w)
    PROVE  SoloInv'
<1> DEFINE r == worker[w].run
<1>0. runs \in [Run -> RunRow] /\ worker \in [Worker -> WorkerState] /\ rows \subseteq RunFileRow
  BY SoloTypes
<1>1. PICK s \in FinalStatus :
         /\ r \in Run /\ runs[r].status \in ActiveStatus
         /\ runs' = [runs EXCEPT ![r].status = s]
         /\ worker' = [worker EXCEPT ![w] = At("idle")] /\ worker[w].step # "down"
         /\ UNCHANGED <<rows, held>>
         /\ s \in CompletedStatus => runs[r].found = Total(runs[r])
  BY EndEffect
<1> HIDE DEF r
<1>2. \A q \in Run : /\ SameCounters(runs'[q], runs[q])
                     /\ runs'[q].status = IF q = r THEN s ELSE runs[q].status
  BY <1>0, <1>1 DEF SameCounters, RunRow
<1>3. s \notin {"none", "queued", "running"}
  BY DEF FinalStatus, CompletedStatus
<1>4. Table'
  BY <1>0, <1>1, <1>2, <1>3, TableFrame DEF SoloInv
<1>5. OneActive'
  BY <1>2, <1>3 DEF SoloInv, OneActive, ActiveRuns, ActiveStatus
<1> QED BY <1>0, <1>1, <1>4, <1>5, EmptyHand, SoloFrame

LEMMA ClaimSolo ==
    ASSUME SoloInv, HeldInv', NEW w \in Worker, ClaimRun(w)
    PROVE  /\ SoloInv' /\ UNCHANGED <<rows, held>>
           /\ \A r \in Run : {runs[r].status, runs'[r].status} \subseteq ActiveStatus
                             \/ runs'[r].status = runs[r].status
<1> DEFINE r == worker[w].run
<1> USE DEF ledgerVars, faultVars
<1>0. /\ runs \in [Run -> RunRow] /\ worker \in [Worker -> WorkerState] /\ rows \subseteq RunFileRow
      /\ r \in Run /\ worker[w].step = "found" /\ UNCHANGED <<rows, held>> /\ Hand(w)
  BY SoloTypes DEF ClaimRun
<1>1. runs[r].status = "queued"
  BY <1>0 DEF Hand
<1>2. CASE runs' = runs /\ worker' = [worker EXCEPT ![w] = At("idle")]
  <2>1. Table' /\ OneActive'
    BY <1>0, <1>2, TableFrame DEF SoloInv, SameCounters, OneActive, ActiveRuns
  <2> QED BY <1>0, <1>2, <2>1, EmptyHand, SoloFrame
<1>3. CASE /\ runs' = [runs EXCEPT ![r].status = "running"]
           /\ worker' = [worker EXCEPT ![w].step = "claimed"]
  <2>1. /\ worker'[w].step = "claimed" /\ worker'[w].run = r /\ worker'[w].loaded = worker[w].loaded
        /\ \A v \in Worker \ {w} : worker'[v] = worker[v]
    BY <1>0, <1>3 DEF WorkerState
  <2> HIDE DEF r
  <2>2. \A q \in Run : /\ SameCounters(runs'[q], runs[q])
                       /\ runs'[q].status = IF q = r THEN "running" ELSE runs[q].status
    BY <1>0, <1>3 DEF SameCounters, RunRow
  <2>3. Table'
    BY <1>0, <2>2, TableFrame DEF SoloInv, CompletedStatus
  <2>4. OneActive'
    BY <1>0, <1>1, <2>2 DEF SoloInv, OneActive, ActiveRuns, ActiveStatus
  <2>5. \A e \in rows : e.run # r
    BY <1>1 DEF SoloInv, Table, OnlyClaimed
  <2>6. Hand(w)'
    BY <1>0, <2>1, <2>2, <2>5 DEF Hand, Started, Loaded, InFiles
  <2>7. \A q \in Run : {runs[q].status, runs'[q].status} \subseteq ActiveStatus
                       \/ runs'[q].status = runs[q].status
    BY <1>1, <2>2 DEF ActiveStatus
  <2> QED BY <1>0, <2>1, <2>3, <2>4, <2>6, <2>7, SoloFrame
<1> QED BY <1>2, <1>3 DEF ClaimRun

LEMMA ListSolo ==
    ASSUME SoloInv, HeldInv', NEW w \in Worker, ListFiles(w)
    PROVE  /\ SoloInv' /\ UNCHANGED <<rows, held>>
           /\ \A r \in Run : runs'[r].status = runs[r].status
<1> DEFINE r == worker[w].run
<1>0. /\ runs \in [Run -> RunRow] /\ worker \in [Worker -> WorkerState] /\ rows \subseteq RunFileRow
      /\ r \in Run /\ worker[w].step = "listing" /\ UNCHANGED <<rows, held>>
      /\ Hand(w) /\ WorkerFits(worker[w])
  BY SoloTypes DEF ListFiles
<1>1. PICK listing \in Listing :
         /\ runs' = [runs EXCEPT ![r].found = Assigned(@, worker[w].loaded.found, Cardinality(listing))]
         /\ worker' = [worker EXCEPT ![w].step = "committed", ![w].loaded = NotLoaded, ![w].todo = listing]
  BY DEF ListFiles
<1>2. /\ worker'[w].step = "committed" /\ worker'[w].run = r /\ worker'[w].todo = listing
      /\ worker'[w].file = NoFile /\ worker'[w].loaded.status = "none"
      /\ \A v \in Worker \ {w} : worker'[v] = worker[v]
  BY <1>0, <1>1 DEF WorkerState, WorkerFits, NotInFile, NotLoaded, NewRun
<1>3. Assigned(runs[r].found, worker[w].loaded.found, Cardinality(listing)) = Cardinality(listing)
  BY <1>0 DEF Hand, Loaded, SameCounters, Assigned
<1>4. Remaining(worker'[w]) = listing
  BY <1>2, RunAssumption DEF Remaining
<1>5. runs[r].status = "running" /\ \A e \in rows : e.run # r
  BY <1>0 DEF Hand, Started
<1> HIDE DEF r
<1>6. /\ runs'[r].status = "running" /\ runs'[r].found = Cardinality(listing)
      /\ runs'[r].processed = runs[r].processed /\ runs'[r].skipped = runs[r].skipped
      /\ runs'[r].failed = runs[r].failed /\ \A q \in Run \ {r} : runs'[q] = runs[q]
  <2>1. runs' = [runs EXCEPT ![r].found = Cardinality(listing)]
    BY <1>1, <1>3
  <2> QED BY <1>0, <1>5, <2>1 DEF RunRow
<1>7. runs[r].processed = 0 /\ runs[r].skipped = 0 /\ runs[r].failed = 0
  <2>1. Tally(r, "processed") = {} /\ Tally(r, "skipped") = {} /\ Tally(r, "failed") = {}
    BY <1>5 DEF Tally
  <2> QED BY <1>0, <2>1, FS_EmptySet DEF SoloInv, Table, Counted
<1>8. Table'
  <2>1. Counted'
    <3>1. ASSUME NEW p \in Run
          PROVE  /\ runs'[p].processed = Cardinality(Tally(p, "processed"))
                 /\ runs'[p].skipped = Cardinality(Tally(p, "skipped"))
                 /\ runs'[p].failed = Cardinality(Tally(p, "failed"))
      BY <1>6 DEF SoloInv, Table, Counted
    <3>2. \A p, o : Tally(p, o)' = Tally(p, o)
      BY <1>0 DEF Tally
    <3> QED BY <3>1, <3>2 DEF Counted
  <2>2. FoundAtEnd'
    BY <1>6 DEF SoloInv, Table, FoundAtEnd, CompletedStatus
  <2>3. OnlyClaimed'
    BY <1>0, <1>5, <1>6 DEF SoloInv, Table, OnlyClaimed, RunFileRow
  <2> QED BY <1>0, <2>1, <2>2, <2>3 DEF SoloInv, Table, OneRow
<1>9. \A q \in Run : runs'[q].status = runs[q].status
  BY <1>5, <1>6
<1>10. OneActive'
  BY <1>9 DEF SoloInv, OneActive, ActiveRuns
<1>11. Cardinality(listing) \in Nat
  BY RunAssumption, FS_Subset, FS_CardinalityType
<1>12. Hand(w)'
  BY <1>0, <1>2, <1>4, <1>5, <1>6, <1>7, <1>11 DEF Hand, Started, Loaded, InFiles, Total
<1> QED BY <1>0, <1>2, <1>8, <1>9, <1>10, <1>12, SoloFrame

\* The counter of the outcome is one more than the copy says; the rest stays.
LEMMA RecordedFields ==
    ASSUME NEW row \in RunRow, NEW loaded \in RunRow, SameCounters(loaded, row), NEW o \in FileOutcome
    PROVE  LET new == Recorded(row, loaded, o)
           IN  /\ new.status = row.status /\ new.found = row.found
               /\ new.processed = row.processed + (IF o = "processed" THEN 1 ELSE 0)
               /\ new.skipped = row.skipped + (IF o = "skipped" THEN 1 ELSE 0)
               /\ new.failed = row.failed + (IF o = "failed" THEN 1 ELSE 0)
<1>1. CASE o = "processed"
  BY <1>1 DEF Recorded, RunRow, SameCounters
<1>2. CASE o = "skipped"
  BY <1>2 DEF Recorded, RunRow, SameCounters
<1>3. CASE o = "failed"
  BY <1>3 DEF Recorded, RunRow, SameCounters
<1> QED BY <1>1, <1>2, <1>3 DEF FileOutcome

\* A recorded file had no row in its run, and the run is still running.
LEMMA CommitAdds ==
    ASSUME SoloInv, NEW w \in Worker, NEW o \in FileOutcome, CommitFile(w, o),
           worker[w].step \in {"file", "written"}
    PROVE  \E r \in Run, f \in File, row \in RunFileRow :
              /\ r = worker[w].run /\ f = worker[w].file /\ runs[r].status = "running"
              /\ rows' = rows \cup {row} /\ row.run = r /\ row.file = f /\ row.outcome = o
              /\ \A e \in rows : e.run = r => e.file # f
              /\ \A q \in Run \ {r} : runs'[q] = runs[q]
              /\ runs'[r].status = runs[r].status /\ runs'[r].found = runs[r].found
              /\ runs'[r].processed = runs[r].processed + (IF o = "processed" THEN 1 ELSE 0)
              /\ runs'[r].skipped = runs[r].skipped + (IF o = "skipped" THEN 1 ELSE 0)
              /\ runs'[r].failed = runs[r].failed + (IF o = "failed" THEN 1 ELSE 0)
<1> DEFINE r == worker[w].run  f == worker[w].file
           row == [run |-> r, file |-> f, by |-> w, outcome |-> o]
<1>0. /\ runs \in [Run -> RunRow] /\ WorkerFits(worker[w]) /\ Hand(w)
      /\ worker[w].loaded \in RunRow /\ r \in Run /\ f \in File
  BY SoloTypes DEF WorkerFits
<1>1. runs[r].status = "running" /\ SameCounters(worker[w].loaded, runs[r])
  BY <1>0 DEF Hand, Started, Loaded
<1>2. \A e \in rows : e.run = r => e.file # f
  BY <1>0 DEF Hand, InFiles, Remaining
<1>3. /\ rows' = rows \cup {row} /\ row.run = r /\ row.file = f /\ row.outcome = o
      /\ row \in RunFileRow
  BY <1>0 DEF CommitFile, RunFileRow
<1>4. runs' = [runs EXCEPT ![r] = Recorded(runs[r], worker[w].loaded, o)]
  BY <1>0 DEF CommitFile
<1> HIDE DEF r, f, row
<1>5. runs'[r] = Recorded(runs[r], worker[w].loaded, o) /\ \A q \in Run \ {r} : runs'[q] = runs[q]
  BY <1>0, <1>4
<1>6. /\ runs'[r].status = runs[r].status /\ runs'[r].found = runs[r].found
      /\ runs'[r].processed = runs[r].processed + (IF o = "processed" THEN 1 ELSE 0)
      /\ runs'[r].skipped = runs[r].skipped + (IF o = "skipped" THEN 1 ELSE 0)
      /\ runs'[r].failed = runs[r].failed + (IF o = "failed" THEN 1 ELSE 0)
  BY <1>0, <1>1, <1>5, RecordedFields
<1>7. r = worker[w].run /\ f = worker[w].file
  BY DEF r, f
<1> QED BY <1>0, <1>1, <1>2, <1>3, <1>5, <1>6, <1>7

LEMMA CommitSolo ==
    ASSUME SoloInv, HeldInv', NEW w \in Worker, FailFile(w) \/ SkipFile(w) \/ ProcessFile(w)
    PROVE  SoloInv' /\ \A r \in Run : runs'[r].status = runs[r].status
<1>1. PICK o \in FileOutcome : CommitFile(w, o) /\ worker[w].step \in {"file", "written"}
  BY CommitEffect DEF SoloInv
<1>2. PICK r \in Run, f \in File, row \in RunFileRow :
      /\ r = worker[w].run /\ f = worker[w].file /\ runs[r].status = "running"
      /\ rows' = rows \cup {row} /\ row.run = r /\ row.file = f /\ row.outcome = o
      /\ \A e \in rows : e.run = r => e.file # f
      /\ \A q \in Run \ {r} : runs'[q] = runs[q]
      /\ runs'[r].status = runs[r].status /\ runs'[r].found = runs[r].found
      /\ runs'[r].processed = runs[r].processed + (IF o = "processed" THEN 1 ELSE 0)
      /\ runs'[r].skipped = runs[r].skipped + (IF o = "skipped" THEN 1 ELSE 0)
      /\ runs'[r].failed = runs[r].failed + (IF o = "failed" THEN 1 ELSE 0)
  BY <1>1, CommitAdds
<1>3. /\ runs \in [Run -> RunRow] /\ worker \in [Worker -> WorkerState] /\ rows \subseteq RunFileRow
      /\ WorkerFits(worker[w]) /\ Hand(w) /\ Table /\ OneActive
  BY SoloTypes DEF SoloInv
<1>4. /\ worker'[w].step = "committed" /\ worker'[w].run = r /\ worker'[w].todo = worker[w].todo
      /\ worker'[w].file = NoFile /\ worker'[w].loaded.status = "none"
      /\ \A v \in Worker \ {w} : worker'[v] = worker[v]
  BY <1>1, <1>2, <1>3 DEF CommitFile, WorkerState, NotLoaded, NewRun
<1>5. /\ Remaining(worker'[w]) = worker[w].todo /\ Remaining(worker[w]) = worker[w].todo \cup {f}
      /\ f \notin worker[w].todo /\ worker[w].todo \subseteq File
  BY <1>1, <1>2, <1>3, <1>4, RunAssumption DEF Remaining, WorkerFits, WorkerState
<1>6. \A p \in Run : runs'[p].status = runs[p].status
  BY <1>2
<1>7. Counted'
  <2>1. ASSUME NEW x \in FileOutcome
        PROVE  /\ IsFiniteSet(Tally(r, x))
               /\ Tally(r, x)' = IF x = o THEN Tally(r, x) \cup {row} ELSE Tally(r, x)
               /\ row \notin Tally(r, x)
    <3>1. IsFiniteSet(Tally(r, x))
      BY <1>3, FS_Subset DEF Table, Tally
    <3> QED BY <1>2, <3>1 DEF Tally
  <2>2. ASSUME NEW x \in FileOutcome
        PROVE  Cardinality(Tally(r, x)') = Cardinality(Tally(r, x)) + (IF x = o THEN 1 ELSE 0)
    <3> DEFINE T == Tally(r, x)
    <3>1. IsFiniteSet(T) /\ row \notin T /\ Tally(r, x)' = IF x = o THEN T \cup {row} ELSE T
      BY <2>1
    <3> HIDE DEF T
    <3>2. Cardinality(T) \in Nat /\ Cardinality(T \cup {row}) = Cardinality(T) + 1
      BY <3>1, FS_CardinalityType, FS_AddElement
    <3>3. Cardinality(Tally(r, x)') = Cardinality(T) + (IF x = o THEN 1 ELSE 0)
      BY <3>1, <3>2
    <3> QED BY <3>3 DEF T
  <2>3. \A p \in Run \ {r}, x \in FileOutcome : Tally(p, x)' = Tally(p, x)
    BY <1>2 DEF Tally
  <2>4. ASSUME NEW p \in Run
        PROVE  /\ runs'[p].processed = Cardinality(Tally(p, "processed")')
               /\ runs'[p].skipped = Cardinality(Tally(p, "skipped")')
               /\ runs'[p].failed = Cardinality(Tally(p, "failed")')
    <3>1. /\ runs[p].processed = Cardinality(Tally(p, "processed"))
          /\ runs[p].skipped = Cardinality(Tally(p, "skipped"))
          /\ runs[p].failed = Cardinality(Tally(p, "failed"))
      BY <1>3 DEF Table, Counted
    <3>2. CASE p # r
      BY <1>2, <2>3, <3>1, <3>2 DEF FileOutcome
    <3>3. CASE p = r
      BY <1>2, <2>2, <3>1, <3>3 DEF FileOutcome
    <3> QED BY <3>2, <3>3
  <2> QED BY <2>4 DEF Counted
<1>8. Table'
  <2>1. IsFiniteSet(rows')
    BY <1>2, <1>3, FS_AddElement DEF Table
  <2>2. OnlyClaimed'
    BY <1>2, <1>3 DEF Table, OnlyClaimed, RunFileRow
  <2>3. OneRow'
    BY <1>2, <1>3 DEF Table, OneRow
  <2>4. FoundAtEnd'
    BY <1>2, <1>3 DEF Table, FoundAtEnd, CompletedStatus
  <2> QED BY <1>7, <2>1, <2>2, <2>3, <2>4 DEF Table
<1>9. OneActive'
  BY <1>3, <1>6 DEF OneActive, ActiveRuns
<1>10. Hand(w)'
  <2>1. \A e \in rows' : e.run = r => e.file \notin worker[w].todo
    BY <1>1, <1>2, <1>3, <1>5 DEF Hand, InFiles
  <2>2. Cardinality(worker[w].todo) \in Nat
        /\ Cardinality(worker[w].todo \cup {f}) = Cardinality(worker[w].todo) + 1
    <3>1. IsFiniteSet(worker[w].todo)
      BY <1>5, RunAssumption, FS_Subset
    <3> QED BY <1>5, <3>1, FS_CardinalityType, FS_AddElement
  <2>3. runs[r].found = Total(runs[r]) + Cardinality(worker[w].todo \cup {f})
    BY <1>1, <1>2, <1>3, <1>5 DEF Hand, InFiles
  <2>4. runs'[r].found = Total(runs'[r]) + Cardinality(worker[w].todo)
    <3>1. Total(runs[r]) \in Nat /\ Total(runs'[r]) = Total(runs[r]) + 1
      BY <1>2, <1>3 DEF Total, RunRow, FileOutcome
    <3> QED BY <1>2, <2>2, <2>3, <3>1
  <2> QED BY <1>2, <1>4, <1>5, <2>1, <2>4 DEF Hand, Started, Loaded, InFiles
<1> QED BY <1>1, <1>4, <1>6, <1>8, <1>9, <1>10, SoloFrame

LEMMA SoloStep ==
    ASSUME SoloInv, [Next]_vars, ~RollingUpdate
    PROVE  SoloInv'
<1>0. HeldInv'
  BY HeldStep DEF SoloInv
<1>1. ASSUME NEW q \in Request, User(q) PROVE SoloInv'
  BY <1>0, <1>1, UserSolo
<1>2. ASSUME NEW w \in Worker, Onward(w) PROVE SoloInv'
  <2>1. /\ UNCHANGED <<runs, rows, held>> /\ Hand(w)'
        /\ worker[w].step # "down" \/ \A v \in Worker : worker[v].step = "down"
        /\ \A v \in Worker \ {w} : worker'[v] = worker[v]
    BY <1>2, OnwardHand
  <2>2. Table' /\ OneActive'
    BY <2>1, SoloTypes, TableFrame DEF SoloInv, SameCounters, OneActive, ActiveRuns
  <2> QED BY <1>0, <2>1, <2>2, SoloFrame
<1>3. ASSUME NEW w \in Worker, Ends(w) PROVE SoloInv'
  BY <1>0, <1>3, EndSolo
<1>4. ASSUME NEW w \in Worker, ClaimRun(w) PROVE SoloInv'
  BY <1>0, <1>4, ClaimSolo
<1>5. ASSUME NEW w \in Worker, ListFiles(w) PROVE SoloInv'
  BY <1>0, <1>5, ListSolo
<1>6. ASSUME NEW w \in Worker, FailFile(w) \/ SkipFile(w) \/ ProcessFile(w) PROVE SoloInv'
  BY <1>0, <1>6, CommitSolo
<1>7. CASE UNCHANGED vars
  BY <1>0, <1>7 DEF vars, ledgerVars, SoloInv, Table, OnlyClaimed, OneRow, Counted, Tally,
     FoundAtEnd, OneActive, ActiveRuns, OneWorker, Hand
<1> QED
  BY <1>1, <1>2, <1>3, <1>4, <1>5, <1>6, <1>7 DEF Next, Processing, Failure, Onward, Ends

\* The invariant of the workers that are replaced only when they are gone.
ReplacedInv == ~RollingUpdate /\ SoloInv

LEMMA Replaced ==
    /\ ~RollingUpdate /\ Init => ReplacedInv
    /\ ReplacedInv /\ [Next]_vars => ReplacedInv'
BY SoloInit, SoloStep DEF ReplacedInv

\* When no worker starts beside another, the counters of a run are those of its
\* file rows, and a run that completed accounts for every file it found
\* (orchestrator/repository.py, update_run_progress; orchestrator/pipeline.py).
THEOREM CountersFollowRows == ~RollingUpdate => (Spec => []CountersMatchRows)
<1>1. ReplacedInv => CountersMatchRows
  BY DEF ReplacedInv, SoloInv, Table, Counted, Tally, FoundAtEnd, Total, CountersMatchRows
<1>2. ~RollingUpdate /\ Init => ReplacedInv
  BY Replaced
<1>3. ReplacedInv /\ [Next]_vars => ReplacedInv'
  BY Replaced
<1>4. ReplacedInv /\ [][Next]_vars => []ReplacedInv
  BY <1>3, PTL
<1>5. SUFFICES ASSUME ~RollingUpdate PROVE Spec => []CountersMatchRows
  OBVIOUS
<1>6. Init => ReplacedInv
  BY <1>2, <1>5
<1> QED BY <1>1, <1>4, <1>6, PTL DEF Spec

----------------------------------------------------------------------------
(* IngestionRun implements RunLedger when no worker starts beside another. *)

\* The status the ledger sees, and the outcome it sees of a file.
Seen(row) == IF row.status \in ActiveStatus THEN "active" ELSE row.status

LEMMA OnlyOutcome ==
    ASSUME NEW S, NEW e \in S, \A d \in S : d = e
    PROVE  (CHOOSE d \in S : TRUE) = e
OBVIOUS

LEMMA OutcomeOfRow ==
    ASSUME OneRow, NEW e \in rows
    PROVE  Outcome(e.run, e.file) = e.outcome
<1> DEFINE S == RowsOf(e.run, e.file)
<1>1. e \in S /\ \A d \in S : d = e
  BY DEF OneRow, RowsOf
<1> HIDE DEF S
<1>2. S # {} /\ (CHOOSE d \in S : TRUE) = e
  BY <1>1, OnlyOutcome
<1> QED BY <1>2 DEF Outcome, S

LEMMA OutcomeFailed ==
    ASSUME Table, rows \subseteq RunFileRow, NEW r \in Run
    PROVE  runs[r].failed > 0 <=> \E f \in File : Outcome(r, f) = "failed"
<1> DEFINE T == Tally(r, "failed")
<1>1. runs[r].failed = Cardinality(T) /\ IsFiniteSet(T)
  BY FS_Subset DEF Table, Counted, Tally
<1>2. Cardinality(T) > 0 <=> T # {}
  <2> HIDE DEF T
  <2> QED BY <1>1, FS_EmptySet, FS_CardinalityType
<1>3. ASSUME NEW e \in T PROVE \E f \in File : Outcome(r, f) = "failed"
  BY OutcomeOfRow DEF Table, Tally, RunFileRow
<1>4. ASSUME NEW f \in File, Outcome(r, f) = "failed" PROVE T # {}
  <2>1. PICK e \in RowsOf(r, f) : TRUE
    BY <1>4 DEF Outcome
  <2>2. e \in rows /\ e.run = r /\ e.file = f
    BY DEF RowsOf
  <2>3. e.outcome = "failed"
    BY <1>4, <2>2, OutcomeOfRow DEF Table
  <2> QED BY <2>2, <2>3 DEF Tally
<1> QED BY <1>1, <1>2, <1>3, <1>4

LEMMA RefinesInit == Init => Ledger!Init
<1> SUFFICES ASSUME Init PROVE Ledger!Init
  OBVIOUS
<1>1. \A r \in Run : Seen(runs[r]) = "none"
  BY DEF Init, NewRun, Seen, ActiveStatus
<1>2. \A r \in Run, f \in File : Outcome(r, f) = "none"
  BY DEF Init, Outcome, RowsOf
<1> QED BY <1>1, <1>2 DEF Init, Ledger!Init, Seen

\* What the ledger sees of a step that records no file.
LEMMA SameOutcomes ==
    ASSUME UNCHANGED rows, NEW r, NEW f
    PROVE  Outcome(r, f)' = Outcome(r, f)
<1>1. RowsOf(r, f)' = RowsOf(r, f)
  BY DEF RowsOf
<1> QED BY <1>1 DEF Outcome

LEMMA RefinesStutter ==
    ASSUME UNCHANGED <<rows, held>>, \A r \in Run : Seen(runs'[r]) = Seen(runs[r])
    PROVE  UNCHANGED Ledger!vars
<1>1. \A r \in Run, f \in File : Outcome(r, f)' = Outcome(r, f)
  BY SameOutcomes
<1> QED BY <1>1 DEF Ledger!vars, Seen

LEMMA RefinesRecord ==
    ASSUME SoloInv, SoloInv', NEW w \in Worker, FailFile(w) \/ SkipFile(w) \/ ProcessFile(w)
    PROVE  \E r \in Run, f \in File : Ledger!Record(r, f)
<1>1. PICK o \in FileOutcome :
         /\ CommitFile(w, o) /\ worker[w].step \in {"file", "written"}
         /\ o = "processed" => ContentOf[worker[w].file] \notin held
         /\ held' = IF o = "processed" THEN held \cup {ContentOf[worker[w].file]} ELSE held
  BY CommitEffect DEF SoloInv
<1>2. PICK r \in Run, f \in File, row \in RunFileRow :
         /\ r = worker[w].run /\ f = worker[w].file /\ runs[r].status = "running"
         /\ rows' = rows \cup {row} /\ row.run = r /\ row.file = f /\ row.outcome = o
         /\ \A e \in rows : e.run = r => e.file # f
  BY <1>1, CommitAdds
<1>3. RowsOf(r, f) = {} /\ RowsOf(r, f)' = {row}
  BY <1>2 DEF RowsOf
<1>4. Outcome(r, f) = "none" /\ Outcome(r, f)' = o
  <2>1. (CHOOSE e \in {row} : TRUE) = row
    BY OnlyOutcome
  <2> QED BY <1>2, <1>3, <2>1 DEF Outcome
<1>5. ASSUME NEW q \in Run, NEW g \in File, q # r \/ g # f PROVE Outcome(q, g)' = Outcome(q, g)
  <2>1. RowsOf(q, g)' = RowsOf(q, g)
    BY <1>2, <1>5 DEF RowsOf
  <2> QED BY <2>1 DEF Outcome
<1>6. \A q \in Run : Seen(runs'[q]) = Seen(runs[q])
  BY CommitSolo DEF Seen, SoloInv
<1> DEFINE was == [q \in Run |-> [g \in File |-> Outcome(q, g)]]
           is == [q \in Run |-> [g \in File |-> Outcome(q, g)']]
<1>7. is = [was EXCEPT ![r][f] = o]
  BY <1>4, <1>5
<1>8. was[r][f] = "none"
  BY <1>4
<1>9. [q \in Run |-> Seen(runs'[q])] = [q \in Run |-> Seen(runs[q])] /\ Seen(runs[r]) = "active"
  BY <1>2, <1>6 DEF Seen, ActiveStatus
<1>10. Ledger!Record(r, f)
  BY <1>1, <1>2, <1>7, <1>8, <1>9 DEF Ledger!Record, Ledger!RecordedOutcome, FileOutcome, Seen
<1> QED BY <1>10

\* A request opens a run, or changes nothing that the ledger sees.
LEMMA RefinesUser ==
    ASSUME SoloInv, NEW q \in Request, User(q)
    PROVE  [Ledger!Next]_(Ledger!vars)
<1> USE DEF ledgerVars, faultVars
<1>0. runs \in [Run -> RunRow] /\ UNCHANGED <<rows, held>>
  BY SoloTypes DEF User, CheckStart, InsertRun, WriteCancel, CheckCancel
<1>1. CASE runs' = runs \/ WriteCancel(q)
  <2>1. \A r \in Run : Seen(runs'[r]) = Seen(runs[r])
    BY <1>0, <1>1 DEF WriteCancel, Seen, RunRow
  <2> QED BY <1>0, <2>1, RefinesStutter
<1>2. ASSUME NEW r \in Run, runs[r].status = "none", ActiveRuns = {},
             runs' = [runs EXCEPT ![r] = NewRun("queued")]
      PROVE  Ledger!Open(r)
  <2>1. \A p \in Run : Seen(runs[p]) # "active"
    BY <1>0, <1>2 DEF ActiveRuns, Seen, RunRow, ActiveStatus, FinalStatus, CompletedStatus
  <2>2. /\ Seen(runs[r]) = "none" /\ Seen(runs'[r]) = "active"
        /\ \A p \in Run \ {r} : Seen(runs'[p]) = Seen(runs[p])
    BY <1>0, <1>2 DEF NewRun, Seen, ActiveStatus
  <2>3. \A p \in Run, f \in File : Outcome(p, f)' = Outcome(p, f)
    BY <1>0, SameOutcomes
  <2> QED BY <1>0, <2>1, <2>2, <2>3 DEF Ledger!Open, Seen
<1> QED BY <1>1, <1>2 DEF User, CheckStart, InsertRun, CheckCancel, Ledger!Next

LEMMA RefinesClose ==
    ASSUME SoloInv, NEW w \in Worker, Ends(w)
    PROVE  \E r \in Run : Ledger!Close(r)
<1>0. runs \in [Run -> RunRow] /\ rows \subseteq RunFileRow /\ Table
  BY SoloTypes DEF SoloInv
<1>1. PICK s \in FinalStatus :
         /\ worker[w].run \in Run /\ runs[worker[w].run].status \in ActiveStatus
         /\ runs' = [runs EXCEPT ![worker[w].run].status = s]
         /\ UNCHANGED <<rows, held>>
         /\ s \in CompletedStatus => (s = "completed_with_failures" <=> runs[worker[w].run].failed > 0)
  BY EndEffect
<1>2. PICK r \in Run : r = worker[w].run
  BY <1>1
<1>3. /\ Seen(runs[r]) = "active" /\ Seen(runs'[r]) = s
      /\ \A p \in Run \ {r} : Seen(runs'[p]) = Seen(runs[p])
  BY <1>0, <1>1, <1>2 DEF Seen, RunRow, ActiveStatus, FinalStatus, CompletedStatus
<1>4. s \in CompletedStatus => (s = "completed_with_failures" <=> \E f \in File : Outcome(r, f) = "failed")
  BY <1>0, <1>1, <1>2, OutcomeFailed
<1>5. \A p \in Run, f \in File : Outcome(p, f)' = Outcome(p, f)
  BY <1>1, SameOutcomes
<1>6. s \in Ledger!FinalStatus
  BY DEF Ledger!FinalStatus, FinalStatus, CompletedStatus
<1>7. Ledger!Close(r)
  <2>1. [p \in Run |-> Seen(runs'[p])] = [[p \in Run |-> Seen(runs[p])] EXCEPT ![r] = s]
    BY <1>3
  <2>2. [p \in Run |-> [f \in File |-> Outcome(p, f)']] = [p \in Run |-> [f \in File |-> Outcome(p, f)]]
    BY <1>5
  <2>3. s \in {"completed", "completed_with_failures"} =>
           (s = "completed_with_failures" <=>
              \E f \in File : [p \in Run |-> [g \in File |-> Outcome(p, g)]][r][f] = "failed")
    BY <1>4 DEF CompletedStatus
  <2>4. [p \in Run |-> Seen(runs[p])][r] = "active"
    BY <1>3
  <2> QED BY <1>1, <1>6, <2>1, <2>2, <2>3, <2>4 DEF Ledger!Close, Seen
<1> QED BY <1>7

LEMMA RefinesStep ==
    ASSUME SoloInv, [Next]_vars, ~RollingUpdate
    PROVE  [Ledger!Next]_(Ledger!vars)
<1>1. ASSUME NEW q \in Request, User(q) PROVE [Ledger!Next]_(Ledger!vars)
  BY <1>1, RefinesUser
<1>2. ASSUME NEW w \in Worker, Onward(w) \/ ClaimRun(w) \/ ListFiles(w)
      PROVE  UNCHANGED Ledger!vars
  <2>1. UNCHANGED <<rows, held>> /\ \A r \in Run : Seen(runs'[r]) = Seen(runs[r])
    BY <1>2, HeldStep, OnwardHand, ClaimSolo, ListSolo DEF Seen, SoloInv
  <2> QED BY <2>1, RefinesStutter
<1>3. ASSUME NEW w \in Worker, Ends(w) PROVE Ledger!Next
  BY <1>3, RefinesClose DEF Ledger!Next
<1>4. ASSUME NEW w \in Worker, FailFile(w) \/ SkipFile(w) \/ ProcessFile(w) PROVE Ledger!Next
  BY <1>4, SoloStep, RefinesRecord DEF Ledger!Next
<1>5. CASE UNCHANGED vars
  BY <1>5, RefinesStutter DEF vars, ledgerVars
<1> QED BY <1>1, <1>2, <1>3, <1>4, <1>5 DEF Next, Processing, Failure, Onward, Ends

\* When a worker starts only once the one before it is down, the committed rows
\* behave as the ledger: one active run, a row and its statement together or not
\* at all, no change of a finished run (orchestrator/pipeline.py, process_run).
THEOREM RunImplementsLedger == ~RollingUpdate => (Spec => LedgerSpec)
<1>1. ~RollingUpdate /\ Init => ReplacedInv
  BY Replaced
<1>2. ReplacedInv /\ [Next]_vars => ReplacedInv'
  BY Replaced
<1>3. ReplacedInv /\ [Next]_vars => [Ledger!Next]_(Ledger!vars)
  BY RefinesStep DEF ReplacedInv
<1> QED BY <1>1, <1>2, <1>3, RefinesInit, PTL DEF Spec, LedgerSpec, Ledger!Spec
=============================================================================
