----------------------- MODULE RecurringPaymentsProofs -----------------------
(***************************************************************************)
(* Proofs about RecurringPayments, for any payments, transactions, files,  *)
(* schedules and requests: a file fails only when a request raced with it, *)
(* nothing is offered for review again, and a settled cycle stays matched. *)
(***************************************************************************)
EXTENDS RecurringPayments, FiniteSetTheorems, TLAPS

----------------------------------------------------------------------------
(* Types.                                                                  *)

\* What the worker has in hand at each step of a file.
WorkerFits ==
    /\ worker.step = "idle" => worker = AtRest
    /\ worker.step # "idle" => worker.file \in File
    /\ worker.step \in {"matching", "inserting"} => worker.txn \in Transaction
    /\ worker.step = "inserting" => worker.payment \in Payment

\* What a request holds, by what it is about to do.
RequestFits(q) ==
    /\ api[q].op \in {"approve", "reject"} => api[q].payment \in Payment /\ api[q].txn \in Transaction
    /\ api[q].op \notin {"approve", "reject"} => api[q].txn = NoTransaction
    /\ api[q].op \in {"dismiss", "add"} => api[q].pattern \in Pattern
    /\ api[q].op \notin {"dismiss", "add"} => api[q].pattern = NoPattern
    /\ api[q].op = "delete" => api[q].payment \in Payment
    /\ api[q].gone => api[q].op \in {"approve", "reject"}

TypeInv == TypeOK /\ WorkerFits /\ \A q \in Request : RequestFits(q)

LEMMA UnloadedType == Unloaded \in [Payment -> PaymentRow]
<1>1. (CHOOSE d \in Due : TRUE) \in Due
  BY PaymentsAssumption
<1> QED BY <1>1 DEF Unloaded, PaymentRow

LEMMA AtRestType == AtRest \in WorkerState /\ AtRest.step = "idle"
BY UnloadedType DEF AtRest, FreshWorker, WorkerState, WorkerStep

LEMMA NoMatchType == [i \in MatchId |-> NoMatch] \in [MatchId -> MatchRow]
BY DEF NoMatch, MatchRow, LiveStatus

\* A worker that a request has raced with differs in nothing else.
LEMMA RacedType ==
    ASSUME NEW w \in WorkerState
    PROVE  /\ Raced(w) \in WorkerState
           /\ Raced(w).raced = (w.raced \/ w.step # "idle")
           /\ Raced(w).step = w.step /\ Raced(w).file = w.file /\ Raced(w).todo = w.todo
           /\ Raced(w).txn = w.txn /\ Raced(w).listed = w.listed /\ Raced(w).payment = w.payment
           /\ Raced(w).loaded = w.loaded
           /\ w.step = "idle" => Raced(w) = w
BY DEF Raced, WorkerState

LEMMA IdleType == Idle \in RequestState
BY DEF Idle, RequestState, ResolveOp

LEMMA TypeInit == Init => TypeInv
<1> SUFFICES ASSUME Init PROVE TypeInv
  OBVIOUS
<1> USE DEF Init
<1>1. payments \in [Payment -> PaymentRow] /\ ingested \subseteq Transaction
  BY UnloadedType
<1>2. matches \in [MatchId -> MatchRow] /\ flushed \in [MatchId -> MatchRow]
  BY NoMatchType
<1>3. suggestions \in [Pattern -> SuggestionStatus]
  BY DEF SuggestionStatus
<1>4. api \in [Request -> RequestState] /\ \A q \in Request : RequestFits(q)
  BY IdleType DEF RequestFits, Idle
<1>5. resolutions \in [Item -> Nat] /\ overlapped \subseteq Item
  OBVIOUS
<1>6. worker \in WorkerState /\ WorkerFits
  BY AtRestType DEF WorkerFits
<1> QED BY <1>1, <1>2, <1>3, <1>4, <1>5, <1>6 DEF TypeInv, TypeOK

\* A worker's step touches no row of the API, and the other way round.
LEMMA WorkerTypeStep == TypeInv /\ Ingest => TypeInv'
<1> SUFFICES ASSUME TypeInv, Ingest PROVE TypeInv'
  OBVIOUS
<1>0. /\ payments \in [Payment -> PaymentRow] /\ matches \in [MatchId -> MatchRow]
      /\ flushed \in [MatchId -> MatchRow] /\ ingested \subseteq Transaction
      /\ worker \in WorkerState /\ WorkerFits
  BY DEF TypeInv, TypeOK
<1>a. UNCHANGED <<payments, suggestions, api, history>>
  BY DEF Ingest, BeginFile, ListPayments, SkipPayment, ChoosePayment, RecordMatch, MatchRefused,
         NextTransaction, CommitFile, AbandonFile, rows
<1>1. ASSUME worker' \in WorkerState, WorkerFits', flushed' \in [MatchId -> MatchRow],
             matches' \in [MatchId -> MatchRow], ingested' \subseteq Transaction
      PROVE  TypeInv'
  BY <1>a, <1>1 DEF TypeInv, TypeOK, RequestFits, history
<1>2. ASSUME NEW f \in File, BeginFile(f) PROVE TypeInv'
  <2> DEFINE S == {t \in Transaction : FileOf[t] = f}
  <2>1. S \subseteq Transaction /\ worker' = [worker EXCEPT !.step = "listing", !.file = f, !.todo = S]
    BY <1>2 DEF BeginFile
  <2> HIDE DEF S
  <2>2. worker' \in WorkerState /\ WorkerFits'
    BY <1>0, <2>1 DEF WorkerState, WorkerStep, WorkerFits
  <2> QED BY <1>0, <1>1, <1>2, <2>2 DEF BeginFile, rows
<1>3. ASSUME NEW t \in Transaction, ListPayments(t) PROVE TypeInv'
  <2> DEFINE L == [p \in Payment |-> IF p \in Kept /\ worker.loaded[p].state = "unused"
                                     THEN payments[p] ELSE worker.loaded[p]]
  <2>1. L \in [Payment -> PaymentRow] /\ Kept \subseteq Payment
    BY <1>0 DEF WorkerState, Kept
  <2>2. /\ worker' = [worker EXCEPT !.step = "matching", !.txn = t, !.todo = worker.todo \ {t},
                                    !.listed = Kept, !.loaded = L]
        /\ worker.step = "listing"
    BY <1>3 DEF ListPayments
  <2> HIDE DEF L
  <2>3. worker' \in WorkerState /\ WorkerFits'
    BY <1>0, <2>1, <2>2 DEF WorkerState, WorkerStep, WorkerFits
  <2> QED BY <1>0, <1>1, <1>3, <2>3 DEF ListPayments, rows
<1>4. ASSUME NEW p \in Payment, SkipPayment(p) PROVE TypeInv'
  <2>1. worker' \in WorkerState /\ WorkerFits'
    BY <1>0, <1>4 DEF SkipPayment, WorkerState, WorkerFits
  <2> QED BY <1>0, <1>1, <1>4, <2>1 DEF SkipPayment, rows
<1>5. ASSUME NEW p \in Payment, ChoosePayment(p) PROVE TypeInv'
  <2>1. worker' \in WorkerState /\ WorkerFits'
    BY <1>0, <1>5 DEF ChoosePayment, WorkerState, WorkerStep, WorkerFits
  <2> QED BY <1>0, <1>1, <1>5, <2>1 DEF ChoosePayment, rows
<1>6. CASE RecordMatch
  <2>1. worker' \in WorkerState /\ WorkerFits'
    BY <1>0, <1>6 DEF RecordMatch, WorkerState, WorkerStep, WorkerFits
  <2>2. DueCycle(worker.payment) \in Cycle \cup {NoCycle}
    <3>1. worker.txn \in Transaction /\ worker.payment \in Payment
      BY <1>0, <1>6 DEF RecordMatch, WorkerFits
    <3>2. worker.loaded[worker.payment].due \in Due
      BY <1>0, <3>1 DEF WorkerState, PaymentRow
    <3> QED BY <3>1, <3>2, PaymentsAssumption DEF DueCycle
  <2>3. PICK s \in DecidedStatus(worker.payment) :
           flushed' = [flushed EXCEPT ![<<worker.payment, worker.txn>>] =
                          [status |-> s, cycle |-> DueCycle(worker.payment)]]
    BY <1>6 DEF RecordMatch
  <2>4. [status |-> s, cycle |-> DueCycle(worker.payment)] \in MatchRow
    BY <2>2 DEF DecidedStatus, MatchRow, LiveStatus
  <2>5. flushed' \in [MatchId -> MatchRow]
    BY <1>0, <2>3, <2>4
  <2> QED BY <1>0, <1>1, <1>6, <2>1, <2>5 DEF RecordMatch, rows
<1>7. CASE MatchRefused
  <2>1. worker' \in WorkerState /\ WorkerFits'
    BY <1>0, <1>7 DEF MatchRefused, WorkerState, WorkerStep, WorkerFits
  <2>2. flushed' \in [MatchId -> MatchRow]
    BY <1>7, NoMatchType DEF MatchRefused
  <2> QED BY <1>0, <1>1, <1>7, <2>1, <2>2 DEF MatchRefused, rows
<1>8. CASE NextTransaction
  <2>1. worker' \in WorkerState /\ WorkerFits'
    BY <1>0, <1>8 DEF NextTransaction, WorkerState, WorkerStep, WorkerFits
  <2> QED BY <1>0, <1>1, <1>8, <2>1 DEF NextTransaction, rows
<1>9. CASE CommitFile
  <2>1. worker' \in WorkerState /\ WorkerFits'
    BY <1>9, AtRestType DEF CommitFile, WorkerFits
  <2>2. flushed' \in [MatchId -> MatchRow] /\ matches' \in [MatchId -> MatchRow]
    BY <1>0, <1>9, NoMatchType DEF CommitFile
  <2>3. ingested' \subseteq Transaction
    BY <1>0, <1>9 DEF CommitFile
  <2> QED BY <1>1, <2>1, <2>2, <2>3
<1>10. CASE AbandonFile
  <2>1. worker' \in WorkerState /\ WorkerFits'
    BY <1>10, AtRestType DEF AbandonFile, WorkerFits
  <2> QED BY <1>0, <1>1, <1>10, <2>1, NoMatchType DEF AbandonFile, rows
<1> QED BY <1>2, <1>3, <1>4, <1>5, <1>6, <1>7, <1>8, <1>9, <1>10 DEF Ingest

\* The requests: what each does to the rows it owns.
LEMMA CreatedType == \A d \in Due : Created(d) \in PaymentRow
BY DEF Created, PaymentRow

LEMMA RegisterTypeStep == TypeInv /\ Register => TypeInv'
<1> SUFFICES ASSUME TypeInv, Register PROVE TypeInv'
  OBVIOUS
<1>0. /\ payments \in [Payment -> PaymentRow] /\ worker \in WorkerState /\ WorkerFits
      /\ api \in [Request -> RequestState] /\ \A q \in Request : RequestFits(q)
  BY DEF TypeInv, TypeOK
<1>a. UNCHANGED <<matches, ingested, suggestions, flushed, history>>
  BY DEF Register, CreatePayments, UpdatePayment, LoadPayment, DeletePayment, RefuseDeletion, rows
<1>1. ASSUME payments' \in [Payment -> PaymentRow], worker' \in WorkerState, WorkerFits',
             api' \in [Request -> RequestState], \A q \in Request : RequestFits(q)'
      PROVE  TypeInv'
  BY <1>a, <1>1 DEF TypeInv, TypeOK, history
<1>2. ASSUME NEW S \in SUBSET Payment, NEW d \in Due, CreatePayments(S, d) PROVE TypeInv'
  <2>1. payments' \in [Payment -> PaymentRow]
    BY <1>0, <1>2, CreatedType DEF CreatePayments
  <2> QED BY <1>0, <1>1, <1>2, <2>1 DEF CreatePayments, WorkerFits, RequestFits
<1>3. ASSUME NEW p \in Payment, NEW d \in Due, UpdatePayment(p, d) PROVE TypeInv'
  <2>1. payments' \in [Payment -> PaymentRow]
    BY <1>0, <1>3 DEF UpdatePayment, PaymentRow
  <2> QED BY <1>0, <1>1, <1>3, <2>1 DEF UpdatePayment, WorkerFits, RequestFits
<1>4. ASSUME NEW q \in Request, NEW p \in Payment, LoadPayment(q, p) PROVE TypeInv'
  <2>1. api' \in [Request -> RequestState]
    BY <1>0, <1>4, IdleType DEF LoadPayment, RequestState, ResolveOp
  <2>2. api'[q] = [Idle EXCEPT !.op = "delete", !.payment = p] /\ \A o \in Request \ {q} : api'[o] = api[o]
    BY <1>0, <1>4 DEF LoadPayment
  <2>3. /\ api'[q].op = "delete" /\ api'[q].payment = p /\ api'[q].txn = NoTransaction
        /\ api'[q].pattern = NoPattern /\ ~api'[q].gone
    BY <2>2 DEF Idle
  <2>4. \A o \in Request \ {q} : RequestFits(o)'
    BY <1>0, <2>2 DEF RequestFits
  <2>5. \A o \in Request : RequestFits(o)'
    BY <2>3, <2>4 DEF RequestFits
  <2> QED BY <1>0, <1>1, <1>4, <2>1, <2>5 DEF LoadPayment, WorkerFits, rows
<1>5. ASSUME NEW q \in Request, DeletePayment(q) \/ RefuseDeletion(q) PROVE TypeInv'
  <2>1. api' = [api EXCEPT ![q] = Idle]
    BY <1>5 DEF DeletePayment, RefuseDeletion
  <2>2. api' \in [Request -> RequestState] /\ \A o \in Request : RequestFits(o)'
    BY <1>0, <2>1, IdleType DEF RequestFits, Idle
  <2>3. CASE DeletePayment(q)
    <3>1. payments' \in [Payment -> PaymentRow]
      BY <1>0, <2>3 DEF DeletePayment, PaymentRow
    <3>2. worker' \in WorkerState /\ WorkerFits'
      BY <1>0, <2>3, RacedType, AtRestType DEF DeletePayment, WorkerFits
    <3> QED BY <1>1, <2>2, <3>1, <3>2
  <2>4. CASE RefuseDeletion(q)
    BY <1>0, <1>1, <2>2, <2>4 DEF RefuseDeletion, WorkerFits, rows
  <2> QED BY <1>5, <2>3, <2>4
<1> QED BY <1>2, <1>3, <1>4, <1>5 DEF Register

\* Loading a match or a suggestion for review.
LEMMA HoldTypeStep ==
    ASSUME TypeInv, NEW q \in Request, NEW r \in RequestState, NEW item \in Item, Hold(q, r, item),
           UNCHANGED resolutions, ~r.gone,
           \/ r.op \in {"approve", "reject"} /\ r.payment \in Payment /\ r.txn \in Transaction /\ r.pattern = NoPattern
           \/ r.op \in {"dismiss", "add"} /\ r.pattern \in Pattern /\ r.txn = NoTransaction
    PROVE  TypeInv'
<1>1. api \in [Request -> RequestState] /\ overlapped \subseteq Item
  BY DEF TypeInv, TypeOK
<1>2. api' = [api EXCEPT ![q] = r] /\ overlapped' \subseteq overlapped \cup {item}
      /\ UNCHANGED <<rows, worker, flushed, resolutions>>
  BY DEF Hold
<1>3. api' \in [Request -> RequestState] /\ overlapped' \subseteq Item
  BY <1>1, <1>2
<1>4. \A o \in Request : RequestFits(o)'
  BY <1>1, <1>2 DEF TypeInv, RequestFits
<1>5. WorkerFits'
  BY <1>2 DEF TypeInv, WorkerFits
<1> QED BY <1>2, <1>3, <1>4, <1>5 DEF TypeInv, TypeOK, rows

LEMMA ReviewTypeStep == TypeInv /\ Review => TypeInv'
<1> SUFFICES ASSUME TypeInv, Review PROVE TypeInv'
  OBVIOUS
<1>0. /\ payments \in [Payment -> PaymentRow] /\ worker \in WorkerState /\ WorkerFits
      /\ matches \in [MatchId -> MatchRow] /\ suggestions \in [Pattern -> SuggestionStatus]
      /\ resolutions \in [Item -> Nat]
      /\ api \in [Request -> RequestState] /\ \A q \in Request : RequestFits(q)
  BY DEF TypeInv, TypeOK
<1>1. ASSUME NEW q \in Request, NEW op \in {"approve", "reject"}, NEW p \in Payment, NEW t \in Transaction,
             LoadMatch(q, op, p, t)
      PROVE  TypeInv'
  <2> DEFINE r == [Idle EXCEPT !.op = op, !.payment = p, !.txn = t]
  <2>1. /\ r \in RequestState /\ r.op = op /\ r.payment = p /\ r.txn = t /\ r.pattern = NoPattern
        /\ <<p, t>> \in Item /\ ~r.gone
    BY DEF Idle, RequestState, ResolveOp, Item, MatchId
  <2>2. Hold(q, r, <<p, t>>) /\ UNCHANGED resolutions
    BY <1>1 DEF LoadMatch, Hold
  <2> HIDE DEF r
  <2> QED BY <2>1, <2>2, HoldTypeStep
<1>2. ASSUME NEW q \in Request, NEW op \in {"dismiss", "add"}, NEW k \in Pattern, LoadSuggestion(q, op, k)
      PROVE  TypeInv'
  <2> DEFINE r == [Idle EXCEPT !.op = op, !.pattern = k]
  <2>1. r \in RequestState /\ r.op = op /\ r.pattern = k /\ r.txn = NoTransaction /\ k \in Item /\ ~r.gone
    BY DEF Idle, RequestState, ResolveOp, Item
  <2>2. Hold(q, r, k) /\ UNCHANGED resolutions
    BY <1>2 DEF LoadSuggestion, Hold
  <2> HIDE DEF r
  <2> QED BY <2>1, <2>2, HoldTypeStep
<1>3. ASSUME NEW q \in Request,
             \/ ApproveMatch(q) \/ RejectMatch(q) \/ DropReview(q) \/ DismissSuggestion(q)
             \/ \E p \in Payment, d \in Due : AddSuggestion(q, p, d)
      PROVE  TypeInv'
  <2>1. api' = [api EXCEPT ![q] = Idle] /\ UNCHANGED <<ingested, flushed, overlapped>>
    BY <1>3 DEF ApproveMatch, RejectMatch, DropReview, DismissSuggestion, AddSuggestion, history, rows
  <2>2. api' \in [Request -> RequestState] /\ \A o \in Request : RequestFits(o)'
    BY <1>0, <2>1, IdleType DEF RequestFits, Idle
  <2>3. worker' = worker \/ worker' = Raced(worker)
    BY <1>3 DEF ApproveMatch, RejectMatch, DropReview, DismissSuggestion, AddSuggestion
  <2>4. worker' \in WorkerState /\ WorkerFits'
    BY <1>0, <2>3, RacedType, AtRestType DEF WorkerFits
  <2>5. matches' \in [MatchId -> MatchRow]
    <3>1. \/ UNCHANGED matches
          \/ \E i \in MatchId, s \in LiveStatus \cup {"rejected"} : matches' = [matches EXCEPT ![i].status = s]
      <4>1. CASE ApproveMatch(q)
        BY <1>0, <4>1 DEF ApproveMatch, RequestFits, MatchId, LiveStatus
      <4>2. CASE RejectMatch(q)
        BY <1>0, <4>2 DEF RejectMatch, RequestFits, MatchId
      <4>3. CASE DropReview(q) \/ DismissSuggestion(q) \/ \E p \in Payment, d \in Due : AddSuggestion(q, p, d)
        BY <4>3 DEF DropReview, DismissSuggestion, AddSuggestion, rows
      <4> QED BY <1>3, <4>1, <4>2, <4>3
    <3> QED BY <1>0, <3>1 DEF MatchRow
  <2>6. payments' \in [Payment -> PaymentRow]
    <3>1. CASE ApproveMatch(q)
      BY <1>0, <3>1 DEF ApproveMatch, PaymentRow
    <3>2. CASE RejectMatch(q) \/ DropReview(q) \/ DismissSuggestion(q)
      BY <1>0, <3>2 DEF RejectMatch, DropReview, DismissSuggestion, rows
    <3>3. ASSUME NEW p \in Payment, NEW d \in Due, AddSuggestion(q, p, d)
          PROVE  payments' \in [Payment -> PaymentRow]
      BY <1>0, <3>3, CreatedType DEF AddSuggestion
    <3> QED BY <1>3, <3>1, <3>2, <3>3
  <2>7. suggestions' \in [Pattern -> SuggestionStatus]
    BY <1>0, <1>3 DEF ApproveMatch, RejectMatch, DropReview, DismissSuggestion, AddSuggestion, rows,
                      SuggestionStatus
  <2>8. resolutions' \in [Item -> Nat]
    <3>1. UNCHANGED resolutions \/ \E i \in Item : resolutions' = [resolutions EXCEPT ![i] = @ + 1]
      <4>1. CASE ApproveMatch(q)
        BY <1>0, <4>1 DEF ApproveMatch, RequestFits, Resolved, Item, MatchId
      <4>2. CASE RejectMatch(q)
        BY <1>0, <4>2 DEF RejectMatch, RequestFits, Resolved, Item, MatchId
      <4>3. CASE DismissSuggestion(q) \/ \E p \in Payment, d \in Due : AddSuggestion(q, p, d)
        BY <1>0, <4>3 DEF DismissSuggestion, AddSuggestion, RequestFits, Resolved, Item
      <4>4. CASE DropReview(q)
        BY <4>4 DEF DropReview, history
      <4> QED BY <1>3, <4>1, <4>2, <4>3, <4>4
    <3> QED BY <1>0, <3>1
  <2> QED BY <2>1, <2>2, <2>4, <2>5, <2>6, <2>7, <2>8 DEF TypeInv, TypeOK
<1> QED BY <1>1, <1>2, <1>3 DEF Review

LEMMA TypeStep == TypeInv /\ [Next]_vars => TypeInv'
<1> SUFFICES ASSUME TypeInv, [Next]_vars PROVE TypeInv'
  OBVIOUS
<1>1. CASE Ingest
  BY <1>1, WorkerTypeStep
<1>2. ASSUME NEW f \in File, RemoveStatement(f) PROVE TypeInv'
  <2> DEFINE gone == {t \in ingested : FileOf[t] = f}
  <2>1. /\ worker' = worker /\ WorkerFits' /\ ingested' = ingested \ gone
        /\ UNCHANGED <<payments, suggestions, flushed>>
    BY <1>2 DEF RemoveStatement, TypeInv, WorkerFits
  <2>2. matches' \in [MatchId -> MatchRow]
    BY <1>2, NoMatchType DEF RemoveStatement, TypeInv, TypeOK, NoMatch, MatchRow, LiveStatus
  <2>3. \A q \in Request : api'[q] = IF api[q].txn \in gone THEN [api[q] EXCEPT !.gone = TRUE] ELSE api[q]
    BY <1>2 DEF RemoveStatement
  <2>4. api' \in [Request -> RequestState]
    <3>1. api \in [Request -> RequestState] /\ \A r \in RequestState : [r EXCEPT !.gone = TRUE] \in RequestState
      BY DEF TypeInv, TypeOK, RequestState
    <3>2. api' = [q \in Request |-> IF api[q].txn \in gone THEN [api[q] EXCEPT !.gone = TRUE] ELSE api[q]]
      BY <1>2 DEF RemoveStatement
    <3> HIDE DEF gone
    <3> QED BY <3>1, <3>2
  <2>5. \A q \in Request : RequestFits(q)'
    <3>1. api \in [Request -> RequestState] /\ \A q \in Request : RequestFits(q)
      BY DEF TypeInv, TypeOK
    <3>2. \A r \in RequestState : LET g == [r EXCEPT !.gone = TRUE]
                                  IN  g.op = r.op /\ g.payment = r.payment /\ g.txn = r.txn /\ g.pattern = r.pattern
      BY DEF RequestState
    <3>3. gone \subseteq Transaction
      BY DEF TypeInv, TypeOK
    <3> HIDE DEF gone
    <3>4. \A q \in Request : /\ api'[q].op = api[q].op /\ api'[q].payment = api[q].payment
                             /\ api'[q].txn = api[q].txn /\ api'[q].pattern = api[q].pattern
      BY <2>3, <3>1, <3>2
    <3>5. \A q \in Request : api'[q].gone => api[q].gone \/ api[q].txn \in gone
      BY <2>3
    <3> QED BY <3>1, <3>3, <3>4, <3>5, PaymentsAssumption DEF RequestFits
  <2>6. resolutions' \in [Item -> Nat] /\ overlapped' \subseteq Item
    BY <1>2 DEF RemoveStatement, TypeInv, TypeOK
  <2> QED BY <2>1, <2>2, <2>4, <2>5, <2>6 DEF TypeInv, TypeOK
<1>3. CASE DetectionScan
  <2>1. suggestions' \in [Pattern -> SuggestionStatus]
    BY <1>3 DEF DetectionScan, TypeInv, TypeOK, SuggestionStatus
  <2> QED BY <1>3, <2>1 DEF DetectionScan, TypeInv, TypeOK, WorkerFits, RequestFits, history
<1>4. CASE Register
  BY <1>4, RegisterTypeStep
<1>5. CASE Review
  BY <1>5, ReviewTypeStep
<1>6. CASE UNCHANGED vars
  BY <1>6 DEF vars, rows, history, TypeInv, TypeOK, WorkerFits, RequestFits
<1> QED BY <1>1, <1>2, <1>3, <1>4, <1>5, <1>6 DEF Next

\* The rows and the local states have their types.
THEOREM RowsHaveTypes == Spec => []TypeOK
<1>1. TypeInv => TypeOK
  BY DEF TypeInv
<1> QED BY <1>1, TypeInit, TypeStep, PTL DEF Spec

----------------------------------------------------------------------------
(* A file fails only when a request raced with it.                         *)

\* Until a request deletes a payment or approves a match, every payment that
\* is still listed is there, and the one about to be matched has no live match.
ListedAreKept == worker.step # "idle" /\ ~worker.raced => worker.listed \subseteq Kept
ChosenIsFree ==
    worker.step = "inserting" /\ ~worker.raced =>
        worker.payment \in Kept /\ ~IndexRefuses(worker.payment, DueCycle(worker.payment))
FailInv == TypeInv /\ ListedAreKept /\ ChosenIsFree /\ FilesFailOnlyWhenRaced

LEMMA FailInit == Init => FailInv
BY TypeInit, AtRestType DEF Init, FailInv, ListedAreKept, ChosenIsFree, FilesFailOnlyWhenRaced

\* The requests that set nothing aside take no payment away and add no live match.
LEMMA QuietRequest ==
    ASSUME FailInv, TypeInv', UNCHANGED <<worker, flushed>>, Kept \subseteq Kept',
           \A p \in Payment, c \in Cycle \cup {NoCycle} : LiveIn(matches', p, c) \subseteq LiveIn(matches, p, c)
    PROVE  FailInv'
<1>1. ListedAreKept' /\ FilesFailOnlyWhenRaced'
  BY DEF FailInv, ListedAreKept, FilesFailOnlyWhenRaced
<1>2. ASSUME worker.step = "inserting", ~worker.raced
      PROVE  worker.payment \in Kept' /\ ~IndexRefuses(worker.payment, DueCycle(worker.payment))'
  <2>1. worker.payment \in Kept /\ ~IndexRefuses(worker.payment, DueCycle(worker.payment))
    BY <1>2 DEF FailInv, ChosenIsFree
  <2>2. worker.payment \in Payment /\ worker.txn \in Transaction
    BY <1>2 DEF FailInv, TypeInv, WorkerFits
  <2>3. worker.loaded[worker.payment].due \in Due
    BY <2>2 DEF FailInv, TypeInv, TypeOK, WorkerState, PaymentRow
  <2>4. DueCycle(worker.payment) \in Cycle \cup {NoCycle} /\ DueCycle(worker.payment)' = DueCycle(worker.payment)
    BY <2>2, <2>3, PaymentsAssumption DEF DueCycle
  <2>5. LiveIn(flushed', worker.payment, DueCycle(worker.payment)) = LiveIn(flushed, worker.payment, DueCycle(worker.payment))
    OBVIOUS
  <2>6. /\ worker'.payment = worker.payment
        /\ LiveIn(matches', worker.payment, DueCycle(worker.payment)) \subseteq LiveIn(matches, worker.payment, DueCycle(worker.payment))
    BY <2>2, <2>4
  <2> HIDE DEF DueCycle, LiveIn
  <2> QED BY <2>1, <2>4, <2>5, <2>6 DEF IndexRefuses
<1> QED BY <1>1, <1>2 DEF FailInv, ChosenIsFree

\* A request that does says so.
LEMMA RacingRequest ==
    ASSUME FailInv, TypeInv', worker' = Raced(worker)
    PROVE  FailInv'
<1>1. worker \in WorkerState
  BY DEF FailInv, TypeInv, TypeOK
<1>2. worker'.step = worker.step /\ (worker'.raced <=> worker.raced \/ worker.step # "idle")
  BY <1>1, RacedType
<1> QED BY <1>2 DEF FailInv, ListedAreKept, ChosenIsFree, FilesFailOnlyWhenRaced

LEMMA FailWorkerStep == FailInv /\ TypeInv' /\ Ingest => FailInv'
<1> SUFFICES ASSUME FailInv, TypeInv', Ingest PROVE FailInv'
  OBVIOUS
<1>0. /\ worker \in WorkerState /\ WorkerFits
      /\ ListedAreKept /\ ChosenIsFree /\ FilesFailOnlyWhenRaced
  BY DEF FailInv, TypeInv, TypeOK
<1>a. UNCHANGED payments /\ Kept' = Kept
  BY DEF Ingest, BeginFile, ListPayments, SkipPayment, ChoosePayment, RecordMatch, MatchRefused,
         NextTransaction, CommitFile, AbandonFile, rows, Kept
<1>b. ASSUME worker'.step \notin {"inserting", "failed"}, ListedAreKept' PROVE FailInv'
  BY <1>b DEF FailInv, ChosenIsFree, FilesFailOnlyWhenRaced
<1>1. ASSUME NEW f \in File, BeginFile(f) PROVE FailInv'
  <2>1. worker'.step = "listing" /\ worker'.listed = AtRest.listed
    BY <1>0, <1>1 DEF BeginFile, WorkerState
  <2>2. AtRest.listed = {}
    BY DEF AtRest, FreshWorker
  <2> QED BY <1>b, <2>1, <2>2 DEF ListedAreKept
<1>2. ASSUME NEW t \in Transaction, ListPayments(t) PROVE FailInv'
  <2>1. worker'.step = "matching" /\ worker'.listed = Kept
    BY <1>0, <1>2 DEF ListPayments, WorkerState
  <2> QED BY <1>a, <1>b, <2>1 DEF ListedAreKept
<1>3. ASSUME NEW p \in Payment, SkipPayment(p) PROVE FailInv'
  <2>1. worker.step = "matching" /\ worker'.step = "matching" /\ worker'.raced = worker.raced /\ worker'.listed \subseteq worker.listed
    BY <1>0, <1>3 DEF SkipPayment, WorkerState
  <2> QED BY <1>0, <1>a, <1>b, <2>1 DEF ListedAreKept
<1>4. ASSUME NEW p \in Payment, ChoosePayment(p) PROVE FailInv'
  <2>1. /\ worker.step = "matching" /\ worker'.step = "inserting" /\ worker'.raced = worker.raced
        /\ worker'.listed \subseteq worker.listed /\ worker'.payment = p /\ p \in worker.listed
        /\ worker'.loaded = worker.loaded /\ worker'.txn = worker.txn
    BY <1>0, <1>4 DEF ChoosePayment, WorkerState
  <2>2. /\ DueCycle(p)' = DueCycle(p) /\ ~HasLiveMatch(p, DueCycle(p))
        /\ UNCHANGED <<matches, flushed>>
    BY <1>4, <2>1 DEF DueCycle, ChoosePayment, rows
  <2>3. ~IndexRefuses(p, DueCycle(p))'
    BY <2>2 DEF HasLiveMatch, IndexRefuses, LiveIn
  <2>4. ListedAreKept' /\ FilesFailOnlyWhenRaced'
    BY <1>0, <1>a, <2>1 DEF ListedAreKept, FilesFailOnlyWhenRaced
  <2>5. ChosenIsFree'
    BY <1>0, <1>a, <2>1, <2>3 DEF ListedAreKept, ChosenIsFree
  <2> QED BY <2>4, <2>5 DEF FailInv
<1>5. CASE RecordMatch
  <2>1. worker.step = "inserting" /\ worker'.step = "matching" /\ worker'.raced = worker.raced /\ worker'.listed = worker.listed
    BY <1>0, <1>5 DEF RecordMatch, WorkerState
  <2> QED BY <1>0, <1>a, <1>b, <2>1 DEF ListedAreKept
<1>6. CASE MatchRefused
  <2>1. worker.step = "inserting" /\ worker'.step = "failed" /\ worker'.raced = worker.raced /\ worker'.listed = worker.listed
    BY <1>0, <1>6 DEF MatchRefused, WorkerState
  <2>2. worker.raced
    BY <1>0, <1>6 DEF MatchRefused, ChosenIsFree
  <2> QED BY <2>1, <2>2 DEF FailInv, ListedAreKept, ChosenIsFree, FilesFailOnlyWhenRaced
<1>7. CASE NextTransaction
  <2>1. worker'.step = "listing" /\ worker'.listed = {}
    BY <1>0, <1>7 DEF NextTransaction, WorkerState
  <2> QED BY <1>b, <2>1 DEF ListedAreKept
<1>8. CASE CommitFile \/ AbandonFile
  <2>1. worker'.step = "idle"
    BY <1>8, AtRestType DEF CommitFile, AbandonFile
  <2> QED BY <1>b, <2>1 DEF ListedAreKept
<1> QED BY <1>1, <1>2, <1>3, <1>4, <1>5, <1>6, <1>7, <1>8 DEF Ingest

LEMMA FailStep == FailInv /\ [Next]_vars => FailInv'
<1> SUFFICES ASSUME FailInv, [Next]_vars PROVE FailInv'
  OBVIOUS
<1>0. TypeInv /\ TypeInv'
  BY TypeStep DEF FailInv
<1>1. CASE Ingest
  BY <1>0, <1>1, FailWorkerStep
<1>2. ASSUME NEW f \in File, RemoveStatement(f) PROVE FailInv'
  <2>1. UNCHANGED <<worker, flushed, payments>> /\ Kept' = Kept
    BY <1>2 DEF RemoveStatement, Kept
  <2>2. \A i \in MatchId : matches'[i] = NoMatch \/ matches'[i] = matches[i]
    BY <1>2 DEF RemoveStatement
  <2>3. NoMatch.status \notin LiveStatus
    BY DEF NoMatch, LiveStatus
  <2>4. \A p \in Payment, c \in Cycle \cup {NoCycle} : LiveIn(matches', p, c) \subseteq LiveIn(matches, p, c)
    BY <2>2, <2>3 DEF LiveIn, MatchId
  <2> QED BY <1>0, <2>1, <2>4, QuietRequest
<1>3. CASE DetectionScan
  <2>1. UNCHANGED <<worker, flushed, matches>> /\ Kept' = Kept
    BY <1>3 DEF DetectionScan, Kept
  <2> QED BY <1>0, <2>1, QuietRequest
<1>4. ASSUME NEW S \in SUBSET Payment, NEW d \in Due, CreatePayments(S, d) PROVE FailInv'
  <2>1. UNCHANGED <<worker, flushed, matches>> /\ Kept \subseteq Kept'
    BY <1>4 DEF CreatePayments, Kept, Created
  <2> QED BY <1>0, <2>1, QuietRequest
<1>5. ASSUME NEW p \in Payment, NEW d \in Due, UpdatePayment(p, d) PROVE FailInv'
  <2>1. UNCHANGED <<worker, flushed, matches>>
    BY <1>5 DEF UpdatePayment
  <2>2. \A r \in Payment : payments'[r].state = payments[r].state
    BY <1>0, <1>5 DEF UpdatePayment, TypeInv, TypeOK, PaymentRow
  <2> QED BY <1>0, <2>1, <2>2, QuietRequest DEF Kept
<1>6. ASSUME NEW q \in Request, NEW p \in Payment, LoadPayment(q, p) PROVE FailInv'
  <2>1. UNCHANGED <<worker, flushed, matches>> /\ Kept' = Kept
    BY <1>6 DEF LoadPayment, rows, Kept
  <2> QED BY <1>0, <2>1, QuietRequest
<1>7. ASSUME NEW q \in Request, DeletePayment(q) \/ ApproveMatch(q) PROVE FailInv'
  BY <1>0, <1>7, RacingRequest DEF DeletePayment, ApproveMatch
<1>8. ASSUME NEW q \in Request, RejectMatch(q) PROVE FailInv'
  <2>1. UNCHANGED <<worker, flushed, payments>> /\ Kept' = Kept
    BY <1>8 DEF RejectMatch, Kept
  <2>2. \A i \in MatchId : matches'[i] = matches[i] \/ matches'[i].status = "rejected"
    BY <1>0, <1>8 DEF RejectMatch, TypeInv, TypeOK, MatchRow
  <2>3. \A p \in Payment, c \in Cycle \cup {NoCycle} : LiveIn(matches', p, c) \subseteq LiveIn(matches, p, c)
    BY <2>2 DEF LiveIn, MatchId, LiveStatus
  <2> QED BY <1>0, <2>1, <2>3, QuietRequest
<1>9. ASSUME NEW q \in Request, RefuseDeletion(q) \/ DropReview(q) \/ DismissSuggestion(q) PROVE FailInv'
  <2>1. UNCHANGED <<worker, flushed, matches>> /\ Kept' = Kept
    BY <1>9 DEF RefuseDeletion, DropReview, DismissSuggestion, rows, Kept
  <2> QED BY <1>0, <2>1, QuietRequest
<1>10. ASSUME NEW q \in Request, NEW p \in Payment, NEW d \in Due, AddSuggestion(q, p, d) PROVE FailInv'
  <2>1. UNCHANGED <<worker, flushed, matches>>
    BY <1>10 DEF AddSuggestion
  <2>2. Kept \subseteq Kept'
    BY <1>0, <1>10 DEF AddSuggestion, Kept, Created, TypeInv, TypeOK
  <2> QED BY <1>0, <2>1, <2>2, QuietRequest
<1>11. ASSUME NEW q \in Request, NEW r, NEW item, Hold(q, r, item) PROVE FailInv'
  <2>1. UNCHANGED <<worker, flushed, matches>> /\ Kept' = Kept
    BY <1>11 DEF Hold, rows, Kept
  <2> QED BY <1>0, <2>1, QuietRequest
<1>12. CASE UNCHANGED vars
  <2>1. UNCHANGED <<worker, flushed, matches>> /\ Kept' = Kept
    BY <1>12 DEF vars, rows, Kept
  <2> QED BY <1>0, <2>1, QuietRequest
<1> QED
  BY <1>1, <1>2, <1>3, <1>4, <1>5, <1>6, <1>7, <1>8, <1>9, <1>10, <1>11, <1>12
  DEF Next, Register, Review, LoadMatch, LoadSuggestion

\* The index refuses no match of a file that no request raced with: what
\* has_live_match has asked is still so when the match is flushed
\* (recurring_payments/service.py, match_new_transaction).
THEOREM OnlyRacesFailFiles == Spec => []FilesFailOnlyWhenRaced
<1>1. FailInv => FilesFailOnlyWhenRaced
  BY DEF FailInv
<1> QED BY <1>1, FailInit, FailStep, PTL DEF Spec

----------------------------------------------------------------------------
(* Resolutions, and the cycles they settle.                                *)

Holds(q, i) == i \in HeldItem(q) /\ ~api[q].gone
Holders(i) == {q \in Request : Holds(q, i)}

\* What is flushed and not committed is of the file in hand, none of whose
\* transactions are ingested; what is committed is of ingested ones.
FileInHand ==
    /\ \A t \in worker.todo : FileOf[t] = worker.file
    /\ worker.step \in {"matching", "inserting"} => FileOf[worker.txn] = worker.file
    /\ worker.step # "idle" => \A t \in ingested : FileOf[t] # worker.file
FlushedInHand ==
    \A i \in MatchId : flushed[i] # NoMatch => worker.step # "idle" /\ FileOf[i[2]] = worker.file
MatchesAreIngested == \A i \in MatchId : matches[i] # NoMatch => i[2] \in ingested
TablesFit == FileInHand /\ FlushedInHand /\ MatchesAreIngested

\* A match that is held is there, and pending unless it is held twice.
HeldIsPending ==
    \A q \in Request, i \in MatchId : Holds(q, i) =>
        matches[i].status # "none" /\ (matches[i].status = "pending" \/ i \in overlapped)
TwoHoldersOverlap ==
    \A q, o \in Request, i \in Item : q # o /\ Holds(q, i) /\ Holds(o, i) => i \in overlapped
HeldIsUnresolved ==
    \A q \in Request, i \in Item : Holds(q, i) /\ i \notin overlapped => resolutions[i] = 0

\* What may still be offered for review has not been resolved.
OpenIsUnresolved ==
    /\ \A i \in MatchId : matches[i].status \in {"none", "pending"} => resolutions[i] = 0
    /\ \A k \in Pattern : suggestions[k] \in {"none", "new"} => resolutions[k] = 0

\* Of what is held twice, every holder may still resolve it.
OnceEach == \A i \in Item : i \notin overlapped => resolutions[i] <= 1
OncePerHolder == \A i \in Item : resolutions[i] + Cardinality(Holders(i)) <= Cardinality(Request)

HoldsFit == /\ HeldIsPending /\ TwoHoldersOverlap /\ HeldIsUnresolved
            /\ OpenIsUnresolved /\ OnceEach /\ OncePerHolder
ReviewInv == TypeInv /\ TablesFit /\ HoldsFit

\* Holders are requests.
LEMMA HoldersFinite ==
    \A i : /\ IsFiniteSet(Holders(i)) /\ Cardinality(Holders(i)) \in Nat
           /\ Cardinality(Holders(i)) <= Cardinality(Request)
<1> SUFFICES ASSUME NEW i
             PROVE  /\ IsFiniteSet(Holders(i)) /\ Cardinality(Holders(i)) \in Nat
                    /\ Cardinality(Holders(i)) <= Cardinality(Request)
  OBVIOUS
<1>1. Holders(i) \in SUBSET Request /\ IsFiniteSet(Request)
  BY PaymentsAssumption DEF Holders
<1> HIDE DEF Holders
<1> QED BY <1>1, FS_Subset, FS_CardinalityType

\* An idle request, and one that deletes, hold nothing.
LEMMA IdleHoldsNothing ==
    ASSUME NEW q, api[q].pattern = NoPattern, api[q].op \notin {"approve", "reject"}
    PROVE  \A i : ~Holds(q, i)
BY DEF Holds, HeldItem

\* A request that ends lets go of what it held.
LEMMA LetGo ==
    ASSUME TypeInv, NEW q \in Request, api' = [api EXCEPT ![q] = Idle]
    PROVE  \A o \in Request, i \in Item : Holds(o, i)' <=> o # q /\ Holds(o, i)
<1>1. api \in [Request -> RequestState]
  BY DEF TypeInv, TypeOK
<1>2. api'[q] = Idle /\ \A o \in Request \ {q} : api'[o] = api[o]
  BY <1>1
<1>3. \A i : ~Holds(q, i)'
  BY <1>2 DEF Holds, HeldItem, Idle
<1> QED BY <1>2, <1>3 DEF Holds, HeldItem

\* No new holder, and nothing resolved.
LEMMA CalmStep ==
    ASSUME HoldsFit, TypeInv, UNCHANGED <<resolutions, overlapped>>,
           \A i \in MatchId : resolutions[i] = 0 \/ matches'[i].status \notin {"none", "pending"},
           \A k \in Pattern : resolutions[k] = 0 \/ suggestions'[k] \notin {"none", "new"},
           \A o \in Request, i \in Item : Holds(o, i)' => Holds(o, i),
           \A o \in Request, i \in MatchId : Holds(o, i) => matches'[i] = matches[i]
    PROVE  HoldsFit'
<1>1. MatchId \subseteq Item
  BY DEF Item
<1>2. HeldIsPending'
  BY <1>1 DEF HoldsFit, HeldIsPending
<1>3. TwoHoldersOverlap' /\ HeldIsUnresolved' /\ OpenIsUnresolved' /\ OnceEach'
  BY DEF HoldsFit, TwoHoldersOverlap, HeldIsUnresolved, OpenIsUnresolved, OnceEach
<1>4. ASSUME NEW i \in Item PROVE (resolutions[i] + Cardinality(Holders(i)) <= Cardinality(Request))'
  <2>1. Holders(i)' \in SUBSET Holders(i)
    BY DEF Holders
  <2>2. Cardinality(Holders(i)') <= Cardinality(Holders(i)) /\ IsFiniteSet(Holders(i)')
    BY <2>1, HoldersFinite, FS_Subset
  <2>3. /\ Cardinality(Holders(i)) \in Nat /\ Cardinality(Holders(i)') \in Nat
        /\ Cardinality(Request) \in Nat /\ resolutions[i] \in Nat
    BY <2>2, HoldersFinite, PaymentsAssumption, FS_CardinalityType DEF TypeInv, TypeOK
  <2>4. resolutions[i] + Cardinality(Holders(i)) <= Cardinality(Request)
    BY DEF HoldsFit, OncePerHolder
  <2> HIDE DEF Holders
  <2> QED BY <2>2, <2>3, <2>4
<1> QED BY <1>2, <1>3, <1>4 DEF HoldsFit, OncePerHolder

\* A holder resolves what it holds.
LEMMA ResolveStep ==
    ASSUME HoldsFit, TypeInv, NEW q \in Request, NEW item \in Item, Holds(q, item),
           api' = [api EXCEPT ![q] = Idle], Resolved(item), UNCHANGED overlapped,
           \A i \in MatchId : i # item => matches'[i] = matches[i],
           \A k \in Pattern : k # item => suggestions'[k] = suggestions[k],
           item \in MatchId => matches'[item].status \notin {"none", "pending"},
           item \in Pattern => suggestions'[item] \notin {"none", "new"}
    PROVE  HoldsFit'
<1>1. resolutions \in [Item -> Nat] /\ MatchId \subseteq Item /\ Pattern \subseteq Item
  BY DEF TypeInv, TypeOK, Item
<1>2. /\ resolutions'[item] = resolutions[item] + 1
      /\ \A i \in Item \ {item} : resolutions'[i] = resolutions[i]
  BY <1>1 DEF Resolved
<1>3. \A o \in Request, i \in Item : Holds(o, i)' <=> o # q /\ Holds(o, i)
  BY LetGo
<1>4. \A o \in Request : Holds(o, item)' => item \in overlapped
  BY <1>3 DEF HoldsFit, TwoHoldersOverlap
<1>5. HeldIsPending'
  <2> SUFFICES ASSUME NEW o \in Request, NEW i \in MatchId, Holds(o, i)'
               PROVE  matches'[i].status # "none" /\ (matches'[i].status = "pending" \/ i \in overlapped)
    BY DEF HeldIsPending
  <2>1. Holds(o, i)
    BY <1>1, <1>3
  <2>2. CASE i = item
    BY <1>4, <2>2
  <2>3. CASE i # item
    BY <2>1, <2>3 DEF HoldsFit, HeldIsPending
  <2> QED BY <2>2, <2>3
<1>6. TwoHoldersOverlap'
  BY <1>3 DEF HoldsFit, TwoHoldersOverlap
<1>7. HeldIsUnresolved'
  BY <1>2, <1>3, <1>4 DEF HoldsFit, HeldIsUnresolved
<1>8. OpenIsUnresolved'
  BY <1>1, <1>2 DEF HoldsFit, OpenIsUnresolved
<1>9. OnceEach'
  <2>1. item \notin overlapped => resolutions[item] = 0
    BY DEF HoldsFit, HeldIsUnresolved
  <2> QED BY <1>1, <1>2, <2>1 DEF HoldsFit, OnceEach
<1>10. ASSUME NEW i \in Item PROVE (resolutions[i] + Cardinality(Holders(i)) <= Cardinality(Request))'
  <2>1. Holders(i)' = Holders(i) \ {q}
    BY <1>3 DEF Holders
  <2>2. /\ IsFiniteSet(Holders(i)) /\ Cardinality(Holders(i)) \in Nat /\ Cardinality(Request) \in Nat
        /\ resolutions[i] \in Nat /\ resolutions[i] + Cardinality(Holders(i)) <= Cardinality(Request)
    BY <1>1, HoldersFinite, PaymentsAssumption, FS_CardinalityType DEF HoldsFit, OncePerHolder
  <2>3. CASE i = item
    <3>1. q \in Holders(i)
      BY <2>3 DEF Holders
    <3>2. Cardinality(Holders(i) \ {q}) = Cardinality(Holders(i)) - 1
      BY <2>2, <3>1, FS_RemoveElement
    <3> HIDE DEF Holders
    <3> QED BY <1>2, <2>1, <2>2, <2>3, <3>2
  <2>4. CASE i # item
    <3>1. (Holders(i) \ {q}) \in SUBSET Holders(i)
      OBVIOUS
    <3>2. Cardinality(Holders(i) \ {q}) <= Cardinality(Holders(i)) /\ IsFiniteSet(Holders(i) \ {q})
      BY <2>2, <3>1, FS_Subset
    <3>3. Cardinality(Holders(i) \ {q}) \in Nat
      BY <3>2, FS_CardinalityType
    <3> HIDE DEF Holders
    <3> QED BY <1>2, <2>1, <2>2, <2>4, <3>2, <3>3
  <2> QED BY <2>3, <2>4
<1> QED BY <1>5, <1>6, <1>7, <1>8, <1>9, <1>10 DEF HoldsFit, OncePerHolder

\* A request takes hold of what is open.
LEMMA HoldStep ==
    ASSUME HoldsFit, TypeInv, NEW q \in Request, NEW r \in RequestState, NEW item \in Item,
           Hold(q, r, item), UNCHANGED <<matches, suggestions, resolutions>>,
           \/ item \in MatchId /\ matches[item].status = "pending" /\ r.op \in {"approve", "reject"}
                 /\ item = <<r.payment, r.txn>>
           \/ item \in Pattern /\ suggestions[item] = "new" /\ r.op \in {"dismiss", "add"} /\ item = r.pattern,
           item \in Pattern => item \notin MatchId
    PROVE  HoldsFit'
<1>1. /\ api \in [Request -> RequestState] /\ resolutions \in [Item -> Nat] /\ MatchId \subseteq Item
  BY DEF TypeInv, TypeOK, Item
<1>2. api[q] = Idle /\ api'[q] = r /\ \A o \in Request \ {q} : api'[o] = api[o]
  BY <1>1 DEF Hold
<1>3. \A i : ~Holds(q, i)
  BY <1>2, IdleHoldsNothing DEF Idle
<1>4. /\ \A i : Holds(q, i)' => i = item
      /\ \A o \in Request \ {q}, i \in Item : Holds(o, i)' <=> Holds(o, i)
  BY <1>2 DEF Holds, HeldItem
<1>5. overlapped \subseteq overlapped' /\ overlapped' \subseteq overlapped \cup {item}
  BY DEF Hold
<1>6. \A o \in Request \ {q} : Holds(o, item) => item \in overlapped'
  BY DEF Hold, Holds
<1>7. resolutions[item] = 0
  BY DEF HoldsFit, OpenIsUnresolved
<1>8. HeldIsPending'
  <2> SUFFICES ASSUME NEW o \in Request, NEW i \in MatchId, Holds(o, i)'
               PROVE  matches[i].status # "none" /\ (matches[i].status = "pending" \/ i \in overlapped')
    BY DEF HeldIsPending
  <2>1. CASE i = item
    BY <2>1
  <2>2. CASE i # item
    <3>1. Holds(o, i)
      BY <1>1, <1>4, <2>2
    <3> QED BY <1>5, <3>1 DEF HoldsFit, HeldIsPending
  <2> QED BY <2>1, <2>2
<1>9. TwoHoldersOverlap'
  <2> SUFFICES ASSUME NEW o1 \in Request, NEW o2 \in Request, NEW i \in Item, o1 # o2, Holds(o1, i)', Holds(o2, i)'
               PROVE  i \in overlapped'
    BY DEF TwoHoldersOverlap
  <2>1. CASE o1 # q /\ o2 # q
    BY <1>4, <1>5, <2>1 DEF HoldsFit, TwoHoldersOverlap
  <2>2. CASE o1 = q \/ o2 = q
    BY <1>4, <1>6, <2>2
  <2> QED BY <2>1, <2>2
<1>10. HeldIsUnresolved'
  BY <1>4, <1>5, <1>7 DEF HoldsFit, HeldIsUnresolved
<1>11. OpenIsUnresolved' /\ OnceEach'
  BY <1>5 DEF HoldsFit, OpenIsUnresolved, OnceEach
<1>12. ASSUME NEW i \in Item PROVE (resolutions[i] + Cardinality(Holders(i)) <= Cardinality(Request))'
  <2>1. CASE i = item
    <3>1. Holders(i)' \in SUBSET Request
      BY DEF Holders
    <3>2. Cardinality(Holders(i)') <= Cardinality(Request) /\ Cardinality(Holders(i)') \in Nat
      BY <3>1, PaymentsAssumption, FS_Subset, FS_CardinalityType
    <3>3. Cardinality(Request) \in Nat
      BY PaymentsAssumption, FS_CardinalityType
    <3> HIDE DEF Holders
    <3> QED BY <1>7, <2>1, <3>2, <3>3
  <2>2. CASE i # item
    <3>1. Holders(i)' = Holders(i)
      BY <1>3, <1>4, <2>2 DEF Holders
    <3> QED BY <3>1 DEF HoldsFit, OncePerHolder
  <2> QED BY <2>1, <2>2
<1> QED BY <1>8, <1>9, <1>10, <1>11, <1>12 DEF HoldsFit, OncePerHolder

LEMMA ReviewInit == Init => ReviewInv
<1> SUFFICES ASSUME Init PROVE ReviewInv
  OBVIOUS
<1>1. worker.step = "idle" /\ worker.todo = {} /\ ingested = {}
  BY AtRestType DEF Init, AtRest, FreshWorker
<1>2. TablesFit
  BY <1>1 DEF Init, TablesFit, FileInHand, FlushedInHand, MatchesAreIngested
<1>3. \A q \in Request : \A i : ~Holds(q, i)
  BY DEF Init, Holds, HeldItem, Idle
<1>4. \A i \in Item : resolutions[i] = 0
  BY DEF Init
<1>5. HeldIsPending /\ TwoHoldersOverlap /\ HeldIsUnresolved /\ OpenIsUnresolved /\ OnceEach
  BY <1>3, <1>4 DEF HeldIsPending, TwoHoldersOverlap, HeldIsUnresolved, OpenIsUnresolved, OnceEach, Item
<1>6. OncePerHolder
  <2>1. \A i : Cardinality(Holders(i)) \in Nat /\ Cardinality(Holders(i)) <= Cardinality(Request)
    BY HoldersFinite
  <2>2. Cardinality(Request) \in Nat
    BY PaymentsAssumption, FS_CardinalityType
  <2> HIDE DEF Holders
  <2> QED BY <1>4, <2>1, <2>2 DEF OncePerHolder
<1> QED BY <1>2, <1>5, <1>6, TypeInit DEF ReviewInv, HoldsFit

\* The worker's steps: what is in hand, and the commit.
LEMMA TablesWorkerStep == ReviewInv /\ TypeInv' /\ Ingest => TablesFit'
<1> SUFFICES ASSUME ReviewInv, TypeInv', Ingest PROVE TablesFit'
  OBVIOUS
<1>0. /\ worker \in WorkerState /\ WorkerFits /\ flushed \in [MatchId -> MatchRow]
      /\ FileInHand /\ FlushedInHand /\ MatchesAreIngested
  BY DEF ReviewInv, TypeInv, TypeOK, TablesFit
<1>1. ASSUME NEW f \in File, BeginFile(f) PROVE TablesFit'
  <2> DEFINE S == {t \in Transaction : FileOf[t] = f}
  <2>1. /\ worker' = [worker EXCEPT !.step = "listing", !.file = f, !.todo = S]
        /\ worker = AtRest /\ \A t \in S : FileOf[t] = f
        /\ UNCHANGED <<matches, ingested, flushed>>
    BY <1>1 DEF BeginFile, rows
  <2>2. \A t \in ingested : FileOf[t] # f
    BY <1>1 DEF BeginFile
  <2> HIDE DEF S
  <2>3. worker.step = "idle" /\ worker'.step = "listing" /\ worker'.file = f /\ worker'.todo = S
    BY <1>0, <2>1, AtRestType DEF WorkerState
  <2> QED BY <1>0, <2>1, <2>2, <2>3 DEF TablesFit, FileInHand, FlushedInHand, MatchesAreIngested
<1>2. ASSUME NEW t \in Transaction, ListPayments(t) PROVE TablesFit'
  <2>1. /\ worker.step = "listing" /\ t \in worker.todo
        /\ worker'.step = "matching" /\ worker'.txn = t /\ worker'.todo = worker.todo \ {t}
        /\ worker'.file = worker.file /\ UNCHANGED <<matches, ingested, flushed>>
    BY <1>0, <1>2 DEF ListPayments, WorkerState, rows
  <2> QED BY <1>0, <2>1 DEF TablesFit, FileInHand, FlushedInHand, MatchesAreIngested
<1>3. ASSUME NEW p \in Payment, SkipPayment(p) \/ ChoosePayment(p) PROVE TablesFit'
  <2>1. /\ worker.step = "matching" /\ worker'.step \in {"matching", "inserting"}
        /\ worker'.txn = worker.txn /\ worker'.todo = worker.todo
        /\ worker'.file = worker.file /\ UNCHANGED <<matches, ingested, flushed>>
    BY <1>0, <1>3 DEF SkipPayment, ChoosePayment, WorkerState, rows
  <2> QED BY <1>0, <2>1 DEF TablesFit, FileInHand, FlushedInHand, MatchesAreIngested
<1>4. CASE RecordMatch
  <2>1. /\ worker.step = "inserting" /\ worker'.step = "matching"
        /\ worker'.txn = worker.txn /\ worker'.todo = worker.todo
        /\ worker'.file = worker.file /\ UNCHANGED <<matches, ingested>>
    BY <1>0, <1>4 DEF RecordMatch, WorkerState, rows
  <2>2. \A i \in MatchId : i # <<worker.payment, worker.txn>> => flushed'[i] = flushed[i]
    BY <1>0, <1>4 DEF RecordMatch
  <2>3. FlushedInHand'
    BY <1>0, <2>1, <2>2 DEF FileInHand, FlushedInHand
  <2> QED BY <1>0, <2>1, <2>3 DEF TablesFit, FileInHand, MatchesAreIngested
<1>5. CASE MatchRefused
  <2>1. /\ worker.step = "inserting" /\ worker'.step = "failed"
        /\ worker'.todo = worker.todo /\ worker'.file = worker.file
        /\ UNCHANGED <<matches, ingested>> /\ \A i \in MatchId : flushed'[i] = NoMatch
    BY <1>0, <1>5 DEF MatchRefused, WorkerState, rows
  <2> QED BY <1>0, <2>1 DEF TablesFit, FileInHand, FlushedInHand, MatchesAreIngested
<1>6. CASE NextTransaction
  <2>1. /\ worker.step = "matching" /\ worker'.step = "listing"
        /\ worker'.todo = worker.todo /\ worker'.file = worker.file
        /\ UNCHANGED <<matches, ingested, flushed>>
    BY <1>0, <1>6 DEF NextTransaction, WorkerState, rows
  <2> QED BY <1>0, <2>1 DEF TablesFit, FileInHand, FlushedInHand, MatchesAreIngested
<1>7. CASE CommitFile
  <2>1. /\ worker' = AtRest /\ \A i \in MatchId : flushed'[i] = NoMatch
        /\ ingested' = ingested \cup {t \in Transaction : FileOf[t] = worker.file}
        /\ \A i \in MatchId : matches'[i] = IF flushed[i] # NoMatch THEN flushed[i] ELSE matches[i]
    BY <1>7 DEF CommitFile
  <2>2. worker'.step = "idle" /\ worker'.todo = {}
    BY <2>1, AtRestType DEF AtRest, FreshWorker
  <2>3. MatchesAreIngested'
    BY <1>0, <2>1 DEF FlushedInHand, MatchesAreIngested, MatchId
  <2> QED BY <2>1, <2>2, <2>3 DEF TablesFit, FileInHand, FlushedInHand
<1>8. CASE AbandonFile
  <2>1. worker' = AtRest /\ UNCHANGED <<matches, ingested>> /\ \A i \in MatchId : flushed'[i] = NoMatch
    BY <1>8 DEF AbandonFile, rows
  <2>2. worker'.step = "idle" /\ worker'.todo = {}
    BY <2>1, AtRestType DEF AtRest, FreshWorker
  <2> QED BY <1>0, <2>1, <2>2 DEF TablesFit, FileInHand, FlushedInHand, MatchesAreIngested
<1> QED BY <1>1, <1>2, <1>3, <1>4, <1>5, <1>6, <1>7, <1>8 DEF Ingest

\* A request that changes no table but the status of a match that is there.
LEMMA TablesRequestStep ==
    ASSUME ReviewInv, UNCHANGED <<ingested, flushed>>, worker' = worker \/ worker' = Raced(worker),
           \A i \in MatchId : matches'[i] = matches[i] \/ matches[i] # NoMatch
    PROVE  TablesFit'
<1>1. worker \in WorkerState /\ TablesFit
  BY DEF ReviewInv, TypeInv, TypeOK
<1>2. worker'.step = worker.step /\ worker'.todo = worker.todo /\ worker'.file = worker.file /\ worker'.txn = worker.txn
  BY <1>1, RacedType
<1> QED BY <1>1, <1>2 DEF TablesFit, FileInHand, FlushedInHand, MatchesAreIngested

\* A file's commit adds matches of transactions that had none.
LEMMA CommitAdds ==
    ASSUME ReviewInv, CommitFile
    PROVE  \A i \in MatchId : matches'[i] = matches[i] \/ (matches[i] = NoMatch /\ i[2] \notin ingested)
<1>1. \A i \in MatchId : flushed[i] # NoMatch => i[2] \notin ingested
  <2>1. ASSUME NEW i \in MatchId, flushed[i] # NoMatch PROVE i[2] \notin ingested
    <3>1. worker.step # "idle" /\ FileOf[i[2]] = worker.file
      BY <2>1 DEF ReviewInv, TablesFit, FlushedInHand
    <3> QED BY <3>1 DEF ReviewInv, TablesFit, FileInHand
  <2> QED BY <2>1
<1>2. \A i \in MatchId : matches'[i] = IF flushed[i] # NoMatch THEN flushed[i] ELSE matches[i]
  BY DEF CommitFile
<1> QED BY <1>1, <1>2 DEF ReviewInv, TablesFit, MatchesAreIngested

\* The worker offers only what was never resolved.
LEMMA HoldsWorkerStep == ReviewInv /\ Ingest => HoldsFit'
<1> SUFFICES ASSUME ReviewInv, Ingest PROVE HoldsFit'
  OBVIOUS
<1>1. UNCHANGED <<suggestions, api, resolutions, overlapped>>
  BY DEF Ingest, BeginFile, ListPayments, SkipPayment, ChoosePayment, RecordMatch, MatchRefused,
         NextTransaction, CommitFile, AbandonFile, rows, history
<1>2. \A i \in MatchId : matches'[i] = matches[i] \/ matches[i] = NoMatch
  <2>1. CASE CommitFile
    BY <2>1, CommitAdds
  <2>2. CASE ~CommitFile
    BY <2>2 DEF Ingest, BeginFile, ListPayments, SkipPayment, ChoosePayment, RecordMatch, MatchRefused,
         NextTransaction, AbandonFile, rows
  <2> QED BY <2>1, <2>2
<1>3. NoMatch.status = "none"
  BY DEF NoMatch
<1>4. \A o \in Request, i \in Item : Holds(o, i)' <=> Holds(o, i)
  BY <1>1 DEF Holds, HeldItem
<1>5. \A o \in Request, i \in MatchId : Holds(o, i) => matches'[i] = matches[i]
  BY <1>2, <1>3 DEF ReviewInv, HoldsFit, HeldIsPending
<1>6. HoldsFit /\ TypeInv
  BY DEF ReviewInv
<1>7. /\ \A i \in MatchId : resolutions[i] = 0 \/ matches'[i].status \notin {"none", "pending"}
      /\ \A k \in Pattern : resolutions[k] = 0 \/ suggestions'[k] \notin {"none", "new"}
  BY <1>1, <1>2, <1>3, <1>6 DEF HoldsFit, OpenIsUnresolved
<1> QED BY <1>1, <1>4, <1>5, <1>6, <1>7, CalmStep

\* A removal takes the matches of its transactions, and what was held of them.
LEMMA RemovalStep ==
    ASSUME ReviewInv, TypeInv', NEW f \in File, RemoveStatement(f)
    PROVE  TablesFit' /\ HoldsFit'
<1> DEFINE gone == {t \in ingested : FileOf[t] = f}
<1>1. /\ worker = AtRest /\ UNCHANGED <<worker, flushed, suggestions>> /\ ingested' = ingested \ gone
      /\ \A i \in MatchId : matches'[i] = IF i[2] \in gone THEN NoMatch ELSE matches[i]
      /\ \A q \in Request : api'[q] = IF api[q].txn \in gone THEN [api[q] EXCEPT !.gone = TRUE] ELSE api[q]
      /\ \A i \in Item : resolutions'[i] = IF i \in Payment \X gone THEN 0 ELSE resolutions[i]
      /\ overlapped' = overlapped \ (Payment \X gone)
  BY DEF RemoveStatement
<1>2. gone \subseteq Transaction /\ gone \subseteq ingested
  BY DEF ReviewInv, TypeInv, TypeOK
<1> HIDE DEF gone
<1>3. TablesFit'
  <2>1. worker.step = "idle"
    BY <1>1, AtRestType
  <2>2. FileInHand' /\ FlushedInHand'
    BY <1>1, <2>1 DEF ReviewInv, TablesFit, FileInHand, FlushedInHand
  <2>3. MatchesAreIngested'
    BY <1>1 DEF ReviewInv, TablesFit, MatchesAreIngested
  <2> QED BY <2>2, <2>3 DEF TablesFit
<1>4. \A q \in Request : \A i : Holds(q, i)' => api[q].txn \notin gone /\ Holds(q, i)
  <2> SUFFICES ASSUME NEW q \in Request, NEW i, Holds(q, i)'
               PROVE  api[q].txn \notin gone /\ Holds(q, i)
    OBVIOUS
  <2>1. api[q] \in RequestState
    BY DEF ReviewInv, TypeInv, TypeOK
  <2>2. api[q].txn \notin gone
    <3>1. SUFFICES ASSUME api[q].txn \in gone PROVE FALSE
      OBVIOUS
    <3>2. api'[q] = [api[q] EXCEPT !.gone = TRUE]
      BY <1>1, <3>1
    <3>3. api'[q].gone = TRUE
      BY <2>1, <3>2 DEF RequestState
    <3> QED BY <3>3 DEF Holds
  <2>3. api'[q] = api[q]
    BY <1>1, <2>2
  <2> QED BY <2>2, <2>3 DEF Holds, HeldItem
<1>5. \A q \in Request, i \in Item : Holds(q, i)' => i \notin Payment \X gone
  <2> SUFFICES ASSUME NEW q \in Request, NEW i \in Item, Holds(q, i)', i \in Payment \X gone PROVE FALSE
    OBVIOUS
  <2>1. Holds(q, i) /\ api[q].txn \notin gone
    BY <1>4
  <2>2. CASE api[q].op \in {"approve", "reject"}
    BY <2>1, <2>2 DEF Holds, HeldItem
  <2>3. CASE api[q].op \notin {"approve", "reject"}
    <3>1. i = api[q].pattern /\ i # NoPattern
      BY <2>1, <2>3 DEF Holds, HeldItem
    <3>2. i \in Pattern
      BY <3>1 DEF ReviewInv, TypeInv, RequestFits
    <3>3. i \in Payment \X Transaction
      BY <1>2
    <3> QED BY <3>2, <3>3, PaymentsAssumption
  <2> QED BY <2>2, <2>3
<1>6. \A i \in Item \ (Payment \X gone) : resolutions'[i] = resolutions[i] /\ (i \in overlapped' <=> i \in overlapped)
  BY <1>1
<1>7. \A i \in MatchId : i \notin Payment \X gone => matches'[i] = matches[i]
  BY <1>1 DEF MatchId
<1>8. MatchId \subseteq Item /\ Pattern \subseteq Item /\ \A k \in Pattern : k \notin Payment \X gone
  BY <1>2, PaymentsAssumption DEF Item
<1>9. HeldIsPending'
  BY <1>4, <1>5, <1>6, <1>7, <1>8 DEF ReviewInv, HoldsFit, HeldIsPending
<1>10. TwoHoldersOverlap'
  BY <1>4, <1>5, <1>6 DEF ReviewInv, HoldsFit, TwoHoldersOverlap
<1>11. HeldIsUnresolved'
  BY <1>4, <1>5, <1>6 DEF ReviewInv, HoldsFit, HeldIsUnresolved
<1>12. OpenIsUnresolved'
  <2>1. ASSUME NEW i \in MatchId, matches'[i].status \in {"none", "pending"} PROVE resolutions'[i] = 0
    <3>1. CASE i \in Payment \X gone
      BY <1>1, <1>8, <3>1
    <3>2. CASE i \notin Payment \X gone
      BY <1>6, <1>7, <1>8, <2>1, <3>2 DEF ReviewInv, HoldsFit, OpenIsUnresolved
    <3> QED BY <3>1, <3>2
  <2>2. \A k \in Pattern : suggestions'[k] \in {"none", "new"} => resolutions'[k] = 0
    BY <1>1, <1>6, <1>8 DEF ReviewInv, HoldsFit, OpenIsUnresolved
  <2> QED BY <2>1, <2>2 DEF OpenIsUnresolved
<1>13. OnceEach'
  <2>1. ASSUME NEW i \in Item, i \notin overlapped' PROVE resolutions'[i] <= 1
    <3>1. CASE i \in Payment \X gone
      BY <1>1, <3>1
    <3>2. CASE i \notin Payment \X gone
      BY <1>6, <2>1, <3>2 DEF ReviewInv, HoldsFit, OnceEach
    <3> QED BY <3>1, <3>2
  <2> QED BY <2>1 DEF OnceEach
<1>14. ASSUME NEW i \in Item PROVE (resolutions[i] + Cardinality(Holders(i)) <= Cardinality(Request))'
  <2>1. Holders(i)' \in SUBSET Holders(i)
    BY <1>4 DEF Holders
  <2>2. IsFiniteSet(Holders(i)') /\ Cardinality(Holders(i)') <= Cardinality(Holders(i))
    BY <2>1, HoldersFinite, FS_Subset
  <2>3. Cardinality(Holders(i)') \in Nat
    BY <2>2, FS_CardinalityType
  <2>4. Cardinality(Holders(i)) \in Nat /\ Cardinality(Holders(i)) <= Cardinality(Request) /\ Cardinality(Request) \in Nat
    BY HoldersFinite, PaymentsAssumption, FS_CardinalityType
  <2>5. resolutions'[i] = 0 \/ resolutions'[i] = resolutions[i]
    BY <1>1
  <2>6. resolutions[i] \in Nat /\ resolutions[i] + Cardinality(Holders(i)) <= Cardinality(Request)
    BY DEF ReviewInv, TypeInv, TypeOK, HoldsFit, OncePerHolder
  <2> HIDE DEF Holders
  <2> QED BY <2>2, <2>3, <2>4, <2>5, <2>6
<1> QED BY <1>3, <1>9, <1>10, <1>11, <1>12, <1>13, <1>14 DEF HoldsFit, OncePerHolder

\* A step that leaves matches and resolutions alone, and takes hold of nothing.
LEMMA RegisterStep ==
    ASSUME ReviewInv, TypeInv', UNCHANGED <<matches, ingested, flushed, resolutions, overlapped>>,
           worker' = worker \/ worker' = Raced(worker),
           \A k \in Pattern : suggestions'[k] = suggestions[k] \/ suggestions[k] = "none",
           \A o \in Request, i \in Item : Holds(o, i)' => Holds(o, i)
    PROVE  ReviewInv'
<1>1. TablesFit'
  BY TablesRequestStep
<1>2. HoldsFit /\ TypeInv
  BY DEF ReviewInv
<1>3. /\ \A i \in MatchId : resolutions[i] = 0 \/ matches'[i].status \notin {"none", "pending"}
      /\ \A k \in Pattern : resolutions[k] = 0 \/ suggestions'[k] \notin {"none", "new"}
  BY <1>2 DEF HoldsFit, OpenIsUnresolved
<1>4. HoldsFit'
  BY <1>2, <1>3, CalmStep
<1> QED BY <1>1, <1>4 DEF ReviewInv

\* What each resolution does to the row it holds.
LEMMA ResolutionStep ==
    ASSUME ReviewInv, TypeInv', NEW q \in Request,
           \/ ApproveMatch(q) \/ RejectMatch(q) \/ DismissSuggestion(q)
           \/ \E p \in Payment, d \in Due : AddSuggestion(q, p, d)
    PROVE  TablesFit' /\ HoldsFit'
<1>0. /\ TypeInv /\ HoldsFit /\ RequestFits(q) /\ matches \in [MatchId -> MatchRow]
      /\ suggestions \in [Pattern -> SuggestionStatus] /\ api[q] \in RequestState
  BY DEF ReviewInv, TypeInv, TypeOK
<1>1. ASSUME ApproveMatch(q) \/ RejectMatch(q) PROVE TablesFit' /\ HoldsFit'
  <2> DEFINE item == <<api[q].payment, api[q].txn>>
  <2>1. /\ item \in MatchId /\ item \in Item /\ item \notin Pattern
    <3>1. api[q].payment \in Payment /\ api[q].txn \in Transaction
      BY <1>0, <1>1 DEF ApproveMatch, RejectMatch, RequestFits
    <3> QED BY <3>1, PaymentsAssumption DEF MatchId, Item
  <2>2. Holds(q, item)
    BY <1>1 DEF ApproveMatch, RejectMatch, Holds, HeldItem
  <2>3. /\ \E s \in {"approved", "rejected"} : matches' = [matches EXCEPT ![item].status = s]
        /\ api' = [api EXCEPT ![q] = Idle] /\ Resolved(item)
        /\ UNCHANGED <<ingested, suggestions, flushed, overlapped>>
        /\ worker' = worker \/ worker' = Raced(worker)
    BY <1>1 DEF ApproveMatch, RejectMatch
  <2> HIDE DEF item
  <2>4. /\ \A i \in MatchId : i # item => matches'[i] = matches[i]
        /\ matches'[item].status \in {"approved", "rejected"}
    BY <1>0, <2>1, <2>3 DEF MatchRow
  <2>5. HoldsFit'
    BY <1>0, <2>1, <2>2, <2>3, <2>4, ResolveStep
  <2>6. matches[item] # NoMatch
    BY <1>0, <2>1, <2>2 DEF HoldsFit, HeldIsPending, NoMatch
  <2>7. TablesFit'
    BY <2>3, <2>4, <2>6, TablesRequestStep
  <2> QED BY <2>5, <2>7
<1>2. ASSUME DismissSuggestion(q) \/ \E p \in Payment, d \in Due : AddSuggestion(q, p, d)
      PROVE  TablesFit' /\ HoldsFit'
  <2> DEFINE item == api[q].pattern
  <2>1. item \in Pattern /\ item \in Item /\ item \notin MatchId
    <3>1. api[q].pattern \in Pattern
      BY <1>0, <1>2 DEF DismissSuggestion, AddSuggestion, RequestFits
    <3> QED BY <3>1, PaymentsAssumption DEF MatchId, Item
  <2>2. api[q].op \in {"dismiss", "add"} /\ api[q].txn = NoTransaction
    BY <1>0, <1>2 DEF DismissSuggestion, AddSuggestion, RequestFits
  <2>3. /\ \E s \in {"dismissed", "added"} : suggestions' = [suggestions EXCEPT ![item] = s]
        /\ api' = [api EXCEPT ![q] = Idle] /\ Resolved(item)
        /\ UNCHANGED <<matches, ingested, flushed, overlapped, worker>>
    BY <1>2 DEF DismissSuggestion, AddSuggestion
  <2>4. TablesFit'
    BY <2>3, TablesRequestStep
  <2>5. CASE ~api[q].gone
    <3>1. Holds(q, item)
      BY <2>1, <2>2, <2>5, PaymentsAssumption DEF Holds, HeldItem
    <3> HIDE DEF item
    <3>2. /\ \A k \in Pattern : k # item => suggestions'[k] = suggestions[k]
          /\ suggestions'[item] \in {"dismissed", "added"}
      BY <1>0, <2>1, <2>3
    <3>3. HoldsFit'
      BY <1>0, <2>1, <2>3, <3>1, <3>2, ResolveStep
    <3> QED BY <2>4, <3>3
  <2>6. CASE api[q].gone
    BY <1>0, <2>2, <2>6 DEF RequestFits
  <2> QED BY <1>0, <2>5, <2>6 DEF RequestState
<1> QED BY <1>1, <1>2

LEMMA ReviewStep == ReviewInv /\ [Next]_vars => ReviewInv'
<1> SUFFICES ASSUME ReviewInv, [Next]_vars PROVE ReviewInv'
  OBVIOUS
<1>0. TypeInv /\ TypeInv' /\ HoldsFit /\ TablesFit /\ api \in [Request -> RequestState]
  BY TypeStep DEF ReviewInv, TypeInv, TypeOK
<1>a. ASSUME api' = api PROVE \A o \in Request, i \in Item : Holds(o, i)' => Holds(o, i)
  BY <1>a DEF Holds, HeldItem
<1>1. CASE Ingest
  BY <1>0, <1>1, TablesWorkerStep, HoldsWorkerStep DEF ReviewInv
<1>2. ASSUME NEW f \in File, RemoveStatement(f) PROVE ReviewInv'
  BY <1>0, <1>2, RemovalStep DEF ReviewInv
<1>3. CASE DetectionScan
  <2>1. \A k \in Pattern : suggestions'[k] = suggestions[k] \/ suggestions[k] = "none"
    BY <1>3 DEF DetectionScan, Suggestible
  <2> QED BY <1>0, <1>3, <1>a, <2>1, RegisterStep DEF DetectionScan, history
<1>4. ASSUME NEW S \in SUBSET Payment, NEW d \in Due, CreatePayments(S, d) PROVE ReviewInv'
  BY <1>0, <1>4, <1>a, RegisterStep DEF CreatePayments, history
<1>5. ASSUME NEW p \in Payment, NEW d \in Due, UpdatePayment(p, d) PROVE ReviewInv'
  BY <1>0, <1>5, <1>a, RegisterStep DEF UpdatePayment, history
<1>6. ASSUME NEW q \in Request, NEW p \in Payment, LoadPayment(q, p) PROVE ReviewInv'
  <2>1. api'[q] = [Idle EXCEPT !.op = "delete", !.payment = p] /\ \A o \in Request \ {q} : api'[o] = api[o]
    BY <1>0, <1>6 DEF LoadPayment
  <2>2. \A i : ~Holds(q, i)'
    BY <2>1 DEF Holds, HeldItem, Idle
  <2>3. \A o \in Request, i \in Item : Holds(o, i)' => Holds(o, i)
    BY <2>1, <2>2 DEF Holds, HeldItem
  <2> QED BY <1>0, <1>6, <2>3, RegisterStep DEF LoadPayment, rows, history
<1>7. ASSUME NEW q \in Request, DeletePayment(q) \/ RefuseDeletion(q) \/ DropReview(q) PROVE ReviewInv'
  <2>1. api' = [api EXCEPT ![q] = Idle]
    BY <1>7 DEF DeletePayment, RefuseDeletion, DropReview
  <2>2. \A o \in Request, i \in Item : Holds(o, i)' => Holds(o, i)
    BY <1>0, <2>1, LetGo
  <2> QED BY <1>0, <1>7, <2>2, RegisterStep DEF DeletePayment, RefuseDeletion, DropReview, rows, history
<1>8. ASSUME NEW q \in Request,
             \/ ApproveMatch(q) \/ RejectMatch(q) \/ DismissSuggestion(q)
             \/ \E p \in Payment, d \in Due : AddSuggestion(q, p, d)
      PROVE  ReviewInv'
  BY <1>0, <1>8, ResolutionStep DEF ReviewInv
<1>9. ASSUME NEW q \in Request, NEW op \in {"approve", "reject"}, NEW p \in Payment, NEW t \in Transaction,
             LoadMatch(q, op, p, t)
      PROVE  ReviewInv'
  <2> DEFINE r == [Idle EXCEPT !.op = op, !.payment = p, !.txn = t]
             item == <<p, t>>
  <2>1. /\ r \in RequestState /\ r.op = op /\ r.payment = p /\ r.txn = t
        /\ item \in MatchId /\ item \in Item /\ item \notin Pattern
    <3>1. r \in RequestState /\ r.op = op /\ r.payment = p /\ r.txn = t
      BY DEF Idle, RequestState, ResolveOp
    <3>2. item \in MatchId
      BY DEF MatchId
    <3> HIDE DEF item, r
    <3> QED BY <3>1, <3>2, PaymentsAssumption DEF Item, MatchId
  <2>2. Hold(q, r, item) /\ matches[item].status = "pending"
    BY <1>9 DEF LoadMatch
  <2>3. UNCHANGED <<matches, ingested, suggestions, flushed, worker, resolutions>>
    BY <2>2 DEF Hold, rows
  <2>4. item = <<r.payment, r.txn>>
    BY <2>1
  <2> HIDE DEF r, item
  <2>5. HoldsFit'
    BY <1>0, <2>1, <2>2, <2>3, <2>4, HoldStep
  <2>6. TablesFit'
    BY <2>3, TablesRequestStep
  <2> QED BY <1>0, <2>5, <2>6 DEF ReviewInv
<1>10. ASSUME NEW q \in Request, NEW op \in {"dismiss", "add"}, NEW k \in Pattern, LoadSuggestion(q, op, k)
      PROVE  ReviewInv'
  <2> DEFINE r == [Idle EXCEPT !.op = op, !.pattern = k]
  <2>1. /\ r \in RequestState /\ r.op = op /\ r.pattern = k /\ k \in Item /\ k \notin MatchId
    BY PaymentsAssumption DEF Idle, RequestState, ResolveOp, Item, MatchId
  <2>2. Hold(q, r, k) /\ suggestions[k] = "new"
    BY <1>10 DEF LoadSuggestion
  <2>3. UNCHANGED <<matches, ingested, suggestions, flushed, worker, resolutions>>
    BY <2>2 DEF Hold, rows
  <2> HIDE DEF r
  <2>4. HoldsFit'
    BY <1>0, <2>1, <2>2, <2>3, HoldStep
  <2>5. TablesFit'
    BY <2>3, TablesRequestStep
  <2> QED BY <1>0, <2>4, <2>5 DEF ReviewInv
<1>11. CASE UNCHANGED vars
  BY <1>0, <1>11, <1>a, RegisterStep DEF vars, rows, history
<1> QED
  BY <1>1, <1>2, <1>3, <1>4, <1>5, <1>6, <1>7, <1>8, <1>9, <1>10, <1>11
  DEF Next, Register, Review

\* Nothing is resolved twice unless two requests held it unresolved, and then
\* at most once by each request there is (BR-23).
THEOREM NothingIsOfferedAgain == Spec => []ResolvedOnceUnlessRaced
<1>1. ReviewInv => ResolvedOnceUnlessRaced
  <2> SUFFICES ASSUME ReviewInv, NEW i \in Item
               PROVE  resolutions[i] <= (IF i \in overlapped THEN Cardinality(Request) ELSE 1)
    BY DEF ResolvedOnceUnlessRaced
  <2>1. resolutions[i] + Cardinality(Holders(i)) <= Cardinality(Request)
    BY DEF ReviewInv, HoldsFit, OncePerHolder
  <2>2. resolutions[i] \in Nat /\ Cardinality(Holders(i)) \in Nat /\ Cardinality(Request) \in Nat
    BY HoldersFinite, PaymentsAssumption, FS_CardinalityType DEF ReviewInv, TypeInv, TypeOK
  <2>3. i \notin overlapped => resolutions[i] <= 1
    BY DEF ReviewInv, HoldsFit, OnceEach
  <2> HIDE DEF Holders
  <2> QED BY <2>1, <2>2, <2>3
<1> QED BY <1>1, ReviewInit, ReviewStep, PTL DEF Spec

----------------------------------------------------------------------------
(* A settled cycle stays matched.                                          *)

Settled == {"approved", "auto_applied"}

\* What was live in its cycle and is so still keeps the cycle matched.
LEMMA StillLive ==
    ASSUME NEW i \in MatchId, matches[i].status \in Settled, matches'[i].status \in LiveStatus,
           matches'[i].cycle = matches[i].cycle
    PROVE  LiveIn(matches', i[1], matches[i].cycle) # {}
<1>1. i[2] \in Transaction /\ i = <<i[1], i[2]>>
  BY DEF MatchId
<1>2. i[2] \in LiveIn(matches', i[1], matches[i].cycle)
  BY <1>1 DEF LiveIn
<1> QED BY <1>2

\* A cycle that is approved or auto-applied stays matched until its statement
\* is removed, or a rejection that overlapped the approval is written
\* (recurring_payments/repository.py).
THEOREM SettledCyclesStayMatched == Spec => SettledCyclesStay
<1>1. ReviewInv /\ [Next]_vars =>
        [\A i \in MatchId :
           matches[i].status \in {"approved", "auto_applied"} =>
               \/ LiveIn(matches', i[1], matches[i].cycle) # {}
               \/ i[2] \notin ingested'
               \/ i \in overlapped]_vars
  <2> SUFFICES ASSUME ReviewInv, [Next]_vars, NEW i \in MatchId, matches[i].status \in Settled
               PROVE  \/ LiveIn(matches', i[1], matches[i].cycle) # {}
                      \/ i[2] \notin ingested'
                      \/ i \in overlapped
    BY DEF Settled
  <2>0. /\ TypeInv /\ HoldsFit /\ matches \in [MatchId -> MatchRow]
        /\ Settled \subseteq LiveStatus /\ NoMatch.status \notin Settled
    BY DEF ReviewInv, TypeInv, TypeOK, Settled, LiveStatus, NoMatch
  <2>1. CASE matches'[i] = matches[i]
    BY <2>0, <2>1, StillLive
  <2>2. ASSUME NEW f \in File, RemoveStatement(f), matches'[i] # matches[i]
        PROVE  i[2] \notin ingested'
    BY <2>2 DEF RemoveStatement
  <2>3. CASE CommitFile
    BY <2>0, <2>1, <2>3, CommitAdds
  <2>4. ASSUME NEW q \in Request, ApproveMatch(q)
        PROVE  LiveIn(matches', i[1], matches[i].cycle) # {}
    <3>1. matches'[i].status \in LiveStatus /\ matches'[i].cycle = matches[i].cycle
      BY <2>0, <2>4 DEF ApproveMatch, MatchRow, LiveStatus
    <3> QED BY <3>1, StillLive
  <2>5. ASSUME NEW q \in Request, RejectMatch(q), matches'[i] # matches[i]
        PROVE  i \in overlapped
    <3>1. i = <<api[q].payment, api[q].txn>>
      BY <2>0, <2>5 DEF RejectMatch
    <3>2. Holds(q, i)
      BY <2>5, <3>1 DEF RejectMatch, Holds, HeldItem
    <3> QED BY <3>2 DEF ReviewInv, HoldsFit, HeldIsPending, Settled
  <2>6. CASE Ingest /\ ~CommitFile
    <3>1. matches' = matches
      BY <2>6 DEF Ingest, BeginFile, ListPayments, SkipPayment, ChoosePayment, RecordMatch, MatchRefused,
           NextTransaction, AbandonFile, rows
    <3> QED BY <2>1, <3>1
  <2>7. CASE DetectionScan \/ Register \/ UNCHANGED vars
    <3>1. matches' = matches
      BY <2>7 DEF DetectionScan, Register, CreatePayments, UpdatePayment, LoadPayment, DeletePayment,
           RefuseDeletion, vars, rows
    <3> QED BY <2>1, <3>1
  <2>8. CASE Review /\ (\A q \in Request : ~ApproveMatch(q) /\ ~RejectMatch(q))
    <3>1. matches' = matches
      BY <2>8 DEF Review, LoadMatch, LoadSuggestion, Hold, DropReview, DismissSuggestion, AddSuggestion, rows
    <3> QED BY <2>1, <3>1
  <2> QED BY <2>1, <2>2, <2>3, <2>4, <2>5, <2>6, <2>7, <2>8 DEF Next
<1> QED BY <1>1, ReviewInit, ReviewStep, PTL DEF Spec, SettledCyclesStay

=============================================================================
