--------------------------- MODULE AccountsProofs ---------------------------
(***************************************************************************)
(* Proofs about Accounts, for any accounts, keys, statements and requests: *)
(* sections follow their keys through merges and ingestion, requests do    *)
(* not wait for each other, and only races change the user's types.        *)
(***************************************************************************)
EXTENDS Accounts, SequenceTheorems, TLAPS

----------------------------------------------------------------------------
(* Types.                                                                  *)

LEMMA AtRestType ==
    /\ AtRest \in WorkerState /\ [AtRest EXCEPT !.step = "failed"] \in WorkerState
    /\ \A wk \in {AtRest, [AtRest EXCEPT !.step = "failed"]} :
          /\ wk.resolved = {} /\ wk.pinned = {} /\ wk.statement = NoStatement /\ wk.created = NoTypes
          /\ wk.todo = <<>> /\ wk.step \in {"idle", "failed"}
<1>1. AtRest \in WorkerState
  BY DEF AtRest, WorkerState, NoTypes, NothingLoaded, AccountType
<1>2. [AtRest EXCEPT !.step = "failed"] \in WorkerState
  BY <1>1 DEF WorkerState
<1>3. ASSUME NEW wk \in {AtRest, [AtRest EXCEPT !.step = "failed"]}
      PROVE  /\ wk.resolved = {} /\ wk.pinned = {} /\ wk.statement = NoStatement /\ wk.created = NoTypes
             /\ wk.todo = <<>> /\ wk.step \in {"idle", "failed"}
  BY DEF AtRest
<1> QED BY <1>1, <1>2, <1>3

\* A worker at a file has a statement.
StatementInHand == worker.step \in {"resolving", "recording"} => worker.statement \in Statement
TypeInv == TypeOK /\ StatementInHand

LEMMA IdleType ==
    /\ Idle \in RequestState
    /\ Idle.held = {} /\ Idle.seen = {} /\ Idle.op = "idle"
    /\ Idle.account = NoAccount /\ Idle.other = NoAccount
BY DEF Idle, RequestState, AccountType

\* The account a key is found at is an account.
LEMMA FoundType ==
    ASSUME TypeInv, NEW k \in Key
    PROVE  Found(k) \subseteq Account
BY DEF TypeInv, TypeOK, WorkerState, Found

\* The key in hand and those after it.
LEMMA TodoType ==
    ASSUME TypeInv, worker.todo # <<>>
    PROVE  Head(worker.todo) \in Key /\ Tail(worker.todo) \in Seq(Key)
<1>1. worker.todo \in Seq(Key)
  BY DEF TypeInv, TypeOK, WorkerState
<1> QED BY <1>1, HeadTailProperties

LEMMA TypeInit == Init => TypeInv
<1> SUFFICES ASSUME Init PROVE TypeInv
  OBVIOUS
<1>1. accounts \in [Account -> AccountRow]
  BY DEF Init, Unused, AccountRow, AccountType
<1>2. worker \in WorkerState /\ worker.step \in {"idle", "failed"}
  BY AtRestType DEF Init
<1> QED BY <1>1, <1>2, IdleType DEF Init, TypeInv, TypeOK, StatementInHand

\* A worker that lets go of its file.
LEMMA LetGoType ==
    ASSUME TypeInv, worker' \in {AtRest, [AtRest EXCEPT !.step = "failed"]},
           api' \in [Request -> RequestState], raced' \subseteq Account, UNCHANGED Rows
    PROVE  TypeInv'
<1>1. worker' \in WorkerState /\ worker'.step \in {"idle", "failed"}
  BY AtRestType
<1> QED BY <1>1 DEF TypeInv, TypeOK, StatementInHand, Rows

\* A step of the worker within a file.
LEMMA WithinFileType ==
    ASSUME TypeInv, worker' \in WorkerState, worker'.statement = worker.statement,
           worker.step \in {"resolving", "recording"}, UNCHANGED <<Rows, api, raced>>
    PROVE  TypeInv'
BY DEF TypeInv, TypeOK, StatementInHand, Rows

\* A request that begins or ends.
LEMMA RequestsType ==
    ASSUME TypeInv, NEW q \in Request, NEW r \in RequestState, api' = [api EXCEPT ![q] = r]
    PROVE  api' \in [Request -> RequestState]
BY DEF TypeInv, TypeOK

LEMMA TypeStep == TypeInv /\ [Next]_vars => TypeInv'
<1> SUFFICES ASSUME TypeInv, [Next]_vars PROVE TypeInv'
  OBVIOUS
<1> USE DEF Rows
<1>0. /\ accounts \in [Account -> AccountRow] /\ worker \in WorkerState /\ api \in [Request -> RequestState]
      /\ keyOf \in [Key -> Account \cup {NoAccount}] /\ sections \subseteq SectionRow
      /\ anchors \in [Account -> Balance \cup {NoBalance}] /\ raced \subseteq Account
  BY DEF TypeInv, TypeOK
<1>1. ASSUME NEW s \in Statement, BeginFile(s) PROVE TypeInv'
  <2>1. Sections[s] \in Seq(Key)
    BY AccountsAssumption
  <2>2. worker' \in WorkerState /\ worker'.statement = s
    BY <1>1, <2>1 DEF BeginFile, AtRest, NoTypes, NothingLoaded, AccountType, WorkerState
  <2> QED BY <1>1, <2>2 DEF BeginFile, TypeInv, TypeOK, StatementInHand
<1>2. ASSUME NEW s \in Statement, RemoveStatement(s) PROVE TypeInv'
  BY <1>2 DEF RemoveStatement, TypeInv, TypeOK, StatementInHand
<1>3. ASSUME NEW a \in Account, FlushType(a) PROVE TypeInv'
  <2>1. worker.planned[a] \in AccountType \cup {"no"} /\ "no" \in AccountType \cup {"no"}
    BY <1>0 DEF WorkerState
  <2>2. worker' \in WorkerState /\ worker'.statement = worker.statement
    BY <1>0, <1>3, <2>1 DEF FlushType, WorkerState
  <2> QED BY <1>3, <2>2, WithinFileType DEF FlushType, MustFlush
<1>4. ASSUME NEW a \in Account, CreateAccount(a) PROVE TypeInv'
  <2>1. Head(worker.todo) \in Key /\ Tail(worker.todo) \in Seq(Key)
    BY <1>4, TodoType DEF CreateAccount
  <2>2. ReadType[worker.statement][Head(worker.todo)] \in AccountType
    BY <1>4, <2>1, AccountsAssumption DEF CreateAccount, TypeInv, StatementInHand
  <2> DEFINE C == [worker.created EXCEPT ![a] = ReadType[worker.statement][Head(worker.todo)]]
             R == worker.resolved \cup {[key |-> Head(worker.todo), account |-> a]}
  <2>3. C \in [Account -> AccountType \cup {"no"}]
    BY <1>0, <2>2 DEF WorkerState
  <2>4. R \subseteq [key : Key, account : Account]
    BY <1>0, <2>1 DEF WorkerState
  <2>5. worker' = [worker EXCEPT !.todo = Tail(worker.todo), !.created = C, !.resolved = R]
    BY <1>0, <1>4 DEF CreateAccount, WorkerState
  <2> HIDE DEF C, R
  <2>6. worker' \in WorkerState /\ worker'.statement = worker.statement
    BY <1>0, <2>1, <2>3, <2>4, <2>5 DEF WorkerState
  <2> QED BY <1>4, <2>6, WithinFileType DEF CreateAccount
<1>5. ASSUME NEW a \in Account, PinSection(a) PROVE TypeInv'
  <2>1. worker' \in WorkerState /\ worker'.statement = worker.statement
    BY <1>0, <1>5 DEF PinSection, WorkerState
  <2> QED BY <1>5, <2>1, WithinFileType DEF PinSection
<1>6. CASE ResolveKnown
  <2>1. Head(worker.todo) \in Key /\ Tail(worker.todo) \in Seq(Key)
    BY <1>6, TodoType DEF ResolveKnown
  <2> DEFINE k == Head(worker.todo)  t == ReadType[worker.statement][k]
  <2>2. t \in AccountType
    BY <1>6, <2>1, AccountsAssumption DEF ResolveKnown, TypeInv, StatementInHand
  <2> HIDE DEF k, t
  <2>3. PICK a \in Found(k) :
           worker' = [worker EXCEPT !.todo = Tail(@), !.read = @ \cup {a}, !.loaded[a] = AsLoaded(a),
                                    !.resolved = @ \cup {[key |-> k, account |-> a]},
                                    !.planned[a] = IF LearnsType(a, t) THEN t ELSE @]
    BY <1>6 DEF ResolveKnown, k, t
  <2>4. a \in Account
    BY <2>1, FoundType DEF k
  <2>5. worker.planned[a] \in AccountType \cup {"no"}
    BY <1>0, <2>4 DEF WorkerState
  <2> DEFINE P == [worker.planned EXCEPT ![a] = IF LearnsType(a, t) THEN t ELSE worker.planned[a]]
             R == worker.resolved \cup {[key |-> k, account |-> a]}
             L == [worker.loaded EXCEPT ![a] = AsLoaded(a)]
  <2>6. L \in [Account -> [type : AccountType, userSet : BOOLEAN]]
    BY <1>0, <2>4 DEF WorkerState, AccountRow, AsLoaded
  <2>7. P \in [Account -> AccountType \cup {"no"}]
    BY <1>0, <2>2, <2>4, <2>5 DEF WorkerState
  <2>8. R \subseteq [key : Key, account : Account]
    BY <1>0, <2>1, <2>4 DEF WorkerState, k
  <2>9. worker' = [worker EXCEPT !.todo = Tail(worker.todo), !.read = worker.read \cup {a}, !.loaded = L,
                               !.resolved = R, !.planned = P]
    BY <1>0, <2>3 DEF WorkerState
  <2> HIDE DEF P, R, L
  <2>10. worker' \in WorkerState /\ worker'.statement = worker.statement
    BY <1>0, <2>1, <2>4, <2>7, <2>8, <2>9, <2>6 DEF WorkerState
  <2> QED BY <1>6, <2>10, WithinFileType DEF ResolveKnown
<1>7. CASE BeginRecording
  <2>1. worker' \in WorkerState /\ worker'.statement = worker.statement
    BY <1>0, <1>7 DEF BeginRecording, WorkerState
  <2> QED BY <1>7, <2>1, WithinFileType DEF BeginRecording
<1>8. CASE AccountGone \/ AbandonFile
  BY <1>0, <1>8, LetGoType DEF AccountGone, AbandonFile
<1>9. CASE CommitFile
  <2>1. \A a \in Account : /\ worker.created[a] \in AccountType \cup {"no"}
                           /\ worker.planned[a] \in AccountType \cup {"no"}
                           /\ worker.flushed[a] \in AccountType \cup {"no"}
    BY <1>0 DEF WorkerState
  <2>2. accounts' \in [Account -> AccountRow]
    BY <1>0, <1>9, <2>1 DEF CommitFile, AccountRow
  <2>3. keyOf' \in [Key -> Account \cup {NoAccount}]
    <3>1. ASSUME NEW k \in Key, \E r \in worker.resolved : r.key = k
          PROVE  (CHOOSE r \in worker.resolved : r.key = k).account \in Account
      BY <1>0, <3>1 DEF WorkerState
    <3> QED BY <1>0, <1>9, <3>1 DEF CommitFile
  <2>4. sections' \subseteq SectionRow
    <3>1. \A a \in ResolvedTo :
             [statement |-> worker.statement, account |-> a,
              keys |-> {r.key : r \in {x \in worker.resolved : x.account = a}}] \in SectionRow
      <4>1. worker.statement \in Statement
        BY <1>9 DEF CommitFile, TypeInv, StatementInHand
      <4>2. ResolvedTo \subseteq Account /\ \A r \in worker.resolved : r.key \in Key
        BY <1>0 DEF ResolvedTo, WorkerState
      <4> QED BY <4>1, <4>2 DEF SectionRow
    <3> QED BY <1>0, <1>9, <3>1 DEF CommitFile
  <2>5. worker' \in WorkerState /\ worker'.step \in {"idle", "failed"}
    BY <1>9, AtRestType DEF CommitFile
  <2> QED BY <1>0, <1>9, <2>2, <2>3, <2>4, <2>5 DEF CommitFile, TypeInv, TypeOK, StatementInHand
<1>10. ASSUME NEW q \in Request, NEW a \in Account, NEW t \in UserType, AskRetype(q, a, t) PROVE TypeInv'
  <2>1. [Idle EXCEPT !.op = "retype", !.account = a, !.type = t, !.seen = {a}, !.held = {a}] \in RequestState
    BY AccountsAssumption DEF Idle, RequestState, AccountType
  <2>2. api' = [api EXCEPT ![q] = [Idle EXCEPT !.op = "retype", !.account = a, !.type = t, !.seen = {a}, !.held = {a}]]
    BY <1>10 DEF AskRetype, Ask, Idle
  <2> QED BY <1>0, <1>10, <2>1, <2>2, RequestsType DEF AskRetype, Ask, TypeInv, TypeOK, StatementInHand
<1>11. ASSUME NEW q \in Request, NEW a \in Account, NEW b \in Balance, AskAnchor(q, a, b) PROVE TypeInv'
  <2>1. [Idle EXCEPT !.op = "anchor", !.account = a, !.balance = b, !.seen = {a}, !.held = {a}] \in RequestState
    BY DEF Idle, RequestState, AccountType
  <2>2. api' = [api EXCEPT ![q] = [Idle EXCEPT !.op = "anchor", !.account = a, !.balance = b, !.seen = {a}, !.held = {a}]]
    BY <1>11 DEF AskAnchor, Ask, Idle
  <2> QED BY <1>0, <1>11, <2>1, <2>2, RequestsType DEF AskAnchor, Ask, TypeInv, TypeOK, StatementInHand
<1>12. ASSUME NEW q \in Request, NEW a \in Account, NEW b \in Account, NEW keep \in Account \cup {NoAccount},
              AskMerge(q, a, b, keep)
       PROVE  TypeInv'
  <2> DEFINE f == FirstToLock(a, b)
             r == [Idle EXCEPT !.op = "merge", !.account = a, !.other = b, !.keep = keep, !.seen = {f}, !.held = {f}]
  <2>1. f \in Account
    BY DEF FirstToLock
  <2> HIDE DEF f
  <2>2. r \in RequestState
    BY <2>1 DEF Idle, RequestState, AccountType
  <2>3. api' = [api EXCEPT ![q] = r]
    BY <1>12 DEF AskMerge, Ask, Idle, f
  <2> HIDE DEF r
  <2> QED BY <1>0, <1>12, <2>2, <2>3, RequestsType DEF AskMerge, Ask, TypeInv, TypeOK, StatementInHand
<1>13. ASSUME NEW q \in Request, LockAccount(q) PROVE TypeInv'
  <2>1. api[q] \in RequestState
    BY <1>0
  <2>2. PICK a \in NextToLock(q) :
           api' = [api EXCEPT ![q].seen = @ \cup {a}, ![q].held = IF a \in Kept THEN @ \cup {a} ELSE @]
    BY <1>13 DEF LockAccount
  <2> DEFINE H == IF a \in Kept THEN api[q].held \cup {a} ELSE api[q].held
             r == [api[q] EXCEPT !.seen = api[q].seen \cup {a}, !.held = H]
  <2>3. a \in Account /\ H \subseteq Account
    BY <2>1 DEF NextToLock, RequestState
  <2>4. api' = [api EXCEPT ![q] = r]
    BY <1>0, <2>1, <2>2 DEF RequestState
  <2> HIDE DEF H
  <2>5. r \in RequestState
    BY <2>1, <2>3 DEF RequestState
  <2> HIDE DEF r
  <2>6. api' \in [Request -> RequestState]
    BY <2>4, <2>5, RequestsType
  <2> QED BY <1>0, <1>13, <2>6 DEF LockAccount, TypeInv, TypeOK, StatementInHand
<1>14. ASSUME NEW q \in Request, Retype(q) \/ SetAnchor(q) \/ Merge(q) \/ Refuse(q) PROVE TypeInv'
  <2>1. api' \in [Request -> RequestState] /\ api[q] \in RequestState
    BY <1>0, <1>14, IdleType, RequestsType DEF Retype, SetAnchor, Merge, Refuse, Answer
  <2>2. api[q].account \in Account \cup {NoAccount} /\ api[q].other \in Account \cup {NoAccount}
        /\ api[q].type \in AccountType /\ api[q].balance \in Balance \cup {NoBalance} /\ api[q].held \subseteq Account
        /\ api[q].keep \in Account \cup {NoAccount}
    BY <2>1 DEF RequestState
  <2>3. CASE Retype(q)
    <3>1. accounts' \in [Account -> AccountRow]
      BY <1>0, <2>2, <2>3 DEF Retype, AccountRow
    <3>2. raced' \subseteq Account
      BY <1>0, <2>2, <2>3 DEF Retype, WorkerState
    <3> QED BY <1>0, <2>1, <2>3, <3>1, <3>2 DEF Retype, TypeInv, TypeOK, StatementInHand
  <2>4. CASE SetAnchor(q)
    <3>1. anchors' \in [Account -> Balance \cup {NoBalance}]
      BY <1>0, <2>2, <2>4 DEF SetAnchor
    <3> QED BY <1>0, <2>1, <2>4, <3>1 DEF SetAnchor, TypeInv, TypeOK, StatementInHand
  <2>5. CASE Merge(q)
    <3> DEFINE a == api[q].account  b == api[q].other
    <3>1. a \in Account /\ b \in Account
      BY <2>2, <2>5 DEF Merge, Mergeable
    <3>2. /\ accounts' = [accounts EXCEPT
                ![a].type = IF ~accounts[a].userSet /\ accounts[b].userSet THEN accounts[b].type ELSE @,
                ![a].userSet = @ \/ (~accounts[a].userSet /\ accounts[b].userSet),
                ![b].state = "merged"]
          /\ keyOf' = KeysFollow(a, b)
          /\ anchors' = [anchors EXCEPT ![a] = KeptAnchor(a, b, api[q].keep), ![b] = NoBalance]
          /\ sections' = {[r EXCEPT !.account = IF @ = b THEN a ELSE @] : r \in sections}
      BY <2>5 DEF Merge
    <3> HIDE DEF a, b
    <3>3. accounts' \in [Account -> AccountRow]
      <4> DEFINE typed == ~accounts[a].userSet /\ accounts[b].userSet
                 kind == IF typed THEN accounts[b].type ELSE accounts[a].type
                 set == accounts[a].userSet \/ typed
      <4>1. accounts[a] \in AccountRow /\ accounts[b] \in AccountRow
        BY <1>0, <3>1
      <4>2. kind \in AccountType /\ set \in BOOLEAN
        BY <4>1 DEF AccountRow
      <4>3. accounts' = [accounts EXCEPT ![a].type = kind, ![a].userSet = set, ![b].state = "merged"]
        BY <1>0, <3>1, <3>2
      <4> HIDE DEF typed, kind, set
      <4> DEFINE once == [accounts EXCEPT ![a].type = kind, ![a].userSet = set]
      <4>4. once \in [Account -> AccountRow]
        BY <1>0, <3>1, <4>1, <4>2 DEF AccountRow
      <4>5. accounts' = [once EXCEPT ![b].state = "merged"]
        BY <4>3
      <4> HIDE DEF once
      <4> QED BY <3>1, <4>4, <4>5 DEF AccountRow
    <3>4. keyOf' \in [Key -> Account \cup {NoAccount}]
      BY <1>0, <3>1, <3>2 DEF KeysFollow
    <3>5. anchors' \in [Account -> Balance \cup {NoBalance}]
      <4>1. KeptAnchor(a, b, api[q].keep) \in Balance \cup {NoBalance}
        BY <1>0, <2>2, <3>1 DEF KeptAnchor
      <4> QED BY <1>0, <3>1, <3>2, <4>1
    <3>6. sections' \subseteq SectionRow
      BY <1>0, <3>1, <3>2 DEF SectionRow
    <3>7. raced' \subseteq Account /\ worker' = worker
      BY <1>0, <2>2, <2>5, <3>1 DEF Merge, WorkerState, a
    <3> QED BY <1>0, <2>1, <3>3, <3>4, <3>5, <3>6, <3>7 DEF TypeInv, TypeOK, StatementInHand
  <2>6. CASE Refuse(q)
    BY <1>0, <2>1, <2>6 DEF Refuse, TypeInv, TypeOK, StatementInHand
  <2> QED BY <1>14, <2>3, <2>4, <2>5, <2>6
<1>15. ASSUME NEW q \in Request, BreakDeadlock(q) PROVE TypeInv'
  <2>1. api' \in [Request -> RequestState]
    BY <1>0, <1>15, IdleType, RequestsType DEF BreakDeadlock, Answer
  <2>2. CASE worker' = worker
    BY <1>0, <1>15, <2>1, <2>2 DEF BreakDeadlock, TypeInv, TypeOK, StatementInHand
  <2>3. CASE worker' = [AtRest EXCEPT !.step = "failed"]
    BY <1>0, <1>15, <2>1, <2>3, LetGoType DEF BreakDeadlock
  <2> QED BY <1>15, <2>2, <2>3 DEF BreakDeadlock
<1>16. CASE UNCHANGED vars
  BY <1>16 DEF vars, TypeInv, TypeOK, StatementInHand
<1> QED
  BY <1>1, <1>2, <1>3, <1>4, <1>5, <1>6, <1>7, <1>8, <1>9, <1>10, <1>11, <1>12, <1>13, <1>14, <1>15, <1>16
  DEF Next, Ingest, Manage

----------------------------------------------------------------------------
(* Sections follow their keys.                                             *)

\* A key leads to an account that exists.
KeysLead == \A k \in Key : keyOf[k] \in Account => keyOf[k] \in Kept

\* The accounts this file creates are not there yet.
NewAccounts == \A a \in Account : worker.created[a] # "no" => accounts[a].state = "unused"

\* A key is resolved to an account this file creates, and leads nowhere yet; or to
\* one that was kept, and leads there unless that account has been merged away.
Resolutions ==
    \A r \in worker.resolved :
        \/ worker.created[r.account] # "no" /\ keyOf[r.key] = NoAccount
        \/ /\ worker.created[r.account] = "no" /\ accounts[r.account].state # "unused"
           /\ keyOf[r.key] \in Account /\ (r.account \in Kept => keyOf[r.key] = r.account)

\* No key is resolved to two accounts if one of them is new.
NewOnce ==
    \A r, o \in worker.resolved : r.key = o.key /\ worker.created[r.account] # "no" => r = o

\* What the worker has pinned is there, or will be with its commit.
PinnedStay == \A a \in worker.pinned : worker.created[a] # "no" \/ a \in Kept

\* The statement in hand has no sections yet.
FileIsNew == \A r \in sections : r.statement # worker.statement

FileInv == NewAccounts /\ Resolutions /\ NewOnce /\ PinnedStay /\ FileIsNew

\* A request holds accounts that exist, which no other transaction holds, and has
\* one more to lock at most.
LocksFit ==
    /\ \A q \in Request :
          /\ api[q].held \subseteq Kept /\ api[q].held \cap worker.pinned = {}
          /\ api[q].op = "merge" => api[q].account # api[q].other
          /\ \A a, b \in NextToLock(q) : a = b
    /\ \A q, o \in Request : q # o => api[q].held \cap api[o].held = {}

\* It locks them in the order of their ids.
LockOrder == \A q \in Request : \A a \in api[q].held, b \in NextToLock(q) : Id[a] < Id[b]

AccountsInv ==
    /\ TypeInv /\ KeysLead /\ SectionsFollowKeys
    /\ FileInv
    /\ LocksFit /\ LockOrder

LEMMA AccountsInit == Init => AccountsInv
<1> SUFFICES ASSUME Init PROVE AccountsInv
  OBVIOUS
<1>1. /\ worker.resolved = {} /\ worker.pinned = {} /\ \A a \in Account : worker.created[a] = "no"
      /\ sections = {} /\ \A k \in Key : keyOf[k] \notin Account
  BY AtRestType, AccountsAssumption DEF Init, NoTypes
<1>2. \A q \in Request : api[q].held = {} /\ NextToLock(q) = {} /\ api[q].op = "idle"
  BY IdleType, AccountsAssumption DEF Init, NextToLock
<1> QED BY <1>1, <1>2, TypeInit
        DEF AccountsInv, KeysLead, SectionsFollowKeys, FileInv, NewAccounts, Resolutions, NewOnce,
            PinnedStay, FileIsNew, LocksFit, LockOrder

----------------------------------------------------------------------------
(* Steps of the worker.                                                    *)

\* A step of the worker that writes no row.
LEMMA WorkerOnly ==
    ASSUME AccountsInv, TypeInv', UNCHANGED <<Rows, api>>, FileInv',
           \A a \in worker'.pinned : a \in worker.pinned \/ ~Locked(a)
    PROVE  AccountsInv'
<1>1. KeysLead' /\ SectionsFollowKeys' /\ LockOrder'
  BY DEF AccountsInv, KeysLead, SectionsFollowKeys, LockOrder, NextToLock, Kept, Rows
<1>2. LocksFit'
  BY DEF AccountsInv, LocksFit, Locked, NextToLock, Kept, Rows
<1> QED BY <1>1, <1>2 DEF AccountsInv

\* No file, or one that has just been begun.
LEMMA FreshFile ==
    ASSUME worker'.created = NoTypes, worker'.resolved = {}, worker'.pinned = {},
           \A r \in sections' : r.statement # worker'.statement
    PROVE  FileInv'
BY DEF FileInv, NewAccounts, Resolutions, NewOnce, PinnedStay, FileIsNew, NoTypes

\* Pinning one account more.
LEMMA PinOne ==
    ASSUME AccountsInv, UNCHANGED Rows, NEW a, a \in Kept \/ worker.created[a] # "no",
           worker'.created = worker.created, worker'.resolved = worker.resolved,
           worker'.statement = worker.statement, worker'.pinned \subseteq worker.pinned \cup {a}
    PROVE  FileInv'
BY DEF AccountsInv, FileInv, NewAccounts, Resolutions, NewOnce, PinnedStay, FileIsNew, Kept, Rows

LEMMA LetGoStep ==
    ASSUME AccountsInv, TypeInv', UNCHANGED <<Rows, api>>,
           worker' \in {AtRest, [AtRest EXCEPT !.step = "failed"]}
    PROVE  AccountsInv'
<1>1. worker'.created = NoTypes /\ worker'.resolved = {} /\ worker'.pinned = {} /\ worker'.statement = NoStatement
  BY AtRestType
<1>2. \A r \in sections' : r.statement # NoStatement
  BY AccountsAssumption DEF TypeInv, TypeOK, SectionRow
<1> QED BY <1>1, <1>2, FreshFile, WorkerOnly

LEMMA BeginFileStep ==
    ASSUME AccountsInv, TypeInv', NEW s \in Statement, BeginFile(s)
    PROVE  AccountsInv'
<1>1. worker'.created = NoTypes /\ worker'.resolved = {} /\ worker'.pinned = {} /\ worker'.statement = s
  BY DEF BeginFile, AtRest
<1>2. UNCHANGED <<Rows, api>> /\ \A r \in sections' : r.statement # s
  BY DEF BeginFile, Rows
<1> QED BY <1>1, <1>2, FreshFile, WorkerOnly

LEMMA FlushStep ==
    ASSUME AccountsInv, TypeInv', NEW a \in Account, FlushType(a)
    PROVE  AccountsInv'
<1>1. worker \in WorkerState
  BY DEF AccountsInv, TypeInv, TypeOK
<1>2. /\ worker'.created = worker.created /\ worker'.resolved = worker.resolved
      /\ worker'.statement = worker.statement /\ worker'.pinned = worker.pinned \cup {a}
  BY <1>1 DEF FlushType, WorkerState
<1>3. a \in Kept /\ ~Locked(a) /\ UNCHANGED <<Rows, api>>
  BY DEF FlushType
<1> QED BY <1>2, <1>3, PinOne, WorkerOnly

LEMMA PinStep ==
    ASSUME AccountsInv, TypeInv', NEW a \in Account, PinSection(a)
    PROVE  AccountsInv'
<1>1. worker \in WorkerState
  BY DEF AccountsInv, TypeInv, TypeOK
<1>2. /\ worker'.created = worker.created /\ worker'.resolved = worker.resolved
      /\ worker'.statement = worker.statement /\ worker'.pinned = worker.pinned \cup {a}
  BY <1>1 DEF PinSection, WorkerState
<1>3. (a \in Kept \/ worker.created[a] # "no") /\ ~Locked(a) /\ UNCHANGED <<Rows, api>>
  BY DEF PinSection
<1> QED BY <1>2, <1>3, PinOne, WorkerOnly

LEMMA BeginRecordingStep ==
    ASSUME AccountsInv, TypeInv', BeginRecording
    PROVE  AccountsInv'
<1>1. worker \in WorkerState
  BY DEF AccountsInv, TypeInv, TypeOK
<1>2. /\ worker'.created = worker.created /\ worker'.resolved = worker.resolved
      /\ worker'.statement = worker.statement /\ worker'.pinned = worker.pinned
  BY <1>1 DEF BeginRecording, WorkerState
<1>3. FileInv'
  BY <1>2 DEF BeginRecording, AccountsInv, FileInv, NewAccounts, Resolutions, NewOnce, PinnedStay, FileIsNew, Kept, Rows
<1> QED BY <1>2, <1>3, WorkerOnly DEF BeginRecording

\* A key that is found leads to its account, or was resolved so a moment ago.
LEMMA ResolveStep ==
    ASSUME AccountsInv, TypeInv', ResolveKnown
    PROVE  AccountsInv'
<1> DEFINE k == Head(worker.todo)
<1>1. worker \in WorkerState /\ k \in Key
  BY TodoType DEF AccountsInv, TypeInv, TypeOK, ResolveKnown
<1>2. PICK a \in Found(k) :
         worker' = [worker EXCEPT !.todo = Tail(@), !.read = @ \cup {a}, !.loaded[a] = AsLoaded(a),
                                  !.resolved = @ \cup {[key |-> k, account |-> a]},
                                  !.planned[a] = IF LearnsType(a, ReadType[worker.statement][k])
                                                 THEN ReadType[worker.statement][k] ELSE @]
  BY DEF ResolveKnown
<1>3. /\ worker'.created = worker.created /\ worker'.statement = worker.statement
      /\ worker'.pinned = worker.pinned
      /\ worker'.resolved = worker.resolved \cup {[key |-> k, account |-> a]}
  BY <1>1, <1>2 DEF WorkerState
<1>4. UNCHANGED <<Rows, api>>
  BY DEF ResolveKnown
<1> HIDE DEF k
<1>5. CASE a = keyOf[k] /\ a \in Account
  <2>1. a \in Kept /\ worker.created[a] = "no"
    BY <1>1, <1>5 DEF AccountsInv, KeysLead, FileInv, NewAccounts, Kept
  <2>2. \A r \in worker.resolved : r.key = k => worker.created[r.account] = "no"
    BY <1>5, AccountsAssumption DEF AccountsInv, FileInv, Resolutions
  <2>3. NewAccounts' /\ PinnedStay' /\ FileIsNew'
    BY <1>3, <1>4 DEF AccountsInv, FileInv, NewAccounts, PinnedStay, FileIsNew, Kept, Rows
  <2>4. Resolutions'
    BY <1>3, <1>4, <1>5, <2>1 DEF AccountsInv, FileInv, Resolutions, Kept, Rows
  <2>5. NewOnce'
    BY <1>3, <2>1, <2>2 DEF AccountsInv, FileInv, NewOnce
  <2> QED BY <1>3, <1>4, <2>3, <2>4, <2>5, WorkerOnly DEF FileInv
<1>6. CASE [key |-> k, account |-> a] \in worker.resolved
  <2>1. worker'.resolved = worker.resolved
    BY <1>3, <1>6
  <2>2. FileInv'
    BY <1>3, <1>4, <2>1
    DEF AccountsInv, FileInv, NewAccounts, Resolutions, NewOnce, PinnedStay, FileIsNew, Kept, Rows
  <2> QED BY <1>3, <1>4, <2>2, WorkerOnly
<1>7. ASSUME NEW r \in worker.resolved, r.key = k, a = r.account
      PROVE  [key |-> k, account |-> a] \in worker.resolved
  <2>1. r = [key |-> r.key, account |-> r.account]
    BY <1>1 DEF WorkerState
  <2> QED BY <1>7, <2>1
<1> QED BY <1>2, <1>5, <1>6, <1>7 DEF Found

\* A new account: its key has not been resolved, and leads nowhere.
LEMMA CreateStep ==
    ASSUME AccountsInv, TypeInv', NEW a \in Account, CreateAccount(a)
    PROVE  AccountsInv'
<1> DEFINE k == Head(worker.todo)  t == ReadType[worker.statement][k]
<1>1. worker \in WorkerState /\ k \in Key /\ keyOf[k] \in Account \cup {NoAccount}
  BY TodoType DEF AccountsInv, TypeInv, TypeOK, CreateAccount
<1>2. t # "no"
  <2>1. worker.statement \in Statement
    BY DEF CreateAccount, AccountsInv, TypeInv, StatementInHand
  <2>2. t \in AccountType
    BY <1>1, <2>1, AccountsAssumption
  <2> QED BY <2>2 DEF AccountType
<1>3. /\ \A c \in Account : worker'.created[c] = IF c = a THEN t ELSE worker.created[c]
      /\ worker'.statement = worker.statement /\ worker'.pinned = worker.pinned
      /\ worker'.resolved = worker.resolved \cup {[key |-> k, account |-> a]}
  <2>1. worker.created \in [Account -> AccountType \cup {"no"}]
    BY <1>1 DEF WorkerState
  <2>2. worker' = [worker EXCEPT !.todo = Tail(@), !.created[a] = t, !.resolved = @ \cup {[key |-> k, account |-> a]}]
    BY DEF CreateAccount
  <2> HIDE DEF k, t
  <2>3. worker'.created = [worker.created EXCEPT ![a] = t]
    BY <1>1, <2>2 DEF WorkerState
  <2>4. \A c \in Account : worker'.created[c] = IF c = a THEN t ELSE worker.created[c]
    BY <2>1, <2>3
  <2>5. worker'.statement = worker.statement /\ worker'.pinned = worker.pinned
    BY <1>1, <2>2 DEF WorkerState
  <2>6. worker'.resolved = worker.resolved \cup {[key |-> k, account |-> a]}
    BY <1>1, <2>2 DEF WorkerState
  <2> QED BY <2>4, <2>5, <2>6
<1>4. UNCHANGED <<Rows, api>> /\ accounts[a].state = "unused" /\ worker.created[a] = "no"
  BY DEF CreateAccount, Unused
<1>5. keyOf[k] = NoAccount /\ \A r \in worker.resolved : r.key # k
  <2>1. Found(k) = {}
    BY DEF CreateAccount
  <2> HIDE DEF k, t
  <2>2. keyOf[k] \notin Account /\ {x \in worker.resolved : x.key = k} = {}
    BY <2>1 DEF Found
  <2> QED BY <1>1, <2>2
<1> HIDE DEF k, t
<1>6. \A r \in worker.resolved : r.account \in Account
  BY <1>1 DEF WorkerState
<1>7. \A r \in worker.resolved : r.account # a
  BY <1>4 DEF AccountsInv, FileInv, Resolutions
<1>8. NewAccounts'
  BY <1>3, <1>4 DEF AccountsInv, FileInv, NewAccounts, Rows
<1>9. Resolutions'
  BY <1>2, <1>3, <1>4, <1>5, <1>6, <1>7 DEF AccountsInv, FileInv, Resolutions, Kept, Rows
<1>10. NewOnce'
  BY <1>3, <1>5, <1>6, <1>7 DEF AccountsInv, FileInv, NewOnce
<1>11. PinnedStay' /\ FileIsNew'
  <2>1. worker.pinned \subseteq Account
    BY <1>1 DEF WorkerState
  <2> QED BY <1>2, <1>3, <1>4, <2>1 DEF AccountsInv, FileInv, PinnedStay, FileIsNew, Kept, Rows
<1> QED BY <1>3, <1>4, <1>8, <1>9, <1>10, <1>11, WorkerOnly DEF FileInv

\* A commit turns what the file has resolved into keys and sections.
LEMMA CommitStep ==
    ASSUME AccountsInv, TypeInv', CommitFile
    PROVE  AccountsInv'
<1>1. /\ worker \in WorkerState /\ worker.statement \in Statement /\ sections \subseteq SectionRow
      /\ keyOf \in [Key -> Account \cup {NoAccount}]
  BY DEF AccountsInv, TypeInv, TypeOK, StatementInHand, CommitFile
<1>2. \A r \in worker.resolved : r.key \in Key /\ r.account \in Account
  BY <1>1 DEF WorkerState
<1>3. ASSUME NEW a \in Account
      PROVE  /\ worker.created[a] # "no" => accounts'[a].state = "kept"
             /\ worker.created[a] = "no" => accounts'[a].state = accounts[a].state
  <2>1. accounts \in [Account -> AccountRow]
    BY DEF AccountsInv, TypeInv, TypeOK
  <2> QED BY <1>3, <2>1 DEF CommitFile, AccountRow
<1>4. Kept \subseteq Kept' /\ \A a \in Account : worker.created[a] # "no" => a \in Kept'
  BY <1>3 DEF AccountsInv, FileInv, NewAccounts, Kept
<1>5. ASSUME NEW r \in worker.resolved PROVE keyOf'[r.key] = r.account
  <2>1. CASE worker.created[r.account] # "no"
    <3>1. \A o \in worker.resolved : o.key = r.key => o = r
      BY <2>1 DEF AccountsInv, FileInv, NewOnce
    <3>2. (CHOOSE o \in worker.resolved : o.key = r.key) = r
      BY <3>1
    <3> QED BY <1>2, <2>1, <3>2 DEF CommitFile
  <2>2. CASE worker.created[r.account] = "no"
    <3>1. ~ \E o \in worker.resolved : o.key = r.key /\ worker.created[o.account] # "no"
      BY <2>2 DEF AccountsInv, FileInv, NewOnce
    <3>2. r.account \in worker.pinned
      BY DEF CommitFile, ToPin, ResolvedTo
    <3>3. keyOf[r.key] = r.account
      BY <2>2, <3>2 DEF AccountsInv, FileInv, PinnedStay, Resolutions
    <3> QED BY <1>2, <3>1, <3>3 DEF CommitFile
  <2> QED BY <2>1, <2>2
<1>6. ASSUME NEW k \in Key, keyOf[k] \in Account PROVE keyOf'[k] = keyOf[k]
  <2>1. ~ \E r \in worker.resolved : r.key = k /\ worker.created[r.account] # "no"
    BY <1>6, AccountsAssumption DEF AccountsInv, FileInv, Resolutions
  <2> QED BY <2>1 DEF CommitFile
<1>7. ASSUME NEW k \in Key
      PROVE  \/ keyOf'[k] = keyOf[k]
             \/ \E r \in worker.resolved : keyOf'[k] = r.account /\ worker.created[r.account] # "no"
  <2>1. CASE \E r \in worker.resolved : r.key = k /\ worker.created[r.account] # "no"
    BY <1>5, <2>1
  <2>2. CASE ~ \E r \in worker.resolved : r.key = k /\ worker.created[r.account] # "no"
    BY <2>2 DEF CommitFile
  <2> QED BY <2>1, <2>2
<1>8. KeysLead'
  BY <1>2, <1>4, <1>7 DEF AccountsInv, KeysLead
<1>9. SectionsFollowKeys'
  <2> DEFINE New(a) == [statement |-> worker.statement, account |-> a,
                        keys |-> {r.key : r \in {x \in worker.resolved : x.account = a}}]
  <2>1. \A r \in sections' : r \in sections \/ \E a \in ResolvedTo : r = New(a)
    BY DEF CommitFile
  <2>2. ASSUME NEW r \in sections
        PROVE  /\ r.statement # worker.statement
               /\ r.account \in Kept' /\ \A k \in r.keys : keyOf'[k] = r.account
    <3>1. r.account \in Account /\ r.keys \subseteq Key
      BY <1>1 DEF SectionRow
    <3> QED BY <1>4, <1>6, <3>1 DEF AccountsInv, FileInv, FileIsNew, SectionsFollowKeys
  <2>3. ASSUME NEW a \in ResolvedTo
        PROVE  New(a).account \in Kept' /\ \A k \in New(a).keys : keyOf'[k] = a
    <3>1. a \in Account /\ a \in worker.pinned
      BY <1>2 DEF CommitFile, ToPin, ResolvedTo
    <3>2. a \in Kept'
      BY <1>4, <3>1 DEF AccountsInv, FileInv, PinnedStay
    <3> QED BY <1>5, <3>2
  <2>4. ASSUME NEW r \in sections', NEW o \in sections', r.statement = o.statement, r.account = o.account
        PROVE  r = o
    <3>1. CASE r \in sections /\ o \in sections
      BY <2>4, <3>1 DEF AccountsInv, SectionsFollowKeys
    <3>2. ASSUME NEW a \in ResolvedTo, NEW b \in ResolvedTo, r = New(a), o = New(b) PROVE r = o
      BY <2>4, <3>2
    <3> QED BY <2>1, <2>2, <2>4, <3>1, <3>2
  <2>5. ASSUME NEW r \in sections' PROVE r.account \in Kept' /\ \A k \in r.keys : keyOf'[k] = r.account
    <3>1. CASE r \in sections
      BY <2>2, <3>1
    <3>2. ASSUME NEW a \in ResolvedTo, r = New(a) PROVE r.account \in Kept' /\ \A k \in r.keys : keyOf'[k] = r.account
      <4>1. r.account = a
        BY <3>2
      <4> QED BY <2>3, <3>2, <4>1
    <3> QED BY <2>1, <3>1, <3>2
  <2> HIDE DEF New
  <2> QED BY <2>4, <2>5 DEF SectionsFollowKeys
<1>10. FileInv'
  <2>1. /\ worker'.created = NoTypes /\ worker'.resolved = {} /\ worker'.pinned = {}
        /\ worker'.statement = NoStatement
    BY AtRestType DEF CommitFile
  <2>2. \A r \in sections' : r.statement # NoStatement
    BY AccountsAssumption DEF TypeInv, TypeOK, SectionRow
  <2> QED BY <2>1, <2>2, FreshFile
<1>11. LocksFit' /\ LockOrder'
  <2>1. api' = api /\ worker'.pinned = {}
    BY AtRestType DEF CommitFile
  <2> QED BY <1>4, <2>1 DEF AccountsInv, LocksFit, LockOrder, NextToLock
<1> QED BY <1>8, <1>9, <1>10, <1>11 DEF AccountsInv

LEMMA RemoveStep ==
    ASSUME AccountsInv, TypeInv', NEW s \in Statement, RemoveStatement(s)
    PROVE  AccountsInv'
<1>1. sections' \subseteq sections /\ UNCHANGED <<accounts, keyOf, worker, api>>
  BY DEF RemoveStatement
<1>2. KeysLead' /\ SectionsFollowKeys' /\ FileInv'
  BY <1>1 DEF AccountsInv, KeysLead, SectionsFollowKeys, FileInv, NewAccounts, Resolutions, NewOnce,
              PinnedStay, FileIsNew, Kept
<1>3. LocksFit' /\ LockOrder'
  BY <1>1 DEF AccountsInv, LocksFit, LockOrder, NextToLock, Kept
<1> QED BY <1>2, <1>3 DEF AccountsInv

----------------------------------------------------------------------------
(* Steps of the requests.                                                  *)

\* A request changes what it holds and has yet to lock; the others keep theirs.
LEMMA OneRequest ==
    ASSUME AccountsInv, NEW q \in Request, NEW r \in RequestState, api' = [api EXCEPT ![q] = r],
           UNCHANGED worker,
           r.held \subseteq Kept', r.held \cap worker.pinned = {},
           r.op = "merge" => r.account # r.other,
           \A o \in Request \ {q} : r.held \cap api[o].held = {} /\ api[o].held \subseteq Kept',
           \A a, b \in ({r.account, r.other} \cap Account) \ r.seen : a = b,
           \A a \in r.held, b \in ({r.account, r.other} \cap Account) \ r.seen : Id[a] < Id[b]
    PROVE  LocksFit' /\ LockOrder'
<1>1. api \in [Request -> RequestState]
  BY DEF AccountsInv, TypeInv, TypeOK
<1>2. api'[q] = r /\ \A o \in Request \ {q} : api'[o] = api[o]
  BY <1>1
<1>3. NextToLock(q)' = ({r.account, r.other} \cap Account) \ r.seen
      /\ \A o \in Request \ {q} : NextToLock(o)' = NextToLock(o)
  BY <1>2 DEF NextToLock
<1>4. ASSUME NEW o \in Request
      PROVE  /\ api'[o].held \subseteq Kept' /\ api'[o].held \cap worker'.pinned = {}
             /\ api'[o].op = "merge" => api'[o].account # api'[o].other
             /\ \A a, b \in NextToLock(o)' : a = b
             /\ \A a \in api'[o].held, b \in NextToLock(o)' : Id[a] < Id[b]
  <2>1. CASE o = q
    BY <1>2, <1>3, <2>1
  <2>2. CASE o # q
    BY <1>2, <1>3, <2>2 DEF AccountsInv, LocksFit, LockOrder
  <2> QED BY <2>1, <2>2
<1>5. ASSUME NEW o \in Request, NEW p \in Request, o # p PROVE api'[o].held \cap api'[p].held = {}
  <2>1. api[o].held \cap api[p].held = {}
    BY <1>5 DEF AccountsInv, LocksFit
  <2> QED BY <1>2, <1>5, <2>1
<1>6. LockOrder'
  BY <1>4 DEF LockOrder
<1> QED BY <1>4, <1>5, <1>6 DEF LocksFit

\* A request that ends lets go of all it holds.
LEMMA EndRequest ==
    ASSUME AccountsInv, NEW q \in Request, Answer(q), UNCHANGED worker,
           \A o \in Request \ {q} : api[o].held \subseteq Kept'
    PROVE  LocksFit' /\ LockOrder'
<1>1. ({Idle.account, Idle.other} \cap Account) \ Idle.seen = {}
  BY IdleType, AccountsAssumption
<1> QED BY <1>1, IdleType, OneRequest DEF Answer

\* A request that neither creates nor merges an account.
LEMMA StatesStay ==
    ASSUME AccountsInv, TypeInv', \A a \in Account : accounts'[a].state = accounts[a].state,
           UNCHANGED <<keyOf, sections, worker>>, LocksFit', LockOrder'
    PROVE  AccountsInv'
<1>1. Kept' = Kept
  BY DEF Kept
<1>2. KeysLead' /\ SectionsFollowKeys'
  BY <1>1 DEF AccountsInv, KeysLead, SectionsFollowKeys
<1>3. worker \in WorkerState
  BY DEF AccountsInv, TypeInv, TypeOK
<1>4. \A r \in worker.resolved : r.account \in Account
  BY <1>3 DEF WorkerState
<1>5. FileInv'
  BY <1>1, <1>4 DEF AccountsInv, FileInv, NewAccounts, Resolutions, NewOnce, PinnedStay, FileIsNew
<1> QED BY <1>2, <1>5 DEF AccountsInv

\* The first lock is on the account with the smaller id.
LEMMA AskStep ==
    ASSUME AccountsInv, TypeInv', NEW q \in Request, NEW first \in Account, NEW r \in RequestState,
           Ask(q, first, r), r.op = "merge" => r.account # r.other,
           \A a, b \in ({r.account, r.other} \cap Account) \ {first} : a = b,
           \A b \in ({r.account, r.other} \cap Account) \ {first} : Id[first] < Id[b]
    PROVE  AccountsInv'
<1> DEFINE n == [r EXCEPT !.seen = {first}, !.held = {first}]
<1>1. /\ n \in RequestState /\ n.seen = {first} /\ n.held = {first}
      /\ n.op = r.op /\ n.account = r.account /\ n.other = r.other
  BY DEF RequestState
<1>2. api' = [api EXCEPT ![q] = n] /\ UNCHANGED <<Rows, worker>> /\ first \in Kept /\ Free(first)
  BY DEF Ask
<1> HIDE DEF n
<1>3. Kept' = Kept /\ UNCHANGED <<accounts, keyOf, sections, worker>>
  BY <1>2 DEF Kept, Rows
<1>4. \A o \in Request : n.held \cap api[o].held = {} /\ api[o].held \subseteq Kept'
  BY <1>1, <1>2, <1>3 DEF Free, Locked, AccountsInv, LocksFit
<1>5. n.held \subseteq Kept' /\ n.held \cap worker.pinned = {}
  BY <1>1, <1>2, <1>3 DEF Free
<1>6. /\ \A a, b \in ({n.account, n.other} \cap Account) \ n.seen : a = b
      /\ \A a \in n.held, b \in ({n.account, n.other} \cap Account) \ n.seen : Id[a] < Id[b]
      /\ n.op = "merge" => n.account # n.other
  BY <1>1
<1>7. \A o \in Request \ {q} : n.held \cap api[o].held = {} /\ api[o].held \subseteq Kept'
  BY <1>4
<1>8. n \in RequestState /\ UNCHANGED worker /\ api' = [api EXCEPT ![q] = n]
  BY <1>1, <1>2
<1>9. LocksFit' /\ LockOrder'
  BY <1>5, <1>6, <1>7, <1>8, OneRequest
<1> QED BY <1>3, <1>9, StatesStay

LEMMA AskRetypeStep ==
    ASSUME AccountsInv, TypeInv', NEW q \in Request, NEW a \in Account, NEW t \in UserType, AskRetype(q, a, t)
    PROVE  AccountsInv'
<1> DEFINE r == [Idle EXCEPT !.op = "retype", !.account = a, !.type = t]
<1>1. r \in RequestState /\ r.op = "retype" /\ r.account = a /\ r.other = NoAccount
  BY AccountsAssumption DEF Idle, RequestState, AccountType
<1>2. Ask(q, a, r)
  BY DEF AskRetype
<1> HIDE DEF r
<1>3. ({r.account, r.other} \cap Account) \ {a} = {}
  BY <1>1, AccountsAssumption
<1> QED BY <1>1, <1>2, <1>3, AskStep

LEMMA AskAnchorStep ==
    ASSUME AccountsInv, TypeInv', NEW q \in Request, NEW a \in Account, NEW b \in Balance, AskAnchor(q, a, b)
    PROVE  AccountsInv'
<1> DEFINE r == [Idle EXCEPT !.op = "anchor", !.account = a, !.balance = b]
<1>1. r \in RequestState /\ r.op = "anchor" /\ r.account = a /\ r.other = NoAccount
  BY DEF Idle, RequestState, AccountType
<1>2. Ask(q, a, r)
  BY DEF AskAnchor
<1> HIDE DEF r
<1>3. ({r.account, r.other} \cap Account) \ {a} = {}
  BY <1>1, AccountsAssumption
<1> QED BY <1>1, <1>2, <1>3, AskStep

LEMMA AskMergeStep ==
    ASSUME AccountsInv, TypeInv', NEW q \in Request, NEW a \in Account, NEW b \in Account,
           NEW keep \in Account \cup {NoAccount}, AskMerge(q, a, b, keep)
    PROVE  AccountsInv'
<1> DEFINE r == [Idle EXCEPT !.op = "merge", !.account = a, !.other = b, !.keep = keep]
           first == FirstToLock(a, b)
<1>1. r \in RequestState /\ r.account = a /\ r.other = b
  BY DEF Idle, RequestState, AccountType
<1>2. Ask(q, first, r) /\ a # b
  BY DEF AskMerge
<1>3. Id[a] \in Nat /\ Id[b] \in Nat /\ Id[a] # Id[b]
  BY <1>2, AccountsAssumption
<1>4. \/ first = a /\ Id[a] < Id[b]
      \/ first = b /\ Id[b] < Id[a]
  BY <1>3 DEF FirstToLock
<1> HIDE DEF r, first
<1>5. \A c \in ({r.account, r.other} \cap Account) \ {first} :
         /\ Id[first] < Id[c]
         /\ \A d \in ({r.account, r.other} \cap Account) \ {first} : c = d
  BY <1>1, <1>4
<1>6. first \in Account
  BY <1>4
<1> QED BY <1>1, <1>2, <1>5, <1>6, AskStep

LEMMA LockStep ==
    ASSUME AccountsInv, TypeInv', NEW q \in Request, LockAccount(q)
    PROVE  AccountsInv'
<1>1. api \in [Request -> RequestState] /\ api[q] \in RequestState
  BY DEF AccountsInv, TypeInv, TypeOK
<1>2. PICK a \in NextToLock(q) :
         /\ Free(a)
         /\ api' = [api EXCEPT ![q].seen = @ \cup {a}, ![q].held = IF a \in Kept THEN @ \cup {a} ELSE @]
  BY DEF LockAccount
<1> DEFINE H == IF a \in Kept THEN api[q].held \cup {a} ELSE api[q].held
           n == [api[q] EXCEPT !.seen = api[q].seen \cup {a}, !.held = H]
<1>3. a \in Account /\ H \subseteq Account
  BY <1>1 DEF NextToLock, RequestState
<1>4. api' = [api EXCEPT ![q] = n]
  BY <1>1, <1>2 DEF RequestState
<1>5. \A c \in H : c \in api[q].held \/ (c = a /\ a \in Kept)
  OBVIOUS
<1> HIDE DEF H
<1>6. /\ n \in RequestState /\ n.seen = api[q].seen \cup {a} /\ n.held = H
      /\ n.op = api[q].op /\ n.account = api[q].account /\ n.other = api[q].other
  BY <1>1, <1>3 DEF RequestState
<1> HIDE DEF n
<1>7. Kept' = Kept /\ UNCHANGED <<accounts, keyOf, sections, worker>>
  BY DEF LockAccount, Kept, Rows
<1>8. ({n.account, n.other} \cap Account) \ n.seen = {}
  <2>1. \A c \in NextToLock(q) : c = a
    BY <1>2 DEF AccountsInv, LocksFit
  <2> QED BY <1>6, <2>1 DEF NextToLock
<1>9. \A o \in Request \ {q} : n.held \cap api[o].held = {} /\ api[o].held \subseteq Kept'
  <2>1. ASSUME NEW o \in Request \ {q} PROVE api[q].held \cap api[o].held = {} /\ api[o].held \subseteq Kept
    BY DEF AccountsInv, LocksFit
  <2>2. \A o \in Request : a \notin api[o].held
    BY <1>2 DEF Free, Locked
  <2> QED BY <1>5, <1>6, <1>7, <2>1, <2>2
<1>10. n.held \subseteq Kept' /\ n.held \cap worker.pinned = {}
  <2>1. api[q].held \subseteq Kept /\ api[q].held \cap worker.pinned = {} /\ a \notin worker.pinned
    BY <1>2 DEF AccountsInv, LocksFit, Free
  <2> QED BY <1>5, <1>6, <1>7, <2>1
<1>11. n.op = "merge" => n.account # n.other
  BY <1>6 DEF AccountsInv, LocksFit
<1>12. LocksFit' /\ LockOrder'
  BY <1>4, <1>6, <1>7, <1>8, <1>9, <1>10, <1>11, OneRequest
<1> QED BY <1>7, <1>12, StatesStay

\* A request that ends without a merge.
LEMMA AnswerStep ==
    ASSUME AccountsInv, TypeInv', NEW q \in Request, Answer(q), UNCHANGED <<keyOf, sections, worker>>,
           \A a \in Account : accounts'[a].state = accounts[a].state
    PROVE  AccountsInv'
<1>1. \A o \in Request \ {q} : api[o].held \subseteq Kept'
  <2>1. Kept' = Kept
    BY DEF Kept
  <2> QED BY <2>1 DEF AccountsInv, LocksFit
<1> QED BY <1>1, EndRequest, StatesStay

LEMMA EndStep ==
    ASSUME AccountsInv, TypeInv', NEW q \in Request, Retype(q) \/ SetAnchor(q) \/ Refuse(q)
    PROVE  AccountsInv'
<1>1. Answer(q) /\ UNCHANGED <<keyOf, sections, worker>>
  BY DEF Retype, SetAnchor, Refuse, Rows
<1>2. ASSUME NEW c \in Account PROVE accounts'[c].state = accounts[c].state
  <2>1. accounts \in [Account -> AccountRow]
    BY DEF AccountsInv, TypeInv, TypeOK
  <2>2. CASE Retype(q)
    BY <2>1, <2>2 DEF Retype, AccountRow
  <2>3. CASE SetAnchor(q) \/ Refuse(q)
    BY <2>3 DEF SetAnchor, Refuse, Rows
  <2> QED BY <2>2, <2>3
<1> QED BY <1>1, <1>2, AnswerStep

LEMMA BreakStep ==
    ASSUME AccountsInv, TypeInv', NEW q \in Request, BreakDeadlock(q)
    PROVE  AccountsInv'
<1>1. CASE Answer(q) /\ UNCHANGED worker
  BY <1>1, AnswerStep DEF BreakDeadlock, Rows
<1>2. CASE worker' = [AtRest EXCEPT !.step = "failed"] /\ UNCHANGED api
  BY <1>2, LetGoStep DEF BreakDeadlock
<1> QED BY <1>1, <1>2 DEF BreakDeadlock

\* A merge moves the keys and the sections together.  It holds both accounts,
\* so the worker has pinned neither.
LEMMA MergeStep ==
    ASSUME AccountsInv, TypeInv', NEW q \in Request, Merge(q)
    PROVE  AccountsInv'
<1> DEFINE a == api[q].account  b == api[q].other
<1>1. /\ a \in Kept /\ b \in Kept /\ a # b /\ b \notin worker.pinned /\ b \in api[q].held
      /\ a \in Account /\ b \in Account
  BY DEF Merge, Mergeable, Ready, AccountsInv, LocksFit, Kept
<1>2. /\ keyOf' = KeysFollow(a, b) /\ ~ListsBoth(a, b) /\ Answer(q) /\ UNCHANGED worker
      /\ sections' = {[r EXCEPT !.account = IF @ = b THEN a ELSE @] : r \in sections}
  BY DEF Merge, Mergeable
<1>3. /\ accounts \in [Account -> AccountRow] /\ keyOf \in [Key -> Account \cup {NoAccount}]
      /\ sections \subseteq SectionRow /\ worker \in WorkerState
  BY DEF AccountsInv, TypeInv, TypeOK
<1>4. \A c \in Account : accounts'[c].state = IF c = b THEN "merged" ELSE accounts[c].state
  BY <1>1, <1>3 DEF Merge, AccountRow
<1> HIDE DEF a, b
<1>5. Kept' = Kept \ {b}
  BY <1>1, <1>4 DEF Kept
<1>6. \A k \in Key : keyOf'[k] = IF keyOf[k] = b THEN a ELSE keyOf[k]
  BY <1>2 DEF KeysFollow
<1>7. KeysLead'
  BY <1>1, <1>5, <1>6 DEF AccountsInv, KeysLead
<1>8. ASSUME NEW r \in sections'
      PROVE  \E o \in sections : /\ r.statement = o.statement /\ r.keys = o.keys
                                 /\ r.account = IF o.account = b THEN a ELSE o.account
                                 /\ r = [o EXCEPT !.account = IF @ = b THEN a ELSE @]
  <2>1. PICK o \in sections : r = [o EXCEPT !.account = IF @ = b THEN a ELSE @]
    BY <1>2
  <2> QED BY <1>3, <2>1 DEF SectionRow
<1>9. SectionsFollowKeys'
  <2>1. ASSUME NEW r \in sections' PROVE r.account \in Kept' /\ \A k \in r.keys : keyOf'[k] = r.account
    <3>1. PICK o \in sections : r.keys = o.keys /\ r.account = IF o.account = b THEN a ELSE o.account
      BY <1>8
    <3>2. o.account \in Kept /\ o.keys \subseteq Key /\ \A k \in o.keys : keyOf[k] = o.account
      BY <1>3 DEF AccountsInv, SectionsFollowKeys, SectionRow
    <3> QED BY <1>1, <1>5, <1>6, <3>1, <3>2
  <2>2. ASSUME NEW r \in sections', NEW p \in sections', r.statement = p.statement, r.account = p.account
        PROVE  r = p
    <3>1. PICK o \in sections : /\ r.statement = o.statement
                                /\ r.account = IF o.account = b THEN a ELSE o.account
                                /\ r = [o EXCEPT !.account = IF @ = b THEN a ELSE @]
      BY <1>8
    <3>2. PICK u \in sections : /\ p.statement = u.statement
                                /\ p.account = IF u.account = b THEN a ELSE u.account
                                /\ p = [u EXCEPT !.account = IF @ = b THEN a ELSE @]
      BY <1>8
    <3>3. o.statement = u.statement /\ o.statement \in Statement
      BY <1>3, <2>2, <3>1, <3>2 DEF SectionRow
    <3>4. CASE o.account = u.account
      BY <3>1, <3>2, <3>3, <3>4 DEF AccountsInv, SectionsFollowKeys
    <3>5. CASE o.account # u.account
      <4>1. {o.account, u.account} = {a, b}
        BY <2>2, <3>1, <3>2, <3>5
      <4>2. ListsBoth(a, b)
        BY <3>3, <4>1 DEF ListsBoth
      <4> QED BY <1>2, <4>2
    <3> QED BY <3>4, <3>5
  <2> QED BY <2>1, <2>2 DEF SectionsFollowKeys
<1>10. FileInv'
  <2>1. \A r \in worker.resolved : r.account \in Account /\ r.key \in Key
    BY <1>3 DEF WorkerState
  <2>2. worker.created[b] = "no" /\ worker.pinned \subseteq Account
    BY <1>1, <1>3 DEF AccountsInv, FileInv, NewAccounts, Kept, WorkerState
  <2>3. NewAccounts'
    BY <1>2, <1>4, <2>2 DEF AccountsInv, FileInv, NewAccounts
  <2>4. ASSUME NEW r \in worker.resolved
        PROVE  \/ worker.created[r.account] # "no" /\ keyOf'[r.key] = NoAccount
               \/ /\ worker.created[r.account] = "no" /\ accounts'[r.account].state # "unused"
                  /\ keyOf'[r.key] \in Account /\ (r.account \in Kept' => keyOf'[r.key] = r.account)
    <3>1. CASE worker.created[r.account] # "no"
      BY <1>1, <1>6, <2>1, <3>1, AccountsAssumption DEF AccountsInv, FileInv, Resolutions
    <3>2. CASE worker.created[r.account] = "no"
      <4>1. /\ accounts[r.account].state # "unused" /\ keyOf[r.key] \in Account
            /\ (r.account \in Kept => keyOf[r.key] = r.account)
        BY <3>2 DEF AccountsInv, FileInv, Resolutions
      <4> QED BY <1>1, <1>4, <1>5, <1>6, <2>1, <3>2, <4>1
    <3> QED BY <3>1, <3>2
  <2>5. Resolutions'
    BY <1>2, <2>4 DEF Resolutions
  <2>6. NewOnce' /\ PinnedStay'
    BY <1>1, <1>2, <1>5 DEF AccountsInv, FileInv, NewOnce, PinnedStay
  <2>7. FileIsNew'
    BY <1>2, <1>8 DEF AccountsInv, FileInv, FileIsNew
  <2> QED BY <2>3, <2>5, <2>6, <2>7 DEF FileInv
<1>11. LocksFit' /\ LockOrder'
  <2>1. \A o \in Request \ {q} : api[o].held \subseteq Kept'
    BY <1>1, <1>5 DEF AccountsInv, LocksFit
  <2> QED BY <1>2, <2>1, EndRequest
<1> QED BY <1>7, <1>9, <1>10, <1>11 DEF AccountsInv

----------------------------------------------------------------------------
(* The invariant and the theorems.                                         *)

LEMMA AccountsStep == AccountsInv /\ [Next]_vars => AccountsInv'
<1> SUFFICES ASSUME AccountsInv, [Next]_vars PROVE AccountsInv'
  OBVIOUS
<1>1. TypeInv'
  BY TypeStep DEF AccountsInv
<1>2. CASE Ingest
  <2>1. CASE \E s \in Statement : BeginFile(s) \/ RemoveStatement(s)
    BY <1>1, <2>1, BeginFileStep, RemoveStep
  <2>2. CASE \E a \in Account : FlushType(a) \/ CreateAccount(a) \/ PinSection(a)
    BY <1>1, <2>2, FlushStep, CreateStep, PinStep
  <2>3. CASE AccountGone \/ AbandonFile
    BY <1>1, <2>3, LetGoStep DEF AccountGone, AbandonFile
  <2> QED BY <1>1, <1>2, <2>1, <2>2, <2>3, ResolveStep, BeginRecordingStep, CommitStep DEF Ingest
<1>3. CASE Manage
  <2>1. CASE \E q \in Request : LockAccount(q) \/ Retype(q) \/ SetAnchor(q) \/ Merge(q) \/ Refuse(q) \/ BreakDeadlock(q)
    BY <1>1, <2>1, LockStep, EndStep, MergeStep, BreakStep
  <2> QED BY <1>1, <1>3, <2>1, AskRetypeStep, AskAnchorStep, AskMergeStep DEF Manage
<1>4. CASE UNCHANGED vars
  <2>1. UNCHANGED <<accounts, keyOf, anchors, sections, worker, api>>
    BY <1>4 DEF vars
  <2>2. LocksFit' /\ LockOrder'
    BY <2>1 DEF AccountsInv, LocksFit, LockOrder, NextToLock, Kept
  <2> QED BY <1>1, <2>1, <2>2, StatesStay
<1> QED BY <1>2, <1>3, <1>4 DEF Next

LEMMA AccountsInvariant == Spec => []AccountsInv
BY AccountsInit, AccountsStep, PTL DEF Spec

\* Every section hangs on the account its key leads to, whatever merges and
\* retypings come between the worker's reading of a key and its commit: the
\* foreign key pins the account before the commit, and a merge locks both.
THEOREM SectionsKeepTheirKeys == Spec => []SectionsFollowKeys
<1>1. AccountsInv => SectionsFollowKeys
  BY DEF AccountsInv
<1> QED BY <1>1, AccountsInvariant, PTL

\* Two requests never wait for each other, however many there are: what one
\* holds has a smaller id than what it has yet to lock.
THEOREM RequestsDoNotDeadlock == Spec => []RequestsNeverDeadlock
<1>1. AccountsInv => RequestsNeverDeadlock
  <2> SUFFICES ASSUME AccountsInv, NEW q \in Request, NEW o \in Request, q # o,
                      NEW x \in WaitsFor(q) \cap api[o].held, NEW y \in WaitsFor(o) \cap api[q].held
               PROVE  FALSE
    BY DEF RequestsNeverDeadlock
  <2>1. x \in NextToLock(q) /\ y \in NextToLock(o) /\ x \in Account /\ y \in Account
    BY DEF WaitsFor, NextToLock
  <2>2. Id[y] < Id[x] /\ Id[x] < Id[y]
    BY <2>1 DEF AccountsInv, LockOrder
  <2> QED BY <2>1, <2>2, AccountsAssumption
<1> QED BY <1>1, AccountsInvariant, PTL

----------------------------------------------------------------------------
(* The user's type.                                                        *)

\* A new account is a blank row until the commit.
NewIsBlank == \A a \in Account : worker.created[a] # "no" => accounts[a] = Unused

\* A type the file has learned is of an account it has read, whose type the user
\* has not set, or has set since; the file sees a type the user had set before.
LearnedTypes ==
    /\ \A a \in Account : worker.created[a] = "no" /\ (worker.planned[a] # "no" \/ worker.flushed[a] # "no") =>
           a \in worker.read /\ (accounts[a].userSet => a \in raced)
    /\ \A a \in Account : a \in worker.read /\ accounts[a].userSet => worker.loaded[a].userSet \/ a \in raced

\* A request names an account that exists or existed.
RequestsKnow == \A q \in Request : api[q].account \in Account => accounts[api[q].account].state # "unused"

TypesInv == AccountsInv /\ NewIsBlank /\ LearnedTypes /\ RequestsKnow

LEMMA TypesInit == Init => TypesInv
<1> SUFFICES ASSUME Init PROVE TypesInv
  OBVIOUS
<1>1. /\ \A a \in Account : worker.created[a] = "no" /\ worker.planned[a] = "no" /\ worker.flushed[a] = "no"
      /\ worker.read = {}
  BY DEF Init, AtRest, NoTypes
<1>2. \A q \in Request : api[q].account = NoAccount
  BY IdleType DEF Init
<1> QED BY <1>1, <1>2, AccountsInit, AccountsAssumption DEF TypesInv, NewIsBlank, LearnedTypes, RequestsKnow

\* A step of the worker that writes no row.
LEMMA WorkerLearns ==
    ASSUME TypesInv, AccountsInv', UNCHANGED <<Rows, api>>, NewIsBlank', LearnedTypes'
    PROVE  TypesInv'
BY DEF TypesInv, RequestsKnow, Rows

\* No file, or one that has just been begun, has learned nothing.
LEMMA NothingLearned ==
    ASSUME worker'.created = NoTypes, worker'.planned = NoTypes, worker'.flushed = NoTypes,
           worker'.read = {}
    PROVE  NewIsBlank' /\ LearnedTypes'
BY DEF NewIsBlank, LearnedTypes, NoTypes

LEMMA FreshLearns ==
    ASSUME TypesInv, AccountsInv', UNCHANGED <<Rows, api>>,
           \/ worker' \in {AtRest, [AtRest EXCEPT !.step = "failed"]}
           \/ \E s \in Statement : BeginFile(s)
    PROVE  TypesInv'
<1>1. worker'.created = NoTypes /\ worker'.planned = NoTypes /\ worker'.flushed = NoTypes /\ worker'.read = {}
  <2>1. CASE worker' = AtRest
    BY <2>1 DEF AtRest
  <2>2. CASE worker' = [AtRest EXCEPT !.step = "failed"]
    BY <2>2 DEF AtRest
  <2>3. ASSUME NEW s \in Statement, BeginFile(s)
        PROVE  worker'.created = NoTypes /\ worker'.planned = NoTypes /\ worker'.flushed = NoTypes /\ worker'.read = {}
    BY <2>3 DEF BeginFile, AtRest
  <2> QED BY <2>1, <2>2, <2>3
<1> QED BY <1>1, NothingLearned, WorkerLearns

\* A request that leaves the rows alone.
LEMMA RequestLearns ==
    ASSUME TypesInv, AccountsInv', UNCHANGED <<accounts, worker, raced>>,
           \A q \in Request : api'[q].account \in Account =>
               api'[q].account = api[q].account \/ api'[q].account \in Kept
    PROVE  TypesInv'
<1>1. RequestsKnow'
  BY DEF TypesInv, RequestsKnow, Kept
<1> QED BY <1>1 DEF TypesInv, NewIsBlank, LearnedTypes

LEMMA TypesStep == TypesInv /\ [Next]_vars => TypesInv'
<1> SUFFICES ASSUME TypesInv, [Next]_vars PROVE TypesInv'
  OBVIOUS
<1>0. AccountsInv' /\ AccountsInv
  BY AccountsStep DEF TypesInv
<1>w. /\ worker \in WorkerState /\ accounts \in [Account -> AccountRow] /\ api \in [Request -> RequestState]
  BY <1>0 DEF AccountsInv, TypeInv, TypeOK
<1>1. ASSUME NEW s \in Statement, BeginFile(s) PROVE TypesInv'
  BY <1>0, <1>1, FreshLearns DEF BeginFile
<1>2. ASSUME NEW s \in Statement, RemoveStatement(s) PROVE TypesInv'
  BY <1>0, <1>2, RequestLearns DEF RemoveStatement
<1>3. ASSUME NEW a \in Account, FlushType(a) PROVE TypesInv'
  <2>1. /\ \A c \in Account : /\ worker'.planned[c] = IF c = a THEN "no" ELSE worker.planned[c]
                              /\ worker'.flushed[c] = IF c = a THEN worker.planned[a] ELSE worker.flushed[c]
        /\ worker'.created = worker.created /\ worker'.read = worker.read /\ worker'.loaded = worker.loaded
    BY <1>w, <1>3 DEF FlushType, WorkerState
  <2>2. worker.planned[a] # "no" /\ UNCHANGED <<Rows, api, raced>>
    BY <1>3 DEF FlushType, Pending
  <2>3. NewIsBlank' /\ LearnedTypes'
    BY <2>1, <2>2 DEF TypesInv, NewIsBlank, LearnedTypes, Rows
  <2> QED BY <1>0, <2>2, <2>3, WorkerLearns
<1>4. ASSUME NEW a \in Account, CreateAccount(a) PROVE TypesInv'
  <2>1. /\ \A c \in Account : c # a => worker'.created[c] = worker.created[c]
        /\ worker'.planned = worker.planned /\ worker'.flushed = worker.flushed /\ worker'.read = worker.read /\ worker'.loaded = worker.loaded
    BY <1>w, <1>4 DEF CreateAccount, WorkerState
  <2>2. accounts[a] = Unused /\ worker.created[a] = "no" /\ UNCHANGED <<Rows, api, raced>>
    BY <1>4 DEF CreateAccount
  <2>3. NewIsBlank' /\ LearnedTypes'
    BY <2>1, <2>2 DEF TypesInv, NewIsBlank, LearnedTypes, Rows
  <2> QED BY <1>0, <2>2, <2>3, WorkerLearns
<1>5. ASSUME NEW a \in Account, PinSection(a) PROVE TypesInv'
  <2>1. /\ worker'.created = worker.created /\ worker'.read = worker.read /\ worker'.loaded = worker.loaded
        /\ worker'.planned = worker.planned /\ worker'.flushed = worker.flushed
        /\ UNCHANGED <<Rows, api, raced>>
    BY <1>w, <1>5 DEF PinSection, WorkerState
  <2>2. NewIsBlank' /\ LearnedTypes'
    BY <2>1 DEF TypesInv, NewIsBlank, LearnedTypes, Rows
  <2> QED BY <1>0, <2>1, <2>2, WorkerLearns
<1>6. CASE BeginRecording
  <2>1. /\ worker'.created = worker.created /\ worker'.read = worker.read /\ worker'.loaded = worker.loaded
        /\ worker'.planned = worker.planned /\ worker'.flushed = worker.flushed
        /\ UNCHANGED <<Rows, api, raced>>
    BY <1>w, <1>6 DEF BeginRecording, WorkerState
  <2>2. NewIsBlank' /\ LearnedTypes'
    BY <2>1 DEF TypesInv, NewIsBlank, LearnedTypes, Rows
  <2> QED BY <1>0, <2>1, <2>2, WorkerLearns
<1>7. CASE ResolveKnown
  <2> DEFINE k == Head(worker.todo)  t == ReadType[worker.statement][k]
  <2>1. k \in Key
    BY <1>0, <1>7, TodoType DEF AccountsInv, ResolveKnown
  <2>2. PICK a \in Found(k) :
           worker' = [worker EXCEPT !.todo = Tail(@), !.read = @ \cup {a}, !.loaded[a] = AsLoaded(a),
                                    !.resolved = @ \cup {[key |-> k, account |-> a]},
                                    !.planned[a] = IF LearnsType(a, t) THEN t ELSE @]
    BY <1>7 DEF ResolveKnown
  <2> HIDE DEF k, t
  <2>3. /\ \A c \in Account : worker'.planned[c] = IF c = a /\ LearnsType(a, t) THEN t ELSE worker.planned[c]
        /\ worker'.created = worker.created /\ worker'.flushed = worker.flushed
        /\ worker'.read = worker.read \cup {a}
        /\ \A c \in Account : c \in worker.read => worker'.loaded[c] = worker.loaded[c]
        /\ a \notin worker.read /\ a \in Account => (accounts[a].userSet => worker'.loaded[a].userSet)
    BY <1>w, <2>2 DEF WorkerState, AsLoaded
  <2>4. UNCHANGED <<Rows, api, raced>>
    BY <1>7 DEF ResolveKnown
  <2>5. a \in Account
    BY <1>0, <2>1, FoundType DEF AccountsInv, k
  <2>6. ASSUME LearnsType(a, t), accounts[a].userSet PROVE a \in raced
    <3>1. ~ AsLoaded(a).userSet
      BY <2>6 DEF LearnsType
    <3>2. CASE a \in worker.read
      <4>1. ~ worker.loaded[a].userSet
        BY <3>1, <3>2 DEF AsLoaded
      <4> QED BY <2>5, <2>6, <3>2, <4>1 DEF TypesInv, LearnedTypes
    <3>3. CASE a \notin worker.read
      <4>1. ~ accounts[a].userSet
        BY <3>1, <3>3 DEF AsLoaded
      <4> QED BY <2>6, <4>1
    <3> QED BY <3>2, <3>3
  <2>7. NewIsBlank' /\ LearnedTypes'
    <3>1. accounts' = accounts /\ raced' = raced /\ NewIsBlank /\ LearnedTypes
      BY <2>4 DEF Rows, TypesInv
    <3>2. NewIsBlank'
      BY <2>3, <3>1 DEF NewIsBlank
    <3>3. ASSUME NEW c \in Account, worker'.created[c] = "no", worker'.planned[c] # "no" \/ worker'.flushed[c] # "no"
          PROVE  c \in worker'.read /\ (accounts'[c].userSet => c \in raced')
      BY <2>3, <2>6, <3>1, <3>3 DEF LearnedTypes
    <3>4. ASSUME NEW c \in Account, c \in worker'.read, accounts'[c].userSet
          PROVE  worker'.loaded[c].userSet \/ c \in raced'
      <4>1. CASE c \in worker.read
        BY <2>3, <3>1, <3>4, <4>1 DEF LearnedTypes
      <4>2. CASE c \notin worker.read
        BY <2>3, <2>5, <3>1, <3>4, <4>2
      <4> QED BY <4>1, <4>2
    <3> QED BY <3>2, <3>3, <3>4 DEF LearnedTypes
  <2> QED BY <1>0, <2>4, <2>7, WorkerLearns
<1>8. CASE AccountGone \/ AbandonFile
  BY <1>0, <1>8, FreshLearns DEF AccountGone, AbandonFile
<1>9. CASE CommitFile
  <2>1. worker'.created = NoTypes /\ worker'.planned = NoTypes /\ worker'.flushed = NoTypes /\ worker'.read = {}
    BY <1>9 DEF CommitFile, AtRest
  <2>2. \A c \in Account : accounts[c].state # "unused" => accounts'[c].state # "unused"
    BY <1>w, <1>9 DEF CommitFile, AccountRow
  <2>3. RequestsKnow'
    BY <1>9, <2>2 DEF CommitFile, TypesInv, RequestsKnow
  <2> QED BY <1>0, <2>1, <2>3, NothingLearned DEF TypesInv
<1>10. ASSUME NEW q \in Request, NEW first \in Account, NEW r \in RequestState, Ask(q, first, r), r.account \in Kept
       PROVE  TypesInv'
  <2>1. \A o \in Request : api'[o].account = IF o = q THEN r.account ELSE api[o].account
    BY <1>w, <1>10 DEF Ask, RequestState
  <2> QED BY <1>0, <1>10, <2>1, RequestLearns DEF Ask, Rows
<1>11. ASSUME NEW q \in Request, NEW a \in Account, NEW t \in UserType, AskRetype(q, a, t) PROVE TypesInv'
  <2> DEFINE r == [Idle EXCEPT !.op = "retype", !.account = a, !.type = t]
  <2>1. r \in RequestState /\ r.account = a
    BY AccountsAssumption DEF Idle, RequestState, AccountType
  <2>2. Ask(q, a, r) /\ a \in Kept
    BY <1>11 DEF AskRetype, Ask
  <2> HIDE DEF r
  <2> QED BY <1>10, <2>1, <2>2
<1>12. ASSUME NEW q \in Request, NEW a \in Account, NEW b \in Balance, AskAnchor(q, a, b) PROVE TypesInv'
  <2> DEFINE r == [Idle EXCEPT !.op = "anchor", !.account = a, !.balance = b]
  <2>1. r \in RequestState /\ r.account = a
    BY DEF Idle, RequestState, AccountType
  <2>2. Ask(q, a, r) /\ a \in Kept
    BY <1>12 DEF AskAnchor, Ask
  <2> HIDE DEF r
  <2> QED BY <1>10, <2>1, <2>2
<1>13. ASSUME NEW q \in Request, NEW a \in Account, NEW b \in Account, NEW keep \in Account \cup {NoAccount},
              AskMerge(q, a, b, keep)
       PROVE  TypesInv'
  <2> DEFINE r == [Idle EXCEPT !.op = "merge", !.account = a, !.other = b, !.keep = keep]
             first == FirstToLock(a, b)
  <2>1. r \in RequestState /\ r.account = a /\ first \in Account
    BY DEF Idle, RequestState, AccountType, FirstToLock
  <2>2. Ask(q, first, r) /\ a \in Kept
    BY <1>13 DEF AskMerge
  <2> HIDE DEF r, first
  <2> QED BY <1>10, <2>1, <2>2
<1>14. ASSUME NEW q \in Request, LockAccount(q) PROVE TypesInv'
  <2>1. PICK a \in NextToLock(q) :
           api' = [api EXCEPT ![q].seen = @ \cup {a}, ![q].held = IF a \in Kept THEN @ \cup {a} ELSE @]
    BY <1>14 DEF LockAccount
  <2>2. \A o \in Request : api'[o].account = api[o].account
    BY <1>w, <2>1 DEF RequestState
  <2> QED BY <1>0, <1>14, <2>2, RequestLearns DEF LockAccount, Rows
<1>15. ASSUME NEW q \in Request, Answer(q)
       PROVE  \A o \in Request : api'[o].account \in Account => api'[o].account = api[o].account
  BY <1>w, <1>15, IdleType, AccountsAssumption DEF Answer
<1>16. ASSUME NEW q \in Request, Retype(q) PROVE TypesInv'
  <2> DEFINE a == api[q].account
  <2>1. /\ \A c \in Account : /\ c # a => accounts'[c] = accounts[c]
                              /\ accounts'[c].state = accounts[c].state
        /\ a \in Account => accounts[a].state # "unused"
    BY <1>w, <1>16 DEF Retype, AccountRow, TypesInv, RequestsKnow
  <2>2. raced' = (IF a \in worker.read THEN raced \cup {a} ELSE raced) /\ UNCHANGED worker /\ Answer(q)
    BY <1>16 DEF Retype
  <2> HIDE DEF a
  <2>3. NewIsBlank'
    BY <2>1, <2>2 DEF TypesInv, NewIsBlank, Unused
  <2>4. LearnedTypes'
    BY <2>1, <2>2 DEF TypesInv, LearnedTypes
  <2>5. RequestsKnow'
    BY <1>15, <2>1, <2>2 DEF TypesInv, RequestsKnow
  <2> QED BY <1>0, <2>3, <2>4, <2>5 DEF TypesInv
<1>17. ASSUME NEW q \in Request, Merge(q) PROVE TypesInv'
  <2> DEFINE a == api[q].account  b == api[q].other
             typed == ~accounts[a].userSet /\ accounts[b].userSet
  <2>1. a \in Kept /\ b \in Kept /\ a # b
    BY <1>0, <1>17 DEF Merge, Mergeable, Ready, AccountsInv, LocksFit
  <2>2. \A c \in Account : /\ c \notin {a, b} => accounts'[c] = accounts[c]
                           /\ accounts[c].state # "unused" => accounts'[c].state # "unused"
                           /\ accounts'[c].userSet => accounts[c].userSet \/ (c = a /\ typed)
    <3>1. accounts' = [accounts EXCEPT ![a].type = IF typed THEN accounts[b].type ELSE @,
                                       ![a].userSet = @ \/ typed, ![b].state = "merged"]
      BY <1>17 DEF Merge
    <3>2. a \in Account /\ b \in Account
      BY <2>1 DEF Kept
    <3> HIDE DEF a, b, typed
    <3> QED BY <1>w, <2>1, <3>1, <3>2 DEF AccountRow
  <2>3. raced' = (IF a \in worker.read /\ typed THEN raced \cup {a} ELSE raced) /\ UNCHANGED worker /\ Answer(q)
    BY <1>17 DEF Merge
  <2> HIDE DEF a, b, typed
  <2>4. NewIsBlank'
    BY <2>1, <2>2, <2>3 DEF TypesInv, NewIsBlank, Unused, Kept
  <2>5. LearnedTypes'
    BY <2>2, <2>3 DEF TypesInv, LearnedTypes
  <2>6. RequestsKnow'
    BY <1>15, <2>2, <2>3 DEF TypesInv, RequestsKnow
  <2> QED BY <1>0, <2>4, <2>5, <2>6 DEF TypesInv
<1>18. ASSUME NEW q \in Request, SetAnchor(q) \/ Refuse(q) PROVE TypesInv'
  BY <1>0, <1>15, <1>18, RequestLearns DEF SetAnchor, Refuse, Rows
<1>19. ASSUME NEW q \in Request, BreakDeadlock(q) PROVE TypesInv'
  <2>1. CASE Answer(q) /\ UNCHANGED worker
    BY <1>0, <1>15, <1>19, <2>1, RequestLearns DEF BreakDeadlock, Rows
  <2>2. CASE worker' = [AtRest EXCEPT !.step = "failed"] /\ UNCHANGED api
    BY <1>0, <1>19, <2>2, FreshLearns DEF BreakDeadlock
  <2> QED BY <1>19, <2>1, <2>2 DEF BreakDeadlock
<1>20. CASE UNCHANGED vars
  BY <1>0, <1>20, RequestLearns DEF vars
<1>21. CASE Ingest
  BY <1>1, <1>2, <1>3, <1>4, <1>5, <1>6, <1>7, <1>8, <1>9, <1>21 DEF Ingest
<1>22. CASE Manage
  BY <1>11, <1>12, <1>13, <1>14, <1>16, <1>17, <1>18, <1>19, <1>22 DEF Manage
<1> QED BY <1>20, <1>21, <1>22 DEF Next

LEMMA TypesChange ==
    ASSUME TypesInv, [Next]_vars, NEW a \in Account, accounts[a].userSet, accounts'[a].type # accounts[a].type
    PROVE  \/ a \in raced
           \/ \E q \in Request : api[q].op = "retype" /\ api[q].account = a /\ api'[q] = Idle
<1>1. accounts \in [Account -> AccountRow] /\ api \in [Request -> RequestState] /\ worker \in WorkerState
  BY DEF TypesInv, AccountsInv, TypeInv, TypeOK
<1>2. accounts' # accounts
  OBVIOUS
<1>3. CASE CommitFile
  <2>1. worker.created[a] = "no"
    BY DEF TypesInv, NewIsBlank, Unused
  <2>2. worker.flushed[a] # "no"
    BY <1>1, <1>3, <2>1 DEF CommitFile
  <2> QED BY <2>1, <2>2 DEF TypesInv, LearnedTypes
<1>4. ASSUME NEW q \in Request, Retype(q) PROVE api[q].op = "retype" /\ api[q].account = a /\ api'[q] = Idle
  BY <1>1, <1>4 DEF Retype, Ready, Answer
<1>5. ASSUME NEW q \in Request, Merge(q) PROVE FALSE
  <2> DEFINE x == api[q].account  b == api[q].other
             typed == ~accounts[x].userSet /\ accounts[b].userSet
  <2>1. accounts' = [accounts EXCEPT ![x].type = IF typed THEN accounts[b].type ELSE @,
                                     ![x].userSet = @ \/ typed, ![b].state = "merged"]
    BY <1>5 DEF Merge
  <2>2. a = x => ~typed
    OBVIOUS
  <2>3. x \in Account /\ b \in Account
    BY <1>5 DEF Merge, Mergeable, TypesInv, AccountsInv, LocksFit, Kept
  <2> HIDE DEF x, b, typed
  <2> QED BY <1>1, <2>1, <2>2, <2>3 DEF AccountRow
<1>6. CASE Ingest
  BY <1>2, <1>3, <1>6 DEF Ingest, BeginFile, RemoveStatement, FlushType, CreateAccount, PinSection, ResolveKnown,
                          BeginRecording, AccountGone, AbandonFile, Rows
<1>7. CASE Manage
  BY <1>2, <1>4, <1>5, <1>7 DEF Manage, AskRetype, AskAnchor, AskMerge, Ask, LockAccount, SetAnchor, Refuse,
                                BreakDeadlock, Rows
<1> QED BY <1>2, <1>6, <1>7 DEF Next, vars

\* Only the user changes a type the user has set, unless the user set it after
\* the worker had read the account for the file it is ingesting.
THEOREM UsersTypeStays == Spec => UserTypeKeptUnlessRaced
<1>1. TypesInv /\ [Next]_vars =>
         [\A a \in Account : accounts[a].userSet /\ accounts'[a].type # accounts[a].type =>
              \/ a \in raced
              \/ \E q \in Request : api[q].op = "retype" /\ api[q].account = a /\ api'[q] = Idle]_vars
  BY TypesChange
<1> QED BY <1>1, TypesInit, TypesStep, PTL DEF Spec, UserTypeKeptUnlessRaced

=============================================================================
