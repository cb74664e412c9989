------------------------------ MODULE Accounts ------------------------------
(***************************************************************************)
(* Accounts: the worker resolves each section of a statement to an account *)
(* by its key (bank, identifier, currency) while it ingests the file; the  *)
(* user renames, retypes, anchors and merges accounts through the API.     *)
(*                                                                         *)
(* A request locks the accounts it names in id order and does everything   *)
(* else in that one transaction.  The worker reads accounts without a      *)
(* lock; it meets the requests' locks only when it writes: the UPDATE of a *)
(* type and the foreign key of each section it inserts pin the account     *)
(* until the file commits.                                                 *)
(***************************************************************************)
EXTENDS Naturals, FiniteSets, Sequences

CONSTANTS
    Account,        \* identities of accounts (bound: accounts ever created)
    Id,             \* Id[a]: the account's id, by which rows are locked
    Key,            \* bank, identifier and currency as printed
    CurrencyOf,     \* CurrencyOf[k]
    Statement,
    Sections,       \* Sections[s]: the keys statement s prints, in order
    ReadType,       \* ReadType[s][k]: the account type read from that section
    UserType,       \* types the user chooses from (bound)
    Balance,        \* values an anchor can have
    Request,        \* API requests that can be in flight at once
    NoAccount, NoBalance, NoStatement

AccountType == {"deposit", "credit_card", "unknown"}

ASSUME AccountsAssumption ==
    /\ Id \in [Account -> Nat] /\ \A a, b \in Account : Id[a] = Id[b] => a = b
    /\ Sections \in [Statement -> Seq(Key)]
    /\ UserType \subseteq AccountType
    /\ ReadType \in [Statement -> [Key -> AccountType]]
    /\ NoAccount \notin Account /\ NoBalance \notin Balance /\ NoStatement \notin Statement

VARIABLES
    accounts,  \* accounts
    keyOf,     \* account_keys: the account each key leads to
    anchors,   \* balance_anchors
    sections,  \* statement_accounts of committed statements
    worker,    \* the file the worker ingests and what it has read and flushed
    api,       \* API requests in flight and the rows they hold locked
    raced      \* history: accounts the user retyped after the worker had read them for this file

vars == <<accounts, keyOf, anchors, sections, worker, api, raced>>

----------------------------------------------------------------------------
(* Rows and local states.                                                  *)

AccountRow == [state : {"unused", "kept", "merged"}, type : AccountType, userSet : BOOLEAN]
Unused == [state |-> "unused", type |-> "unknown", userSet |-> FALSE]
Kept == {a \in Account : accounts[a].state = "kept"}

\* One row per statement and account, with the keys that led to it.
SectionRow == [statement : Statement, account : Account, keys : SUBSET Key]

\* "recording" is from the first flush of the statement to the file's commit.
WorkerState == [step : {"idle", "resolving", "recording", "failed"}, statement : Statement \cup {NoStatement},
                todo : Seq(Key), resolved : SUBSET [key : Key, account : Account],
                created : [Account -> AccountType \cup {"no"}], read : SUBSET Account,
                loaded : [Account -> [type : AccountType, userSet : BOOLEAN]],
                planned : [Account -> AccountType \cup {"no"}], flushed : [Account -> AccountType \cup {"no"}],
                pinned : SUBSET Account]
NoTypes == [a \in Account |-> "no"]
NothingLoaded == [a \in Account |-> [type |-> "unknown", userSet |-> FALSE]]
AtRest == [step |-> "idle", statement |-> NoStatement, todo |-> <<>>, resolved |-> {}, created |-> NoTypes,
           read |-> {}, loaded |-> NothingLoaded, planned |-> NoTypes, flushed |-> NoTypes, pinned |-> {}]

RequestState == [op : {"idle", "retype", "anchor", "merge"}, account : Account \cup {NoAccount},
                 other : Account \cup {NoAccount}, type : AccountType, balance : Balance \cup {NoBalance},
                 keep : Account \cup {NoAccount}, seen : SUBSET Account, held : SUBSET Account]
Idle == [op |-> "idle", account |-> NoAccount, other |-> NoAccount, type |-> "unknown", balance |-> NoBalance,
         keep |-> NoAccount, seen |-> {}, held |-> {}]

Locked(a) == \E q \in Request : a \in api[q].held
Rows == <<accounts, keyOf, anchors, sections>>

----------------------------------------------------------------------------
(* Worker: resolving the sections of a statement, then recording them.     *)

BeginFile(s) ==
    /\ worker = AtRest /\ \A r \in sections : r.statement # s
    /\ worker' = [AtRest EXCEPT !.step = "resolving", !.statement = s, !.todo = Sections[s]]
    /\ UNCHANGED <<Rows, api, raced>>

\* The account a key leads to: a committed one, or one this file has created.
Found(k) == ({keyOf[k]} \cap Account) \cup {r.account : r \in {x \in worker.resolved : x.key = k}}

\* The session returns an account it holds as it was when the file first read it.
AsLoaded(a) == IF a \in worker.read THEN worker.loaded[a]
               ELSE [type |-> accounts[a].type, userSet |-> accounts[a].userSet]

\* What the type rules make of a section read as type t: nothing if the user
\* has set the type, if t says nothing, or if a type is known already.
CurrentType(a) == IF worker.created[a] # "no" THEN worker.created[a]
                  ELSE IF worker.planned[a] # "no" THEN worker.planned[a]
                  ELSE IF worker.flushed[a] # "no" THEN worker.flushed[a] ELSE AsLoaded(a).type
\* Mutant: the user's correction is not looked at.
LearnsAnyType(a, t) == t # "unknown" /\ CurrentType(a) = "unknown"
LearnsType(a, t) == /\ ~AsLoaded(a).userSet
                    /\ t # "unknown" /\ CurrentType(a) = "unknown"

ResolveKnown ==
    LET k == Head(worker.todo)
        t == ReadType[worker.statement][k]
    IN  /\ worker.step = "resolving" /\ worker.todo # <<>>
        /\ \E a \in Found(k) :
               worker' = [worker EXCEPT !.todo = Tail(@), !.read = @ \cup {a}, !.loaded[a] = AsLoaded(a),
                                        !.resolved = @ \cup {[key |-> k, account |-> a]},
                                        !.planned[a] = IF LearnsType(a, t) THEN t ELSE @]
        /\ UNCHANGED <<Rows, api, raced>>

Pending == {a \in Account : worker.planned[a] # "no" /\ worker.created[a] = "no"}

\* Creating an account flushes; so does recording the statement.  A planned
\* type is written by primary key then.
MustFlush == \/ worker.step = "recording"
             \/ worker.step = "resolving" /\ worker.todo # <<>> /\ Found(Head(worker.todo)) = {}

FlushType(a) ==
    /\ MustFlush /\ a \in Pending /\ ~Locked(a) /\ a \in Kept
    /\ worker' = [worker EXCEPT !.planned[a] = "no", !.flushed[a] = worker.planned[a], !.pinned = @ \cup {a}]
    /\ UNCHANGED <<Rows, api, raced>>

CreateAccount(a) ==
    LET k == Head(worker.todo)
    IN  /\ worker.step = "resolving" /\ worker.todo # <<>> /\ Found(k) = {} /\ Pending = {}
        /\ accounts[a] = Unused /\ worker.created[a] = "no"
        /\ worker' = [worker EXCEPT !.todo = Tail(@), !.created[a] = ReadType[worker.statement][k],
                                    !.resolved = @ \cup {[key |-> k, account |-> a]}]
        /\ UNCHANGED <<Rows, api, raced>>

BeginRecording ==
    /\ worker.step = "resolving" /\ worker.todo = <<>>
    /\ worker' = [worker EXCEPT !.step = "recording"]
    /\ UNCHANGED <<Rows, api, raced>>

ResolvedTo == {r.account : r \in worker.resolved}

\* The foreign keys of the sections are checked one after the other, in the
\* order in which the statement prints them.
FirstKey(a) == CHOOSE i \in DOMAIN Sections[worker.statement] :
                   /\ [key |-> Sections[worker.statement][i], account |-> a] \in worker.resolved
                   /\ \A j \in 1 .. i - 1 :
                          [key |-> Sections[worker.statement][j], account |-> a] \notin worker.resolved
ToPin == {a \in ResolvedTo : a \notin worker.pinned}
NextToPin(a) == a \in ToPin /\ \A b \in ToPin : FirstKey(a) <= FirstKey(b)

PinSection(a) ==
    /\ worker.step = "recording" /\ Pending = {} /\ NextToPin(a)
    /\ ~Locked(a) /\ (a \in Kept \/ worker.created[a] # "no")
    /\ worker' = [worker EXCEPT !.pinned = @ \cup {a}]
    /\ UNCHANGED <<Rows, api, raced>>

\* An account it resolved to has been merged away: the UPDATE matches no row,
\* or the foreign key is refused.
Gone(a) == a \notin Kept /\ worker.created[a] = "no"
AccountGone ==
    /\ \/ MustFlush /\ \E a \in Pending : Gone(a)
       \/ worker.step = "recording" /\ Pending = {} /\ \E a \in ToPin : NextToPin(a) /\ Gone(a)
    /\ worker' = [AtRest EXCEPT !.step = "failed"]
    /\ UNCHANGED <<Rows, api, raced>>

CommitFile ==
    /\ worker.step = "recording" /\ Pending = {} /\ ToPin = {}
    /\ accounts' = [a \in Account |->
           IF worker.created[a] # "no"
           THEN [state |-> "kept", userSet |-> FALSE,
                 type |-> IF worker.planned[a] # "no" THEN worker.planned[a] ELSE worker.created[a]]
           ELSE IF worker.flushed[a] # "no" THEN [accounts[a] EXCEPT !.type = worker.flushed[a]]
           ELSE accounts[a]]
    /\ keyOf' = [k \in Key |-> IF \E r \in worker.resolved : r.key = k /\ worker.created[r.account] # "no"
                               THEN (CHOOSE r \in worker.resolved : r.key = k).account ELSE keyOf[k]]
    /\ sections' = sections \cup
           {[statement |-> worker.statement, account |-> a,
             keys |-> {r.key : r \in {x \in worker.resolved : x.account = a}}] : a \in ResolvedTo}
    /\ worker' = AtRest
    /\ raced' = {}
    /\ UNCHANGED <<anchors, api>>

\* Any other failure of the file, its end after one, or a crash.
AbandonFile ==
    /\ worker # AtRest
    /\ worker' = AtRest
    /\ raced' = {}
    /\ UNCHANGED <<Rows, api>>

\* A removal deletes a statement's sections and leaves its accounts.
RemoveStatement(s) ==
    /\ worker = AtRest /\ \E r \in sections : r.statement = s
    /\ sections' = {r \in sections : r.statement # s}
    /\ UNCHANGED <<accounts, keyOf, anchors, worker, api, raced>>

----------------------------------------------------------------------------
(* API: each request locks, checks, writes and commits.                    *)

\* A request that waits for its first lock holds and has read nothing: it
\* begins here when it gets that lock.
Free(a) == ~Locked(a) /\ a \notin worker.pinned
Ask(q, first, r) ==
    /\ api[q] = Idle /\ first \in Kept /\ Free(first)
    /\ api' = [api EXCEPT ![q] = [r EXCEPT !.seen = {first}, !.held = {first}]]
    /\ UNCHANGED <<Rows, worker, raced>>

\* Mutant: the rows are locked in the order the request names them.
FirstAsNamed(a, b) == a
FirstToLock(a, b) == IF Id[a] <= Id[b] THEN a ELSE b

AskRetype(q, a, t) == Ask(q, a, [Idle EXCEPT !.op = "retype", !.account = a, !.type = t])
AskAnchor(q, a, b) == Ask(q, a, [Idle EXCEPT !.op = "anchor", !.account = a, !.balance = b])
AskMerge(q, a, b, keep) ==
    /\ {a, b} \subseteq Kept /\ a # b
    /\ Ask(q, FirstToLock(a, b), [Idle EXCEPT !.op = "merge", !.account = a, !.other = b, !.keep = keep])

\* The second lock of a merge; a row that another transaction has deleted
\* meanwhile is not returned.
NextToLock(q) == ({api[q].account, api[q].other} \cap Account) \ api[q].seen
LockAccount(q) ==
    /\ \E a \in NextToLock(q) :
           /\ Free(a)
           /\ api' = [api EXCEPT ![q].seen = @ \cup {a}, ![q].held = IF a \in Kept THEN @ \cup {a} ELSE @]
    /\ UNCHANGED <<Rows, worker, raced>>

Ready(q, op) == api[q].op = op /\ NextToLock(q) = {}
Answer(q) == api' = [api EXCEPT ![q] = Idle]

Retype(q) ==
    LET a == api[q].account
    IN  /\ Ready(q, "retype") /\ accounts[a].type # api[q].type
        /\ accounts' = [accounts EXCEPT ![a].type = api[q].type, ![a].userSet = TRUE]
        /\ raced' = IF a \in worker.read THEN raced \cup {a} ELSE raced
        /\ Answer(q)
        /\ UNCHANGED <<keyOf, anchors, sections, worker>>

SetAnchor(q) ==
    LET a == api[q].account
    IN  /\ Ready(q, "anchor") /\ accounts[a].type = "deposit"
        /\ anchors' = [anchors EXCEPT ![a] = api[q].balance]
        /\ Answer(q)
        /\ UNCHANGED <<accounts, keyOf, sections, worker, raced>>

ListsBoth(a, b) == \E s \in Statement : {a, b} \subseteq {r.account : r \in {x \in sections : x.statement = s}}
CurrencyOfAccount(a) == {CurrencyOf[k] : k \in {x \in Key : keyOf[x] = a}}

\* Whose anchor a merge keeps; a request that names no valid one is refused.
HasAnchor(a) == anchors[a] # NoBalance
Anchored(a, b) == {x \in {a, b} : HasAnchor(x)}
ChoiceIsValid(a, b, keep) ==
    \/ keep \in Anchored(a, b)
    \/ keep = NoAccount /\ Cardinality(Anchored(a, b)) <= 1

Mergeable(q) ==
    LET a == api[q].account
        b == api[q].other
    IN  /\ {a, b} \subseteq api[q].held
        /\ CurrencyOfAccount(a) = CurrencyOfAccount(b)
        /\ ~ListsBoth(a, b)
        /\ ChoiceIsValid(a, b, api[q].keep)

KeptAnchor(a, b, keep) == IF keep # NoAccount THEN anchors[keep]
                          ELSE IF HasAnchor(a) THEN anchors[a] ELSE anchors[b]

\* Mutant: the sections follow the survivor, the keys do not.
KeysStay(a, b) == keyOf
KeysFollow(a, b) == [k \in Key |-> IF keyOf[k] = b THEN a ELSE keyOf[k]]

Merge(q) ==
    LET a == api[q].account
        b == api[q].other
        typed == ~accounts[a].userSet /\ accounts[b].userSet
    IN  /\ Ready(q, "merge") /\ Mergeable(q)
        /\ sections' = {[r EXCEPT !.account = IF @ = b THEN a ELSE @] : r \in sections}
        /\ keyOf' = KeysFollow(a, b)
        /\ anchors' = [anchors EXCEPT ![a] = KeptAnchor(a, b, api[q].keep), ![b] = NoBalance]
        /\ accounts' = [accounts EXCEPT ![a].type = IF typed THEN accounts[b].type ELSE @,
                                        ![a].userSet = @ \/ typed, ![b].state = "merged"]
        /\ raced' = IF a \in worker.read /\ typed THEN raced \cup {a} ELSE raced
        /\ Answer(q)
        /\ UNCHANGED worker

Refuse(q) ==
    /\ \/ Ready(q, "retype") /\ accounts[api[q].account].type = api[q].type
       \/ Ready(q, "anchor") /\ accounts[api[q].account].type # "deposit"
       \/ Ready(q, "merge") /\ ~Mergeable(q)
    /\ Answer(q)
    /\ UNCHANGED <<Rows, worker, raced>>

\* A request and the worker, or two requests, wait for each other: PostgreSQL
\* aborts one of them.
WaitsFor(q) == NextToLock(q)
WorkerWaitsFor == IF Pending # {} THEN (IF MustFlush THEN Pending ELSE {})
                  ELSE IF worker.step = "recording" THEN {a \in ToPin : NextToPin(a)} ELSE {}
WaitsOnWorker(q) == WaitsFor(q) \cap worker.pinned # {}
Deadlocked(q) ==
    \/ WaitsOnWorker(q) /\ WorkerWaitsFor \cap api[q].held # {}
    \/ \E o \in Request \ {q} : WaitsFor(q) \cap api[o].held # {} /\ WaitsFor(o) \cap api[q].held # {}
BreakDeadlock(q) ==
    /\ Deadlocked(q)
    /\ \/ Answer(q) /\ UNCHANGED worker
       \/ WaitsOnWorker(q) /\ worker' = [AtRest EXCEPT !.step = "failed"] /\ UNCHANGED api
    /\ UNCHANGED <<Rows, raced>>

----------------------------------------------------------------------------
Init ==
    /\ accounts = [a \in Account |-> Unused]
    /\ keyOf = [k \in Key |-> NoAccount]
    /\ anchors = [a \in Account |-> NoBalance]
    /\ sections = {}
    /\ worker = AtRest
    /\ api = [q \in Request |-> Idle]
    /\ raced = {}

Ingest ==
    \/ \E s \in Statement : BeginFile(s) \/ RemoveStatement(s)
    \/ \E a \in Account : FlushType(a) \/ CreateAccount(a) \/ PinSection(a)
    \/ ResolveKnown \/ BeginRecording \/ AccountGone \/ CommitFile \/ AbandonFile

Manage ==
    \/ \E q \in Request, a \in Account, t \in UserType : AskRetype(q, a, t)
    \/ \E q \in Request, a \in Account, b \in Balance : AskAnchor(q, a, b)
    \/ \E q \in Request, a, b \in Account, keep \in Account \cup {NoAccount} : AskMerge(q, a, b, keep)
    \/ \E q \in Request : LockAccount(q) \/ Retype(q) \/ SetAnchor(q) \/ Merge(q) \/ Refuse(q) \/ BreakDeadlock(q)

Next == Ingest \/ Manage

Spec == Init /\ [][Next]_vars

----------------------------------------------------------------------------
(* Properties.                                                             *)

\* The rows and the local states have their types.
TypeOK ==
    /\ accounts \in [Account -> AccountRow]
    /\ keyOf \in [Key -> Account \cup {NoAccount}]
    /\ anchors \in [Account -> Balance \cup {NoBalance}]
    /\ sections \subseteq SectionRow
    /\ worker \in WorkerState /\ raced \subseteq Account
    /\ api \in [Request -> RequestState]

\* However merges interleave with ingestion, every section of a committed
\* statement hangs on the account its printed key leads to now, that account
\* exists, and a statement lists an account once (BR-30, BR-35, BR-37): the
\* worker reads the key without a lock and only its foreign key saves it from
\* writing to an account merged away since (accounts/service.py, both services).
SectionsFollowKeys ==
    /\ \A r \in sections : r.account \in Kept /\ \A k \in r.keys : keyOf[k] = r.account
    /\ \A r, o \in sections : r.statement = o.statement /\ r.account = o.account => r = o

\* BR-34 as far as the code keeps it: a type the user has set is changed by no
\* statement, unless the user set it after the worker had read the account for
\* the file it is ingesting (worker accounts/service.py, _apply_type_rules).
UserTypeKeptUnlessRaced ==
    [][\A a \in Account : accounts[a].userSet /\ accounts'[a].type # accounts[a].type =>
           \/ a \in raced
           \/ \E q \in Request : api[q].op = "retype" /\ api[q].account = a /\ api'[q] = Idle]_vars

\* BR-34 as it is stated: no extraction ever changes a type the user has set.
UserTypeKept ==
    [][\A a \in Account : accounts[a].userSet /\ accounts'[a].type # accounts[a].type =>
           \E q \in Request : api[q].op = "retype" /\ api[q].account = a /\ api'[q] = Idle]_vars

\* Two requests never wait for each other, since each locks its accounts in id
\* order (repository.py, lock_accounts); a merge and a file that prints both
\* accounts the other way round may, and one of the two fails.
RequestsNeverDeadlock ==
    \A q, o \in Request : q # o => ~(WaitsFor(q) \cap api[o].held # {} /\ WaitsFor(o) \cap api[q].held # {})

============================================================================
