------------------------------- MODULE Ledger -------------------------------
(***************************************************************************)
(* The double-entry ledger (apps/server/src/ledger.rs).  A transfer or a   *)
(* mint is one transaction that creates missing wallets, locks both        *)
(* accounts, looks for its idempotency key, inserts the key and its two    *)
(* postings, checks the sender's balance and commits.  As in Messaging, a  *)
(* request takes one statement at a time and the table variables hold      *)
(* committed rows.  Balances are never stored: they are sums of postings.  *)
(***************************************************************************)
EXTENDS Integers, FiniteSetsExt

CONSTANTS
    Users,      \* account ids, ordered: wallets are created in user order
    Amounts,    \* amounts that callers ask for
    Keys,       \* idempotency keys (transaction_id)
    Reqs,       \* concurrent requests
    MaxCalls,   \* bound: calls of transfer and mint in one behaviour
    MaxBigint,  \* the largest BIGINT
    None

Treasury == 0   \* the owner of the system account, created before a wallet

ASSUME UsersAssumption == Users \subseteq Nat \ {Treasury}
ASSUME AmountsAssumption == MaxBigint \in Nat /\ Amounts \subseteq 1..MaxBigint
ASSUME MaxCallsAssumption == MaxCalls \in Nat
ASSUME NoneAssumption == None \notin Reqs \cup {"transfer", "mint"}
ASSUME FiniteAssumption == IsFiniteSet(Users) /\ IsFiniteSet(Reqs)

VARIABLES
    account,    \* owner -> ledger_accounts.id, 0 when there is no row
    ledger,     \* key -> the kind of its row in ledger_transactions, or None
    postings,   \* rows of ledger_postings
    accountLock,\* owner -> the request that locks the account row
    keyLock,    \* key -> the request that has inserted it, uncommitted
    at,         \* request -> the statement it executes next
    call,       \* request -> its arguments and the wallets it created
    calls,      \* calls so far (MaxCalls bounds it)
    answers     \* history: successful answers

tables == <<account, ledger, postings>>
locks == <<accountLock, keyLock>>
vars == <<tables, locks, at, call, calls, answers>>

Owners == Users \cup {Treasury}

Posting == [key: Keys, owner: Owners, amount: Int \ {0}]

Movement == [kind: {"transfer", "mint"}, from: Owners, to: Users, amount: Amounts]

Answer == [key: Keys, movement: Movement]

Steps == {"idle", "ensure", "lock", "find", "insert", "post", "commit"}

Call == [key: Keys \cup {None}, movement: Movement \cup {None},
         todo: SUBSET Owners, made: [Owners -> Nat]]

NothingMade == [o \in Owners |-> 0]

Blank == [key |-> None, movement |-> None, todo |-> {}, made |-> NothingMade]

Key(r) == call[r].key

Moved(r) == call[r].movement

\* The account id that r works with: committed, or created by r itself.
IdOf(r, o) == IF account[o] # 0 THEN account[o] ELSE call[r].made[o]

\* Uuid::now_v7 is newer than every id in use; nothing refers to the id of a
\* row that was rolled back.
NewId == 1 + Max({account[o] : o \in Owners} \cup
                 {call[r].made[o] : r \in Reqs, o \in Owners})

Total(rows) == MapThenSumSet(LAMBDA p : p.amount, rows)

Balance(o) == Total({p \in postings : p.owner = o})

Legs(key, x) == {[key |-> key, owner |-> x.from, amount |-> -x.amount],
                 [key |-> key, owner |-> x.to, amount |-> x.amount]}

-----------------------------------------------------------------------------
(* The steps of a request.                                                 *)

Advance(r, step) == at' = [at EXCEPT ![r] = step]

\* mutant of Finish: the reservation of the key is kept
FinishKeepingKey(r) ==
    /\ accountLock' = [o \in Owners |-> IF accountLock[o] = r THEN None ELSE accountLock[o]]
    /\ Advance(r, "idle")
    /\ call' = [call EXCEPT ![r] = Blank]
    /\ UNCHANGED keyLock

Finish(r) ==
    /\ accountLock' = [o \in Owners |-> IF accountLock[o] = r THEN None ELSE accountLock[o]]
    /\ keyLock' = [k \in Keys |-> IF keyLock[k] = r THEN None ELSE keyLock[k]]
    /\ Advance(r, "idle")
    /\ call' = [call EXCEPT ![r] = Blank]

\* An error answer, a dropped future or a lost connection: a rollback.
Abandon(r) ==
    /\ Finish(r)
    /\ UNCHANGED <<tables, calls, answers>>

Rollback(r) == at[r] # "idle" /\ Abandon(r)

\* ensure_wallet, outside any transaction: reading a balance creates a wallet.
EnsureWallet(u) ==
    /\ account[u] = 0
    /\ accountLock[u] = None
    /\ account' = [account EXCEPT ![u] = NewId]
    /\ UNCHANGED <<ledger, postings, locks, at, call, calls, answers>>

Begin(r, key, x) ==
    /\ at[r] = "idle"
    /\ calls < MaxCalls
    /\ calls' = calls + 1
    /\ Advance(r, "ensure")
    /\ call' = [call EXCEPT ![r] = [Blank EXCEPT !.key = key, !.movement = x,
                                                 !.todo = {x.from, x.to}]]
    /\ UNCHANGED <<tables, locks, answers>>

Transfer(r) ==
    \E key \in Keys, from, to \in Users, amount \in Amounts :
        /\ from # to
        /\ Begin(r, key, [kind |-> "transfer", from |-> from, to |-> to, amount |-> amount])

Mint(r) ==
    \E key \in Keys, to \in Users, amount \in Amounts :
        Begin(r, key, [kind |-> "mint", from |-> Treasury, to |-> to, amount |-> amount])

\* mutant of NextWallet: the sender's wallet first
SenderFirst(r) == IF Moved(r).from \in call[r].todo THEN Moved(r).from ELSE Moved(r).to

\* ensure_wallets_sorted_tx: in user order, and the treasury first of all.
NextWallet(r) == Min(call[r].todo)

\* INSERT ... ON CONFLICT DO NOTHING waits for an open insert of the same owner.
CreateWallet(r) ==
    LET o == NextWallet(r)
    IN  /\ at[r] = "ensure"
        /\ account[o] = 0 => accountLock[o] = None
        /\ IF account[o] = 0
           THEN /\ accountLock' = [accountLock EXCEPT ![o] = r]
                /\ call' = [call EXCEPT ![r].made[o] = NewId,
                                        ![r].todo = @ \ {o}]
           ELSE /\ call' = [call EXCEPT ![r].todo = @ \ {o}]
                /\ UNCHANGED accountLock
        /\ IF call[r].todo = {o} THEN Advance(r, "lock") ELSE UNCHANGED at
        /\ UNCHANGED <<tables, keyLock, calls, answers>>

\* mutant of ToLock: the accounts are read without FOR UPDATE
ReadOnly(r) == {o \in {} : accountLock[o] # r}

\* Accounts that lock_accounts_tx has yet to lock.
ToLock(r) == {o \in {Moved(r).from, Moved(r).to} : accountLock[o] # r}

\* ORDER BY id FOR UPDATE.
NextAccount(r) == CHOOSE o \in ToLock(r) : \A q \in ToLock(r) : IdOf(r, o) <= IdOf(r, q)

LockAccount(r) ==
    /\ at[r] = "lock"
    /\ IF ToLock(r) = {}
       THEN Advance(r, "find") /\ UNCHANGED accountLock
       ELSE /\ accountLock[NextAccount(r)] = None
            /\ accountLock' = [accountLock EXCEPT ![NextAccount(r)] = r]
            /\ UNCHANGED at
    /\ UNCHANGED <<tables, keyLock, call, calls, answers>>

Answered(r) == answers' = answers \cup {[key |-> Key(r), movement |-> Moved(r)]}

\* The wallets that the transaction created.
CommitWallets(r) == account' = [o \in Owners |-> IdOf(r, o)]

\* mutant of SameMovement: any movement under the key is taken for a retry
AnyMovement(r) == TRUE

\* The stored kind and postings are those of the call.
SameMovement(r) ==
    /\ ledger[Key(r)] = Moved(r).kind
    /\ {p \in postings : p.key = Key(r)} = Legs(Key(r), Moved(r))

FindKey(r) ==
    /\ at[r] = "find"
    /\ IF ledger[Key(r)] = None
       THEN Advance(r, "insert") /\ UNCHANGED <<tables, locks, call, calls, answers>>
       ELSE IF SameMovement(r)
            THEN /\ CommitWallets(r)
                 /\ Answered(r)
                 /\ Finish(r)
                 /\ UNCHANGED <<ledger, postings, calls>>
            ELSE Abandon(r)

\* The primary key waits for an open insert of the same key.  If the other
\* commits, this statement fails and with it the transaction: the queries of
\* the fallback meant for this case fail too.
InsertKey(r) ==
    /\ at[r] = "insert"
    /\ keyLock[Key(r)] = None
    /\ IF ledger[Key(r)] = None
       THEN /\ keyLock' = [keyLock EXCEPT ![Key(r)] = r]
            /\ Advance(r, "post")
            /\ UNCHANGED <<tables, accountLock, call, calls, answers>>
       ELSE Abandon(r)

\* mutant of Covered: the balance before the debit is looked at
WasPositive(r) == Balance(Moved(r).from) >= 0

\* The sender's balance after the debit; a sum beyond BIGINT is an error.
Covered(r) ==
    LET rest == Balance(Moved(r).from) - Moved(r).amount
    IN  Moved(r).kind = "transfer" => 0 <= rest /\ rest <= MaxBigint

\* Both postings, then the checks that they net to zero and are covered.
InsertPostings(r) ==
    /\ at[r] = "post"
    /\ IF Total(Legs(Key(r), Moved(r))) = 0 /\ Covered(r)
       THEN Advance(r, "commit") /\ UNCHANGED <<tables, locks, call, calls, answers>>
       ELSE Abandon(r)

Commit(r) ==
    /\ at[r] = "commit"
    /\ CommitWallets(r)
    /\ ledger' = [ledger EXCEPT ![Key(r)] = Moved(r).kind]
    /\ postings' = postings \cup Legs(Key(r), Moved(r))
    /\ Answered(r)
    /\ Finish(r)
    /\ UNCHANGED calls

-----------------------------------------------------------------------------
Init ==
    /\ account = NothingMade
    /\ ledger = [k \in Keys |-> None]
    /\ postings = {}
    /\ accountLock = [o \in Owners |-> None]
    /\ keyLock = [k \in Keys |-> None]
    /\ at = [r \in Reqs |-> "idle"]
    /\ call = [r \in Reqs |-> Blank]
    /\ calls = 0
    /\ answers = {}

Handle(r) ==
    \/ Transfer(r) \/ Mint(r) \/ CreateWallet(r) \/ LockAccount(r) \/ FindKey(r)
    \/ InsertKey(r) \/ InsertPostings(r) \/ Commit(r) \/ Rollback(r)

Next == (\E u \in Users : EnsureWallet(u)) \/ \E r \in Reqs : Handle(r)

Spec == Init /\ [][Next]_vars

-----------------------------------------------------------------------------
(* Safety.                                                                 *)

\* Types; and an uncommitted key or a lock belongs to an open transaction.
TypeOK ==
    /\ account \in [Owners -> Nat]
    /\ ledger \in [Keys -> {"transfer", "mint", None}]
    /\ postings \subseteq Posting
    /\ accountLock \in [Owners -> Reqs \cup {None}]
    /\ keyLock \in [Keys -> Reqs \cup {None}]
    /\ at \in [Reqs -> Steps]
    /\ call \in [Reqs -> Call]
    /\ calls \in 0..MaxCalls
    /\ answers \subseteq Answer
    /\ \A o \in Owners : accountLock[o] # None => at[accountLock[o]] # "idle"
    /\ \A k \in Keys : keyLock[k] # None => at[keyLock[k]] \in {"post", "commit"}

\* transfer: "no overdraft"; no interleaving spends a balance twice.
NoOverdraft == \A u \in Users : Balance(u) >= 0

\* A success answer, of the first call or of a retry, names exactly the
\* movement that the ledger holds under the key, from then on.
AnswersStayTrue ==
    \A a \in answers :
        /\ ledger[a.key] = a.movement.kind
        /\ {p \in postings : p.key = a.key} = Legs(a.key, a.movement)

\* The request whose lock r waits for.
Blocker(r) ==
    CASE at[r] = "ensure" /\ account[NextWallet(r)] = 0 -> accountLock[NextWallet(r)]
      [] at[r] = "lock" /\ ToLock(r) # {} -> accountLock[NextAccount(r)]
      [] at[r] = "insert" -> keyLock[Key(r)]
      [] OTHER -> None

\* "Fixed ordering keeps concurrent transfers from deadlocking", at wallet
\* creation, at the row locks and at the key together.
NoDeadlock ==
    \A waiting \in SUBSET Reqs :
        waiting # {} => \E r \in waiting : Blocker(r) \notin waiting

\* The movement that the committed rows hold under a key.
Stored(k) ==
    IF ledger[k] = None THEN None
    ELSE LET legs == {p \in postings : p.key = k}
             debit == CHOOSE p \in legs : p.amount < 0
             credit == CHOOSE p \in legs : p.amount > 0
         IN  [kind |-> ledger[k], from |-> debit.owner, to |-> credit.owner,
              amount |-> credit.amount]

B == INSTANCE Bank WITH balance <- [o \in Owners |-> Balance(o)],
                        done <- [k \in Keys |-> Stored(k)]

\* The postings are a bank: movements are atomic, balanced, covered, and made
\* once for each key, however requests and retries interleave.
ImplementsBank == B!Spec
=============================================================================
