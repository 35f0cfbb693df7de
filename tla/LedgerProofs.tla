----------------------------- MODULE LedgerProofs -----------------------------
(***************************************************************************)
(* Proofs about Ledger, for all users, amounts, keys, requests and bounds. *)
(***************************************************************************)
EXTENDS Ledger, SumProofs

USE NoneAssumption

\* From its last lock on, a request holds both accounts.
Pinned == {"find", "insert", "post", "commit"}

\* From its insert on, it holds the key.
Keyed == {"post", "commit"}

\* The arguments of an open request.
CallOK(r) ==
    at[r] # "idle" =>
        /\ Key(r) \in Keys
        /\ Moved(r) \in Movement
        /\ Moved(r).from # Moved(r).to
        /\ Moved(r).kind = "mint" <=> Moved(r).from = Treasury
        /\ at[r] = "ensure" => call[r].todo # {}

\* Nobody else moves money of the two accounts between the locks and the commit.
AccountsPinned(r) ==
    at[r] \in Pinned => accountLock[Moved(r).from] = r /\ accountLock[Moved(r).to] = r

\* Nobody else stores the key between its insertion and the commit.
KeyReserved(r) ==
    at[r] \in Keyed => keyLock[Key(r)] = r /\ ledger[Key(r)] = None

\* So what the balance check found still holds at the commit.
CoveredAtCommit(r) ==
    at[r] = "commit" => Covered(r)

RequestOK(r) ==
    CallOK(r) /\ AccountsPinned(r) /\ KeyReserved(r) /\ CoveredAtCommit(r)

\* Finitely many postings, each under a stored key.
PostingsKeyed ==
    /\ IsFiniteSet(postings)
    /\ \A p \in postings : ledger[p.key] # None

\* The inductive invariant.
IInv ==
    /\ TypeOK
    /\ \A r \in Reqs : RequestOK(r)
    /\ PostingsKeyed
    /\ AnswersStayTrue
    /\ NoOverdraft

-----------------------------------------------------------------------------
(* Balances.                                                               *)

Weight == [p \in Posting |-> p.amount]

\* The total of postings is their sum.
LEMMA TotalIsSum ==
    ASSUME NEW S, IsFiniteSet(S), S \subseteq Posting
    PROVE  IsSum(Total(S), Weight, S)
  <1> DEFINE rule(g) == g = [s \in SUBSET S |-> SumAt(g, Weight, s)]
             fold(g) == g = [s \in SUBSET S |->
                               IF s = {} THEN 0
                               ELSE Chosen(s).amount + g[s \ {Chosen(s)}]]
  <1>1. ASSUME NEW s \in SUBSET S, s # {}
        PROVE  Weight[Chosen(s)] = Chosen(s).amount
    BY <1>1 DEF Chosen, Weight
  <1>2. ASSUME NEW g
        PROVE  rule(g) <=> fold(g)
    BY <1>1 DEF SumAt
  <1>3. (CHOOSE g : rule(g)) = CHOOSE g : fold(g)
    <2> HIDE DEF rule, fold
    <2> QED
      BY <1>2
  <1>4. Total(S) = (CHOOSE g : fold(g))[S]
    BY DEF Total, MapThenSumSet, MapThenFoldSet, Chosen
  <1>5. SumOf(Weight, S) = (CHOOSE g : rule(g))[S]
    BY DEF SumOf, MapThenSumSet, MapThenFoldSet, SumAt, Chosen
  <1>6. \A p \in S : Weight[p] \in Int
    BY DEF Weight, Posting
  <1> QED
    BY <1>3, <1>4, <1>5, <1>6, FoldSums

\* One more posting adds its amount.
LEMMA TotalGrows ==
    ASSUME NEW S, IsFiniteSet(S), S \subseteq Posting, NEW p \in Posting, p \notin S
    PROVE  /\ Total(S) \in Int
           /\ Total(S \cup {p}) = Total(S) + p.amount
  <1>1. IsFiniteSet(S \cup {p}) /\ S \cup {p} \subseteq Posting
    BY FS_AddElement
  <1>2. IsSum(Total(S), Weight, S) /\ IsSum(Total(S \cup {p}), Weight, S \cup {p})
    BY <1>1, TotalIsSum
  <1>3. Weight[p] = p.amount /\ \A q \in S \cup {p} : Weight[q] \in Int
    BY DEF Weight, Posting
  <1> QED
    BY <1>2, <1>3, SumOfOneMore, SumIsInt

\* No postings, no total.
LEMMA TotalOfNone == Total({}) = 0
  BY TotalIsSum, EmptySum, FS_EmptySet

\* What a movement is made of.
LEMMA Amounted ==
    ASSUME NEW x \in Movement
    PROVE  /\ x.amount \in Nat \ {0} /\ x.amount \in Amounts
           /\ x.from \in Owners /\ x.to \in Owners /\ x.to \in Users /\ x.to # Treasury
           /\ x.kind \in {"transfer", "mint"}
  <1>1. /\ x.amount \in Amounts /\ x.from \in Owners /\ x.to \in Users
        /\ x.kind \in {"transfer", "mint"}
    BY DEF Movement
  <1>2. x.amount \in 1..MaxBigint
    BY <1>1, AmountsAssumption
  <1>3. x.amount \in Nat \ {0}
    BY <1>2, AmountsAssumption
  <1>4. x.to \in Owners /\ x.to # Treasury
    BY <1>1, UsersAssumption DEF Owners
  <1> QED
    BY <1>1, <1>3, <1>4

\* The postings of one account.
Of(P, o) == {p \in P : p.owner = o}

\* The two legs of a movement.
LEMMA LegsMove ==
    ASSUME NEW k \in Keys, NEW x \in Movement, x.from # x.to,
           NEW P, IsFiniteSet(P), P \subseteq Posting, \A p \in P : p.key # k,
           NEW o \in Owners
    PROVE  /\ Total(Of(P, o)) \in Int /\ IsFiniteSet(P \cup Legs(k, x))
           /\ Total(Of(P \cup Legs(k, x), o)) =
                 IF o = x.from THEN Total(Of(P, o)) - x.amount
                 ELSE IF o = x.to THEN Total(Of(P, o)) + x.amount
                 ELSE Total(Of(P, o))
  <1> DEFINE of(R) == Of(R, o)
             debit == [key |-> k, owner |-> x.from, amount |-> -x.amount]
             credit == [key |-> k, owner |-> x.to, amount |-> x.amount]
  <1>1. x.amount \in Nat \ {0} /\ x.from \in Owners /\ x.to \in Owners
    BY Amounted
  <1>2. debit \in Posting /\ credit \in Posting /\ debit \notin P /\ credit \notin P
    BY <1>1 DEF Posting
  <1>3. IsFiniteSet(of(P)) /\ of(P) \subseteq Posting
    BY FS_Subset DEF Of
  <1>4. IsFiniteSet(P \cup Legs(k, x))
    <2>1. IsFiniteSet(P \cup {debit})
      BY FS_AddElement
    <2>2. IsFiniteSet((P \cup {debit}) \cup {credit})
      BY <2>1, FS_AddElement
    <2>3. P \cup Legs(k, x) = (P \cup {debit}) \cup {credit}
      BY DEF Legs
    <2> QED
      BY <2>2, <2>3
  <1>5. Total(of(P)) \in Int
    BY <1>3, TotalIsSum, SumIsInt
  <1>6. CASE o = x.from
    <2>1. of(P \cup Legs(k, x)) = of(P) \cup {debit}
      BY <1>6 DEF Legs, Of
    <2>2. debit \notin of(P) /\ debit.amount = -x.amount
      BY <1>2 DEF Of
    <2> HIDE DEF of, debit
    <2>3. Total(of(P) \cup {debit}) = Total(of(P)) + debit.amount
      BY <1>2, <1>3, <2>2, TotalGrows
    <2>4. Total(of(P \cup Legs(k, x))) = Total(of(P)) - x.amount
      BY <1>1, <1>5, <2>1, <2>2, <2>3
    <2> QED
      BY <1>4, <1>5, <1>6, <2>4 DEF of
  <1>7. CASE o = x.to
    <2>1. of(P \cup Legs(k, x)) = of(P) \cup {credit}
      BY <1>7 DEF Legs, Of
    <2>2. credit \notin of(P) /\ credit.amount = x.amount
      BY <1>2 DEF Of
    <2> HIDE DEF of, credit
    <2>3. Total(of(P) \cup {credit}) = Total(of(P)) + credit.amount
      BY <1>2, <1>3, <2>2, TotalGrows
    <2>4. Total(of(P \cup Legs(k, x))) = Total(of(P)) + x.amount
      BY <1>1, <1>5, <2>1, <2>2, <2>3
    <2> QED
      BY <1>4, <1>5, <1>7, <2>4 DEF of
  <1>8. CASE o # x.from /\ o # x.to
    <2>1. of(P \cup Legs(k, x)) = of(P)
      BY <1>8 DEF Legs, Of
    <2> QED
      BY <1>4, <1>5, <1>8, <2>1
  <1> QED
    BY <1>6, <1>7, <1>8

-----------------------------------------------------------------------------
(* Identifiers of accounts.                                                *)

\* There are finitely many accounts, and their owners are numbers.
LEMMA OwnersFinite == IsFiniteSet(Owners) /\ Owners \subseteq Nat /\ Treasury \in Owners
  BY FiniteAssumption, UsersAssumption, FS_AddElement DEF Owners, Treasury

\* The owner whose wallet is next is one of those still to be looked at.
LEMMA NextWalletListed ==
    ASSUME TypeOK, NEW r \in Reqs, call[r].todo # {}
    PROVE  /\ NextWallet(r) \in call[r].todo /\ NextWallet(r) \in Owners
           /\ \A o \in call[r].todo : NextWallet(r) <= o
  <1> DEFINE todo == call[r].todo
  <1>1. todo \subseteq Owners
    BY DEF TypeOK, Call
  <1> HIDE DEF todo
  <1>2. IsFiniteSet(todo)
    BY <1>1, OwnersFinite, FS_Subset
  <1>3. todo \in SUBSET Int
    BY <1>1, OwnersFinite
  <1>4. todo # {}
    BY DEF todo
  <1>5. Min(todo) \in todo /\ \A o \in todo : Min(todo) <= o
    BY <1>2, <1>3, <1>4, Extremes
  <1> QED
    BY <1>1, <1>5 DEF NextWallet, todo

\* A fresh id is a number above every id in use.
LEMMA NewIdFresh ==
    ASSUME TypeOK
    PROVE  /\ NewId \in Nat \ {0}
           /\ \A o \in Owners : account[o] < NewId
           /\ \A r \in Reqs, o \in Owners : call[r].made[o] < NewId
  <1> DEFINE stored == {account[o] : o \in Owners}
             pairs == Reqs \X Owners
             created == {call[r].made[o] : r \in Reqs, o \in Owners}
             f == [p \in pairs |-> call[p[1]].made[p[2]]]
             ids == stored \cup created
  <1>1. IsFiniteSet(stored)
    <2>1. account \in Surjection(Owners, stored)
      BY DEF TypeOK, Surjection
    <2> HIDE DEF stored
    <2> QED
      BY <2>1, OwnersFinite, FS_Surjection
  <1>2. IsFiniteSet(created)
    <2>1. IsFiniteSet(pairs)
      BY FiniteAssumption, OwnersFinite, FS_Product
    <2>2. f \in Surjection(pairs, created)
      <3>1. f \in [pairs -> created]
        OBVIOUS
      <3>2. ASSUME NEW t \in created
            PROVE  \E p \in pairs : f[p] = t
        <4>1. PICK r \in Reqs, o \in Owners : t = call[r].made[o]
          OBVIOUS
        <4>2. <<r, o>> \in pairs /\ f[<<r, o>>] = t
          BY <4>1
        <4> QED
          BY <4>2
      <3> HIDE DEF f, pairs, created
      <3> QED
        BY <3>1, <3>2 DEF Surjection
    <2> HIDE DEF pairs, created, f
    <2> QED
      BY <2>1, <2>2, FS_Surjection
  <1>3. IsFiniteSet(ids)
    <2> HIDE DEF stored, created
    <2> QED
      BY <1>1, <1>2, FS_Union
  <1>4. stored \subseteq Nat /\ stored # {}
    <2>1. account[Treasury] \in stored
      BY OwnersFinite
    <2> QED
      BY <2>1 DEF TypeOK
  <1>5. created \subseteq Nat
    <2> SUFFICES ASSUME NEW r \in Reqs, NEW o \in Owners
                 PROVE  call[r].made[o] \in Nat
      OBVIOUS
    <2>1. call[r].made \in [Owners -> Nat]
      BY DEF TypeOK, Call
    <2> QED
      BY <2>1
  <1>6. ids # {} /\ ids \in SUBSET Int
    <2> HIDE DEF stored, created
    <2> QED
      BY <1>4, <1>5
  <1>7. Max(ids) \in ids /\ \A y \in ids : Max(ids) >= y
    <2> HIDE DEF ids
    <2> QED
      BY <1>3, <1>6, Extremes
  <1>8. NewId = 1 + Max(ids)
    BY DEF NewId
  <1>9. ids \subseteq Nat
    <2> HIDE DEF stored, created
    <2> QED
      BY <1>4, <1>5
  <1>10. NewId \in Nat \ {0} /\ \A y \in ids : y < NewId
    <2> HIDE DEF ids, NewId
    <2>1. Max(ids) \in Nat
      BY <1>7, <1>9
    <2>2. ASSUME NEW y \in ids PROVE y < NewId
      <3>1. y \in Nat /\ Max(ids) >= y
        BY <1>7, <1>9
      <3> QED
        BY <3>1, <2>1, <1>8
    <2>3. NewId \in Nat \ {0}
      BY <2>1, <1>8
    <2> QED
      BY <2>2, <2>3
  <1> QED
    BY <1>10

-----------------------------------------------------------------------------
(* Steps of one request that move no money.                                *)

\* What any step of r leaves to the other requests.
Moves(r) ==
    /\ \A q \in Reqs \ {r} :
          /\ at'[q] = at[q] /\ call'[q] = call[q]
          /\ \A o \in Owners : accountLock[o] = q => accountLock'[o] = q
          /\ \A k \in Keys : keyLock[k] = q => keyLock'[k] = q

\* It leaves them their invariant, unless it changes what they have reserved.
LEMMA OthersKept ==
    ASSUME IInv, NEW r \in Reqs, Moves(r), NEW q \in Reqs \ {r},
           at[q] \in Keyed => ledger'[Key(q)] = None,
           \A o \in Owners :
              at[q] = "commit" /\ o = Moved(q).from => Balance(o)' = Balance(o)
    PROVE  RequestOK(q)'
  <1>1. RequestOK(q) /\ at'[q] = at[q] /\ call'[q] = call[q]
    BY DEF IInv, Moves
  <1>2. CallOK(q)'
    BY <1>1 DEF RequestOK, CallOK, Key, Moved
  <1>3. at[q] \in Pinned => Moved(q).from \in Owners /\ Moved(q).to \in Owners
    BY <1>1, Amounted DEF RequestOK, CallOK, Pinned
  <1>4. AccountsPinned(q)'
    BY <1>1, <1>3 DEF RequestOK, AccountsPinned, Moves, Moved
  <1>5. at[q] \in Keyed => Key(q) \in Keys
    BY <1>1 DEF RequestOK, CallOK, Keyed
  <1>6. KeyReserved(q)'
    BY <1>1, <1>5 DEF RequestOK, KeyReserved, Moves, Key
  <1>7. CoveredAtCommit(q)'
    <2> SUFFICES ASSUME at[q] = "commit"
                 PROVE  Covered(q)'
      BY <1>1 DEF CoveredAtCommit
    <2>1. Covered(q)
      BY <1>1 DEF RequestOK, CoveredAtCommit
    <2>2. PICK o \in Owners : o = Moved(q).from
      BY <1>3 DEF Pinned
    <2>3. Balance(o)' = Balance(o)
      BY <2>2
    <2>4. call'[q].movement.from = o
      BY <1>1, <2>2 DEF Moved
    <2> QED
      BY <1>1, <2>1, <2>2, <2>3, <2>4 DEF Covered, Moved, Balance
  <1> QED
    BY <1>2, <1>4, <1>6, <1>7 DEF RequestOK

\* A step that changes no table and gives no answer keeps the invariant if it
\* keeps that of its own request.
LEMMA QuietStep ==
    ASSUME IInv, NEW r \in Reqs, Moves(r), TypeOK', RequestOK(r)',
           UNCHANGED <<ledger, postings, answers>>
    PROVE  IInv'
  <1>1. ASSUME NEW q \in Reqs \ {r}
        PROVE  RequestOK(q)'
    <2>1. at[q] \in Keyed => ledger'[Key(q)] = None
      BY DEF IInv, RequestOK, KeyReserved
    <2>2. \A o \in Owners : Balance(o)' = Balance(o)
      BY DEF Balance
    <2> QED
      BY <2>1, <2>2, OthersKept
  <1>2. PostingsKeyed' /\ AnswersStayTrue' /\ NoOverdraft'
    BY DEF IInv, PostingsKeyed, AnswersStayTrue, NoOverdraft, Balance
  <1>3. \A q \in Reqs : RequestOK(q)'
    BY <1>1
  <1> QED
    BY <1>2, <1>3 DEF IInv

\* What the end of a transaction leaves.
LEMMA FinishStep ==
    ASSUME TypeOK, NEW r \in Reqs, Finish(r)
    PROVE  /\ Moves(r) /\ RequestOK(r)' /\ at'[r] = "idle" /\ call'[r] = Blank
           /\ accountLock' \in [Owners -> Reqs \cup {None}]
           /\ keyLock' \in [Keys -> Reqs \cup {None}]
           /\ at' \in [Reqs -> Steps] /\ call' \in [Reqs -> Call]
           /\ \A o \in Owners : accountLock'[o] # None => at'[accountLock'[o]] # "idle"
           /\ \A k \in Keys : keyLock'[k] # None => at'[keyLock'[k]] \in {"post", "commit"}
  <1>1. at' \in [Reqs -> Steps] /\ at'[r] = "idle" /\ \A q \in Reqs \ {r} : at'[q] = at[q]
    BY DEF TypeOK, Finish, Advance, Steps
  <1>2. Blank \in Call
    BY DEF Blank, Call, NothingMade
  <1>3. /\ call' \in [Reqs -> Call] /\ call'[r] = Blank
        /\ \A q \in Reqs \ {r} : call'[q] = call[q]
    BY <1>2 DEF TypeOK, Finish
  <1>4. /\ accountLock' \in [Owners -> Reqs \cup {None}]
        /\ \A o \in Owners : accountLock'[o] # r
        /\ \A o \in Owners : accountLock[o] # r => accountLock'[o] = accountLock[o]
        /\ \A o \in Owners : accountLock[o] = r => accountLock'[o] = None
    BY DEF TypeOK, Finish
  <1>5. /\ keyLock' \in [Keys -> Reqs \cup {None}]
        /\ \A k \in Keys : keyLock'[k] # r
        /\ \A k \in Keys : keyLock[k] # r => keyLock'[k] = keyLock[k]
        /\ \A k \in Keys : keyLock[k] = r => keyLock'[k] = None
    BY DEF TypeOK, Finish
  <1>6. Moves(r)
    BY <1>1, <1>3, <1>4, <1>5 DEF Moves
  <1>7. RequestOK(r)'
    BY <1>1 DEF RequestOK, CallOK, AccountsPinned, KeyReserved, CoveredAtCommit, Pinned, Keyed
  <1>8. \A o \in Owners : accountLock'[o] # None => at'[accountLock'[o]] # "idle"
    BY <1>1, <1>4 DEF TypeOK
  <1>9. \A k \in Keys : keyLock'[k] # None => at'[keyLock'[k]] \in {"post", "commit"}
    BY <1>1, <1>5 DEF TypeOK
  <1> QED
    BY <1>1, <1>3, <1>4, <1>5, <1>6, <1>7, <1>8, <1>9

\* A rollback keeps the invariant.
LEMMA AbandonStep ==
    ASSUME IInv, NEW r \in Reqs, Abandon(r)
    PROVE  IInv'
  <1>1. TypeOK'
    BY FinishStep DEF IInv, TypeOK, Abandon, tables
  <1> QED
    BY <1>1, FinishStep, QuietStep DEF IInv, Abandon, tables

\* So does a wallet that is created by a read.
LEMMA EnsureWalletStep ==
    ASSUME IInv, NEW u \in Users, EnsureWallet(u)
    PROVE  IInv'
  <1>1. UNCHANGED <<ledger, postings, accountLock, keyLock, at, call, calls, answers>>
    BY DEF EnsureWallet, locks
  <1>2. account' \in [Owners -> Nat]
    BY NewIdFresh DEF IInv, TypeOK, EnsureWallet
  <1>3. TypeOK'
    BY <1>1, <1>2 DEF IInv, TypeOK
  <1>4. \A q \in Reqs : RequestOK(q)'
    BY <1>1 DEF IInv, RequestOK, CallOK, AccountsPinned, KeyReserved, CoveredAtCommit,
                Covered, Balance, Key, Moved
  <1> QED
    BY <1>1, <1>3, <1>4 DEF IInv, PostingsKeyed, AnswersStayTrue, NoOverdraft, Balance

\* A request enters with its arguments and nothing else.
LEMMA BeginStep ==
    ASSUME IInv, NEW r \in Reqs, NEW k \in Keys, NEW x \in Movement, Begin(r, k, x),
           x.from # x.to, x.kind = "mint" <=> x.from = Treasury
    PROVE  IInv'
  <1> DEFINE c == [Blank EXCEPT !.key = k, !.movement = x, !.todo = {x.from, x.to}]
  <1>1. c \in Call /\ c.key = k /\ c.movement = x /\ c.todo = {x.from, x.to}
    <2>1. {x.from, x.to} \in SUBSET Owners /\ NothingMade \in [Owners -> Nat]
      BY Amounted DEF NothingMade
    <2> QED
      BY <2>1 DEF Blank, Call
  <1>2. call' = [call EXCEPT ![r] = c]
    BY DEF Begin
  <1>3. /\ call' \in [Reqs -> Call] /\ call'[r] = c
        /\ \A q \in Reqs \ {r} : call'[q] = call[q]
    <2> HIDE DEF c
    <2> QED
      BY <1>1, <1>2 DEF IInv, TypeOK
  <1>4. /\ at' \in [Reqs -> Steps] /\ at'[r] = "ensure"
        /\ \A q \in Reqs \ {r} : at'[q] = at[q]
    BY DEF IInv, TypeOK, Begin, Advance, Steps
  <1>5. UNCHANGED <<account, ledger, postings, accountLock, keyLock, answers>>
    BY DEF Begin, tables, locks
  <1>6. calls' \in 0..MaxCalls
    BY MaxCallsAssumption DEF IInv, TypeOK, Begin
  <1>7. /\ \A o \in Owners : accountLock'[o] # None => at'[accountLock'[o]] # "idle"
        /\ \A y \in Keys : keyLock'[y] # None => at'[keyLock'[y]] \in {"post", "commit"}
    BY <1>4, <1>5 DEF IInv, TypeOK, Begin
  <1>8. TypeOK'
    BY <1>3, <1>4, <1>5, <1>6, <1>7 DEF IInv, TypeOK
  <1>9. Moves(r)
    BY <1>3, <1>4, <1>5 DEF Moves
  <1>10. RequestOK(r)'
    BY <1>1, <1>3, <1>4 DEF RequestOK, CallOK, AccountsPinned, KeyReserved, CoveredAtCommit,
                            Pinned, Keyed, Key, Moved
  <1> QED
    BY <1>5, <1>8, <1>9, <1>10, QuietStep

\* The call of r after the wallet of o has been looked at.
LEMMA WalletCall ==
    ASSUME TypeOK, NEW r \in Reqs, NEW o \in Owners, NEW n \in Nat,
           \/ call' = [call EXCEPT ![r].made[o] = n, ![r].todo = @ \ {o}]
           \/ call' = [call EXCEPT ![r].todo = @ \ {o}]
    PROVE  /\ call' \in [Reqs -> Call]
           /\ \A q \in Reqs \ {r} : call'[q] = call[q]
           /\ call'[r].key = call[r].key /\ call'[r].movement = call[r].movement
           /\ call'[r].todo = call[r].todo \ {o}
  <1>1. /\ call \in [Reqs -> Call] /\ call[r] \in Call
        /\ call[r].key \in Keys \cup {None} /\ call[r].movement \in Movement \cup {None}
        /\ call[r].todo \in SUBSET Owners /\ call[r].made \in [Owners -> Nat]
    BY DEF TypeOK, Call
  <1> DEFINE rest == call[r].todo \ {o}
  <1>2. CASE call' = [call EXCEPT ![r].todo = @ \ {o}]
    <2> DEFINE c == [call[r] EXCEPT !.todo = rest]
    <2>1. /\ call' \in [Reqs -> Call] /\ call'[r] = c
          /\ \A q \in Reqs \ {r} : call'[q] = call[q]
      BY <1>1, <1>2 DEF Call
    <2>2. c.key = call[r].key /\ c.movement = call[r].movement /\ c.todo = rest
      BY <1>1 DEF Call
    <2> QED
      BY <2>1, <2>2
  <1>3. CASE call' = [call EXCEPT ![r].made[o] = n, ![r].todo = @ \ {o}]
    <2> DEFINE m == [call[r].made EXCEPT ![o] = n]
               b == [call[r] EXCEPT !.made = m]
               c == [b EXCEPT !.todo = rest]
    <2>1. m \in [Owners -> Nat]
      BY <1>1
    <2>2. call' = [call EXCEPT ![r] = c]
      BY <1>1, <1>3 DEF Call
    <2> HIDE DEF m
    <2>3. /\ b \in Call /\ b.key = call[r].key /\ b.movement = call[r].movement
          /\ b.todo = call[r].todo
      BY <1>1, <2>1 DEF Call
    <2> HIDE DEF b
    <2>4. c \in Call /\ c.key = b.key /\ c.movement = b.movement /\ c.todo = rest
      BY <1>1, <2>3 DEF Call
    <2> HIDE DEF c
    <2> QED
      BY <1>1, <2>2, <2>3, <2>4
  <1> QED
    BY <1>2, <1>3

\* A wallet is looked at, or created under a lock.
LEMMA CreateWalletStep ==
    ASSUME IInv, NEW r \in Reqs, CreateWallet(r)
    PROVE  IInv'
  <1>1. at[r] = "ensure" /\ CallOK(r) /\ call[r].todo # {} /\ TypeOK
    BY DEF IInv, RequestOK, CallOK, CreateWallet
  <1>2. PICK o \in Owners : o = NextWallet(r) /\ o \in call[r].todo
    BY <1>1, NextWalletListed
  <1>3. PICK n \in Nat : n = NewId
    BY <1>1, NewIdFresh
  <1>4. /\ call' \in [Reqs -> Call]
        /\ \A q \in Reqs \ {r} : call'[q] = call[q]
        /\ call'[r].key = call[r].key /\ call'[r].movement = call[r].movement
        /\ call'[r].todo = call[r].todo \ {o}
    <2>1. \/ call' = [call EXCEPT ![r].made[o] = n, ![r].todo = @ \ {o}]
          \/ call' = [call EXCEPT ![r].todo = @ \ {o}]
      BY <1>2, <1>3 DEF CreateWallet
    <2> QED
      BY <1>1, <2>1, WalletCall
  <1>5. /\ accountLock' \in [Owners -> Reqs \cup {None}]
        /\ \A p \in Owners : accountLock'[p] = accountLock[p] \/ accountLock'[p] = r
        /\ \A q \in Reqs \ {r} : \A p \in Owners : accountLock[p] = q => accountLock'[p] = q
    <2>1. account[o] = 0 => accountLock[o] = None
      BY <1>2 DEF CreateWallet
    <2>2. \/ account[o] = 0 /\ accountLock' = [accountLock EXCEPT ![o] = r]
          \/ UNCHANGED accountLock
      BY <1>2 DEF CreateWallet
    <2> QED
      BY <1>1, <2>1, <2>2 DEF TypeOK
  <1>6. /\ at' \in [Reqs -> Steps] /\ \A q \in Reqs \ {r} : at'[q] = at[q]
        /\ at'[r] \in {"ensure", "lock"}
        /\ at'[r] = "ensure" => call[r].todo # {o}
    <2>1. IF call[r].todo = {o} THEN Advance(r, "lock") ELSE UNCHANGED at
      BY <1>2 DEF CreateWallet
    <2> QED
      BY <1>1, <2>1 DEF TypeOK, Advance, Steps
  <1>7. UNCHANGED <<account, ledger, postings, keyLock, calls, answers>>
    BY DEF CreateWallet, tables
  <1>8. /\ \A p \in Owners : accountLock'[p] # None => at'[accountLock'[p]] # "idle"
        /\ \A y \in Keys : keyLock'[y] # None => at'[keyLock'[y]] \in {"post", "commit"}
    BY <1>1, <1>5, <1>6, <1>7 DEF TypeOK
  <1>9. TypeOK'
    BY <1>1, <1>4, <1>5, <1>6, <1>7, <1>8 DEF TypeOK
  <1>10. Moves(r)
    BY <1>4, <1>5, <1>6, <1>7 DEF Moves
  <1>11. CallOK(r)'
    <2>1. at'[r] = "ensure" => call'[r].todo # {}
      BY <1>2, <1>4, <1>6
    <2> QED
      BY <1>1, <1>4, <2>1 DEF CallOK, Key, Moved
  <1>12. RequestOK(r)'
    BY <1>6, <1>11 DEF RequestOK, AccountsPinned, KeyReserved, CoveredAtCommit, Pinned, Keyed
  <1> QED
    BY <1>7, <1>9, <1>10, <1>12, QuietStep

\* The account to be locked next is one of the two, and has the lower id.
LEMMA NextAccountListed ==
    ASSUME TypeOK, NEW r \in Reqs, ToLock(r) # {}, Moved(r) \in Movement
    PROVE  /\ NextAccount(r) \in ToLock(r) /\ NextAccount(r) \in Owners
           /\ \A q \in ToLock(r) : IdOf(r, NextAccount(r)) <= IdOf(r, q)
  <1>1. Moved(r).from \in Owners /\ Moved(r).to \in Owners
    BY Amounted
  <1>2. \A o \in Owners : IdOf(r, o) \in Nat
    BY DEF TypeOK, IdOf, Call
  <1>3. \E o \in ToLock(r) : \A q \in ToLock(r) : IdOf(r, o) <= IdOf(r, q)
    <2> DEFINE f == Moved(r).from
               t == Moved(r).to
               T == ToLock(r)
    <2>1. T \subseteq {f, t} /\ T # {}
      BY DEF ToLock
    <2>2. IdOf(r, f) \in Nat /\ IdOf(r, t) \in Nat
      BY <1>1, <1>2
    <2> HIDE DEF f, t, T
    <2>3. \E o \in T : \A q \in T : IdOf(r, o) <= IdOf(r, q)
      BY <2>1, <2>2
    <2> QED
      BY <2>3 DEF T
  <1>4. /\ NextAccount(r) \in ToLock(r)
        /\ \A q \in ToLock(r) : IdOf(r, NextAccount(r)) <= IdOf(r, q)
    BY <1>3 DEF NextAccount
  <1> QED
    BY <1>1, <1>4 DEF ToLock

\* A request that has nothing left to lock holds both accounts.
LEMMA LockAccountStep ==
    ASSUME IInv, NEW r \in Reqs, LockAccount(r)
    PROVE  IInv'
  <1>1. at[r] = "lock" /\ CallOK(r) /\ TypeOK /\ Moved(r) \in Movement
    BY DEF IInv, RequestOK, CallOK, LockAccount
  <1>2. UNCHANGED <<account, ledger, postings, keyLock, call, calls, answers>>
    BY DEF LockAccount, tables
  <1>3. /\ accountLock' \in [Owners -> Reqs \cup {None}]
        /\ \A p \in Owners : accountLock'[p] = accountLock[p] \/ accountLock'[p] = r
        /\ \A q \in Reqs \ {r} : \A p \in Owners : accountLock[p] = q => accountLock'[p] = q
    <2>1. CASE ToLock(r) = {}
      BY <1>1, <2>1 DEF LockAccount, TypeOK
    <2>2. CASE ToLock(r) # {}
      <3>1. PICK o \in Owners : o = NextAccount(r)
        BY <1>1, <2>2, NextAccountListed
      <3>2. accountLock[o] = None /\ accountLock' = [accountLock EXCEPT ![o] = r]
        BY <2>2, <3>1 DEF LockAccount
      <3> QED
        BY <1>1, <3>2 DEF TypeOK
    <2> QED
      BY <2>1, <2>2
  <1>4. /\ at' \in [Reqs -> Steps] /\ \A q \in Reqs \ {r} : at'[q] = at[q]
        /\ \/ at'[r] = "lock"
           \/ at'[r] = "find" /\ ToLock(r) = {} /\ UNCHANGED accountLock
    BY <1>1 DEF LockAccount, Advance, TypeOK, Steps
  <1>5. /\ \A p \in Owners : accountLock'[p] # None => at'[accountLock'[p]] # "idle"
        /\ \A y \in Keys : keyLock'[y] # None => at'[keyLock'[y]] \in {"post", "commit"}
    BY <1>1, <1>2, <1>3, <1>4 DEF TypeOK
  <1>6. TypeOK'
    BY <1>1, <1>2, <1>3, <1>4, <1>5 DEF TypeOK
  <1>7. Moves(r)
    BY <1>2, <1>3, <1>4 DEF Moves
  <1>8. AccountsPinned(r)'
    BY <1>2, <1>4 DEF AccountsPinned, Pinned, ToLock, Moved
  <1>9. RequestOK(r)'
    BY <1>1, <1>2, <1>4, <1>8
       DEF RequestOK, CallOK, KeyReserved, CoveredAtCommit, Keyed, Key, Moved
  <1> QED
    BY <1>2, <1>6, <1>7, <1>9, QuietStep

\* The wallets that a transaction commits have ids.
LEMMA WalletsTyped ==
    ASSUME TypeOK, NEW r \in Reqs, CommitWallets(r)
    PROVE  account' \in [Owners -> Nat]
  <1>1. \A o \in Owners : IdOf(r, o) \in Nat
    BY DEF TypeOK, IdOf, Call
  <1> QED
    BY <1>1 DEF CommitWallets

\* An answer names a key that is stored.
LEMMA AnsweredIsStored ==
    ASSUME IInv, NEW a \in answers
    PROVE  a.key \in Keys /\ ledger[a.key] # None
  <1>1. a \in Answer
    BY DEF IInv, TypeOK
  <1>2. a.key \in Keys /\ a.movement.kind \in {"transfer", "mint"}
    BY <1>1 DEF Answer, Movement
  <1> QED
    BY <1>2 DEF IInv, AnswersStayTrue

\* A retry is answered from what is stored, which does not change.
LEMMA FindKeyStep ==
    ASSUME IInv, NEW r \in Reqs, FindKey(r)
    PROVE  IInv'
  <1>1. at[r] = "find" /\ RequestOK(r) /\ TypeOK /\ Moved(r) \in Movement /\ Key(r) \in Keys
    BY DEF IInv, RequestOK, CallOK, FindKey
  <1>2. CASE ledger[Key(r)] = None
    <2>1. Advance(r, "insert") /\ UNCHANGED <<tables, locks, call, calls, answers>>
      BY <1>2 DEF FindKey
    <2>2. /\ at' \in [Reqs -> Steps] /\ at'[r] = "insert"
          /\ \A q \in Reqs \ {r} : at'[q] = at[q]
      BY <1>1, <2>1 DEF TypeOK, Advance, Steps
    <2>3. TypeOK'
      BY <1>1, <2>1, <2>2 DEF TypeOK, tables, locks
    <2>4. Moves(r)
      BY <2>1, <2>2 DEF Moves, locks
    <2>5. RequestOK(r)'
      BY <1>1, <2>1, <2>2 DEF RequestOK, CallOK, AccountsPinned, KeyReserved,
         CoveredAtCommit, Pinned, Keyed, Key, Moved, locks
    <2> QED
      BY <2>1, <2>3, <2>4, <2>5, QuietStep DEF tables
  <1>3. CASE ledger[Key(r)] # None /\ ~SameMovement(r)
    BY <1>3, AbandonStep DEF FindKey
  <1>4. CASE ledger[Key(r)] # None /\ SameMovement(r)
    <2>1. /\ CommitWallets(r) /\ Answered(r) /\ Finish(r)
          /\ UNCHANGED <<ledger, postings, calls>>
      BY <1>4 DEF FindKey
    <2> DEFINE new == [key |-> Key(r), movement |-> Moved(r)]
    <2>2. answers' = answers \cup {new} /\ new \in Answer
      BY <1>1, <2>1 DEF Answered, Answer
    <2>3. TypeOK'
      BY <1>1, <2>1, <2>2, FinishStep, WalletsTyped DEF TypeOK
    <2>4. ASSUME NEW q \in Reqs \ {r}
          PROVE  RequestOK(q)'
      <3>1. at[q] \in Keyed => ledger'[Key(q)] = None
        BY <2>1 DEF IInv, RequestOK, KeyReserved
      <3>2. \A o \in Owners : Balance(o)' = Balance(o)
        BY <2>1 DEF Balance
      <3> QED
        BY <1>1, <2>1, <3>1, <3>2, FinishStep, OthersKept
    <2>5. \A q \in Reqs : RequestOK(q)'
      BY <1>1, <2>1, <2>4, FinishStep
    <2>6. AnswersStayTrue'
      BY <1>4, <2>1, <2>2 DEF IInv, AnswersStayTrue, SameMovement
    <2>7. PostingsKeyed' /\ NoOverdraft'
      BY <2>1 DEF IInv, PostingsKeyed, NoOverdraft, Balance
    <2> QED
      BY <2>3, <2>5, <2>6, <2>7 DEF IInv
  <1> QED
    BY <1>2, <1>3, <1>4

\* An unused key is reserved.
LEMMA InsertKeyStep ==
    ASSUME IInv, NEW r \in Reqs, InsertKey(r)
    PROVE  IInv'
  <1>1. at[r] = "insert" /\ RequestOK(r) /\ TypeOK /\ Moved(r) \in Movement /\ Key(r) \in Keys
    BY DEF IInv, RequestOK, CallOK, InsertKey
  <1>2. CASE ledger[Key(r)] # None
    BY <1>2, AbandonStep DEF InsertKey
  <1>3. CASE ledger[Key(r)] = None
    <2>1. /\ keyLock[Key(r)] = None
          /\ keyLock' = [keyLock EXCEPT ![Key(r)] = r] /\ Advance(r, "post")
          /\ UNCHANGED <<tables, accountLock, call, calls, answers>>
      BY <1>3 DEF InsertKey
    <2>2. /\ at' \in [Reqs -> Steps] /\ at'[r] = "post"
          /\ \A q \in Reqs \ {r} : at'[q] = at[q]
      BY <1>1, <2>1 DEF TypeOK, Advance, Steps
    <2>3. /\ keyLock' \in [Keys -> Reqs \cup {None}] /\ keyLock'[Key(r)] = r
          /\ \A k \in Keys : keyLock'[k] = keyLock[k] \/ keyLock'[k] = r
          /\ \A q \in Reqs : \A k \in Keys : keyLock[k] = q => keyLock'[k] = q
      BY <1>1, <2>1 DEF TypeOK
    <2>4. /\ \A o \in Owners : accountLock'[o] # None => at'[accountLock'[o]] # "idle"
          /\ \A k \in Keys : keyLock'[k] # None => at'[keyLock'[k]] \in {"post", "commit"}
      BY <1>1, <2>1, <2>2, <2>3 DEF TypeOK
    <2>5. TypeOK'
      BY <1>1, <2>1, <2>2, <2>3, <2>4 DEF TypeOK, tables
    <2>6. Moves(r)
      BY <2>1, <2>2, <2>3 DEF Moves
    <2>7. RequestOK(r)'
      BY <1>1, <1>3, <2>1, <2>2, <2>3 DEF RequestOK, CallOK, AccountsPinned, KeyReserved,
         CoveredAtCommit, Pinned, Keyed, Key, Moved, tables
    <2> QED
      BY <2>1, <2>5, <2>6, <2>7, QuietStep DEF tables
  <1> QED
    BY <1>2, <1>3

\* The balance check covers the movement.
LEMMA InsertPostingsStep ==
    ASSUME IInv, NEW r \in Reqs, InsertPostings(r)
    PROVE  IInv'
  <1>1. at[r] = "post" /\ RequestOK(r) /\ TypeOK /\ Moved(r) \in Movement /\ Key(r) \in Keys
    BY DEF IInv, RequestOK, CallOK, InsertPostings
  <1>2. CASE Abandon(r)
    BY <1>2, AbandonStep
  <1>3. CASE ~Abandon(r)
    <2>1. /\ Covered(r) /\ Advance(r, "commit")
          /\ UNCHANGED <<tables, locks, call, calls, answers>>
      BY <1>3 DEF InsertPostings
    <2>2. /\ at' \in [Reqs -> Steps] /\ at'[r] = "commit"
          /\ \A q \in Reqs \ {r} : at'[q] = at[q]
      BY <1>1, <2>1 DEF TypeOK, Advance, Steps
    <2>3. TypeOK'
      BY <1>1, <2>1, <2>2 DEF TypeOK, tables, locks
    <2>4. Moves(r)
      BY <2>1, <2>2 DEF Moves, locks
    <2>5. Covered(r)'
      BY <2>1 DEF Covered, Balance, Moved, tables
    <2>6. RequestOK(r)'
      BY <1>1, <2>1, <2>2, <2>5 DEF RequestOK, CallOK, AccountsPinned, KeyReserved,
         CoveredAtCommit, Pinned, Keyed, Key, Moved, tables, locks
    <2> QED
      BY <2>1, <2>3, <2>4, <2>6, QuietStep DEF tables
  <1> QED
    BY <1>2, <1>3

\* What a commit does to the balances.
LEMMA CommitMoves ==
    ASSUME IInv, NEW r \in Reqs, Commit(r), NEW o \in Owners
    PROVE  /\ Balance(o) \in Int /\ IsFiniteSet(postings')
           /\ Balance(o)' = IF o = Moved(r).from THEN Balance(o) - Moved(r).amount
                            ELSE IF o = Moved(r).to THEN Balance(o) + Moved(r).amount
                            ELSE Balance(o)
  <1>1. /\ at[r] = "commit" /\ Key(r) \in Keys /\ Moved(r) \in Movement
        /\ Moved(r).from # Moved(r).to /\ ledger[Key(r)] = None
    BY DEF IInv, RequestOK, CallOK, KeyReserved, Keyed, Commit
  <1>2. PICK k \in Keys : k = Key(r)
    BY <1>1
  <1>3. PICK x \in Movement : x = Moved(r)
    BY <1>1
  <1>4. /\ IsFiniteSet(postings) /\ postings \subseteq Posting
        /\ \A p \in postings : p.key # k
    BY <1>1, <1>2 DEF IInv, TypeOK, PostingsKeyed
  <1>5. postings' = postings \cup Legs(k, x) /\ x.from # x.to
    BY <1>1, <1>2, <1>3 DEF Commit
  <1>6. /\ Total(Of(postings, o)) \in Int
        /\ IsFiniteSet(postings \cup Legs(k, x))
        /\ Total(Of(postings \cup Legs(k, x), o)) =
              IF o = x.from THEN Total(Of(postings, o)) - x.amount
              ELSE IF o = x.to THEN Total(Of(postings, o)) + x.amount
              ELSE Total(Of(postings, o))
    BY <1>4, <1>5, LegsMove
  <1> QED
    BY <1>3, <1>5, <1>6 DEF Balance, Of

\* A commit stores a movement that is still covered under a key that is still
\* unused, and takes nothing that another request has been promised.
LEMMA CommitStep ==
    ASSUME IInv, NEW r \in Reqs, Commit(r)
    PROVE  IInv'
  <1>1. /\ at[r] = "commit" /\ TypeOK /\ Key(r) \in Keys /\ Moved(r) \in Movement
        /\ Moved(r).from # Moved(r).to /\ RequestOK(r)
        /\ Moved(r).kind = "mint" <=> Moved(r).from = Treasury
        /\ keyLock[Key(r)] = r /\ ledger[Key(r)] = None /\ Covered(r)
        /\ accountLock[Moved(r).from] = r /\ accountLock[Moved(r).to] = r
    BY DEF IInv, RequestOK, CallOK, AccountsPinned, KeyReserved, CoveredAtCommit,
           Pinned, Keyed, Commit
  <1>2. PICK k \in Keys, x \in Movement : k = Key(r) /\ x = Moved(r)
    BY <1>1
  <1>3. /\ x.amount \in Nat \ {0} /\ x.from \in Owners /\ x.to \in Owners
        /\ x.kind \in {"transfer", "mint"}
    BY Amounted
  <1>4. /\ CommitWallets(r) /\ Finish(r) /\ UNCHANGED calls
        /\ ledger' = [ledger EXCEPT ![k] = x.kind]
        /\ postings' = postings \cup Legs(k, x)
        /\ answers' = answers \cup {[key |-> k, movement |-> x]}
    BY <1>2 DEF Commit, Answered
  <1>5. TypeOK'
    <2>1. Legs(k, x) \subseteq Posting
      BY <1>3 DEF Legs, Posting
    <2>2. [key |-> k, movement |-> x] \in Answer
      BY DEF Answer
    <2>3. ledger' \in [Keys -> {"transfer", "mint", None}]
      BY <1>1, <1>3, <1>4 DEF TypeOK
    <2>4. postings' \subseteq Posting /\ answers' \subseteq Answer
      BY <1>1, <1>4, <2>1, <2>2 DEF TypeOK
    <2>5. account' \in [Owners -> Nat] /\ calls' \in 0..MaxCalls
      BY <1>1, <1>4, WalletsTyped DEF TypeOK
    <2> QED
      BY <1>1, <1>4, <2>3, <2>4, <2>5, FinishStep DEF TypeOK
  <1>6. /\ ledger'[k] = x.kind /\ x.kind # None
        /\ \A y \in Keys : y # k => ledger'[y] = ledger[y]
    BY <1>1, <1>3, <1>4 DEF TypeOK
  <1>7. ASSUME NEW q \in Reqs \ {r}
        PROVE  RequestOK(q)'
    <2>1. at[q] \in Keyed => Key(q) \in Keys /\ keyLock[Key(q)] = q /\ ledger[Key(q)] = None
      BY DEF IInv, RequestOK, CallOK, KeyReserved, Keyed
    <2>2. at[q] \in Keyed => ledger'[Key(q)] = None
      BY <1>1, <1>2, <1>6, <2>1
    <2>3. ASSUME NEW o \in Owners, at[q] = "commit", o = Moved(q).from
          PROVE  Balance(o)' = Balance(o)
      <3>1. accountLock[o] = q
        BY <2>3 DEF IInv, RequestOK, AccountsPinned, Pinned
      <3>2. o # Moved(r).from /\ o # Moved(r).to
        BY <1>1, <3>1
      <3> QED
        BY <3>2, CommitMoves
    <2> QED
      BY <1>1, <1>4, <2>2, <2>3, FinishStep, OthersKept
  <1>8. \A q \in Reqs : RequestOK(q)'
    BY <1>1, <1>4, <1>7, FinishStep
  <1>9. PostingsKeyed'
    <2>1. IsFiniteSet(postings')
      BY CommitMoves, OwnersFinite
    <2>2. ASSUME NEW p \in postings'
          PROVE  ledger'[p.key] # None
      <3>1. CASE p \in postings
        <4>1. p.key \in Keys /\ ledger[p.key] # None
          BY <1>1, <3>1 DEF IInv, TypeOK, PostingsKeyed, Posting
        <4> QED
          BY <1>6, <4>1
      <3>2. CASE p \in Legs(k, x)
        BY <1>6, <3>2 DEF Legs
      <3> QED
        BY <1>4, <3>1, <3>2
    <2> QED
      BY <2>1, <2>2 DEF PostingsKeyed
  <1>10. AnswersStayTrue'
    <2>1. ASSUME NEW a \in answers
          PROVE  /\ ledger'[a.key] = a.movement.kind
                 /\ {p \in postings' : p.key = a.key} = Legs(a.key, a.movement)
      <3>1. a.key \in Keys /\ a.key # k
        BY <1>1, <1>2, AnsweredIsStored
      <3>2. \A p \in Legs(k, x) : p.key = k
        BY DEF Legs
      <3>3. {p \in postings' : p.key = a.key} = {p \in postings : p.key = a.key}
        BY <1>4, <3>1, <3>2
      <3> QED
        BY <1>6, <3>1, <3>3 DEF IInv, AnswersStayTrue
    <2>2. {p \in postings' : p.key = k} = Legs(k, x)
      <3>1. \A p \in postings : p.key # k
        BY <1>1, <1>2 DEF IInv, PostingsKeyed
      <3>2. \A p \in Legs(k, x) : p.key = k
        BY DEF Legs
      <3> QED
        BY <1>4, <3>1, <3>2
    <2> QED
      BY <1>4, <1>6, <2>1, <2>2 DEF AnswersStayTrue
  <1>11. NoOverdraft'
    <2> SUFFICES ASSUME NEW u \in Users
                 PROVE  Balance(u)' >= 0
      BY DEF NoOverdraft
    <2>1. u \in Owners /\ u # Treasury /\ Balance(u) >= 0
      BY UsersAssumption DEF IInv, NoOverdraft, Owners
    <2>2. /\ Balance(u) \in Int
          /\ Balance(u)' = IF u = x.from THEN Balance(u) - x.amount
                           ELSE IF u = x.to THEN Balance(u) + x.amount
                           ELSE Balance(u)
      BY <1>2, <2>1, CommitMoves
    <2>3. u = x.from => Balance(u) - x.amount >= 0
      <3>1. u = x.from => x.kind = "transfer"
        BY <1>1, <1>2, <1>3, <2>1
      <3> QED
        BY <1>1, <1>2, <1>3, <2>2, <3>1 DEF Covered
    <2>4. x.amount \in Nat
      BY <1>3
    <2> HIDE DEF Balance
    <2> QED
      BY <2>1, <2>2, <2>3, <2>4
  <1> QED
    BY <1>5, <1>8, <1>9, <1>10, <1>11 DEF IInv

-----------------------------------------------------------------------------
(* The invariant.                                                          *)

\* The empty ledger.
LEMMA InitEstablishes == Init => IInv
  <1> SUFFICES ASSUME Init
               PROVE  IInv
    OBVIOUS
  <1>1. TypeOK
    <2>1. Blank \in Call /\ NothingMade \in [Owners -> Nat]
      BY DEF Blank, Call, NothingMade
    <2>2. "idle" \in Steps /\ 0 \in 0..MaxCalls
      BY MaxCallsAssumption DEF Steps
    <2> QED
      BY <2>1, <2>2 DEF Init, TypeOK
  <1>2. \A r \in Reqs : RequestOK(r)
    BY DEF Init, RequestOK, CallOK, AccountsPinned, KeyReserved, CoveredAtCommit, Pinned, Keyed
  <1>3. PostingsKeyed /\ AnswersStayTrue
    BY FS_EmptySet DEF Init, PostingsKeyed, AnswersStayTrue
  <1>4. NoOverdraft
    <2> SUFFICES ASSUME NEW u \in Users
                 PROVE  Balance(u) >= 0
      BY DEF NoOverdraft
    <2>1. {p \in postings : p.owner = u} = {}
      BY DEF Init
    <2>2. Balance(u) = 0
      BY <2>1, TotalOfNone DEF Balance
    <2> QED
      BY <2>2
  <1> QED
    BY <1>1, <1>2, <1>3, <1>4 DEF IInv

\* A transfer is between two users.
LEMMA TransferStep ==
    ASSUME IInv, NEW r \in Reqs, Transfer(r)
    PROVE  IInv'
  <1>1. PICK k \in Keys, from \in Users, to \in Users, amount \in Amounts :
           /\ from # to
           /\ Begin(r, k, [kind |-> "transfer", from |-> from, to |-> to, amount |-> amount])
    BY DEF Transfer
  <1> DEFINE x == [kind |-> "transfer", from |-> from, to |-> to, amount |-> amount]
  <1>2. x \in Movement /\ x.from # x.to /\ x.kind # "mint" /\ x.from # Treasury
    BY <1>1, UsersAssumption DEF Movement, Owners
  <1>3. Begin(r, k, x)
    BY <1>1
  <1> HIDE DEF x
  <1> QED
    BY <1>2, <1>3, BeginStep

\* A mint is paid by the treasury.
LEMMA MintStep ==
    ASSUME IInv, NEW r \in Reqs, Mint(r)
    PROVE  IInv'
  <1>1. PICK k \in Keys, to \in Users, amount \in Amounts :
           Begin(r, k, [kind |-> "mint", from |-> Treasury, to |-> to, amount |-> amount])
    BY DEF Mint
  <1> DEFINE x == [kind |-> "mint", from |-> Treasury, to |-> to, amount |-> amount]
  <1>2. x \in Movement /\ x.from # x.to /\ x.kind = "mint" /\ x.from = Treasury
    BY <1>1, UsersAssumption DEF Movement, Owners
  <1>3. Begin(r, k, x)
    BY <1>1
  <1> HIDE DEF x
  <1> QED
    BY <1>2, <1>3, BeginStep

\* Every step keeps the invariant.
LEMMA NextKeeps == IInv /\ [Next]_vars => IInv'
  <1> SUFFICES ASSUME IInv, [Next]_vars
               PROVE  IInv'
    OBVIOUS
  <1>1. CASE UNCHANGED vars
    <2>1. TypeOK'
      BY <1>1 DEF IInv, TypeOK, vars, tables, locks
    <2>2. \A r \in Reqs : RequestOK(r)'
      BY <1>1 DEF IInv, RequestOK, CallOK, AccountsPinned, KeyReserved, CoveredAtCommit,
         Covered, Balance, Key, Moved, vars, tables, locks
    <2>3. PostingsKeyed' /\ AnswersStayTrue' /\ NoOverdraft'
      BY <1>1 DEF IInv, PostingsKeyed, AnswersStayTrue, NoOverdraft, Balance, vars, tables
    <2> QED
      BY <2>1, <2>2, <2>3 DEF IInv
  <1>2. ASSUME NEW u \in Users, EnsureWallet(u)
        PROVE  IInv'
    BY <1>2, EnsureWalletStep
  <1>3. ASSUME NEW r \in Reqs, Handle(r)
        PROVE  IInv'
    <2>1. CASE Transfer(r)
      BY <2>1, TransferStep
    <2>2. CASE Mint(r)
      BY <2>2, MintStep
    <2>3. CASE CreateWallet(r)
      BY <2>3, CreateWalletStep
    <2>4. CASE LockAccount(r)
      BY <2>4, LockAccountStep
    <2>5. CASE FindKey(r)
      BY <2>5, FindKeyStep
    <2>6. CASE InsertKey(r)
      BY <2>6, InsertKeyStep
    <2>7. CASE InsertPostings(r)
      BY <2>7, InsertPostingsStep
    <2>8. CASE Commit(r)
      BY <2>8, CommitStep
    <2>9. CASE Rollback(r)
      BY <2>9, AbandonStep DEF Rollback
    <2> QED
      BY <1>3, <2>1, <2>2, <2>3, <2>4, <2>5, <2>6, <2>7, <2>8, <2>9 DEF Handle
  <1> QED
    BY <1>1, <1>2, <1>3 DEF Next

\* Locks, reservations, postings and answers fit together at all times.
THEOREM Invariance == Spec => []IInv
  BY InitEstablishes, NextKeeps, PTL DEF Spec

\* Values keep their types, and locks belong to open transactions.
THEOREM TypeCorrect == Spec => []TypeOK
  <1>1. IInv => TypeOK
    BY DEF IInv
  <1> QED
    BY <1>1, Invariance, PTL

\* However many transfers, mints and retries run at once, the postings of no
\* user ever sum to less than zero.
THEOREM NeverOverdrawn == Spec => []NoOverdraft
  <1>1. IInv => NoOverdraft
    BY DEF IInv
  <1> QED
    BY <1>1, Invariance, PTL

\* A success that a caller was told of stays what the ledger holds.
THEOREM AnswersTrue == Spec => []AnswersStayTrue
  <1>1. IInv => AnswersStayTrue
    BY DEF IInv
  <1> QED
    BY <1>1, Invariance, PTL

-----------------------------------------------------------------------------
(* Refinement of Bank.                                                     *)

\* The legs of a movement tell what it is.
LEMMA LegsTell ==
    ASSUME NEW k \in Keys, NEW x \in Movement
    PROVE  /\ (CHOOSE p \in Legs(k, x) : p.amount < 0).owner = x.from
           /\ (CHOOSE p \in Legs(k, x) : p.amount > 0).owner = x.to
           /\ (CHOOSE p \in Legs(k, x) : p.amount > 0).amount = x.amount
  <1> DEFINE debit == [key |-> k, owner |-> x.from, amount |-> -x.amount]
             credit == [key |-> k, owner |-> x.to, amount |-> x.amount]
  <1>1. x.amount \in Nat \ {0}
    BY Amounted
  <1>2. Legs(k, x) = {debit, credit}
    BY DEF Legs
  <1>3. /\ debit.amount < 0 /\ ~(debit.amount > 0) /\ debit.owner = x.from
        /\ credit.amount > 0 /\ ~(credit.amount < 0)
        /\ credit.owner = x.to /\ credit.amount = x.amount
    BY <1>1
  <1> HIDE DEF debit, credit
  <1>4. (CHOOSE p \in {debit, credit} : p.amount < 0) = debit
    BY <1>3
  <1>5. (CHOOSE p \in {debit, credit} : p.amount > 0) = credit
    BY <1>3
  <1> QED
    BY <1>2, <1>3, <1>4, <1>5

\* An empty ledger is a new bank.
LEMMA InitRefines == Init => B!Init
  <1> SUFFICES ASSUME Init
               PROVE  B!Init
    OBVIOUS
  <1>1. \A o \in Owners : Balance(o) = 0
    <2>1. \A o \in Owners : {p \in postings : p.owner = o} = {}
      BY DEF Init
    <2> QED
      BY <2>1, TotalOfNone DEF Balance
  <1>2. \A k \in Keys : Stored(k) = None
    BY DEF Init, Stored
  <1> QED
    BY <1>1, <1>2 DEF B!Init, Owners

\* A commit moves the money, once for its key and covered by the sender.
LEMMA CommitRefines ==
    ASSUME IInv, NEW r \in Reqs, Commit(r)
    PROVE  B!Next
  <1>1. /\ TypeOK /\ Key(r) \in Keys /\ Moved(r) \in Movement
        /\ Moved(r).from # Moved(r).to /\ Covered(r)
        /\ Moved(r).kind = "mint" <=> Moved(r).from = Treasury
        /\ ledger[Key(r)] = None
    BY DEF IInv, RequestOK, CallOK, KeyReserved, CoveredAtCommit, Keyed, Commit
  <1>2. PICK k \in Keys : k = Key(r)
    BY <1>1
  <1>3. PICK x \in Movement : x = Moved(r)
    BY <1>1
  <1>4. /\ x.amount \in Nat \ {0} /\ x.amount \in Amounts
        /\ x.from \in Owners /\ x.to \in Users /\ x.to \in Owners
        /\ x.kind \in {"transfer", "mint"} /\ x.from # x.to
        /\ x.kind = "transfer" => x.from \in Users
    BY <1>1, <1>3, Amounted DEF Owners
  <1> DEFINE money == [o \in Owners |-> Balance(o)]
             made == [y \in Keys |-> Stored(y)]
             entry == [kind |-> x.kind, from |-> x.from, to |-> x.to, amount |-> x.amount]
  <1>5. money' = [money EXCEPT ![x.from] = @ - x.amount, ![x.to] = @ + x.amount]
    <2>1. \A o \in Owners :
             Balance(o)' = IF o = x.from THEN Balance(o) - x.amount
                           ELSE IF o = x.to THEN Balance(o) + x.amount ELSE Balance(o)
      BY <1>3, CommitMoves
    <2> HIDE DEF Balance
    <2> QED
      BY <1>4, <2>1
  <1>6. made[k] = None
    BY <1>1, <1>2 DEF Stored
  <1>7. /\ ledger' = [ledger EXCEPT ![k] = x.kind] /\ postings' = postings \cup Legs(k, x)
        /\ \A p \in Legs(k, x) : p.key = k
    BY <1>2, <1>3 DEF Commit, Legs
  <1>8. Stored(k)' = entry
    <2>1. ledger'[k] = x.kind /\ x.kind # None
      BY <1>1, <1>4, <1>7 DEF TypeOK
    <2>2. {p \in postings' : p.key = k} = Legs(k, x)
      <3>1. \A p \in postings : p.key # k
        BY <1>1, <1>2 DEF IInv, PostingsKeyed
      <3> QED
        BY <1>7, <3>1
    <2> QED
      BY <2>1, <2>2, LegsTell DEF Stored
  <1>9. ASSUME NEW y \in Keys, y # k
        PROVE  Stored(y)' = Stored(y)
    <2>1. ledger'[y] = ledger[y]
      BY <1>1, <1>7, <1>9 DEF TypeOK
    <2>2. {p \in postings' : p.key = y} = {p \in postings : p.key = y}
      BY <1>7, <1>9
    <2> QED
      BY <2>1, <2>2 DEF Stored
  <1>10. made' = [made EXCEPT ![k] = entry]
    <2> HIDE DEF Stored, entry
    <2> QED
      BY <1>8, <1>9
  <1>11. B!Move(k, x.kind, x.from, x.to, x.amount)
    BY <1>5, <1>6, <1>10 DEF B!Move
  <1>12. x.kind = "transfer" => money[x.from] >= x.amount
    <2>1. Balance(x.from) \in Int
      BY <1>4, CommitMoves
    <2>2. x.kind = "transfer" => 0 <= Balance(x.from) - x.amount
      BY <1>1, <1>3 DEF Covered
    <2> HIDE DEF Balance
    <2> QED
      BY <1>4, <2>1, <2>2
  <1>13. CASE x.kind = "transfer"
    BY <1>4, <1>11, <1>12, <1>13 DEF B!Transfer, B!Next
  <1>14. CASE x.kind = "mint"
    BY <1>1, <1>3, <1>4, <1>11, <1>14 DEF B!Mint, B!Next
  <1> QED
    BY <1>4, <1>13, <1>14

\* Every other step leaves money and keys alone.
LEMMA StepRefines ==
    IInv /\ [Next]_vars =>
       [B!Next]_<<[o \in Owners |-> Balance(o)], [k \in Keys |-> Stored(k)]>>
  <1> SUFFICES ASSUME IInv, [Next]_vars
               PROVE  \/ B!Next
                      \/ UNCHANGED <<[o \in Owners |-> Balance(o)], [k \in Keys |-> Stored(k)]>>
    OBVIOUS
  <1>1. UNCHANGED <<ledger, postings>> \/ \E r \in Reqs : Commit(r)
    <2>1. ASSUME NEW r \in Reqs, Transfer(r) \/ Mint(r)
          PROVE  UNCHANGED <<ledger, postings>>
      BY <2>1 DEF Transfer, Mint, Begin, tables
    <2>2. ASSUME NEW r \in Reqs,
                 \/ CreateWallet(r) \/ LockAccount(r) \/ FindKey(r)
                 \/ InsertKey(r) \/ InsertPostings(r) \/ Rollback(r)
          PROVE  UNCHANGED <<ledger, postings>>
      BY <2>2, Zenon DEF CreateWallet, LockAccount, FindKey, InsertKey, InsertPostings,
         Rollback, Abandon, tables
    <2>3. ASSUME NEW u \in Users, EnsureWallet(u)
          PROVE  UNCHANGED <<ledger, postings>>
      BY <2>3 DEF EnsureWallet
    <2>4. ASSUME UNCHANGED vars
          PROVE  UNCHANGED <<ledger, postings>>
      BY <2>4 DEF vars, tables
    <2> QED
      BY <2>1, <2>2, <2>3, <2>4, Zenon DEF Next, Handle
  <1>2. CASE UNCHANGED <<ledger, postings>>
    BY <1>2 DEF Balance, Stored
  <1> QED
    BY <1>1, <1>2, CommitRefines

\* For any users, amounts, keys and concurrent requests, with any of them rolled
\* back anywhere, the ledger is a bank: each commit is one atomic, covered
\* movement under an unused key, and nothing else moves money.
THEOREM LedgerImplementsBank == Spec => ImplementsBank
  BY InitRefines, StepRefines, Invariance, PTL DEF Spec, ImplementsBank, B!Spec

-----------------------------------------------------------------------------
(* The order of the locks.                                                 *)

Sides(r) == {Moved(r).from, Moved(r).to}

\* A wallet that r has created and not committed is locked by r and by nobody
\* else; and r has an id for every row that it holds.
CreatedOK(r) ==
    \A o \in Owners :
        /\ call[r].made[o] # 0 => accountLock[o] = r /\ account[o] = 0
        /\ accountLock[o] = r => IdOf(r, o) # 0

\* Wallets are created in the order of their owners.
EnsureOrdered(r) ==
    at[r] = "ensure" =>
        /\ call[r].todo \subseteq Sides(r)
        /\ \A o \in Owners : accountLock[o] = r => call[r].made[o] # 0 /\ o \notin call[r].todo
        /\ \A o \in Sides(r) \ call[r].todo :
              IdOf(r, o) # 0 /\ \A p \in call[r].todo : o < p

\* Rows are locked in the order of their ids.
LocksOrdered(r) ==
    at[r] = "lock" =>
        \A o \in Sides(r) :
            /\ IdOf(r, o) # 0
            /\ accountLock[o] = r /\ account[o] # 0 =>
                  \A p \in Sides(r) : accountLock[p] # r => account[o] < account[p]

HeldAreSides(r) ==
    \A o \in Owners : accountLock[o] = r => o \in Sides(r)

OrderOK(r) ==
    CreatedOK(r) /\ EnsureOrdered(r) /\ LocksOrdered(r) /\ HeldAreSides(r)

\* No two rows have one id, nor will when the wallets being created commit.
IdsDistinct ==
    /\ \A o, p \in Owners : account[o] = account[p] /\ account[o] # 0 => o = p
    /\ \A r \in Reqs : \A o, p \in Owners :
          call[r].made[o] # 0 => call[r].made[o] # account[p]
    /\ \A r, q \in Reqs : \A o, p \in Owners :
          call[r].made[o] = call[q].made[p] /\ call[r].made[o] # 0 => r = q /\ o = p

OrderInv == IdsDistinct /\ \A r \in Reqs : OrderOK(r)

\* A finite set in which everything is below something is empty.
LEMMA NoneHighest ==
    ASSUME NEW L, IsFiniteSet(L), NEW f \in [L -> Int],
           \A x \in L : \E y \in L : f[x] < f[y]
    PROVE  L = {}
  <1> SUFFICES ASSUME L # {}
               PROVE  FALSE
    OBVIOUS
  <1> DEFINE S == {f[x] : x \in L}
  <1>1. f \in Surjection(L, S)
    BY DEF Surjection
  <1>2. S \in SUBSET Int /\ S # {}
    OBVIOUS
  <1>3. IsFiniteSet(S)
    <2> HIDE DEF S
    <2> QED
      BY <1>1, FS_Surjection
  <1>4. Max(S) \in S /\ \A y \in S : Max(S) >= y
    <2> HIDE DEF S
    <2> QED
      BY <1>2, <1>3, Extremes
  <1>5. PICK m \in Int : m = Max(S)
    BY <1>2, <1>4
  <1>6. PICK x \in L : m = f[x]
    BY <1>4, <1>5
  <1>7. PICK y \in L : f[x] < f[y]
    OBVIOUS
  <1>8. m >= f[y] /\ f[x] \in Int /\ f[y] \in Int
    BY <1>4, <1>5
  <1> QED
    BY <1>6, <1>7, <1>8

\* A request that waits for a request waits for a wallet, a row or a key.
LEMMA Waiting ==
    ASSUME IInv, NEW r \in Reqs, Blocker(r) \in Reqs
    PROVE  \/ /\ at[r] = "ensure" /\ account[NextWallet(r)] = 0
              /\ Blocker(r) = accountLock[NextWallet(r)]
           \/ /\ at[r] = "lock" /\ ToLock(r) # {}
              /\ Blocker(r) = accountLock[NextAccount(r)]
           \/ at[r] = "insert" /\ Blocker(r) = keyLock[Key(r)]
  BY DEF Blocker

\* The holder of a key does not wait.
LEMMA KeyHolders ==
    ASSUME IInv, NEW r \in Reqs, at[r] = "insert", keyLock[Key(r)] \in Reqs
    PROVE  at[keyLock[Key(r)]] \notin {"ensure", "lock", "insert"}
  <1>1. Key(r) \in Keys
    BY DEF IInv, RequestOK, CallOK
  <1> QED
    BY <1>1 DEF IInv, TypeOK

\* Who waits for a row waits for a lower id than the holder, if that waits.
LEMMA RowHolders ==
    ASSUME IInv, OrderInv, NEW r \in Reqs, at[r] = "lock", ToLock(r) # {},
           NEW q \in Reqs, q = accountLock[NextAccount(r)]
    PROVE  /\ at[q] # "ensure" /\ account[NextAccount(r)] \in Int
           /\ at[q] = "lock" /\ ToLock(q) # {} =>
                 account[NextAccount(r)] < account[NextAccount(q)]
  <1>1. Moved(r) \in Movement /\ TypeOK
    BY DEF IInv, RequestOK, CallOK
  <1>2. PICK o \in Owners : o = NextAccount(r) /\ o \in ToLock(r)
    BY <1>1, NextAccountListed
  <1>3. o \in Sides(r) /\ accountLock[o] # r /\ accountLock[o] = q
    BY <1>2 DEF ToLock, Sides
  <1>4. account[o] # 0
    BY <1>2, <1>3 DEF OrderInv, OrderOK, CreatedOK, LocksOrdered, IdOf
  <1>5. at[q] # "ensure"
    BY <1>3, <1>4 DEF OrderInv, OrderOK, CreatedOK, EnsureOrdered
  <1>6. ASSUME at[q] = "lock", ToLock(q) # {}
        PROVE  account[o] < account[NextAccount(q)]
    <2>1. Moved(q) \in Movement
      BY <1>6 DEF IInv, RequestOK, CallOK
    <2>2. PICK p \in Owners : p = NextAccount(q) /\ p \in ToLock(q)
      BY <1>1, <1>6, <2>1, NextAccountListed
    <2>3. p \in Sides(q) /\ accountLock[p] # q
      BY <2>2 DEF ToLock, Sides
    <2>4. o \in Sides(q)
      BY <1>3 DEF OrderInv, OrderOK, HeldAreSides
    <2>5. account[o] < account[p]
      BY <1>3, <1>4, <1>6, <2>3, <2>4 DEF OrderInv, OrderOK, LocksOrdered
    <2> QED
      BY <2>2, <2>5
  <1>7. account[o] \in Int
    BY <1>1 DEF TypeOK
  <1> QED
    BY <1>2, <1>5, <1>6, <1>7

\* Who waits to create a wallet waits for a lower owner than the creator, if
\* that waits in turn to create one.
LEMMA WalletHolders ==
    ASSUME IInv, OrderInv, NEW r \in Reqs, at[r] = "ensure", account[NextWallet(r)] = 0,
           NEW q \in Reqs, q = accountLock[NextWallet(r)]
    PROVE  /\ NextWallet(r) \in Int
           /\ at[q] = "ensure" => NextWallet(r) < NextWallet(q)
  <1>1. TypeOK /\ call[r].todo # {}
    BY DEF IInv, RequestOK, CallOK
  <1>2. PICK o \in Owners : o = NextWallet(r)
    BY <1>1, NextWalletListed
  <1>3. o \in Int
    BY OwnersFinite
  <1>4. ASSUME at[q] = "ensure"
        PROVE  o < NextWallet(q)
    <2>1. call[q].todo # {}
      BY <1>4 DEF IInv, RequestOK, CallOK
    <2>2. PICK p \in Owners : p = NextWallet(q) /\ p \in call[q].todo
      BY <1>1, <2>1, NextWalletListed
    <2>3. o \notin call[q].todo /\ o \in Sides(q)
      BY <1>2, <1>4 DEF OrderInv, OrderOK, EnsureOrdered, HeldAreSides
    <2>4. o < p
      BY <1>4, <2>2, <2>3 DEF OrderInv, OrderOK, EnsureOrdered
    <2> QED
      BY <2>2, <2>4
  <1> QED
    BY <1>2, <1>3, <1>4

\* So no set of requests waits for itself.
LEMMA OrderPreventsDeadlock == IInv /\ OrderInv => NoDeadlock
  <1> SUFFICES ASSUME IInv, OrderInv, NEW W \in SUBSET Reqs,
                      \A r \in W : Blocker(r) \in W
               PROVE  W = {}
    BY DEF NoDeadlock
  <1>1. \A r \in W : r \in Reqs /\ Blocker(r) \in Reqs
    OBVIOUS
  <1>2. \A r \in W : at[r] \in {"ensure", "lock", "insert"}
    BY <1>1, Waiting
  <1>3. \A r \in W : at[r] \in {"ensure", "lock"}
    BY <1>1, <1>2, Waiting, KeyHolders
  <1> DEFINE L == {r \in W : at[r] = "lock"}
  <1>4. IsFiniteSet(W) /\ IsFiniteSet(L)
    BY FiniteAssumption, FS_Subset
  <1>5. L = {}
    <2> DEFINE height(r) == account[NextAccount(r)]
    <2>1. ASSUME NEW r \in L
          PROVE  height(r) \in Int /\ \E q \in L : height(r) < height(q)
      <3>1. PICK q \in W : q = Blocker(r)
        BY <1>1
      <3>2. ToLock(r) # {} /\ q = accountLock[NextAccount(r)]
        BY <1>1, <3>1, Waiting
      <3>3. at[q] = "lock" /\ height(r) \in Int
        BY <1>1, <1>3, <3>2, RowHolders
      <3>4. ToLock(q) # {}
        BY <1>1, <3>3, Waiting
      <3> QED
        BY <1>1, <3>2, <3>3, <3>4, RowHolders
    <2> DEFINE f == [r \in L |-> height(r)]
    <2> HIDE DEF L, height
    <2>2. f \in [L -> Int] /\ \A r \in L : \E q \in L : f[r] < f[q]
      BY <2>1
    <2> HIDE DEF f
    <2> QED
      BY <1>4, <2>2, NoneHighest
  <1>6. \A r \in W : at[r] = "ensure"
    BY <1>3, <1>5
  <1>7. ASSUME NEW r \in W
        PROVE  NextWallet(r) \in Int /\ \E q \in W : NextWallet(r) < NextWallet(q)
    <2>1. PICK q \in W : q = Blocker(r)
      BY <1>1
    <2>2. account[NextWallet(r)] = 0 /\ q = accountLock[NextWallet(r)]
      BY <1>1, <1>6, <2>1, Waiting
    <2> QED
      BY <1>1, <1>6, <2>2, WalletHolders
  <1> DEFINE f == [r \in W |-> NextWallet(r)]
  <1>8. f \in [W -> Int] /\ \A r \in W : \E q \in W : f[r] < f[q]
    <2> HIDE DEF NextWallet
    <2> QED
      BY <1>7
  <1> HIDE DEF f
  <1> QED
    BY <1>4, <1>8, NoneHighest

\* What a step of r may do besides to the locks and the wallets of others: take
\* free locks, give its own back, and fill in a wallet that nobody else creates.
Apart(r) ==
    /\ \A q \in Reqs \ {r} :
          /\ at'[q] = at[q] /\ call'[q] = call[q]
          /\ \A o \in Owners : accountLock'[o] = q <=> accountLock[o] = q
    /\ \A o \in Owners :
          account'[o] = account[o] \/ (account[o] = 0 /\ accountLock[o] \in {None, r})

\* Such a step leaves the order of the other requests' locks as it is.
LEMMA OthersOrdered ==
    ASSUME IInv, OrderInv, NEW r \in Reqs \cup {None}, Apart(r), NEW q \in Reqs, q # r
    PROVE  OrderOK(q)'
  <1>1. OrderOK(q) /\ at'[q] = at[q] /\ call'[q] = call[q]
    BY DEF OrderInv, Apart
  <1>2. \A o \in Owners : accountLock'[o] = q <=> accountLock[o] = q
    BY DEF Apart
  <1>3. \A o \in Owners :
           accountLock[o] = q \/ account[o] # 0 => account'[o] = account[o]
    BY DEF Apart
  <1>4. CreatedOK(q)'
    BY <1>1, <1>2, <1>3 DEF OrderOK, CreatedOK, IdOf
  <1>5. at[q] # "idle" => Moved(q).from \in Owners /\ Moved(q).to \in Owners
    BY Amounted DEF IInv, RequestOK, CallOK
  <1>6. at[q] # "idle" => \A o \in Sides(q) : o \in Owners
    BY <1>5 DEF Sides
  <1>7. \A o \in Owners : IdOf(q, o) # 0 => IdOf(q, o)' # 0
    BY <1>1, <1>3 DEF OrderOK, CreatedOK, IdOf
  <1>8. Sides(q)' = Sides(q)
    BY <1>1 DEF Sides, Moved
  <1>9. EnsureOrdered(q)'
    BY <1>1, <1>2, <1>6, <1>7, <1>8 DEF OrderOK, EnsureOrdered
  <1>10. LocksOrdered(q)'
    <2> SUFFICES ASSUME at'[q] = "lock", NEW o \in Sides(q)
                 PROVE  /\ IdOf(q, o)' # 0
                        /\ accountLock'[o] = q /\ account'[o] # 0 =>
                              \A p \in Sides(q) :
                                 accountLock'[p] # q => account'[o] < account'[p]
      BY <1>8 DEF LocksOrdered
    <2>1. at[q] = "lock" /\ o \in Owners
      BY <1>1, <1>6
    <2>2. IdOf(q, o)' # 0
      BY <1>1, <1>7, <2>1 DEF OrderOK, LocksOrdered
    <2>3. ASSUME accountLock'[o] = q, account'[o] # 0, NEW p \in Sides(q), accountLock'[p] # q
          PROVE  account'[o] < account'[p]
      <3>1. p \in Owners /\ accountLock[o] = q /\ accountLock[p] # q
        BY <1>2, <1>6, <2>1, <2>3
      <3>2. account'[o] = account[o]
        BY <1>3, <2>1, <3>1
      <3>3. account[p] # 0
        BY <1>1, <2>1, <3>1 DEF OrderOK, CreatedOK, LocksOrdered, IdOf
      <3>4. account'[p] = account[p]
        BY <1>3, <3>1, <3>3
      <3> QED
        BY <1>1, <2>1, <2>3, <3>1, <3>2, <3>4 DEF OrderOK, LocksOrdered
    <2> QED
      BY <2>2, <2>3
  <1>11. HeldAreSides(q)'
    BY <1>1, <1>2, <1>8 DEF OrderOK, HeldAreSides
  <1> QED
    BY <1>4, <1>9, <1>10, <1>11 DEF OrderOK

\* So only the step's own request and the new ids need a look.
LEMMA OrderStep ==
    ASSUME IInv, OrderInv, NEW r \in Reqs, Apart(r), OrderOK(r)', IdsDistinct'
    PROVE  OrderInv'
  BY OthersOrdered DEF OrderInv

\* Ids stay distinct when none is added.
LEMMA NoNewIds ==
    ASSUME TypeOK, IdsDistinct, UNCHANGED account,
           \A q \in Reqs : \A o \in Owners :
              call'[q].made[o] = call[q].made[o] \/ call'[q].made[o] = 0
    PROVE  IdsDistinct'
  BY DEF IdsDistinct

\* What a wallet that is being created becomes at the end of the transaction.
LEMMA CommittedIds ==
    ASSUME IInv, OrderInv, NEW r \in Reqs, CommitWallets(r), Finish(r)
    PROVE  Apart(r) /\ IdsDistinct' /\ OrderOK(r)'
  <1>1. /\ at'[r] = "idle" /\ call'[r] = Blank /\ Moves(r) /\ TypeOK
    BY FinishStep DEF IInv
  <1>2. \A o \in Owners : accountLock'[o] = IF accountLock[o] = r THEN None ELSE accountLock[o]
    BY DEF Finish
  <1>3. \A o \in Owners : account'[o] = IdOf(r, o)
    BY DEF CommitWallets
  <1>4. \A o \in Owners :
           account'[o] = account[o] \/ (account[o] = 0 /\ accountLock[o] = r)
    BY <1>3 DEF IdOf, OrderInv, OrderOK, CreatedOK
  <1>5. Apart(r)
    BY <1>1, <1>2, <1>4 DEF Apart, Moves
  <1>6. \A o \in Owners : call'[r].made[o] = 0
    BY <1>1 DEF Blank, NothingMade
  <1>7. \A q \in Reqs \ {r} : call'[q] = call[q]
    BY <1>1 DEF Moves
  <1>8. IdsDistinct'
    <2>1. ASSUME NEW o \in Owners, NEW p \in Owners, account'[o] = account'[p], account'[o] # 0
          PROVE  o = p
      BY <1>3, <2>1 DEF OrderInv, IdsDistinct, IdOf
    <2>2. ASSUME NEW q \in Reqs, NEW o \in Owners, NEW p \in Owners, call'[q].made[o] # 0
          PROVE  call'[q].made[o] # account'[p]
      <3>1. q # r /\ call'[q].made[o] = call[q].made[o]
        BY <1>6, <1>7, <2>2
      <3> QED
        BY <1>3, <2>2, <3>1 DEF OrderInv, IdsDistinct, IdOf
    <2>3. ASSUME NEW q1 \in Reqs, NEW q2 \in Reqs, NEW o \in Owners, NEW p \in Owners,
                 call'[q1].made[o] = call'[q2].made[p], call'[q1].made[o] # 0
          PROVE  q1 = q2 /\ o = p
      <3>1. q1 # r /\ q2 # r
        BY <1>6, <2>3
      <3> QED
        BY <1>7, <2>3, <3>1 DEF OrderInv, IdsDistinct
    <2> QED
      BY <2>1, <2>2, <2>3 DEF IdsDistinct
  <1>9. r # None
    OBVIOUS
  <1>10. \A o \in Owners : accountLock'[o] # r
    BY <1>2, <1>9
  <1>11. OrderOK(r)'
    BY <1>1, <1>6, <1>10 DEF OrderOK, CreatedOK, EnsureOrdered, LocksOrdered, HeldAreSides
  <1> QED
    BY <1>5, <1>8, <1>11

\* A step that changes neither wallets nor row locks nor calls, and ends
\* neither at the creation of wallets nor at the row locks.
LEMMA LaterOrdered ==
    ASSUME IInv, OrderInv, NEW r \in Reqs, Moves(r), UNCHANGED <<account, accountLock, call>>,
           at'[r] \notin {"ensure", "lock"}
    PROVE  OrderInv'
  <1>1. Apart(r)
    BY DEF Apart, Moves
  <1>2. IdsDistinct'
    BY DEF OrderInv, IdsDistinct
  <1>3. OrderOK(r)'
    BY DEF OrderInv, OrderOK, CreatedOK, EnsureOrdered, LocksOrdered, HeldAreSides,
           IdOf, Sides, Moved
  <1> QED
    BY <1>1, <1>2, <1>3, OrderStep

\* A wallet that is created outside a transaction has a new id.
LEMMA EnsureWalletOrdered ==
    ASSUME IInv, OrderInv, NEW u \in Users, EnsureWallet(u)
    PROVE  OrderInv'
  <1>1. /\ account[u] = 0 /\ accountLock[u] = None /\ u \in Owners /\ TypeOK
        /\ UNCHANGED <<accountLock, at, call>>
    BY DEF EnsureWallet, IInv, Owners, locks
  <1>2. PICK n \in Nat \ {0} : n = NewId
    BY <1>1, NewIdFresh
  <1>3. account' = [account EXCEPT ![u] = n]
    BY <1>2 DEF EnsureWallet
  <1>4. /\ account'[u] = n /\ \A o \in Owners \ {u} : account'[o] = account[o]
        /\ account \in [Owners -> Nat]
    BY <1>1, <1>3 DEF TypeOK
  <1>5. /\ \A o \in Owners : account[o] < n
        /\ \A q \in Reqs, o \in Owners : call[q].made[o] < n
    BY <1>1, <1>2, NewIdFresh
  <1>6. ~(n < n)
    OBVIOUS
  <1>7. IdsDistinct'
    <2>1. \A o \in Owners : account[o] # n
      BY <1>5, <1>6
    <2>2. \A q \in Reqs : \A o \in Owners : call[q].made[o] # n
      BY <1>5, <1>6
    <2> QED
      BY <1>1, <1>4, <2>1, <2>2 DEF OrderInv, IdsDistinct
  <1>8. Apart(None)
    BY <1>1, <1>4 DEF Apart
  <1>9. \A q \in Reqs : OrderOK(q)'
    BY <1>8, OthersOrdered
  <1> QED
    BY <1>7, <1>9 DEF OrderInv

\* A new request has created and locked nothing.
LEMMA BeginOrdered ==
    ASSUME IInv, OrderInv, NEW r \in Reqs, NEW k \in Keys, NEW x \in Movement, Begin(r, k, x)
    PROVE  OrderInv'
  <1> DEFINE c == [Blank EXCEPT !.key = k, !.movement = x, !.todo = {x.from, x.to}]
  <1>1. c.made = NothingMade /\ c.movement = x /\ c.todo = {x.from, x.to}
    BY DEF Blank
  <1>2. /\ call' = [call EXCEPT ![r] = c] /\ at[r] = "idle" /\ Advance(r, "ensure")
        /\ UNCHANGED <<account, accountLock>> /\ TypeOK
    BY DEF Begin, tables, locks, IInv
  <1> HIDE DEF c
  <1>3. /\ call'[r] = c /\ \A q \in Reqs \ {r} : call'[q] = call[q]
        /\ at'[r] = "ensure" /\ \A q \in Reqs \ {r} : at'[q] = at[q]
    BY <1>2 DEF TypeOK, Advance
  <1>4. \A o \in Owners : call'[r].made[o] = 0
    BY <1>1, <1>3 DEF NothingMade
  <1>5. \A o \in Owners : accountLock[o] # r
    BY <1>2 DEF TypeOK
  <1>6. Apart(r)
    BY <1>2, <1>3 DEF Apart
  <1>7. IdsDistinct'
    BY <1>2, <1>3, <1>4, NoNewIds DEF OrderInv
  <1>8. OrderOK(r)'
    BY <1>1, <1>2, <1>3, <1>4, <1>5
       DEF OrderOK, CreatedOK, EnsureOrdered, LocksOrdered, HeldAreSides, Sides, Moved
  <1> QED
    BY <1>6, <1>7, <1>8, OrderStep

\* Wallets are created in the order of their owners, with new ids.
LEMMA CreateWalletOrdered ==
    ASSUME IInv, OrderInv, NEW r \in Reqs, CreateWallet(r)
    PROVE  OrderInv'
  <1>1. at[r] = "ensure" /\ CallOK(r) /\ call[r].todo # {} /\ TypeOK /\ OrderOK(r)
    BY DEF IInv, RequestOK, CallOK, CreateWallet, OrderInv
  <1>2. PICK o \in Owners : /\ o = NextWallet(r) /\ o \in call[r].todo
                            /\ \A p \in call[r].todo : o <= p
    BY <1>1, NextWalletListed
  <1>3. PICK n \in Nat \ {0} : n = NewId
    BY <1>1, NewIdFresh
  <1>4. /\ \A p \in Owners : account[p] # n
        /\ \A q \in Reqs : \A p \in Owners : call[q].made[p] # n
    <2>1. ~(n < n)
      OBVIOUS
    <2> QED
      BY <1>1, <1>3, <2>1, NewIdFresh
  <1>5. /\ call' \in [Reqs -> Call]
        /\ \A q \in Reqs \ {r} : call'[q] = call[q]
        /\ call'[r].movement = call[r].movement
        /\ call'[r].todo = call[r].todo \ {o}
    <2>1. \/ call' = [call EXCEPT ![r].made[o] = n, ![r].todo = @ \ {o}]
          \/ call' = [call EXCEPT ![r].todo = @ \ {o}]
      BY <1>2, <1>3 DEF CreateWallet
    <2> QED
      BY <1>1, <2>1, WalletCall
  <1>6. UNCHANGED account
    BY DEF CreateWallet, tables
  <1>7. /\ \A q \in Reqs \ {r} : at'[q] = at[q]
        /\ at'[r] = IF call[r].todo = {o} THEN "lock" ELSE "ensure"
    <2>1. IF call[r].todo = {o} THEN Advance(r, "lock") ELSE UNCHANGED at
      BY <1>2 DEF CreateWallet
    <2> QED
      BY <1>1, <2>1 DEF TypeOK, Advance
  <1>8. call[r].made \in [Owners -> Nat] /\ call[r] \in Call /\ call \in [Reqs -> Call]
    BY <1>1 DEF TypeOK, Call
  \* Either the wallet is created, locked with a new id, or it exists.
  <1>9. \/ /\ account[o] = 0 /\ accountLock[o] = None
           /\ accountLock' = [accountLock EXCEPT ![o] = r]
           /\ call'[r].made = [call[r].made EXCEPT ![o] = n]
        \/ /\ account[o] # 0 /\ UNCHANGED accountLock
           /\ call'[r].made = call[r].made
    <2>1. CASE account[o] = 0
      <3>1. /\ accountLock' = [accountLock EXCEPT ![o] = r] /\ accountLock[o] = None
            /\ call' = [call EXCEPT ![r].made[o] = n, ![r].todo = @ \ {o}]
        BY <1>2, <1>3, <2>1 DEF CreateWallet
      <3> DEFINE m == [call[r].made EXCEPT ![o] = n]
                 b == [call[r] EXCEPT !.made = m]
                 c == [b EXCEPT !.todo = call[r].todo \ {o}]
      <3>2. call' = [call EXCEPT ![r] = c]
        BY <1>8, <3>1 DEF Call
      <3> HIDE DEF m
      <3>3. m \in [Owners -> Nat]
        BY <1>8 DEF m
      <3>4. c.made = m
        BY <1>8, <3>3 DEF Call
      <3> HIDE DEF c
      <3>5. call'[r].made = m
        BY <1>8, <3>2, <3>4
      <3> QED
        BY <2>1, <3>1, <3>5 DEF m
    <2>2. CASE account[o] # 0
      <3>1. call' = [call EXCEPT ![r].todo = @ \ {o}] /\ UNCHANGED accountLock
        BY <1>2, <2>2 DEF CreateWallet
      <3>2. call'[r].made = call[r].made
        BY <1>8, <3>1 DEF Call
      <3> QED
        BY <2>2, <3>1, <3>2
    <2> QED
      BY <2>1, <2>2
  <1>10. /\ \A p \in Owners : p # o => accountLock'[p] = accountLock[p]
                                       /\ call'[r].made[p] = call[r].made[p]
         /\ \/ /\ account[o] = 0 /\ accountLock[o] = None
               /\ accountLock'[o] = r /\ call'[r].made[o] = n
            \/ /\ account[o] # 0 /\ accountLock'[o] = accountLock[o]
               /\ call'[r].made[o] = call[r].made[o]
    BY <1>1, <1>8, <1>9 DEF TypeOK
  <1>11. Apart(r)
    BY <1>5, <1>6, <1>7, <1>10 DEF Apart
  <1>12. IdsDistinct'
    <2>1. \A q \in Reqs : \A p \in Owners :
             \/ call'[q].made[p] = call[q].made[p]
             \/ q = r /\ p = o /\ call'[q].made[p] = n
      BY <1>5, <1>10
    <2> QED
      BY <1>4, <1>6, <2>1 DEF OrderInv, IdsDistinct
  <1>13. CreatedOK(r)'
    BY <1>1, <1>3, <1>6, <1>10 DEF OrderOK, CreatedOK, IdOf
  <1>14. HeldAreSides(r)'
    <2>1. o \in Sides(r)
      BY <1>1, <1>2 DEF OrderOK, EnsureOrdered
    <2> QED
      BY <1>1, <1>5, <1>10, <2>1 DEF OrderOK, HeldAreSides, Sides, Moved
  <1>15. /\ Sides(r)' = Sides(r) /\ Sides(r) \subseteq Owners
         /\ Owners \subseteq Nat
    BY <1>1, <1>5, Amounted, OwnersFinite DEF Sides, Moved, CallOK
  \* Every side that has been looked at has an id, and is below the others.
  <1>16. /\ \A p \in Sides(r) \ call'[r].todo : IdOf(r, p)' # 0
         /\ \A p \in Sides(r) \ call'[r].todo : \A q \in call'[r].todo : p < q
         /\ call'[r].todo \subseteq Sides(r)
    <2>1. ASSUME NEW p \in Sides(r), p \notin call'[r].todo
          PROVE  IdOf(r, p)' # 0
      <3>1. CASE p = o
        BY <1>3, <1>6, <1>10, <3>1 DEF IdOf
      <3>2. CASE p # o
        <4>1. p \in Owners /\ IdOf(r, p) # 0
          BY <1>1, <1>5, <1>15, <2>1, <3>2 DEF OrderOK, EnsureOrdered
        <4> QED
          BY <1>6, <1>10, <3>2, <4>1 DEF IdOf
      <3> QED
        BY <3>1, <3>2
    <2>2. ASSUME NEW p \in Sides(r), p \notin call'[r].todo, NEW q \in call'[r].todo
          PROVE  p < q
      <3>1. q \in call[r].todo /\ q # o /\ q \in Nat /\ p \in Nat /\ o \in Nat
        BY <1>1, <1>5, <1>15, <2>2 DEF OrderOK, EnsureOrdered
      <3>2. CASE p = o
        BY <1>2, <3>1, <3>2
      <3>3. CASE p # o
        BY <1>1, <1>5, <2>2, <3>1, <3>3 DEF OrderOK, EnsureOrdered
      <3> QED
        BY <3>2, <3>3
    <2> QED
      BY <1>1, <1>5, <2>1, <2>2 DEF OrderOK, EnsureOrdered
  \* So far it holds only wallets that it created.
  <1>17. \A p \in Owners : accountLock'[p] = r => account'[p] = 0 /\ call'[r].made[p] # 0
                                                  /\ p \notin call'[r].todo
    BY <1>1, <1>3, <1>5, <1>6, <1>10 DEF OrderOK, EnsureOrdered, CreatedOK
  <1>18. EnsureOrdered(r)'
    BY <1>15, <1>16, <1>17 DEF EnsureOrdered
  <1>19. LocksOrdered(r)'
    <2>1. at'[r] = "lock" => call'[r].todo = {}
      BY <1>5, <1>7
    <2> QED
      BY <1>15, <1>16, <1>17, <2>1 DEF LocksOrdered
  <1> QED
    BY <1>11, <1>12, <1>13, <1>14, <1>18, <1>19, OrderStep DEF OrderOK

\* Rows are locked in the order of their ids.
LEMMA LockAccountOrdered ==
    ASSUME IInv, OrderInv, NEW r \in Reqs, LockAccount(r)
    PROVE  OrderInv'
  <1>1. /\ at[r] = "lock" /\ TypeOK /\ Moved(r) \in Movement /\ OrderOK(r)
        /\ UNCHANGED <<account, ledger, postings, keyLock, call, calls, answers>>
    BY DEF IInv, RequestOK, CallOK, LockAccount, OrderInv, tables
  <1>2. CASE ToLock(r) = {}
    <2>1. Advance(r, "find") /\ UNCHANGED accountLock
      BY <1>2 DEF LockAccount
    <2>2. at'[r] = "find" /\ \A q \in Reqs \ {r} : at'[q] = at[q]
      BY <1>1, <2>1 DEF TypeOK, Advance
    <2>3. Moves(r)
      BY <1>1, <2>1, <2>2 DEF Moves
    <2> QED
      BY <1>1, <2>1, <2>2, <2>3, LaterOrdered
  <1>3. CASE ToLock(r) # {}
    <2>1. PICK o \in Owners : /\ o = NextAccount(r) /\ o \in ToLock(r)
                              /\ \A p \in ToLock(r) : IdOf(r, o) <= IdOf(r, p)
      BY <1>1, <1>3, NextAccountListed
    <2>2. /\ accountLock[o] = None /\ accountLock' = [accountLock EXCEPT ![o] = r]
          /\ UNCHANGED at
      BY <1>3, <2>1 DEF LockAccount
    <2>3. accountLock'[o] = r /\ \A p \in Owners \ {o} : accountLock'[p] = accountLock[p]
      BY <1>1, <2>2 DEF TypeOK
    <2>4. Apart(r)
      BY <1>1, <2>2, <2>3 DEF Apart
    <2>5. IdsDistinct'
      BY <1>1 DEF OrderInv, IdsDistinct
    <2>6. Sides(r) \subseteq Owners /\ Sides(r)' = Sides(r) /\ o \in Sides(r)
      BY <1>1, <2>1, Amounted DEF Sides, Moved, ToLock
    <2>7. \A p \in Owners : IdOf(r, p)' = IdOf(r, p)
      BY <1>1 DEF IdOf
    <2>8. CreatedOK(r)'
      BY <1>1, <2>2, <2>3, <2>6, <2>7 DEF OrderOK, CreatedOK, LocksOrdered
    <2>9. HeldAreSides(r)'
      BY <1>1, <2>3, <2>6 DEF OrderOK, HeldAreSides
    <2>10. EnsureOrdered(r)'
      BY <1>1, <2>2 DEF EnsureOrdered
    <2>11. \A p \in Sides(r) :
              accountLock[p] # r => IdOf(r, p) = account[p] /\ account[p] # 0 /\ p \in ToLock(r)
      BY <1>1, <2>6 DEF OrderOK, CreatedOK, LocksOrdered, IdOf, ToLock, Sides
    <2>12. ASSUME NEW p \in Sides(r), accountLock'[p] # r
           PROVE  account[o] < account[p]
      <3>1. p # o /\ p \in Owners /\ accountLock[p] # r /\ accountLock[o] # r
        BY <2>2, <2>3, <2>6, <2>12
      <3>2. account[o] <= account[p] /\ account[o] # account[p]
        BY <2>1, <2>6, <2>11, <3>1 DEF OrderInv, IdsDistinct
      <3>3. account[o] \in Nat /\ account[p] \in Nat
        BY <1>1, <3>1 DEF TypeOK
      <3> QED
        BY <3>2, <3>3
    <2>13. LocksOrdered(r)'
      <3>1. ASSUME NEW a \in Sides(r), accountLock'[a] = r, account[a] # 0,
                   NEW p \in Sides(r), accountLock'[p] # r
            PROVE  account[a] < account[p]
        <4>1. CASE a = o
          BY <2>12, <3>1, <4>1
        <4>2. CASE a # o
          BY <1>1, <2>3, <2>6, <3>1, <4>2 DEF OrderOK, LocksOrdered
        <4> QED
          BY <4>1, <4>2
      <3>2. \A a \in Sides(r) : IdOf(r, a)' # 0
        BY <1>1, <2>6, <2>7 DEF OrderOK, LocksOrdered
      <3> QED
        BY <1>1, <2>6, <3>1, <3>2 DEF LocksOrdered
    <2> QED
      BY <2>4, <2>5, <2>8, <2>9, <2>10, <2>13, OrderStep DEF OrderOK
  <1> QED
    BY <1>2, <1>3

\* The end of a transaction, with or without its effects.
LEMMA EndOrdered ==
    ASSUME IInv, OrderInv, NEW r \in Reqs, Finish(r), CommitWallets(r) \/ UNCHANGED account
    PROVE  OrderInv'
  <1>1. CASE CommitWallets(r)
    BY <1>1, CommittedIds, OrderStep
  <1>2. CASE UNCHANGED account
    <2>1. /\ at'[r] = "idle" /\ call'[r] = Blank /\ Moves(r)
      BY FinishStep DEF IInv
    <2>2. \A o \in Owners : accountLock'[o] = IF accountLock[o] = r THEN None ELSE accountLock[o]
      BY DEF Finish
    <2>3. Apart(r)
      BY <1>2, <2>1, <2>2 DEF Apart, Moves
    <2>4. \A o \in Owners : call'[r].made[o] = 0
      BY <2>1 DEF Blank, NothingMade
    <2>5. IdsDistinct'
      BY <1>2, <2>1, <2>4, NoNewIds DEF IInv, OrderInv, Moves
    <2>6. \A o \in Owners : accountLock'[o] # r
      BY <2>2
    <2>7. OrderOK(r)'
      BY <2>1, <2>4, <2>6 DEF OrderOK, CreatedOK, EnsureOrdered, LocksOrdered, HeldAreSides
    <2> QED
      BY <2>3, <2>5, <2>7, OrderStep
  <1> QED
    BY <1>1, <1>2

\* The statements after the row locks leave wallets, rows and their order alone.
LEMMA LaterStepOrdered ==
    ASSUME IInv, OrderInv, NEW r \in Reqs,
           FindKey(r) \/ InsertKey(r) \/ InsertPostings(r) \/ Commit(r)
    PROVE  OrderInv'
  <1>1. \/ Finish(r) /\ (CommitWallets(r) \/ UNCHANGED account)
        \/ /\ UNCHANGED <<account, accountLock, call>>
           /\ \/ Advance(r, "insert") /\ UNCHANGED keyLock
              \/ /\ Advance(r, "post") /\ keyLock[Key(r)] = None
                 /\ keyLock' = [keyLock EXCEPT ![Key(r)] = r]
              \/ Advance(r, "commit") /\ UNCHANGED keyLock
    BY Zenon DEF FindKey, InsertKey, InsertPostings, Commit, Abandon, tables, locks
  <1>2. CASE Finish(r) /\ (CommitWallets(r) \/ UNCHANGED account)
    BY <1>2, EndOrdered
  <1>3. ASSUME UNCHANGED <<account, accountLock, call>>, NEW step \in Steps, Advance(r, step),
               step \notin {"ensure", "lock"},
               \A q \in Reqs \ {r} : \A k \in Keys : keyLock[k] = q => keyLock'[k] = q
        PROVE  OrderInv'
    <2>1. at'[r] = step /\ \A q \in Reqs \ {r} : at'[q] = at[q]
      BY <1>3 DEF IInv, TypeOK, Advance
    <2>2. Moves(r)
      BY <1>3, <2>1 DEF Moves
    <2> QED
      BY <1>3, <2>1, <2>2, LaterOrdered
  <1>4. keyLock' = [keyLock EXCEPT ![Key(r)] = r] /\ keyLock[Key(r)] = None =>
           \A q \in Reqs \ {r} : \A k \in Keys : keyLock[k] = q => keyLock'[k] = q
    BY DEF IInv, TypeOK
  <1> QED
    BY <1>1, <1>2, <1>3, <1>4 DEF Steps

\* At first nothing is locked and there are no ids.
LEMMA InitOrdered == Init => OrderInv
  <1> SUFFICES ASSUME Init
               PROVE  OrderInv
    OBVIOUS
  <1>1. \A r \in Reqs : call[r] = Blank /\ at[r] = "idle"
    BY DEF Init
  <1>2. \A r \in Reqs : \A o \in Owners : call[r].made[o] = 0
    BY <1>1 DEF Blank, NothingMade
  <1>3. \A o \in Owners : account[o] = 0 /\ accountLock[o] = None
    BY DEF Init, NothingMade
  <1> QED
    BY <1>1, <1>2, <1>3 DEF OrderInv, IdsDistinct, OrderOK, CreatedOK, EnsureOrdered,
       LocksOrdered, HeldAreSides

\* Every step keeps the order.
LEMMA NextOrdered == IInv /\ OrderInv /\ [Next]_vars => OrderInv'
  <1> SUFFICES ASSUME IInv, OrderInv, [Next]_vars
               PROVE  OrderInv'
    OBVIOUS
  <1>1. CASE UNCHANGED vars
    BY <1>1 DEF vars, tables, locks, OrderInv, IdsDistinct, OrderOK, CreatedOK, EnsureOrdered,
       LocksOrdered, HeldAreSides, IdOf, Sides, Moved
  <1>2. ASSUME NEW u \in Users, EnsureWallet(u)
        PROVE  OrderInv'
    BY <1>2, EnsureWalletOrdered
  <1>3. ASSUME NEW r \in Reqs, Transfer(r)
        PROVE  OrderInv'
    <2>1. PICK k \in Keys, from \in Users, to \in Users, amount \in Amounts :
             Begin(r, k, [kind |-> "transfer", from |-> from, to |-> to, amount |-> amount])
      BY <1>3 DEF Transfer
    <2> DEFINE x == [kind |-> "transfer", from |-> from, to |-> to, amount |-> amount]
    <2>2. x \in Movement /\ Begin(r, k, x)
      BY <2>1 DEF Movement, Owners
    <2> HIDE DEF x
    <2> QED
      BY <2>2, BeginOrdered
  <1>4. ASSUME NEW r \in Reqs, Mint(r)
        PROVE  OrderInv'
    <2>1. PICK k \in Keys, to \in Users, amount \in Amounts :
             Begin(r, k, [kind |-> "mint", from |-> Treasury, to |-> to, amount |-> amount])
      BY <1>4 DEF Mint
    <2> DEFINE x == [kind |-> "mint", from |-> Treasury, to |-> to, amount |-> amount]
    <2>2. x \in Movement /\ Begin(r, k, x)
      BY <2>1 DEF Movement, Owners
    <2> HIDE DEF x
    <2> QED
      BY <2>2, BeginOrdered
  <1>5. ASSUME NEW r \in Reqs, CreateWallet(r) \/ LockAccount(r)
        PROVE  OrderInv'
    BY <1>5, CreateWalletOrdered, LockAccountOrdered
  <1>6. ASSUME NEW r \in Reqs,
               FindKey(r) \/ InsertKey(r) \/ InsertPostings(r) \/ Commit(r) \/ Rollback(r)
        PROVE  OrderInv'
    BY <1>6, LaterStepOrdered, EndOrdered DEF Rollback, Abandon, tables
  <1> QED
    BY <1>1, <1>2, <1>3, <1>4, <1>5, <1>6, Zenon DEF Next, Handle

\* For any users and concurrent requests, creating wallets in user order,
\* locking rows in id order and inserting the key last keeps requests, with
\* first movements of new users among them, from waiting in a circle.
THEOREM DeadlockFree == Spec => []NoDeadlock
  <1>1. Spec => []OrderInv
    <2>1. Init /\ []IInv /\ [][Next]_vars => []OrderInv
      BY InitOrdered, NextOrdered, PTL
    <2> QED
      BY <2>1, Invariance, PTL DEF Spec
  <1> QED
    BY <1>1, OrderPreventsDeadlock, Invariance, PTL
=============================================================================
