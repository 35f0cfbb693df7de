-------------------------------- MODULE Bank --------------------------------
(***************************************************************************)
(* What the ledger promises to its callers, whatever its transactions do   *)
(* concurrently: one balance per account, and movements that are atomic,   *)
(* carry a key that is used once, and never overdraw a user.               *)
(***************************************************************************)
EXTENDS Integers

CONSTANTS Users, Treasury, Amounts, Keys, None

VARIABLES
    balance,    \* account owner -> balance
    done        \* key -> the movement made under it, None before

Move(key, kind, from, to, amount) ==
    /\ done[key] = None
    /\ done' = [done EXCEPT ![key] = [kind |-> kind, from |-> from, to |-> to,
                                      amount |-> amount]]
    /\ balance' = [balance EXCEPT ![from] = @ - amount, ![to] = @ + amount]

Transfer ==
    \E key \in Keys, from, to \in Users, amount \in Amounts :
        /\ from # to
        /\ balance[from] >= amount
        /\ Move(key, "transfer", from, to, amount)

Mint ==
    \E key \in Keys, to \in Users, amount \in Amounts :
        Move(key, "mint", Treasury, to, amount)

Init ==
    /\ balance = [o \in Users \cup {Treasury} |-> 0]
    /\ done = [key \in Keys |-> None]

Next == Transfer \/ Mint

Spec == Init /\ [][Next]_<<balance, done>>
=============================================================================
