--------------------------- MODULE ContractLedger ---------------------------
(***************************************************************************)
(* What the settlement code promises, whatever tasks compete for it: a     *)
(* contract is opened once, and its result then reaches the balance and    *)
(* the risk ledger together, once, and some day.                           *)
(***************************************************************************)
EXTENDS Naturals

CONSTANT Contracts

VARIABLES
  open,     \* contracts bought whose result is awaited
  balance,  \* times each result reached the balance
  risk      \* times each result reached the risk ledger

Init ==
  /\ open = {}
  /\ balance = [c \in Contracts |-> 0]
  /\ risk = [c \in Contracts |-> 0]

Open(c) ==
  /\ c \notin open
  /\ balance[c] = 0
  /\ open' = open \union {c}
  /\ UNCHANGED <<balance, risk>>

Settle(c) ==
  /\ c \in open
  /\ open' = open \ {c}
  /\ balance' = [balance EXCEPT ![c] = @ + 1]
  /\ risk' = [risk EXCEPT ![c] = @ + 1]

Next == \E c \in Contracts : Open(c) \/ Settle(c)

EveryResultArrives == \A c \in Contracts : c \in open ~> c \notin open

Safety == Init /\ [][Next]_<<open, balance, risk>>

Spec == Safety /\ EveryResultArrives
=============================================================================
