------------------------------- MODULE MCWallet -------------------------------
(***************************************************************************)
(* Instances of WalletLedger for TLC.  A run starts from a small set of    *)
(* books instead of empty tables, so that few requests reach the           *)
(* interesting cases; every one of them is reached from empty tables by    *)
(* the same requests.                                                      *)
(***************************************************************************)
EXTENDS WalletLedger, TLC

CONSTANTS
  h1, h2,          \* handlers
  m1, m2,          \* months
  k1, k2,          \* their keys
  i1, i2,          \* income items
  a1, a2, a3, a4,  \* allocations
  t1, t2, t3, t4, t5,  \* transactions
  Populated        \* whether the run starts with income and a transaction

MCBalances == {3}

(* Every month open, with two allocations, in different months if there   *)
(* are two; in a populated start also an income item of 2 and a            *)
(* transaction of 2 on the first allocation.                               *)
Home(a) == IF a = a2 /\ m2 \in MonthIds THEN m2 ELSE m1
StartMonths == [m \in MonthIds |-> [key |-> IF m = m1 THEN k1 ELSE k2, opening |-> 2,
                                   wallet |-> 2, status |-> "open", closedWallet |-> None]]
StartAllocs == [a \in {a1, a2} |-> [month |-> Home(a), budget |-> 0, name |-> "plain"]]
StartIncomes == IF Populated THEN i1 :> [month |-> m1, amount |-> 2] ELSE <<>>
StartTxns ==
  IF Populated
  THEN t1 :> [month |-> m1, alloc |-> a1, amount |-> 2, kind |-> "spend",
              source |-> "manual", parent |-> None]
  ELSE <<>>

MCInit ==
  /\ months = StartMonths
  /\ incomes = StartIncomes
  /\ allocs = StartAllocs
  /\ txns = StartTxns
  /\ split = <<>>
  /\ updates = {}
  /\ jobs = [h \in Handlers |-> Idle]
  /\ received = 0

MCSpec == MCInit /\ [][Next]_vars

(* Ids of a kind and handlers are interchangeable but for the start.       *)
Symmetry ==
  Permutations(Handlers) \cup Permutations(TxnIds \ DOMAIN StartTxns)
    \cup Permutations(AllocIds \ DOMAIN StartAllocs)
===============================================================================
