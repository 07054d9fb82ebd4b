----------------------------- MODULE WalletLedger -----------------------------
(***************************************************************************)
(* The wallet's ledger: the tables wallet_months, wallet_income_items,     *)
(* wallet_allocations, wallet_transactions, wallet_transaction_splits and  *)
(* wallet_balance_updates, and the HTTP handlers that change them          *)
(* (internal/wallet/repository.go, splits.go, reconciliation.go,           *)
(* reports.go).                                                            *)
(*                                                                         *)
(* SQLite is opened with one connection, so every statement and every      *)
(* db.Tx body is atomic; but a handler reads with some statements, checks  *)
(* with others and writes with a last one, and other handlers run between  *)
(* them.  A request in flight is a job: what the request asked for, what   *)
(* its handler has read so far, and the checks it still has to make before *)
(* it may write.                                                           *)
(***************************************************************************)
EXTENDS Integers, Sequences, FiniteSets, FiniteSetsExt, Functions

CONSTANTS
  Handlers,      \* the goroutines that serve requests
  MonthIds,      \* the ids shared.NewID can give a month,
  IncomeIds,     \* an income item,
  AllocIds,      \* an allocation
  TxnIds,        \* and a transaction
  MonthKeys,     \* the YYYY-MM keys
  Amounts,       \* the amounts, in cents, that a request may carry
  Budgets,       \* the budgets it may carry
  Names,         \* the names it may give an allocation
  Balances,      \* the balances it may carry
  MaxSplitRows,  \* the most rows a split may have (20 in the code)
  MaxRequests,   \* bound of the model: requests served in a behaviour
  None           \* SQL's NULL

ASSUME AmountsAssumption ==
  /\ Amounts \subseteq Nat \ {0}
  /\ Budgets \subseteq Nat
  /\ Balances \subseteq Int
  /\ Names \subseteq {"plain", "reconciliation"}
  /\ MaxSplitRows \in Nat
  /\ MaxRequests \in Nat
ASSUME FiniteIdsAssumption ==
  IsFiniteSet(IncomeIds) /\ IsFiniteSet(AllocIds) /\ IsFiniteSet(TxnIds)
ASSUME NoneAssumption ==
  None \notin Int \cup MonthIds \cup IncomeIds \cup AllocIds \cup TxnIds

VARIABLES
  months,    \* month id -> its row
  incomes,   \* income id -> its row
  allocs,    \* allocation id -> its row
  txns,      \* transaction id -> its row
  split,     \* wallet_transaction_splits: child id -> parent id
  updates,   \* the rows of wallet_balance_updates
  jobs,      \* handler -> the request it is serving
  received   \* the number of requests accepted so far

tables == <<months, incomes, allocs, txns, split, updates>>
vars == <<months, incomes, allocs, txns, split, updates, jobs, received>>

-----------------------------------------------------------------------------
(* Rows and requests.                                                      *)

MonthRow == [key : MonthKeys, opening : Int, wallet : Int,
             status : {"open", "closed"}, closedWallet : Int \cup {None}]
IncomeRow == [month : MonthIds, amount : Nat]
(* Of an allocation's name only this matters: is it the one that           *)
(* reconciliations look for?  Nothing keeps a user from giving that name,  *)
(* or from renaming the allocation that has it.                            *)
AllocNames == {"plain", "reconciliation"}
AllocRow == [month : MonthIds, budget : Nat, name : AllocNames]
TxnRow == [month : MonthIds, alloc : AllocIds, amount : Nat,
           kind : {"spend", "income"},
           source : {"manual", "split", "reconciliation"},
           parent : TxnIds \cup {None}]
UpdateRow == [month : MonthIds, previous : Int, new : Int]

Part == [alloc : AllocIds, amount : Amounts]
Check == [check : {"open", "children", "alloc"}, alloc : AllocIds \cup {None}]
Ops == {"idle", "UpdateMonth", "DeleteMonth", "CloseMonth", "ReopenMonth",
        "CreateIncome", "UpdateIncome", "DeleteIncome",
        "CreateAllocation", "UpdateAllocation", "DeleteAllocation",
        "CreateTransaction", "UpdateTransaction", "DeleteTransaction",
        "SplitTransaction", "CreateBalanceUpdate"}
Job == [op : Ops,
        month : MonthIds \cup {None},                          \* month_id
        row : IncomeIds \cup AllocIds \cup TxnIds \cup {None},  \* the id in the URL
        alloc : AllocIds \cup {None},   \* allocation_id to write
        name : AllocNames,              \* allocation name to write
        amount : Int,                   \* amount, budget or balance to write
        opening : Int,                  \* opening balance to write
        was : Int,                      \* the amount or balance read
        relevant : BOOLEAN,             \* balanceRelevant, as read so far
        parts : Seq(Part),              \* the rows of a split
        todo : Seq(Check)]              \* the checks still to make

Idle == [op |-> "idle", month |-> None, row |-> None, alloc |-> None,
         name |-> "plain", amount |-> 0, opening |-> 0, was |-> 0, relevant |-> FALSE,
         parts |-> <<>>, todo |-> <<>>]

MonthOpen == <<[check |-> "open", alloc |-> None]>>
NoChildren == <<[check |-> "children", alloc |-> None]>>
Belongs(a) == <<[check |-> "alloc", alloc |-> a]>>

OpenMonths == {m \in DOMAIN months : months[m].status = "open"}

(* shared.NewID never returns an id twice: not one in a table, not one     *)
(* that a request in flight still holds.                                   *)
FreshMonths == {m \in MonthIds \ DOMAIN months : \A h \in Handlers : jobs[h].month # m}
FreshIncomes == {i \in IncomeIds \ DOMAIN incomes : \A h \in Handlers : jobs[h].row # i}
FreshAllocs ==
  {a \in AllocIds \ DOMAIN allocs :
     \A h \in Handlers : /\ jobs[h].row # a
                         /\ jobs[h].alloc # a
                         /\ \A i \in DOMAIN jobs[h].parts : jobs[h].parts[i].alloc # a}
FreshTxns == {t \in TxnIds \ DOMAIN txns : \A h \in Handlers : jobs[h].row # t}

Put(f, k, v) == [x \in DOMAIN f \cup {k} |-> IF x = k THEN v ELSE f[x]]
Without(f, dead) == Restrict(f, DOMAIN f \ dead)

SplitChildren(t) == {c \in DOMAIN split : split[c] = t}
AmountOf(ts) == SumFunctionOnSet([t \in DOMAIN txns |-> txns[t].amount], ts)

-----------------------------------------------------------------------------
(* Steps that every handler is made of.                                    *)

(* A request arrives and its handler makes its first read; the read is     *)
(* what fills in the job.                                                  *)
Accept(h, job) ==
  /\ jobs[h] = Idle
  /\ received < MaxRequests
  /\ received' = received + 1
  /\ jobs' = [jobs EXCEPT ![h] = job]
  /\ UNCHANGED tables

Passed(h) ==
  /\ jobs' = [jobs EXCEPT ![h].todo = Tail(@)]
  /\ UNCHANGED <<tables, received>>

NextCheckIs(h, c) == jobs[h].todo # <<>> /\ Head(jobs[h].todo).check = c

EnsureMonthOpen(h) ==
  /\ NextCheckIs(h, "open")
  /\ jobs[h].month \in OpenMonths
  /\ Passed(h)

(* Mutant: the allocation exists, in whatever month.                       *)
EnsureAllocationExists(h) ==
  /\ NextCheckIs(h, "alloc")
  /\ Head(jobs[h].todo).alloc \in DOMAIN allocs
  /\ Passed(h)

EnsureAllocationBelongsToMonth(h) ==
  LET a == Head(jobs[h].todo).alloc IN
  /\ NextCheckIs(h, "alloc")
  /\ a \in DOMAIN allocs
  /\ allocs[a].month = jobs[h].month
  /\ Passed(h)

(* The same question, asked by UpdateTransaction to learn whether the edit *)
(* moves the balance, and by SplitTransaction to refuse a second split.    *)
TransactionHasSplitChildren(h) ==
  /\ NextCheckIs(h, "children")
  /\ \/ /\ jobs[h].op = "UpdateTransaction"
        /\ jobs' = [jobs EXCEPT ![h].todo = Tail(@),
                                ![h].relevant = SplitChildren(jobs[h].row) = {}]
        /\ UNCHANGED <<tables, received>>
     \/ /\ jobs[h].op = "SplitTransaction"
        /\ SplitChildren(jobs[h].row) = {}
        /\ Passed(h)

(* A request in flight is refused: a check fails, the row it is about is   *)
(* gone, a foreign key rolls its transaction back, or its context is       *)
(* cancelled.  Nothing is written.                                         *)
Refuse(h) ==
  /\ jobs[h] # Idle
  /\ jobs' = [jobs EXCEPT ![h] = Idle]
  /\ UNCHANGED <<tables, received>>

(* All checks made: the handler writes, and answers.                       *)
Writes(h, op) == jobs[h].op = op /\ jobs[h].todo = <<>>
Answer(h) == jobs' = [jobs EXCEPT ![h] = Idle] /\ UNCHANGED received

ApplyWalletBalanceDelta(m, delta) ==
  /\ delta = 0 \/ m \in DOMAIN months
  /\ months' = [months EXCEPT ![m].wallet = @ + delta]

(* Mutant: children left behind keep the parent that is gone.              *)
DeleteTxnRowsAlone(dead) ==
  /\ txns' = Without(txns, dead)
  /\ split' = Without(split, {c \in DOMAIN split : c \in dead \/ split[c] \in dead})

(* ON DELETE CASCADE of the split links, SET NULL of the children left.    *)
DeleteTxnRows(dead) ==
  /\ txns' = [t \in DOMAIN txns \ dead |->
                IF txns[t].parent \in dead
                THEN [txns[t] EXCEPT !.parent = None] ELSE txns[t]]
  /\ split' = Without(split, {c \in DOMAIN split : c \in dead \/ split[c] \in dead})

-----------------------------------------------------------------------------
(* Months.                                                                 *)

(* The row and everything prepared for it go in with one transaction, and  *)
(* UNIQUE(month) decides a race: the handler's earlier look for the key    *)
(* only refuses sooner.  Without wallet_balance_cents the balance starts   *)
(* at the opening balance plus the prepared income.                        *)
CreateMonth(h) ==
  \E m \in FreshMonths, key \in MonthKeys, opening \in Balances,
     given \in Balances \cup {None}, I \in SUBSET FreshIncomes, A \in SUBSET FreshAllocs :
  \E amount \in [I -> Amounts \cup {0}], budget \in [A -> Budgets], name \in [A -> Names] :
    /\ jobs[h] = Idle
    /\ received < MaxRequests
    /\ received' = received + 1
    /\ \A n \in DOMAIN months : months[n].key # key
    /\ months' = Put(months, m,
                   [key |-> key, opening |-> opening,
                    wallet |-> IF given = None THEN opening + SumFunction(amount) ELSE given,
                    status |-> "open", closedWallet |-> None])
    /\ incomes' = [i \in DOMAIN incomes \cup I |->
                     IF i \in I THEN [month |-> m, amount |-> amount[i]] ELSE incomes[i]]
    /\ allocs' = [a \in DOMAIN allocs \cup A |->
                    IF a \in A THEN [month |-> m, budget |-> budget[a], name |-> name[a]]
                    ELSE allocs[a]]
    /\ UNCHANGED <<txns, split, updates, jobs>>

(* Both balances are written, the one the patch leaves out as it was read. *)
ReceiveUpdateMonth(h) ==
  \E m \in OpenMonths :
  \E opening \in Balances \cup {months[m].opening},
     wallet \in Balances \cup {months[m].wallet} :
    Accept(h, [Idle EXCEPT !.op = "UpdateMonth", !.month = m, !.opening = opening,
                           !.amount = wallet, !.was = months[m].wallet])

UpdateMonth(h) ==
  LET j == jobs[h] IN
  /\ Writes(h, "UpdateMonth")
  /\ j.month \in DOMAIN months
  /\ months' = [months EXCEPT ![j.month].opening = j.opening,
                              ![j.month].wallet = j.amount]
  /\ Answer(h)
  /\ UNCHANGED <<incomes, allocs, txns, split, updates>>

ReceiveDeleteMonth(h) ==
  \E m \in DOMAIN months : Accept(h, [Idle EXCEPT !.op = "DeleteMonth", !.month = m])

DeleteMonth(h) ==
  LET m == jobs[h].month IN
  /\ Writes(h, "DeleteMonth")
  /\ m \in DOMAIN months
  /\ months' = Without(months, {m})
  /\ incomes' = Without(incomes, {i \in DOMAIN incomes : incomes[i].month = m})
  /\ allocs' = Without(allocs, {a \in DOMAIN allocs : allocs[a].month = m})
  /\ DeleteTxnRows({t \in DOMAIN txns : \/ txns[t].month = m
                                        \/ allocs[txns[t].alloc].month = m})
  /\ updates' = {u \in updates : u.month # m}
  /\ Answer(h)

(* Closing a closed month and opening an open one answer without a write.  *)
ReceiveCloseMonth(h) ==
  \E m \in OpenMonths : Accept(h, [Idle EXCEPT !.op = "CloseMonth", !.month = m,
                                               !.was = months[m].wallet])

CloseMonth(h) ==
  LET j == jobs[h] IN
  /\ Writes(h, "CloseMonth")
  /\ j.month \in DOMAIN months
  /\ months' = [months EXCEPT ![j.month].status = "closed",
                              ![j.month].closedWallet = j.was]
  /\ Answer(h)
  /\ UNCHANGED <<incomes, allocs, txns, split, updates>>

ReceiveReopenMonth(h) ==
  \E m \in DOMAIN months \ OpenMonths :
    Accept(h, [Idle EXCEPT !.op = "ReopenMonth", !.month = m])

ReopenMonth(h) ==
  LET m == jobs[h].month IN
  /\ Writes(h, "ReopenMonth")
  /\ m \in DOMAIN months
  /\ months' = [months EXCEPT ![m].status = "open", ![m].closedWallet = None]
  /\ Answer(h)
  /\ UNCHANGED <<incomes, allocs, txns, split, updates>>

-----------------------------------------------------------------------------
(* Income items.                                                           *)

ReceiveCreateIncome(h) ==
  \E m \in OpenMonths, amount \in Amounts \cup {0} :
    Accept(h, [Idle EXCEPT !.op = "CreateIncome", !.month = m, !.amount = amount])

CreateIncome(h) ==
  \E i \in FreshIncomes :
    LET j == jobs[h] IN
    /\ Writes(h, "CreateIncome")
    /\ j.month \in DOMAIN months
    /\ incomes' = Put(incomes, i, [month |-> j.month, amount |-> j.amount])
    /\ ApplyWalletBalanceDelta(j.month, j.amount)
    /\ Answer(h)
    /\ UNCHANGED <<allocs, txns, split, updates>>

ReceiveUpdateIncome(h) ==
  \E i \in DOMAIN incomes :
  \E amount \in Amounts \cup {0, incomes[i].amount} :
    Accept(h, [Idle EXCEPT !.op = "UpdateIncome", !.month = incomes[i].month, !.row = i,
                           !.amount = amount, !.was = incomes[i].amount,
                           !.todo = MonthOpen])

UpdateIncome(h) ==
  LET j == jobs[h] IN
  /\ Writes(h, "UpdateIncome")
  /\ j.row \in DOMAIN incomes
  /\ incomes' = [incomes EXCEPT ![j.row].amount = j.amount]
  /\ ApplyWalletBalanceDelta(j.month, j.amount - j.was)
  /\ Answer(h)
  /\ UNCHANGED <<allocs, txns, split, updates>>

(* Mutant: no ensureMonthOpen.                                             *)
ReceiveDeleteIncomeOfAnyMonth(h) ==
  \E i \in DOMAIN incomes :
    Accept(h, [Idle EXCEPT !.op = "DeleteIncome", !.month = incomes[i].month, !.row = i,
                           !.was = incomes[i].amount])

ReceiveDeleteIncome(h) ==
  \E i \in DOMAIN incomes :
    Accept(h, [Idle EXCEPT !.op = "DeleteIncome", !.month = incomes[i].month, !.row = i,
                           !.was = incomes[i].amount, !.todo = MonthOpen])

DeleteIncome(h) ==
  LET j == jobs[h] IN
  /\ Writes(h, "DeleteIncome")
  /\ j.row \in DOMAIN incomes
  /\ incomes' = Without(incomes, {j.row})
  /\ ApplyWalletBalanceDelta(j.month, -j.was)
  /\ Answer(h)
  /\ UNCHANGED <<allocs, txns, split, updates>>

-----------------------------------------------------------------------------
(* Allocations.                                                            *)

ReceiveCreateAllocation(h) ==
  \E m \in OpenMonths, budget \in Budgets, name \in Names :
    Accept(h, [Idle EXCEPT !.op = "CreateAllocation", !.month = m, !.amount = budget,
                           !.name = name])

CreateAllocation(h) ==
  \E a \in FreshAllocs :
    LET j == jobs[h] IN
    /\ Writes(h, "CreateAllocation")
    /\ j.month \in DOMAIN months
    /\ allocs' = Put(allocs, a,
                     [month |-> j.month, budget |-> j.amount, name |-> j.name])
    /\ Answer(h)
    /\ UNCHANGED <<months, incomes, txns, split, updates>>

(* Name and budget are both written, what the patch leaves out as read.    *)
ReceiveUpdateAllocation(h) ==
  \E a \in DOMAIN allocs :
  \E budget \in Budgets \cup {allocs[a].budget}, name \in Names \cup {allocs[a].name} :
    Accept(h, [Idle EXCEPT !.op = "UpdateAllocation", !.month = allocs[a].month, !.row = a,
                           !.amount = budget, !.name = name, !.todo = MonthOpen])

UpdateAllocation(h) ==
  LET j == jobs[h] IN
  /\ Writes(h, "UpdateAllocation")
  /\ j.row \in DOMAIN allocs
  /\ allocs' = [allocs EXCEPT ![j.row].budget = j.amount, ![j.row].name = j.name]
  /\ Answer(h)
  /\ UNCHANGED <<months, incomes, txns, split, updates>>

ReceiveDeleteAllocation(h) ==
  \E a \in DOMAIN allocs :
    Accept(h, [Idle EXCEPT !.op = "DeleteAllocation", !.month = allocs[a].month,
                           !.row = a, !.todo = MonthOpen])

(* The allocation's transactions go with it, and no balance is touched.    *)
DeleteAllocation(h) ==
  LET a == jobs[h].row IN
  /\ Writes(h, "DeleteAllocation")
  /\ a \in DOMAIN allocs
  /\ allocs' = Without(allocs, {a})
  /\ DeleteTxnRows({t \in DOMAIN txns : txns[t].alloc = a})
  /\ Answer(h)
  /\ UNCHANGED <<months, incomes, updates>>

-----------------------------------------------------------------------------
(* Transactions and their splits.                                          *)

(* Mutant: no ensureAllocationBelongsToMonth.                              *)
ReceiveCreateTransactionAnywhere(h) ==
  \E m \in OpenMonths, a \in AllocIds, amount \in Amounts :
    Accept(h, [Idle EXCEPT !.op = "CreateTransaction", !.month = m, !.alloc = a,
                           !.amount = amount])

ReceiveCreateTransaction(h) ==
  \E m \in OpenMonths, a \in AllocIds, amount \in Amounts :
    Accept(h, [Idle EXCEPT !.op = "CreateTransaction", !.month = m, !.alloc = a,
                           !.amount = amount, !.todo = Belongs(a)])

CreateTransaction(h) ==
  \E t \in FreshTxns :
    LET j == jobs[h] IN
    /\ Writes(h, "CreateTransaction")
    /\ j.month \in DOMAIN months
    /\ j.alloc \in DOMAIN allocs
    /\ txns' = Put(txns, t, [month |-> j.month, alloc |-> j.alloc, amount |-> j.amount,
                             kind |-> "spend", source |-> "manual", parent |-> None])
    /\ ApplyWalletBalanceDelta(j.month, -j.amount)
    /\ Answer(h)
    /\ UNCHANGED <<incomes, allocs, split, updates>>

(* Mutants: every transaction taken for spending.                          *)
EditDeltaOfSpend(kind, before, after) == before - after
DeleteDeltaOfSpend(kind, amount) == amount

TransactionEditBalanceDelta(kind, before, after) ==
  IF kind = "income" THEN after - before ELSE before - after
TransactionDeleteBalanceDelta(kind, amount) ==
  IF kind = "income" THEN -amount ELSE amount

(* Mutant: no ensureMonthOpen.                                             *)
UpdateChecksOfAnyMonth(t, patch, a) ==
  (IF txns[t].parent = None THEN NoChildren ELSE <<>>)
    \o (IF "allocation" \in patch THEN Belongs(a) ELSE <<>>)

UpdateChecks(t, patch, a) ==
  MonthOpen \o (IF txns[t].parent = None THEN NoChildren ELSE <<>>)
            \o (IF "allocation" \in patch THEN Belongs(a) ELSE <<>>)

(* A split child keeps its amount; allocation and amount are written       *)
(* whether the patch has them or not.                                      *)
ReceiveUpdateTransaction(h) ==
  \E t \in DOMAIN txns, patch \in SUBSET {"amount", "allocation"} :
  \E amount \in IF "amount" \in patch THEN Amounts ELSE {txns[t].amount},
     a \in IF "allocation" \in patch THEN AllocIds ELSE {txns[t].alloc} :
    /\ "amount" \in patch => txns[t].parent = None
    /\ Accept(h, [Idle EXCEPT !.op = "UpdateTransaction", !.month = txns[t].month,
                              !.row = t, !.alloc = a, !.amount = amount,
                              !.was = txns[t].amount,
                              !.relevant = txns[t].parent = None,
                              !.todo = UpdateChecks(t, patch, a)])

UpdateTransaction(h) ==
  LET j == jobs[h] IN
  /\ Writes(h, "UpdateTransaction")
  /\ j.row \in DOMAIN txns
  /\ j.alloc \in DOMAIN allocs
  /\ txns' = [txns EXCEPT ![j.row].alloc = j.alloc, ![j.row].amount = j.amount]
  /\ ApplyWalletBalanceDelta(j.month,
       IF j.relevant
       THEN TransactionEditBalanceDelta(txns[j.row].kind, j.was, j.amount) ELSE 0)
  /\ Answer(h)
  /\ UNCHANGED <<incomes, allocs, split, updates>>

ReceiveDeleteTransaction(h) ==
  \E t \in DOMAIN txns :
    /\ txns[t].parent = None
    /\ Accept(h, [Idle EXCEPT !.op = "DeleteTransaction", !.month = txns[t].month,
                              !.row = t, !.was = txns[t].amount, !.todo = MonthOpen])

(* Children are looked up inside the transaction, the amount of a          *)
(* transaction without children is the one read before it.                 *)
DeleteTransaction(h) ==
  LET j == jobs[h]
      children == SplitChildren(j.row)
  IN
  /\ Writes(h, "DeleteTransaction")
  /\ j.row \in DOMAIN txns
  /\ DeleteTxnRows(children \cup {j.row})
  /\ ApplyWalletBalanceDelta(j.month,
       IF children = {}
       THEN TransactionDeleteBalanceDelta(txns[j.row].kind, j.was)
       ELSE AmountOf(children))
  /\ Answer(h)
  /\ UNCHANGED <<incomes, allocs, updates>>

SplitInputs(total) ==
  {parts \in UNION {[1..n -> [alloc : AllocIds, amount : Amounts]] : n \in 2..MaxSplitRows} :
     SumFunction([i \in DOMAIN parts |-> parts[i].amount]) = total}

(* Mutant: income and reconciliations may be split like spending.          *)
ReceiveSplitOfAnyKind(h) ==
  \E t \in DOMAIN txns :
  \E parts \in SplitInputs(txns[t].amount) :
    /\ txns[t].parent = None
    /\ Accept(h, [Idle EXCEPT !.op = "SplitTransaction", !.month = txns[t].month, !.row = t,
                              !.was = txns[t].amount, !.parts = parts,
                              !.todo = MonthOpen \o NoChildren \o
                                  [i \in DOMAIN parts |-> Belongs(parts[i].alloc)[1]]])

ReceiveSplitTransaction(h) ==
  \E t \in DOMAIN txns :
  \E parts \in SplitInputs(txns[t].amount) :
    /\ txns[t].parent = None
    /\ txns[t].kind = "spend"
    /\ txns[t].source # "reconciliation"
    /\ Accept(h, [Idle EXCEPT !.op = "SplitTransaction", !.month = txns[t].month, !.row = t,
                              !.was = txns[t].amount, !.parts = parts,
                              !.todo = MonthOpen \o NoChildren \o
                                  [i \in DOMAIN parts |-> Belongs(parts[i].alloc)[1]]])

SplitTransaction(h) ==
  LET j == jobs[h] IN
  \E ids \in SUBSET FreshTxns :
  \E part \in [ids -> DOMAIN j.parts] :
    /\ Writes(h, "SplitTransaction")
    /\ part \in Bijection(ids, DOMAIN j.parts)
    /\ j.row \in DOMAIN txns
    /\ \A i \in DOMAIN j.parts : j.parts[i].alloc \in DOMAIN allocs
    /\ txns' = [t \in DOMAIN txns \cup ids |->
                  IF t \in ids
                  THEN [month |-> j.month, alloc |-> j.parts[part[t]].alloc,
                        amount |-> j.parts[part[t]].amount,
                        kind |-> "spend", source |-> "split", parent |-> j.row]
                  ELSE txns[t]]
    /\ split' = [c \in DOMAIN split \cup ids |-> IF c \in ids THEN j.row ELSE split[c]]
    /\ Answer(h)
    /\ UNCHANGED <<months, incomes, allocs, updates>>

-----------------------------------------------------------------------------
(* Reconciliation: the balance the user counted replaces the one in the    *)
(* books, and a hidden transaction accounts for the difference from the    *)
(* balance read.                                                           *)

ReceiveCreateBalanceUpdate(h) ==
  \E m \in OpenMonths, balance \in Balances :
    Accept(h, [Idle EXCEPT !.op = "CreateBalanceUpdate", !.month = m,
                           !.amount = balance, !.was = months[m].wallet])

ReconciliationAllocations(m) ==
  {a \in DOMAIN allocs : allocs[a].month = m /\ allocs[a].name = "reconciliation"}

(* Mutant: a new allocation for every reconciliation.                      *)
NewAllocationIds(m) == FreshAllocs

(* ensureReconciliationAllocation: the month's allocation of that name (of *)
(* several, one), its budget cleared, or a new one.                        *)
ReconciliationAllocationIds(m) ==
  IF ReconciliationAllocations(m) # {} THEN ReconciliationAllocations(m) ELSE FreshAllocs

(* Mutant: the sign of the difference left in.                             *)
SignedAmount(delta) == delta
ReconciliationAmount(delta) == IF delta < 0 THEN -delta ELSE delta

CreateBalanceUpdate(h) ==
  LET j == jobs[h]
      delta == j.amount - j.was
  IN
  /\ Writes(h, "CreateBalanceUpdate")
  /\ j.month \in DOMAIN months
  /\ updates' = updates \cup {[month |-> j.month, previous |-> j.was, new |-> j.amount]}
  /\ months' = [months EXCEPT ![j.month].wallet = j.amount]
  /\ Answer(h)
  /\ UNCHANGED <<incomes, split>>
  /\ \/ delta = 0 /\ UNCHANGED <<allocs, txns>>
     \/ \E a \in ReconciliationAllocationIds(j.month), t \in FreshTxns :
          /\ delta # 0
          /\ allocs' = Put(allocs, a, [month |-> j.month, budget |-> 0, name |-> "reconciliation"])
          /\ txns' = Put(txns, t,
                       [month |-> j.month, alloc |-> a,
                        amount |-> ReconciliationAmount(delta),
                        kind |-> IF delta < 0 THEN "spend" ELSE "income",
                        source |-> "reconciliation", parent |-> None])

-----------------------------------------------------------------------------
Init ==
  /\ months = <<>> /\ incomes = <<>> /\ allocs = <<>> /\ txns = <<>> /\ split = <<>>
  /\ updates = {}
  /\ jobs = [h \in Handlers |-> Idle]
  /\ received = 0

Receive(h) ==
  \/ ReceiveUpdateMonth(h) \/ ReceiveDeleteMonth(h)
  \/ ReceiveCloseMonth(h) \/ ReceiveReopenMonth(h)
  \/ ReceiveCreateIncome(h) \/ ReceiveUpdateIncome(h) \/ ReceiveDeleteIncome(h)
  \/ ReceiveCreateAllocation(h) \/ ReceiveUpdateAllocation(h) \/ ReceiveDeleteAllocation(h)
  \/ ReceiveCreateTransaction(h) \/ ReceiveUpdateTransaction(h)
  \/ ReceiveDeleteTransaction(h) \/ ReceiveSplitTransaction(h)
  \/ ReceiveCreateBalanceUpdate(h)

MakeCheck(h) ==
  \/ EnsureMonthOpen(h)
  \/ EnsureAllocationBelongsToMonth(h)
  \/ TransactionHasSplitChildren(h)

Write(h) ==
  \/ CreateMonth(h) \/ UpdateMonth(h) \/ DeleteMonth(h) \/ CloseMonth(h) \/ ReopenMonth(h)
  \/ CreateIncome(h) \/ UpdateIncome(h) \/ DeleteIncome(h)
  \/ CreateAllocation(h) \/ UpdateAllocation(h) \/ DeleteAllocation(h)
  \/ CreateTransaction(h) \/ UpdateTransaction(h) \/ DeleteTransaction(h)
  \/ SplitTransaction(h) \/ CreateBalanceUpdate(h)

Next == \E h \in Handlers : Receive(h) \/ MakeCheck(h) \/ Write(h) \/ Refuse(h)

Spec == Init /\ [][Next]_vars

-----------------------------------------------------------------------------
(* Correctness.                                                            *)

IsTable(f, ids, row) ==
  /\ f = [x \in DOMAIN f |-> f[x]]
  /\ DOMAIN f \subseteq ids
  /\ \A x \in DOMAIN f : f[x] \in row

(* Every table holds well-formed rows and every handler a well-formed job. *)
TypeOK ==
  /\ IsTable(months, MonthIds, MonthRow)
  /\ IsTable(incomes, IncomeIds, IncomeRow)
  /\ IsTable(allocs, AllocIds, AllocRow)
  /\ IsTable(txns, TxnIds, TxnRow)
  /\ IsTable(split, TxnIds, TxnIds)
  /\ updates \subseteq UpdateRow
  /\ jobs \in [Handlers -> Job]
  /\ received \in 0..MaxRequests

(* Rows hang on rows that exist, and a transaction is booked on an         *)
(* allocation of its own month, however checks, moves to another           *)
(* allocation and cascading deletes interleave.                            *)
BooksAreConnected ==
  /\ \A i \in DOMAIN incomes : incomes[i].month \in DOMAIN months
  /\ \A a \in DOMAIN allocs : allocs[a].month \in DOMAIN months
  /\ \A u \in updates : u.month \in DOMAIN months
  /\ \A t \in DOMAIN txns : /\ txns[t].alloc \in DOMAIN allocs
                            /\ allocs[txns[t].alloc].month = txns[t].month

(* A split is recorded twice: in parent_transaction_id, which guards edits *)
(* and deletes, and in wallet_transaction_splits, which decides what the   *)
(* sums count.  The two always say the same.                               *)
SplitRecordsAgree ==
  /\ \A c \in DOMAIN split : c \in DOMAIN txns /\ txns[c].parent = split[c]
  /\ \A t \in DOMAIN txns : txns[t].parent # None =>
       /\ t \in DOMAIN split
       /\ txns[t].parent \in DOMAIN txns

(* A split has one level: what was split is a whole spending transaction   *)
(* that did not come from a reconciliation, and its rows are in its month. *)
SplitsAreFlat ==
  \A c \in DOMAIN split :
    LET p == split[c] IN
    /\ p \notin DOMAIN split
    /\ txns[p].kind = "spend"
    /\ txns[p].source # "reconciliation"
    /\ txns[c].kind = "spend"
    /\ txns[c].source = "split"
    /\ txns[c].month = txns[p].month

(* Reconciliations of a month share one allocation, as long as requests    *)
(* are served one at a time and no request gives another that name.        *)
OneReconciliationAllocation ==
  \A m \in DOMAIN months : Cardinality(ReconciliationAllocations(m)) <= 1

(* The allocations a handler means to book on, and the transaction its     *)
(* request names.                                                          *)
BookedOn(j) ==
  CASE j.op \in {"CreateTransaction", "UpdateTransaction"} -> {j.alloc}
    [] j.op = "SplitTransaction" -> {j.parts[i].alloc : i \in DOMAIN j.parts}
    [] OTHER -> {}
Pending(j, a) == \E i \in DOMAIN j.todo : j.todo[i].check = "alloc" /\ j.todo[i].alloc = a
OnTransaction == {"UpdateTransaction", "DeleteTransaction", "SplitTransaction"}

JobHolds(h) ==
  LET j == jobs[h] IN
  /\ \A a \in BookedOn(j) \cap DOMAIN allocs : Pending(j, a) \/ allocs[a].month = j.month
  /\ j.op \in OnTransaction /\ j.row \in DOMAIN txns => txns[j.row].month = j.month
  /\ j.op = "SplitTransaction" /\ j.row \in DOMAIN txns =>
       /\ txns[j.row].parent = None
       /\ txns[j.row].kind = "spend"
       /\ txns[j.row].source # "reconciliation"

(* What a handler checked of rows it does not lock - the month of an       *)
(* allocation or transaction, that a transaction may be split - is still   *)
(* so when it writes, or the row is gone.                                  *)
ChecksStillHold == \A h \in Handlers : JobHolds(h)

(* The summary's figures (summary.go).  A transaction that was split is    *)
(* not visible; its rows are.                                              *)
Visible(m, kind) == {t \in DOMAIN txns : /\ txns[t].month = m
                                         /\ txns[t].kind = kind
                                         /\ SplitChildren(t) = {}}
IncomeTotal(m) ==
  SumFunctionOnSet([i \in DOMAIN incomes |-> incomes[i].amount],
                   {i \in DOMAIN incomes : incomes[i].month = m})
    + AmountOf(Visible(m, "income"))
Expected(m) == months[m].opening + IncomeTotal(m) - AmountOf(Visible(m, "spend"))
Variance(m) == months[m].wallet - Expected(m)

(* The requests that are not a posting: UpdateMonth sets the balances and  *)
(* DeleteAllocation drops transactions without giving their amounts back.  *)
Unbalanced == {"UpdateMonth", "DeleteAllocation"}

(* What the handler read and is about to rely on is no longer so.          *)
Stale(h) ==
  LET j == jobs[h] IN
  \/ j.op \in {"UpdateIncome", "DeleteIncome"} /\ incomes[j.row].amount # j.was
  \/ j.op = "DeleteTransaction" /\ txns[j.row].amount # j.was
  \/ /\ j.op = "UpdateTransaction"
     /\ \/ txns[j.row].amount # j.was
        \/ j.relevant # (txns[j.row].parent = None /\ SplitChildren(j.row) = {})
  \/ /\ j.op = "SplitTransaction"
     /\ txns[j.row].amount # j.was \/ SplitChildren(j.row) # {}
  \/ j.op = "CreateBalanceUpdate" /\ months[j.month].wallet # j.was

Answered(h) == jobs[h] # Idle /\ jobs'[h] = Idle

(* The difference between the wallet's balance and the balance the books   *)
(* expect moves only by a request that sets balances or drops an           *)
(* allocation, or by one whose handler wrote on a stale read; postings     *)
(* made of a delta never lose one another.                                 *)
VarianceMovesOnlyOnStaleReads ==
  [][\A m \in DOMAIN months \cap DOMAIN months' :
       Variance(m)' # Variance(m) =>
         \E h \in Handlers : Answered(h) /\ (jobs[h].op \in Unbalanced \/ Stale(h))]_vars

(* What a month's books hold.                                              *)
Contents(m) ==
  [opening |-> months[m].opening, wallet |-> months[m].wallet,
   incomes |-> {<<i, incomes[i]>> : i \in {n \in DOMAIN incomes : incomes[n].month = m}},
   allocs |-> {<<a, allocs[a]>> : a \in {n \in DOMAIN allocs : allocs[n].month = m}},
   txns |-> {<<t, txns[t]>> : t \in {n \in DOMAIN txns : txns[n].month = m}},
   updates |-> {u \in updates : u.month = m}]

Closed(m) == months[m].status = "closed"

(* "wallet month is closed": the books of a closed month do not change.    *)
ClosedBooksAreFrozen ==
  [][\A m \in DOMAIN months \cap DOMAIN months' :
       Closed(m) => Contents(m)' = Contents(m)]_vars

(* The balance recorded at closing is the balance the closed books have.   *)
ClosedBalanceIsExact ==
  \A m \in DOMAIN months :
    IF Closed(m) THEN months[m].closedWallet = months[m].wallet
    ELSE months[m].closedWallet = None

(* "split rows must sum to the original transaction amount" (splits.go).   *)
SplitRowsSumToParent ==
  \A p \in DOMAIN txns :
    SplitChildren(p) # {} => AmountOf(SplitChildren(p)) = txns[p].amount

(* "transaction is already split" (splits.go): a split is never added to.  *)
SplitOnce ==
  [][\A p \in DOMAIN txns \cap DOMAIN txns' :
       SplitChildren(p) # {} => SplitChildren(p)' \subseteq SplitChildren(p)]_vars

(* With one request at a time the tables implement the books of            *)
(* WalletBooks.                                                            *)
BookOf(m) ==
  [opening |-> months[m].opening,
   posted |-> Expected(m) - months[m].opening,
   wallet |-> months[m].wallet,
   allocations |-> Cardinality({a \in DOMAIN allocs : allocs[a].month = m}),
   status |-> months[m].status,
   closedWallet |-> months[m].closedWallet]

Books == INSTANCE WalletBooks WITH books <- [m \in DOMAIN months |-> BookOf(m)]

(* Requests served one at a time keep the promises of WalletBooks: every   *)
(* one that posts moves the wallet by what it posts, and closed books stay *)
(* as they were closed.                                                    *)
BooksKept == Books!Spec
===============================================================================
