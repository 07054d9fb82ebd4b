------------------------- MODULE WalletLedger_proofs -------------------------
(***************************************************************************)
(* Theorems about WalletLedger, for any number of handlers, requests, ids, *)
(* amounts and rows of a split.                                            *)
(***************************************************************************)
EXTENDS WalletLedger, Sums, SequenceTheorems, TLAPS

JobFields == {"op", "month", "row", "alloc", "name", "amount", "opening", "was",
              "relevant", "parts", "todo"}

(* What the proof needs to know of the shape of rows and jobs.             *)
RowsShaped ==
  /\ \A i \in DOMAIN incomes : DOMAIN incomes[i] = {"month", "amount"}
  /\ \A a \in DOMAIN allocs : DOMAIN allocs[a] = {"month", "budget", "name"}
  /\ \A t \in DOMAIN txns :
       DOMAIN txns[t] = {"month", "alloc", "amount", "kind", "source", "parent"}
  /\ DOMAIN txns \subseteq TxnIds
  /\ \A c \in DOMAIN split : split[c] \in TxnIds
JobShaped(h) == DOMAIN jobs[h] = JobFields /\ jobs[h].todo \in Seq(Check)
JobsShaped == DOMAIN jobs = Handlers /\ \A h \in Handlers : JobShaped(h)

InOrder ==
  /\ RowsShaped
  /\ BooksAreConnected
  /\ SplitRecordsAgree
  /\ SplitsAreFlat

(* The inductive invariant: the books are in order, and every handler is   *)
(* right about the rows it has checked.                                    *)
IInv == InOrder /\ JobsShaped /\ ChecksStillHold

-----------------------------------------------------------------------------
(* Steps of a handler that leave the tables alone.                         *)

LEMMA IdleHolds ==
  ASSUME NEW h \in Handlers, jobs[h] = Idle
  PROVE  JobShaped(h) /\ JobHolds(h)
<1>1. DOMAIN Idle = JobFields
  BY DEF Idle, JobFields
<1>2. Idle.todo = <<>> /\ Idle.op = "idle"
  BY DEF Idle
<1>3. Idle.todo \in Seq(Check)
  BY <1>2
<1> QED
  BY <1>1, <1>2, <1>3 DEF JobShaped, JobHolds, BookedOn, OnTransaction

(* A step that changes the job of one handler and no table keeps IInv if   *)
(* what that job relies on holds.                                          *)
LEMMA OnlyJobChanges ==
  ASSUME IInv, NEW h \in Handlers, UNCHANGED tables,
         DOMAIN jobs' = Handlers,
         \A g \in Handlers \ {h} : jobs'[g] = jobs[g],
         JobShaped(h)', JobHolds(h)'
  PROVE  IInv'
<1>1. InOrder'
  BY DEF IInv, InOrder, RowsShaped, BooksAreConnected, SplitRecordsAgree, SplitsAreFlat,
         tables
<1>2. JobsShaped'
  BY DEF IInv, JobsShaped, JobShaped
<1>3. ASSUME NEW g \in Handlers PROVE JobHolds(g)'
  <2>1. CASE g = h
    BY <2>1
  <2>2. CASE g # h
    BY <2>2 DEF IInv, ChecksStillHold, JobHolds, tables, BookedOn, Pending
  <2> QED
    BY <2>1, <2>2
<1> QED
  BY <1>1, <1>2, <1>3 DEF IInv, ChecksStillHold

(* So does a step that takes the next check off a handler's list, when the *)
(* check, if it is about an allocation, is passed.                         *)
LEMMA CheckMade ==
  ASSUME IInv, NEW h \in Handlers, UNCHANGED tables, jobs[h].todo # <<>>,
         Head(jobs[h].todo).check = "alloc" =>
           /\ Head(jobs[h].todo).alloc \in DOMAIN allocs
           /\ allocs[Head(jobs[h].todo).alloc].month = jobs[h].month,
         NEW relevant,
         jobs' = [jobs EXCEPT ![h].todo = Tail(@), ![h].relevant = relevant]
  PROVE  IInv'
<1> DEFINE j == jobs[h]
<1>1. j.todo \in Seq(Check) /\ DOMAIN j = JobFields
  BY DEF IInv, JobsShaped, JobShaped
<1>2. /\ Tail(j.todo) \in Seq(Check)
      /\ Len(Tail(j.todo)) = Len(j.todo) - 1
      /\ \A i \in 1..Len(Tail(j.todo)) : Tail(j.todo)[i] = j.todo[i + 1]
  BY <1>1, HeadTailProperties
<1>3. /\ jobs'[h].todo = Tail(j.todo)
      /\ DOMAIN jobs'[h] = JobFields
      /\ \A f \in JobFields \ {"todo", "relevant"} : jobs'[h][f] = j[f]
      /\ DOMAIN jobs' = Handlers
      /\ \A g \in Handlers \ {h} : jobs'[g] = jobs[g]
  BY <1>1 DEF IInv, JobsShaped, JobFields
<1>4. JobShaped(h)'
  BY <1>2, <1>3 DEF JobShaped
<1>5. jobs'[h].op = j.op /\ jobs'[h].month = j.month /\ jobs'[h].row = j.row
      /\ jobs'[h].alloc = j.alloc /\ jobs'[h].parts = j.parts
  BY <1>3 DEF JobFields
<1>6. ASSUME NEW a \in DOMAIN allocs, Pending(j, a), allocs[a].month # j.month
      PROVE  Pending(jobs'[h], a)
  <2>1. PICK i \in DOMAIN j.todo : j.todo[i].check = "alloc" /\ j.todo[i].alloc = a
    BY <1>6 DEF Pending
  <2>2. i \in 1..Len(j.todo) /\ Len(j.todo) \in Nat
    BY <1>1, <2>1
  <2>3. i # 1
    BY <1>1, <1>6, <2>1
  <2>4. i - 1 \in 1..Len(Tail(j.todo)) /\ Tail(j.todo)[i - 1] = j.todo[i]
    BY <1>2, <2>2, <2>3
  <2>5. i - 1 \in DOMAIN jobs'[h].todo
    BY <1>2, <1>3, <2>4
  <2> QED
    BY <1>3, <2>1, <2>4, <2>5 DEF Pending
<1>7. JobHolds(h)'
  <2>1. JobHolds(h) /\ allocs' = allocs /\ txns' = txns
    BY <1>3 DEF IInv, ChecksStillHold, tables
  <2>2. BookedOn(j)' = BookedOn(j)
    BY <1>5 DEF BookedOn
  <2> QED
    BY <1>5, <1>6, <2>1, <2>2 DEF JobHolds
<1> QED
  BY <1>3, <1>4, <1>7, OnlyJobChanges

(* ensureMonthOpen, ensureAllocationBelongsToMonth and                     *)
(* transactionHasSplitChildren only read: making one of them keeps IInv.   *)
LEMMA MakeCheckKeeps ==
  ASSUME IInv, NEW h \in Handlers, MakeCheck(h)
  PROVE  IInv'
<1>1. ASSUME Passed(h)
      PROVE  /\ UNCHANGED tables
             /\ jobs' = [jobs EXCEPT ![h].todo = Tail(@), ![h].relevant = jobs[h].relevant]
  BY <1>1 DEF Passed, IInv, JobsShaped, JobShaped, JobFields
<1>2. CASE EnsureMonthOpen(h)
  BY <1>1, <1>2, CheckMade DEF EnsureMonthOpen, NextCheckIs
<1>3. CASE EnsureAllocationBelongsToMonth(h)
  BY <1>1, <1>3, CheckMade DEF EnsureAllocationBelongsToMonth, NextCheckIs
<1>4. CASE TransactionHasSplitChildren(h)
  BY <1>1, <1>4, CheckMade DEF TransactionHasSplitChildren, NextCheckIs, tables
<1> QED
  BY <1>2, <1>3, <1>4 DEF MakeCheck

(* A request that is refused, or answered without a write.                 *)
LEMMA RefuseKeeps ==
  ASSUME IInv, NEW h \in Handlers, Refuse(h)
  PROVE  IInv'
<1>1. /\ jobs'[h] = Idle
      /\ DOMAIN jobs' = Handlers
      /\ \A g \in Handlers \ {h} : jobs'[g] = jobs[g]
      /\ UNCHANGED tables
  BY DEF Refuse, IInv, JobsShaped
<1>2. JobShaped(h)' /\ JobHolds(h)'
  BY <1>1, IdleHolds DEF JobShaped, JobHolds, BookedOn, OnTransaction, Idle, JobFields
<1> QED
  BY <1>1, <1>2, OnlyJobChanges

(* A request arrives.  Only the handlers that book on an allocation or     *)
(* name a transaction have something to rely on, and it was just read, or  *)
(* its check is on the list.                                               *)
LEMMA ReceiveKeeps ==
  ASSUME IInv, NEW h \in Handlers, Receive(h)
  PROVE  IInv'
<1>1. PICK job : Accept(h, job)
  BY Zenon DEF Receive, ReceiveUpdateMonth, ReceiveDeleteMonth, ReceiveCloseMonth,
     ReceiveReopenMonth, ReceiveCreateIncome, ReceiveUpdateIncome, ReceiveDeleteIncome,
     ReceiveCreateAllocation, ReceiveUpdateAllocation, ReceiveDeleteAllocation,
     ReceiveCreateTransaction, ReceiveUpdateTransaction, ReceiveDeleteTransaction,
     ReceiveSplitTransaction, ReceiveCreateBalanceUpdate
<1>2. /\ DOMAIN jobs' = Handlers
      /\ \A g \in Handlers \ {h} : jobs'[g] = jobs[g]
      /\ UNCHANGED tables
  BY <1>1 DEF Accept, IInv, JobsShaped
<1>3. \A j : Accept(h, j) => jobs'[h] = j
  BY DEF Accept, IInv, JobsShaped
<1>4. Idle.todo = <<>> /\ DOMAIN Idle = JobFields
  BY DEF Idle, JobFields
<1>5. MonthOpen \in Seq(Check) /\ NoChildren \in Seq(Check)
  BY DEF MonthOpen, NoChildren, Check
<1>6. \A a \in AllocIds : /\ Belongs(a) \in Seq(Check)
                          /\ Len(Belongs(a)) = 1
                          /\ Belongs(a)[1].check = "alloc"
                          /\ Belongs(a)[1].alloc = a
  BY DEF Belongs, Check
<1>7. SUFFICES JobShaped(h)' /\ JobHolds(h)'
  BY <1>2, OnlyJobChanges
<1>8. CASE \/ ReceiveUpdateMonth(h) \/ ReceiveDeleteMonth(h)
           \/ ReceiveCloseMonth(h) \/ ReceiveReopenMonth(h)
           \/ ReceiveCreateIncome(h) \/ ReceiveCreateAllocation(h)
           \/ ReceiveCreateBalanceUpdate(h)
  <2>1. /\ jobs'[h].todo = <<>> /\ DOMAIN jobs'[h] = JobFields
        /\ jobs'[h].op \in Ops \ (OnTransaction \cup {"CreateTransaction"})
    <3>1. CASE ReceiveUpdateMonth(h)
      <4>1. PICK m, opening, wallet :
              Accept(h, [Idle EXCEPT !.op = "UpdateMonth", !.month = m, !.opening = opening,
                                     !.amount = wallet, !.was = months[m].wallet])
        BY <3>1, Zenon DEF ReceiveUpdateMonth
      <4> QED
        BY <1>3, <4>1 DEF Idle, JobFields, Ops, OnTransaction
    <3>2. CASE ReceiveDeleteMonth(h)
      BY <1>3, <3>2 DEF ReceiveDeleteMonth, Idle, JobFields, Ops, OnTransaction
    <3>3. CASE ReceiveCloseMonth(h)
      BY <1>3, <3>3 DEF ReceiveCloseMonth, Idle, JobFields, Ops, OnTransaction
    <3>4. CASE ReceiveReopenMonth(h)
      BY <1>3, <3>4 DEF ReceiveReopenMonth, Idle, JobFields, Ops, OnTransaction
    <3>5. CASE ReceiveCreateIncome(h)
      BY <1>3, <3>5 DEF ReceiveCreateIncome, Idle, JobFields, Ops, OnTransaction
    <3>6. CASE ReceiveCreateAllocation(h)
      BY <1>3, <3>6 DEF ReceiveCreateAllocation, Idle, JobFields, Ops, OnTransaction
    <3>7. CASE ReceiveCreateBalanceUpdate(h)
      BY <1>3, <3>7 DEF ReceiveCreateBalanceUpdate, Idle, JobFields, Ops, OnTransaction
    <3> QED
      BY <1>8, <3>1, <3>2, <3>3, <3>4, <3>5, <3>6, <3>7
  <2> QED
    BY <2>1 DEF JobShaped, JobHolds, BookedOn, OnTransaction
<1>9. CASE \/ ReceiveUpdateIncome(h) \/ ReceiveDeleteIncome(h)
           \/ ReceiveUpdateAllocation(h) \/ ReceiveDeleteAllocation(h)
  <2>1. /\ jobs'[h].todo = MonthOpen /\ DOMAIN jobs'[h] = JobFields
        /\ jobs'[h].op \in Ops \ (OnTransaction \cup {"CreateTransaction"})
    <3>1. CASE ReceiveUpdateIncome(h)
      <4>1. PICK i, amount :
              Accept(h, [Idle EXCEPT !.op = "UpdateIncome", !.month = incomes[i].month, !.row = i,
                                     !.amount = amount, !.was = incomes[i].amount,
                                     !.todo = MonthOpen])
        BY <3>1, Zenon DEF ReceiveUpdateIncome
      <4> QED
        BY <1>3, <4>1 DEF Idle, JobFields, Ops, OnTransaction
    <3>2. CASE ReceiveDeleteIncome(h)
      BY <1>3, <3>2 DEF ReceiveDeleteIncome, Idle, JobFields, Ops, OnTransaction
    <3>3. CASE ReceiveUpdateAllocation(h)
      <4>1. PICK a, budget, name :
              Accept(h, [Idle EXCEPT !.op = "UpdateAllocation", !.month = allocs[a].month,
                                     !.row = a, !.amount = budget, !.name = name,
                                     !.todo = MonthOpen])
        BY <3>3, Zenon DEF ReceiveUpdateAllocation
      <4> QED
        BY <1>3, <4>1 DEF Idle, JobFields, Ops, OnTransaction
    <3>4. CASE ReceiveDeleteAllocation(h)
      BY <1>3, <3>4 DEF ReceiveDeleteAllocation, Idle, JobFields, Ops, OnTransaction
    <3> QED
      BY <1>9, <3>1, <3>2, <3>3, <3>4
  <2> QED
    BY <1>5, <2>1 DEF JobShaped, JobHolds, BookedOn, OnTransaction
<1>10. CASE ReceiveCreateTransaction(h)
  <2>1. PICK a \in AllocIds : /\ jobs'[h].op = "CreateTransaction"
                              /\ jobs'[h].alloc = a /\ jobs'[h].todo = Belongs(a)
                              /\ DOMAIN jobs'[h] = JobFields
    BY <1>3, <1>10 DEF ReceiveCreateTransaction, Idle, JobFields
  <2> QED
    BY <1>6, <2>1 DEF JobShaped, JobHolds, BookedOn, OnTransaction, Pending
<1>11. CASE ReceiveDeleteTransaction(h)
  <2>1. PICK t \in DOMAIN txns :
          /\ jobs'[h].op = "DeleteTransaction" /\ jobs'[h].row = t
          /\ jobs'[h].month = txns[t].month /\ jobs'[h].todo = MonthOpen
          /\ DOMAIN jobs'[h] = JobFields
    BY <1>3, <1>11 DEF ReceiveDeleteTransaction, Idle, JobFields
  <2> QED
    BY <1>2, <1>5, <2>1 DEF JobShaped, JobHolds, BookedOn, OnTransaction, tables
<1>12. CASE ReceiveUpdateTransaction(h)
  <2>1. PICK t \in DOMAIN txns, patch \in SUBSET {"amount", "allocation"} :
          \E a \in IF "allocation" \in patch THEN AllocIds ELSE {txns[t].alloc} :
          \E amount, relevant :
            Accept(h, [Idle EXCEPT !.op = "UpdateTransaction", !.month = txns[t].month,
                          !.row = t, !.alloc = a, !.amount = amount,
                          !.was = txns[t].amount, !.relevant = relevant,
                          !.todo = UpdateChecks(t, patch, a)])
    BY <1>12, Zenon DEF ReceiveUpdateTransaction
  <2>2. PICK a \in IF "allocation" \in patch THEN AllocIds ELSE {txns[t].alloc} :
          \E amount, relevant :
            jobs'[h] = [Idle EXCEPT !.op = "UpdateTransaction", !.month = txns[t].month,
                          !.row = t, !.alloc = a, !.amount = amount,
                          !.was = txns[t].amount, !.relevant = relevant,
                          !.todo = UpdateChecks(t, patch, a)]
    BY <1>3, <2>1, Zenon
  <2>3. /\ jobs'[h].op = "UpdateTransaction" /\ jobs'[h].row = t
        /\ jobs'[h].month = txns[t].month /\ jobs'[h].alloc = a
        /\ jobs'[h].todo = UpdateChecks(t, patch, a)
        /\ DOMAIN jobs'[h] = JobFields
    BY <2>2 DEF Idle, JobFields
  <2> DEFINE first == MonthOpen \o (IF txns[t].parent = None THEN NoChildren ELSE <<>>)
             last == IF "allocation" \in patch THEN Belongs(a) ELSE <<>>
  <2>4. first \in Seq(Check) /\ last \in Seq(Check)
    BY <1>5, <1>6, ConcatProperties
  <2>5. jobs'[h].todo = first \o last
    BY <2>3 DEF UpdateChecks
  <2> HIDE DEF first
  <2>6. /\ first \o last \in Seq(Check)
        /\ Len(first \o last) = Len(first) + Len(last)
        /\ \A i \in 1..Len(first) + Len(last) :
             (first \o last)[i] = IF i <= Len(first) THEN first[i] ELSE last[i - Len(first)]
    <3> HIDE DEF last
    <3> QED
      BY <2>4, ConcatProperties
  <2>7. JobShaped(h)'
    BY <2>6, <2>5, <2>3 DEF JobShaped
  <2>8. CASE "allocation" \in patch
    <3> DEFINE n == Len(first) + 1
    <3>1. a \in AllocIds /\ last = Belongs(a) /\ Len(last) = 1 /\ Len(first) \in Nat
      BY <1>6, <2>2, <2>4, <2>8
    <3>2. n \in DOMAIN (first \o last) /\ (first \o last)[n] = last[1]
      BY <2>6, <3>1
    <3>3. last[1].check = "alloc" /\ last[1].alloc = a
      BY <1>6, <3>1
    <3>4. Pending(jobs'[h], a)
      <4> HIDE DEF last, n
      <4> QED
        BY <2>5, <3>2, <3>3 DEF Pending
    <3> QED
      BY <1>2, <2>7, <2>3, <3>4 DEF JobHolds, BookedOn, OnTransaction, tables
  <2>9. CASE "allocation" \notin patch
    <3>1. a = txns[t].alloc /\ allocs[a].month = txns[t].month
      BY <2>2, <2>9 DEF IInv, InOrder, BooksAreConnected
    <3> QED
      BY <1>2, <2>7, <2>3, <3>1 DEF JobHolds, BookedOn, OnTransaction, tables
  <2> QED
    BY <2>8, <2>9
<1>13. CASE ReceiveSplitTransaction(h)
  <2> PICK t \in DOMAIN txns : \E parts \in SplitInputs(txns[t].amount) :
        /\ txns[t].parent = None
        /\ txns[t].kind = "spend"
        /\ txns[t].source # "reconciliation"
        /\ Accept(h, [Idle EXCEPT !.op = "SplitTransaction", !.month = txns[t].month,
                      !.row = t, !.was = txns[t].amount, !.parts = parts,
                      !.todo = MonthOpen \o NoChildren \o
                          [i \in DOMAIN parts |-> Belongs(parts[i].alloc)[1]]])
    BY <1>13 DEF ReceiveSplitTransaction
  <2>1. PICK parts \in SplitInputs(txns[t].amount) :
          /\ txns[t].parent = None
          /\ txns[t].kind = "spend"
          /\ txns[t].source # "reconciliation"
          /\ jobs'[h].op = "SplitTransaction" /\ jobs'[h].row = t
          /\ jobs'[h].month = txns[t].month /\ jobs'[h].parts = parts
          /\ jobs'[h].todo = MonthOpen \o NoChildren \o
                 [i \in DOMAIN parts |-> Belongs(parts[i].alloc)[1]]
          /\ DOMAIN jobs'[h] = JobFields
    BY <1>3 DEF Idle, JobFields
  <2>2. PICK k \in Nat : parts \in [1..k -> [alloc : AllocIds, amount : Amounts]]
    BY <2>1, AmountsAssumption DEF SplitInputs
  <2> DEFINE first == MonthOpen \o NoChildren
             last == [i \in DOMAIN parts |-> Belongs(parts[i].alloc)[1]]
  <2>3. first \in Seq(Check)
    BY <1>5, ConcatProperties
  <2>4. last \in Seq(Check) /\ Len(last) = k
    <3>1. \A i \in 1..k : Belongs(parts[i].alloc)[1] \in Check
      BY <1>6, <2>2 DEF Belongs, Check
    <3> QED
      BY <2>2, <3>1
  <2>5. /\ first \o last \in Seq(Check)
        /\ Len(first \o last) = Len(first) + Len(last)
        /\ \A i \in 1..Len(first) + Len(last) :
             (first \o last)[i] = IF i <= Len(first) THEN first[i] ELSE last[i - Len(first)]
    BY <2>3, <2>4, ConcatProperties
  <2>6. ASSUME NEW i \in DOMAIN parts PROVE Pending(jobs'[h], parts[i].alloc)
    <3> DEFINE n == Len(first) + i
    <3>1. i \in 1..k /\ parts[i].alloc \in AllocIds /\ Len(first) \in Nat
      BY <2>2, <2>3
    <3>2. n \in DOMAIN (first \o last) /\ (first \o last)[n] = last[i]
      BY <2>4, <2>5, <3>1
    <3>3. last[i].check = "alloc" /\ last[i].alloc = parts[i].alloc
      BY <1>6, <3>1
    <3> QED
      BY <2>1, <3>2, <3>3 DEF Pending
  <2>7. JobShaped(h)'
    BY <2>1, <2>5 DEF JobShaped
  <2>8. \A a \in BookedOn(jobs'[h]) : Pending(jobs'[h], a)
    BY <2>1, <2>6 DEF BookedOn
  <2> QED
    BY <1>2, <2>1, <2>7, <2>8 DEF JobHolds, OnTransaction, tables
<1> QED
  BY <1>8, <1>9, <1>10, <1>11, <1>12, <1>13, Receive(h) DEF Receive

-----------------------------------------------------------------------------
(* Steps that write: what they may do to transactions and allocations      *)
(* without making another handler wrong.                                   *)

TxnsKept ==
  \A t \in DOMAIN txns' :
    \/ t \in FreshTxns
    \/ /\ t \in DOMAIN txns
       /\ txns'[t].month = txns[t].month
       /\ txns'[t].kind = txns[t].kind
       /\ txns'[t].source = txns[t].source
       /\ txns'[t].parent \in {txns[t].parent, None}
AllocsKept ==
  \A a \in DOMAIN allocs' :
    a \in FreshAllocs \/ (a \in DOMAIN allocs /\ allocs'[a].month = allocs[a].month)

Served(h) ==
  /\ DOMAIN jobs' = Handlers
  /\ jobs'[h] = Idle
  /\ \A g \in Handlers \ {h} : jobs'[g] = jobs[g]

(* What every write leaves behind.                                         *)
Kept(h) == TxnsKept /\ AllocsKept /\ Served(h) /\ InOrder'

LEMMA WriteKeeps ==
  ASSUME IInv, NEW h \in Handlers, Kept(h)
  PROVE  IInv'
<1>1. TxnsKept /\ AllocsKept /\ Served(h) /\ InOrder'
  BY DEF Kept
<1>2. JobShaped(h)' /\ JobHolds(h)'
  BY <1>1 DEF Served, JobShaped, JobHolds, BookedOn, OnTransaction, Idle, JobFields
<1>3. ASSUME NEW g \in Handlers \ {h} PROVE JobShaped(g)' /\ JobHolds(g)'
  <2>1. JobShaped(g) /\ JobHolds(g) /\ jobs'[g] = jobs[g]
    BY <1>1 DEF Served, IInv, JobsShaped, ChecksStillHold
  <2>2. BookedOn(jobs[g]) \cap FreshAllocs = {}
    BY DEF BookedOn, FreshAllocs
  <2>3. jobs[g].row \notin FreshTxns
    BY DEF FreshTxns
  <2>4. BookedOn(jobs'[g]) = BookedOn(jobs[g])
    BY <2>1
  <2>5. \A a \in BookedOn(jobs[g]) \cap DOMAIN allocs' :
          a \in DOMAIN allocs /\ allocs'[a].month = allocs[a].month
    BY <1>1, <2>2 DEF AllocsKept
  <2>6. jobs[g].row \in DOMAIN txns' =>
          /\ jobs[g].row \in DOMAIN txns
          /\ txns'[jobs[g].row].month = txns[jobs[g].row].month
          /\ txns'[jobs[g].row].kind = txns[jobs[g].row].kind
          /\ txns'[jobs[g].row].source = txns[jobs[g].row].source
          /\ txns'[jobs[g].row].parent \in {txns[jobs[g].row].parent, None}
    BY <1>1, <2>3 DEF TxnsKept
  <2>7. \A a : Pending(jobs'[g], a) <=> Pending(jobs[g], a)
    BY <2>1
  <2> QED
    BY <2>1, <2>4, <2>5, <2>6, <2>7 DEF JobShaped, JobHolds
<1> QED
  BY <1>1, <1>2, <1>3 DEF Served, IInv, JobsShaped, ChecksStillHold

(* Deleting transactions leaves the rest of the books in order: a child    *)
(* goes with its link, and a child left behind loses its parent.           *)
LEMMA DeleteKeeps ==
  ASSUME IInv, NEW dead, DeleteTxnRows(dead)
  PROVE  /\ TxnsKept
         /\ SplitRecordsAgree' /\ SplitsAreFlat'
         /\ DOMAIN txns' = DOMAIN txns \ dead
         /\ DOMAIN txns' \subseteq TxnIds
         /\ \A t \in DOMAIN txns' :
              /\ DOMAIN txns'[t] = {"month", "alloc", "amount", "kind", "source", "parent"}
              /\ txns'[t].alloc = txns[t].alloc
              /\ txns'[t].month = txns[t].month
         /\ \A c \in DOMAIN split' : split'[c] \in TxnIds
<1>1. /\ DOMAIN txns' = DOMAIN txns \ dead
      /\ \A t \in DOMAIN txns' :
           /\ DOMAIN txns'[t] = {"month", "alloc", "amount", "kind", "source", "parent"}
           /\ txns'[t].alloc = txns[t].alloc
           /\ txns'[t].month = txns[t].month
           /\ txns'[t].kind = txns[t].kind
           /\ txns'[t].source = txns[t].source
           /\ txns'[t].parent = IF txns[t].parent \in dead THEN None ELSE txns[t].parent
  BY DEF DeleteTxnRows, IInv, InOrder, RowsShaped
<1>2. /\ DOMAIN split' = {c \in DOMAIN split : c \notin dead /\ split[c] \notin dead}
      /\ \A c \in DOMAIN split' : split'[c] = split[c]
  BY DEF DeleteTxnRows, Without, Restrict
<1>3. TxnsKept
  BY <1>1 DEF TxnsKept
<1>4. SplitRecordsAgree'
  BY <1>1, <1>2, NoneAssumption DEF SplitRecordsAgree, IInv, InOrder, RowsShaped
<1>5. SplitsAreFlat'
  <2>1. ASSUME NEW c \in DOMAIN split'
        PROVE  c \in DOMAIN txns' /\ split'[c] \in DOMAIN txns' /\ split'[c] = split[c]
    BY <1>1, <1>2, <1>4, <2>1, NoneAssumption DEF SplitRecordsAgree, IInv, InOrder, RowsShaped
  <2> QED
    BY <1>1, <1>2, <2>1 DEF SplitsAreFlat, IInv, InOrder
<1> QED
  BY <1>1, <1>2, <1>3, <1>4, <1>5 DEF IInv, InOrder, RowsShaped

(* The writes that leave transactions as they are change the books as      *)
(* follows.                                                                *)
PlainWrite(h) ==
  /\ UNCHANGED <<txns, split, updates>>
  /\ Served(h)
  /\ DOMAIN months \subseteq DOMAIN months'
  /\ \A i \in DOMAIN incomes' : /\ DOMAIN incomes'[i] = {"month", "amount"}
                                /\ incomes'[i].month \in DOMAIN months'
  /\ DOMAIN allocs \subseteq DOMAIN allocs'
  /\ \A a \in DOMAIN allocs' :
       /\ DOMAIN allocs'[a] = {"month", "budget", "name"}
       /\ allocs'[a].month \in DOMAIN months'
       /\ \/ a \in FreshAllocs
          \/ a \in DOMAIN allocs /\ allocs'[a].month = allocs[a].month

(* A write that leaves transactions alone keeps IInv.                      *)
LEMMA PlainWriteKeeps ==
  ASSUME IInv, NEW h \in Handlers, PlainWrite(h)
  PROVE  Kept(h)
<1> USE DEF InOrder, RowsShaped, PlainWrite
<1>1. TxnsKept /\ AllocsKept
  BY DEF TxnsKept, AllocsKept
<1>2. SplitRecordsAgree' /\ SplitsAreFlat'
  BY DEF IInv, SplitRecordsAgree, SplitsAreFlat
<1>3. BooksAreConnected'
  BY DEF IInv, BooksAreConnected, FreshAllocs
<1>4. RowsShaped'
  BY DEF IInv
<1> QED
  BY <1>1, <1>2, <1>3, <1>4 DEF Kept

(* CreateMonth inserts a month and the rows prepared for it, and nothing   *)
(* else.                                                                   *)
LEMMA CreateMonthIsPlain ==
  ASSUME IInv, NEW h \in Handlers, CreateMonth(h)
  PROVE  PlainWrite(h)
<1>1. PICK m \in FreshMonths, key \in MonthKeys, opening \in Balances,
         given \in Balances \cup {None}, I \in SUBSET FreshIncomes, A \in SUBSET FreshAllocs :
      \E amount \in [I -> Amounts \cup {0}], budget \in [A -> Budgets], name \in [A -> Names] :
        /\ jobs[h] = Idle
        /\ received < MaxRequests
        /\ received' = received + 1
        /\ \A n \in DOMAIN months : months[n].key # key
        /\ months' = Put(months, m,
                       [key |-> key, opening |-> opening,
                        wallet |-> IF given = None THEN opening + SumFunction(amount) ELSE given,
                        status |-> "open", closedWallet |-> None])
        /\ incomes' = [i \in DOMAIN incomes \cup I |->
                         IF i \in I THEN [month |-> m, amount |-> amount[i]] ELSE incomes[i]]
        /\ allocs' = [a \in DOMAIN allocs \cup A |->
                        IF a \in A THEN [month |-> m, budget |-> budget[a], name |-> name[a]]
                        ELSE allocs[a]]
        /\ UNCHANGED <<txns, split, updates, jobs>>
  BY DEF CreateMonth
<1>2. UNCHANGED <<txns, split, updates>> /\ Served(h)
  BY DEF CreateMonth, IInv, JobsShaped, Served
<1>3. DOMAIN months' = DOMAIN months \cup {m}
  BY <1>1 DEF Put
<1>4. PICK amount \in [I -> Amounts \cup {0}], budget \in [A -> Budgets], name \in [A -> Names] :
        /\ incomes' = [i \in DOMAIN incomes \cup I |->
                 IF i \in I THEN [month |-> m, amount |-> amount[i]] ELSE incomes[i]]
        /\ allocs' = [a \in DOMAIN allocs \cup A |->
                IF a \in A THEN [month |-> m, budget |-> budget[a], name |-> name[a]]
                ELSE allocs[a]]
  BY <1>1
<1>5. /\ DOMAIN incomes' = DOMAIN incomes \cup I
      /\ \A i \in I : DOMAIN incomes'[i] = {"month", "amount"} /\ incomes'[i].month = m
      /\ \A i \in DOMAIN incomes \ I : incomes'[i] = incomes[i]
  BY <1>4
<1>6. /\ DOMAIN allocs' = DOMAIN allocs \cup A /\ A \cap DOMAIN allocs = {}
      /\ \A a \in A : /\ DOMAIN allocs'[a] = {"month", "budget", "name"}
                      /\ allocs'[a].month = m
      /\ \A a \in DOMAIN allocs : allocs'[a] = allocs[a]
  BY <1>1 DEF FreshAllocs
<1>7. /\ \A i \in DOMAIN incomes : /\ DOMAIN incomes[i] = {"month", "amount"}
                                  /\ incomes[i].month \in DOMAIN months
      /\ \A a \in DOMAIN allocs : /\ DOMAIN allocs[a] = {"month", "budget", "name"}
                                 /\ allocs[a].month \in DOMAIN months
  BY DEF IInv, InOrder, RowsShaped, BooksAreConnected
<1>8. \A i \in DOMAIN incomes' : /\ DOMAIN incomes'[i] = {"month", "amount"}
                                /\ incomes'[i].month \in DOMAIN months'
  BY <1>3, <1>5, <1>7
<1>9. ASSUME NEW a \in DOMAIN allocs'
      PROVE  /\ DOMAIN allocs'[a] = {"month", "budget", "name"}
             /\ allocs'[a].month \in DOMAIN months'
             /\ \/ a \in FreshAllocs
                \/ a \in DOMAIN allocs /\ allocs'[a].month = allocs[a].month
  <2>1. CASE a \in A
    BY <1>3, <1>6, <2>1
  <2>2. CASE a \in DOMAIN allocs
    BY <1>3, <1>6, <1>7, <2>2
  <2> QED
    BY <1>6, <2>1, <2>2
<1> QED
  BY <1>2, <1>3, <1>6, <1>8, <1>9 DEF PlainWrite

(* The writes to months, incomes and allocations that delete no            *)
(* transaction leave transactions alone.                                   *)
LEMMA PlainWrites ==
  ASSUME IInv, NEW h \in Handlers,
         \/ CreateMonth(h) \/ UpdateMonth(h) \/ CloseMonth(h) \/ ReopenMonth(h)
         \/ CreateIncome(h) \/ UpdateIncome(h) \/ DeleteIncome(h)
         \/ CreateAllocation(h) \/ UpdateAllocation(h)
  PROVE  PlainWrite(h)
<1> USE DEF IInv, InOrder, RowsShaped, BooksAreConnected, JobsShaped, Answer, Served,
             PlainWrite
<1>1. CASE CreateMonth(h)
  BY <1>1, CreateMonthIsPlain
<1>2. CASE UpdateMonth(h)
  BY <1>2 DEF UpdateMonth
<1>3. CASE CloseMonth(h)
  BY <1>3 DEF CloseMonth
<1>4. CASE ReopenMonth(h)
  BY <1>4 DEF ReopenMonth
<1>5. CASE CreateIncome(h)
  BY <1>5 DEF CreateIncome, Put, ApplyWalletBalanceDelta
<1>6. CASE UpdateIncome(h)
  BY <1>6 DEF UpdateIncome, ApplyWalletBalanceDelta
<1>7. CASE DeleteIncome(h)
  BY <1>7 DEF DeleteIncome, Without, Restrict, ApplyWalletBalanceDelta
<1>8. CASE CreateAllocation(h)
  <2>1. PICK a \in FreshAllocs :
          allocs' = Put(allocs, a, [month |-> jobs[h].month, budget |-> jobs[h].amount,
                                    name |-> jobs[h].name])
    BY <1>8 DEF CreateAllocation
  <2>2. /\ DOMAIN allocs' = DOMAIN allocs \cup {a} /\ a \notin DOMAIN allocs
        /\ DOMAIN allocs'[a] = {"month", "budget", "name"}
        /\ allocs'[a].month = jobs[h].month
        /\ \A b \in DOMAIN allocs : allocs'[b] = allocs[b]
    BY <2>1 DEF Put, FreshAllocs
  <2> QED
    BY <1>8, <2>1, <2>2 DEF CreateAllocation
<1>9. CASE UpdateAllocation(h)
  BY <1>9 DEF UpdateAllocation
<1> QED
  BY <1>1, <1>2, <1>3, <1>4, <1>5, <1>6, <1>7, <1>8, <1>9

(* Deleting a month takes every row of it along, by the cascades of        *)
(* 003_wallet.sql.                                                         *)
LEMMA DeleteMonthKeeps ==
  ASSUME IInv, NEW h \in Handlers, DeleteMonth(h)
  PROVE  Kept(h)
<1> DEFINE m == jobs[h].month
           dead == {t \in DOMAIN txns : \/ txns[t].month = m
                                        \/ allocs[txns[t].alloc].month = m}
<1>1. DeleteTxnRows(dead) /\ Served(h)
  BY DEF DeleteMonth, Answer, Served, IInv, JobsShaped
<1>2. /\ DOMAIN months' = DOMAIN months \ {m}
      /\ DOMAIN incomes' = {i \in DOMAIN incomes : incomes[i].month # m}
      /\ \A i \in DOMAIN incomes' : incomes'[i] = incomes[i]
      /\ DOMAIN allocs' = {a \in DOMAIN allocs : allocs[a].month # m}
      /\ \A a \in DOMAIN allocs' : allocs'[a] = allocs[a]
      /\ updates' = {u \in updates : u.month # m}
  BY DEF DeleteMonth, Without, Restrict
<1> HIDE DEF dead
<1>3. /\ TxnsKept /\ SplitRecordsAgree' /\ SplitsAreFlat'
      /\ DOMAIN txns' = DOMAIN txns \ dead
      /\ DOMAIN txns' \subseteq TxnIds
      /\ \A t \in DOMAIN txns' :
           /\ DOMAIN txns'[t] = {"month", "alloc", "amount", "kind", "source", "parent"}
           /\ txns'[t].alloc = txns[t].alloc
           /\ txns'[t].month = txns[t].month
      /\ \A c \in DOMAIN split' : split'[c] \in TxnIds
  BY <1>1, DeleteKeeps
<1>4. AllocsKept
  BY <1>2 DEF AllocsKept
<1>5. BooksAreConnected'
  BY <1>2, <1>3 DEF BooksAreConnected, IInv, InOrder, dead
<1>6. RowsShaped'
  BY <1>2, <1>3 DEF RowsShaped, IInv, InOrder
<1> QED
  BY <1>1, <1>3, <1>4, <1>5, <1>6 DEF InOrder, Kept

(* Deleting an allocation takes the transactions booked on it along, split *)
(* rows and split transactions included.                                   *)
LEMMA DeleteAllocationKeeps ==
  ASSUME IInv, NEW h \in Handlers, DeleteAllocation(h)
  PROVE  Kept(h)
<1> DEFINE a == jobs[h].row
           dead == {t \in DOMAIN txns : txns[t].alloc = a}
<1>1. DeleteTxnRows(dead) /\ Served(h)
  BY DEF DeleteAllocation, Answer, Served, IInv, JobsShaped
<1>2. /\ UNCHANGED <<months, incomes, updates>>
      /\ DOMAIN allocs' = DOMAIN allocs \ {a}
      /\ \A b \in DOMAIN allocs' : allocs'[b] = allocs[b]
  BY DEF DeleteAllocation, Without, Restrict
<1> HIDE DEF dead
<1>3. /\ TxnsKept /\ SplitRecordsAgree' /\ SplitsAreFlat'
      /\ DOMAIN txns' = DOMAIN txns \ dead
      /\ DOMAIN txns' \subseteq TxnIds
      /\ \A t \in DOMAIN txns' :
           /\ DOMAIN txns'[t] = {"month", "alloc", "amount", "kind", "source", "parent"}
           /\ txns'[t].alloc = txns[t].alloc
           /\ txns'[t].month = txns[t].month
      /\ \A c \in DOMAIN split' : split'[c] \in TxnIds
  BY <1>1, DeleteKeeps
<1>4. AllocsKept
  BY <1>2 DEF AllocsKept
<1>5. BooksAreConnected'
  BY <1>2, <1>3 DEF BooksAreConnected, IInv, InOrder, dead
<1>6. RowsShaped'
  BY <1>2, <1>3 DEF RowsShaped, IInv, InOrder
<1> QED
  BY <1>1, <1>3, <1>4, <1>5, <1>6 DEF InOrder, Kept

(* Deleting a transaction takes the rows of its split along.               *)
LEMMA DeleteTransactionKeeps ==
  ASSUME IInv, NEW h \in Handlers, DeleteTransaction(h)
  PROVE  Kept(h)
<1>1. PICK dead : DeleteTxnRows(dead)
  BY DEF DeleteTransaction
<1>2. /\ UNCHANGED <<incomes, allocs, updates>> /\ Served(h)
      /\ DOMAIN months' = DOMAIN months
  BY DEF DeleteTransaction, ApplyWalletBalanceDelta, Answer, Served, IInv, JobsShaped
<1>3. /\ TxnsKept /\ SplitRecordsAgree' /\ SplitsAreFlat'
      /\ DOMAIN txns' = DOMAIN txns \ dead
      /\ DOMAIN txns' \subseteq TxnIds
      /\ \A t \in DOMAIN txns' :
           /\ DOMAIN txns'[t] = {"month", "alloc", "amount", "kind", "source", "parent"}
           /\ txns'[t].alloc = txns[t].alloc
           /\ txns'[t].month = txns[t].month
      /\ \A c \in DOMAIN split' : split'[c] \in TxnIds
  BY <1>1, DeleteKeeps
<1>4. AllocsKept
  BY <1>2 DEF AllocsKept
<1>5. BooksAreConnected'
  BY <1>2, <1>3 DEF BooksAreConnected, IInv, InOrder
<1>6. RowsShaped'
  BY <1>2, <1>3 DEF RowsShaped, IInv, InOrder
<1> QED
  BY <1>2, <1>3, <1>4, <1>5, <1>6 DEF InOrder, Kept

(* CreateTransaction books on an allocation that is still of its month.    *)
LEMMA CreateTransactionKeeps ==
  ASSUME IInv, NEW h \in Handlers, CreateTransaction(h)
  PROVE  Kept(h)
<1> DEFINE j == jobs[h]
<1>1. PICK t \in FreshTxns :
        txns' = Put(txns, t, [month |-> j.month, alloc |-> j.alloc, amount |-> j.amount,
                              kind |-> "spend", source |-> "manual", parent |-> None])
  BY DEF CreateTransaction
<1>2. /\ UNCHANGED <<incomes, allocs, split, updates>> /\ Served(h)
      /\ DOMAIN months' = DOMAIN months
      /\ j.alloc \in DOMAIN allocs
      /\ j.op = "CreateTransaction" /\ j.todo = <<>>
  BY DEF CreateTransaction, ApplyWalletBalanceDelta, Writes, Answer, Served, IInv, JobsShaped
<1>3. /\ t \in TxnIds /\ t \notin DOMAIN txns
      /\ DOMAIN txns' = DOMAIN txns \cup {t}
      /\ DOMAIN txns'[t] = {"month", "alloc", "amount", "kind", "source", "parent"}
      /\ txns'[t].month = j.month /\ txns'[t].alloc = j.alloc /\ txns'[t].parent = None
      /\ \A x \in DOMAIN txns : txns'[x] = txns[x]
  BY <1>1 DEF Put, FreshTxns
<1>4. allocs[j.alloc].month = j.month
  BY <1>2 DEF IInv, ChecksStillHold, JobHolds, BookedOn, Pending
<1> HIDE DEF j
<1>5. TxnsKept /\ AllocsKept
  BY <1>1, <1>2, <1>3 DEF TxnsKept, AllocsKept
<1>6. BooksAreConnected'
  BY <1>2, <1>3, <1>4 DEF BooksAreConnected, IInv, InOrder
<1>7. SplitRecordsAgree'
  BY <1>2, <1>3 DEF SplitRecordsAgree, IInv, InOrder
<1>8. SplitsAreFlat'
  <2>1. \A c \in DOMAIN split : c \in DOMAIN txns /\ split[c] \in DOMAIN txns
    BY NoneAssumption DEF IInv, InOrder, RowsShaped, SplitRecordsAgree
  <2> QED
    BY <1>2, <1>3, <2>1 DEF SplitsAreFlat, IInv, InOrder
<1>9. RowsShaped'
  BY <1>2, <1>3 DEF RowsShaped, IInv, InOrder
<1> QED
  BY <1>2, <1>5, <1>6, <1>7, <1>8, <1>9 DEF InOrder, Kept

(* UpdateTransaction moves a transaction only to an allocation that is     *)
(* still of its month, and changes nothing a split relies on.              *)
LEMMA UpdateTransactionKeeps ==
  ASSUME IInv, NEW h \in Handlers, UpdateTransaction(h)
  PROVE  Kept(h)
<1> DEFINE j == jobs[h]
<1>1. /\ UNCHANGED <<incomes, allocs, split, updates>> /\ Served(h)
      /\ DOMAIN months' = DOMAIN months
      /\ j.row \in DOMAIN txns /\ j.alloc \in DOMAIN allocs
      /\ j.op = "UpdateTransaction" /\ j.todo = <<>>
  BY DEF UpdateTransaction, ApplyWalletBalanceDelta, Writes, Answer, Served, IInv, JobsShaped
<1>2. /\ DOMAIN txns' = DOMAIN txns
      /\ \A t \in DOMAIN txns :
           /\ DOMAIN txns'[t] = DOMAIN txns[t]
           /\ txns'[t].month = txns[t].month
           /\ txns'[t].kind = txns[t].kind
           /\ txns'[t].source = txns[t].source
           /\ txns'[t].parent = txns[t].parent
           /\ txns'[t].alloc = IF t = j.row THEN j.alloc ELSE txns[t].alloc
  BY DEF UpdateTransaction, IInv, InOrder, RowsShaped
<1>3. allocs[j.alloc].month = j.month /\ txns[j.row].month = j.month
  BY <1>1 DEF IInv, ChecksStillHold, JobHolds, BookedOn, Pending, OnTransaction
<1> HIDE DEF j
<1>4. TxnsKept /\ AllocsKept
  BY <1>1, <1>2 DEF TxnsKept, AllocsKept
<1>5. BooksAreConnected'
  BY <1>1, <1>2, <1>3 DEF BooksAreConnected, IInv, InOrder
<1>6. SplitRecordsAgree'
  BY <1>1, <1>2 DEF SplitRecordsAgree, IInv, InOrder
<1>7. SplitsAreFlat'
  <2>1. \A c \in DOMAIN split : c \in DOMAIN txns /\ split[c] \in DOMAIN txns
    BY NoneAssumption DEF IInv, InOrder, RowsShaped, SplitRecordsAgree
  <2> QED
    BY <1>1, <1>2, <2>1 DEF SplitsAreFlat, IInv, InOrder
<1>8. RowsShaped'
  BY <1>1, <1>2 DEF RowsShaped, IInv, InOrder
<1> QED
  BY <1>1, <1>4, <1>5, <1>6, <1>7, <1>8 DEF InOrder, Kept

(* The rows of a split hang under a transaction that is still whole and in *)
(* the same month, whatever ran since its handler looked.                  *)
LEMMA SplitTransactionKeeps ==
  ASSUME IInv, NEW h \in Handlers, SplitTransaction(h)
  PROVE  Kept(h)
<1> DEFINE j == jobs[h]
<1>1. PICK ids, part :
        /\ ids \in SUBSET FreshTxns
        /\ \A t \in ids : part[t] \in DOMAIN j.parts
        /\ txns' = [t \in DOMAIN txns \cup ids |->
                      IF t \in ids
                      THEN [month |-> j.month, alloc |-> j.parts[part[t]].alloc,
                            amount |-> j.parts[part[t]].amount,
                            kind |-> "spend", source |-> "split", parent |-> j.row]
                      ELSE txns[t]]
        /\ split' = [c \in DOMAIN split \cup ids |-> IF c \in ids THEN j.row ELSE split[c]]
  BY DEF SplitTransaction
<1>2. /\ UNCHANGED <<months, incomes, allocs, updates>> /\ Served(h)
      /\ j.row \in DOMAIN txns
      /\ \A i \in DOMAIN j.parts : j.parts[i].alloc \in DOMAIN allocs
      /\ j.op = "SplitTransaction" /\ j.todo = <<>>
  BY DEF SplitTransaction, Writes, Answer, Served, IInv, JobsShaped
<1>3. /\ \A i \in DOMAIN j.parts : allocs[j.parts[i].alloc].month = j.month
      /\ txns[j.row].month = j.month
      /\ txns[j.row].parent = None
      /\ txns[j.row].kind = "spend"
      /\ txns[j.row].source # "reconciliation"
  BY <1>2 DEF IInv, ChecksStillHold, JobHolds, BookedOn, Pending, OnTransaction
<1> HIDE DEF j
<1>4. /\ ids \subseteq TxnIds /\ ids \cap DOMAIN txns = {}
      /\ DOMAIN txns' = DOMAIN txns \cup ids
      /\ \A t \in DOMAIN txns : txns'[t] = txns[t]
      /\ \A t \in ids :
           /\ DOMAIN txns'[t] = {"month", "alloc", "amount", "kind", "source", "parent"}
           /\ txns'[t].month = j.month
           /\ txns'[t].alloc \in DOMAIN allocs
           /\ allocs[txns'[t].alloc].month = j.month
           /\ txns'[t].kind = "spend" /\ txns'[t].source = "split"
           /\ txns'[t].parent = j.row
  BY <1>1, <1>2, <1>3 DEF FreshTxns
<1>5. /\ DOMAIN split' = DOMAIN split \cup ids
      /\ \A c \in ids : split'[c] = j.row
      /\ \A c \in DOMAIN split \ ids : split'[c] = split[c]
  BY <1>1
<1>6. \A c \in DOMAIN split :
        c \in DOMAIN txns /\ split[c] \in DOMAIN txns /\ txns[c].parent = split[c]
  BY NoneAssumption DEF IInv, InOrder, RowsShaped, SplitRecordsAgree
<1>7. j.row \notin DOMAIN split /\ j.row \in TxnIds
  BY <1>2, <1>3, <1>6, NoneAssumption DEF IInv, InOrder, RowsShaped
<1>8. TxnsKept /\ AllocsKept
  BY <1>1, <1>2, <1>4 DEF TxnsKept, AllocsKept
<1>9. BooksAreConnected'
  BY <1>2, <1>4 DEF BooksAreConnected, IInv, InOrder
<1>10. SplitRecordsAgree'
  BY <1>2, <1>4, <1>5 DEF SplitRecordsAgree, IInv, InOrder
<1>11. SplitsAreFlat'
  <2>1. ASSUME NEW c \in ids
        PROVE  /\ split'[c] = j.row /\ j.row \notin DOMAIN split'
               /\ txns'[j.row] = txns[j.row]
    BY <1>2, <1>4, <1>5, <1>7
  <2>2. ASSUME NEW c \in DOMAIN split
        PROVE  /\ split'[c] = split[c] /\ split[c] \notin DOMAIN split'
               /\ txns'[c] = txns[c] /\ txns'[split[c]] = txns[split[c]]
    BY <1>4, <1>5, <1>6 DEF IInv, InOrder, SplitsAreFlat
  <2> QED
    BY <1>3, <1>4, <1>5, <2>1, <2>2 DEF SplitsAreFlat, IInv, InOrder
<1>12. RowsShaped'
  BY <1>2, <1>4, <1>5, <1>7 DEF RowsShaped, IInv, InOrder
<1> QED
  BY <1>2, <1>8, <1>9, <1>10, <1>11, <1>12 DEF InOrder, Kept

(* A reconciliation books on the month's allocation of that name, or on a  *)
(* new one when there is none.                                             *)
LEMMA CreateBalanceUpdateKeeps ==
  ASSUME IInv, NEW h \in Handlers, CreateBalanceUpdate(h)
  PROVE  Kept(h)
<1> DEFINE m == jobs[h].month
<1>1. /\ UNCHANGED <<incomes, split>> /\ Served(h)
      /\ DOMAIN months' = DOMAIN months /\ m \in DOMAIN months
      /\ \A u \in updates' : u \in updates \/ u.month = m
  BY DEF CreateBalanceUpdate, Answer, Served, IInv, JobsShaped
<1>2. CASE UNCHANGED <<allocs, txns>>
  <2>1. TxnsKept /\ AllocsKept
    BY <1>2 DEF TxnsKept, AllocsKept
  <2>2. BooksAreConnected'
    BY <1>1, <1>2 DEF BooksAreConnected, IInv, InOrder
  <2>3. SplitRecordsAgree' /\ SplitsAreFlat' /\ RowsShaped'
    BY <1>1, <1>2 DEF SplitRecordsAgree, SplitsAreFlat, RowsShaped, IInv, InOrder
  <2> QED
    BY <1>1, <2>1, <2>2, <2>3 DEF InOrder, Kept
<1>3. CASE \E a \in ReconciliationAllocationIds(m), t \in FreshTxns :
             \E amount, kind :
               /\ allocs' = Put(allocs, a, [month |-> m, budget |-> 0, name |-> "reconciliation"])
               /\ txns' = Put(txns, t,
                            [month |-> m, alloc |-> a, amount |-> amount, kind |-> kind,
                             source |-> "reconciliation", parent |-> None])
  <2>1. PICK a \in ReconciliationAllocationIds(m), t \in FreshTxns :
             \E amount, kind :
               /\ allocs' = Put(allocs, a, [month |-> m, budget |-> 0, name |-> "reconciliation"])
               /\ txns' = Put(txns, t,
                            [month |-> m, alloc |-> a, amount |-> amount, kind |-> kind,
                             source |-> "reconciliation", parent |-> None])
    BY <1>3
  <2> HIDE DEF m
  <2>2. a \in FreshAllocs \/ (a \in DOMAIN allocs /\ allocs[a].month = m)
    BY <2>1 DEF ReconciliationAllocationIds, ReconciliationAllocations
  <2>3. /\ DOMAIN allocs' = DOMAIN allocs \cup {a}
        /\ DOMAIN allocs'[a] = {"month", "budget", "name"}
        /\ allocs'[a].month = m
        /\ \A b \in DOMAIN allocs \ {a} : allocs'[b] = allocs[b]
    BY <2>1 DEF Put
  <2>4. /\ t \in TxnIds /\ t \notin DOMAIN txns
        /\ DOMAIN txns' = DOMAIN txns \cup {t}
        /\ DOMAIN txns'[t] = {"month", "alloc", "amount", "kind", "source", "parent"}
        /\ txns'[t].month = m /\ txns'[t].alloc = a /\ txns'[t].parent = None
        /\ \A x \in DOMAIN txns : txns'[x] = txns[x]
    BY <2>1 DEF Put, FreshTxns
  <2>5. TxnsKept
    BY <2>1, <2>4 DEF TxnsKept
  <2>6. AllocsKept
    BY <2>2, <2>3 DEF AllocsKept
  <2>7. BooksAreConnected'
    BY <1>1, <2>2, <2>3, <2>4 DEF BooksAreConnected, FreshAllocs, IInv, InOrder
  <2>8. SplitRecordsAgree'
    BY <1>1, <2>4 DEF SplitRecordsAgree, IInv, InOrder
  <2>9. SplitsAreFlat'
    <3>1. \A c \in DOMAIN split : c \in DOMAIN txns /\ split[c] \in DOMAIN txns
      BY NoneAssumption DEF IInv, InOrder, RowsShaped, SplitRecordsAgree
    <3> QED
      BY <1>1, <2>4, <3>1 DEF SplitsAreFlat, IInv, InOrder
  <2>10. RowsShaped'
    BY <1>1, <2>3, <2>4 DEF RowsShaped, IInv, InOrder
  <2> QED
    BY <1>1, <2>5, <2>6, <2>7, <2>8, <2>9, <2>10 DEF InOrder, Kept
<1>4. UNCHANGED <<allocs, txns>> \/ \E a \in ReconciliationAllocationIds(m), t \in FreshTxns :
             \E amount, kind :
               /\ allocs' = Put(allocs, a, [month |-> m, budget |-> 0, name |-> "reconciliation"])
               /\ txns' = Put(txns, t,
                            [month |-> m, alloc |-> a, amount |-> amount, kind |-> kind,
                             source |-> "reconciliation", parent |-> None])
  BY Zenon DEF CreateBalanceUpdate
<1> QED
  BY <1>2, <1>3, <1>4

-----------------------------------------------------------------------------
LEMMA WritesKeep ==
  ASSUME IInv, NEW h \in Handlers, Write(h)
  PROVE  Kept(h)
BY PlainWrites, PlainWriteKeeps, DeleteMonthKeeps, DeleteAllocationKeeps,
   CreateTransactionKeeps, UpdateTransactionKeeps, DeleteTransactionKeeps,
   SplitTransactionKeeps, CreateBalanceUpdateKeeps, Zenon DEF Write

(* Every step of every handler keeps IInv.                                 *)
LEMMA NextKeeps ==
  IInv /\ [Next]_vars => IInv'
<1> SUFFICES ASSUME IInv, [Next]_vars PROVE IInv'
  OBVIOUS
<1>1. CASE UNCHANGED vars
  BY <1>1 DEF vars, IInv, InOrder, RowsShaped, BooksAreConnected, SplitRecordsAgree,
     SplitsAreFlat, JobsShaped, JobShaped, ChecksStillHold,
     JobHolds, BookedOn, Pending
<1>2. ASSUME NEW h \in Handlers, Write(h) PROVE IInv'
  BY <1>2, WritesKeep, WriteKeeps
<1> QED
  BY <1>1, <1>2, ReceiveKeeps, MakeCheckKeeps, RefuseKeeps DEF Next

(* The empty tables satisfy IInv.                                          *)
LEMMA InitHolds == Init => IInv
<1> SUFFICES ASSUME Init PROVE IInv
  OBVIOUS
<1>1. \A h \in Handlers : JobShaped(h) /\ JobHolds(h)
  BY IdleHolds DEF Init
<1>2. InOrder
  BY DEF Init, InOrder, RowsShaped, BooksAreConnected, SplitRecordsAgree, SplitsAreFlat
<1> QED
  BY <1>1, <1>2 DEF Init, IInv, JobsShaped, ChecksStillHold

(* IInv holds in every state the ledger reaches, for any number of         *)
(* handlers and requests.                                                  *)
THEOREM Invariance == Spec => []IInv
  BY InitHolds, NextKeeps, PTL DEF Spec

(* Whatever requests interleave, rows hang on rows that exist and a        *)
(* transaction is booked on an allocation of its own month (the cascades   *)
(* of 003_wallet.sql and ensureAllocationBelongsToMonth).                  *)
THEOREM Connected == Spec => []BooksAreConnected
  BY Invariance, PTL DEF IInv, InOrder

(* The two records of a split, source_type and the link to the parent,     *)
(* never disagree, however splits, deletes and cascades interleave.        *)
THEOREM SplitsRecorded == Spec => []SplitRecordsAgree
  BY Invariance, PTL DEF IInv, InOrder

(* Nor is a row of a split ever split again.                               *)
THEOREM SplitsStayFlat == Spec => []SplitsAreFlat
  BY Invariance, PTL DEF IInv, InOrder

(* A check made before the write transaction is still true inside it, or   *)
(* the row it was about is gone and the foreign key refuses.               *)
THEOREM ChecksHold == Spec => []ChecksStillHold
  BY Invariance, PTL DEF IInv

-----------------------------------------------------------------------------
(* Typing: jobs.                                                           *)

(* The requests that carry an amount to write to a row.                    *)
Amounting == {"CreateIncome", "UpdateIncome", "CreateAllocation", "UpdateAllocation",
              "CreateTransaction", "UpdateTransaction"}
Carries(j) == j \in Job /\ (j.op \in Amounting => j.amount \in Nat)

(* TypeOK needs to know of a request in flight that what it will write as  *)
(* an amount is one.                                                       *)
TypeInv == TypeOK /\ \A h \in Handlers : Carries(jobs[h])

(* An idle handler carries nothing.                                        *)
LEMMA IdleCarries == Idle \in Job /\ Carries(Idle)
BY DEF Carries, Idle, Job, Amounting, Ops, AllocNames

(* The lists of checks are lists of checks.                                *)
LEMMA ChecksTyped ==
  /\ MonthOpen \in Seq(Check) /\ NoChildren \in Seq(Check)
  /\ \A a \in AllocIds : Belongs(a) \in Seq(Check)
BY DEF MonthOpen, NoChildren, Belongs, Check

(* A request with a well-formed job is accepted into well-formed state.    *)
LEMMA AcceptTyped ==
  ASSUME TypeInv, NEW h \in Handlers, NEW job, Accept(h, job), Carries(job)
  PROVE  TypeInv'
<1>1. UNCHANGED tables /\ jobs' = [jobs EXCEPT ![h] = job] /\ received' = received + 1
      /\ received < MaxRequests
  BY DEF Accept
<1>2. jobs' \in [Handlers -> Job] /\ \A g \in Handlers : Carries(jobs'[g])
  BY <1>1 DEF TypeInv, TypeOK, Carries
<1>3. received' \in 0..MaxRequests
  BY <1>1, AmountsAssumption DEF TypeInv, TypeOK
<1> QED
  BY <1>1, <1>2, <1>3 DEF TypeInv, TypeOK, IsTable, tables

(* Every handler fills in a well-formed job.                               *)
LEMMA ReceiveTyped ==
  ASSUME TypeInv, NEW h \in Handlers, Receive(h)
  PROVE  TypeInv'
<1> DEFINE M == MonthIds \cup {None}
           R == IncomeIds \cup AllocIds \cup TxnIds \cup {None}
           A == AllocIds \cup {None}
           P == Seq(Part)
           I == Int
           V == Nat
           C == Seq(Check)
<1>a. Job = [op : Ops, month : M, row : R, alloc : A, name : AllocNames, amount : I,
             opening : I, was : I, relevant : BOOLEAN, parts : P, todo : C]
  BY DEF Job
<1>b. /\ \A m \in DOMAIN months : /\ m \in M
                                  /\ months[m].wallet \in I /\ months[m].opening \in I
      /\ \A i \in DOMAIN incomes : /\ i \in R /\ incomes[i].month \in M
                                   /\ incomes[i].amount \in V
      /\ \A a \in DOMAIN allocs : /\ a \in R /\ allocs[a].month \in M
                                  /\ allocs[a].budget \in V /\ allocs[a].name \in AllocNames
      /\ \A t \in DOMAIN txns : /\ t \in R /\ txns[t].month \in M
                                /\ txns[t].alloc \in AllocIds /\ txns[t].amount \in V
  BY DEF TypeInv, TypeOK, IsTable, MonthRow, IncomeRow, AllocRow, TxnRow
<1>c. /\ Amounts \subseteq V /\ Budgets \subseteq V /\ Balances \subseteq I /\ V \subseteq I /\ 0 \in V
      /\ Names \subseteq AllocNames /\ AllocIds \subseteq A
  BY AmountsAssumption DEF AllocNames
<1>d. MonthOpen \in C /\ NoChildren \in C /\ \A a \in AllocIds : Belongs(a) \in C
  BY ChecksTyped
<1>e. Idle \in Job
  BY IdleCarries
<1>0. OpenMonths \subseteq DOMAIN months
  BY DEF OpenMonths
<1>f. \A j : Carries(j) <=> j \in Job /\ (j.op \in Amounting => j.amount \in V)
  BY DEF Carries
<1> HIDE DEF M, R, A, P, C, I, V
<1>x. \A j : Carries(j) /\ Accept(h, j) => TypeInv'
  BY AcceptTyped
<1>1. CASE ReceiveUpdateMonth(h)
  <2>1. PICK m \in OpenMonths : \E opening \in Balances \cup {months[m].opening}, wallet \in Balances \cup {months[m].wallet} :
          Accept(h, [Idle EXCEPT !.op = "UpdateMonth", !.month = m, !.opening = opening,
            !.amount = wallet, !.was = months[m].wallet])
    BY <1>1, Zenon DEF ReceiveUpdateMonth
  <2>2. PICK opening \in Balances \cup {months[m].opening}, wallet \in Balances \cup {months[m].wallet} :
          Accept(h, [Idle EXCEPT !.op = "UpdateMonth", !.month = m, !.opening = opening,
            !.amount = wallet, !.was = months[m].wallet])
    BY <2>1, Zenon
  <2>3. Carries([Idle EXCEPT !.op = "UpdateMonth", !.month = m, !.opening = opening,
            !.amount = wallet, !.was = months[m].wallet])
    BY <1>a, <1>b, <1>c, <1>d, <1>e, <1>f, <1>0 DEF Amounting, Ops
  <2> QED
    BY <1>x, <2>2, <2>3
<1>2. CASE ReceiveDeleteMonth(h)
  <2>1. PICK m \in DOMAIN months :
          Accept(h, [Idle EXCEPT !.op = "DeleteMonth", !.month = m])
    BY <1>2, Zenon DEF ReceiveDeleteMonth
  <2>2. Carries([Idle EXCEPT !.op = "DeleteMonth", !.month = m])
    BY <1>a, <1>b, <1>c, <1>d, <1>e, <1>f, <1>0 DEF Amounting, Ops
  <2> QED
    BY <1>x, <2>1, <2>2
<1>3. CASE ReceiveCloseMonth(h)
  <2>1. PICK m \in OpenMonths :
          Accept(h, [Idle EXCEPT !.op = "CloseMonth", !.month = m, !.was = months[m].wallet])
    BY <1>3, Zenon DEF ReceiveCloseMonth
  <2>2. Carries([Idle EXCEPT !.op = "CloseMonth", !.month = m, !.was = months[m].wallet])
    BY <1>a, <1>b, <1>c, <1>d, <1>e, <1>f, <1>0 DEF Amounting, Ops
  <2> QED
    BY <1>x, <2>1, <2>2
<1>4. CASE ReceiveReopenMonth(h)
  <2>1. PICK m \in DOMAIN months \ OpenMonths :
          Accept(h, [Idle EXCEPT !.op = "ReopenMonth", !.month = m])
    BY <1>4, Zenon DEF ReceiveReopenMonth
  <2>2. Carries([Idle EXCEPT !.op = "ReopenMonth", !.month = m])
    BY <1>a, <1>b, <1>c, <1>d, <1>e, <1>f, <1>0 DEF Amounting, Ops
  <2> QED
    BY <1>x, <2>1, <2>2
<1>5. CASE ReceiveCreateIncome(h)
  <2>1. PICK m \in OpenMonths, amount \in Amounts \cup {0} :
          Accept(h, [Idle EXCEPT !.op = "CreateIncome", !.month = m, !.amount = amount])
    BY <1>5, Zenon DEF ReceiveCreateIncome
  <2>2. Carries([Idle EXCEPT !.op = "CreateIncome", !.month = m, !.amount = amount])
    BY <1>a, <1>b, <1>c, <1>d, <1>e, <1>f, <1>0 DEF Amounting, Ops
  <2> QED
    BY <1>x, <2>1, <2>2
<1>6. CASE ReceiveUpdateIncome(h)
  <2>1. PICK i \in DOMAIN incomes : \E amount \in Amounts \cup {0, incomes[i].amount} :
          Accept(h, [Idle EXCEPT !.op = "UpdateIncome", !.month = incomes[i].month, !.row = i,
            !.amount = amount, !.was = incomes[i].amount, !.todo = MonthOpen])
    BY <1>6, Zenon DEF ReceiveUpdateIncome
  <2>2. PICK amount \in Amounts \cup {0, incomes[i].amount} :
          Accept(h, [Idle EXCEPT !.op = "UpdateIncome", !.month = incomes[i].month, !.row = i,
            !.amount = amount, !.was = incomes[i].amount, !.todo = MonthOpen])
    BY <2>1, Zenon
  <2>3. Carries([Idle EXCEPT !.op = "UpdateIncome", !.month = incomes[i].month, !.row = i,
            !.amount = amount, !.was = incomes[i].amount, !.todo = MonthOpen])
    BY <1>a, <1>b, <1>c, <1>d, <1>e, <1>f, <1>0 DEF Amounting, Ops
  <2> QED
    BY <1>x, <2>2, <2>3
<1>7. CASE ReceiveDeleteIncome(h)
  <2>1. PICK i \in DOMAIN incomes :
          Accept(h, [Idle EXCEPT !.op = "DeleteIncome", !.month = incomes[i].month, !.row = i,
            !.was = incomes[i].amount, !.todo = MonthOpen])
    BY <1>7, Zenon DEF ReceiveDeleteIncome
  <2>2. Carries([Idle EXCEPT !.op = "DeleteIncome", !.month = incomes[i].month, !.row = i,
            !.was = incomes[i].amount, !.todo = MonthOpen])
    BY <1>a, <1>b, <1>c, <1>d, <1>e, <1>f, <1>0 DEF Amounting, Ops
  <2> QED
    BY <1>x, <2>1, <2>2
<1>8. CASE ReceiveCreateAllocation(h)
  <2>1. PICK m \in OpenMonths, budget \in Budgets, name \in Names :
          Accept(h, [Idle EXCEPT !.op = "CreateAllocation", !.month = m, !.amount = budget,
            !.name = name])
    BY <1>8, Zenon DEF ReceiveCreateAllocation
  <2>2. Carries([Idle EXCEPT !.op = "CreateAllocation", !.month = m, !.amount = budget,
            !.name = name])
    BY <1>a, <1>b, <1>c, <1>d, <1>e, <1>f, <1>0 DEF Amounting, Ops
  <2> QED
    BY <1>x, <2>1, <2>2
<1>9. CASE ReceiveUpdateAllocation(h)
  <2>1. PICK a \in DOMAIN allocs : \E budget \in Budgets \cup {allocs[a].budget}, name \in Names \cup {allocs[a].name} :
          Accept(h, [Idle EXCEPT !.op = "UpdateAllocation", !.month = allocs[a].month, !.row = a,
            !.amount = budget, !.name = name, !.todo = MonthOpen])
    BY <1>9, Zenon DEF ReceiveUpdateAllocation
  <2>2. PICK budget \in Budgets \cup {allocs[a].budget}, name \in Names \cup {allocs[a].name} :
          Accept(h, [Idle EXCEPT !.op = "UpdateAllocation", !.month = allocs[a].month, !.row = a,
            !.amount = budget, !.name = name, !.todo = MonthOpen])
    BY <2>1, Zenon
  <2>3. Carries([Idle EXCEPT !.op = "UpdateAllocation", !.month = allocs[a].month, !.row = a,
            !.amount = budget, !.name = name, !.todo = MonthOpen])
    BY <1>a, <1>b, <1>c, <1>d, <1>e, <1>f, <1>0 DEF Amounting, Ops
  <2> QED
    BY <1>x, <2>2, <2>3
<1>10. CASE ReceiveDeleteAllocation(h)
  <2>1. PICK a \in DOMAIN allocs :
          Accept(h, [Idle EXCEPT !.op = "DeleteAllocation", !.month = allocs[a].month,
            !.row = a, !.todo = MonthOpen])
    BY <1>10, Zenon DEF ReceiveDeleteAllocation
  <2>2. Carries([Idle EXCEPT !.op = "DeleteAllocation", !.month = allocs[a].month,
            !.row = a, !.todo = MonthOpen])
    BY <1>a, <1>b, <1>c, <1>d, <1>e, <1>f, <1>0 DEF Amounting, Ops
  <2> QED
    BY <1>x, <2>1, <2>2
<1>11. CASE ReceiveCreateTransaction(h)
  <2>1. PICK m \in OpenMonths, a \in AllocIds, amount \in Amounts :
          Accept(h, [Idle EXCEPT !.op = "CreateTransaction", !.month = m, !.alloc = a,
            !.amount = amount, !.todo = Belongs(a)])
    BY <1>11, Zenon DEF ReceiveCreateTransaction
  <2>2. Carries([Idle EXCEPT !.op = "CreateTransaction", !.month = m, !.alloc = a,
            !.amount = amount, !.todo = Belongs(a)])
    BY <1>a, <1>b, <1>c, <1>d, <1>e, <1>f, <1>0 DEF Amounting, Ops
  <2> QED
    BY <1>x, <2>1, <2>2
<1>12. CASE ReceiveUpdateTransaction(h)
  <2>1. PICK t \in DOMAIN txns, patch \in SUBSET {"amount", "allocation"} : \E amount \in IF "amount" \in patch THEN Amounts ELSE {txns[t].amount},
           a \in IF "allocation" \in patch THEN AllocIds ELSE {txns[t].alloc} :
          Accept(h, [Idle EXCEPT !.op = "UpdateTransaction", !.month = txns[t].month,
            !.row = t, !.alloc = a, !.amount = amount, !.was = txns[t].amount,
            !.relevant = txns[t].parent = None, !.todo = UpdateChecks(t, patch, a)])
    BY <1>12 DEF ReceiveUpdateTransaction
  <2>2. PICK amount \in IF "amount" \in patch THEN Amounts ELSE {txns[t].amount},
           a \in IF "allocation" \in patch THEN AllocIds ELSE {txns[t].alloc} :
          Accept(h, [Idle EXCEPT !.op = "UpdateTransaction", !.month = txns[t].month,
            !.row = t, !.alloc = a, !.amount = amount, !.was = txns[t].amount,
            !.relevant = txns[t].parent = None, !.todo = UpdateChecks(t, patch, a)])
    BY <2>1, Zenon
  <2>3. a \in AllocIds /\ amount \in V
    BY <1>b, <1>c
  <2>4. UpdateChecks(t, patch, a) \in C
    BY <2>3, ChecksTyped, ConcatProperties DEF UpdateChecks, C
  <2>5. Carries([Idle EXCEPT !.op = "UpdateTransaction", !.month = txns[t].month,
            !.row = t, !.alloc = a, !.amount = amount, !.was = txns[t].amount,
            !.relevant = txns[t].parent = None, !.todo = UpdateChecks(t, patch, a)])
    BY <1>a, <1>b, <1>c, <1>d, <1>e, <1>f, <2>3, <2>4 DEF Amounting, Ops
  <2> QED
    BY <1>x, <2>2, <2>5
<1>13. CASE ReceiveDeleteTransaction(h)
  <2>1. PICK t \in DOMAIN txns :
          Accept(h, [Idle EXCEPT !.op = "DeleteTransaction", !.month = txns[t].month,
            !.row = t, !.was = txns[t].amount, !.todo = MonthOpen])
    BY <1>13, Zenon DEF ReceiveDeleteTransaction
  <2>2. Carries([Idle EXCEPT !.op = "DeleteTransaction", !.month = txns[t].month,
            !.row = t, !.was = txns[t].amount, !.todo = MonthOpen])
    BY <1>a, <1>b, <1>c, <1>d, <1>e, <1>f, <1>0 DEF Amounting, Ops
  <2> QED
    BY <1>x, <2>1, <2>2
<1>14. CASE ReceiveSplitTransaction(h)
  <2>1. PICK t \in DOMAIN txns : \E parts \in SplitInputs(txns[t].amount) :
          Accept(h, [Idle EXCEPT !.op = "SplitTransaction", !.month = txns[t].month, !.row = t,
            !.was = txns[t].amount, !.parts = parts,
            !.todo = MonthOpen \o NoChildren \o [i \in DOMAIN parts |-> Belongs(parts[i].alloc)[1]]])
    BY <1>14, Zenon DEF ReceiveSplitTransaction
  <2>2. PICK parts \in SplitInputs(txns[t].amount) :
          Accept(h, [Idle EXCEPT !.op = "SplitTransaction", !.month = txns[t].month, !.row = t,
            !.was = txns[t].amount, !.parts = parts,
            !.todo = MonthOpen \o NoChildren \o [i \in DOMAIN parts |-> Belongs(parts[i].alloc)[1]]])
    BY <2>1, Zenon
  <2>3. PICK k \in Nat : parts \in [1..k -> Part]
    BY <2>2 DEF SplitInputs, Part
  <2>4. parts \in P
    BY <2>3 DEF P
  <2>5. [i \in DOMAIN parts |-> Belongs(parts[i].alloc)[1]] \in Seq(Check)
    <3>1. \A i \in 1..k : Belongs(parts[i].alloc)[1] \in Check
      BY <2>3 DEF Belongs, Check, Part
    <3> QED
      BY <2>3, <3>1
  <2>6. MonthOpen \o NoChildren \o [i \in DOMAIN parts |-> Belongs(parts[i].alloc)[1]] \in C
    BY <2>5, ChecksTyped, ConcatProperties DEF C
  <2>7. Carries([Idle EXCEPT !.op = "SplitTransaction", !.month = txns[t].month, !.row = t,
            !.was = txns[t].amount, !.parts = parts,
            !.todo = MonthOpen \o NoChildren \o [i \in DOMAIN parts |-> Belongs(parts[i].alloc)[1]]])
    BY <1>a, <1>b, <1>c, <1>e, <1>f, <2>4, <2>6 DEF Amounting, Ops
  <2> QED
    BY <1>x, <2>2, <2>7
<1>15. CASE ReceiveCreateBalanceUpdate(h)
  <2>1. PICK m \in OpenMonths, balance \in Balances :
          Accept(h, [Idle EXCEPT !.op = "CreateBalanceUpdate", !.month = m,
            !.amount = balance, !.was = months[m].wallet])
    BY <1>15, Zenon DEF ReceiveCreateBalanceUpdate
  <2>2. Carries([Idle EXCEPT !.op = "CreateBalanceUpdate", !.month = m,
            !.amount = balance, !.was = months[m].wallet])
    BY <1>a, <1>b, <1>c, <1>d, <1>e, <1>f, <1>0 DEF Amounting, Ops
  <2> QED
    BY <1>x, <2>1, <2>2
<1> QED
  BY <1>1, <1>2, <1>3, <1>4, <1>5, <1>6, <1>7, <1>8, <1>9, <1>10, <1>11, <1>12, <1>13,
     <1>14, <1>15, Receive(h) DEF Receive

(* A check keeps the job well formed.                                      *)
LEMMA MakeCheckTyped ==
  ASSUME TypeInv, NEW h \in Handlers, MakeCheck(h)
  PROVE  TypeInv'
<1> DEFINE j == jobs[h]
<1>1. /\ UNCHANGED <<tables, received>> /\ j.todo # <<>>
      /\ \E relevant \in BOOLEAN :
           jobs' = [jobs EXCEPT ![h].todo = Tail(@), ![h].relevant = relevant]
  <2>1. j \in Job /\ jobs \in [Handlers -> Job]
    BY DEF TypeInv, TypeOK
  <2>2. ASSUME Passed(h)
        PROVE  jobs' = [jobs EXCEPT ![h].todo = Tail(@), ![h].relevant = j.relevant]
    BY <2>1, <2>2 DEF Passed, Job
  <2>3. j.relevant \in BOOLEAN
    BY <2>1 DEF Job
  <2>4. CASE EnsureMonthOpen(h)
    BY <2>2, <2>3, <2>4 DEF EnsureMonthOpen, NextCheckIs, Passed
  <2>5. CASE EnsureAllocationBelongsToMonth(h)
    BY <2>2, <2>3, <2>5 DEF EnsureAllocationBelongsToMonth, NextCheckIs, Passed
  <2>6. CASE TransactionHasSplitChildren(h)
    BY <2>2, <2>3, <2>6 DEF TransactionHasSplitChildren, NextCheckIs, Passed
  <2> QED
    BY <2>4, <2>5, <2>6, MakeCheck(h) DEF MakeCheck
<1>2. PICK relevant \in BOOLEAN :
        jobs' = [jobs EXCEPT ![h].todo = Tail(@), ![h].relevant = relevant]
  BY <1>1
<1>3. Tail(j.todo) \in Seq(Check)
  BY <1>1, HeadTailProperties DEF TypeInv, TypeOK, Job
<1>4. jobs' = [jobs EXCEPT ![h] = [j EXCEPT !.todo = Tail(j.todo), !.relevant = relevant]]
  BY <1>2
<1>5. [j EXCEPT !.todo = Tail(j.todo), !.relevant = relevant] \in Job
  BY <1>3 DEF TypeInv, TypeOK, Job
<1>6. Carries([j EXCEPT !.todo = Tail(j.todo), !.relevant = relevant])
  <2>1. Carries(j)
    BY DEF TypeInv
  <2> QED
    BY <1>5, <2>1 DEF Carries, Job
<1> HIDE DEF j
<1>7. jobs' \in [Handlers -> Job] /\ \A g \in Handlers : Carries(jobs'[g])
  BY <1>4, <1>5, <1>6 DEF TypeInv, TypeOK
<1> QED
  BY <1>1, <1>7 DEF TypeInv, TypeOK, IsTable, tables

(* An answered request leaves an idle handler.                             *)
LEMMA AnsweredTyped ==
  ASSUME TypeInv, NEW h \in Handlers, jobs' = [jobs EXCEPT ![h] = Idle]
  PROVE  jobs' \in [Handlers -> Job] /\ \A g \in Handlers : Carries(jobs'[g])
BY IdleCarries DEF TypeInv, TypeOK

(* So does a refused one.                                                  *)
LEMMA RefuseTyped ==
  ASSUME TypeInv, NEW h \in Handlers, Refuse(h)
  PROVE  TypeInv'
BY AnsweredTyped DEF Refuse, TypeInv, TypeOK, IsTable, tables

-----------------------------------------------------------------------------
(* Typing: tables.                                                         *)

(* A table stays one when rows are deleted,                                *)
LEMMA TableCut ==
  ASSUME NEW f, NEW ids, NEW row, IsTable(f, ids, row), NEW dead
  PROVE  IsTable(Without(f, dead), ids, row)
BY DEF IsTable, Without, Restrict

(* when a row is inserted,                                                 *)
LEMMA TablePut ==
  ASSUME NEW f, NEW ids, NEW row, IsTable(f, ids, row), NEW k \in ids, NEW v \in row
  PROVE  IsTable(Put(f, k, v), ids, row)
BY DEF IsTable, Put

(* and when a row is replaced.                                             *)
LEMMA TableSet ==
  ASSUME NEW f, NEW ids, NEW row, IsTable(f, ids, row), NEW k, NEW v,
         k \in DOMAIN f => v \in row
  PROVE  IsTable([f EXCEPT ![k] = v], ids, row)
BY DEF IsTable

(* Amounts add up to a number.                                             *)
LEMMA AmountsInt ==
  ASSUME TypeOK, NEW ts \in SUBSET DOMAIN txns
  PROVE  AmountOf(ts) \in Int
<1> DEFINE F == [t \in DOMAIN txns |-> txns[t].amount]
<1>1. IsFiniteSet(ts)
  BY FiniteIdsAssumption, FS_Subset DEF TypeOK, IsTable
<1>2. \A t \in ts : F[t] \in Int
  BY DEF TypeOK, IsTable, TxnRow
<1> HIDE DEF F
<1>3. Sum(F, ts) \in Int
  BY <1>1, <1>2, SumInt
<1> QED
  BY <1>3, SumOnSet DEF AmountOf, F

(* Moving a balance by a number keeps the months well formed.              *)
LEMMA DeltaTyped ==
  ASSUME TypeOK, NEW m, NEW delta \in Int, ApplyWalletBalanceDelta(m, delta)
  PROVE  IsTable(months, MonthIds, MonthRow)'
<1> DEFINE row == [months[m] EXCEPT !.wallet = @ + delta]
<1>1. IsTable(months, MonthIds, MonthRow)
  BY DEF TypeOK
<1>2. m \in DOMAIN months => row \in MonthRow
  <2>1. m \in DOMAIN months => months[m] \in MonthRow /\ months[m].wallet + delta \in Int
    BY <1>1 DEF IsTable, MonthRow
  <2> QED
    BY <2>1 DEF MonthRow
<1>3. months' = [months EXCEPT ![m] = row]
  BY DEF ApplyWalletBalanceDelta
<1> HIDE DEF row
<1> QED
  BY <1>1, <1>2, <1>3, TableSet

(* Deleting transactions keeps transactions and split links well formed.   *)
LEMMA DeadTyped ==
  ASSUME TypeOK, NEW dead, DeleteTxnRows(dead)
  PROVE  IsTable(txns, TxnIds, TxnRow)' /\ IsTable(split, TxnIds, TxnIds)'
<1>1. ASSUME NEW t \in DOMAIN txns PROVE [txns[t] EXCEPT !.parent = None] \in TxnRow
  <2>1. txns[t] \in TxnRow
    BY DEF TypeOK, IsTable
  <2> QED
    BY <2>1 DEF TxnRow
<1>2. IsTable(txns, TxnIds, TxnRow)'
  BY <1>1 DEF TypeOK, IsTable, DeleteTxnRows
<1>3. IsTable(split, TxnIds, TxnIds)'
  BY TableCut DEF TypeOK, DeleteTxnRows
<1> QED
  BY <1>2, <1>3

TablesTyped ==
  /\ IsTable(months, MonthIds, MonthRow)
  /\ IsTable(incomes, IncomeIds, IncomeRow)
  /\ IsTable(allocs, AllocIds, AllocRow)
  /\ IsTable(txns, TxnIds, TxnRow)
  /\ IsTable(split, TxnIds, TxnIds)
  /\ updates \subseteq UpdateRow

(* The writes to a month row keep the tables well formed;                  *)
LEMMA MonthsTyped ==
  ASSUME TypeInv, NEW h \in Handlers,
         UpdateMonth(h) \/ CloseMonth(h) \/ ReopenMonth(h) \/ DeleteMonth(h)
  PROVE  TablesTyped'
<1> DEFINE j == jobs[h]
<1>1. j.opening \in Int /\ j.amount \in Int /\ j.was \in Int
  BY DEF TypeInv, Carries, Job
<1>2. TablesTyped
  BY DEF TypeInv, TypeOK, TablesTyped
<1>3. j.month \in DOMAIN months => months[j.month] \in MonthRow
  BY <1>2 DEF TablesTyped, IsTable
<1>4. CASE UpdateMonth(h)
  <2> DEFINE row == [months[j.month] EXCEPT !.opening = j.opening, !.wallet = j.amount]
  <2>1. months' = [months EXCEPT ![j.month] = row] /\ UNCHANGED <<incomes, allocs, txns, split, updates>>
    BY <1>4 DEF UpdateMonth
  <2>2. j.month \in DOMAIN months => row \in MonthRow
    BY <1>1, <1>3 DEF MonthRow
  <2> HIDE DEF row, j
  <2> QED
    BY <1>2, <2>1, <2>2, TableSet DEF TablesTyped
<1>5. CASE CloseMonth(h)
  <2> DEFINE row == [months[j.month] EXCEPT !.status = "closed", !.closedWallet = j.was]
  <2>1. months' = [months EXCEPT ![j.month] = row] /\ UNCHANGED <<incomes, allocs, txns, split, updates>>
    BY <1>5 DEF CloseMonth
  <2>2. j.month \in DOMAIN months => row \in MonthRow
    BY <1>1, <1>3 DEF MonthRow
  <2> HIDE DEF row, j
  <2> QED
    BY <1>2, <2>1, <2>2, TableSet DEF TablesTyped
<1>6. CASE ReopenMonth(h)
  <2> DEFINE row == [months[j.month] EXCEPT !.status = "open", !.closedWallet = None]
  <2>1. months' = [months EXCEPT ![j.month] = row] /\ UNCHANGED <<incomes, allocs, txns, split, updates>>
    BY <1>6 DEF ReopenMonth
  <2>2. j.month \in DOMAIN months => row \in MonthRow
    BY <1>3 DEF MonthRow
  <2> HIDE DEF row, j
  <2> QED
    BY <1>2, <2>1, <2>2, TableSet DEF TablesTyped
<1>7. CASE DeleteMonth(h)
  <2>1. PICK dead : DeleteTxnRows(dead)
    BY <1>7 DEF DeleteMonth
  <2>2. PICK dm, di, da : /\ months' = Without(months, dm) /\ incomes' = Without(incomes, di)
                          /\ allocs' = Without(allocs, da)
    BY <1>7 DEF DeleteMonth
  <2>3. updates' \subseteq UpdateRow
    BY <1>2, <1>7 DEF DeleteMonth, TablesTyped
  <2> QED
    BY <1>2, <2>1, <2>2, <2>3, TableCut, DeadTyped DEF TypeInv, TablesTyped
<1> QED
  BY <1>4, <1>5, <1>6, <1>7

-----------------------------------------------------------------------------
(* Typing: writes.                                                         *)

(* so do a new month with what is prepared for it,                         *)
LEMMA CreateMonthTyped ==
  ASSUME TypeInv, NEW h \in Handlers, CreateMonth(h)
  PROVE  TablesTyped' /\ jobs' = jobs /\ received' \in 0..MaxRequests
<1>1. PICK m \in FreshMonths, key \in MonthKeys, opening \in Balances,
         given \in Balances \cup {None}, I \in SUBSET FreshIncomes, A \in SUBSET FreshAllocs :
      \E amount \in [I -> Amounts \cup {0}], budget \in [A -> Budgets], name \in [A -> Names] :
        /\ jobs[h] = Idle
        /\ received < MaxRequests
        /\ received' = received + 1
        /\ \A n \in DOMAIN months : months[n].key # key
        /\ months' = Put(months, m,
                       [key |-> key, opening |-> opening,
                        wallet |-> IF given = None THEN opening + SumFunction(amount) ELSE given,
                        status |-> "open", closedWallet |-> None])
        /\ incomes' = [i \in DOMAIN incomes \cup I |->
                         IF i \in I THEN [month |-> m, amount |-> amount[i]] ELSE incomes[i]]
        /\ allocs' = [a \in DOMAIN allocs \cup A |->
                        IF a \in A THEN [month |-> m, budget |-> budget[a], name |-> name[a]]
                        ELSE allocs[a]]
        /\ UNCHANGED <<txns, split, updates, jobs>>
  BY DEF CreateMonth
<1>2. PICK amount \in [I -> Amounts \cup {0}], budget \in [A -> Budgets], name \in [A -> Names] :
        /\ received < MaxRequests
        /\ received' = received + 1
        /\ months' = Put(months, m,
                       [key |-> key, opening |-> opening,
                        wallet |-> IF given = None THEN opening + SumFunction(amount) ELSE given,
                        status |-> "open", closedWallet |-> None])
        /\ incomes' = [i \in DOMAIN incomes \cup I |->
                         IF i \in I THEN [month |-> m, amount |-> amount[i]] ELSE incomes[i]]
        /\ allocs' = [a \in DOMAIN allocs \cup A |->
                        IF a \in A THEN [month |-> m, budget |-> budget[a], name |-> name[a]]
                        ELSE allocs[a]]
        /\ UNCHANGED <<txns, split, updates, jobs>>
  BY <1>1
<1>a. Amounts \cup {0} \subseteq Nat
  BY AmountsAssumption
<1>3. SumFunction(amount) \in Int
  <2>1. IsFiniteSet(I)
    BY FiniteIdsAssumption, FS_Subset DEF FreshIncomes
  <2>2. \A i \in I : amount[i] \in Int
    BY <1>a
  <2>3. Sum(amount, I) \in Int
    BY <2>1, <2>2, SumInt
  <2> QED
    BY <2>3, SumOfAll
<1>4. TablesTyped
  BY DEF TypeInv, TypeOK, TablesTyped
<1>5. IsTable(months, MonthIds, MonthRow)'
  <2> DEFINE wallet == IF given = None THEN opening + SumFunction(amount) ELSE given
  <2>1. opening \in Int /\ wallet \in Int
    BY <1>3, AmountsAssumption
  <2> HIDE DEF wallet
  <2>2. [key |-> key, opening |-> opening, wallet |-> wallet,
         status |-> "open", closedWallet |-> None] \in MonthRow
    BY <2>1 DEF MonthRow
  <2> QED
    BY <1>2, <1>4, <2>2, TablePut DEF TablesTyped, FreshMonths, wallet
<1>6. IsTable(incomes, IncomeIds, IncomeRow)'
  <2>1. \A i \in I : [month |-> m, amount |-> amount[i]] \in IncomeRow
    BY <1>a DEF IncomeRow, FreshMonths
  <2> QED
    BY <1>2, <1>4, <2>1 DEF TablesTyped, FreshIncomes, IsTable
<1>7. IsTable(allocs, AllocIds, AllocRow)'
  <2>1. \A a \in A : [month |-> m, budget |-> budget[a], name |-> name[a]] \in AllocRow
    BY AmountsAssumption DEF AllocRow, FreshMonths, AllocNames
  <2> QED
    BY <1>2, <1>4, <2>1 DEF TablesTyped, FreshAllocs, IsTable
<1>8. received' \in 0..MaxRequests
  BY <1>2, AmountsAssumption DEF TypeInv, TypeOK
<1> QED
  BY <1>2, <1>4, <1>5, <1>6, <1>7, <1>8 DEF TablesTyped

(* the writes to income items,                                             *)
LEMMA IncomesTyped ==
  ASSUME TypeInv, NEW h \in Handlers, CreateIncome(h) \/ UpdateIncome(h) \/ DeleteIncome(h)
  PROVE  TablesTyped'
<1> DEFINE j == jobs[h]
<1>1. TablesTyped /\ TypeOK /\ Carries(j) /\ j.was \in Int
  BY DEF TypeInv, TypeOK, TablesTyped, Carries, Job
<1>2. CASE CreateIncome(h)
  <2>1. PICK i \in FreshIncomes :
          /\ j.op = "CreateIncome" /\ j.month \in DOMAIN months
          /\ incomes' = Put(incomes, i, [month |-> j.month, amount |-> j.amount])
          /\ ApplyWalletBalanceDelta(j.month, j.amount)
          /\ UNCHANGED <<allocs, txns, split, updates>>
    BY <1>2 DEF CreateIncome, Writes
  <2>2. j.amount \in Nat /\ j.month \in MonthIds
    BY <1>1, <2>1 DEF Carries, Amounting, TablesTyped, IsTable
  <2> HIDE DEF j
  <2>3. [month |-> j.month, amount |-> j.amount] \in IncomeRow
    BY <2>2 DEF IncomeRow
  <2>4. IsTable(incomes, IncomeIds, IncomeRow)'
    BY <1>1, <2>1, <2>3, TablePut DEF TablesTyped, FreshIncomes
  <2>5. IsTable(months, MonthIds, MonthRow)'
    BY <1>1, <2>1, <2>2, DeltaTyped
  <2> QED
    BY <1>1, <2>1, <2>4, <2>5 DEF TablesTyped
<1>3. CASE UpdateIncome(h)
  <2>1. /\ j.op = "UpdateIncome" /\ j.row \in DOMAIN incomes
        /\ incomes' = [incomes EXCEPT ![j.row] = [incomes[j.row] EXCEPT !.amount = j.amount]]
        /\ ApplyWalletBalanceDelta(j.month, j.amount - j.was)
        /\ UNCHANGED <<allocs, txns, split, updates>>
    BY <1>3 DEF UpdateIncome, Writes
  <2>2. j.amount \in Nat
    BY <1>1, <2>1 DEF Carries, Amounting
  <2> HIDE DEF j
  <2>3. incomes[j.row] \in IncomeRow
    BY <1>1, <2>1 DEF TablesTyped, IsTable
  <2>4. [incomes[j.row] EXCEPT !.amount = j.amount] \in IncomeRow
    BY <2>2, <2>3 DEF IncomeRow
  <2>5. IsTable(incomes, IncomeIds, IncomeRow)'
    BY <1>1, <2>1, <2>4, TableSet DEF TablesTyped
  <2>6. IsTable(months, MonthIds, MonthRow)'
    BY <1>1, <2>1, <2>2, DeltaTyped
  <2> QED
    BY <1>1, <2>1, <2>5, <2>6 DEF TablesTyped
<1>4. CASE DeleteIncome(h)
  <2>1. /\ incomes' = Without(incomes, {j.row})
        /\ ApplyWalletBalanceDelta(j.month, -j.was)
        /\ UNCHANGED <<allocs, txns, split, updates>>
    BY <1>4 DEF DeleteIncome
  <2> HIDE DEF j
  <2>2. IsTable(months, MonthIds, MonthRow)'
    BY <1>1, <2>1, DeltaTyped
  <2> QED
    BY <1>1, <2>1, <2>2, TableCut DEF TablesTyped
<1> QED
  BY <1>2, <1>3, <1>4

(* to allocations,                                                         *)
LEMMA AllocsTyped ==
  ASSUME TypeInv, NEW h \in Handlers,
         CreateAllocation(h) \/ UpdateAllocation(h) \/ DeleteAllocation(h)
  PROVE  TablesTyped'
<1> DEFINE j == jobs[h]
<1>1. TablesTyped /\ TypeOK /\ Carries(j) /\ j.name \in AllocNames
  BY DEF TypeInv, TypeOK, TablesTyped, Carries, Job
<1>2. CASE CreateAllocation(h)
  <2>1. PICK a \in FreshAllocs :
          /\ j.op = "CreateAllocation" /\ j.month \in DOMAIN months
          /\ allocs' = Put(allocs, a, [month |-> j.month, budget |-> j.amount, name |-> j.name])
          /\ UNCHANGED <<months, incomes, txns, split, updates>>
    BY <1>2 DEF CreateAllocation, Writes
  <2>2. j.amount \in Nat /\ j.month \in MonthIds
    BY <1>1, <2>1 DEF Carries, Amounting, TablesTyped, IsTable
  <2> HIDE DEF j
  <2>3. [month |-> j.month, budget |-> j.amount, name |-> j.name] \in AllocRow
    BY <1>1, <2>2 DEF AllocRow
  <2>4. IsTable(allocs, AllocIds, AllocRow)'
    BY <1>1, <2>1, <2>3, TablePut DEF TablesTyped, FreshAllocs
  <2> QED
    BY <1>1, <2>1, <2>4 DEF TablesTyped
<1>3. CASE UpdateAllocation(h)
  <2> DEFINE row == [allocs[j.row] EXCEPT !.budget = j.amount, !.name = j.name]
  <2>1. /\ j.op = "UpdateAllocation" /\ j.row \in DOMAIN allocs
        /\ allocs' = [allocs EXCEPT ![j.row] = row]
        /\ UNCHANGED <<months, incomes, txns, split, updates>>
    BY <1>3 DEF UpdateAllocation, Writes
  <2>2. j.amount \in Nat
    BY <1>1, <2>1 DEF Carries, Amounting
  <2> HIDE DEF j
  <2>3. allocs[j.row] \in AllocRow
    BY <1>1, <2>1 DEF TablesTyped, IsTable
  <2>4. row \in AllocRow
    BY <1>1, <2>2, <2>3 DEF AllocRow
  <2> HIDE DEF row
  <2>5. IsTable(allocs, AllocIds, AllocRow)'
    BY <1>1, <2>1, <2>4, TableSet DEF TablesTyped
  <2> QED
    BY <1>1, <2>1, <2>5 DEF TablesTyped
<1>4. CASE DeleteAllocation(h)
  <2>1. PICK dead : DeleteTxnRows(dead)
    BY <1>4 DEF DeleteAllocation
  <2>2. PICK da : allocs' = Without(allocs, da) /\ UNCHANGED <<months, incomes, updates>>
    BY <1>4 DEF DeleteAllocation
  <2> QED
    BY <1>1, <2>1, <2>2, TableCut, DeadTyped DEF TablesTyped
<1> QED
  BY <1>2, <1>3, <1>4

(* to transactions: an edit books on an allocation that exists,            *)
LEMMA TxnsTyped ==
  ASSUME TypeInv, IInv, NEW h \in Handlers,
         CreateTransaction(h) \/ UpdateTransaction(h) \/ DeleteTransaction(h)
  PROVE  TablesTyped'
<1> DEFINE j == jobs[h]
<1>1. TablesTyped /\ TypeOK /\ Carries(j) /\ j.was \in Int
  BY DEF TypeInv, TypeOK, TablesTyped, Carries, Job
<1>2. CASE CreateTransaction(h)
  <2>1. PICK t \in FreshTxns :
          /\ j.op = "CreateTransaction" /\ j.month \in DOMAIN months /\ j.alloc \in DOMAIN allocs
          /\ txns' = Put(txns, t, [month |-> j.month, alloc |-> j.alloc, amount |-> j.amount,
                                   kind |-> "spend", source |-> "manual", parent |-> None])
          /\ ApplyWalletBalanceDelta(j.month, -j.amount)
          /\ UNCHANGED <<incomes, allocs, split, updates>>
    BY <1>2 DEF CreateTransaction, Writes
  <2>2. j.amount \in Nat /\ j.month \in MonthIds /\ j.alloc \in AllocIds
    BY <1>1, <2>1 DEF Carries, Amounting, TablesTyped, IsTable
  <2> HIDE DEF j
  <2>3. [month |-> j.month, alloc |-> j.alloc, amount |-> j.amount,
         kind |-> "spend", source |-> "manual", parent |-> None] \in TxnRow
    BY <2>2 DEF TxnRow
  <2>4. IsTable(txns, TxnIds, TxnRow)'
    BY <1>1, <2>1, <2>3, TablePut DEF TablesTyped, FreshTxns
  <2>5. IsTable(months, MonthIds, MonthRow)'
    BY <1>1, <2>1, <2>2, DeltaTyped
  <2> QED
    BY <1>1, <2>1, <2>4, <2>5 DEF TablesTyped
<1>3. CASE UpdateTransaction(h)
  <2> DEFINE row == [txns[j.row] EXCEPT !.alloc = j.alloc, !.amount = j.amount]
             delta == IF j.relevant
                      THEN TransactionEditBalanceDelta(txns[j.row].kind, j.was, j.amount) ELSE 0
  <2>1. /\ j.op = "UpdateTransaction" /\ j.row \in DOMAIN txns /\ j.alloc \in DOMAIN allocs
        /\ txns' = [txns EXCEPT ![j.row] = row]
        /\ ApplyWalletBalanceDelta(j.month, delta)
        /\ UNCHANGED <<incomes, allocs, split, updates>>
    BY <1>3 DEF UpdateTransaction, Writes
  <2>2. j.amount \in Nat /\ j.alloc \in AllocIds
    BY <1>1, <2>1 DEF Carries, Amounting, TablesTyped, IsTable
  <2>3. delta \in Int
    BY <1>1, <2>2 DEF TransactionEditBalanceDelta
  <2> HIDE DEF j
  <2>4. txns[j.row] \in TxnRow
    BY <1>1, <2>1 DEF TablesTyped, IsTable
  <2>5. row \in TxnRow
    BY <2>2, <2>4 DEF TxnRow
  <2> HIDE DEF row, delta
  <2>6. IsTable(txns, TxnIds, TxnRow)'
    BY <1>1, <2>1, <2>5, TableSet DEF TablesTyped
  <2>7. IsTable(months, MonthIds, MonthRow)'
    BY <1>1, <2>1, <2>3, DeltaTyped
  <2> QED
    BY <1>1, <2>1, <2>6, <2>7 DEF TablesTyped
<1>4. CASE DeleteTransaction(h)
  <2> DEFINE children == SplitChildren(j.row)
             delta == IF children = {}
                      THEN TransactionDeleteBalanceDelta(txns[j.row].kind, j.was)
                      ELSE AmountOf(children)
  <2>1. /\ DeleteTxnRows(children \cup {j.row})
        /\ ApplyWalletBalanceDelta(j.month, delta)
        /\ UNCHANGED <<incomes, allocs, updates>>
    BY <1>4 DEF DeleteTransaction
  <2>2. TransactionDeleteBalanceDelta(txns[j.row].kind, j.was) \in Int
    BY <1>1 DEF TransactionDeleteBalanceDelta
  <2>3. AmountOf(children) \in Int
    BY <1>1, AmountsInt DEF SplitChildren, IInv, InOrder, SplitRecordsAgree
  <2> HIDE DEF children, j
  <2>4. delta \in Int
    BY <2>2, <2>3
  <2> HIDE DEF delta
  <2>5. IsTable(months, MonthIds, MonthRow)'
    BY <1>1, <2>1, <2>4, DeltaTyped
  <2> QED
    BY <1>1, <2>1, <2>5, DeadTyped DEF TablesTyped
<1> QED
  BY <1>2, <1>3, <1>4

(* the rows of a split,                                                    *)
LEMMA SplitTyped ==
  ASSUME TypeInv, IInv, NEW h \in Handlers, SplitTransaction(h)
  PROVE  TablesTyped'
<1> DEFINE j == jobs[h]
<1>1. PICK ids \in SUBSET FreshTxns : \E part \in [ids -> DOMAIN j.parts] :
        /\ j.op = "SplitTransaction"
        /\ j.row \in DOMAIN txns
        /\ \A i \in DOMAIN j.parts : j.parts[i].alloc \in DOMAIN allocs
        /\ txns' = [t \in DOMAIN txns \cup ids |->
                      IF t \in ids
                      THEN [month |-> j.month, alloc |-> j.parts[part[t]].alloc,
                            amount |-> j.parts[part[t]].amount,
                            kind |-> "spend", source |-> "split", parent |-> j.row]
                      ELSE txns[t]]
        /\ split' = [c \in DOMAIN split \cup ids |-> IF c \in ids THEN j.row ELSE split[c]]
        /\ UNCHANGED <<months, incomes, allocs, updates>>
  BY DEF SplitTransaction, Writes
<1>2. PICK part \in [ids -> DOMAIN j.parts] :
        txns' = [t \in DOMAIN txns \cup ids |->
                   IF t \in ids
                   THEN [month |-> j.month, alloc |-> j.parts[part[t]].alloc,
                         amount |-> j.parts[part[t]].amount,
                         kind |-> "spend", source |-> "split", parent |-> j.row]
                   ELSE txns[t]]
  BY <1>1
<1>3. TablesTyped
  BY DEF TypeInv, TypeOK, TablesTyped
<1>4. j.parts \in Seq(Part) /\ j.month \in MonthIds \cup {None}
  BY DEF TypeInv, Carries, Job
<1>5. j.row \in TxnIds /\ j.month \in MonthIds
  BY <1>1, <1>3 DEF TablesTyped, IsTable, IInv, ChecksStillHold, JobHolds, OnTransaction, TxnRow
<1> HIDE DEF j
<1>6. ASSUME NEW t \in ids
      PROVE  [month |-> j.month, alloc |-> j.parts[part[t]].alloc,
              amount |-> j.parts[part[t]].amount,
              kind |-> "spend", source |-> "split", parent |-> j.row] \in TxnRow
  <2>1. part[t] \in DOMAIN j.parts
    BY <1>2
  <2>2. j.parts[part[t]] \in Part
    BY <1>4, <2>1
  <2>3. j.parts[part[t]].alloc \in AllocIds /\ j.parts[part[t]].amount \in Nat
    BY <2>2, AmountsAssumption DEF Part
  <2> QED
    BY <1>5, <2>3 DEF TxnRow
<1>7. IsTable(txns, TxnIds, TxnRow)'
  <2>1. \A t \in DOMAIN txns' : txns'[t] \in TxnRow
    BY <1>2, <1>3, <1>6 DEF TablesTyped, IsTable
  <2>2. /\ DOMAIN txns' = DOMAIN txns \cup ids
        /\ txns' = [t \in DOMAIN txns' |-> txns'[t]]
    BY <1>2
  <2> QED
    BY <1>3, <2>1, <2>2 DEF TablesTyped, IsTable, FreshTxns
<1>8. IsTable(split, TxnIds, TxnIds)'
  <2>1. /\ split' = [c \in DOMAIN split' |-> split'[c]]
        /\ DOMAIN split' = DOMAIN split \cup ids
        /\ \A c \in DOMAIN split' : split'[c] = j.row \/ (c \in DOMAIN split /\ split'[c] = split[c])
    BY <1>1
  <2> QED
    BY <1>3, <1>5, <2>1 DEF TablesTyped, IsTable, FreshTxns
<1> QED
  BY <1>1, <1>3, <1>7, <1>8 DEF TablesTyped

(* and a reconciliation, whose amount is the size of the difference.       *)
LEMMA ReconciliationTyped ==
  ASSUME TypeInv, NEW h \in Handlers, CreateBalanceUpdate(h)
  PROVE  TablesTyped'
<1> DEFINE j == jobs[h]
           delta == j.amount - j.was
<1>1. TablesTyped /\ j.amount \in Int /\ j.was \in Int
  BY DEF TypeInv, TypeOK, TablesTyped, Carries, Job
<1>2. /\ j.month \in DOMAIN months
      /\ updates' = updates \cup {[month |-> j.month, previous |-> j.was, new |-> j.amount]}
      /\ months' = [months EXCEPT ![j.month] = [months[j.month] EXCEPT !.wallet = j.amount]]
      /\ UNCHANGED <<incomes, split>>
  BY DEF CreateBalanceUpdate
<1>3. UNCHANGED <<allocs, txns>> \/
      \E a \in ReconciliationAllocationIds(j.month), t \in FreshTxns :
        /\ allocs' = Put(allocs, a, [month |-> j.month, budget |-> 0, name |-> "reconciliation"])
        /\ txns' = Put(txns, t,
                     [month |-> j.month, alloc |-> a,
                      amount |-> ReconciliationAmount(delta),
                      kind |-> IF delta < 0 THEN "spend" ELSE "income",
                      source |-> "reconciliation", parent |-> None])
  BY Zenon DEF CreateBalanceUpdate
<1>4. j.month \in MonthIds /\ months[j.month] \in MonthRow
  BY <1>1, <1>2 DEF TablesTyped, IsTable
<1>5. ReconciliationAmount(delta) \in Nat
  BY <1>1 DEF ReconciliationAmount
<1> DEFINE kind == IF delta < 0 THEN "spend" ELSE "income"
           amount == ReconciliationAmount(delta)
<1>6. kind \in {"spend", "income"} /\ amount \in Nat
  BY <1>5
<1> HIDE DEF kind, amount, delta
<1>7. IsTable(months, MonthIds, MonthRow)'
  <2> DEFINE row == [months[j.month] EXCEPT !.wallet = j.amount]
  <2>1. row \in MonthRow
    BY <1>1, <1>4 DEF MonthRow
  <2> HIDE DEF row
  <2> QED
    BY <1>1, <1>2, <2>1, TableSet DEF TablesTyped, row
<1>8. updates' \subseteq UpdateRow
  <2>1. [month |-> j.month, previous |-> j.was, new |-> j.amount] \in UpdateRow
    BY <1>1, <1>4 DEF UpdateRow
  <2> QED
    BY <1>1, <1>2, <2>1 DEF TablesTyped
<1>9. ASSUME NEW a \in ReconciliationAllocationIds(j.month), NEW t \in FreshTxns,
             allocs' = Put(allocs, a, [month |-> j.month, budget |-> 0, name |-> "reconciliation"]),
             txns' = Put(txns, t, [month |-> j.month, alloc |-> a, amount |-> amount, kind |-> kind,
                                   source |-> "reconciliation", parent |-> None])
      PROVE  IsTable(allocs, AllocIds, AllocRow)' /\ IsTable(txns, TxnIds, TxnRow)'
  <2>1. a \in AllocIds
    BY <1>1 DEF ReconciliationAllocationIds, ReconciliationAllocations, FreshAllocs,
                TablesTyped, IsTable
  <2>2. [month |-> j.month, budget |-> 0, name |-> "reconciliation"] \in AllocRow
    BY <1>4 DEF AllocRow, AllocNames
  <2>3. [month |-> j.month, alloc |-> a, amount |-> amount, kind |-> kind,
         source |-> "reconciliation", parent |-> None] \in TxnRow
    BY <1>4, <1>6, <2>1 DEF TxnRow
  <2>4. t \in TxnIds
    BY DEF FreshTxns
  <2> QED
    BY <1>1, <1>9, <2>1, <2>2, <2>3, <2>4, TablePut DEF TablesTyped
<1>10. IsTable(allocs, AllocIds, AllocRow)' /\ IsTable(txns, TxnIds, TxnRow)'
  BY <1>1, <1>3, <1>9 DEF TablesTyped, kind, amount
<1> QED
  BY <1>1, <1>2, <1>7, <1>8, <1>10 DEF TablesTyped

(* Every write keeps tables and jobs well formed.                          *)
LEMMA WriteTyped ==
  ASSUME TypeInv, IInv, NEW h \in Handlers, Write(h)
  PROVE  TypeInv'
<1>1. CASE CreateMonth(h)
  <2>1. TablesTyped' /\ jobs' = jobs /\ received' \in 0..MaxRequests
    BY <1>1, CreateMonthTyped
  <2> QED
    BY <2>1 DEF TypeInv, TypeOK, TablesTyped
<1>2. CASE ~CreateMonth(h)
  <2>1. TablesTyped'
    BY <1>2, MonthsTyped, IncomesTyped, AllocsTyped, TxnsTyped, SplitTyped,
       ReconciliationTyped, Zenon DEF Write
  <2>2. Answer(h)
    BY <1>2, Write(h), Zenon DEF Write, UpdateMonth, DeleteMonth, CloseMonth, ReopenMonth,
       CreateIncome, UpdateIncome, DeleteIncome, CreateAllocation, UpdateAllocation,
       DeleteAllocation, CreateTransaction, UpdateTransaction, DeleteTransaction,
       SplitTransaction, CreateBalanceUpdate
  <2>3. jobs' \in [Handlers -> Job] /\ \A g \in Handlers : Carries(jobs'[g])
    BY <2>2, AnsweredTyped DEF Answer
  <2> QED
    BY <2>1, <2>2, <2>3 DEF TypeInv, TypeOK, TablesTyped, Answer
<1> QED
  BY <1>1, <1>2

(* The typing is inductive, given the order of the books.                  *)
LEMMA NextTyped == TypeInv /\ IInv /\ [Next]_vars => TypeInv'
<1> SUFFICES ASSUME TypeInv, IInv, [Next]_vars PROVE TypeInv'
  OBVIOUS
<1>1. CASE UNCHANGED vars
  BY <1>1 DEF vars, TypeInv, TypeOK, IsTable
<1> QED
  BY <1>1, ReceiveTyped, MakeCheckTyped, WriteTyped, RefuseTyped DEF Next

(* It holds of an empty database.                                          *)
LEMMA InitTyped == Init => TypeInv
<1> SUFFICES ASSUME Init PROVE TypeInv
  OBVIOUS
<1>1. \A ids, row : IsTable(<<>>, ids, row)
  BY DEF IsTable
<1>2. 0 \in 0..MaxRequests
  BY AmountsAssumption
<1>3. jobs \in [Handlers -> Job] /\ \A h \in Handlers : Carries(jobs[h])
  BY IdleCarries DEF Init
<1> QED
  BY <1>1, <1>2, <1>3 DEF Init, TypeInv, TypeOK

(* Tables keep the columns and keys of 003_wallet.sql: amounts in cents    *)
(* stay whole and never negative, balances stay whole, whatever sums and   *)
(* deltas the handlers write.                                              *)
THEOREM TypeCorrect == Spec => []TypeOK
<1>1. Spec => []TypeInv
  BY InitTyped, NextTyped, Invariance, PTL DEF Spec
<1> QED
  BY <1>1, PTL DEF TypeInv

-----------------------------------------------------------------------------
(* What handlers are right about, for any number of them.                  *)

(* What else a handler is right about: the month of the income item or     *)
(* allocation it will change, that what it deletes is no row of a split,   *)
(* that a row of a split keeps its amount, and that the rows of a split    *)
(* sum to the amount read.                                                 *)
RowsRight(h) ==
  LET j == jobs[h] IN
  /\ j.op \in {"UpdateIncome", "DeleteIncome"} /\ j.row \in DOMAIN incomes =>
       incomes[j.row].month = j.month
  /\ j.op \in {"UpdateAllocation", "DeleteAllocation"} /\ j.row \in DOMAIN allocs =>
       allocs[j.row].month = j.month
  /\ j.op = "DeleteTransaction" /\ j.row \in DOMAIN txns => txns[j.row].parent = None
  /\ j.op = "UpdateTransaction" /\ j.row \in DOMAIN txns /\ txns[j.row].parent # None =>
       j.amount = j.was
  /\ j.op = "SplitTransaction" =>
       SumFunction([i \in DOMAIN j.parts |-> j.parts[i].amount]) = j.was
AllRight == \A h \in Handlers : RowsRight(h)

RowOps == {"UpdateIncome", "DeleteIncome", "UpdateAllocation", "DeleteAllocation",
           "DeleteTransaction", "UpdateTransaction", "SplitTransaction"}

(* A step that changes one job and no table leaves the other handlers      *)
(* right.                                                                  *)
LEMMA OthersRight ==
  ASSUME AllRight, NEW h \in Handlers, UNCHANGED tables,
         NEW job, jobs' = [jobs EXCEPT ![h] = job], jobs \in [Handlers -> Job], RowsRight(h)'
  PROVE  AllRight'
<1>1. ASSUME NEW g \in Handlers, g # h PROVE RowsRight(g)'
  BY <1>1 DEF AllRight, RowsRight, tables
<1> QED
  BY <1>1 DEF AllRight

(* A handler is right about what it has just read.                         *)
LEMMA ReceiveRight ==
  ASSUME AllRight, TypeInv, NEW h \in Handlers, Receive(h)
  PROVE  AllRight'
<1>1. PICK job : Accept(h, job)
  BY Zenon DEF Receive, ReceiveUpdateMonth, ReceiveDeleteMonth, ReceiveCloseMonth,
     ReceiveReopenMonth, ReceiveCreateIncome, ReceiveUpdateIncome, ReceiveDeleteIncome,
     ReceiveCreateAllocation, ReceiveUpdateAllocation, ReceiveDeleteAllocation,
     ReceiveCreateTransaction, ReceiveUpdateTransaction, ReceiveDeleteTransaction,
     ReceiveSplitTransaction, ReceiveCreateBalanceUpdate
<1>2. UNCHANGED tables /\ jobs' = [jobs EXCEPT ![h] = job] /\ jobs \in [Handlers -> Job]
  BY <1>1 DEF Accept, TypeInv, TypeOK
<1>3. \A j : Accept(h, j) => jobs'[h] = j
  BY <1>2 DEF Accept
<1>4. SUFFICES RowsRight(h)'
  BY <1>2, OthersRight
<1>5. CASE \/ ReceiveUpdateMonth(h) \/ ReceiveDeleteMonth(h)
           \/ ReceiveCloseMonth(h) \/ ReceiveReopenMonth(h)
           \/ ReceiveCreateIncome(h) \/ ReceiveCreateAllocation(h)
           \/ ReceiveCreateTransaction(h) \/ ReceiveCreateBalanceUpdate(h)
  <2>1. jobs'[h].op \notin RowOps
    <3>1. CASE ReceiveUpdateMonth(h)
      <4>1. PICK m, opening, wallet :
              Accept(h, [Idle EXCEPT !.op = "UpdateMonth", !.month = m, !.opening = opening,
                                     !.amount = wallet, !.was = months[m].wallet])
        BY <3>1, Zenon DEF ReceiveUpdateMonth
      <4> QED
        BY <1>3, <4>1 DEF Idle, RowOps
    <3>2. CASE ReceiveDeleteMonth(h)
      BY <1>3, <3>2 DEF ReceiveDeleteMonth, Idle, RowOps
    <3>3. CASE ReceiveCloseMonth(h)
      BY <1>3, <3>3 DEF ReceiveCloseMonth, Idle, RowOps
    <3>4. CASE ReceiveReopenMonth(h)
      BY <1>3, <3>4 DEF ReceiveReopenMonth, Idle, RowOps
    <3>5. CASE ReceiveCreateIncome(h)
      BY <1>3, <3>5 DEF ReceiveCreateIncome, Idle, RowOps
    <3>6. CASE ReceiveCreateAllocation(h)
      BY <1>3, <3>6 DEF ReceiveCreateAllocation, Idle, RowOps
    <3>7. CASE ReceiveCreateTransaction(h)
      BY <1>3, <3>7 DEF ReceiveCreateTransaction, Idle, RowOps
    <3>8. CASE ReceiveCreateBalanceUpdate(h)
      BY <1>3, <3>8 DEF ReceiveCreateBalanceUpdate, Idle, RowOps
    <3> QED
      BY <1>5, <3>1, <3>2, <3>3, <3>4, <3>5, <3>6, <3>7, <3>8
  <2> QED
    BY <2>1 DEF RowsRight, RowOps
<1>6. CASE ReceiveUpdateIncome(h)
  <2>1. PICK i, amount :
          Accept(h, [Idle EXCEPT !.op = "UpdateIncome", !.month = incomes[i].month, !.row = i,
                                 !.amount = amount, !.was = incomes[i].amount,
                                 !.todo = MonthOpen])
    BY <1>6, Zenon DEF ReceiveUpdateIncome
  <2>2. jobs'[h].op = "UpdateIncome" /\ jobs'[h].row = i /\ jobs'[h].month = incomes[i].month
    BY <1>3, <2>1 DEF Idle
  <2> QED
    BY <1>2, <2>2 DEF RowsRight, tables
<1>7. CASE ReceiveDeleteIncome(h)
  <2>1. PICK i :
          Accept(h, [Idle EXCEPT !.op = "DeleteIncome", !.month = incomes[i].month, !.row = i,
                                 !.was = incomes[i].amount, !.todo = MonthOpen])
    BY <1>7, Zenon DEF ReceiveDeleteIncome
  <2>2. jobs'[h].op = "DeleteIncome" /\ jobs'[h].row = i /\ jobs'[h].month = incomes[i].month
    BY <1>3, <2>1 DEF Idle
  <2> QED
    BY <1>2, <2>2 DEF RowsRight, tables
<1>8. CASE ReceiveUpdateAllocation(h)
  <2>1. PICK a, budget, name :
          Accept(h, [Idle EXCEPT !.op = "UpdateAllocation", !.month = allocs[a].month, !.row = a,
                                 !.amount = budget, !.name = name, !.todo = MonthOpen])
    BY <1>8, Zenon DEF ReceiveUpdateAllocation
  <2>2. jobs'[h].op = "UpdateAllocation" /\ jobs'[h].row = a /\ jobs'[h].month = allocs[a].month
    BY <1>3, <2>1 DEF Idle
  <2> QED
    BY <1>2, <2>2 DEF RowsRight, tables
<1>9. CASE ReceiveDeleteAllocation(h)
  <2>1. PICK a :
          Accept(h, [Idle EXCEPT !.op = "DeleteAllocation", !.month = allocs[a].month,
                                 !.row = a, !.todo = MonthOpen])
    BY <1>9, Zenon DEF ReceiveDeleteAllocation
  <2>2. jobs'[h].op = "DeleteAllocation" /\ jobs'[h].row = a /\ jobs'[h].month = allocs[a].month
    BY <1>3, <2>1 DEF Idle
  <2> QED
    BY <1>2, <2>2 DEF RowsRight, tables
<1>10. CASE ReceiveUpdateTransaction(h)
  <2>1. PICK t \in DOMAIN txns, patch \in SUBSET {"amount", "allocation"} :
          \E amount \in IF "amount" \in patch THEN Amounts ELSE {txns[t].amount} :
          \E a :
            /\ "amount" \in patch => txns[t].parent = None
            /\ Accept(h, [Idle EXCEPT !.op = "UpdateTransaction", !.month = txns[t].month,
                              !.row = t, !.alloc = a, !.amount = amount,
                              !.was = txns[t].amount,
                              !.relevant = txns[t].parent = None,
                              !.todo = UpdateChecks(t, patch, a)])
    BY <1>10 DEF ReceiveUpdateTransaction
  <2>2. PICK amount, a :
            /\ amount \in IF "amount" \in patch THEN Amounts ELSE {txns[t].amount}
            /\ "amount" \in patch => txns[t].parent = None
            /\ Accept(h, [Idle EXCEPT !.op = "UpdateTransaction", !.month = txns[t].month,
                              !.row = t, !.alloc = a, !.amount = amount,
                              !.was = txns[t].amount,
                              !.relevant = txns[t].parent = None,
                              !.todo = UpdateChecks(t, patch, a)])
    BY <2>1, Zenon
  <2> DEFINE was == txns[t].amount
             checks == UpdateChecks(t, patch, a)
             whole == txns[t].parent = None
  <2> HIDE DEF was, checks, whole
  <2>3. jobs'[h] = [Idle EXCEPT !.op = "UpdateTransaction", !.month = txns[t].month,
                              !.row = t, !.alloc = a, !.amount = amount,
                              !.was = was, !.relevant = whole, !.todo = checks]
    BY <1>3, <2>2 DEF was, checks, whole
  <2>5. /\ jobs'[h].op = "UpdateTransaction" /\ jobs'[h].row = t
        /\ jobs'[h].amount = amount /\ jobs'[h].was = was
    BY <2>3 DEF Idle
  <2>4. txns[t].parent # None => amount = txns[t].amount
    BY <2>2
  <2> QED
    BY <1>2, <2>4, <2>5 DEF RowsRight, tables, was
<1>11. CASE ReceiveDeleteTransaction(h)
  <2>1. PICK t : /\ jobs'[h].op = "DeleteTransaction" /\ jobs'[h].row = t
                 /\ txns[t].parent = None
    BY <1>3, <1>11 DEF ReceiveDeleteTransaction, Idle
  <2> QED
    BY <1>2, <2>1 DEF RowsRight, tables
<1>12. CASE ReceiveSplitTransaction(h)
  <2>1. PICK t, parts :
          /\ parts \in SplitInputs(txns[t].amount)
          /\ Accept(h, [Idle EXCEPT !.op = "SplitTransaction", !.month = txns[t].month, !.row = t,
                              !.was = txns[t].amount, !.parts = parts,
                              !.todo = MonthOpen \o NoChildren \o
                                  [i \in DOMAIN parts |-> Belongs(parts[i].alloc)[1]]])
    BY <1>12, Zenon DEF ReceiveSplitTransaction
  <2>2. /\ jobs'[h].op = "SplitTransaction" /\ jobs'[h].parts = parts
        /\ jobs'[h].was = txns[t].amount
    BY <1>3, <2>1 DEF Idle
  <2>3. SumFunction([i \in DOMAIN parts |-> parts[i].amount]) = txns[t].amount
    BY <2>1 DEF SplitInputs
  <2> QED
    BY <2>2, <2>3 DEF RowsRight
<1> QED
  BY <1>5, <1>6, <1>7, <1>8, <1>9, <1>10, <1>11, <1>12, Receive(h) DEF Receive

(* A check does not change what it is right about.                         *)
LEMMA MakeCheckRight ==
  ASSUME AllRight, TypeInv, NEW h \in Handlers, MakeCheck(h)
  PROVE  AllRight'
<1> DEFINE j == jobs[h]
<1>1. UNCHANGED tables /\ jobs \in [Handlers -> Job] /\ j \in Job
  BY DEF MakeCheck, EnsureMonthOpen, EnsureAllocationBelongsToMonth,
     TransactionHasSplitChildren, Passed, tables, TypeInv, TypeOK
<1>2. PICK todo, relevant :
        jobs' = [jobs EXCEPT ![h] = [j EXCEPT !.todo = todo, !.relevant = relevant]]
  <2>1. CASE Passed(h)
    <3>1. jobs' = [jobs EXCEPT ![h] = [j EXCEPT !.todo = Tail(@), !.relevant = j.relevant]]
      BY <1>1, <2>1 DEF Passed, Job
    <3> QED
      BY <3>1
  <2>2. CASE jobs' = [jobs EXCEPT ![h].todo = Tail(@),
                                  ![h].relevant = SplitChildren(jobs[h].row) = {}]
    <3>1. jobs' = [jobs EXCEPT ![h] = [j EXCEPT !.todo = Tail(@),
                                                !.relevant = SplitChildren(j.row) = {}]]
      BY <1>1, <2>2 DEF Job
    <3> QED
      BY <3>1
  <2> QED
    BY <2>1, <2>2, MakeCheck(h), Zenon DEF MakeCheck, EnsureMonthOpen,
       EnsureAllocationBelongsToMonth, TransactionHasSplitChildren
<1>3. /\ jobs'[h].op = j.op /\ jobs'[h].month = j.month /\ jobs'[h].row = j.row
      /\ jobs'[h].amount = j.amount /\ jobs'[h].was = j.was /\ jobs'[h].parts = j.parts
  BY <1>1, <1>2 DEF Job
<1>4. RowsRight(h)'
  BY <1>1, <1>3 DEF AllRight, RowsRight, tables
<1> QED
  BY <1>1, <1>2, <1>4, OthersRight

(* A handler that answered has nothing to be wrong about.                  *)
LEMMA IdleRight ==
  ASSUME NEW h \in Handlers, jobs'[h] = Idle
  PROVE  RowsRight(h)'
BY DEF RowsRight, Idle

(* A refused request leaves the other handlers right.                      *)
LEMMA RefuseRight ==
  ASSUME AllRight, TypeInv, NEW h \in Handlers, Refuse(h)
  PROVE  AllRight'
<1>1. jobs' = [jobs EXCEPT ![h] = Idle] /\ UNCHANGED tables /\ jobs \in [Handlers -> Job]
  BY DEF Refuse, TypeInv, TypeOK
<1>2. RowsRight(h)'
  BY <1>1, IdleRight
<1> QED
  BY <1>1, <1>2, OthersRight

(* No write moves an income item to another month.                         *)
IncomesKept ==
  \A i \in DOMAIN incomes' :
    i \in FreshIncomes \/ (i \in DOMAIN incomes /\ incomes'[i].month = incomes[i].month)

(* No write moves an income item to another month.                         *)
LEMMA WritesKeepIncomes ==
  ASSUME TypeInv, NEW h \in Handlers, Write(h)
  PROVE  IncomesKept
<1>1. CASE UNCHANGED incomes
  BY <1>1 DEF IncomesKept
<1>2. CASE CreateMonth(h)
  BY <1>2 DEF CreateMonth, IncomesKept
<1>3. CASE CreateIncome(h)
  BY <1>3 DEF CreateIncome, IncomesKept, Put
<1>4. CASE UpdateIncome(h)
  <2>1. \A i \in DOMAIN incomes : incomes[i] \in IncomeRow
    BY DEF TypeInv, TypeOK, IsTable
  <2> QED
    BY <1>4, <2>1 DEF UpdateIncome, IncomesKept, IncomeRow
<1>5. CASE \E dead : incomes' = Without(incomes, dead)
  BY <1>5 DEF IncomesKept, Without, Restrict
<1> QED
  BY <1>1, <1>2, <1>3, <1>4, <1>5, Write(h), Zenon DEF Write, UpdateMonth, DeleteMonth, CloseMonth, ReopenMonth,
       DeleteIncome, CreateAllocation, UpdateAllocation,
       DeleteAllocation, CreateTransaction, UpdateTransaction, DeleteTransaction,
       SplitTransaction, CreateBalanceUpdate

(* What one handler writes leaves the others right: a row keeps its month  *)
(* and its parent or goes, and the parent of a split row is never changed  *)
(* while the row is there.                                                 *)
LEMMA WriteRight ==
  ASSUME AllRight, TypeInv, IInv, NEW h \in Handlers, Write(h)
  PROVE  AllRight'
<1>1. Served(h) /\ TxnsKept /\ AllocsKept /\ IncomesKept
  BY WritesKeep, WritesKeepIncomes DEF Kept
<1>2. RowsRight(h)'
  BY <1>1, IdleRight DEF Served
<1>3. ASSUME NEW g \in Handlers, g # h PROVE RowsRight(g)'
  <2> DEFINE j == jobs[g]
  <2>1. jobs'[g] = j /\ RowsRight(g)
    BY <1>1, <1>3 DEF Served, AllRight
  <2>2. j.row \notin FreshIncomes /\ j.row \notin FreshAllocs /\ j.row \notin FreshTxns
    BY DEF FreshIncomes, FreshAllocs, FreshTxns
  <2> HIDE DEF j
  <2> QED
    BY <1>1, <2>1, <2>2 DEF RowsRight, TxnsKept, AllocsKept, IncomesKept, j
<1> QED
  BY <1>2, <1>3 DEF AllRight

(* AllRight is kept by every step,                                         *)
LEMMA NextRight == AllRight /\ TypeInv /\ IInv /\ [Next]_vars => AllRight'
<1> SUFFICES ASSUME AllRight, TypeInv, IInv, [Next]_vars PROVE AllRight'
  OBVIOUS
<1>1. CASE UNCHANGED vars
  BY <1>1 DEF vars, AllRight, RowsRight
<1> QED
  BY <1>1, ReceiveRight, MakeCheckRight, WriteRight, RefuseRight DEF Next

(* and holds at the start.                                                 *)
LEMMA InitRight == Init => AllRight
BY DEF Init, AllRight, RowsRight, Idle

(* All that the proofs below rely on.                                      *)
LInv == IInv /\ TypeInv /\ AllRight

(* The invariant that everything below is proved from.                     *)
LEMMA LInvHolds == Spec => []LInv
<1>1. LInv /\ [Next]_vars => LInv'
  BY NextKeeps, NextTyped, NextRight DEF LInv
<1> QED
  BY <1>1, InitHolds, InitTyped, InitRight, PTL DEF Spec, LInv

-----------------------------------------------------------------------------
(* A write touches one month.                                              *)

IncomesOf(m) == {i \in DOMAIN incomes : incomes[i].month = m}
AllocsOf(m) == {a \in DOMAIN allocs : allocs[a].month = m}
TxnsOf(m) == {t \in DOMAIN txns : txns[t].month = m}
UpdatesOf(m) == {u \in updates : u.month = m}

(* The step has not touched a row of month n.                              *)
RowsApart(n) ==
  /\ IncomesOf(n)' = IncomesOf(n) /\ \A i \in IncomesOf(n) : incomes'[i] = incomes[i]
  /\ AllocsOf(n)' = AllocsOf(n) /\ \A a \in AllocsOf(n) : allocs'[a] = allocs[a]
  /\ TxnsOf(n)' = TxnsOf(n) /\ \A t \in TxnsOf(n) : txns'[t] = txns[t]
  /\ UpdatesOf(n)' = UpdatesOf(n)
Apart(n) == months'[n] = months[n] /\ RowsApart(n)

(* A step that leaves the tables alone touches no month.                   *)
LEMMA SameTablesApart ==
  ASSUME UNCHANGED tables, NEW n
  PROVE  Apart(n)
BY DEF tables, Apart, RowsApart, IncomesOf, AllocsOf, TxnsOf, UpdatesOf

(* A month whose rows are untouched has the contents it had.               *)
LEMMA ApartContents ==
  ASSUME NEW n, Apart(n)
  PROVE  Contents(n)' = Contents(n)
<1>1. {<<i, incomes[i]>> : i \in IncomesOf(n)}' = {<<i, incomes[i]>> : i \in IncomesOf(n)}
  BY DEF Apart, RowsApart
<1>2. {<<a, allocs[a]>> : a \in AllocsOf(n)}' = {<<a, allocs[a]>> : a \in AllocsOf(n)}
  BY DEF Apart, RowsApart
<1>3. {<<t, txns[t]>> : t \in TxnsOf(n)}' = {<<t, txns[t]>> : t \in TxnsOf(n)}
  BY DEF Apart, RowsApart
<1> QED
  BY <1>1, <1>2, <1>3 DEF Contents, Apart, RowsApart, IncomesOf, AllocsOf, TxnsOf, UpdatesOf

(* Rows of one month are deleted, and no other month is touched.           *)
LEMMA DeadApart ==
  ASSUME LInv, NEW dead \in SUBSET DOMAIN txns, NEW m, DeleteTxnRows(dead),
         \A t \in dead : txns[t].month = m,
         NEW n, n # m
  PROVE  TxnsOf(n)' = TxnsOf(n) /\ \A t \in TxnsOf(n) : txns'[t] = txns[t]
<1>1. ASSUME NEW t \in TxnsOf(n) PROVE t \notin dead /\ txns[t].parent \notin dead
  <2>1. t \in DOMAIN txns /\ t \notin dead
    BY DEF TxnsOf
  <2>2. CASE txns[t].parent # None
    <3>1. /\ t \in DOMAIN split /\ split[t] = txns[t].parent
          /\ split[t] \in DOMAIN txns /\ txns[split[t]].month = n
      BY <2>1, <2>2 DEF LInv, IInv, InOrder, SplitRecordsAgree, SplitsAreFlat, TxnsOf
    <3> QED
      BY <2>1, <3>1
  <2>3. CASE txns[t].parent = None
    <3>1. None \notin dead
      BY NoneAssumption DEF LInv, IInv, InOrder, RowsShaped
    <3> QED
      BY <2>1, <2>3, <3>1
  <2> QED
    BY <2>2, <2>3
<1>2. \A t \in DOMAIN txns : txns[t].month = txns'[t].month \/ t \in dead
  <2>1. \A t \in DOMAIN txns : DOMAIN txns[t] = {"month", "alloc", "amount", "kind", "source", "parent"}
    BY DEF LInv, IInv, InOrder, RowsShaped
  <2> QED
    BY <2>1 DEF DeleteTxnRows
<1> QED
  BY <1>1, <1>2 DEF DeleteTxnRows, TxnsOf

(* The row of a transaction, and the month of its allocation.              *)
LEMMA TxnMonth ==
  ASSUME LInv, NEW t \in DOMAIN txns
  PROVE  /\ DOMAIN txns[t] = {"month", "alloc", "amount", "kind", "source", "parent"}
         /\ txns[t].alloc \in DOMAIN allocs /\ allocs[txns[t].alloc].month = txns[t].month
BY DEF LInv, IInv, InOrder, RowsShaped, BooksAreConnected

(* What CreateMonth adds: a month, its income and its allocations.          *)
Added(k, I, A) ==
  /\ DOMAIN months' = DOMAIN months \cup {k}
  /\ months'[k].status = "open" /\ months'[k].closedWallet = None
  /\ \A n \in DOMAIN months \ {k} : months'[n] = months[n]
  /\ DOMAIN incomes' = DOMAIN incomes \cup I
  /\ \A i \in I : incomes'[i].month = k
  /\ \A i \in DOMAIN incomes \ I : incomes'[i] = incomes[i]
  /\ DOMAIN allocs' = DOMAIN allocs \cup A
  /\ \A a \in A : allocs'[a].month = k /\ allocs'[a].name \in Names
  /\ \A a \in DOMAIN allocs \ A : allocs'[a] = allocs[a]
  /\ UNCHANGED <<txns, split, updates, jobs>>

(* What CreateMonth adds is all of a new month.                            *)
LEMMA CreateMonthAdds ==
  ASSUME NEW h \in Handlers, CreateMonth(h)
  PROVE  /\ jobs[h] = Idle
         /\ \E k \in FreshMonths, I \in SUBSET FreshIncomes, A \in SUBSET FreshAllocs :
              Added(k, I, A)
<1>1. PICK k \in FreshMonths, key \in MonthKeys, opening \in Balances,
           given \in Balances \cup {None}, I \in SUBSET FreshIncomes, A \in SUBSET FreshAllocs :
      \E amount \in [I -> Amounts \cup {0}], budget \in [A -> Budgets], name \in [A -> Names] :
        /\ jobs[h] = Idle
        /\ received < MaxRequests
        /\ received' = received + 1
        /\ \A x \in DOMAIN months : months[x].key # key
        /\ months' = Put(months, k,
                       [key |-> key, opening |-> opening,
                        wallet |-> IF given = None THEN opening + SumFunction(amount) ELSE given,
                        status |-> "open", closedWallet |-> None])
        /\ incomes' = [i \in DOMAIN incomes \cup I |->
                         IF i \in I THEN [month |-> k, amount |-> amount[i]] ELSE incomes[i]]
        /\ allocs' = [a \in DOMAIN allocs \cup A |->
                        IF a \in A THEN [month |-> k, budget |-> budget[a], name |-> name[a]]
                        ELSE allocs[a]]
        /\ UNCHANGED <<txns, split, updates, jobs>>
  BY DEF CreateMonth
<1>2. PICK amount \in [I -> Amounts \cup {0}], budget \in [A -> Budgets], name \in [A -> Names] :
        /\ jobs[h] = Idle
        /\ received < MaxRequests
        /\ received' = received + 1
        /\ \A x \in DOMAIN months : months[x].key # key
        /\ months' = Put(months, k,
                       [key |-> key, opening |-> opening,
                        wallet |-> IF given = None THEN opening + SumFunction(amount) ELSE given,
                        status |-> "open", closedWallet |-> None])
        /\ incomes' = [i \in DOMAIN incomes \cup I |->
                         IF i \in I THEN [month |-> k, amount |-> amount[i]] ELSE incomes[i]]
        /\ allocs' = [a \in DOMAIN allocs \cup A |->
                        IF a \in A THEN [month |-> k, budget |-> budget[a], name |-> name[a]]
                        ELSE allocs[a]]
        /\ UNCHANGED <<txns, split, updates, jobs>>
  BY <1>1, Zenon
<1>3. jobs[h] = Idle /\ UNCHANGED <<txns, split, updates, jobs>>
  BY <1>2
<1>4. /\ DOMAIN months' = DOMAIN months \cup {k}
      /\ months'[k].status = "open" /\ months'[k].closedWallet = None
      /\ \A n \in DOMAIN months \ {k} : months'[n] = months[n]
  BY <1>2 DEF Put
<1>5. /\ DOMAIN incomes' = DOMAIN incomes \cup I
      /\ \A i \in I : incomes'[i].month = k
      /\ \A i \in DOMAIN incomes \ I : incomes'[i] = incomes[i]
  BY <1>2
<1>6. /\ DOMAIN allocs' = DOMAIN allocs \cup A
      /\ \A a \in A : allocs'[a].month = k /\ allocs'[a].name \in Names
      /\ \A a \in DOMAIN allocs \ A : allocs'[a] = allocs[a]
  BY <1>2
<1>7. Added(k, I, A)
  BY <1>3, <1>4, <1>5, <1>6 DEF Added
<1> QED
  BY <1>3, <1>7

(* A write touches the month its request is about and no other; a new      *)
(* month touches none.                                                     *)
LEMMA OneMonth ==
  ASSUME LInv, NEW h \in Handlers, Write(h),
         NEW n \in DOMAIN months, n \in DOMAIN months',
         n # jobs[h].month
  PROVE  Apart(n)
<1> DEFINE j == jobs[h]
           m == j.month
<1>1. CASE CreateMonth(h)
  <2>1. PICK k \in FreshMonths, I \in SUBSET FreshIncomes, A \in SUBSET FreshAllocs :
          Added(k, I, A)
    BY <1>1, CreateMonthAdds
  <2>2. k # n /\ I \cap DOMAIN incomes = {} /\ A \cap DOMAIN allocs = {}
    BY DEF FreshMonths, FreshIncomes, FreshAllocs
  <2> QED
    BY <2>1, <2>2 DEF Added, Apart, RowsApart, IncomesOf, AllocsOf, TxnsOf, UpdatesOf
<1>2. CASE UpdateMonth(h) \/ CloseMonth(h) \/ ReopenMonth(h)
  <2>1. UNCHANGED <<incomes, allocs, txns, split, updates>> /\ months'[n] = months[n]
    BY <1>2 DEF UpdateMonth, CloseMonth, ReopenMonth
  <2> QED
    BY <2>1 DEF Apart, RowsApart, IncomesOf, AllocsOf, TxnsOf, UpdatesOf
<1>3. CASE DeleteMonth(h)
  <2> DEFINE dead == {t \in DOMAIN txns : txns[t].month = m \/ allocs[txns[t].alloc].month = m}
  <2>1. DeleteTxnRows(dead) /\ \A t \in dead : txns[t].month = m
    BY <1>3, TxnMonth DEF DeleteMonth
  <2>2. dead \in SUBSET DOMAIN txns
    OBVIOUS
  <2> HIDE DEF dead
  <2>3. TxnsOf(n)' = TxnsOf(n) /\ \A t \in TxnsOf(n) : txns'[t] = txns[t]
    BY <2>1, <2>2, DeadApart
  <2>4. /\ months'[n] = months[n]
        /\ IncomesOf(n)' = IncomesOf(n) /\ \A i \in IncomesOf(n) : incomes'[i] = incomes[i]
        /\ AllocsOf(n)' = AllocsOf(n) /\ \A a \in AllocsOf(n) : allocs'[a] = allocs[a]
        /\ UpdatesOf(n)' = UpdatesOf(n)
    BY <1>3 DEF DeleteMonth, Without, Restrict, IncomesOf, AllocsOf, UpdatesOf
  <2> QED
    BY <2>3, <2>4 DEF Apart, RowsApart
<1>4. CASE CreateIncome(h) \/ UpdateIncome(h) \/ DeleteIncome(h)
  <2>1. UNCHANGED <<allocs, txns, split, updates>> /\ months'[n] = months[n]
    BY <1>4 DEF CreateIncome, UpdateIncome, DeleteIncome, ApplyWalletBalanceDelta
  <2>2. IncomesOf(n)' = IncomesOf(n) /\ \A i \in IncomesOf(n) : incomes'[i] = incomes[i]
    <3>1. CASE CreateIncome(h)
      <4>1. PICK i, amount :
              /\ i \in FreshIncomes
              /\ incomes' = Put(incomes, i, [month |-> m, amount |-> amount])
        BY <3>1 DEF CreateIncome
      <4>2. /\ i \notin DOMAIN incomes /\ DOMAIN incomes' = DOMAIN incomes \cup {i}
            /\ incomes'[i].month = m /\ \A x \in DOMAIN incomes : incomes'[x] = incomes[x]
        BY <4>1 DEF FreshIncomes, Put
      <4> HIDE DEF m
      <4> QED
        BY <4>2 DEF IncomesOf, m
    <3>2. CASE UpdateIncome(h)
      <4>1. /\ j.row \in DOMAIN incomes /\ incomes[j.row].month = m
            /\ incomes' = [incomes EXCEPT ![j.row].amount = j.amount]
        BY <3>2 DEF UpdateIncome, Writes, LInv, AllRight, RowsRight
      <4>2. DOMAIN incomes[j.row] = {"month", "amount"}
        BY <4>1 DEF LInv, IInv, InOrder, RowsShaped
      <4>3. /\ DOMAIN incomes' = DOMAIN incomes /\ incomes'[j.row].month = m
            /\ \A i \in DOMAIN incomes \ {j.row} : incomes'[i] = incomes[i]
        BY <4>1, <4>2
      <4> QED
        BY <4>1, <4>3 DEF IncomesOf
    <3>3. CASE DeleteIncome(h)
      <4>1. /\ j.row \in DOMAIN incomes /\ incomes[j.row].month = m
            /\ incomes' = Without(incomes, {j.row})
        BY <3>3 DEF DeleteIncome, Writes, LInv, AllRight, RowsRight
      <4> QED
        BY <4>1 DEF IncomesOf, Without, Restrict
    <3> QED
      BY <1>4, <3>1, <3>2, <3>3
  <2> QED
    BY <2>1, <2>2 DEF Apart, RowsApart, AllocsOf, TxnsOf, UpdatesOf
<1>5. CASE CreateAllocation(h) \/ UpdateAllocation(h)
  <2>1. UNCHANGED <<months, incomes, txns, split, updates>>
    BY <1>5 DEF CreateAllocation, UpdateAllocation
  <2>2. AllocsOf(n)' = AllocsOf(n) /\ \A a \in AllocsOf(n) : allocs'[a] = allocs[a]
    <3>1. CASE CreateAllocation(h)
      <4>1. PICK a, budget, name :
              /\ a \in FreshAllocs
              /\ allocs' = Put(allocs, a, [month |-> m, budget |-> budget, name |-> name])
        BY <3>1 DEF CreateAllocation
      <4>2. /\ a \notin DOMAIN allocs /\ DOMAIN allocs' = DOMAIN allocs \cup {a}
            /\ allocs'[a].month = m /\ \A x \in DOMAIN allocs : allocs'[x] = allocs[x]
        BY <4>1 DEF FreshAllocs, Put
      <4> QED
        BY <4>2 DEF AllocsOf
    <3>2. CASE UpdateAllocation(h)
      <4>1. /\ j.row \in DOMAIN allocs /\ allocs[j.row].month = m
            /\ allocs' = [allocs EXCEPT ![j.row].budget = j.amount, ![j.row].name = j.name]
        BY <3>2 DEF UpdateAllocation, Writes, LInv, AllRight, RowsRight
      <4>2. DOMAIN allocs[j.row] = {"month", "budget", "name"}
        BY <4>1 DEF LInv, IInv, InOrder, RowsShaped
      <4>3. /\ DOMAIN allocs' = DOMAIN allocs /\ allocs'[j.row].month = m
            /\ \A a \in DOMAIN allocs \ {j.row} : allocs'[a] = allocs[a]
        BY <4>1, <4>2
      <4> QED
        BY <4>1, <4>3 DEF AllocsOf
    <3> QED
      BY <1>5, <3>1, <3>2
  <2> QED
    BY <2>1, <2>2 DEF Apart, RowsApart, IncomesOf, TxnsOf, UpdatesOf
<1>6. CASE DeleteAllocation(h)
  <2> DEFINE dead == {t \in DOMAIN txns : txns[t].alloc = j.row}
  <2>1. j.row \in DOMAIN allocs /\ allocs[j.row].month = m
    BY <1>6 DEF DeleteAllocation, Writes, LInv, AllRight, RowsRight
  <2>2. DeleteTxnRows(dead) /\ \A t \in dead : txns[t].month = m
    BY <1>6, <2>1, TxnMonth DEF DeleteAllocation
  <2>3. dead \in SUBSET DOMAIN txns
    OBVIOUS
  <2> HIDE DEF dead
  <2>4. TxnsOf(n)' = TxnsOf(n) /\ \A t \in TxnsOf(n) : txns'[t] = txns[t]
    BY <2>2, <2>3, DeadApart
  <2>5. AllocsOf(n)' = AllocsOf(n) /\ \A a \in AllocsOf(n) : allocs'[a] = allocs[a]
    BY <1>6, <2>1 DEF DeleteAllocation, Without, Restrict, AllocsOf
  <2>6. UNCHANGED <<months, incomes, updates>>
    BY <1>6 DEF DeleteAllocation
  <2> QED
    BY <2>4, <2>5, <2>6 DEF Apart, RowsApart, IncomesOf, UpdatesOf
<1>7. CASE CreateTransaction(h) \/ UpdateTransaction(h) \/ DeleteTransaction(h)
  <2>1. UNCHANGED <<incomes, allocs, updates>> /\ months'[n] = months[n]
    BY <1>7 DEF CreateTransaction, UpdateTransaction, DeleteTransaction, ApplyWalletBalanceDelta
  <2>2. TxnsOf(n)' = TxnsOf(n) /\ \A t \in TxnsOf(n) : txns'[t] = txns[t]
    <3>1. CASE CreateTransaction(h)
      <4>1. PICK t, alloc, amount :
              /\ t \in FreshTxns
              /\ txns' = Put(txns, t, [month |-> m, alloc |-> alloc, amount |-> amount,
                                kind |-> "spend", source |-> "manual", parent |-> None])
        BY <3>1 DEF CreateTransaction
      <4>2. /\ t \notin DOMAIN txns /\ DOMAIN txns' = DOMAIN txns \cup {t}
            /\ txns'[t].month = m /\ \A x \in DOMAIN txns : txns'[x] = txns[x]
        BY <4>1 DEF FreshTxns, Put
      <4> QED
        BY <4>2 DEF TxnsOf
    <3>2. CASE UpdateTransaction(h)
      <4>1. /\ j.row \in DOMAIN txns /\ txns[j.row].month = m
            /\ txns' = [txns EXCEPT ![j.row].alloc = j.alloc, ![j.row].amount = j.amount]
        BY <3>2 DEF UpdateTransaction, Writes, LInv, IInv, ChecksStillHold, JobHolds, OnTransaction
      <4>2. /\ DOMAIN txns' = DOMAIN txns /\ txns'[j.row].month = m
            /\ \A t \in DOMAIN txns \ {j.row} : txns'[t] = txns[t]
        BY <4>1, TxnMonth
      <4> QED
        BY <4>1, <4>2 DEF TxnsOf
    <3>3. CASE DeleteTransaction(h)
      <4> DEFINE dead == SplitChildren(j.row) \cup {j.row}
      <4>1. /\ DeleteTxnRows(dead) /\ j.row \in DOMAIN txns /\ txns[j.row].month = m
        BY <3>3 DEF DeleteTransaction, Writes, LInv, IInv, ChecksStillHold, JobHolds, OnTransaction
      <4>2. \A t \in dead : t \in DOMAIN txns /\ txns[t].month = m
        BY <4>1 DEF SplitChildren, LInv, IInv, InOrder, SplitRecordsAgree, SplitsAreFlat
      <4>3. dead \in SUBSET DOMAIN txns
        BY <4>2
      <4> HIDE DEF dead
      <4> QED
        BY <4>1, <4>2, <4>3, DeadApart
    <3> QED
      BY <1>7, <3>1, <3>2, <3>3
  <2> QED
    BY <2>1, <2>2 DEF Apart, RowsApart, IncomesOf, AllocsOf, UpdatesOf
<1>8. CASE SplitTransaction(h)
  <2>1. PICK ids, part :
        /\ ids \in SUBSET FreshTxns
        /\ txns' = [t \in DOMAIN txns \cup ids |->
                      IF t \in ids
                      THEN [month |-> j.month, alloc |-> j.parts[part[t]].alloc,
                            amount |-> j.parts[part[t]].amount,
                            kind |-> "spend", source |-> "split", parent |-> j.row]
                      ELSE txns[t]]
        /\ UNCHANGED <<months, incomes, allocs, updates>>
    BY <1>8 DEF SplitTransaction
  <2>2. /\ DOMAIN txns' = DOMAIN txns \cup ids
        /\ \A t \in ids : t \notin DOMAIN txns /\ txns'[t].month = m
        /\ \A t \in DOMAIN txns : txns'[t] = txns[t]
    BY <2>1 DEF FreshTxns
  <2>3. TxnsOf(n)' = TxnsOf(n) /\ \A t \in TxnsOf(n) : txns'[t] = txns[t]
    BY <2>2 DEF TxnsOf
  <2> QED
    BY <2>1, <2>3 DEF Apart, RowsApart, IncomesOf, AllocsOf, UpdatesOf
<1>9. CASE CreateBalanceUpdate(h)
  <2>1. /\ UNCHANGED <<incomes, split>> /\ months'[n] = months[n]
        /\ \E u : u.month = m /\ updates' = updates \cup {u}
    BY <1>9 DEF CreateBalanceUpdate
  <2>2. UpdatesOf(n)' = UpdatesOf(n)
    BY <2>1 DEF UpdatesOf
  <2>3. UNCHANGED <<allocs, txns>> \/
      \E a \in ReconciliationAllocationIds(m), t \in FreshTxns : \E amount, kind :
        /\ allocs' = Put(allocs, a, [month |-> m, budget |-> 0, name |-> "reconciliation"])
        /\ txns' = Put(txns, t, [month |-> m, alloc |-> a, amount |-> amount, kind |-> kind,
                      source |-> "reconciliation", parent |-> None])
    BY <1>9, Zenon DEF CreateBalanceUpdate
  <2>4. /\ AllocsOf(n)' = AllocsOf(n) /\ \A a \in AllocsOf(n) : allocs'[a] = allocs[a]
        /\ TxnsOf(n)' = TxnsOf(n) /\ \A t \in TxnsOf(n) : txns'[t] = txns[t]
    <3>1. CASE UNCHANGED <<allocs, txns>>
      BY <3>1 DEF AllocsOf, TxnsOf
    <3>2. CASE ~UNCHANGED <<allocs, txns>>
      <4>1. PICK a, t, amount, kind :
              /\ a \in ReconciliationAllocationIds(m)
              /\ t \in FreshTxns
              /\ allocs' = Put(allocs, a, [month |-> m, budget |-> 0, name |-> "reconciliation"])
              /\ txns' = Put(txns, t, [month |-> m, alloc |-> a, amount |-> amount, kind |-> kind,
                            source |-> "reconciliation", parent |-> None])
        BY <2>3, <3>2
      <4>2. a \in DOMAIN allocs => allocs[a].month = m
        BY <4>1 DEF ReconciliationAllocationIds, ReconciliationAllocations, FreshAllocs
      <4>3. /\ DOMAIN allocs' = DOMAIN allocs \cup {a} /\ allocs'[a].month = m
            /\ \A x \in DOMAIN allocs \ {a} : allocs'[x] = allocs[x]
        BY <4>1 DEF Put
      <4>4. /\ DOMAIN txns' = DOMAIN txns \cup {t} /\ txns'[t].month = m /\ t \notin DOMAIN txns
            /\ \A x \in DOMAIN txns : txns'[x] = txns[x]
        BY <4>1 DEF Put, FreshTxns
      <4> HIDE DEF m
      <4> QED
        BY <4>2, <4>3, <4>4 DEF AllocsOf, TxnsOf, m
    <3> QED
      BY <3>1, <3>2
  <2> QED
    BY <2>1, <2>2, <2>4 DEF Apart, RowsApart, IncomesOf
<1> QED
  BY <1>1, <1>2, <1>3, <1>4, <1>5, <1>6, <1>7, <1>8, <1>9, Write(h) DEF Write

-----------------------------------------------------------------------------
(* The figures of the summary as sums over sets of rows.                   *)

(* The sums of the summary are sums of one function over sets of rows.     *)
TxnAmounts == [t \in DOMAIN txns |-> txns[t].amount]
IncomeAmounts == [i \in DOMAIN incomes |-> incomes[i].amount]
Posted(m, kind) == Sum(TxnAmounts, Visible(m, kind))
Prepared(m) == Sum(IncomeAmounts, IncomesOf(m))

AmountsSummed == \A ts : AmountOf(ts) = Sum(TxnAmounts, ts)
ExpectedSummed ==
  \A m : Expected(m) =
           months[m].opening + (Prepared(m) + Posted(m, "income")) - Posted(m, "spend")

(* The figures of a month are those sums,                                  *)
LEMMA Summed == AmountsSummed /\ ExpectedSummed
<1>1. AmountsSummed
  BY SumOnSet DEF AmountsSummed, AmountOf, TxnAmounts
<1> QED
  BY <1>1, SumOnSet DEF AmountsSummed, ExpectedSummed, Expected, IncomeTotal, Prepared,
     Posted, IncomeAmounts, IncomesOf

(* after a step too.                                                       *)
LEMMA SummedNext == AmountsSummed' /\ ExpectedSummed'
  BY Summed, PTL

(* The two records of a split say the same, so either gives the rows.      *)
ChildrenFound ==
  \A t \in DOMAIN txns :
    SplitChildren(t) = {c \in TxnsOf(txns[t].month) : txns[c].parent = t}

(* The rows of a split are found among the transactions of its month.      *)
LEMMA ChildrenAre == IInv => ChildrenFound
<1> SUFFICES ASSUME IInv, NEW t \in DOMAIN txns
             PROVE  SplitChildren(t) = {c \in TxnsOf(txns[t].month) : txns[c].parent = t}
  BY DEF ChildrenFound
<1>1. t # None
  BY NoneAssumption DEF IInv, InOrder, RowsShaped
<1> QED
  BY <1>1 DEF IInv, InOrder, SplitRecordsAgree, SplitsAreFlat, SplitChildren, TxnsOf

(* Rows and sums are finite and whole.                                     *)
Whole ==
  /\ \A m : /\ IsFiniteSet(IncomesOf(m)) /\ IsFiniteSet(AllocsOf(m))
            /\ \A kind : /\ IsFiniteSet(Visible(m, kind))
                         /\ Visible(m, kind) \subseteq TxnsOf(m)
  /\ \A t \in DOMAIN txns : TxnAmounts[t] = txns[t].amount /\ TxnAmounts[t] \in Nat
  /\ \A i \in DOMAIN incomes :
       IncomeAmounts[i] = incomes[i].amount /\ IncomeAmounts[i] \in Nat
  /\ \A m \in DOMAIN months : months[m].wallet \in Int /\ months[m].opening \in Int

(* Everything that is summed or counted is finite, and every summand a     *)
(* number.                                                                 *)
LEMMA AlwaysWhole == TypeOK => Whole
<1> SUFFICES ASSUME TypeOK PROVE Whole
  OBVIOUS
<1>1. /\ \A t \in DOMAIN txns : TxnAmounts[t] = txns[t].amount /\ TxnAmounts[t] \in Nat
      /\ \A i \in DOMAIN incomes :
           IncomeAmounts[i] = incomes[i].amount /\ IncomeAmounts[i] \in Nat
      /\ \A m \in DOMAIN months : months[m].wallet \in Int /\ months[m].opening \in Int
  BY DEF TypeOK, IsTable, TxnRow, IncomeRow, MonthRow, TxnAmounts, IncomeAmounts
<1>2. IsFiniteSet(DOMAIN txns) /\ IsFiniteSet(DOMAIN incomes) /\ IsFiniteSet(DOMAIN allocs)
  BY FiniteIdsAssumption, FS_Subset DEF TypeOK, IsTable
<1>3. ASSUME NEW m PROVE IsFiniteSet(IncomesOf(m)) /\ IsFiniteSet(AllocsOf(m))
  BY <1>2, FS_Subset DEF IncomesOf, AllocsOf
<1>4. ASSUME NEW m, NEW kind
      PROVE  IsFiniteSet(Visible(m, kind)) /\ Visible(m, kind) \subseteq TxnsOf(m)
  BY <1>2, FS_Subset DEF Visible, TxnsOf
<1> QED
  BY <1>1, <1>3, <1>4 DEF Whole

(* What the sums need, from the invariant,                                 *)
LEMMA LInvMeans == LInv => ChildrenFound /\ Whole
  BY ChildrenAre, AlwaysWhole DEF LInv, TypeInv

(* before and after a step.                                                *)
LEMMA LInvMeansNext == LInv' => ChildrenFound' /\ Whole'
  BY LInvMeans, PTL

(* A month no row of which is touched has the same sums.                   *)
LEMMA ApartSums ==
  ASSUME LInv, LInv', NEW n, Apart(n)
  PROVE  /\ \A kind : Visible(n, kind)' = Visible(n, kind) /\ Posted(n, kind)' = Posted(n, kind)
         /\ Prepared(n)' = Prepared(n)
         /\ Variance(n)' = Variance(n)
         /\ Expected(n)' = Expected(n)
<1>1. ASSUME NEW t \in TxnsOf(n) PROVE SplitChildren(t)' = SplitChildren(t)
  <2>1. /\ t \in DOMAIN txns /\ t \in DOMAIN txns'
        /\ txns[t].month = n /\ txns'[t].month = n
    BY DEF Apart, RowsApart, TxnsOf
  <2>2. /\ SplitChildren(t) = {c \in TxnsOf(n) : txns[c].parent = t}
        /\ SplitChildren(t)' = {c \in TxnsOf(n)' : txns'[c].parent = t}
    BY <2>1, LInvMeans, LInvMeansNext DEF ChildrenFound
  <2> QED
    BY <2>2 DEF Apart, RowsApart
<1>2. ASSUME NEW kind PROVE Visible(n, kind)' = Visible(n, kind)
  <2>1. Visible(n, kind) = {t \in TxnsOf(n) : txns[t].kind = kind /\ SplitChildren(t) = {}}
    BY DEF Visible, TxnsOf
  <2>2. Visible(n, kind)' = {t \in TxnsOf(n)' : txns'[t].kind = kind /\ SplitChildren(t)' = {}}
    BY DEF Visible, TxnsOf
  <2> QED
    BY <1>1, <2>1, <2>2 DEF Apart, RowsApart
<1>3. ASSUME NEW kind PROVE Posted(n, kind)' = Posted(n, kind)
  <2>1. \A t \in Visible(n, kind) : TxnAmounts'[t] = TxnAmounts[t]
    BY LInvMeans, LInvMeansNext DEF Whole, Apart, RowsApart, TxnsOf
  <2>2. IsFiniteSet(Visible(n, kind))
    BY LInvMeans DEF Whole
  <2>3. Sum(TxnAmounts', Visible(n, kind)) = Sum(TxnAmounts, Visible(n, kind))
    BY <2>1, <2>2, SumSame
  <2> QED
    BY <1>2, <2>3 DEF Posted
<1>4. Prepared(n)' = Prepared(n)
  <2>1. \A i \in IncomesOf(n) : IncomeAmounts'[i] = IncomeAmounts[i]
    BY LInvMeans, LInvMeansNext DEF Whole, Apart, RowsApart, IncomesOf
  <2>2. IsFiniteSet(IncomesOf(n))
    BY LInvMeans DEF Whole
  <2>3. Sum(IncomeAmounts', IncomesOf(n)) = Sum(IncomeAmounts, IncomesOf(n))
    BY <2>1, <2>2, SumSame
  <2> QED
    BY <2>3 DEF Prepared, Apart, RowsApart
<1>5. months'[n] = months[n]
  BY DEF Apart
<1>6. Expected(n)' = Expected(n)
  <2>1. /\ Expected(n) = months[n].opening + (Prepared(n) + Posted(n, "income")) - Posted(n, "spend")
        /\ Expected(n)' = months'[n].opening + (Prepared(n)' + Posted(n, "income")') - Posted(n, "spend")'
    BY Summed, SummedNext DEF ExpectedSummed
  <2> QED
    BY <1>3, <1>4, <1>5, <2>1
<1> QED
  BY <1>2, <1>3, <1>4, <1>5, <1>6 DEF Variance

-----------------------------------------------------------------------------
(* How the figures of a month move.                                        *)

(* The amounts of rows and requests are numbers.                           *)
Amount(F, rows) ==
  \A x \in DOMAIN rows : /\ F[x] = rows[x].amount
                         /\ rows[x].amount \in Int
                         /\ Sum(F, {x}) = rows[x].amount
AmountsWhole == Amount(TxnAmounts, txns) /\ Amount(IncomeAmounts, incomes)

(* The invariant gives it,                                                 *)
LEMMA LInvAmounts == LInv => AmountsWhole
<1> SUFFICES ASSUME LInv PROVE AmountsWhole
  OBVIOUS
<1>1. ASSUME NEW t \in DOMAIN txns
      PROVE  TxnAmounts[t] = txns[t].amount /\ TxnAmounts[t] \in Int
  BY LInvMeans DEF Whole
<1>2. ASSUME NEW i \in DOMAIN incomes
      PROVE  IncomeAmounts[i] = incomes[i].amount /\ IncomeAmounts[i] \in Int
  BY LInvMeans DEF Whole
<1> QED
  BY <1>1, <1>2, SumSingle DEF AmountsWhole, Amount

(* before and after a step.                                                *)
LEMMA LInvAmountsNext == LInv' => AmountsWhole'
  BY LInvAmounts, PTL

(* The amounts in a job are numbers.                                       *)
LEMMA JobAmounts ==
  ASSUME LInv, NEW h \in Handlers
  PROVE  jobs[h].amount \in Int /\ jobs[h].was \in Int
BY DEF LInv, TypeInv, Carries, Job

(* The figures of a month are numbers.                                     *)
LEMMA SumsInt ==
  ASSUME LInv, NEW m
  PROVE  Prepared(m) \in Int /\ \A kind : Posted(m, kind) \in Int
<1>1. Prepared(m) \in Int
  <2>1. IsFiniteSet(IncomesOf(m))
    BY LInvMeans DEF Whole
  <2>2. \A i \in IncomesOf(m) : IncomeAmounts[i] \in Int
    BY LInvAmounts DEF AmountsWhole, Amount, IncomesOf
  <2> QED
    BY <2>1, <2>2, SumInt DEF Prepared
<1>2. ASSUME NEW kind PROVE Posted(m, kind) \in Int
  <2>1. IsFiniteSet(Visible(m, kind))
    BY LInvMeans DEF Whole
  <2>2. \A t \in Visible(m, kind) : TxnAmounts[t] \in Int
    BY LInvAmounts DEF AmountsWhole, Amount, Visible
  <2> QED
    BY <2>1, <2>2, SumInt DEF Posted
<1> QED
  BY <1>1, <1>2

(* The figures of a month whose balance and sums move as given.            *)
LEMMA FiguresMove ==
  ASSUME LInv, LInv', NEW m \in DOMAIN months, m \in DOMAIN months',
         months'[m].opening = months[m].opening,
         NEW d \in Int, months'[m].wallet = months[m].wallet + d,
         NEW p \in Int, Prepared(m)' = Prepared(m) + p,
         NEW i \in Int, Posted(m, "income")' = Posted(m, "income") + i,
         NEW s \in Int, Posted(m, "spend")' = Posted(m, "spend") + s,
         d = p + i - s
  PROVE  Variance(m)' = Variance(m)
<1>1. /\ Expected(m) = months[m].opening + (Prepared(m) + Posted(m, "income")) - Posted(m, "spend")
      /\ Expected(m)' = months'[m].opening + (Prepared(m)' + Posted(m, "income")') - Posted(m, "spend")'
  BY Summed, SummedNext DEF ExpectedSummed
<1>2. /\ Prepared(m) \in Int /\ Posted(m, "income") \in Int /\ Posted(m, "spend") \in Int
      /\ months[m].opening \in Int /\ months[m].wallet \in Int
  BY SumsInt, LInvMeans DEF Whole
<1>3. /\ Variance(m) = months[m].wallet - Expected(m)
      /\ Variance(m)' = months'[m].wallet - Expected(m)'
  BY DEF Variance
<1> QED
  BY <1>1, <1>2, <1>3

(* When transactions leave and join what is visible of a month and the     *)
(* rest keep their amounts, the figure moves by the amounts that left and  *)
(* joined.                                                                 *)
LEMMA PostedMoves ==
  ASSUME LInv, LInv', NEW m, NEW kind,
         NEW gone \in SUBSET Visible(m, kind), NEW new,
         Visible(m, kind)' = (Visible(m, kind) \ gone) \cup new,
         (Visible(m, kind) \ gone) \cap new = {},
         \A t \in Visible(m, kind) \ gone : txns'[t].amount = txns[t].amount
  PROVE  Posted(m, kind)' = Posted(m, kind) - Sum(TxnAmounts, gone) + Sum(TxnAmounts', new)
<1>1. /\ IsFiniteSet(Visible(m, kind)) /\ Visible(m, kind) \subseteq DOMAIN txns
      /\ IsFiniteSet(Visible(m, kind)') /\ Visible(m, kind)' \subseteq DOMAIN txns'
  BY LInvMeans, LInvMeansNext DEF Whole, TxnsOf
<1>2. /\ \A t \in Visible(m, kind) : TxnAmounts[t] = txns[t].amount /\ TxnAmounts[t] \in Int
      /\ \A t \in Visible(m, kind)' : TxnAmounts'[t] = txns'[t].amount /\ TxnAmounts'[t] \in Int
  BY <1>1, LInvMeans, LInvMeansNext DEF Whole
<1>3. \A t \in Visible(m, kind) \ gone : TxnAmounts[t] = TxnAmounts'[t]
  BY <1>2
<1>4. Sum(TxnAmounts', Visible(m, kind)') =
        Sum(TxnAmounts, Visible(m, kind)) - Sum(TxnAmounts, gone) + Sum(TxnAmounts', new)
  BY <1>1, <1>2, <1>3, SumMoved
<1> QED
  BY <1>4 DEF Posted

(* The same of income items.                                               *)
LEMMA PreparedMoves ==
  ASSUME LInv, LInv', NEW m,
         NEW gone \in SUBSET IncomesOf(m), NEW new,
         IncomesOf(m)' = (IncomesOf(m) \ gone) \cup new,
         (IncomesOf(m) \ gone) \cap new = {},
         \A i \in IncomesOf(m) \ gone : incomes'[i].amount = incomes[i].amount
  PROVE  Prepared(m)' = Prepared(m) - Sum(IncomeAmounts, gone) + Sum(IncomeAmounts', new)
<1>1. /\ IsFiniteSet(IncomesOf(m)) /\ IncomesOf(m) \subseteq DOMAIN incomes
      /\ IsFiniteSet(IncomesOf(m)') /\ IncomesOf(m)' \subseteq DOMAIN incomes'
  BY LInvMeans, LInvMeansNext DEF Whole, IncomesOf
<1>2. /\ \A i \in IncomesOf(m) : IncomeAmounts[i] = incomes[i].amount /\ IncomeAmounts[i] \in Int
      /\ \A i \in IncomesOf(m)' : IncomeAmounts'[i] = incomes'[i].amount /\ IncomeAmounts'[i] \in Int
  BY <1>1, LInvMeans, LInvMeansNext DEF Whole
<1>3. \A i \in IncomesOf(m) \ gone : IncomeAmounts[i] = IncomeAmounts'[i]
  BY <1>2
<1>4. Sum(IncomeAmounts', IncomesOf(m)') =
        Sum(IncomeAmounts, IncomesOf(m)) - Sum(IncomeAmounts, gone) + Sum(IncomeAmounts', new)
  BY <1>1, <1>2, <1>3, SumMoved
<1> QED
  BY <1>4 DEF Prepared

(* Where the transactions and links stay, so do their figures;             *)
LEMMA SameTxns ==
  ASSUME UNCHANGED <<txns, split>>, NEW m, NEW kind
  PROVE  Posted(m, kind)' = Posted(m, kind) /\ Visible(m, kind)' = Visible(m, kind)
BY DEF Posted, TxnAmounts, Visible, SplitChildren

(* where the income items stay, so does theirs.                            *)
LEMMA SameIncomes ==
  ASSUME UNCHANGED incomes, NEW m
  PROVE  Prepared(m)' = Prepared(m)
BY DEF Prepared, IncomeAmounts, IncomesOf

(* A delta moves the balance of its month and nothing else of the row.     *)
LEMMA WalletMoves ==
  ASSUME LInv, NEW m \in DOMAIN months, NEW d, ApplyWalletBalanceDelta(m, d)
  PROVE  months'[m].opening = months[m].opening /\ months'[m].wallet = months[m].wallet + d
<1>1. DOMAIN months[m] = {"key", "opening", "wallet", "status", "closedWallet"}
  BY DEF LInv, TypeInv, TypeOK, IsTable, MonthRow
<1> QED
  BY <1>1 DEF ApplyWalletBalanceDelta

(* The same, said of a step that moves one of the three sums.              *)
LEMMA PreparedVariance ==
  ASSUME LInv, LInv', NEW m \in DOMAIN months, m \in DOMAIN months',
         NEW d \in Int, ApplyWalletBalanceDelta(m, d),
         Prepared(m)' = Prepared(m) + d, UNCHANGED <<txns, split>>
  PROVE  Variance(m)' = Variance(m)
<1>1. months'[m].opening = months[m].opening /\ months'[m].wallet = months[m].wallet + d
  BY WalletMoves
<1>2. \A kind : Posted(m, kind)' = Posted(m, kind) + 0
  <2>1. \A kind : Posted(m, kind)' = Posted(m, kind)
    BY SameTxns
  <2>2. \A kind : Posted(m, kind) \in Int
    BY SumsInt
  <2> QED
    BY <2>1, <2>2
<1>3. d = d + 0 - 0 /\ 0 \in Int
  OBVIOUS
<1> QED
  BY <1>1, <1>2, <1>3, FiguresMove

(* Adding, changing and deleting income moves balance and books by the     *)
(* same, unless the amount read is stale.                                  *)
LEMMA IncomeVariance ==
  ASSUME LInv, LInv', NEW h \in Handlers, CreateIncome(h) \/ UpdateIncome(h) \/ DeleteIncome(h),
         ~Stale(h), NEW m \in DOMAIN months, m \in DOMAIN months', m = jobs[h].month
  PROVE  Variance(m)' = Variance(m)
<1> DEFINE j == jobs[h]
<1>1. j.amount \in Int /\ j.was \in Int /\ Prepared(m) \in Int
  BY JobAmounts, SumsInt
<1>2. UNCHANGED <<txns, split>>
  BY DEF CreateIncome, UpdateIncome, DeleteIncome
<1>3. AmountsWhole /\ AmountsWhole'
  BY LInvAmounts, LInvAmountsNext
<1>4. Sum(IncomeAmounts, {}) = 0 /\ Sum(IncomeAmounts', {}) = 0
  BY SumEmpty
<1>5. CASE CreateIncome(h)
  <2>1. PICK i \in FreshIncomes :
          /\ incomes' = Put(incomes, i, [month |-> j.month, amount |-> j.amount])
          /\ ApplyWalletBalanceDelta(j.month, j.amount)
    BY <1>5 DEF CreateIncome
  <2>3. /\ DOMAIN incomes' = DOMAIN incomes \cup {i} /\ i \notin DOMAIN incomes
        /\ incomes'[i].month = m /\ incomes'[i].amount = j.amount
        /\ \A x \in DOMAIN incomes : incomes'[x] = incomes[x]
    BY <2>1 DEF Put, FreshIncomes
  <2>4. /\ IncomesOf(m)' = (IncomesOf(m) \ {}) \cup {i} /\ (IncomesOf(m) \ {}) \cap {i} = {}
        /\ \A x \in IncomesOf(m) \ {} : incomes'[x].amount = incomes[x].amount
    BY <2>3 DEF IncomesOf
  <2>5. Sum(IncomeAmounts', {i}) = j.amount
    BY <1>3, <2>3 DEF AmountsWhole, Amount
  <2>6. Prepared(m)' = Prepared(m) - Sum(IncomeAmounts, {}) + Sum(IncomeAmounts', {i})
    BY <2>4, PreparedMoves
  <2> HIDE DEF j
  <2>7. Prepared(m)' = Prepared(m) + j.amount
    BY <1>1, <1>4, <2>5, <2>6
  <2>8. ApplyWalletBalanceDelta(m, j.amount)
    BY <2>1 DEF j
  <2> QED
    BY <1>1, <1>2, <2>7, <2>8, PreparedVariance
<1>6. CASE UpdateIncome(h)
  <2>1. /\ j.op = "UpdateIncome" /\ j.row \in DOMAIN incomes
        /\ incomes' = [incomes EXCEPT ![j.row].amount = j.amount]
        /\ ApplyWalletBalanceDelta(j.month, j.amount - j.was)
    BY <1>6 DEF UpdateIncome, Writes
  <2>a. incomes[j.row].amount = j.was
    BY <2>1 DEF Stale
  <2>b. incomes[j.row].month = m
    BY <2>1 DEF LInv, AllRight, RowsRight
  <2>2. DOMAIN incomes[j.row] = {"month", "amount"}
    BY <2>1 DEF LInv, IInv, InOrder, RowsShaped
  <2>4. /\ DOMAIN incomes' = DOMAIN incomes
        /\ incomes'[j.row].month = m /\ incomes'[j.row].amount = j.amount
        /\ \A x \in DOMAIN incomes \ {j.row} : incomes'[x] = incomes[x]
    BY <2>1, <2>2, <2>b
  <2>5. /\ {j.row} \in SUBSET IncomesOf(m)
        /\ IncomesOf(m)' = (IncomesOf(m) \ {j.row}) \cup {j.row}
        /\ (IncomesOf(m) \ {j.row}) \cap {j.row} = {}
        /\ \A x \in IncomesOf(m) \ {j.row} : incomes'[x].amount = incomes[x].amount
    BY <2>1, <2>b, <2>4 DEF IncomesOf
  <2>6. Sum(IncomeAmounts', {j.row}) = j.amount /\ Sum(IncomeAmounts, {j.row}) = j.was
    BY <1>3, <2>1, <2>a, <2>4 DEF AmountsWhole, Amount
  <2>7. Prepared(m)' = Prepared(m) - Sum(IncomeAmounts, {j.row}) + Sum(IncomeAmounts', {j.row})
    BY <2>5, PreparedMoves
  <2> HIDE DEF j
  <2>8. Prepared(m)' = Prepared(m) + (j.amount - j.was) /\ j.amount - j.was \in Int
    BY <1>1, <2>6, <2>7
  <2>9. ApplyWalletBalanceDelta(m, j.amount - j.was)
    BY <2>1 DEF j
  <2> QED
    BY <1>1, <1>2, <2>8, <2>9, PreparedVariance
<1>7. CASE DeleteIncome(h)
  <2>1. /\ j.op = "DeleteIncome" /\ j.row \in DOMAIN incomes
        /\ incomes' = Without(incomes, {j.row})
        /\ ApplyWalletBalanceDelta(j.month, -j.was)
    BY <1>7 DEF DeleteIncome, Writes
  <2>a. incomes[j.row].amount = j.was
    BY <2>1 DEF Stale
  <2>b. incomes[j.row].month = m
    BY <2>1 DEF LInv, AllRight, RowsRight
  <2>3. /\ DOMAIN incomes' = DOMAIN incomes \ {j.row}
        /\ \A x \in DOMAIN incomes' : incomes'[x] = incomes[x]
    BY <2>1 DEF Without, Restrict
  <2>4. /\ {j.row} \in SUBSET IncomesOf(m)
        /\ IncomesOf(m)' = (IncomesOf(m) \ {j.row}) \cup {}
        /\ (IncomesOf(m) \ {j.row}) \cap {} = {}
        /\ \A x \in IncomesOf(m) \ {j.row} : incomes'[x].amount = incomes[x].amount
    BY <2>1, <2>b, <2>3 DEF IncomesOf
  <2>5. Sum(IncomeAmounts, {j.row}) = j.was
    BY <1>3, <2>1, <2>a DEF AmountsWhole, Amount
  <2>6. Prepared(m)' = Prepared(m) - Sum(IncomeAmounts, {j.row}) + Sum(IncomeAmounts', {})
    BY <2>4, PreparedMoves
  <2> HIDE DEF j
  <2>7. Prepared(m)' = Prepared(m) + (-j.was) /\ -j.was \in Int
    BY <1>1, <1>4, <2>5, <2>6
  <2>8. ApplyWalletBalanceDelta(m, -j.was)
    BY <2>1 DEF j
  <2> QED
    BY <1>2, <2>7, <2>8, PreparedVariance
<1> QED
  BY <1>5, <1>6, <1>7

-----------------------------------------------------------------------------
(* What each write does to balance and books.                              *)

(* What is known of the rows of a split, and of the one that was split.    *)
SplitRows ==
  \A c \in DOMAIN split :
    /\ c \in DOMAIN txns /\ txns[c].parent = split[c] /\ txns[c].kind = "spend"
    /\ split[c] \in DOMAIN txns \ DOMAIN split
    /\ txns[split[c]].month = txns[c].month /\ txns[split[c]].kind = "spend"

(* The invariant gives it.                                                 *)
LEMMA LInvSplits == LInv => SplitRows
<1> SUFFICES ASSUME LInv, NEW c \in DOMAIN split
             PROVE  /\ c \in DOMAIN txns /\ txns[c].parent = split[c] /\ txns[c].kind = "spend"
                    /\ split[c] \in DOMAIN txns \ DOMAIN split
                    /\ txns[split[c]].month = txns[c].month /\ txns[split[c]].kind = "spend"
  BY DEF SplitRows
<1>1. split[c] # None
  BY NoneAssumption DEF LInv, IInv, InOrder, RowsShaped
<1>2. c \in DOMAIN txns /\ txns[c].parent = split[c] /\ split[c] \in DOMAIN txns
  BY <1>1 DEF LInv, IInv, InOrder, SplitRecordsAgree
<1> QED
  BY <1>2 DEF LInv, IInv, InOrder, SplitsAreFlat

(* A transaction is spending or income.                                    *)
LEMMA KindOf ==
  ASSUME LInv, NEW t \in DOMAIN txns
  PROVE  txns[t].kind \in {"spend", "income"}
BY DEF LInv, TypeInv, TypeOK, IsTable, TxnRow

(* A step that posts transactions to a month or takes them back.           *)
LEMMA PostedVariance ==
  ASSUME LInv, LInv', NEW m \in DOMAIN months, m \in DOMAIN months', UNCHANGED incomes,
         NEW d \in Int, months'[m].opening = months[m].opening,
         months'[m].wallet = months[m].wallet + d,
         NEW i \in Int, Posted(m, "income")' = Posted(m, "income") + i,
         NEW s \in Int, Posted(m, "spend")' = Posted(m, "spend") + s,
         d = i - s
  PROVE  Variance(m)' = Variance(m)
<1>1. Prepared(m)' = Prepared(m) + 0
  BY SameIncomes, SumsInt
<1>2. d = 0 + i - s /\ 0 \in Int
  OBVIOUS
<1> QED
  BY <1>1, <1>2, FiguresMove

(* Nothing is posted and the balances stay.                                *)
LEMMA SameVariance ==
  ASSUME LInv, LInv', NEW m \in DOMAIN months, m \in DOMAIN months',
         UNCHANGED <<incomes, txns, split>>,
         months'[m].opening = months[m].opening, months'[m].wallet = months[m].wallet
  PROVE  Variance(m)' = Variance(m)
<1>1. \A kind : Posted(m, kind)' = Posted(m, kind) /\ Posted(m, kind) \in Int
  BY SameTxns, SumsInt
<1>2. months[m].wallet \in Int
  BY LInvMeans DEF Whole
<1>3. /\ Posted(m, "income")' = Posted(m, "income") + 0
      /\ Posted(m, "spend")' = Posted(m, "spend") + 0
      /\ months'[m].wallet = months[m].wallet + 0
  BY <1>1, <1>2
<1>4. 0 = 0 - 0 /\ 0 \in Int
  OBVIOUS
<1> QED
  BY <1>3, <1>4, PostedVariance

(* Closing, reopening and editing allocations move neither.                *)
LEMMA PlainVariance ==
  ASSUME LInv, LInv', NEW h \in Handlers,
         \/ CloseMonth(h) \/ ReopenMonth(h) \/ CreateAllocation(h) \/ UpdateAllocation(h),
         NEW m \in DOMAIN months, m \in DOMAIN months', m = jobs[h].month
  PROVE  Variance(m)' = Variance(m)
<1>1. UNCHANGED <<incomes, txns, split>>
  BY DEF CloseMonth, ReopenMonth, CreateAllocation, UpdateAllocation
<1>2. DOMAIN months[m] = {"key", "opening", "wallet", "status", "closedWallet"}
  BY DEF LInv, TypeInv, TypeOK, IsTable, MonthRow
<1>3. months'[m].opening = months[m].opening /\ months'[m].wallet = months[m].wallet
  BY <1>2 DEF CloseMonth, ReopenMonth, CreateAllocation, UpdateAllocation
<1> QED
  BY <1>1, <1>3, SameVariance

(* A transaction is added that no split knows of.                          *)
LEMMA PostedOne ==
  ASSUME LInv, LInv', NEW t, t \notin DOMAIN txns, UNCHANGED split,
         DOMAIN txns' = DOMAIN txns \cup {t}, \A x \in DOMAIN txns : txns'[x] = txns[x],
         NEW m, txns'[t].month = m,
         NEW kind
  PROVE  Posted(m, kind)' = Posted(m, kind) + IF txns'[t].kind = kind THEN txns'[t].amount ELSE 0
<1>1. SplitChildren(t)' = {}
  BY LInvSplits DEF SplitRows, SplitChildren
<1>2. \A x : SplitChildren(x)' = SplitChildren(x)
  BY DEF SplitChildren
<1>3. Sum(TxnAmounts, {}) = 0 /\ Sum(TxnAmounts', {}) = 0 /\ Posted(m, kind) \in Int
  BY SumEmpty, SumsInt
<1>4. CASE txns'[t].kind = kind
  <2>1. /\ Visible(m, kind)' = (Visible(m, kind) \ {}) \cup {t}
        /\ (Visible(m, kind) \ {}) \cap {t} = {}
        /\ \A x \in Visible(m, kind) \ {} : txns'[x].amount = txns[x].amount
    BY <1>1, <1>2, <1>4 DEF Visible
  <2>2. Posted(m, kind)' = Posted(m, kind) - Sum(TxnAmounts, {}) + Sum(TxnAmounts', {t})
    BY <2>1, PostedMoves
  <2>3. Sum(TxnAmounts', {t}) = txns'[t].amount /\ txns'[t].amount \in Int
    BY LInvAmountsNext DEF AmountsWhole, Amount
  <2> QED
    BY <1>3, <1>4, <2>2, <2>3
<1>5. CASE txns'[t].kind # kind
  <2>1. /\ Visible(m, kind)' = (Visible(m, kind) \ {}) \cup {}
        /\ (Visible(m, kind) \ {}) \cap {} = {}
        /\ \A x \in Visible(m, kind) \ {} : txns'[x].amount = txns[x].amount
    BY <1>1, <1>2, <1>5 DEF Visible
  <2>2. Posted(m, kind)' = Posted(m, kind) - Sum(TxnAmounts, {}) + Sum(TxnAmounts', {})
    BY <2>1, PostedMoves
  <2> QED
    BY <1>3, <1>5, <2>2
<1> QED
  BY <1>4, <1>5

(* Spending takes its amount out of both.                                  *)
LEMMA CreateTransactionVariance ==
  ASSUME LInv, LInv', NEW h \in Handlers, CreateTransaction(h),
         NEW m \in DOMAIN months, m \in DOMAIN months', m = jobs[h].month
  PROVE  Variance(m)' = Variance(m)
<1> DEFINE j == jobs[h]
<1>1. PICK t \in FreshTxns :
        /\ txns' = Put(txns, t, [month |-> j.month, alloc |-> j.alloc, amount |-> j.amount,
                                 kind |-> "spend", source |-> "manual", parent |-> None])
        /\ ApplyWalletBalanceDelta(j.month, -j.amount)
        /\ UNCHANGED <<incomes, allocs, split, updates>>
  BY DEF CreateTransaction
<1>2. /\ t \notin DOMAIN txns /\ DOMAIN txns' = DOMAIN txns \cup {t}
      /\ txns'[t].month = m /\ txns'[t].amount = j.amount /\ txns'[t].kind = "spend"
      /\ \A x \in DOMAIN txns : txns'[x] = txns[x]
  BY <1>1 DEF FreshTxns, Put
<1>3. UNCHANGED incomes /\ UNCHANGED split /\ ApplyWalletBalanceDelta(m, -j.amount)
  BY <1>1
<1>4. j.amount \in Int /\ \A kind : Posted(m, kind) \in Int
  BY JobAmounts, SumsInt
<1> HIDE DEF j
<1>5. \A kind : Posted(m, kind)' =
                  Posted(m, kind) + IF txns'[t].kind = kind THEN txns'[t].amount ELSE 0
  BY <1>2, <1>3, PostedOne
<1>6. /\ Posted(m, "income")' = Posted(m, "income") + 0
      /\ Posted(m, "spend")' = Posted(m, "spend") + j.amount
  BY <1>2, <1>5
<1>7. -j.amount \in Int /\ -j.amount = 0 - j.amount /\ 0 \in Int
  BY <1>4
<1>8. months'[m].opening = months[m].opening /\ months'[m].wallet = months[m].wallet + (-j.amount)
  BY <1>3, WalletMoves
<1> QED
  BY <1>3, <1>4, <1>6, <1>7, <1>8, PostedVariance

(* A reconciliation posts the difference between the balance it sets and   *)
(* the balance it read.                                                    *)
LEMMA CreateBalanceUpdateVariance ==
  ASSUME LInv, LInv', NEW h \in Handlers, CreateBalanceUpdate(h), ~Stale(h),
         NEW m \in DOMAIN months, m \in DOMAIN months', m = jobs[h].month
  PROVE  Variance(m)' = Variance(m)
<1> DEFINE j == jobs[h]
           delta == j.amount - j.was
<1>1. j.op = "CreateBalanceUpdate" /\ months' = [months EXCEPT ![m].wallet = j.amount]
      /\ UNCHANGED <<incomes, split>>
  BY DEF CreateBalanceUpdate, Writes
<1>2. j.was = months[m].wallet
  BY <1>1 DEF Stale
<1>3. DOMAIN months[m] = {"key", "opening", "wallet", "status", "closedWallet"}
  BY DEF LInv, TypeInv, TypeOK, IsTable, MonthRow
<1>4. months'[m].opening = months[m].opening /\ months'[m].wallet = j.amount
  BY <1>1, <1>3
<1>5. j.amount \in Int /\ j.was \in Int /\ \A kind : Posted(m, kind) \in Int
  BY JobAmounts, SumsInt
<1>6. \/ delta = 0 /\ UNCHANGED txns
      \/ \E t \in FreshTxns : \E a :
           /\ delta # 0
           /\ txns' = Put(txns, t,
                       [month |-> j.month, alloc |-> a,
                        amount |-> ReconciliationAmount(delta),
                        kind |-> IF delta < 0 THEN "spend" ELSE "income",
                        source |-> "reconciliation", parent |-> None])
  BY Zenon DEF CreateBalanceUpdate
<1>7. delta \in Int /\ months'[m].wallet = months[m].wallet + delta
  BY <1>2, <1>4, <1>5
<1>8. CASE delta = 0 /\ UNCHANGED txns
  <2>1. months'[m].wallet = months[m].wallet
    BY <1>2, <1>4, <1>5, <1>8
  <2>2. UNCHANGED <<incomes, txns, split>>
    BY <1>1, <1>8
  <2> HIDE DEF delta, j
  <2> QED
    BY <1>4, <2>1, <2>2, SameVariance
<1>9. CASE delta # 0
  <2>1. PICK t, a :
           /\ t \in FreshTxns
           /\ txns' = Put(txns, t,
                          [month |-> j.month, alloc |-> a,
                           amount |-> ReconciliationAmount(delta),
                           kind |-> IF delta < 0 THEN "spend" ELSE "income",
                           source |-> "reconciliation", parent |-> None])
    BY <1>6, <1>9
  <2> HIDE DEF delta
  <2>2. /\ t \notin DOMAIN txns /\ DOMAIN txns' = DOMAIN txns \cup {t}
        /\ txns'[t].month = m /\ txns'[t].amount = ReconciliationAmount(delta)
        /\ txns'[t].kind = IF delta < 0 THEN "spend" ELSE "income"
        /\ \A x \in DOMAIN txns : txns'[x] = txns[x]
    BY <2>1 DEF FreshTxns, Put
  <2>3. UNCHANGED incomes /\ UNCHANGED split
    BY <1>1
  <2> HIDE DEF j
  <2>4. \A kind : Posted(m, kind)' =
                    Posted(m, kind) + IF txns'[t].kind = kind THEN txns'[t].amount ELSE 0
    BY <2>2, <2>3, PostedOne
  <2>5. CASE delta < 0
    <3>1. /\ Posted(m, "income")' = Posted(m, "income") + 0
          /\ Posted(m, "spend")' = Posted(m, "spend") + (-delta)
      BY <2>2, <2>4, <2>5 DEF ReconciliationAmount
    <3>2. delta = 0 - (-delta) /\ -delta \in Int /\ 0 \in Int
      BY <1>7
    <3> QED
      BY <1>4, <1>7, <2>3, <3>1, <3>2, PostedVariance
  <2>6. CASE ~(delta < 0)
    <3>1. /\ Posted(m, "income")' = Posted(m, "income") + delta
          /\ Posted(m, "spend")' = Posted(m, "spend") + 0
      BY <2>2, <2>4, <2>6 DEF ReconciliationAmount
    <3>2. delta = delta - 0 /\ 0 \in Int
      BY <1>7
    <3> QED
      BY <1>4, <1>7, <2>3, <3>1, <3>2, PostedVariance
  <2> QED
    BY <2>5, <2>6
<1> QED
  BY <1>6, <1>8, <1>9

(* An edit moves both by the change of amount, or neither: what was split  *)
(* is not visible, and a row of a split keeps its amount.                  *)
LEMMA UpdateTransactionVariance ==
  ASSUME LInv, LInv', NEW h \in Handlers, UpdateTransaction(h), ~Stale(h),
         NEW m \in DOMAIN months, m \in DOMAIN months', m = jobs[h].month
  PROVE  Variance(m)' = Variance(m)
<1> DEFINE j == jobs[h]
           r == j.row
           kind == txns[r].kind
<1>1. /\ j.op = "UpdateTransaction" /\ r \in DOMAIN txns
      /\ txns' = [txns EXCEPT ![r].alloc = j.alloc, ![r].amount = j.amount]
      /\ UNCHANGED <<incomes, allocs, split, updates>>
      /\ ApplyWalletBalanceDelta(m,
           IF j.relevant THEN TransactionEditBalanceDelta(kind, j.was, j.amount) ELSE 0)
  BY DEF UpdateTransaction, Writes
<1>2. /\ txns[r].amount = j.was
      /\ j.relevant => txns[r].parent = None /\ SplitChildren(r) = {}
      /\ txns[r].parent = None /\ SplitChildren(r) = {} => j.relevant
  <2>1. j.relevant \in BOOLEAN
    BY DEF LInv, TypeInv, Carries, Job
  <2> QED
    BY <1>1, <2>1 DEF Stale
<1>3. txns[r].month = m
  BY <1>1 DEF LInv, IInv, ChecksStillHold, JobHolds, OnTransaction
<1>4. txns[r].parent # None => j.amount = j.was
  BY <1>1 DEF LInv, AllRight, RowsRight
<1>5. /\ DOMAIN txns' = DOMAIN txns
      /\ txns'[r].month = m /\ txns'[r].kind = kind /\ txns'[r].amount = j.amount
      /\ \A t \in DOMAIN txns \ {r} : txns'[t] = txns[t]
  BY <1>1, <1>3, TxnMonth
<1>6. /\ j.amount \in Int /\ j.was \in Int /\ kind \in {"spend", "income"}
      /\ \A k : Posted(m, k) \in Int
  BY <1>1, JobAmounts, SumsInt, KindOf
<1>7. AmountsWhole /\ AmountsWhole'
  BY LInvAmounts, LInvAmountsNext
<1>8. Sum(TxnAmounts', {r}) = j.amount /\ Sum(TxnAmounts, {r}) = j.was
  BY <1>1, <1>2, <1>5, <1>7 DEF AmountsWhole, Amount
<1>9. Sum(TxnAmounts, {}) = 0 /\ Sum(TxnAmounts', {}) = 0
  BY SumEmpty
<1>10. \A x : SplitChildren(x)' = SplitChildren(x)
  BY <1>1 DEF SplitChildren
<1> DEFINE edit == IF SplitChildren(r) = {} THEN j.amount - j.was ELSE 0
<1>11. ASSUME NEW k PROVE Posted(m, k)' = Posted(m, k) + IF k = kind THEN edit ELSE 0
  <2>1. CASE r \in Visible(m, k)
    <3>1. /\ {r} \in SUBSET Visible(m, k)
          /\ Visible(m, k)' = (Visible(m, k) \ {r}) \cup {r}
          /\ (Visible(m, k) \ {r}) \cap {r} = {}
          /\ \A x \in Visible(m, k) \ {r} : txns'[x].amount = txns[x].amount
      BY <1>5, <1>10, <2>1 DEF Visible
    <3>2. Posted(m, k)' = Posted(m, k) - Sum(TxnAmounts, {r}) + Sum(TxnAmounts', {r})
      BY <3>1, PostedMoves
    <3>3. k = kind /\ SplitChildren(r) = {}
      BY <2>1 DEF Visible
    <3> HIDE DEF j, r, kind
    <3>4. edit = j.amount - j.was
      BY <3>3
    <3> HIDE DEF edit
    <3> QED
      BY <1>6, <1>8, <3>2, <3>3, <3>4
  <2>2. CASE r \notin Visible(m, k)
    <3>a. Visible(m, k)' = Visible(m, k)
      BY <1>1, <1>3, <1>5, <1>10, <2>2 DEF Visible
    <3>b. \A x \in Visible(m, k) : txns'[x].amount = txns[x].amount
      BY <1>5, <2>2 DEF Visible
    <3>1. /\ {} \in SUBSET Visible(m, k)
          /\ Visible(m, k)' = (Visible(m, k) \ {}) \cup {}
          /\ (Visible(m, k) \ {}) \cap {} = {}
          /\ \A x \in Visible(m, k) \ {} : txns'[x].amount = txns[x].amount
      BY <3>a, <3>b
    <3>2. Posted(m, k)' = Posted(m, k) - Sum(TxnAmounts, {}) + Sum(TxnAmounts', {})
      BY <3>1, PostedMoves
    <3>3. k # kind \/ SplitChildren(r) # {}
      BY <1>1, <1>3, <2>2 DEF Visible
    <3> HIDE DEF j, r, kind
    <3>4. (IF k = kind THEN edit ELSE 0) = 0
      BY <3>3
    <3> HIDE DEF edit
    <3> QED
      BY <1>6, <1>9, <3>2, <3>4
  <2> QED
    BY <2>1, <2>2
<1> DEFINE d == IF j.relevant THEN TransactionEditBalanceDelta(kind, j.was, j.amount) ELSE 0
<1>12. ApplyWalletBalanceDelta(m, d) /\ UNCHANGED incomes
  BY <1>1
<1> HIDE DEF j, r, kind
<1>13. d = IF kind = "income" THEN edit ELSE 0 - edit
  <2>1. CASE j.relevant
    BY <1>2, <1>6, <2>1 DEF TransactionEditBalanceDelta
  <2>2. CASE ~j.relevant
    BY <1>2, <1>4, <1>6, <2>2
  <2> QED
    BY <2>1, <2>2
<1>14. edit \in Int
  BY <1>6
<1> HIDE DEF edit, d
<1>15. months'[m].opening = months[m].opening /\ months'[m].wallet = months[m].wallet + d
  BY <1>12, WalletMoves
<1>16. CASE kind = "income"
  <2>1. Posted(m, "income")' = Posted(m, "income") + edit /\ Posted(m, "spend")' = Posted(m, "spend") + 0
    BY <1>11, <1>16
  <2>2. d = edit - 0 /\ d \in Int /\ 0 \in Int
    BY <1>13, <1>14, <1>16
  <2> QED
    BY <1>12, <1>14, <1>15, <2>1, <2>2, PostedVariance
<1>17. CASE kind = "spend"
  <2>1. Posted(m, "income")' = Posted(m, "income") + 0 /\ Posted(m, "spend")' = Posted(m, "spend") + edit
    BY <1>11, <1>17
  <2>2. d = 0 - edit /\ d \in Int /\ 0 \in Int
    BY <1>13, <1>14, <1>17
  <2> QED
    BY <1>12, <1>14, <1>15, <2>1, <2>2, PostedVariance
<1> QED
  BY <1>6, <1>16, <1>17

(* A deletion gives back the amount of the transaction or of the rows it   *)
(* was split into.                                                         *)
LEMMA DeleteTransactionVariance ==
  ASSUME LInv, LInv', NEW h \in Handlers, DeleteTransaction(h), ~Stale(h),
         NEW m \in DOMAIN months, m \in DOMAIN months', m = jobs[h].month
  PROVE  Variance(m)' = Variance(m)
<1> DEFINE j == jobs[h]
           r == j.row
           kind == txns[r].kind
           C == SplitChildren(r)
           dead == C \cup {r}
           d == IF C = {} THEN TransactionDeleteBalanceDelta(kind, j.was) ELSE AmountOf(C)
<1>1. /\ j.op = "DeleteTransaction" /\ r \in DOMAIN txns
      /\ DeleteTxnRows(dead)
      /\ UNCHANGED incomes
      /\ ApplyWalletBalanceDelta(m, d)
  BY DEF DeleteTransaction, Writes
<1>2. txns[r].amount = j.was
  BY <1>1 DEF Stale
<1>3. txns[r].month = m
  BY <1>1 DEF LInv, IInv, ChecksStillHold, JobHolds, OnTransaction
<1>4. txns[r].parent = None /\ None \notin DOMAIN txns
  <2>1. txns[r].parent = None
    BY <1>1 DEF LInv, AllRight, RowsRight
  <2> QED
    BY <2>1, NoneAssumption DEF LInv, IInv, InOrder, RowsShaped
<1>5. SplitRows
  BY LInvSplits
<1>6. r \notin DOMAIN split
  BY <1>4, <1>5 DEF SplitRows
<1>7. /\ C \subseteq DOMAIN split /\ C \subseteq DOMAIN txns
      /\ \A c \in C : /\ txns[c].month = m /\ txns[c].kind = "spend"
                      /\ SplitChildren(c) = {}
      /\ C # {} => kind = "spend"
  BY <1>3, <1>5 DEF SplitRows, SplitChildren
<1>8. /\ DOMAIN txns' = DOMAIN txns \ dead
      /\ \A t \in DOMAIN txns' : /\ txns'[t].month = txns[t].month
                                 /\ txns'[t].kind = txns[t].kind
                                 /\ txns'[t].amount = txns[t].amount
  BY <1>1, TxnMonth DEF DeleteTxnRows
<1>9. \A t \in DOMAIN txns' : SplitChildren(t)' = SplitChildren(t)
  <2>1. /\ DOMAIN split' = {c \in DOMAIN split : c \notin dead /\ split[c] \notin dead}
        /\ \A c \in DOMAIN split' : split'[c] = split[c]
    BY <1>1 DEF DeleteTxnRows, Without, Restrict
  <2>2. \A t \in DOMAIN txns', c \in DOMAIN split : split[c] = t => c \in DOMAIN split'
    BY <1>6, <1>8, <2>1 DEF SplitChildren
  <2> QED
    BY <2>1, <2>2 DEF SplitChildren
<1>10. ASSUME NEW k PROVE Visible(m, k)' = Visible(m, k) \ dead
  BY <1>8, <1>9 DEF Visible
<1>11. ASSUME NEW k, NEW gone, Visible(m, k) \cap dead = gone
       PROVE  Posted(m, k)' = Posted(m, k) - Sum(TxnAmounts, gone)
  <2>1. /\ gone \in SUBSET Visible(m, k)
        /\ Visible(m, k)' = (Visible(m, k) \ gone) \cup {}
        /\ (Visible(m, k) \ gone) \cap {} = {}
    BY <1>10, <1>11
  <2>2. \A x \in Visible(m, k) \ gone : txns'[x].amount = txns[x].amount
    BY <1>8, <1>11 DEF Visible
  <2>3. Posted(m, k)' = Posted(m, k) - Sum(TxnAmounts, gone) + Sum(TxnAmounts', {})
    BY <2>1, <2>2, PostedMoves
  <2>4. IsFiniteSet(gone) /\ \A x \in gone : TxnAmounts[x] \in Int
    <3>1. gone \subseteq Visible(m, k) /\ IsFiniteSet(Visible(m, k))
      BY <2>1, LInvMeans DEF Whole
    <3>2. gone \subseteq DOMAIN txns
      BY <3>1 DEF Visible
    <3> QED
      BY <3>1, <3>2, LInvAmounts, FS_Subset DEF AmountsWhole, Amount
  <2>5. Sum(TxnAmounts, gone) \in Int /\ Sum(TxnAmounts', {}) = 0 /\ Posted(m, k) \in Int
    BY <2>4, SumInt, SumEmpty, SumsInt
  <2> QED
    BY <2>3, <2>5
<1>12. /\ j.was \in Int /\ kind \in {"spend", "income"} /\ \A k : Posted(m, k) \in Int
  BY <1>1, JobAmounts, SumsInt, KindOf
<1>13. Sum(TxnAmounts, {}) = 0 /\ Sum(TxnAmounts, {r}) = j.was
  BY <1>1, <1>2, SumEmpty, LInvAmounts DEF AmountsWhole, Amount
<1>14. ApplyWalletBalanceDelta(m, d) /\ UNCHANGED incomes
  BY <1>1
<1>15. CASE C = {}
  <2>1. r \in Visible(m, kind) /\ dead = {r} /\ \A k : k # kind => r \notin Visible(m, k)
    BY <1>1, <1>3, <1>15 DEF Visible
  <2>2. d = TransactionDeleteBalanceDelta(kind, j.was)
    BY <1>15
  <2> HIDE DEF j, r, kind, C, dead, d
  <2>3. Visible(m, kind) \cap dead = {r} /\ \A k : k # kind => Visible(m, k) \cap dead = {}
    BY <2>1
  <2>4. ASSUME NEW k, k = kind PROVE Posted(m, k)' = Posted(m, k) - j.was
    <3>1. Posted(m, k)' = Posted(m, k) - Sum(TxnAmounts, {r})
      BY <1>11, <2>3, <2>4
    <3> QED
      BY <1>13, <3>1
  <2>5. ASSUME NEW k, k # kind PROVE Posted(m, k)' = Posted(m, k) - 0
    <3>1. Posted(m, k)' = Posted(m, k) - Sum(TxnAmounts, {})
      BY <1>11, <2>3, <2>5
    <3> QED
      BY <1>13, <3>1
  <2>6. CASE kind = "income"
    <3>1. d = -j.was /\ d \in Int /\ d = d - 0 /\ 0 \in Int
      BY <1>12, <2>2, <2>6 DEF TransactionDeleteBalanceDelta
    <3>a. Posted(m, "income")' = Posted(m, "income") - j.was /\ Posted(m, "spend")' = Posted(m, "spend") - 0
      BY <2>4, <2>5, <2>6
    <3>2. Posted(m, "income")' = Posted(m, "income") + d /\ Posted(m, "spend")' = Posted(m, "spend") + 0
      BY <1>12, <3>a, <3>1
    <3>3. months'[m].opening = months[m].opening /\ months'[m].wallet = months[m].wallet + d
      BY <1>14, <3>1, WalletMoves
    <3> QED
      BY <1>14, <3>1, <3>2, <3>3, PostedVariance
  <2>7. CASE kind = "spend"
    <3>1. d = j.was /\ d \in Int /\ d = 0 - (-d) /\ 0 \in Int /\ -d \in Int
      BY <1>12, <2>2, <2>7 DEF TransactionDeleteBalanceDelta
    <3>a. Posted(m, "income")' = Posted(m, "income") - 0 /\ Posted(m, "spend")' = Posted(m, "spend") - j.was
      BY <2>4, <2>5, <2>7
    <3>2. Posted(m, "income")' = Posted(m, "income") + 0 /\ Posted(m, "spend")' = Posted(m, "spend") + (-d)
      BY <1>12, <3>a, <3>1
    <3>3. months'[m].opening = months[m].opening /\ months'[m].wallet = months[m].wallet + d
      BY <1>14, <3>1, WalletMoves
    <3> QED
      BY <1>14, <3>1, <3>2, <3>3, PostedVariance
  <2> QED
    BY <1>12, <2>6, <2>7
<1>16. CASE C # {}
  <2>1. /\ C \subseteq Visible(m, "spend") /\ \A k : r \notin Visible(m, k)
        /\ C \cap Visible(m, "income") = {}
    BY <1>7, <1>16 DEF Visible
  <2>2. d = Sum(TxnAmounts, C)
    BY <1>16, Summed DEF AmountsSummed
  <2>3. Visible(m, "spend") \cap dead = C /\ Visible(m, "income") \cap dead = {}
    BY <2>1
  <2>4. IsFiniteSet(C) /\ \A c \in C : TxnAmounts[c] \in Int
    BY <1>7, <2>1, LInvMeans, LInvAmounts, FS_Subset DEF Whole, AmountsWhole, Amount
  <2> HIDE DEF j, r, kind, C, dead, d
  <2>5. d \in Int
    BY <2>2, <2>4, SumInt
  <2>6. Posted(m, "spend")' = Posted(m, "spend") - d /\ Posted(m, "income")' = Posted(m, "income") - 0
    BY <1>11, <1>13, <2>2, <2>3
  <2>7. /\ Posted(m, "spend")' = Posted(m, "spend") + (-d) /\ -d \in Int /\ 0 \in Int
        /\ Posted(m, "income")' = Posted(m, "income") + 0 /\ d = 0 - (-d)
    BY <1>12, <2>5, <2>6
  <2>8. months'[m].opening = months[m].opening /\ months'[m].wallet = months[m].wallet + d
    BY <1>14, <2>5, WalletMoves
  <2> QED
    BY <1>14, <2>5, <2>7, <2>8, PostedVariance
<1> QED
  BY <1>15, <1>16

(* A split replaces what is visible by rows of the same total.             *)
LEMMA SplitTransactionVariance ==
  ASSUME LInv, LInv', NEW h \in Handlers, SplitTransaction(h), ~Stale(h),
         NEW m \in DOMAIN months, m \in DOMAIN months', m = jobs[h].month
  PROVE  Variance(m)' = Variance(m)
<1> DEFINE j == jobs[h]
<1>0. PICK r, parts : r = j.row /\ parts = j.parts
  OBVIOUS
<1>1a. PICK ids \in SUBSET FreshTxns : \E part \in [ids -> DOMAIN parts] :
        /\ Writes(h, "SplitTransaction")
        /\ part \in Bijection(ids, DOMAIN parts)
        /\ r \in DOMAIN txns
        /\ txns' = [t \in DOMAIN txns \cup ids |->
                      IF t \in ids
                      THEN [month |-> j.month, alloc |-> parts[part[t]].alloc,
                            amount |-> parts[part[t]].amount,
                            kind |-> "spend", source |-> "split", parent |-> r]
                      ELSE txns[t]]
        /\ split' = [c \in DOMAIN split \cup ids |-> IF c \in ids THEN r ELSE split[c]]
        /\ UNCHANGED <<months, incomes, allocs, updates>>
  BY <1>0 DEF SplitTransaction
<1>1. PICK part \in [ids -> DOMAIN parts] :
        /\ Writes(h, "SplitTransaction")
        /\ part \in Bijection(ids, DOMAIN parts)
        /\ r \in DOMAIN txns
        /\ txns' = [t \in DOMAIN txns \cup ids |->
                      IF t \in ids
                      THEN [month |-> j.month, alloc |-> parts[part[t]].alloc,
                            amount |-> parts[part[t]].amount,
                            kind |-> "spend", source |-> "split", parent |-> r]
                      ELSE txns[t]]
        /\ split' = [c \in DOMAIN split \cup ids |-> IF c \in ids THEN r ELSE split[c]]
        /\ UNCHANGED <<months, incomes, allocs, updates>>
  BY <1>1a
<1>2. j.op = "SplitTransaction"
  BY <1>1 DEF Writes
<1>3. txns[r].amount = j.was /\ SplitChildren(r) = {}
  BY <1>0, <1>2 DEF Stale
<1>4. txns[r].month = m /\ txns[r].kind = "spend"
  BY <1>0, <1>1, <1>2 DEF LInv, IInv, ChecksStillHold, JobHolds, OnTransaction
<1>5. SumFunction([i \in DOMAIN parts |-> parts[i].amount]) = j.was
  BY <1>0, <1>2 DEF LInv, AllRight, RowsRight
<1>6. /\ ids \subseteq TxnIds /\ ids \cap DOMAIN txns = {}
      /\ DOMAIN txns' = DOMAIN txns \cup ids
      /\ \A t \in ids : /\ txns'[t].month = m /\ txns'[t].kind = "spend"
                        /\ txns'[t].amount = parts[part[t]].amount
      /\ \A t \in DOMAIN txns : txns'[t] = txns[t]
  BY <1>1 DEF FreshTxns
<1>7. /\ DOMAIN split' = DOMAIN split \cup ids
      /\ \A c \in ids : split'[c] = r
      /\ \A c \in DOMAIN split : split'[c] = split[c] /\ split[c] \in DOMAIN txns /\ c \notin ids
  BY <1>1, <1>6, LInvSplits DEF SplitRows
<1>8. /\ SplitChildren(r)' = ids
      /\ \A t \in ids : SplitChildren(t)' = {}
      /\ \A t \in DOMAIN txns \ {r} : SplitChildren(t)' = SplitChildren(t)
  <2>1. SplitChildren(r)' = ids
    BY <1>3, <1>7 DEF SplitChildren
  <2>2. \A t \in ids : SplitChildren(t)' = {}
    BY <1>1, <1>6, <1>7 DEF SplitChildren
  <2>3. \A t \in DOMAIN txns \ {r} : SplitChildren(t)' = SplitChildren(t)
    BY <1>7 DEF SplitChildren
  <2> QED
    BY <2>1, <2>2, <2>3
<1>9. Sum(TxnAmounts', ids) = j.was
  <2> DEFINE G == [i \in DOMAIN parts |-> parts[i].amount]
  <2>1. IsFiniteSet(ids)
    BY <1>6, FiniteIdsAssumption, FS_Subset
  <2>2. \A t \in ids : TxnAmounts'[t] = G[part[t]]
    BY <1>6, LInvAmountsNext DEF AmountsWhole, Amount
  <2>3. \A i \in DOMAIN parts : G[i] \in Int
    <3>1. parts \in Seq(Part)
      BY <1>0 DEF LInv, TypeInv, Carries, Job
    <3>2. \A i \in DOMAIN parts : parts[i] \in Part
      BY <3>1
    <3>3. \A i \in DOMAIN parts : parts[i].amount \in Amounts
      BY <3>2 DEF Part
    <3>4. Amounts \subseteq Int
      BY AmountsAssumption
    <3> QED
      BY <3>3, <3>4
  <2>4. SumFunction(G) = Sum(G, DOMAIN parts)
    BY SumOfAll
  <2> HIDE DEF G
  <2>5. Sum(TxnAmounts', ids) = Sum(G, DOMAIN parts)
    BY <1>1, <2>1, <2>2, <2>3, SumCarried
  <2> QED
    BY <1>5, <2>4, <2>5 DEF G
<1>10. Sum(TxnAmounts, {r}) = j.was /\ j.was \in Int /\ Posted(m, "spend") \in Int
  BY <1>1, <1>3, LInvAmounts, JobAmounts, SumsInt DEF AmountsWhole, Amount
<1>11. Sum(TxnAmounts, {}) = 0 /\ Sum(TxnAmounts', {}) = 0 /\ Posted(m, "income") \in Int
  BY SumEmpty, SumsInt
<1>12. Posted(m, "income")' = Posted(m, "income") + 0
  <2>1. Visible(m, "income")' = Visible(m, "income")
    BY <1>4, <1>6, <1>8 DEF Visible
  <2>2. \A x \in Visible(m, "income") : txns'[x].amount = txns[x].amount
    BY <1>6 DEF Visible
  <2>3. /\ {} \in SUBSET Visible(m, "income")
        /\ Visible(m, "income")' = (Visible(m, "income") \ {}) \cup {}
        /\ (Visible(m, "income") \ {}) \cap {} = {}
        /\ \A x \in Visible(m, "income") \ {} : txns'[x].amount = txns[x].amount
    BY <2>1, <2>2
  <2>4. Posted(m, "income")' =
          Posted(m, "income") - Sum(TxnAmounts, {}) + Sum(TxnAmounts', {})
    BY <2>3, PostedMoves
  <2> QED
    BY <1>11, <2>4
<1>13. Posted(m, "spend")' = Posted(m, "spend") + 0
  <2>a. r \in Visible(m, "spend")
    BY <1>1, <1>3, <1>4 DEF Visible
  <2>1. CASE ids # {}
    <3>1. Visible(m, "spend")' = (Visible(m, "spend") \ {r}) \cup ids
      BY <1>4, <1>6, <1>8, <2>1 DEF Visible
    <3>2. /\ {r} \in SUBSET Visible(m, "spend")
          /\ (Visible(m, "spend") \ {r}) \cap ids = {}
          /\ \A x \in Visible(m, "spend") \ {r} : txns'[x].amount = txns[x].amount
      BY <1>6, <2>a DEF Visible
    <3>3. Posted(m, "spend")' =
            Posted(m, "spend") - Sum(TxnAmounts, {r}) + Sum(TxnAmounts', ids)
      BY <3>1, <3>2, PostedMoves
    <3> HIDE DEF j
    <3> QED
      BY <1>9, <1>10, <3>3
  <2>2. CASE ids = {}
    <3>1. Visible(m, "spend")' = Visible(m, "spend")
      BY <1>3, <1>6, <1>8, <2>2 DEF Visible
    <3>2. \A x \in Visible(m, "spend") : txns'[x].amount = txns[x].amount
      BY <1>6 DEF Visible
    <3>3. /\ {} \in SUBSET Visible(m, "spend")
          /\ Visible(m, "spend")' = (Visible(m, "spend") \ {}) \cup {}
          /\ (Visible(m, "spend") \ {}) \cap {} = {}
          /\ \A x \in Visible(m, "spend") \ {} : txns'[x].amount = txns[x].amount
      BY <3>1, <3>2
    <3>4. Posted(m, "spend")' =
            Posted(m, "spend") - Sum(TxnAmounts, {}) + Sum(TxnAmounts', {})
      BY <3>3, PostedMoves
    <3> QED
      BY <1>10, <1>11, <3>4
  <2> QED
    BY <2>1, <2>2
<1>14. UNCHANGED incomes /\ months'[m].opening = months[m].opening
       /\ months'[m].wallet = months[m].wallet + 0
  <2>1. months[m].wallet \in Int
    BY LInvMeans DEF Whole
  <2> QED
    BY <1>1, <2>1
<1>15. 0 = 0 - 0 /\ 0 \in Int
  OBVIOUS
<1> HIDE DEF j
<1> QED
  BY <1>12, <1>13, <1>14, <1>15, PostedVariance

(* A write made on current reads, of a request that posts, leaves the      *)
(* difference between wallet and books where it was, in every month.       *)
LEMMA WriteVariance ==
  ASSUME LInv, LInv', NEW h \in Handlers, Write(h),
         NEW m \in DOMAIN months, m \in DOMAIN months',
         jobs[h].op \notin Unbalanced, ~Stale(h)
  PROVE  Variance(m)' = Variance(m)
<1>1. CASE m # jobs[h].month
  BY <1>1, OneMonth, ApartSums
<1>2. CASE m = jobs[h].month
  <2>1. ~CreateMonth(h)
    <3>1. m # None
      BY NoneAssumption DEF LInv, TypeInv, TypeOK, IsTable
    <3> QED
      BY <1>2, <3>1, CreateMonthAdds DEF Idle
  <2>2. ~DeleteMonth(h)
    BY <1>2 DEF DeleteMonth, Without, Restrict
  <2>3. ~UpdateMonth(h) /\ ~DeleteAllocation(h)
    BY DEF UpdateMonth, DeleteAllocation, Writes, Unbalanced
  <2>4. CASE \/ CloseMonth(h) \/ ReopenMonth(h) \/ CreateAllocation(h) \/ UpdateAllocation(h)
    BY <1>2, <2>4, PlainVariance
  <2>5. CASE CreateIncome(h) \/ UpdateIncome(h) \/ DeleteIncome(h)
    BY <1>2, <2>5, IncomeVariance
  <2> QED
    BY <1>2, <2>1, <2>2, <2>3, <2>4, <2>5, CreateTransactionVariance,
       UpdateTransactionVariance, DeleteTransactionVariance, SplitTransactionVariance,
       CreateBalanceUpdateVariance DEF Write
<1> QED
  BY <1>1, <1>2

(* Reads, checks and refusals leave the tables alone.                      *)
LEMMA OnlyWritesWrite ==
  ASSUME NEW h \in Handlers, Receive(h) \/ MakeCheck(h) \/ Refuse(h)
  PROVE  UNCHANGED tables
<1>1. Receive(h) => \E job : Accept(h, job)
  BY Zenon DEF Receive, ReceiveUpdateMonth, ReceiveDeleteMonth, ReceiveCloseMonth,
     ReceiveReopenMonth, ReceiveCreateIncome, ReceiveUpdateIncome, ReceiveDeleteIncome,
     ReceiveCreateAllocation, ReceiveUpdateAllocation, ReceiveDeleteAllocation,
     ReceiveCreateTransaction, ReceiveUpdateTransaction, ReceiveDeleteTransaction,
     ReceiveSplitTransaction, ReceiveCreateBalanceUpdate
<1>2. (\E job : Accept(h, job)) => UNCHANGED tables
  BY DEF Accept
<1> QED
  BY <1>1, <1>2 DEF MakeCheck, EnsureMonthOpen, EnsureAllocationBelongsToMonth,
     TransactionHasSplitChildren, Passed, Refuse, tables

(* Every write but the creation of a month answers a request.              *)
LEMMA WritesAnswer ==
  ASSUME NEW h \in Handlers, Write(h), ~CreateMonth(h), JobsShaped
  PROVE  Answered(h)
<1>1. jobs[h] # Idle
  <2>1. \E op \in Ops \ {"idle"} : Writes(h, op)
    BY Zenon DEF Write, UpdateMonth, DeleteMonth, CloseMonth, ReopenMonth,
       CreateIncome, UpdateIncome, DeleteIncome, CreateAllocation, UpdateAllocation,
       DeleteAllocation, CreateTransaction, UpdateTransaction, DeleteTransaction,
       SplitTransaction, CreateBalanceUpdate, Ops
  <2> QED
    BY <2>1 DEF Writes, Idle
<1>2. Answer(h)
  BY Zenon DEF Write, UpdateMonth, DeleteMonth, CloseMonth, ReopenMonth,
     CreateIncome, UpdateIncome, DeleteIncome, CreateAllocation, UpdateAllocation,
     DeleteAllocation, CreateTransaction, UpdateTransaction, DeleteTransaction,
     SplitTransaction, CreateBalanceUpdate
<1> QED
  BY <1>1, <1>2 DEF Answer, Answered, JobsShaped

(* For any number of handlers: the wallet's balance and the books drift    *)
(* apart only by a request that sets balances or drops an allocation, or   *)
(* by a write made on a stale read (repository.go).                        *)
THEOREM VarianceMoves == Spec => VarianceMovesOnlyOnStaleReads
<1>1. ASSUME LInv, LInv', Next, NEW m \in DOMAIN months \cap DOMAIN months',
             Variance(m)' # Variance(m)
      PROVE  \E h \in Handlers : Answered(h) /\ (jobs[h].op \in Unbalanced \/ Stale(h))
  <2>1. PICK h \in Handlers : Receive(h) \/ MakeCheck(h) \/ Write(h) \/ Refuse(h)
    BY <1>1 DEF Next
  <2>2. CASE Write(h)
    <3>1. jobs[h].op \in Unbalanced \/ Stale(h)
      BY <1>1, <2>2, WriteVariance
    <3>2. ~CreateMonth(h)
      <4>1. CreateMonth(h) => jobs[h].op = "idle"
        BY CreateMonthAdds DEF Idle
      <4> QED
        BY <3>1, <4>1 DEF Unbalanced, Stale
    <3> QED
      BY <1>1, <2>2, <3>1, <3>2, WritesAnswer DEF LInv, IInv
  <2>3. CASE ~Write(h)
    <3>1. UNCHANGED tables
      BY <2>1, <2>3, OnlyWritesWrite
    <3> QED
      BY <1>1, <3>1, SameTablesApart, ApartSums
  <2> QED
    BY <2>2, <2>3
<1>2. LInv /\ LInv' /\ [Next]_vars =>
        [\A m \in DOMAIN months \cap DOMAIN months' :
           Variance(m)' # Variance(m) =>
             \E h \in Handlers : Answered(h) /\ (jobs[h].op \in Unbalanced \/ Stale(h))]_vars
  BY <1>1
<1> QED
  BY <1>2, LInvHolds, PTL DEF Spec, VarianceMovesOnlyOnStaleReads

-----------------------------------------------------------------------------
(* One handler: nothing it has read goes stale.                            *)

(* Requests served one at a time: a single handler.                        *)
OneAtATime == \A g, h \in Handlers : g = h

Lists(todo, c) == \E i \in DOMAIN todo : todo[i].check = c

(* What a lone handler has read is still so, and what it has not checked   *)
(* is on its list.                                                         *)
Current(h) ==
  LET j == jobs[h] IN
  /\ j.op \notin {"idle", "DeleteMonth", "ReopenMonth"} =>
       Lists(j.todo, "open") \/ j.month \in OpenMonths
  /\ j.op = "ReopenMonth" => j.month \in DOMAIN months \ OpenMonths
  /\ j.op \in {"CloseMonth", "CreateBalanceUpdate"} => months[j.month].wallet = j.was
  /\ j.op \in {"UpdateIncome", "DeleteIncome"} =>
       j.row \in DOMAIN incomes /\ incomes[j.row].amount = j.was
  /\ j.op = "CreateAllocation" => j.name \in Names
  /\ j.op = "UpdateAllocation" =>
       j.row \in DOMAIN allocs /\ j.name \in Names \cup {allocs[j.row].name}
  /\ j.op \in OnTransaction => j.row \in DOMAIN txns /\ txns[j.row].amount = j.was
  /\ j.op = "UpdateTransaction" =>
       IF txns[j.row].parent = None
       THEN Lists(j.todo, "children") \/ (j.relevant <=> SplitChildren(j.row) = {})
       ELSE ~j.relevant /\ ~Lists(j.todo, "children")
  /\ j.op = "SplitTransaction" =>
       Lists(j.todo, "children") \/ SplitChildren(j.row) = {}
AllCurrent == \A h \in Handlers : Current(h)

(* Which checks a list has: after its first is made,                       *)
LEMMA ListTail ==
  ASSUME NEW s \in Seq(Check), s # <<>>, NEW c
  PROVE  Lists(s, c) <=> Head(s).check = c \/ Lists(Tail(s), c)
<1>1. /\ DOMAIN s = 1..Len(s) /\ Len(s) \in Nat /\ Len(s) # 0 /\ Head(s) = s[1]
      /\ DOMAIN Tail(s) = 1..(Len(s) - 1)
      /\ \A i \in 1..(Len(s) - 1) : Tail(s)[i] = s[i + 1]
  BY HeadTailProperties
<1>2. \A i \in DOMAIN s : i = 1 \/ (i - 1 \in DOMAIN Tail(s) /\ Tail(s)[i - 1] = s[i])
  BY <1>1
<1>3. \A i \in DOMAIN Tail(s) : i + 1 \in DOMAIN s /\ Tail(s)[i] = s[i + 1]
  BY <1>1
<1>4. 1 \in DOMAIN s
  BY <1>1
<1>5. ASSUME Lists(s, c) PROVE Head(s).check = c \/ Lists(Tail(s), c)
  <2>1. PICK i \in DOMAIN s : s[i].check = c
    BY <1>5 DEF Lists
  <2>2. CASE i = 1
    BY <1>1, <2>1, <2>2
  <2>3. CASE i # 1
    BY <1>2, <2>1, <2>3 DEF Lists
  <2> QED
    BY <2>2, <2>3
<1>6. ASSUME Head(s).check = c PROVE Lists(s, c)
  BY <1>1, <1>4, <1>6 DEF Lists
<1>7. ASSUME Lists(Tail(s), c) PROVE Lists(s, c)
  <2>1. PICK i \in DOMAIN Tail(s) : Tail(s)[i].check = c
    BY <1>7 DEF Lists
  <2> QED
    BY <1>3, <2>1 DEF Lists
<1> QED
  BY <1>5, <1>6, <1>7

(* in two lists joined,                                                    *)
LEMMA ListConcat ==
  ASSUME NEW s \in Seq(Check), NEW t \in Seq(Check), NEW c
  PROVE  Lists(s \o t, c) <=> Lists(s, c) \/ Lists(t, c)
<1>1. /\ DOMAIN s = 1..Len(s) /\ Len(s) \in Nat /\ DOMAIN t = 1..Len(t) /\ Len(t) \in Nat
      /\ DOMAIN (s \o t) = 1..(Len(s) + Len(t))
      /\ \A i \in 1..(Len(s) + Len(t)) :
           (s \o t)[i] = IF i <= Len(s) THEN s[i] ELSE t[i - Len(s)]
  BY ConcatProperties
<1>2. \A i \in DOMAIN s : i \in DOMAIN (s \o t) /\ (s \o t)[i] = s[i]
  BY <1>1
<1>3. \A i \in DOMAIN t : i + Len(s) \in DOMAIN (s \o t) /\ (s \o t)[i + Len(s)] = t[i]
  BY <1>1
<1>4. ASSUME NEW i \in DOMAIN (s \o t)
      PROVE  \/ i \in DOMAIN s /\ (s \o t)[i] = s[i]
             \/ i - Len(s) \in DOMAIN t /\ (s \o t)[i] = t[i - Len(s)]
  <2>1. CASE i <= Len(s)
    BY <1>1, <2>1
  <2>2. CASE ~(i <= Len(s))
    <3>1. i \in 1..(Len(s) + Len(t)) /\ i - Len(s) \in 1..Len(t)
      BY <1>1, <2>2
    <3> QED
      BY <1>1, <2>2, <3>1
  <2> QED
    BY <2>1, <2>2
<1>5. Lists(s, c) \/ Lists(t, c) => Lists(s \o t, c)
  BY <1>2, <1>3 DEF Lists
<1>6. Lists(s \o t, c) => Lists(s, c) \/ Lists(t, c)
  <2>1. SUFFICES ASSUME NEW i \in DOMAIN (s \o t), (s \o t)[i].check = c
                 PROVE  Lists(s, c) \/ Lists(t, c)
    BY DEF Lists
  <2>2. CASE i \in DOMAIN s /\ (s \o t)[i] = s[i]
    BY <2>1, <2>2 DEF Lists
  <2>3. CASE i - Len(s) \in DOMAIN t /\ (s \o t)[i] = t[i - Len(s)]
    BY <2>1, <2>3 DEF Lists
  <2> QED
    BY <1>4, <2>2, <2>3
<1> QED
  BY <1>5, <1>6

(* and in the lists that handlers start with.                              *)
LEMMA Listed ==
  /\ \A c : Lists(MonthOpen, c) <=> c = "open"
  /\ \A c : Lists(NoChildren, c) <=> c = "children"
  /\ \A a, c : Lists(Belongs(a), c) <=> c = "alloc"
  /\ \A c : ~Lists(<<>>, c)
BY DEF Lists, MonthOpen, NoChildren, Belongs

(* With one handler, what holds of it holds of all.                        *)
LEMMA OnlyOne ==
  ASSUME OneAtATime, NEW h \in Handlers
  PROVE  AllCurrent <=> Current(h)
BY DEF OneAtATime, AllCurrent

(* An idle handler relies on nothing,                                      *)
LEMMA IdleCurrent ==
  ASSUME NEW h \in Handlers, jobs[h] = Idle
  PROVE  Current(h)
<1>1. jobs[h].op = "idle"
  BY DEF Idle
<1> QED
  BY <1>1 DEF Current, OnTransaction

(* nor does one that has just answered.                                    *)
LEMMA IdleCurrentNext ==
  ASSUME NEW h \in Handlers, jobs'[h] = Idle
  PROVE  Current(h)'
<1>1. jobs'[h].op = "idle"
  BY DEF Idle
<1> QED
  BY <1>1 DEF Current, OnTransaction

(* A check that passes makes what it was for current.                      *)
LEMMA MakeCheckCurrent ==
  ASSUME OneAtATime, LInv, AllCurrent, NEW h \in Handlers, MakeCheck(h)
  PROVE  AllCurrent'
<1> DEFINE j == jobs[h]
<1>1. UNCHANGED tables /\ jobs \in [Handlers -> Job] /\ j \in Job
  BY DEF MakeCheck, EnsureMonthOpen, EnsureAllocationBelongsToMonth,
     TransactionHasSplitChildren, Passed, tables, LInv, TypeInv, TypeOK
<1>2. j.todo \in Seq(Check) /\ Current(h)
  BY <1>1 DEF Job, AllCurrent
<1>3. SUFFICES Current(h)'
  BY DEF OneAtATime, AllCurrent
<1>4. UNCHANGED <<months, incomes, allocs, txns, split>> /\ OpenMonths' = OpenMonths
      /\ \A t : SplitChildren(t)' = SplitChildren(t)
  BY <1>1 DEF tables, OpenMonths, SplitChildren
<1>5. CASE Passed(h) /\ (EnsureMonthOpen(h) \/ EnsureAllocationBelongsToMonth(h))
  <2>1. jobs'[h] = [j EXCEPT !.todo = Tail(@)]
    BY <1>1, <1>5 DEF Passed
  <2>2. /\ jobs'[h].op = j.op /\ jobs'[h].month = j.month /\ jobs'[h].row = j.row
        /\ jobs'[h].name = j.name /\ jobs'[h].was = j.was /\ jobs'[h].relevant = j.relevant
        /\ jobs'[h].todo = Tail(j.todo)
    BY <1>1, <2>1 DEF Job
  <2>3. j.todo # <<>> /\ (Head(j.todo).check = "alloc" \/
          (Head(j.todo).check = "open" /\ j.month \in OpenMonths))
    BY <1>5 DEF EnsureMonthOpen, EnsureAllocationBelongsToMonth, NextCheckIs
  <2>4. \A c : Lists(j.todo, c) <=> Head(j.todo).check = c \/ Lists(Tail(j.todo), c)
    BY <1>2, <2>3, ListTail
  <2>5. Lists(j.todo, "open") => Lists(Tail(j.todo), "open") \/ j.month \in OpenMonths
    BY <2>3, <2>4
  <2>6. Lists(j.todo, "children") <=> Lists(Tail(j.todo), "children")
    BY <2>3, <2>4
  <2> HIDE DEF j
  <2> QED
    BY <1>2, <1>4, <2>2, <2>5, <2>6 DEF Current, j, OnTransaction
<1>6. CASE TransactionHasSplitChildren(h)
  <2>1. j.todo # <<>> /\ Head(j.todo).check = "children"
    BY <1>6 DEF TransactionHasSplitChildren, NextCheckIs
  <2>2. \A c : Lists(j.todo, c) <=> Head(j.todo).check = c \/ Lists(Tail(j.todo), c)
    BY <1>2, <2>1, ListTail
  <2>3. Lists(j.todo, "open") <=> Lists(Tail(j.todo), "open")
    BY <2>1, <2>2
  <2>4. Lists(j.todo, "children")
    BY <2>1, <2>2
  <2>5. CASE /\ j.op = "UpdateTransaction"
             /\ jobs' = [jobs EXCEPT ![h].todo = Tail(@),
                                     ![h].relevant = SplitChildren(jobs[h].row) = {}]
    <3> DEFINE none == SplitChildren(j.row) = {}
    <3> HIDE DEF none
    <3>1. jobs'[h] = [j EXCEPT !.todo = Tail(@), !.relevant = none]
      BY <1>1, <2>5 DEF none, Job
    <3>2. /\ jobs'[h].op = j.op /\ jobs'[h].month = j.month /\ jobs'[h].row = j.row
          /\ jobs'[h].name = j.name /\ jobs'[h].was = j.was
          /\ (jobs'[h].relevant <=> SplitChildren(j.row) = {})
          /\ jobs'[h].todo = Tail(j.todo)
      BY <1>1, <3>1 DEF Job, none
    <3>3. txns[j.row].parent = None
      BY <1>2, <2>4, <2>5 DEF Current
    <3> HIDE DEF j
    <3>4. /\ Lists(jobs'[h].todo, "open") \/ jobs'[h].month \in OpenMonths'
          /\ jobs'[h].row \in DOMAIN txns' /\ txns'[jobs'[h].row].amount = jobs'[h].was
      BY <1>2, <1>4, <2>3, <2>5, <3>2 DEF Current, j, OnTransaction
    <3>5. SplitChildren(jobs[h].row)' = SplitChildren(j.row)
      BY <1>4, <3>2 DEF SplitChildren
    <3> QED
      BY <1>4, <2>5, <3>2, <3>3, <3>4, <3>5 DEF Current, OnTransaction
  <2>6. CASE /\ j.op = "SplitTransaction" /\ SplitChildren(j.row) = {} /\ Passed(h)
    <3>1. jobs'[h] = [j EXCEPT !.todo = Tail(@)]
      BY <1>1, <2>6 DEF Passed
    <3>2. /\ jobs'[h].op = j.op /\ jobs'[h].month = j.month /\ jobs'[h].row = j.row
          /\ jobs'[h].name = j.name /\ jobs'[h].was = j.was
          /\ jobs'[h].todo = Tail(j.todo)
      BY <1>1, <3>1 DEF Job
    <3> HIDE DEF j
    <3> QED
      BY <1>2, <1>4, <2>3, <2>6, <3>2 DEF Current, j, OnTransaction
  <2> QED
    BY <1>6, <2>5, <2>6, Zenon DEF TransactionHasSplitChildren
<1>7. EnsureMonthOpen(h) \/ EnsureAllocationBelongsToMonth(h) => Passed(h)
  BY DEF EnsureMonthOpen, EnsureAllocationBelongsToMonth
<1> QED
  BY <1>5, <1>6, <1>7, MakeCheck(h) DEF MakeCheck

(* What a handler reads as its request arrives is so.                      *)
LEMMA ReceiveCurrent ==
  ASSUME OneAtATime, LInv, NEW h \in Handlers, Receive(h)
  PROVE  AllCurrent'
<1> SUFFICES Current(h)'
  BY DEF OneAtATime, AllCurrent
<1>1. \A job : Accept(h, job) => jobs'[h] = job
  BY DEF Accept, LInv, TypeInv, TypeOK
<1>2. \A job : Accept(h, job) =>
        UNCHANGED <<months, incomes, allocs, txns, split>> /\ OpenMonths' = OpenMonths
  BY DEF Accept, tables, OpenMonths
<1>3. MonthOpen \in Seq(Check) /\ NoChildren \in Seq(Check)
      /\ (\A a \in AllocIds : Belongs(a) \in Seq(Check)) /\ <<>> \in Seq(Check)
  BY ChecksTyped
<1>4. CASE ReceiveUpdateMonth(h)
  <2>0. PICK m \in OpenMonths : \E opening \in Balances \cup {months[m].opening}, wallet \in Balances \cup {months[m].wallet} :
          Accept(h, [Idle EXCEPT !.op = "UpdateMonth", !.month = m, !.opening = opening,
            !.amount = wallet, !.was = months[m].wallet])
    BY <1>4, Zenon DEF ReceiveUpdateMonth
  <2>1. PICK opening \in Balances \cup {months[m].opening}, wallet \in Balances \cup {months[m].wallet} :
          Accept(h, [Idle EXCEPT !.op = "UpdateMonth", !.month = m, !.opening = opening,
            !.amount = wallet, !.was = months[m].wallet])
    BY <2>0, Zenon
  <2>2. /\ jobs'[h].op = "UpdateMonth"
        /\ jobs'[h].month = m
    BY <1>1, <2>1 DEF Idle
  <2> QED
    BY <1>2, <2>1, <2>2, Listed DEF Current, OnTransaction, OpenMonths
<1>5. CASE ReceiveDeleteMonth(h)
  <2>1. PICK m \in DOMAIN months :
          Accept(h, [Idle EXCEPT !.op = "DeleteMonth", !.month = m])
    BY <1>5, Zenon DEF ReceiveDeleteMonth
  <2>2. /\ jobs'[h].op = "DeleteMonth"
    BY <1>1, <2>1 DEF Idle
  <2> QED
    BY <1>2, <2>1, <2>2, Listed DEF Current, OnTransaction, OpenMonths
<1>6. CASE ReceiveCloseMonth(h)
  <2>1. PICK m \in OpenMonths :
          Accept(h, [Idle EXCEPT !.op = "CloseMonth", !.month = m, !.was = months[m].wallet])
    BY <1>6, Zenon DEF ReceiveCloseMonth
  <2>2. /\ jobs'[h].op = "CloseMonth"
        /\ jobs'[h].month = m
        /\ jobs'[h].was = months[m].wallet
    BY <1>1, <2>1 DEF Idle
  <2> QED
    BY <1>2, <2>1, <2>2, Listed DEF Current, OnTransaction, OpenMonths
<1>7. CASE ReceiveReopenMonth(h)
  <2>1. PICK m \in DOMAIN months \ OpenMonths :
          Accept(h, [Idle EXCEPT !.op = "ReopenMonth", !.month = m])
    BY <1>7, Zenon DEF ReceiveReopenMonth
  <2>2. /\ jobs'[h].op = "ReopenMonth"
        /\ jobs'[h].month = m
    BY <1>1, <2>1 DEF Idle
  <2> QED
    BY <1>2, <2>1, <2>2, Listed DEF Current, OnTransaction, OpenMonths
<1>8. CASE ReceiveCreateIncome(h)
  <2>1. PICK m \in OpenMonths, amount \in Amounts \cup {0} :
          Accept(h, [Idle EXCEPT !.op = "CreateIncome", !.month = m, !.amount = amount])
    BY <1>8, Zenon DEF ReceiveCreateIncome
  <2>2. /\ jobs'[h].op = "CreateIncome"
        /\ jobs'[h].month = m
    BY <1>1, <2>1 DEF Idle
  <2> QED
    BY <1>2, <2>1, <2>2, Listed DEF Current, OnTransaction, OpenMonths
<1>9. CASE ReceiveUpdateIncome(h)
  <2>0. PICK i \in DOMAIN incomes : \E amount \in Amounts \cup {0, incomes[i].amount} :
          Accept(h, [Idle EXCEPT !.op = "UpdateIncome", !.month = incomes[i].month, !.row = i,
            !.amount = amount, !.was = incomes[i].amount,
            !.todo = MonthOpen])
    BY <1>9, Zenon DEF ReceiveUpdateIncome
  <2>1. PICK amount \in Amounts \cup {0, incomes[i].amount} :
          Accept(h, [Idle EXCEPT !.op = "UpdateIncome", !.month = incomes[i].month, !.row = i,
            !.amount = amount, !.was = incomes[i].amount,
            !.todo = MonthOpen])
    BY <2>0, Zenon
  <2>2. /\ jobs'[h].op = "UpdateIncome"
        /\ jobs'[h].row = i
        /\ jobs'[h].was = incomes[i].amount
        /\ jobs'[h].todo = MonthOpen
    BY <1>1, <2>1 DEF Idle
  <2> QED
    BY <1>2, <2>1, <2>2, Listed DEF Current, OnTransaction, OpenMonths
<1>10. CASE ReceiveDeleteIncome(h)
  <2>1. PICK i \in DOMAIN incomes :
          Accept(h, [Idle EXCEPT !.op = "DeleteIncome", !.month = incomes[i].month, !.row = i,
            !.was = incomes[i].amount, !.todo = MonthOpen])
    BY <1>10, Zenon DEF ReceiveDeleteIncome
  <2>2. /\ jobs'[h].op = "DeleteIncome"
        /\ jobs'[h].row = i
        /\ jobs'[h].was = incomes[i].amount
        /\ jobs'[h].todo = MonthOpen
    BY <1>1, <2>1 DEF Idle
  <2> QED
    BY <1>2, <2>1, <2>2, Listed DEF Current, OnTransaction, OpenMonths
<1>11. CASE ReceiveCreateAllocation(h)
  <2>1. PICK m \in OpenMonths, budget \in Budgets, name \in Names :
          Accept(h, [Idle EXCEPT !.op = "CreateAllocation", !.month = m, !.amount = budget,
            !.name = name])
    BY <1>11, Zenon DEF ReceiveCreateAllocation
  <2>2. /\ jobs'[h].op = "CreateAllocation"
        /\ jobs'[h].month = m
        /\ jobs'[h].name = name
    BY <1>1, <2>1 DEF Idle
  <2> QED
    BY <1>2, <2>1, <2>2, Listed DEF Current, OnTransaction, OpenMonths
<1>12. CASE ReceiveUpdateAllocation(h)
  <2>0. PICK a \in DOMAIN allocs : \E budget \in Budgets \cup {allocs[a].budget}, name \in Names \cup {allocs[a].name} :
          Accept(h, [Idle EXCEPT !.op = "UpdateAllocation", !.month = allocs[a].month, !.row = a,
            !.amount = budget, !.name = name, !.todo = MonthOpen])
    BY <1>12, Zenon DEF ReceiveUpdateAllocation
  <2>1. PICK budget \in Budgets \cup {allocs[a].budget}, name \in Names \cup {allocs[a].name} :
          Accept(h, [Idle EXCEPT !.op = "UpdateAllocation", !.month = allocs[a].month, !.row = a,
            !.amount = budget, !.name = name, !.todo = MonthOpen])
    BY <2>0, Zenon
  <2>2. /\ jobs'[h].op = "UpdateAllocation"
        /\ jobs'[h].row = a
        /\ jobs'[h].name = name
        /\ jobs'[h].todo = MonthOpen
    BY <1>1, <2>1 DEF Idle
  <2> QED
    BY <1>2, <2>1, <2>2, Listed DEF Current, OnTransaction, OpenMonths
<1>13. CASE ReceiveDeleteAllocation(h)
  <2>1. PICK a \in DOMAIN allocs :
          Accept(h, [Idle EXCEPT !.op = "DeleteAllocation", !.month = allocs[a].month,
            !.row = a, !.todo = MonthOpen])
    BY <1>13, Zenon DEF ReceiveDeleteAllocation
  <2>2. /\ jobs'[h].op = "DeleteAllocation"
        /\ jobs'[h].todo = MonthOpen
    BY <1>1, <2>1 DEF Idle
  <2> QED
    BY <1>2, <2>1, <2>2, Listed DEF Current, OnTransaction, OpenMonths
<1>14. CASE ReceiveCreateTransaction(h)
  <2>1. PICK m \in OpenMonths, a \in AllocIds, amount \in Amounts :
          Accept(h, [Idle EXCEPT !.op = "CreateTransaction", !.month = m, !.alloc = a,
            !.amount = amount, !.todo = Belongs(a)])
    BY <1>14, Zenon DEF ReceiveCreateTransaction
  <2>2. /\ jobs'[h].op = "CreateTransaction"
        /\ jobs'[h].month = m
    BY <1>1, <2>1 DEF Idle
  <2> QED
    BY <1>2, <2>1, <2>2, Listed DEF Current, OnTransaction, OpenMonths
<1>15. CASE ReceiveDeleteTransaction(h)
  <2>1. PICK t \in DOMAIN txns :
          Accept(h, [Idle EXCEPT !.op = "DeleteTransaction", !.month = txns[t].month,
            !.row = t, !.was = txns[t].amount, !.todo = MonthOpen])
    BY <1>15, Zenon DEF ReceiveDeleteTransaction
  <2>2. /\ jobs'[h].op = "DeleteTransaction"
        /\ jobs'[h].row = t
        /\ jobs'[h].was = txns[t].amount
        /\ jobs'[h].todo = MonthOpen
    BY <1>1, <2>1 DEF Idle
  <2> QED
    BY <1>2, <2>1, <2>2, Listed DEF Current, OnTransaction, OpenMonths
<1>16. CASE ReceiveCreateBalanceUpdate(h)
  <2>1. PICK m \in OpenMonths, balance \in Balances :
          Accept(h, [Idle EXCEPT !.op = "CreateBalanceUpdate", !.month = m,
            !.amount = balance, !.was = months[m].wallet])
    BY <1>16, Zenon DEF ReceiveCreateBalanceUpdate
  <2>2. /\ jobs'[h].op = "CreateBalanceUpdate"
        /\ jobs'[h].month = m
        /\ jobs'[h].was = months[m].wallet
    BY <1>1, <2>1 DEF Idle
  <2> QED
    BY <1>2, <2>1, <2>2, Listed DEF Current, OnTransaction, OpenMonths
<1>17. CASE ReceiveUpdateTransaction(h)
  <2>1. PICK t \in DOMAIN txns, patch \in SUBSET {"amount", "allocation"} :
          \E amount \in IF "amount" \in patch THEN Amounts ELSE {txns[t].amount},
             a \in IF "allocation" \in patch THEN AllocIds ELSE {txns[t].alloc} :
            Accept(h, [Idle EXCEPT !.op = "UpdateTransaction", !.month = txns[t].month,
              !.row = t, !.alloc = a, !.amount = amount, !.was = txns[t].amount,
              !.relevant = txns[t].parent = None, !.todo = UpdateChecks(t, patch, a)])
    BY <1>17 DEF ReceiveUpdateTransaction
  <2>2. PICK amount \in IF "amount" \in patch THEN Amounts ELSE {txns[t].amount},
             a \in IF "allocation" \in patch THEN AllocIds ELSE {txns[t].alloc} :
            Accept(h, [Idle EXCEPT !.op = "UpdateTransaction", !.month = txns[t].month,
              !.row = t, !.alloc = a, !.amount = amount, !.was = txns[t].amount,
              !.relevant = txns[t].parent = None, !.todo = UpdateChecks(t, patch, a)])
    BY <2>1, Zenon
  <2>3. txns[t].alloc \in AllocIds
    BY DEF LInv, TypeInv, TypeOK, IsTable, TxnRow
  <2>4. a \in AllocIds
    BY <2>3
  <2> DEFINE first == IF txns[t].parent = None THEN NoChildren ELSE <<>>
             second == IF "allocation" \in patch THEN Belongs(a) ELSE <<>>
  <2>5. first \in Seq(Check) /\ second \in Seq(Check)
    BY <1>3, <2>4
  <2>6. /\ Lists(first, "children") <=> txns[t].parent = None
        /\ ~Lists(second, "children")
    BY Listed
  <2>7. UpdateChecks(t, patch, a) = (MonthOpen \o first) \o second
    BY DEF UpdateChecks
  <2>8. MonthOpen \o first \in Seq(Check)
    BY <1>3, <2>5, ConcatProperties
  <2>9. ASSUME NEW c
        PROVE  Lists(UpdateChecks(t, patch, a), c) <=>
                 Lists(MonthOpen, c) \/ Lists(first, c) \/ Lists(second, c)
    <3> HIDE DEF first, second
    <3>1. Lists(MonthOpen \o first, c) <=> Lists(MonthOpen, c) \/ Lists(first, c)
      BY <1>3, <2>5, ListConcat
    <3>2. Lists((MonthOpen \o first) \o second, c) <=>
            Lists(MonthOpen \o first, c) \/ Lists(second, c)
      BY <2>5, <2>8, ListConcat
    <3> QED
      BY <2>7, <3>1, <3>2
  <2>10. /\ Lists(UpdateChecks(t, patch, a), "open")
         /\ Lists(UpdateChecks(t, patch, a), "children") <=> txns[t].parent = None
    <3> HIDE DEF first, second
    <3> QED
      BY <2>6, <2>9, Listed
  <2> DEFINE was == txns[t].amount
             checks == UpdateChecks(t, patch, a)
             whole == txns[t].parent = None
  <2> HIDE DEF was, checks, whole
  <2>11. jobs'[h] = [Idle EXCEPT !.op = "UpdateTransaction", !.month = txns[t].month,
                              !.row = t, !.alloc = a, !.amount = amount,
                              !.was = was, !.relevant = whole, !.todo = checks]
    BY <1>1, <2>2 DEF was, checks, whole
  <2>12. /\ jobs'[h].op = "UpdateTransaction" /\ jobs'[h].row = t
         /\ jobs'[h].was = txns[t].amount /\ jobs'[h].todo = UpdateChecks(t, patch, a)
         /\ jobs'[h].relevant = whole
    BY <2>11 DEF Idle, was, checks
  <2>13. txns[t].parent # None => ~jobs'[h].relevant
    BY <2>12 DEF whole
  <2>14. UNCHANGED txns
    BY <1>2, <2>2
  <2> QED
    BY <2>10, <2>12, <2>13, <2>14 DEF Current, OnTransaction
<1>18. CASE ReceiveSplitTransaction(h)
  <2>1. PICK t \in DOMAIN txns : \E parts \in SplitInputs(txns[t].amount) :
          Accept(h, [Idle EXCEPT !.op = "SplitTransaction", !.month = txns[t].month, !.row = t,
            !.was = txns[t].amount, !.parts = parts,
            !.todo = MonthOpen \o NoChildren \o [i \in DOMAIN parts |-> Belongs(parts[i].alloc)[1]]])
    BY <1>18, Zenon DEF ReceiveSplitTransaction
  <2>2. PICK parts \in SplitInputs(txns[t].amount) :
          Accept(h, [Idle EXCEPT !.op = "SplitTransaction", !.month = txns[t].month, !.row = t,
            !.was = txns[t].amount, !.parts = parts,
            !.todo = MonthOpen \o NoChildren \o [i \in DOMAIN parts |-> Belongs(parts[i].alloc)[1]]])
    BY <2>1, Zenon
  <2> DEFINE rest == [i \in DOMAIN parts |-> Belongs(parts[i].alloc)[1]]
  <2>3. PICK k \in Nat : parts \in [1..k -> [alloc : AllocIds, amount : Amounts]]
    BY <2>2 DEF SplitInputs
  <2>4. rest \in Seq(Check)
    <3>1. \A i \in 1..k : Belongs(parts[i].alloc)[1] \in Check
      BY <2>3 DEF Belongs, Check
    <3>2. rest \in [1..k -> Check]
      BY <2>3, <3>1
    <3> QED
      BY <3>2
  <2>5. MonthOpen \o NoChildren \in Seq(Check)
    BY <1>3, ConcatProperties
  <2> HIDE DEF rest
  <2>6. \A c : Lists(MonthOpen \o NoChildren \o rest, c) <=>
                 Lists(MonthOpen, c) \/ Lists(NoChildren, c) \/ Lists(rest, c)
    BY <1>3, <2>4, <2>5, ListConcat
  <2>7. /\ Lists(MonthOpen \o NoChildren \o rest, "open")
        /\ Lists(MonthOpen \o NoChildren \o rest, "children")
    BY <2>6, Listed
  <2>8. /\ jobs'[h].op = "SplitTransaction" /\ jobs'[h].row = t
        /\ jobs'[h].was = txns[t].amount /\ jobs'[h].todo = MonthOpen \o NoChildren \o rest
    BY <1>1, <2>2 DEF Idle, rest
  <2>9. UNCHANGED txns
    BY <1>2, <2>2
  <2> QED
    BY <2>7, <2>8, <2>9 DEF Current, OnTransaction
<1> QED
  BY <1>4, <1>5, <1>6, <1>7, <1>8, <1>9, <1>10, <1>11, <1>12, <1>13, <1>14, <1>15, <1>16,
     <1>17, <1>18, Receive(h) DEF Receive

(* The invariant of a server with one handler.                             *)
SInv == LInv /\ AllCurrent

(* At the start no handler relies on anything.                             *)
LEMMA InitCurrent == Init => AllCurrent
<1> SUFFICES ASSUME Init, NEW h \in Handlers PROVE Current(h)
  BY DEF AllCurrent
<1> QED
  BY IdleCurrent DEF Init

(* A lone handler stays current: nobody else writes.                       *)
LEMMA NextCurrent ==
  ASSUME OneAtATime, LInv, AllCurrent, [Next]_vars
  PROVE  AllCurrent'
<1>1. CASE UNCHANGED vars
  BY <1>1 DEF vars, AllCurrent, Current, OpenMonths, SplitChildren
<1>2. ASSUME NEW h \in Handlers, Write(h) \/ Refuse(h) PROVE AllCurrent'
  <2>1. jobs'[h] = Idle
    <3>1. Write(h) => jobs'[h] = Idle
      BY WritesKeep DEF LInv, Kept, Served
    <3>2. Refuse(h) => jobs'[h] = Idle
      BY DEF Refuse, LInv, TypeInv, TypeOK
    <3> QED
      BY <1>2, <3>1, <3>2
  <2>2. Current(h)'
    BY <2>1, IdleCurrentNext
  <2> QED
    BY <2>2 DEF OneAtATime, AllCurrent
<1> QED
  BY <1>1, <1>2, ReceiveCurrent, MakeCheckCurrent DEF Next

(* The invariant of the serial ledger.                                     *)
LEMMA SInvHolds ==
  ASSUME OneAtATime
  PROVE  Spec => []SInv
<1>1. LInv /\ AllCurrent /\ [Next]_vars => AllCurrent'
  BY NextCurrent
<1> QED
  BY <1>1, LInvHolds, InitCurrent, PTL DEF Spec, SInv

-----------------------------------------------------------------------------
(* What the write of a lone handler may do.                                *)

(* The write a handler makes is the one its request is about.              *)
LEMMA WritersOp ==
  ASSUME NEW h \in Handlers, Write(h), ~CreateMonth(h)
  PROVE  /\ jobs[h].todo = <<>>
         /\ jobs[h].op \in Ops \ {"idle"}
         /\ jobs[h].op = "DeleteMonth" <=> DeleteMonth(h)
         /\ jobs[h].op = "ReopenMonth" <=> ReopenMonth(h)
         /\ jobs[h].op = "CloseMonth" <=> CloseMonth(h)
         /\ jobs[h].op = "UpdateMonth" <=> UpdateMonth(h)
         /\ jobs[h].op = "DeleteAllocation" <=> DeleteAllocation(h)
<1>1. /\ UpdateMonth(h) => Writes(h, "UpdateMonth")
      /\ DeleteMonth(h) => Writes(h, "DeleteMonth")
      /\ CloseMonth(h) => Writes(h, "CloseMonth")
      /\ ReopenMonth(h) => Writes(h, "ReopenMonth")
      /\ CreateIncome(h) => Writes(h, "CreateIncome")
      /\ UpdateIncome(h) => Writes(h, "UpdateIncome")
      /\ DeleteIncome(h) => Writes(h, "DeleteIncome")
      /\ CreateAllocation(h) => Writes(h, "CreateAllocation")
      /\ UpdateAllocation(h) => Writes(h, "UpdateAllocation")
      /\ DeleteAllocation(h) => Writes(h, "DeleteAllocation")
      /\ CreateTransaction(h) => Writes(h, "CreateTransaction")
      /\ UpdateTransaction(h) => Writes(h, "UpdateTransaction")
      /\ DeleteTransaction(h) => Writes(h, "DeleteTransaction")
      /\ SplitTransaction(h) => Writes(h, "SplitTransaction")
      /\ CreateBalanceUpdate(h) => Writes(h, "CreateBalanceUpdate")
  BY Zenon DEF UpdateMonth, DeleteMonth, CloseMonth, ReopenMonth,
     CreateIncome, UpdateIncome, DeleteIncome, CreateAllocation, UpdateAllocation,
     DeleteAllocation, CreateTransaction, UpdateTransaction, DeleteTransaction,
     SplitTransaction, CreateBalanceUpdate
<1> QED
  BY <1>1 DEF Write, Writes, Ops

(* A lone handler writes on what it read, and only to an open month.       *)
LEMMA LoneWriter ==
  ASSUME SInv, NEW h \in Handlers, Write(h), ~CreateMonth(h)
  PROVE  /\ ~Stale(h)
         /\ jobs[h].op \notin {"DeleteMonth", "ReopenMonth"} => jobs[h].month \in OpenMonths
<1> DEFINE j == jobs[h]
<1>1. j.todo = <<>> /\ j.op # "idle"
  BY WritersOp
<1>2. \A c : ~Lists(j.todo, c)
  BY <1>1, Listed
<1>3. Current(h)
  BY DEF SInv, AllCurrent
<1>4. j.relevant \in BOOLEAN
  BY DEF SInv, LInv, TypeInv, Carries, Job
<1>5. j.op \notin {"DeleteMonth", "ReopenMonth"} => j.month \in OpenMonths
  BY <1>1, <1>2, <1>3 DEF Current
<1>6. CASE j.op = "UpdateTransaction"
  <2>1. txns[j.row].amount = j.was
    BY <1>3, <1>6 DEF Current, OnTransaction
  <2>2. (txns[j.row].parent = None /\ SplitChildren(j.row) = {}) <=> j.relevant
    BY <1>2, <1>3, <1>6 DEF Current
  <2> QED
    BY <1>4, <1>5, <1>6, <2>1, <2>2 DEF Stale
<1>7. CASE j.op # "UpdateTransaction"
  <2>1. ~Stale(h)
    BY <1>2, <1>3, <1>7 DEF Current, Stale, OnTransaction
  <2> QED
    BY <1>5, <2>1
<1> QED
  BY <1>6, <1>7

(* What a write may do to the row of a month.                              *)
LEMMA MonthRowOfWrite ==
  ASSUME SInv, NEW h \in Handlers, Write(h), NEW n \in DOMAIN months'
  PROVE  \/ n \in DOMAIN months /\ months'[n] = months[n]
         \/ n \notin DOMAIN months /\ months'[n].status = "open" /\ months'[n].closedWallet = None
         \/ /\ n = jobs[h].month /\ n \in OpenMonths
            /\ months'[n].status = "open" /\ months'[n].closedWallet = months[n].closedWallet
         \/ /\ n = jobs[h].month /\ CloseMonth(h) /\ n \in OpenMonths
            /\ months' = [months EXCEPT ![n].status = "closed", ![n].closedWallet = months[n].wallet]
         \/ /\ n = jobs[h].month /\ ReopenMonth(h) /\ n \in DOMAIN months \ OpenMonths
            /\ months' = [months EXCEPT ![n].status = "open", ![n].closedWallet = None]
<1> DEFINE j == jobs[h]
<1>1. CASE n \notin DOMAIN months
  <2>1. CASE CreateMonth(h)
    <3>1. \E k, I, A : Added(k, I, A)
      BY <2>1, CreateMonthAdds
    <3> QED
      BY <1>1, <3>1 DEF Added
  <2>2. CASE ~CreateMonth(h)
    <3>1. DOMAIN months' \subseteq DOMAIN months
      BY <2>2, Write(h), Zenon DEF Write, UpdateMonth, DeleteMonth, CloseMonth, ReopenMonth,
         CreateIncome, UpdateIncome, DeleteIncome, CreateAllocation, UpdateAllocation,
         DeleteAllocation, CreateTransaction, UpdateTransaction, DeleteTransaction,
         SplitTransaction, CreateBalanceUpdate, ApplyWalletBalanceDelta, Without, Restrict
    <3> QED
      BY <1>1, <3>1
  <2> QED
    BY <2>1, <2>2
<1>2. CASE n \in DOMAIN months /\ n # j.month
  BY <1>2, OneMonth DEF SInv, Apart
<1>3. CASE n \in DOMAIN months /\ n = j.month
  <2>0. DOMAIN months[n] = {"key", "opening", "wallet", "status", "closedWallet"}
    BY <1>3 DEF SInv, LInv, TypeInv, TypeOK, IsTable, MonthRow
  <2>1. ~CreateMonth(h)
    <3>1. n # None
      BY <1>3, NoneAssumption DEF SInv, LInv, TypeInv, TypeOK, IsTable
    <3> QED
      BY <1>3, <3>1, CreateMonthAdds DEF Idle
  <2>2. ~DeleteMonth(h)
    BY <1>3 DEF DeleteMonth, Without, Restrict
  <2>3. Current(h) /\ (j.op \notin {"DeleteMonth", "ReopenMonth"} => n \in OpenMonths)
    BY <1>3, <2>1, LoneWriter DEF SInv, AllCurrent
  <2>4. CASE CloseMonth(h)
    <3>1. /\ j.op = "CloseMonth"
          /\ months' = [months EXCEPT ![n].status = "closed", ![n].closedWallet = j.was]
      BY <1>3, <2>4 DEF CloseMonth, Writes
    <3> QED
      BY <1>3, <2>3, <2>4, <3>1 DEF Current
  <2>5. CASE ReopenMonth(h)
    <3>1. /\ j.op = "ReopenMonth"
          /\ months' = [months EXCEPT ![n].status = "open", ![n].closedWallet = None]
      BY <1>3, <2>5 DEF ReopenMonth, Writes
    <3> QED
      BY <1>3, <2>3, <2>5, <3>1 DEF Current
  <2>6. CASE ~CloseMonth(h) /\ ~ReopenMonth(h)
    <3>1. n \in OpenMonths
      BY <2>1, <2>2, <2>3, <2>6, WritersOp
    <3>2. \/ months' = months
          \/ UpdateMonth(h)
          \/ \E d : ApplyWalletBalanceDelta(j.month, d)
          \/ \E w : months' = [months EXCEPT ![j.month].wallet = w]
      BY <2>1, <2>2, <2>6, Write(h), Zenon DEF Write,
         CreateIncome, UpdateIncome, DeleteIncome, CreateAllocation, UpdateAllocation,
         DeleteAllocation, CreateTransaction, UpdateTransaction, DeleteTransaction,
         SplitTransaction, CreateBalanceUpdate
    <3>3. months'[n].status = months[n].status /\ months'[n].closedWallet = months[n].closedWallet
      <4>1. CASE months' = months
        BY <4>1
      <4>2. CASE UpdateMonth(h)
        BY <1>3, <2>0, <4>2 DEF UpdateMonth
      <4>3. CASE \E d : ApplyWalletBalanceDelta(j.month, d)
        BY <1>3, <2>0, <4>3 DEF ApplyWalletBalanceDelta
      <4>4. CASE \E w : months' = [months EXCEPT ![j.month].wallet = w]
        BY <1>3, <2>0, <4>4
      <4> QED
        BY <3>2, <4>1, <4>2, <4>3, <4>4
    <3> QED
      BY <1>3, <3>1, <3>3 DEF OpenMonths
  <2> QED
    BY <2>4, <2>5, <2>6
<1> QED
  BY <1>1, <1>2, <1>3

-----------------------------------------------------------------------------
(* Closed months and reconciliations, with one handler.                    *)

(* The write that touches a closed month reopens it.                       *)
LEMMA ClosedMonthWrite ==
  ASSUME SInv, NEW h \in Handlers, Write(h),
         NEW m \in DOMAIN months, m \in DOMAIN months', Closed(m), m = jobs[h].month
  PROVE  ReopenMonth(h)
<1>1. ~CreateMonth(h)
  <2>1. m # None
    BY NoneAssumption DEF SInv, LInv, TypeInv, TypeOK, IsTable
  <2> QED
    BY <2>1, CreateMonthAdds DEF Idle
<1>2. ~DeleteMonth(h)
  BY DEF DeleteMonth, Without, Restrict
<1>3. m \notin OpenMonths
  BY DEF Closed, OpenMonths
<1> QED
  BY <1>1, <1>2, <1>3, LoneWriter, WritersOp

(* "wallet month is closed" (repository.go): as long as requests are       *)
(* served one at a time, no request changes what a closed month holds.     *)
THEOREM FrozenOneAtATime == OneAtATime => (Spec => ClosedBooksAreFrozen)
<1> SUFFICES ASSUME OneAtATime PROVE Spec => ClosedBooksAreFrozen
  OBVIOUS
<1>1. ASSUME SInv, Next, NEW m \in DOMAIN months \cap DOMAIN months', Closed(m)
      PROVE  Contents(m)' = Contents(m)
  <2>1. PICK h \in Handlers : Receive(h) \/ MakeCheck(h) \/ Write(h) \/ Refuse(h)
    BY <1>1 DEF Next
  <2>2. CASE ~Write(h)
    BY <2>1, <2>2, OnlyWritesWrite, SameTablesApart, ApartContents
  <2>3. CASE Write(h) /\ m # jobs[h].month
    BY <1>1, <2>3, OneMonth, ApartContents DEF SInv
  <2>4. CASE Write(h) /\ m = jobs[h].month
    <3>1. ReopenMonth(h)
      BY <1>1, <2>4, ClosedMonthWrite
    <3>2. DOMAIN months[m] = {"key", "opening", "wallet", "status", "closedWallet"}
      BY <1>1 DEF SInv, LInv, TypeInv, TypeOK, IsTable, MonthRow
    <3>3. /\ UNCHANGED <<incomes, allocs, txns, updates>>
          /\ months'[m].opening = months[m].opening /\ months'[m].wallet = months[m].wallet
      BY <1>1, <2>4, <3>1, <3>2 DEF ReopenMonth
    <3> QED
      BY <3>3 DEF Contents
  <2> QED
    BY <2>2, <2>3, <2>4
<1>2. SInv /\ [Next]_vars =>
        [\A m \in DOMAIN months \cap DOMAIN months' :
           Closed(m) => Contents(m)' = Contents(m)]_vars
  BY <1>1
<1> QED
  BY <1>2, SInvHolds, PTL DEF Spec, ClosedBooksAreFrozen

(* The balance recorded at closing is the one the closed books have, as    *)
(* long as requests are served one at a time (CloseMonth).                 *)
THEOREM BalanceOneAtATime == OneAtATime => (Spec => []ClosedBalanceIsExact)
<1> SUFFICES ASSUME OneAtATime PROVE Spec => []ClosedBalanceIsExact
  OBVIOUS
<1>1. Init => ClosedBalanceIsExact
  BY DEF Init, ClosedBalanceIsExact
<1>2. SInv /\ ClosedBalanceIsExact /\ [Next]_vars => ClosedBalanceIsExact'
  <2>1. CASE UNCHANGED tables
    BY <2>1 DEF tables, ClosedBalanceIsExact, Closed
  <2>2. ASSUME SInv, ClosedBalanceIsExact, NEW h \in Handlers, Write(h), NEW n \in DOMAIN months'
        PROVE  IF Closed(n)' THEN months'[n].closedWallet = months'[n].wallet
               ELSE months'[n].closedWallet = None
    <3>1. n \in DOMAIN months =>
            /\ DOMAIN months[n] = {"key", "opening", "wallet", "status", "closedWallet"}
            /\ IF Closed(n) THEN months[n].closedWallet = months[n].wallet
               ELSE months[n].closedWallet = None
      BY <2>2 DEF SInv, LInv, TypeInv, TypeOK, IsTable, MonthRow, ClosedBalanceIsExact
    <3>2. n \in OpenMonths => n \in DOMAIN months /\ ~Closed(n)
      BY DEF OpenMonths, Closed
    <3>3. CASE n \in DOMAIN months /\ months'[n] = months[n]
      BY <3>1, <3>3 DEF Closed
    <3>4. CASE n \notin DOMAIN months /\ months'[n].status = "open" /\ months'[n].closedWallet = None
      BY <3>4 DEF Closed
    <3>5. CASE /\ n \in OpenMonths
               /\ months'[n].status = "open" /\ months'[n].closedWallet = months[n].closedWallet
      BY <3>1, <3>2, <3>5 DEF Closed
    <3>6. CASE /\ n \in OpenMonths
               /\ months' = [months EXCEPT ![n].status = "closed",
                                           ![n].closedWallet = months[n].wallet]
      BY <3>1, <3>2, <3>6 DEF Closed
    <3>7. CASE /\ n \in DOMAIN months \ OpenMonths
               /\ months' = [months EXCEPT ![n].status = "open", ![n].closedWallet = None]
      BY <3>1, <3>7 DEF Closed
    <3> QED
      BY <2>2, <3>3, <3>4, <3>5, <3>6, <3>7, MonthRowOfWrite
  <2>3. ASSUME SInv, ClosedBalanceIsExact, NEW h \in Handlers, Write(h)
        PROVE  ClosedBalanceIsExact'
    BY <2>2, <2>3 DEF ClosedBalanceIsExact
  <2> QED
    BY <2>1, <2>3, OnlyWritesWrite DEF Next, vars, tables
<1> QED
  BY <1>1, <1>2, SInvHolds, PTL DEF Spec

(* Two allocations that reconciliations would find are one.                *)
Reconciles(a) == a \in DOMAIN allocs /\ allocs[a].name = "reconciliation"
OneOfThem ==
  \A a, b : Reconciles(a) /\ Reconciles(b) /\ allocs[a].month = allocs[b].month => a = b

(* No two reconciliation allocations come of having fewer.                 *)
LEMMA FewerReconcile ==
  ASSUME OneOfThem,
         \A a : Reconciles(a)' => Reconciles(a) /\ allocs'[a].month = allocs[a].month
  PROVE  OneOfThem'
BY DEF OneOfThem

(* No write gives a month a second reconciliation allocation, if no        *)
(* request names one.                                                      *)
LEMMA WriteReconciles ==
  ASSUME SInv, Names \subseteq {"plain"}, OneOfThem, NEW h \in Handlers, Write(h)
  PROVE  OneOfThem'
<1> DEFINE j == jobs[h]
<1>0. Current(h) /\ \A a \in DOMAIN allocs : DOMAIN allocs[a] = {"month", "budget", "name"}
  BY DEF SInv, AllCurrent, LInv, IInv, InOrder, RowsShaped
<1>1. CASE UNCHANGED allocs
  BY <1>1, FewerReconcile DEF Reconciles
<1>2. CASE CreateMonth(h)
  <2>1. PICK k, I, A : Added(k, I, A)
    BY <1>2, CreateMonthAdds
  <2>2. \A a : Reconciles(a)' => Reconciles(a) /\ allocs'[a].month = allocs[a].month
    BY <2>1 DEF Added, Reconciles
  <2> QED
    BY <2>2, FewerReconcile
<1>3. CASE \E dead : allocs' = Without(allocs, dead)
  <2>1. \A a : Reconciles(a)' => Reconciles(a) /\ allocs'[a].month = allocs[a].month
    BY <1>3 DEF Without, Restrict, Reconciles
  <2> QED
    BY <2>1, FewerReconcile
<1>4. CASE CreateAllocation(h)
  <2>1. j.op = "CreateAllocation" /\ \E a, month, budget : allocs' = Put(allocs, a,
          [month |-> month, budget |-> budget, name |-> j.name])
    BY <1>4, Zenon DEF CreateAllocation, Writes
  <2>2. j.name = "plain"
    BY <1>0, <2>1 DEF Current
  <2>3. \A a : Reconciles(a)' => Reconciles(a) /\ allocs'[a].month = allocs[a].month
    BY <2>1, <2>2 DEF Put, Reconciles
  <2> QED
    BY <2>3, FewerReconcile
<1>5. CASE UpdateAllocation(h)
  <2>1. /\ j.op = "UpdateAllocation" /\ j.row \in DOMAIN allocs
        /\ allocs' = [allocs EXCEPT ![j.row].budget = j.amount, ![j.row].name = j.name]
    BY <1>5 DEF UpdateAllocation, Writes
  <2>2. j.name \in {"plain", allocs[j.row].name}
    BY <1>0, <2>1 DEF Current
  <2>3. /\ DOMAIN allocs' = DOMAIN allocs
        /\ allocs'[j.row].month = allocs[j.row].month /\ allocs'[j.row].name = j.name
        /\ \A a \in DOMAIN allocs \ {j.row} : allocs'[a] = allocs[a]
    BY <1>0, <2>1
  <2>4. \A a : Reconciles(a)' => Reconciles(a) /\ allocs'[a].month = allocs[a].month
    BY <2>1, <2>2, <2>3 DEF Reconciles
  <2> QED
    BY <2>4, FewerReconcile
<1>6. CASE CreateBalanceUpdate(h)
  <2>1. \/ UNCHANGED allocs
        \/ \E a \in ReconciliationAllocationIds(j.month) :
             allocs' = Put(allocs, a, [month |-> j.month, budget |-> 0, name |-> "reconciliation"])
    BY <1>6, Zenon DEF CreateBalanceUpdate
  <2>2. CASE \E a \in ReconciliationAllocationIds(j.month) :
             allocs' = Put(allocs, a, [month |-> j.month, budget |-> 0, name |-> "reconciliation"])
    <3>1. PICK m : m = j.month
      OBVIOUS
    <3>2. PICK a \in ReconciliationAllocationIds(m) :
             allocs' = Put(allocs, a, [month |-> m, budget |-> 0, name |-> "reconciliation"])
      BY <2>2, <3>1
    <3>3. \A b : Reconciles(b) /\ allocs[b].month = m => a = b
      BY <3>2 DEF ReconciliationAllocationIds, ReconciliationAllocations, OneOfThem, Reconciles
    <3>4. /\ DOMAIN allocs' = DOMAIN allocs \cup {a} /\ allocs'[a].month = m
          /\ \A b \in DOMAIN allocs \ {a} : allocs'[b] = allocs[b]
      BY <3>2 DEF Put
    <3> QED
      BY <3>3, <3>4 DEF OneOfThem, Reconciles
  <2> QED
    BY <1>1, <2>1, <2>2
<1> QED
  BY <1>1, <1>2, <1>3, <1>4, <1>5, <1>6, Write(h), Zenon DEF Write, UpdateMonth, DeleteMonth,
     CloseMonth, ReopenMonth, CreateIncome, UpdateIncome, DeleteIncome, DeleteAllocation,
     CreateTransaction, UpdateTransaction, DeleteTransaction, SplitTransaction

(* Reconciliations of a month share one allocation, as long as requests    *)
(* are served one at a time and none names an allocation like it           *)
(* (ensureReconciliationAllocation).                                       *)
THEOREM ReconciliationOneAtATime ==
  OneAtATime /\ Names \subseteq {"plain"} => (Spec => []OneReconciliationAllocation)
<1> SUFFICES ASSUME OneAtATime, Names \subseteq {"plain"}
             PROVE  Spec => []OneReconciliationAllocation
  OBVIOUS
<1>1. Init => OneOfThem
  BY DEF Init, OneOfThem, Reconciles
<1>2. SInv /\ OneOfThem /\ [Next]_vars => OneOfThem'
  <2>1. UNCHANGED tables /\ OneOfThem => OneOfThem'
    BY DEF tables, OneOfThem, Reconciles
  <2> QED
    BY <2>1, WriteReconciles, OnlyWritesWrite DEF Next, vars, tables
<1>3. OneOfThem => OneReconciliationAllocation
  <2> SUFFICES ASSUME OneOfThem, NEW m \in DOMAIN months
               PROVE  Cardinality(ReconciliationAllocations(m)) <= 1
    BY DEF OneReconciliationAllocation
  <2>1. \A a, b \in ReconciliationAllocations(m) : a = b
    BY DEF OneOfThem, Reconciles, ReconciliationAllocations
  <2>2. CASE ReconciliationAllocations(m) = {}
    BY <2>2, FS_EmptySet
  <2>3. CASE ReconciliationAllocations(m) # {}
    <3>1. PICK a : ReconciliationAllocations(m) = {a}
      BY <2>1, <2>3
    <3>2. Cardinality({a}) = 1
      BY FS_Singleton
    <3> QED
      BY <3>1, <3>2
  <2> QED
    BY <2>2, <2>3
<1> QED
  BY <1>1, <1>2, <1>3, SInvHolds, PTL DEF Spec

-----------------------------------------------------------------------------
(* The tables implement the month books of WalletBooks, with one handler.  *)

book == [m \in DOMAIN months |-> BookOf(m)]
Net(m) == (Prepared(m) + Posted(m, "income")) - Posted(m, "spend")

BookRead ==
  \A m : /\ BookOf(m) = [opening |-> months[m].opening, posted |-> BookOf(m).posted,
                         wallet |-> months[m].wallet,
                         allocations |-> Cardinality(AllocsOf(m)),
                         status |-> months[m].status, closedWallet |-> months[m].closedWallet]
         /\ BookOf(m).posted = Expected(m) - months[m].opening
         /\ m \in DOMAIN months => /\ Net(m) \in Int /\ months[m].opening \in Int
                                   /\ months[m].wallet \in Int
                                   /\ Expected(m) = months[m].opening + Net(m)
                                   /\ BookOf(m).posted = Net(m)
                                   /\ Cardinality(AllocsOf(m)) \in Nat
                                   /\ DOMAIN months[m] = {"key", "opening", "wallet", "status",
                                                          "closedWallet"}

(* Its fields, from the invariant,                                         *)
LEMMA BookIs == LInv => BookRead
<1> SUFFICES ASSUME LInv, NEW m
             PROVE  /\ BookOf(m) = [opening |-> months[m].opening, posted |-> BookOf(m).posted,
                         wallet |-> months[m].wallet,
                         allocations |-> Cardinality(AllocsOf(m)),
                         status |-> months[m].status, closedWallet |-> months[m].closedWallet]
                    /\ BookOf(m).posted = Expected(m) - months[m].opening
                    /\ m \in DOMAIN months => /\ Net(m) \in Int /\ months[m].opening \in Int
                                   /\ months[m].wallet \in Int
                                   /\ Expected(m) = months[m].opening + Net(m)
                                   /\ BookOf(m).posted = Net(m)
                                   /\ Cardinality(AllocsOf(m)) \in Nat
                                   /\ DOMAIN months[m] = {"key", "opening", "wallet", "status",
                                                          "closedWallet"}
  BY DEF BookRead
<1>1. BookOf(m) = [opening |-> months[m].opening, posted |-> BookOf(m).posted,
                   wallet |-> months[m].wallet,
                   allocations |-> Cardinality(AllocsOf(m)),
                   status |-> months[m].status, closedWallet |-> months[m].closedWallet]
      /\ BookOf(m).posted = Expected(m) - months[m].opening
  BY DEF BookOf, AllocsOf
<1>2. ASSUME m \in DOMAIN months
      PROVE  /\ Net(m) \in Int /\ months[m].opening \in Int
             /\ months[m].wallet \in Int
             /\ Expected(m) = months[m].opening + Net(m)
             /\ BookOf(m).posted = Net(m)
             /\ Cardinality(AllocsOf(m)) \in Nat
             /\ DOMAIN months[m] = {"key", "opening", "wallet", "status", "closedWallet"}
  <2>1. Prepared(m) \in Int /\ Posted(m, "income") \in Int /\ Posted(m, "spend") \in Int
    BY SumsInt
  <2>2. months[m].opening \in Int /\ months[m].wallet \in Int /\ IsFiniteSet(AllocsOf(m))
    BY <1>2, LInvMeans DEF Whole
  <2>3. Expected(m) =
          months[m].opening + (Prepared(m) + Posted(m, "income")) - Posted(m, "spend")
    BY Summed DEF ExpectedSummed
  <2>4. Expected(m) = months[m].opening + Net(m) /\ Net(m) \in Int
    BY <2>1, <2>2, <2>3 DEF Net
  <2>5. BookOf(m).posted = Net(m)
    BY <1>1, <2>2, <2>4
  <2>6. DOMAIN months[m] = {"key", "opening", "wallet", "status", "closedWallet"}
    BY <1>2 DEF LInv, TypeInv, TypeOK, IsTable, MonthRow
  <2> QED
    BY <2>2, <2>4, <2>5, <2>6, FS_CardinalityType
<1> QED
  BY <1>1, <1>2

(* before and after a step.                                                *)
LEMMA BookIsNext == LInv' => BookRead'
  BY BookIs, PTL

(* A month whose rows are untouched has the same book.                     *)
LEMMA ApartBook ==
  ASSUME LInv, LInv', NEW n, Apart(n)
  PROVE  BookOf(n)' = BookOf(n)
<1>1. Expected(n)' = Expected(n) /\ months'[n] = months[n] /\ AllocsOf(n)' = AllocsOf(n)
  BY ApartSums DEF Apart, RowsApart
<1> QED
  BY <1>1 DEF BookOf, AllocsOf

(* Wallet and books move together when their difference stays.             *)
LEMMA PostsBook ==
  ASSUME LInv, LInv', NEW m \in DOMAIN months, m \in DOMAIN months',
         Variance(m)' = Variance(m), months'[m].opening = months[m].opening
  PROVE  months'[m].wallet - months[m].wallet = BookOf(m)'.posted - BookOf(m).posted
<1>1. /\ Net(m) \in Int /\ months[m].opening \in Int /\ months[m].wallet \in Int
      /\ Expected(m) = months[m].opening + Net(m) /\ BookOf(m).posted = Net(m)
  BY BookIs DEF BookRead
<1>2. /\ Net(m)' \in Int /\ months'[m].opening \in Int /\ months'[m].wallet \in Int
      /\ Expected(m)' = months'[m].opening + Net(m)' /\ BookOf(m)'.posted = Net(m)'
  BY BookIsNext DEF BookRead
<1>3. months'[m].wallet - Expected(m)' = months[m].wallet - Expected(m)
  BY DEF Variance
<1>4. PICK w, v, o, p, q \in Int :
        /\ w = months[m].wallet /\ v = months'[m].wallet /\ o = months[m].opening
        /\ p = Net(m) /\ q = Net(m)'
  BY <1>1, <1>2
<1>5. Expected(m) = o + p /\ Expected(m)' = o + q
  BY <1>1, <1>2, <1>4
<1>6. v - (o + q) = w - (o + p)
  BY <1>3, <1>4, <1>5
<1>7. v - w = q - p
  BY <1>6
<1> QED
  BY <1>1, <1>2, <1>4, <1>7

(* What the posting writes do to the allocations and balances of their     *)
(* month.                                                                  *)
LEMMA PostingWrites ==
  ASSUME SInv, NEW h \in Handlers, Write(h),
         NEW m \in DOMAIN months, m \in DOMAIN months', m = jobs[h].month,
         ~UpdateMonth(h), ~DeleteAllocation(h), ~CloseMonth(h), ~ReopenMonth(h)
  PROVE  /\ DOMAIN months' = DOMAIN months
         /\ months'[m].opening = months[m].opening
         /\ AllocsOf(m)' = AllocsOf(m) \/ \E a : a \notin AllocsOf(m) /\ AllocsOf(m)' = AllocsOf(m) \cup {a}
<1>1. ~CreateMonth(h)
  <2>1. m # None
    BY NoneAssumption DEF SInv, LInv, TypeInv, TypeOK, IsTable
  <2> QED
    BY <2>1, CreateMonthAdds DEF Idle
<1>2. ~DeleteMonth(h)
  BY DEF DeleteMonth, Without, Restrict
<1>3. \/ months' = months
      \/ \E d : ApplyWalletBalanceDelta(jobs[h].month, d)
      \/ \E w : months' = [months EXCEPT ![jobs[h].month].wallet = w]
  BY <1>1, <1>2, Write(h), Zenon DEF Write,
     CreateIncome, UpdateIncome, DeleteIncome, CreateAllocation, UpdateAllocation,
     DeleteAllocation, CreateTransaction, UpdateTransaction, DeleteTransaction,
     SplitTransaction, CreateBalanceUpdate
<1>4. DOMAIN months' = DOMAIN months /\ months'[m].opening = months[m].opening
  <2>1. DOMAIN months[m] = {"key", "opening", "wallet", "status", "closedWallet"}
    BY DEF SInv, LInv, TypeInv, TypeOK, IsTable, MonthRow
  <2>2. CASE \E d : ApplyWalletBalanceDelta(jobs[h].month, d)
    BY <2>1, <2>2 DEF ApplyWalletBalanceDelta
  <2>3. CASE \E w : months' = [months EXCEPT ![jobs[h].month].wallet = w]
    BY <2>1, <2>3
  <2> QED
    BY <1>3, <2>2, <2>3
<1>5. AllocsOf(m)' = AllocsOf(m) \/ \E a : a \notin AllocsOf(m) /\ AllocsOf(m)' = AllocsOf(m) \cup {a}
  <2>1. CASE UNCHANGED allocs
    BY <2>1 DEF AllocsOf
  <2>2. CASE CreateAllocation(h)
    <3>1. PICK a, budget, name :
            /\ a \in FreshAllocs
            /\ allocs' = Put(allocs, a, [month |-> jobs[h].month, budget |-> budget, name |-> name])
      BY <2>2 DEF CreateAllocation
    <3>2. /\ a \notin DOMAIN allocs /\ DOMAIN allocs' = DOMAIN allocs \cup {a}
          /\ allocs'[a].month = m /\ \A x \in DOMAIN allocs : allocs'[x] = allocs[x]
      BY <3>1 DEF FreshAllocs, Put
    <3> QED
      BY <3>2 DEF AllocsOf
  <2>3. CASE UpdateAllocation(h)
    <3>1. allocs' = [allocs EXCEPT ![jobs[h].row].budget = jobs[h].amount, ![jobs[h].row].name = jobs[h].name]
      BY <2>3 DEF UpdateAllocation
    <3>2. \A a \in DOMAIN allocs : DOMAIN allocs[a] = {"month", "budget", "name"}
      BY DEF SInv, LInv, IInv, InOrder, RowsShaped
    <3>3. DOMAIN allocs' = DOMAIN allocs /\ \A a \in DOMAIN allocs : allocs'[a].month = allocs[a].month
      BY <3>1, <3>2
    <3> QED
      BY <3>3 DEF AllocsOf
  <2>4. CASE CreateBalanceUpdate(h)
    <3>1. \/ UNCHANGED allocs
          \/ \E a \in ReconciliationAllocationIds(jobs[h].month) :
               allocs' = Put(allocs, a, [month |-> jobs[h].month, budget |-> 0, name |-> "reconciliation"])
      BY <2>4, Zenon DEF CreateBalanceUpdate
    <3>2. CASE ~UNCHANGED allocs
      <4>1. PICK a \in ReconciliationAllocationIds(m) :
               allocs' = Put(allocs, a, [month |-> m, budget |-> 0, name |-> "reconciliation"])
        BY <3>1, <3>2
      <4>2. a \in DOMAIN allocs => allocs[a].month = m
        BY DEF ReconciliationAllocationIds, ReconciliationAllocations, FreshAllocs
      <4>3. /\ DOMAIN allocs' = DOMAIN allocs \cup {a} /\ allocs'[a].month = m
            /\ \A x \in DOMAIN allocs \ {a} : allocs'[x] = allocs[x]
        BY <4>1 DEF Put
      <4>4. AllocsOf(m)' = AllocsOf(m) \cup {a}
        BY <4>2, <4>3 DEF AllocsOf
      <4> QED
        BY <4>4
    <3> QED
      BY <2>1, <3>2
  <2> QED
    BY <1>1, <1>2, <2>1, <2>2, <2>3, <2>4, Write(h), Zenon DEF Write,
       CreateIncome, UpdateIncome, DeleteIncome,
       CreateTransaction, UpdateTransaction, DeleteTransaction, SplitTransaction
<1> QED
  BY <1>4, <1>5

(* Months other than the one a write is about have the same book after it. *)
LEMMA OtherBooks ==
  ASSUME SInv, SInv', NEW h \in Handlers, Write(h),
         NEW n \in DOMAIN months, n \in DOMAIN months', n # jobs[h].month
  PROVE  book'[n] = book[n]
<1>1. Apart(n)
  BY OneMonth DEF SInv
<1>2. BookOf(n)' = BookOf(n)
  BY <1>1, ApartBook DEF SInv
<1> QED
  BY <1>2 DEF book

(* The abstract actions, said of the book that the tables implement.       *)
LEMMA BooksAct ==
  /\ Books!Init <=> DOMAIN book \subseteq MonthIds /\ \A m \in DOMAIN book :
       \/ book[m].status = "open" /\ book[m].closedWallet = None
       \/ book[m].status = "closed" /\ book[m].closedWallet = book[m].wallet
  /\ \A m : Books!OnlyMonth(m) <=>
       DOMAIN book' = DOMAIN book /\ \A n \in DOMAIN book \ {m} : book'[n] = book[n]
  /\ \A m : Books!StaysOpen(m) <=>
       /\ Books!OnlyMonth(m) /\ book[m].status = "open"
       /\ book'[m].status = "open" /\ book'[m].closedWallet = None
  /\ \A m : Books!Open(m) <=>
       /\ m \notin DOMAIN book /\ DOMAIN book' = DOMAIN book \cup {m}
       /\ \A n \in DOMAIN book : book'[n] = book[n]
       /\ book'[m].status = "open" /\ book'[m].closedWallet = None
  /\ \A m : Books!Post(m) <=>
       /\ Books!StaysOpen(m) /\ book'[m].opening = book[m].opening
       /\ book'[m].wallet - book[m].wallet = book'[m].posted - book[m].posted
       /\ book'[m].allocations - book[m].allocations \in {0, 1}
  /\ \A m : Books!SetBalances(m) <=>
       /\ Books!StaysOpen(m) /\ book'[m].posted = book[m].posted
       /\ book'[m].allocations = book[m].allocations
  /\ \A m : Books!DropAllocation(m) <=>
       /\ Books!StaysOpen(m) /\ book'[m].opening = book[m].opening
       /\ book'[m].wallet = book[m].wallet
       /\ book'[m].allocations = book[m].allocations - 1
  /\ \A m : Books!Close(m) <=>
       /\ book[m].status = "open"
       /\ book' = [book EXCEPT ![m].status = "closed", ![m].closedWallet = book[m].wallet]
  /\ \A m : Books!Reopen(m) <=>
       /\ book[m].status = "closed"
       /\ book' = [book EXCEPT ![m].status = "open", ![m].closedWallet = None]
  /\ \A m : Books!Delete(m) <=> book' = [n \in DOMAIN book \ {m} |-> book[n]]
<1>1. Books!Init <=> DOMAIN book \subseteq MonthIds /\ \A m \in DOMAIN book :
       \/ book[m].status = "open" /\ book[m].closedWallet = None
       \/ book[m].status = "closed" /\ book[m].closedWallet = book[m].wallet
  BY Zenon DEF Books!Init, Books!Sound, book
<1>2. \A m : Books!OnlyMonth(m) <=>
       DOMAIN book' = DOMAIN book /\ \A n \in DOMAIN book \ {m} : book'[n] = book[n]
  BY Zenon DEF Books!OnlyMonth, book
<1>3. \A m : Books!StaysOpen(m) <=>
       /\ Books!OnlyMonth(m) /\ book[m].status = "open"
       /\ book'[m].status = "open" /\ book'[m].closedWallet = None
  BY Zenon DEF Books!StaysOpen, book
<1>4. \A m : Books!Open(m) <=>
       /\ m \notin DOMAIN book /\ DOMAIN book' = DOMAIN book \cup {m}
       /\ \A n \in DOMAIN book : book'[n] = book[n]
       /\ book'[m].status = "open" /\ book'[m].closedWallet = None
  BY Zenon DEF Books!Open, book
<1>5. \A m : Books!Post(m) <=>
       /\ Books!StaysOpen(m) /\ book'[m].opening = book[m].opening
       /\ book'[m].wallet - book[m].wallet = book'[m].posted - book[m].posted
       /\ book'[m].allocations - book[m].allocations \in {0, 1}
  BY Zenon DEF Books!Post, book
<1>6. \A m : Books!SetBalances(m) <=>
       /\ Books!StaysOpen(m) /\ book'[m].posted = book[m].posted
       /\ book'[m].allocations = book[m].allocations
  BY Zenon DEF Books!SetBalances, book
<1>7. \A m : Books!DropAllocation(m) <=>
       /\ Books!StaysOpen(m) /\ book'[m].opening = book[m].opening
       /\ book'[m].wallet = book[m].wallet
       /\ book'[m].allocations = book[m].allocations - 1
  BY Zenon DEF Books!DropAllocation, book
<1>8. \A m : Books!Close(m) <=>
       /\ book[m].status = "open"
       /\ book' = [book EXCEPT ![m].status = "closed", ![m].closedWallet = book[m].wallet]
  BY Zenon DEF Books!Close, book
<1>9. \A m : Books!Reopen(m) <=>
       /\ book[m].status = "closed"
       /\ book' = [book EXCEPT ![m].status = "open", ![m].closedWallet = None]
  BY Zenon DEF Books!Reopen, book
<1>10. \A m : Books!Delete(m) <=> book' = [n \in DOMAIN book \ {m} |-> book[n]]
  BY Zenon DEF Books!Delete, book
<1> QED
  BY <1>1, <1>2, <1>3, <1>4, <1>5, <1>6, <1>7, <1>8, <1>9, <1>10

(* Any of them is a step of the abstract specification.                    *)
LEMMA BooksMove ==
  /\ (\E m \in MonthIds : Books!Open(m)) => Books!Next
  /\ (\E m \in DOMAIN book :
        \/ Books!Post(m) \/ Books!SetBalances(m) \/ Books!DropAllocation(m)
        \/ Books!Close(m) \/ Books!Reopen(m) \/ Books!Delete(m)) => Books!Next
BY Zenon DEF Books!Next, book

(* The fields of a month's book,                                           *)
LEMMA BookFields ==
  ASSUME SInv, NEW m \in DOMAIN months
  PROVE  /\ DOMAIN book = DOMAIN months /\ book[m] = BookOf(m)
         /\ book[m].opening = months[m].opening /\ book[m].wallet = months[m].wallet
         /\ book[m].posted = Net(m) /\ book[m].allocations = Cardinality(AllocsOf(m))
         /\ book[m].status = months[m].status /\ book[m].closedWallet = months[m].closedWallet
<1>1. DOMAIN book = DOMAIN months /\ book[m] = BookOf(m)
  BY DEF book
<1>2. BookRead
  BY BookIs DEF SInv
<1>3. BookOf(m).posted = Net(m)
  BY <1>2 DEF BookRead
<1>4. /\ BookOf(m).opening = months[m].opening /\ BookOf(m).wallet = months[m].wallet
      /\ BookOf(m).allocations = Cardinality(AllocsOf(m))
      /\ BookOf(m).status = months[m].status
      /\ BookOf(m).closedWallet = months[m].closedWallet
  BY DEF BookOf, AllocsOf
<1> QED
  BY <1>1, <1>3, <1>4

BookFieldsAre ==
  \A m \in DOMAIN months :
    /\ DOMAIN book = DOMAIN months /\ book[m] = BookOf(m)
    /\ book[m].opening = months[m].opening /\ book[m].wallet = months[m].wallet
    /\ book[m].posted = Net(m) /\ book[m].allocations = Cardinality(AllocsOf(m))
    /\ book[m].status = months[m].status /\ book[m].closedWallet = months[m].closedWallet

(* before and after a step.                                                *)
LEMMA BookFieldsNext == (SInv => BookFieldsAre) /\ (SInv' => BookFieldsAre')
<1>1. SInv => BookFieldsAre
  BY BookFields DEF BookFieldsAre
<1> QED
  BY <1>1, PTL

(* CreateMonth implements Open.                                            *)
LEMMA CreateBook ==
  ASSUME SInv, SInv', NEW h \in Handlers, CreateMonth(h)
  PROVE  Books!Next
<1>1. jobs[h] = Idle
  BY CreateMonthAdds
<1>2. PICK k \in FreshMonths, I \in SUBSET FreshIncomes, A \in SUBSET FreshAllocs : Added(k, I, A)
  BY CreateMonthAdds
<1>3. /\ k \in MonthIds /\ k \notin DOMAIN months /\ DOMAIN months' = DOMAIN months \cup {k}
      /\ months'[k].status = "open" /\ months'[k].closedWallet = None
  BY <1>2 DEF Added, FreshMonths
<1>4. jobs[h].month = None /\ None \notin DOMAIN months
  BY <1>1, NoneAssumption DEF Idle, SInv, LInv, TypeInv, TypeOK, IsTable
<1>5. \A n \in DOMAIN months : book'[n] = book[n]
  <2> TAKE n \in DOMAIN months
  <2>1. n \in DOMAIN months' /\ n # jobs[h].month
    BY <1>3, <1>4
  <2> QED
    BY <2>1, OtherBooks DEF Write
<1>6. DOMAIN book = DOMAIN months /\ DOMAIN book' = DOMAIN months'
  BY DEF book
<1>7. book'[k].status = "open" /\ book'[k].closedWallet = None
  BY <1>3, BookFieldsNext DEF BookFieldsAre
<1>8. Books!Open(k)
  BY <1>3, <1>5, <1>6, <1>7, BooksAct
<1> QED
  BY <1>3, <1>8, BooksMove

(* DeleteMonth implements Delete.                                          *)
LEMMA DeleteBook ==
  ASSUME SInv, SInv', NEW h \in Handlers, DeleteMonth(h)
  PROVE  Books!Next
<1>1. PICK m : m = jobs[h].month
  OBVIOUS
<1>2. m \in DOMAIN months /\ DOMAIN months' = DOMAIN months \ {m}
  BY <1>1 DEF DeleteMonth, Without, Restrict
<1>3. \A n \in DOMAIN months \ {m} : book'[n] = book[n]
  <2> TAKE n \in DOMAIN months \ {m}
  <2>1. n \in DOMAIN months' /\ n # jobs[h].month
    BY <1>1, <1>2
  <2> QED
    BY <2>1, OtherBooks DEF Write
<1>4. DOMAIN book = DOMAIN months /\ book' = [n \in DOMAIN months' |-> BookOf(n)']
  BY DEF book
<1>5. book' = [n \in DOMAIN book \ {m} |-> book[n]]
  <2>1. \A n \in DOMAIN months \ {m} : BookOf(n)' = book[n]
    BY <1>2, <1>3, <1>4
  <2> QED
    BY <1>2, <1>4, <2>1
<1>6. Books!Delete(m)
  BY <1>5, BooksAct
<1> QED
  BY <1>2, <1>4, <1>6, BooksMove

(* Of the other months nothing changes when no month comes or goes.        *)
LEMMA OnlyThisBook ==
  ASSUME SInv, SInv', NEW h \in Handlers, Write(h), DOMAIN months' = DOMAIN months
  PROVE  Books!OnlyMonth(jobs[h].month)
<1>1. DOMAIN book' = DOMAIN book
  BY DEF book
<1>2. \A n \in DOMAIN book \ {jobs[h].month} : book'[n] = book[n]
  BY OtherBooks DEF book
<1> QED
  BY <1>1, <1>2, BooksAct

(* The record of a month with another status and closing balance.          *)
Reset(b, s, c) == [b EXCEPT !.status = s, !.closedWallet = c]

(* Setting the status and closing balance of a record.                     *)
LEMMA StatusSet ==
  ASSUME NEW o, NEW p, NEW w, NEW a, NEW s, NEW c, NEW s2, NEW c2, NEW b,
         b = [opening |-> o, posted |-> p, wallet |-> w, allocations |-> a,
              status |-> s, closedWallet |-> c]
  PROVE  Reset(b, s2, c2) =
           [opening |-> o, posted |-> p, wallet |-> w, allocations |-> a,
            status |-> s2, closedWallet |-> c2]
<1> DEFINE e == Reset(b, s2, c2)
<1>1. DOMAIN b = {"opening", "posted", "wallet", "allocations", "status", "closedWallet"}
  OBVIOUS
<1>2. /\ e = [x \in DOMAIN b |-> e[x]] /\ DOMAIN e = DOMAIN b
      /\ e.opening = b.opening /\ e.posted = b.posted /\ e.wallet = b.wallet
      /\ e.allocations = b.allocations /\ e.status = s2 /\ e.closedWallet = c2
  BY <1>1 DEF Reset
<1>3. b.opening = o /\ b.posted = p /\ b.wallet = w /\ b.allocations = a
  OBVIOUS
<1> HIDE DEF e
<1>4. e = [opening |-> o, posted |-> p, wallet |-> w, allocations |-> a,
           status |-> s2, closedWallet |-> c2]
  BY <1>1, <1>2, <1>3
<1> QED
  BY <1>4 DEF e

(* CloseMonth implements Close, ReopenMonth Reopen.                        *)
LEMMA CloseBook ==
  ASSUME SInv, SInv', NEW h \in Handlers, CloseMonth(h) \/ ReopenMonth(h)
  PROVE  Books!Next
<1>1. PICK m : m = jobs[h].month
  OBVIOUS
<1>2. /\ m \in DOMAIN months /\ DOMAIN months' = DOMAIN months
      /\ UNCHANGED <<incomes, allocs, txns, split>>
  BY <1>1 DEF CloseMonth, ReopenMonth
<1>3. /\ DOMAIN book = DOMAIN months /\ DOMAIN book' = DOMAIN months
      /\ book' = [n \in DOMAIN months |-> book'[n]]
  BY <1>2 DEF book
<1>4. \A n \in DOMAIN months \ {m} : book'[n] = book[n]
  <2> TAKE n \in DOMAIN months \ {m}
  <2>1. n \in DOMAIN months' /\ n # jobs[h].month
    BY <1>1, <1>2
  <2> QED
    BY <2>1, OtherBooks DEF Write
<1>5. Net(m)' = Net(m) /\ AllocsOf(m)' = AllocsOf(m)
  <2>1. Prepared(m)' = Prepared(m) /\ \A kind : Posted(m, kind)' = Posted(m, kind)
    BY <1>2, SameTxns, SameIncomes
  <2> QED
    BY <1>2, <2>1 DEF Net, AllocsOf
<1>6. DOMAIN months[m] = {"key", "opening", "wallet", "status", "closedWallet"}
  BY <1>2 DEF SInv, LInv, TypeInv, TypeOK, IsTable, MonthRow
<1>7. PICK o, p, w, a :
        /\ o = months[m].opening /\ p = Net(m) /\ w = months[m].wallet
        /\ a = Cardinality(AllocsOf(m))
  OBVIOUS
<1>8. book[m] = [opening |-> o, posted |-> p, wallet |-> w, allocations |-> a,
                 status |-> months[m].status, closedWallet |-> months[m].closedWallet]
  BY <1>2, <1>7, BookIs DEF book, BookRead, SInv
<1>9. book'[m] = [opening |-> months'[m].opening, posted |-> p, wallet |-> months'[m].wallet,
                  allocations |-> a,
                  status |-> months'[m].status, closedWallet |-> months'[m].closedWallet]
  <2>1. BookRead'
    BY BookIsNext DEF SInv
  <2>2. book'[m] = BookOf(m)'
    BY <1>2 DEF book
  <2>3. BookOf(m)'.posted = p
    BY <1>2, <1>5, <1>7, <2>1 DEF BookRead
  <2>4. Cardinality(AllocsOf(m)') = a
    BY <1>5, <1>7
  <2>5. BookOf(m)' = [opening |-> months'[m].opening, posted |-> BookOf(m)'.posted,
                      wallet |-> months'[m].wallet,
                      allocations |-> Cardinality(AllocsOf(m)'),
                      status |-> months'[m].status, closedWallet |-> months'[m].closedWallet]
    BY <2>1 DEF BookRead
  <2> QED
    BY <2>2, <2>3, <2>4, <2>5
<1>10. CASE CloseMonth(h)
  <2>1. m \in OpenMonths /\ jobs[h].was = months[m].wallet
    <3>1. jobs[h].op = "CloseMonth" /\ jobs[h].todo = <<>>
      BY <1>10 DEF CloseMonth, Writes
    <3> QED
      BY <1>1, <3>1, Listed DEF SInv, AllCurrent, Current
  <2>2. months' = [months EXCEPT ![m].status = "closed", ![m].closedWallet = w]
    BY <1>1, <1>7, <1>10, <2>1 DEF CloseMonth
  <2>3. /\ months'[m].opening = o /\ months'[m].wallet = w
        /\ months'[m].status = "closed" /\ months'[m].closedWallet = w
    BY <1>2, <1>6, <1>7, <2>2
  <2>4. months[m].status = "open"
    BY <2>1 DEF OpenMonths
  <2>5. book'[m] = [book[m] EXCEPT !.status = "closed", !.closedWallet = w]
    <3>1. book'[m] = [opening |-> o, posted |-> p, wallet |-> w, allocations |-> a,
                      status |-> "closed", closedWallet |-> w]
      BY <1>9, <2>3
    <3>2. PICK b, s, c :
            /\ b = book[m] /\ s = months[m].status /\ c = months[m].closedWallet
      OBVIOUS
    <3>3. b = [opening |-> o, posted |-> p, wallet |-> w, allocations |-> a,
               status |-> s, closedWallet |-> c]
      BY <1>8, <3>2
    <3>4. Reset(b, "closed", w) =
             [opening |-> o, posted |-> p, wallet |-> w, allocations |-> a,
              status |-> "closed", closedWallet |-> w]
      BY <3>3, StatusSet
    <3> QED
      BY <3>1, <3>2, <3>4 DEF Reset
  <2>6. book' = [book EXCEPT ![m].status = "closed", ![m].closedWallet = w]
    BY <1>2, <1>3, <1>4, <2>5 DEF book
  <2>7. book[m].status = "open" /\ book[m].wallet = w
    BY <1>8, <2>4
  <2>8. Books!Close(m)
    BY <2>6, <2>7, BooksAct
  <2> QED
    BY <1>2, <1>3, <2>8, BooksMove
<1>11. CASE ReopenMonth(h)
  <2>1. m \notin OpenMonths
    <3>1. jobs[h].op = "ReopenMonth"
      BY <1>11 DEF ReopenMonth, Writes
    <3> QED
      BY <1>1, <3>1 DEF SInv, AllCurrent, Current
  <2>2. months' = [months EXCEPT ![m].status = "open", ![m].closedWallet = None]
    BY <1>1, <1>11 DEF ReopenMonth
  <2>3. /\ months'[m].opening = o /\ months'[m].wallet = w
        /\ months'[m].status = "open" /\ months'[m].closedWallet = None
    BY <1>2, <1>6, <1>7, <2>2
  <2>4. months[m].status = "closed"
    BY <1>2, <2>1 DEF OpenMonths, SInv, LInv, TypeInv, TypeOK, IsTable, MonthRow
  <2>5. book'[m] = [book[m] EXCEPT !.status = "open", !.closedWallet = None]
    <3>1. book'[m] = [opening |-> o, posted |-> p, wallet |-> w, allocations |-> a,
                      status |-> "open", closedWallet |-> None]
      BY <1>9, <2>3
    <3>2. PICK b, s, c :
            /\ b = book[m] /\ s = months[m].status /\ c = months[m].closedWallet
      OBVIOUS
    <3>3. b = [opening |-> o, posted |-> p, wallet |-> w, allocations |-> a,
               status |-> s, closedWallet |-> c]
      BY <1>8, <3>2
    <3>4. Reset(b, "open", None) =
             [opening |-> o, posted |-> p, wallet |-> w, allocations |-> a,
              status |-> "open", closedWallet |-> None]
      BY <3>3, StatusSet
    <3> QED
      BY <3>1, <3>2, <3>4 DEF Reset
  <2>6. book' = [book EXCEPT ![m].status = "open", ![m].closedWallet = None]
    BY <1>2, <1>3, <1>4, <2>5 DEF book
  <2>7. book[m].status = "closed"
    BY <1>8, <2>4
  <2>8. Books!Reopen(m)
    BY <2>6, <2>7, BooksAct
  <2> QED
    BY <1>2, <1>3, <2>8, BooksMove
<1> QED
  BY <1>10, <1>11

(* A write to an open month that neither closes nor reopens leaves it open. *)
LEMMA OpenBookStays ==
  ASSUME SInv, SInv', ClosedBalanceIsExact, NEW h \in Handlers, Write(h), ~CreateMonth(h),
         ~CloseMonth(h), ~ReopenMonth(h), jobs[h].op # "DeleteMonth",
         DOMAIN months' = DOMAIN months
  PROVE  Books!StaysOpen(jobs[h].month)
<1>1. PICK m : m = jobs[h].month
  OBVIOUS
<1>2. m \in OpenMonths
  BY <1>1, WritersOp, LoneWriter
<1>3. m \in DOMAIN months /\ m \in DOMAIN months' /\ months[m].status = "open"
  BY <1>2 DEF OpenMonths
<1>4. months'[m].status = "open" /\ months'[m].closedWallet = months[m].closedWallet
  BY <1>2, <1>3, MonthRowOfWrite
<1>5. book[m].status = "open" /\ book'[m].status = "open"
      /\ book'[m].closedWallet = months'[m].closedWallet
  BY <1>3, <1>4, BookFieldsNext DEF BookFieldsAre
<1>6. months[m].closedWallet = None
  BY <1>3 DEF ClosedBalanceIsExact, Closed
<1>7. Books!OnlyMonth(m)
  BY <1>1, OnlyThisBook
<1> QED
  BY <1>1, <1>4, <1>5, <1>6, <1>7, BooksAct

(* UpdateMonth implements SetBalances.                                     *)
LEMMA SetBalancesBook ==
  ASSUME SInv, SInv', ClosedBalanceIsExact, NEW h \in Handlers, UpdateMonth(h)
  PROVE  Books!Next
<1>1. PICK m : m = jobs[h].month
  OBVIOUS
<1>2. /\ m \in DOMAIN months /\ DOMAIN months' = DOMAIN months
      /\ UNCHANGED <<incomes, allocs, txns, split>> /\ Write(h)
  BY <1>1 DEF UpdateMonth, Write
<1>3. Books!OnlyMonth(m)
  BY <1>1, <1>2, OnlyThisBook
<1>4. Net(m)' = Net(m) /\ AllocsOf(m)' = AllocsOf(m)
  <2>1. Prepared(m)' = Prepared(m) /\ \A kind : Posted(m, kind)' = Posted(m, kind)
    BY <1>2, SameTxns, SameIncomes
  <2> QED
    BY <1>2, <2>1 DEF Net, AllocsOf
<1>5. BookFieldsAre /\ BookFieldsAre'
  BY BookFieldsNext
<1>6. book'[m].posted = book[m].posted
  BY <1>2, <1>4, <1>5 DEF BookFieldsAre
<1>7. book'[m].allocations = book[m].allocations
  BY <1>2, <1>4, <1>5 DEF BookFieldsAre
<1>8. Books!StaysOpen(m)
  <2>1. jobs[h].op = "UpdateMonth"
    BY DEF UpdateMonth, Writes
  <2>2. ~CreateMonth(h)
    BY <2>1, CreateMonthAdds DEF Idle
  <2>3. ~CloseMonth(h) /\ ~ReopenMonth(h)
    BY <1>2, <2>1, <2>2, WritersOp
  <2> QED
    BY <1>1, <1>2, <2>1, <2>2, <2>3, OpenBookStays
<1>9. Books!SetBalances(m)
  BY <1>6, <1>7, <1>8, BooksAct
<1> QED
  BY <1>2, <1>9, BooksMove DEF book

(* DeleteAllocation implements DropAllocation.                             *)
LEMMA DropBook ==
  ASSUME SInv, SInv', ClosedBalanceIsExact, NEW h \in Handlers, DeleteAllocation(h)
  PROVE  Books!Next
<1>1. PICK m, a : m = jobs[h].month /\ a = jobs[h].row
  OBVIOUS
<1>2. /\ UNCHANGED months /\ Write(h)
      /\ a \in DOMAIN allocs /\ allocs' = Without(allocs, {a})
      /\ jobs[h].op = "DeleteAllocation"
  BY <1>1 DEF DeleteAllocation, Write, Writes
<1>3. ~CreateMonth(h)
  BY <1>2, CreateMonthAdds DEF Idle
<1>4. m \in DOMAIN months
  BY <1>1, <1>2, <1>3, LoneWriter DEF OpenMonths
<1>5. allocs[a].month = m
  BY <1>1, <1>2 DEF SInv, LInv, AllRight, RowsRight
<1>6. AllocsOf(m)' = AllocsOf(m) \ {a} /\ a \in AllocsOf(m)
  BY <1>2, <1>5 DEF AllocsOf, Without, Restrict
<1>7. IsFiniteSet(AllocsOf(m)) /\ Cardinality(AllocsOf(m)) \in Nat
  BY LInvMeans, FS_CardinalityType DEF SInv, Whole
<1>8. Cardinality(AllocsOf(m)') = Cardinality(AllocsOf(m)) - 1
  BY <1>6, <1>7, FS_RemoveElement
<1>9. BookFieldsAre /\ BookFieldsAre'
  BY BookFieldsNext
<1>10. /\ book'[m].opening = book[m].opening /\ book'[m].wallet = book[m].wallet
       /\ book'[m].allocations = book[m].allocations - 1
  BY <1>2, <1>4, <1>8, <1>9 DEF BookFieldsAre
<1>11. Books!StaysOpen(m)
  <2>1. ~CloseMonth(h) /\ ~ReopenMonth(h)
    BY <1>2, <1>3, WritersOp
  <2> QED
    BY <1>1, <1>2, <1>3, <2>1, OpenBookStays
<1>12. Books!DropAllocation(m)
  BY <1>10, <1>11, BooksAct
<1> QED
  BY <1>4, <1>12, BooksMove DEF book

(* Every other write implements Post.                                      *)
LEMMA PostBook ==
  ASSUME SInv, SInv', ClosedBalanceIsExact, NEW h \in Handlers, Write(h),
         ~CreateMonth(h), ~DeleteMonth(h), ~CloseMonth(h), ~ReopenMonth(h),
         ~UpdateMonth(h), ~DeleteAllocation(h)
  PROVE  Books!Next
<1>1. PICK m : m = jobs[h].month
  OBVIOUS
<1>2. /\ jobs[h].op \notin {"DeleteMonth", "ReopenMonth", "CloseMonth"} \cup Unbalanced
      /\ ~Stale(h) /\ m \in OpenMonths
  BY <1>1, WritersOp, LoneWriter DEF Unbalanced
<1>3. m \in DOMAIN months
  BY <1>2 DEF OpenMonths
<1>4. m \in DOMAIN months'
  BY <1>2, <1>3, Write(h), Zenon DEF Write, CreateIncome, UpdateIncome, DeleteIncome,
     CreateAllocation, UpdateAllocation, CreateTransaction, UpdateTransaction,
     DeleteTransaction, SplitTransaction, CreateBalanceUpdate, ApplyWalletBalanceDelta
<1>5. /\ DOMAIN months' = DOMAIN months /\ months'[m].opening = months[m].opening
      /\ \/ AllocsOf(m)' = AllocsOf(m)
         \/ \E a : a \notin AllocsOf(m) /\ AllocsOf(m)' = AllocsOf(m) \cup {a}
  BY <1>1, <1>3, <1>4, PostingWrites
<1>6. BookFieldsAre /\ BookFieldsAre'
  BY BookFieldsNext
<1>7. book'[m].opening = book[m].opening
  BY <1>3, <1>4, <1>5, <1>6 DEF BookFieldsAre
<1>8. book'[m].wallet - book[m].wallet = book'[m].posted - book[m].posted
  <2>1. Variance(m)' = Variance(m)
    BY <1>2, <1>3, <1>4, WriteVariance DEF SInv
  <2>2. months'[m].wallet - months[m].wallet = BookOf(m)'.posted - BookOf(m).posted
    BY <1>3, <1>4, <1>5, <2>1, PostsBook DEF SInv
  <2>3. book[m] = BookOf(m) /\ book[m].wallet = months[m].wallet
    BY <1>3, <1>6 DEF BookFieldsAre
  <2>4. book'[m] = BookOf(m)' /\ book'[m].wallet = months'[m].wallet
    BY <1>4, <1>6 DEF BookFieldsAre
  <2> QED
    BY <2>2, <2>3, <2>4
<1>9. book'[m].allocations - book[m].allocations \in {0, 1}
  <2>1. IsFiniteSet(AllocsOf(m)) /\ Cardinality(AllocsOf(m)) \in Nat
    BY LInvMeans, FS_CardinalityType DEF SInv, Whole
  <2>2. \/ Cardinality(AllocsOf(m)') = Cardinality(AllocsOf(m))
        \/ Cardinality(AllocsOf(m)') = Cardinality(AllocsOf(m)) + 1
    <3>1. CASE AllocsOf(m)' = AllocsOf(m)
      BY <3>1
    <3>2. CASE \E a : a \notin AllocsOf(m) /\ AllocsOf(m)' = AllocsOf(m) \cup {a}
      BY <2>1, <3>2, FS_AddElement
    <3> QED
      BY <1>5, <3>1, <3>2
  <2>3. book[m].allocations = Cardinality(AllocsOf(m))
    BY <1>3, <1>6 DEF BookFieldsAre
  <2>4. book'[m].allocations = Cardinality(AllocsOf(m)')
    BY <1>4, <1>6 DEF BookFieldsAre
  <2> QED
    BY <2>1, <2>2, <2>3, <2>4
<1>10. Books!StaysOpen(m)
  BY <1>1, <1>2, <1>5, OnlyThisBook, OpenBookStays
<1>11. Books!Post(m)
  BY <1>7, <1>8, <1>9, <1>10, BooksAct
<1> QED
  BY <1>3, <1>11, BooksMove DEF book

(* Every write is a step of the abstract specification,                    *)
LEMMA WriteBook ==
  ASSUME SInv, SInv', ClosedBalanceIsExact, NEW h \in Handlers, Write(h)
  PROVE  Books!Next
<1>1. CASE CreateMonth(h)
  BY <1>1, CreateBook
<1>2. CASE DeleteMonth(h)
  BY <1>2, DeleteBook
<1>3. CASE CloseMonth(h) \/ ReopenMonth(h)
  BY <1>3, CloseBook
<1>4. CASE UpdateMonth(h)
  BY <1>4, SetBalancesBook
<1>5. CASE DeleteAllocation(h)
  BY <1>5, DropBook
<1> QED
  BY <1>1, <1>2, <1>3, <1>4, <1>5, PostBook

(* and every other step a stutter.                                         *)
LEMMA SameBook ==
  ASSUME SInv, SInv', UNCHANGED tables
  PROVE  UNCHANGED book
<1>1. \A n \in DOMAIN months : BookOf(n)' = BookOf(n)
  BY SameTablesApart, ApartBook DEF SInv
<1>2. DOMAIN months' = DOMAIN months
  BY DEF tables
<1>3. book' = [n \in DOMAIN months |-> BookOf(n)']
  BY <1>2 DEF book
<1> QED
  BY <1>1, <1>3 DEF book

(* An empty database is an empty set of books.                             *)
LEMMA BooksInit == Init => Books!Init
<1> SUFFICES ASSUME Init PROVE Books!Init
  OBVIOUS
<1>1. DOMAIN book = {}
  BY DEF book, Init
<1> QED
  BY <1>1, BooksAct

(* The ledger's tables, with requests served one at a time, implement the  *)
(* month books of WalletBooks: a posting moves the wallet by what it       *)
(* posts, and a closed month changes only by being reopened or deleted.    *)
THEOREM BooksKeptOneAtATime == OneAtATime => (Spec => BooksKept)
<1> SUFFICES ASSUME OneAtATime PROVE Spec => BooksKept
  OBVIOUS
<1>1. SInv /\ SInv' /\ ClosedBalanceIsExact /\ [Next]_vars => [Books!Next]_book
  <2> SUFFICES ASSUME SInv, SInv', ClosedBalanceIsExact, [Next]_vars
               PROVE  Books!Next \/ UNCHANGED book
    BY Zenon
  <2>1. CASE UNCHANGED vars
    BY <2>1, SameBook DEF vars, tables
  <2>2. CASE Next
    BY <2>2, SameBook, WriteBook, OnlyWritesWrite DEF Next
  <2> QED
    BY <2>1, <2>2
<1>2. [Books!Next]_book <=> [Books!Next]_[m \in DOMAIN months |-> BookOf(m)]
  BY Zenon DEF book
<1>3. Spec => []SInv
  BY SInvHolds
<1>4. Spec => []ClosedBalanceIsExact
  BY BalanceOneAtATime
<1> QED
  BY <1>1, <1>2, <1>3, <1>4, BooksInit, PTL DEF Spec, BooksKept, Books!Spec
===============================================================================
