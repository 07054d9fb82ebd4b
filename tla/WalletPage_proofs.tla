--------------------------- MODULE WalletPage_proofs ---------------------------
(***************************************************************************)
(* Theorems about the wallet page (module WalletPage): its type invariant, *)
(* the spinner that hides the page, and what the page shows at rest.  They *)
(* need to know of every write the user begins what it is about and what   *)
(* it reloads (lemma Begins), and of every read on the way whether it is   *)
(* the newest of its view and whether it is stale (PageInv).               *)
(***************************************************************************)
EXTENDS WalletPage, Sums, TLAPS

Kinds == {"balance", "posting", "capture", "undo", "close", "reopen", "bookEdit",
          "bookReopen", "delete", "create", "preview", "splitDetail", "reconcile", "split"}
Views == [of : Months \cup {None}, closed : BOOLEAN, fresh : BOOLEAN]

OpTyped ==
  op = NoOp \/
  /\ DOMAIN op = {"kind", "at", "row", "key", "detailOf", "rows", "phase", "todo"}
  /\ op.kind \in Kinds /\ op.at \in Months /\ op.row \in Months \cup {None}
  /\ op.key \in Months /\ op.detailOf \in Months \cup {None} /\ op.rows \subseteq Months
  /\ op.phase \in {"sent", "refused", "done", "reload"}
  /\ op.todo \subseteq Watched
  /\ "detail" \in op.todo => op.detailOf \in Months
  /\ op.kind = "delete" /\ op.phase # "reload" => "load" \in op.todo

LoadTyped(l) ==
  /\ DOMAIN l = {"what", "of", "own", "old", "seen", "fresh"}
  /\ l.what \in Watched /\ l.of \in Months
  /\ l.own \in BOOLEAN /\ l.old \in BOOLEAN /\ l.fresh \in BOOLEAN
  /\ l.seen \in [Scope(l.what, l.of) -> Status]
LoadsTyped(ls) == \A l \in ls : LoadTyped(l)

(* TypeOK needs to know of the handler on the way that it reloads only     *)
(* what the visit can look at, and of the section that it is in the visit. *)
PageTyped ==
  /\ TypeOK
  /\ section \in use
  /\ OpTyped
  /\ LoadsTyped(loads)

PageRead ==
  /\ status \in [Months -> Status] /\ monthKey \in Months /\ section \in Sections
  /\ formRow \in Months \cup {None} /\ preview \in Months \cup {None}
  /\ detailId \in Months \cup {None} /\ deleteTarget \in Months \cup {None}
  /\ notice \in Months \cup {None}
  /\ summary \in Views /\ bookEdit \in Views /\ review \in Views /\ detail \in Views
  /\ reports \in Views
  /\ book \in [rows : SUBSET Months, closed : SUBSET Months, fresh : BOOLEAN]
  /\ bookOpen \in BOOLEAN /\ loading \in BOOLEAN
  /\ modals \in [reconcile : BOOLEAN, split : Months \cup {None}]
  /\ doubt \subseteq Watched /\ acts \in Nat /\ faults \in Nat
  /\ use \subseteq Sections \cup Tools /\ section \in use
  /\ OpTyped
  /\ LoadsTyped(loads)

(* Of the handler on the way, what TypeOK says.                            *)
LEMMA OpRead == OpTyped => /\ op.phase \in {"sent", "refused", "done", "reload"}
                           /\ op.todo \subseteq Loaders /\ op.todo \subseteq Watched
                           /\ op # NoOp => {op.at, op.key} \subseteq Months
  BY DEF OpTyped, NoOp, Loaders, Watched

(* PageTyped, with the pieces TypeOK packs into sets said one by one.      *)
LEMMA PageIs == PageTyped <=> PageRead
<1>1. PageTyped => PageRead
  BY DEF PageTyped, PageRead, TypeOK, Views
<1>2. ASSUME PageRead PROVE PageTyped
  <2>1. \A l \in loads : l.what \in Loaders /\ l.of \in Months
                         /\ {l.own, l.old, l.fresh} \subseteq BOOLEAN
                         /\ l.seen \in [Scope(l.what, l.of) -> Status]
    BY <1>2 DEF PageRead, LoadsTyped, LoadTyped, Watched, Loaders
  <2> QED
    BY <1>2, <2>1, OpRead DEF PageRead, PageTyped, TypeOK, Views
<1> QED
  BY <1>1, <1>2

(* The same of the next state.                                             *)
LEMMA PageIsNext == PageTyped' <=> PageRead'
  BY PageIs, PTL

(* What a write that begins is known to reload.                            *)
Covers(kind, at, after) ==
  /\ kind = "delete" \/ "load" \in Touched(kind) => "load" \in after
  /\ \A w \in {"review", "detail"} :
       w \in Touched(kind) /\ section = "review" /\ kind \notin {"delete", "create", "reconcile"} => w \in after
  /\ section = "reports" /\ "reports" \in Touched(kind) => "reports" \in after
  /\ kind = "create" => summary.of = None /\ ~loading

(* Every write the user begins names what it is about, and reloads what it *)
(* changes of what is on screen.                                           *)
LEMMA Begins ==
  ASSUME PageTyped, UserWrites
  PROVE  ~Saving /\ \E kind \in Kinds, at \in Months, row \in Months \cup {None},
                       after \in SUBSET Loaders :
                      Begin(kind, at, row, after) /\ Covers(kind, at, after)
<1> DEFINE Starts(kind, at, row, after) ==
             /\ kind \in Kinds /\ at \in Months \cup {None} /\ row \in Months \cup {None}
             /\ after \subseteq Loaders
             /\ Start(kind, at, row, after) /\ Covers(kind, at, after)
<1>1. \A kind, at, row, after : Start(kind, at, row, after) =>
        ~Saving /\ at # None /\ Begin(kind, at, row, after)
  BY DEF Start
<1>2. /\ monthKey \in Months /\ formRow \in Months \cup {None}
      /\ summary.of \in Months \cup {None} /\ review.of \in Months \cup {None}
      /\ detail.of \in Months \cup {None} /\ bookEdit.of \in Months \cup {None}
      /\ notice \in Months \cup {None} /\ preview \in Months \cup {None}
      /\ deleteTarget \in Months \cup {None} /\ Rows \in Months \cup {None}
      /\ modals.split \in Months \cup {None}
  BY PageIs DEF PageRead, Views, Rows
<1>3. \E kind, at, row, after : Starts(kind, at, row, after)
  <2> USE DEF Kinds, Loaders, Covers, Touched, InMonth, InReview, InCreate
  <2>1. CASE SubmitBalance
    <3>1. Starts("balance", monthKey, monthKey, {"load", "reports"})
      BY <1>2, <2>1 DEF SubmitBalance
    <3> QED
      BY ONLY <3>1
  <2>2. CASE SubmitReconciliation
    <3>1. Starts("reconcile", monthKey, monthKey, {"load", "reports"})
      BY <1>2, <2>2 DEF SubmitReconciliation
    <3> QED
      BY ONLY <3>1
  <2>3. CASE SubmitAllocation
    <3>1. Starts("posting", monthKey, monthKey, {"load"})
      BY <1>2, <2>3 DEF SubmitAllocation
    <3> QED
      BY ONLY <3>1
  <2>4. CASE SaveAllocationBudgetEdit
    <3>1. Starts("posting", summary.of, summary.of, {"load"})
      BY <1>2, <2>4 DEF SaveAllocationBudgetEdit
    <3> QED
      BY ONLY <3>1
  <2>5. CASE SubmitIncome
    <3>1. Starts("balance", monthKey, monthKey, {"load"})
      BY <1>2, <2>5 DEF SubmitIncome
    <3> QED
      BY ONLY <3>1
  <2>6. CASE SaveIncomeEdit
    <3>1. Starts("balance", summary.of, summary.of, {"load", "reports"})
      BY <1>2, <2>6 DEF SaveIncomeEdit
    <3> QED
      BY ONLY <3>1
  <2>7. CASE SubmitTransaction
    <3>1. Starts("capture", monthKey, IF formRow # None THEN formRow ELSE summary.of, {"load"})
      BY <1>2, <2>7 DEF SubmitTransaction
    <3> QED
      BY ONLY <3>1
  <2>8. CASE PayAllocation
    <3>1. Starts("capture", monthKey, summary.of, {"load"})
      BY <1>2, <2>8 DEF PayAllocation
    <3> QED
      BY ONLY <3>1
  <2>9. CASE UndoLastTransaction
    <3>1. Starts("undo", notice, notice, {"load", "review", "detail", "reports"})
      BY <1>2, <2>9 DEF UndoLastTransaction
    <3> QED
      BY ONLY <3>1
  <2>10. CASE SaveTransactionAmountEdit
    <3>1. Starts("posting", summary.of, summary.of, Loaders)
      BY <1>2, <2>10 DEF SaveTransactionAmountEdit
    <3> QED
      BY ONLY <3>1
  <2>11. CASE SaveReviewTransaction
    <3>1. Starts("posting", review.of, review.of, {"load", "review", "detail"})
      BY <1>2, <2>11 DEF SaveReviewTransaction
    <3> QED
      BY ONLY <3>1
  <2>12. CASE SaveAllocationDetail
    <3>1. Starts("posting", detail.of, detail.of, {"load", "review", "detail"})
      BY <1>2, <2>12 DEF SaveAllocationDetail
    <3> QED
      BY ONLY <3>1
  <2>13. CASE SubmitAllocationDetailTransaction
    <3>1. Starts("posting", monthKey, detail.of, {"load", "review", "detail"})
      BY <1>2, <2>13 DEF SubmitAllocationDetailTransaction
    <3> QED
      BY ONLY <3>1
  <2>14. CASE DeleteTransaction
    <3>1. Starts("posting", Rows, Rows, Loaders)
      BY <1>2, <2>14 DEF DeleteTransaction
    <3> QED
      BY ONLY <3>1
  <2>15. CASE SubmitSplit
    <3>1. Starts("split", modals.split, modals.split, Loaders)
      BY <1>2, <2>15 DEF SubmitSplit
    <3> QED
      BY ONLY <3>1
  <2>16. CASE OpenSplitDetail
    <3>1. Starts("splitDetail", Rows, Rows, {})
      BY <1>2, <2>16 DEF OpenSplitDetail
    <3> QED
      BY ONLY <3>1
  <2>17. CASE CloseMonth
    <3>1. Starts("close", monthKey, monthKey, {"load", "reports"})
      BY <1>2, <2>17 DEF CloseMonth
    <3> QED
      BY ONLY <3>1
  <2>18. CASE ReopenMonth
    <3>1. Starts("reopen", monthKey, monthKey, {"load", "reports"})
      BY <1>2, <2>18 DEF ReopenMonth
    <3> QED
      BY ONLY <3>1
  <2>19. CASE SubmitCreateMonth
    <3>1. Starts("preview", monthKey, monthKey, {})
      BY <1>2, <2>19 DEF SubmitCreateMonth
    <3> QED
      BY ONLY <3>1
  <2>20. CASE ConfirmCreateMonth
    <3>1. Starts("create", preview, preview, {"load"})
      BY <1>2, <2>20 DEF ConfirmCreateMonth
    <3> QED
      BY ONLY <3>1
  <2>21. CASE SaveBookMonthEdit
    <3>1. Starts("bookEdit", bookEdit.of, bookEdit.of, {"load", "reports"})
      BY <1>2, <2>21 DEF SaveBookMonthEdit
    <3> QED
      BY ONLY <3>1
  <2>22. CASE ReopenBookMonth
    <3>1. Starts("bookReopen", bookEdit.of, bookEdit.of, {"load", "reports"})
      BY <1>2, <2>22 DEF ReopenBookMonth
    <3> QED
      BY ONLY <3>1
  <2>23. CASE ConfirmDeleteBookMonth
    <3>1. Starts("delete", deleteTarget, deleteTarget, {"load", "reports"})
      BY <1>2, <2>23 DEF ConfirmDeleteBookMonth
    <3> QED
      BY ONLY <3>1
  <2> QED
    BY <2>1, <2>2, <2>3, <2>4, <2>5, <2>6, <2>7, <2>8, <2>9, <2>10, <2>11, <2>12, <2>13, <2>14, <2>15, <2>16, <2>17, <2>18, <2>19, <2>20, <2>21, <2>22, <2>23, UserWrites, Zenon DEF UserWrites
<1>4. PICK kind, at, row, after : Starts(kind, at, row, after)
  BY <1>3
<1>5. ~Saving /\ at \in Months /\ Begin(kind, at, row, after)
  BY <1>1, <1>4
<1> QED
  BY <1>4, <1>5

-----------------------------------------------------------------------------
(* What a well-formed read is depends on the visit alone.                  *)
LEMMA LoadsStay ==
  ASSUME use' = use, NEW ls, LoadsTyped(ls)
  PROVE  LoadsTyped(ls)'
BY DEF LoadsTyped, LoadTyped, Watched, Scope

(* Reads sent for well-formed asks are well formed, and so are those they  *)
(* make old.                                                               *)
LEMMA SendTyped ==
  ASSUME PageTyped, NEW ls, LoadsTyped(ls), NEW own \in BOOLEAN,
         NEW asks, \A a \in asks : a.what \in Watched /\ a.of \in Months
  PROVE  LoadsTyped(Send(ls, asks, own))
<1>1. \A a \in asks : LoadTyped(Request(a, own))
  <2> TAKE a \in asks
  <2>1. Scope(a.what, a.of) \subseteq Months
    BY DEF Scope
  <2>2. [m \in Scope(a.what, a.of) |-> status[m]] \in [Scope(a.what, a.of) -> Status]
    BY <2>1, PageIs DEF PageRead
  <2> QED
    BY <2>2 DEF Request, LoadTyped
<1>2. ASSUME NEW l \in ls, NEW b \in BOOLEAN
      PROVE  LoadTyped([l EXCEPT !.old = b])
  BY <1>2 DEF LoadsTyped, LoadTyped
<1>3. ASSUME NEW l \in ls
      PROVE  LoadTyped([l EXCEPT !.old = @ \/ \E a \in asks : a.what = l.what])
  <2>1. (l.old \/ \E a \in asks : a.what = l.what) \in BOOLEAN
    OBVIOUS
  <2> QED
    BY <1>2, <1>3, <2>1
<1> QED
  BY <1>1, <1>3 DEF Send, LoadsTyped

(* A handler reloads something it has still to reload, the load first.     *)
LEMMA NextReloadIn ==
  ASSUME NEW todo \in SUBSET Loaders, todo # {}
  PROVE  NextReload(todo) \in todo /\ ("load" \in todo => NextReload(todo) = "load")
<1> DEFINE first(w) == \A v \in todo :
             w = v \/ w = "load" \/ (w = "review" /\ v # "load") \/ (w = "detail" /\ v = "reports")
<1>1. \E w \in todo : first(w)
  <2>1. CASE "load" \in todo
    BY <2>1
  <2>2. CASE "load" \notin todo /\ "review" \in todo
    BY <2>2
  <2>3. CASE "load" \notin todo /\ "review" \notin todo /\ "detail" \in todo
    <3>1. \A v \in todo : v = "detail" \/ v = "reports"
      BY <2>3 DEF Loaders
    <3> QED
      BY <2>3, <3>1
  <2>4. CASE "load" \notin todo /\ "review" \notin todo /\ "detail" \notin todo
    <3>1. \A v \in todo : v = "reports"
      BY <2>4 DEF Loaders
    <3> QED
      BY <3>1
  <2> QED
    BY <2>1, <2>2, <2>3, <2>4
<1>2. NextReload(todo) \in todo /\ first(NextReload(todo))
  BY <1>1 DEF NextReload
<1> QED
  BY <1>2

(* What a handler goes on to: its next reload, or nothing.                 *)
LEMMA ContinueTyped ==
  ASSUME PageTyped, use' = use, NEW ls, LoadsTyped(ls),
         NEW todo, todo \subseteq op.todo \/ (todo = {"load"} /\ Saving), Continue(todo, ls)
  PROVE  OpTyped' /\ LoadsTyped(loads)'
<1>0. Watched' = Watched
  BY DEF Watched
<1>1. CASE todo = {}
  <2>1. op' = NoOp /\ loads' = ls
    BY <1>1 DEF Continue
  <2> QED
    BY <2>1, LoadsStay DEF OpTyped
<1>2. CASE todo # {}
  <2> DEFINE w == NextReload(todo)
             a == Ask(w, IF w = "detail" THEN op.detailOf ELSE op.key)
  <2>1. OpTyped /\ op # NoOp
    BY <1>2, PageIs DEF PageRead, NoOp, Saving
  <2>2. todo \subseteq Watched /\ todo \subseteq Loaders /\ ("detail" \in todo => op.detailOf \in Months)
    <3>1. "load" \in Watched /\ Watched \subseteq Loaders
      BY DEF Watched, Loaders
    <3> QED
      BY <2>1, <3>1 DEF OpTyped
  <2>3. w \in todo
    BY <1>2, <2>2, NextReloadIn
  <2>4. a.what = w /\ a.of \in Months
    BY <2>1, <2>2, <2>3 DEF Ask, OpTyped
  <2>5. op' = [op EXCEPT !.phase = "reload", !.todo = todo] /\ loads' = Send(ls, {a}, TRUE)
    BY <1>2 DEF Continue
  <2>6. OpTyped'
    <3>1. /\ DOMAIN op' = DOMAIN op /\ op'.kind = op.kind /\ op'.at = op.at /\ op'.row = op.row
          /\ op'.key = op.key /\ op'.detailOf = op.detailOf /\ op'.rows = op.rows
          /\ op'.phase = "reload" /\ op'.todo = todo
      BY <2>1, <2>5 DEF OpTyped
    <3> QED
      BY <1>0, <2>1, <2>2, <3>1 DEF OpTyped
  <2> HIDE DEF a
  <2>7. LoadsTyped(loads')
    <3>1. \A b \in {a} : b.what \in Watched /\ b.of \in Months
      BY <2>2, <2>3, <2>4
    <3> QED
      BY <2>5, <3>1, SendTyped
  <2>8. LoadsTyped(loads)'
    BY <1>0, <2>7 DEF LoadsTyped, LoadTyped, Scope
  <2> QED
    BY <2>6, <2>8
<1> QED
  BY <1>1, <1>2

-----------------------------------------------------------------------------
(* A step that leaves the handler alone leaves it well formed.             *)
LEMMA SameOp ==
  ASSUME PageTyped, use' = use, op' = op
  PROVE  OpTyped'
BY PageIs DEF PageRead, OpTyped, Watched, NoOp

(* A write that begins: its handler reloads only what the visit looks at.  *)
LEMMA BeginTyped ==
  ASSUME PageTyped, acts' \in Nat,
         NEW kind \in Kinds, NEW at \in Months, NEW row \in Months \cup {None},
         NEW after \in SUBSET Loaders, kind = "delete" => "load" \in after,
         Begin(kind, at, row, after)
  PROVE  PageTyped'
<1>1. PageRead
  BY PageIs
<1>2. use' = use /\ loads' = loads
  BY DEF Begin
<1>3. LoadsTyped(loads)'
  BY <1>1, <1>2, LoadsStay DEF PageRead, LoadsTyped, LoadTyped, Watched, Scope
<1>4. DEFINE todo == {w \in after : /\ w = "review" => section = "review" /\ summary.of # None
                                    /\ w = "detail" => section = "review" /\ detailId # None
                                    /\ w = "reports" => section = "reports"}
<1>5. /\ DOMAIN op' = {"kind", "at", "row", "key", "detailOf", "rows", "phase", "todo"}
      /\ op'.kind = kind /\ op'.at = at /\ op'.row = row /\ op'.key = monthKey
      /\ op'.detailOf = detailId /\ op'.phase = "sent" /\ op'.todo = todo
      /\ op'.rows = IF kind = "delete" THEN book.rows ELSE {}
  BY DEF Begin
<1>6. todo \subseteq Watched /\ ("detail" \in todo => detailId \in Months)
      /\ ("load" \in after => "load" \in todo)
  BY <1>1 DEF PageRead, Watched, Loaders
<1> HIDE DEF todo
<1>7. OpTyped'
  <2>1. op'.rows \subseteq Months
    BY <1>1, <1>5 DEF PageRead
  <2>2. detailId \in Months \cup {None} /\ monthKey \in Months /\ Watched' = Watched
    BY <1>1, <1>2 DEF PageRead, Watched
  <2> QED
    BY <1>5, <1>6, <2>1, <2>2 DEF OpTyped
<1>8. doubt' \subseteq Watched'
  BY <1>1, <1>2 DEF Begin, PageRead, Watched
<1> QED
  BY <1>1, <1>3, <1>7, <1>8, PageIsNext DEF Begin, PageRead, pageVars

(* Another month or section, with the reads its effects send.              *)
LEMMA GotoTyped ==
  ASSUME PageTyped, use' = use, NEW m \in Months, NEW s \in use \cap Sections, Goto(m, s)
  PROVE  /\ monthKey' \in Months /\ section' \in use' \cap Sections /\ detailId' \in Months \cup {None}
         /\ loading' \in BOOLEAN /\ LoadsTyped(loads)' /\ doubt' \subseteq Watched'
<1>1. PageRead
  BY PageIs
<1> DEFINE moved == m # monthKey
           flips == (s = "settings") # (section = "settings")
           enter(t) == s = t /\ (section # t \/ moved)
           id == IF s = "review" /\ detailId = None THEN summary.of ELSE detailId
           asks == {a \in {Ask("load", m)} : moved \/ flips}
              \cup {a \in {Ask("review", m)} : enter("review") /\ summary.of # None}
              \cup {a \in {Ask("detail", id)} :
                       /\ s = "review" /\ id # None
                       /\ section # "review" \/ id # detailId}
              \cup {a \in {Ask("reports", m)} : enter("reports")}
<1>2. /\ monthKey' = m /\ section' = s /\ detailId' = id
      /\ loading' = (loading \/ moved \/ flips)
      /\ loads' = Send(loads, asks, FALSE)
      /\ doubt' \subseteq doubt \cup Watched
  BY Zenon DEF Goto
<1>3. id \in Months \cup {None}
  BY <1>1 DEF PageRead, Views
<1>4. \A a \in asks : a.what \in Watched /\ a.of \in Months
  BY <1>3 DEF Ask, Watched
<1> HIDE DEF asks, id
<1>5. LoadsTyped(loads')
  BY <1>1, <1>2, <1>4, SendTyped DEF PageRead
<1>6. LoadsTyped(loads)'
  BY <1>5 DEF LoadsTyped, LoadTyped, Watched, Scope
<1>7. doubt' \subseteq Watched'
  BY <1>1, <1>2 DEF PageRead, Watched
<1> QED
  BY <1>2, <1>3, <1>6, <1>7

(* Whatever the user does that writes nothing.                             *)
LEMMA MovesTyped ==
  ASSUME PageTyped, acts' \in Nat, UserMoves \/ NoticeExpires
  PROVE  PageTyped'
<1>1. PageRead
  BY PageIs
<1>2. section \in use \cap Sections
  BY <1>1 DEF PageRead
<1>3. ASSUME NEW m \in Months, SwitchMonth(m) PROVE PageTyped'
  BY <1>1, <1>2, <1>3, GotoTyped, SameOp, PageIsNext DEF SwitchMonth, PageRead
<1>4. ASSUME NEW s \in Sections, Navigate(s) PROVE PageTyped'
  BY <1>1, <1>4, GotoTyped, SameOp, PageIsNext DEF Navigate, PageRead
<1>5. ASSUME NEW m \in Months, NEW s \in Sections, ViewBookMonth(m, s) PROVE PageTyped'
  <2>1. NoView \in Views
    BY DEF NoView, Views, None
  <2> QED
    BY <1>1, <1>5, <2>1, GotoTyped, SameOp, PageIsNext DEF ViewBookMonth, PageRead
<1>6. ASSUME NEW open \in BOOLEAN, NEW edit \in Views, NEW target \in Months \cup {None},
             Book(open, edit, target)
      PROVE  PageTyped'
  <2>1. LoadsTyped(loads)' /\ OpTyped' /\ Watched' = Watched
    BY <1>1, <1>6, SameOp DEF Book, PageRead, LoadsTyped, LoadTyped, Watched, Scope
  <2> QED
    BY <1>1, <1>6, <2>1, PageIsNext DEF Book, PageRead
<1>7. NoView \in Views /\ bookEdit \in Views /\ bookOpen \in BOOLEAN
      /\ deleteTarget \in Months \cup {None}
  BY <1>1 DEF NoView, Views, None, PageRead
<1>8. ASSUME NEW m \in Months, EditBookMonth(m) \/ RequestDeleteBookMonth(m) PROVE PageTyped'
  <2>1. [of |-> m, closed |-> m \in book.closed, fresh |-> FALSE] \in Views
    BY DEF Views
  <2> QED
    BY <1>6, <1>7, <1>8, <2>1 DEF EditBookMonth, RequestDeleteBookMonth
<1>9. CASE OpenMonthBook \/ CloseMonthBook \/ CancelDeleteBookMonth
  BY <1>6, <1>7, <1>9 DEF OpenMonthBook, CloseMonthBook, CancelDeleteBookMonth
<1>10. ASSUME NEW asks, \A a \in asks : a.what \in Watched /\ a.of \in Months,
              NEW spins \in BOOLEAN, SendOnly(asks, spins)
       PROVE  PageTyped'
  <2>1. LoadsTyped(loads')
    BY <1>1, <1>10, SendTyped DEF PageRead, SendOnly
  <2>2. LoadsTyped(loads)' /\ OpTyped' /\ Watched' = Watched
    BY <1>10, <2>1, SameOp DEF SendOnly, LoadsTyped, LoadTyped, Watched, Scope
  <2> QED
    BY <1>1, <1>10, <2>2, PageIsNext DEF SendOnly, PageRead
<1>11. CASE Refresh \/ ReloadReview \/ ReloadReports
  <2>1. monthKey \in Months
    BY <1>1 DEF PageRead
  <2>2. CASE Refresh
    <3>1. \A a \in {Ask("load", monthKey)} : a.what \in Watched /\ a.of \in Months
      BY <2>1 DEF Ask, Watched
    <3> QED
      BY <1>10, <2>2, <3>1 DEF Refresh
  <2>3. CASE ReloadReview
    <3>1. \A a \in {Ask("review", monthKey)} : a.what \in Watched /\ a.of \in Months
      BY <1>2, <2>1, <2>3 DEF Ask, Watched, ReloadReview
    <3> QED
      BY <1>10, <2>3, <3>1 DEF ReloadReview
  <2>4. CASE ReloadReports
    <3>1. \A a \in {Ask("reports", monthKey)} : a.what \in Watched /\ a.of \in Months
      BY <1>2, <2>1, <2>4 DEF Ask, Watched, ReloadReports
    <3> QED
      BY <1>10, <2>4, <3>1 DEF ReloadReports
  <2> QED
    BY <1>11, <2>2, <2>3, <2>4
<1>12. CASE ChooseDetail
  <2>1. \A a \in {Ask("detail", summary.of)} : a.what \in Watched /\ a.of \in Months
    BY <1>1, <1>2, <1>12 DEF Ask, Watched, ChooseDetail, PageRead, Views
  <2>2. LoadsTyped(loads')
    BY <1>1, <1>12, <2>1, SendTyped DEF PageRead, ChooseDetail
  <2>3. LoadsTyped(loads)' /\ OpTyped' /\ Watched' = Watched
    BY <1>12, <2>2, SameOp DEF ChooseDetail, LoadsTyped, LoadTyped, Watched, Scope
  <2>4. detailId' \in Months \cup {None}
    BY <1>1, <1>12 DEF ChooseDetail, PageRead, Views
  <2> QED
    BY <1>1, <1>12, <2>3, <2>4, PageIsNext DEF ChooseDetail, PageRead
<1>13. CASE ChooseAllocation \/ CancelPreview \/ NoticeExpires
  <2>1. LoadsTyped(loads)' /\ OpTyped' /\ Watched' = Watched
    BY <1>1, <1>13, SameOp DEF ChooseAllocation, CancelPreview, NoticeExpires, PageRead,
       LoadsTyped, LoadTyped, Watched, Scope
  <2>2. summary.of \in Months \cup {None}
    BY <1>1 DEF PageRead, Views
  <2> QED
    BY <1>1, <1>13, <2>1, <2>2, PageIsNext
    DEF ChooseAllocation, CancelPreview, NoticeExpires, PageRead
<1>14. CASE OpenReconcile \/ CloseReconcile \/ OpenSplitModal \/ CloseSplitModal
  <2>1. PICK now \in [reconcile : BOOLEAN, split : Months \cup {None}] : Modals(now)
    <3>1. Rows \in Months \cup {None}
      BY <1>1 DEF PageRead, Views, Rows
    <3> QED
      BY <1>1, <1>14, <3>1 DEF OpenReconcile, CloseReconcile, OpenSplitModal, CloseSplitModal, PageRead
  <2>2. LoadsTyped(loads)' /\ OpTyped' /\ Watched' = Watched
    BY <1>1, <2>1, SameOp DEF Modals, PageRead, LoadsTyped, LoadTyped, Watched, Scope
  <2> QED
    BY <1>1, <2>1, <2>2, PageIsNext DEF Modals, PageRead
<1> QED
  BY <1>3, <1>4, <1>5, <1>8, <1>9, <1>11, <1>12, <1>13, <1>14, UserMoves \/ NoticeExpires, Zenon
  DEF UserMoves

-----------------------------------------------------------------------------
(* A set of months that is not empty has a last one: the month shown after *)
(* a deletion.                                                             *)
LEMMA LastMonth ==
  ASSUME NEW left \in SUBSET Months, left # {}
  PROVE  \E m \in left : \A n \in left : n <= m
<1>1. left \in SUBSET Nat /\ IsFiniteSet(left)
  BY MonthsAssumption, FS_Subset
<1> QED
  BY <1>1, LargestOf

(* A view that goes stale is still a view, a read still a read.            *)
LEMMA OutdateTyped ==
  /\ \A v \in Views, b \in BOOLEAN : Outdate(v, b) \in Views
  /\ \A v \in [rows : SUBSET Months, closed : SUBSET Months, fresh : BOOLEAN], b \in BOOLEAN :
       Outdate(v, b) \in [rows : SUBSET Months, closed : SUBSET Months, fresh : BOOLEAN]
  /\ \A l, b : b \in BOOLEAN /\ LoadTyped(l) => LoadTyped(Outdate(l, b))
<1>1. \A v \in Views, b \in BOOLEAN : Outdate(v, b) \in Views
  BY DEF Outdate, Views
<1>2. \A v \in [rows : SUBSET Months, closed : SUBSET Months, fresh : BOOLEAN], b \in BOOLEAN :
       Outdate(v, b) \in [rows : SUBSET Months, closed : SUBSET Months, fresh : BOOLEAN]
  BY DEF Outdate
<1>3. \A l, b : b \in BOOLEAN /\ LoadTyped(l) => LoadTyped(Outdate(l, b))
  BY DEF Outdate, LoadTyped
<1> QED
  BY <1>1, <1>2, <1>3

(* The server carries a call out or refuses it.                            *)
LEMMA ServeTyped ==
  ASSUME PageTyped, acts' = acts, Serve
  PROVE  PageTyped'
<1>1. PageRead /\ use' = use /\ Watched' = Watched
  BY PageIs DEF Serve, Watched
<1>3. ASSUME NEW p \in {"refused", "done"}, op' = [op EXCEPT !.phase = p] PROVE OpTyped'
  <2>1. op # NoOp /\ OpTyped /\ op.phase = "sent"
    BY <1>1 DEF PageRead, Serve, Saving
  <2>2. /\ DOMAIN op' = DOMAIN op /\ op'.kind = op.kind /\ op'.at = op.at /\ op'.row = op.row
        /\ op'.key = op.key /\ op'.detailOf = op.detailOf /\ op'.rows = op.rows
        /\ op'.phase = p /\ op'.todo = op.todo
    BY <1>3, <2>1 DEF OpTyped
  <2> QED
    BY <1>1, <2>1, <2>2 DEF OpTyped
<1>4. CASE Accepts(op)
  <2>1. op' = [op EXCEPT !.phase = "done"] /\ status' = [status EXCEPT ![op.at] = Written(op)]
    BY <1>4, Zenon DEF Serve
  <2>2. status' \in [Months -> Status]
    <3>1. op # NoOp /\ OpTyped
      BY <1>1 DEF PageRead, Serve, Saving
    <3>2. Written(op) \in Status
      BY <1>1, <3>1 DEF Written, Status, PageRead, OpTyped
    <3> QED
      BY <1>1, <2>1, <3>2 DEF PageRead
  <2>3. /\ summary' \in Views /\ review' \in Views /\ detail' \in Views /\ reports' \in Views
        /\ book' \in [rows : SUBSET Months, closed : SUBSET Months, fresh : BOOLEAN]
    <3> DEFINE touched == Touched(op.kind)
    <3>1. /\ summary' = Outdate(summary, "load" \in touched /\ summary.of = op.at)
          /\ book' = Outdate(book, "load" \in touched)
          /\ review' = Outdate(review, "review" \in touched /\ review.of = op.at)
          /\ detail' = Outdate(detail, "detail" \in touched /\ detail.of = op.at)
          /\ reports' = Outdate(reports, "reports" \in touched)
      BY <1>4 DEF Serve
    <3> HIDE DEF touched
    <3>2. /\ ("load" \in touched /\ summary.of = op.at) \in BOOLEAN
          /\ ("load" \in touched) \in BOOLEAN
          /\ ("review" \in touched /\ review.of = op.at) \in BOOLEAN
          /\ ("detail" \in touched /\ detail.of = op.at) \in BOOLEAN
          /\ ("reports" \in touched) \in BOOLEAN
      OBVIOUS
    <3>3. /\ summary \in Views /\ review \in Views /\ detail \in Views /\ reports \in Views
          /\ book \in [rows : SUBSET Months, closed : SUBSET Months, fresh : BOOLEAN]
      BY <1>1 DEF PageRead
    <3> QED
      BY <3>1, <3>2, <3>3, OutdateTyped, Zenon
  <2>4. LoadsTyped(loads')
    <3>1. PICK t : t = Touched(op.kind)
      OBVIOUS
    <3> DEFINE hit(l) == /\ l.what \in t
                         /\ l.of = op.at \/ l.what \in {"load", "reports"}
    <3>2. loads' = {Outdate(l, hit(l)) : l \in loads}
      BY <1>4, <3>1, Zenon DEF Serve
    <3>3. \A l \in loads : LoadTyped(l)
      BY <1>1 DEF PageRead, LoadsTyped
    <3>4. \A l : hit(l) \in BOOLEAN
      OBVIOUS
    <3> HIDE DEF hit
    <3> QED
      BY <3>2, <3>3, <3>4, OutdateTyped DEF LoadsTyped
  <2>5. LoadsTyped(loads)'
    BY <1>1, <2>4 DEF LoadsTyped, LoadTyped, Scope
  <2> QED
    BY <1>1, <1>3, <2>1, <2>2, <2>3, <2>5, PageIsNext DEF PageRead, Serve
<1>5. CASE ~Accepts(op)
  <2>1. op' = [op EXCEPT !.phase = "refused"]
        /\ UNCHANGED <<status, summary, book, review, detail, reports, loads>>
    BY <1>5, Zenon DEF Serve
  <2>2. LoadsTyped(loads)'
    BY <1>1, <2>1 DEF PageRead, LoadsTyped, LoadTyped, Scope
  <2> QED
    BY <1>1, <1>3, <2>1, <2>2, PageIsNext DEF PageRead, Serve
<1> QED
  BY <1>4, <1>5

(* A call that failed.                                                     *)
LEMMA CallFailsTyped ==
  ASSUME PageTyped, acts' = acts, CallFails
  PROVE  PageTyped'
<1>1. PageRead /\ use' = use /\ Watched' = Watched
  BY PageIs DEF CallFails, Watched
<1>2. OpTyped'
  BY DEF CallFails, OpTyped
<1>3. LoadsTyped(loads)'
  BY <1>1 DEF CallFails, PageRead, LoadsTyped, LoadTyped, Scope
<1>4. faults' \in Nat /\ doubt' \subseteq Watched /\ notice' \in Months \cup {None}
  BY <1>1 DEF CallFails, PageRead
<1> QED
  BY <1>1, <1>2, <1>3, <1>4, PageIsNext DEF CallFails, PageRead

(* A call that succeeded, other than a deletion.                           *)
LEMMA CallSucceedsTyped ==
  ASSUME PageTyped, acts' = acts, CallSucceeds
  PROVE  PageTyped'
<1>1. PageRead /\ use' = use /\ Watched' = Watched
  BY PageIs DEF CallSucceeds, Watched
<1>2. op # NoOp /\ op.at \in Months
  BY <1>1 DEF CallSucceeds, PageRead, OpTyped, NoOp
<1>3. OpTyped' /\ LoadsTyped(loads)'
  BY <1>1, ContinueTyped DEF CallSucceeds, PageRead
<1>4. preview' \in Months \cup {None} /\ notice' \in Months \cup {None}
  BY <1>1, <1>2 DEF CallSucceeds, PageRead
<1>5. bookEdit' \in Views
  BY <1>1 DEF CallSucceeds, PageRead, Views, NoView, None
<1>6. loading' \in BOOLEAN
  BY <1>1 DEF CallSucceeds, PageRead
<1>7. modals' \in [reconcile : BOOLEAN, split : Months \cup {None}]
  <2>1. modals' \in {modals, [modals EXCEPT !.reconcile = FALSE], [modals EXCEPT !.split = None]}
    BY DEF CallSucceeds
  <2> QED
    BY <1>1, <2>1 DEF PageRead
<1> QED
  BY <1>1, <1>3, <1>4, <1>5, <1>6, <1>7, PageIsNext DEF CallSucceeds, PageRead

-----------------------------------------------------------------------------
(* A deletion that succeeded: the month it falls back to is one of the     *)
(* page's.                                                                 *)
LEMMA DeleteSucceedsTyped ==
  ASSUME PageTyped, acts' = acts, DeleteSucceeds
  PROVE  PageTyped'
<1>1. PageRead /\ use' = use /\ Watched' = Watched
  BY PageIs DEF DeleteSucceeds, Watched
<1>2. op # NoOp /\ OpTyped
  BY <1>1 DEF DeleteSucceeds, PageRead, NoOp
<1> DEFINE left == op.rows \ {op.at}
           shown == op.at = op.key
           next == IF left = {} THEN ThisMonth ELSE CHOOSE m \in left : \A n \in left : n <= m
           moved == shown /\ next # monthKey
           asks == {a \in {Ask("load", next)} : moved}
                     \cup {a \in {Ask("reports", next)} : moved /\ section = "reports"}
           todo == IF ~shown THEN op.todo ELSE IF next = op.key THEN {"load"} ELSE {}
<1>3. /\ book' = [rows |-> left, closed |-> book.closed \cap left, fresh |-> FALSE]
      /\ monthKey' = IF shown THEN next ELSE monthKey
      /\ summary' = IF shown THEN NoView ELSE summary
      /\ Continue(todo, Send(loads, asks, FALSE))
      /\ loading' = (loading \/ moved \/ ~shown \/ next = op.key)
      /\ doubt' \subseteq doubt \cup Watched
  BY Zenon DEF DeleteSucceeds
<1>4. left \subseteq Months
  BY <1>2 DEF OpTyped
<1>5. next \in Months
  BY <1>4, LastMonth, MonthsAssumption
<1>6. \A a \in asks : a.what \in Watched /\ a.of \in Months
  <2>1. \A a \in asks : a = Ask("load", next) \/ (a = Ask("reports", next) /\ section = "reports")
    BY Zenon
  <2>2. "load" \in Watched /\ (section = "reports" => "reports" \in Watched)
    BY <1>1 DEF Watched, PageRead
  <2> HIDE DEF asks, next
  <2> QED
    BY <1>5, <2>1, <2>2 DEF Ask
<1>7. todo \subseteq op.todo \/ (todo = {"load"} /\ Saving)
  BY <1>2 DEF Saving
<1> HIDE DEF left, next, asks, todo
<1>8. OpTyped' /\ LoadsTyped(loads)'
  <2>1. LoadsTyped(Send(loads, asks, FALSE))
    BY <1>1, <1>6, SendTyped DEF PageRead
  <2> QED
    BY <1>1, <1>3, <1>7, <2>1, ContinueTyped
<1>9. book' \in [rows : SUBSET Months, closed : SUBSET Months, fresh : BOOLEAN]
  BY <1>3, <1>4
<1>10. NoView \in Views
  BY DEF NoView, Views, None
<1>11. /\ monthKey' \in Months /\ summary' \in Views /\ loading' \in BOOLEAN
       /\ doubt' \subseteq Watched
  BY <1>1, <1>3, <1>5, <1>10 DEF PageRead
<1> QED
  BY <1>1, <1>8, <1>9, <1>10, <1>11, PageIsNext DEF DeleteSucceeds, PageRead

(* A handler that awaited the read that ended goes on.                     *)
LEMMA ProceedTyped ==
  ASSUME PageTyped, use' = use, NEW l \in loads, NEW ls, LoadsTyped(ls), Proceed(l, ls)
  PROVE  OpTyped' /\ LoadsTyped(loads)'
<1>1. CASE l.own
  BY <1>1, ContinueTyped DEF Proceed
<1>2. CASE ~l.own
  BY <1>2, SameOp, LoadsStay DEF Proceed, LoadsTyped, LoadTyped, Watched, Scope
<1> QED
  BY <1>1, <1>2

(* An answer casts doubt on its own view at most.                          *)
LEMMA DoubtTyped ==
  ASSUME PageTyped, NEW l \in loads, NEW fresh
  PROVE  DoubtAfter(l, fresh) \subseteq Watched
BY PageIs DEF PageRead, LoadsTyped, LoadTyped, DoubtAfter

(* What a read finds is fresh or it is not.                                *)
LEMMA ReadsTyped ==
  ASSUME NEW l, LoadTyped(l), NEW v \in Reads(l)
  PROVE  v.fresh \in BOOLEAN
<1>1. l.fresh \in BOOLEAN
  BY DEF LoadTyped
<1>2. v = [seen |-> l.seen, fresh |-> l.fresh] \/ v = [seen |-> status, fresh |-> TRUE]
  BY Zenon DEF Reads
<1>3. v.fresh = l.fresh \/ v.fresh = TRUE
  BY ONLY <1>2
<1> QED
  BY <1>1, <1>3

(* The load answers.                                                       *)
LEMMA LoadAnswersTyped ==
  ASSUME PageTyped, acts' = acts, NEW l \in loads, LoadAnswers(l)
  PROVE  PageTyped'
<1>1. PageRead /\ use' = use /\ Watched' = Watched
  BY PageIs DEF LoadAnswers, Watched
<1>2. LoadTyped(l) /\ l.what = "load"
  BY <1>1 DEF LoadAnswers, PageRead, LoadsTyped
<1>3. PICK v \in Reads(l) :
        LET found == Exists(v.seen[l.of])
            id    == IF section = "review" /\ detailId = None /\ found THEN l.of ELSE detailId
        IN  /\ summary' = IF found THEN [of |-> l.of, closed |-> v.seen[l.of] = "closed", fresh |-> v.fresh]
                          ELSE NoView
            /\ book' = [rows |-> Existing(v.seen), closed |-> ClosedOf(v.seen), fresh |-> v.fresh]
            /\ preview' = IF found THEN None ELSE preview
            /\ formRow' = IF found /\ formRow = None THEN l.of ELSE formRow
            /\ detailId' = id
            /\ Proceed(l, Send(loads \ {l},
                   {a \in {Ask("review", monthKey)} : section = "review" /\ found}
                   \cup {a \in {Ask("detail", id)} : id # detailId}, FALSE))
            /\ doubt' = DoubtAfter(l, v.fresh)
  BY DEF LoadAnswers
<1>4. v.fresh \in BOOLEAN
  BY <1>2, <1>3, ReadsTyped
<1> DEFINE found == Exists(v.seen[l.of])
           id == IF section = "review" /\ detailId = None /\ found THEN l.of ELSE detailId
           asks == {a \in {Ask("review", monthKey)} : section = "review" /\ found}
                   \cup {a \in {Ask("detail", id)} : id # detailId}
<1>5. /\ summary' \in Views /\ preview' \in Months \cup {None} /\ formRow' \in Months \cup {None}
      /\ detailId' = id /\ doubt' \subseteq Watched
      /\ Proceed(l, Send(loads \ {l}, asks, FALSE))
  <2>1. NoView \in Views
    BY DEF NoView, Views, None
  <2>2. [of |-> l.of, closed |-> v.seen[l.of] = "closed", fresh |-> v.fresh] \in Views
    BY <1>2, <1>4 DEF LoadTyped, Views
  <2>3. summary' \in Views
    BY <1>3, <2>1, <2>2
  <2>4. preview' \in Months \cup {None} /\ formRow' \in Months \cup {None}
    BY <1>1, <1>2, <1>3 DEF LoadTyped, PageRead
  <2>5. doubt' \subseteq Watched
    BY <1>3, DoubtTyped
  <2> QED
    BY <1>3, <2>3, <2>4, <2>5
<1>6. book' \in [rows : SUBSET Months, closed : SUBSET Months, fresh : BOOLEAN]
  BY <1>3, <1>4 DEF Existing, ClosedOf
<1>7. id \in Months \cup {None} /\ (id # detailId => id \in Months /\ section = "review")
  BY <1>1, <1>2 DEF PageRead, LoadTyped
<1>8. \A a \in asks : a.what \in Watched /\ a.of \in Months
  BY <1>1, <1>7 DEF Ask, Watched, PageRead
<1> HIDE DEF found, id, asks
<1>9. OpTyped' /\ LoadsTyped(loads)'
  <2>1. LoadsTyped(loads \ {l})
    BY <1>1 DEF PageRead, LoadsTyped
  <2>2. LoadsTyped(Send(loads \ {l}, asks, FALSE))
    BY <1>8, <2>1, SendTyped
  <2> QED
    BY <1>1, <1>5, <2>2, ProceedTyped
<1> QED
  BY <1>1, <1>5, <1>6, <1>7, <1>9, PageIsNext DEF LoadAnswers, PageRead

(* The read of a view answers, or a read fails.                            *)
LEMMA ViewAnswersTyped ==
  ASSUME PageTyped, acts' = acts, NEW l \in loads, ViewAnswers(l) \/ LoadFails(l)
  PROVE  PageTyped'
<1>1. PageRead /\ use' = use /\ Watched' = Watched
  BY PageIs DEF ViewAnswers, LoadFails, Watched
<1>2. LoadTyped(l)
  BY <1>1 DEF PageRead, LoadsTyped
<1>3. OpTyped' /\ LoadsTyped(loads)'
  <2>1. LoadsTyped(loads \ {l})
    BY <1>1 DEF PageRead, LoadsTyped
  <2>2. Proceed(l, loads \ {l})
    BY DEF ViewAnswers, LoadFails
  <2> QED
    BY <1>1, <2>1, <2>2, ProceedTyped
<1>4. CASE ViewAnswers(l)
  <2>1. PICK v \in Reads(l) :
          LET view == [of |-> l.of, closed |-> FALSE, fresh |-> v.fresh] IN
          /\ l.what # "reports" => Exists(v.seen[l.of])
          /\ review' = IF l.what = "review" THEN view ELSE review
          /\ detail' = IF l.what = "detail" THEN view ELSE detail
          /\ reports' = IF l.what = "reports" THEN view ELSE reports
          /\ doubt' = DoubtAfter(l, v.fresh)
    BY <1>4, Zenon DEF ViewAnswers
  <2>2. [of |-> l.of, closed |-> FALSE, fresh |-> v.fresh] \in Views
    BY <1>2, <2>1, ReadsTyped DEF LoadTyped, Views
  <2>3. review' \in Views /\ detail' \in Views /\ reports' \in Views
    BY <1>1, <2>1, <2>2 DEF PageRead
  <2>4. doubt' \subseteq Watched
    BY <2>1, DoubtTyped
  <2> QED
    BY <1>1, <1>3, <1>4, <2>3, <2>4, PageIsNext DEF ViewAnswers, PageRead
<1>5. CASE LoadFails(l)
  <2>1. faults' \in Nat /\ doubt' \subseteq Watched /\ loading' \in BOOLEAN
    BY <1>1, <1>2, <1>5 DEF LoadFails, PageRead, LoadTyped
  <2> QED
    BY <1>1, <1>3, <1>5, <2>1, PageIsNext DEF LoadFails, PageRead
<1> QED
  BY <1>4, <1>5

(* The page as it is mounted.                                              *)
LEMMA InitTyped == Init => PageTyped
<1> SUFFICES ASSUME Init PROVE PageRead
  BY PageIs
<1>1. LoadsTyped({}) /\ NoView \in Views /\ OpTyped
  BY DEF LoadsTyped, NoView, Views, None, Init, OpTyped
<1>2. use \subseteq Sections \cup Tools /\ acts \in Nat /\ faults \in Nat /\ section \in use
  BY VisitsAssumption DEF Init
<1>3. status \in [Months -> Status] /\ monthKey \in Months /\ section \in Sections
  BY MonthsAssumption DEF Init, Status
<1>4. LoadsTyped(loads)
  <2> DEFINE asks == {Ask("load", monthKey)} \cup {a \in {Ask("reports", monthKey)} : section = "reports"}
  <2>1. loads = Send({}, asks, FALSE)
    BY DEF Init
  <2>2. \A a \in asks : a.what \in Watched /\ a.of \in Months
    BY <1>2, <1>3 DEF Ask, Watched
  <2> HIDE DEF asks
  <2>3. \A a \in asks : LoadTyped(Request(a, FALSE))
    <3> TAKE a \in asks
    <3>1. Scope(a.what, a.of) \subseteq Months
      BY <2>2 DEF Scope
    <3>2. [m \in Scope(a.what, a.of) |-> status[m]] \in [Scope(a.what, a.of) -> Status]
      BY <1>3, <3>1
    <3> QED
      BY <2>2, <3>2 DEF Request, LoadTyped
  <2> QED
    BY <2>1, <2>3 DEF Send, LoadsTyped
<1> QED
  BY <1>1, <1>2, <1>3, <1>4 DEF Init, PageRead

(* Every step keeps the page well formed.                                  *)
LEMMA NextTyped == PageTyped /\ [Next]_vars => PageTyped'
<1> SUFFICES ASSUME PageTyped, [Next]_vars PROVE PageTyped'
  OBVIOUS
<1>1. PageRead
  BY PageIs
<1>2. CASE UserActs
  <2>1. acts' \in Nat
    BY <1>1, <1>2 DEF UserActs, PageRead
  <2>2. CASE UserWrites
    <3>1. PICK kind \in Kinds, at \in Months, row \in Months \cup {None}, after \in SUBSET Loaders :
            Begin(kind, at, row, after) /\ Covers(kind, at, after)
      BY <2>2, Begins
    <3> QED
      BY <2>1, <3>1, BeginTyped DEF Covers
  <2> QED
    BY <1>2, <2>1, <2>2, MovesTyped DEF UserActs
<1>3. CASE SaveMoves
  BY <1>3, ServeTyped, CallSucceedsTyped, DeleteSucceedsTyped, CallFailsTyped
  DEF SaveMoves, CallAnswers
<1>4. CASE TimerFires
  BY <1>1, <1>4, MovesTyped DEF TimerFires, PageRead
<1>5. ASSUME NEW l \in loads, Answer(l) PROVE PageTyped'
  BY <1>5, LoadAnswersTyped, ViewAnswersTyped DEF Answer, AnswerLoad
<1>6. CASE UNCHANGED vars
  BY <1>6 DEF vars, pageVars, PageTyped, TypeOK, OpTyped, LoadsTyped, LoadTyped, Watched,
     Scope, NoOp
<1> QED
  BY <1>2, <1>3, <1>4, <1>5, <1>6 DEF Next

(* PageTyped is an invariant of the page.                                  *)
LEMMA AlwaysTyped == Spec => []PageTyped
  BY InitTyped, NextTyped, PTL DEF Spec

(* The page's state and every read and handler on the way are well formed. *)
THEOREM PageTypeCorrect == Spec => []TypeOK
<1>1. PageTyped => TypeOK
  BY DEF PageTyped
<1> QED
  BY <1>1, AlwaysTyped, PTL

-----------------------------------------------------------------------------
(* A load is on its way.                                                   *)
Spins(ls) == \E l \in ls : l.what = "load"

(* A load on its way stays on its way when others are sent, and an ask for *)
(* one is one.                                                             *)
LEMMA SendSpins ==
  ASSUME NEW ls, LoadsTyped(ls), NEW asks, NEW own,
         Spins(ls) \/ \E a \in asks : a.what = "load"
  PROVE  Spins(Send(ls, asks, own))
<1>1. CASE Spins(ls)
  <2>1. PICK l \in ls : l.what = "load"
    BY <1>1 DEF Spins
  <2> DEFINE kept == [l EXCEPT !.old = @ \/ \E a \in asks : a.what = l.what]
  <2>2. kept \in Send(ls, asks, own)
    BY Zenon DEF Send
  <2>3. kept.what = "load"
    BY <2>1 DEF LoadsTyped, LoadTyped
  <2> QED
    BY <2>2, <2>3 DEF Spins
<1>2. CASE \E a \in asks : a.what = "load"
  <2>1. PICK a \in asks : a.what = "load"
    BY <1>2
  <2>2. Request(a, own) \in Send(ls, asks, own) /\ Request(a, own).what = "load"
    BY <2>1 DEF Send, Request
  <2> QED
    BY <2>2 DEF Spins
<1> QED
  BY <1>1, <1>2

(* A handler with a load to reload sends it first.                         *)
LEMMA ContinueSpins ==
  ASSUME PageTyped, NEW ls, LoadsTyped(ls), NEW todo, todo \subseteq Loaders,
         Continue(todo, ls), Spins(ls) \/ "load" \in todo
  PROVE  Spins(loads')
<1>1. CASE todo = {}
  BY <1>1 DEF Continue
<1>2. CASE todo # {}
  <2> DEFINE w == NextReload(todo)
             a == Ask(w, IF w = "detail" THEN op.detailOf ELSE op.key)
  <2>1. loads' = Send(ls, {a}, TRUE) /\ a.what = w
    BY <1>2 DEF Continue, Ask
  <2>2. "load" \in todo => w = "load"
    BY <1>2, NextReloadIn
  <2> HIDE DEF w, a
  <2>3. Spins(ls) \/ \E b \in {a} : b.what = "load"
    BY <2>1, <2>2
  <2> QED
    BY <2>1, <2>3, SendSpins
<1> QED
  BY <1>1, <1>2

Spinning == loading => Spins(loads)

(* A read that ends takes the spinner with it when it is a load, and only  *)
(* then.                                                                   *)
LEMMA ReadsSpin ==
  ASSUME PageTyped, Spinning, NEW l \in loads, AnswerLoad(l)
  PROVE  Spinning'
<1>1. PageRead
  BY PageIs
<1>2. SUFFICES ASSUME loading' PROVE Spins(loads')
  BY DEF Spinning, Spins
<1>3. loading /\ l.what # "load" /\ Proceed(l, loads \ {l})
  BY <1>2 DEF AnswerLoad, LoadAnswers, ViewAnswers, LoadFails
<1>4. Spins(loads \ {l}) /\ LoadsTyped(loads \ {l})
  BY <1>1, <1>3 DEF Spinning, Spins, PageRead, LoadsTyped
<1>5. op.todo \ {l.what} \subseteq Loaders
  BY <1>1, OpRead DEF PageRead
<1> QED
  BY <1>3, <1>4, <1>5, ContinueSpins DEF Proceed

(* A change of month or section that sets the spinner sends the load.      *)
LEMMA GotoSpins ==
  ASSUME PageTyped, Spinning, NEW m, NEW s, Goto(m, s)
  PROVE  Spinning'
<1>1. PageRead
  BY PageIs
<1> DEFINE moved == m # monthKey
           flips == (s = "settings") # (section = "settings")
           enter(t) == s = t /\ (section # t \/ moved)
           id == IF s = "review" /\ detailId = None THEN summary.of ELSE detailId
           asks == {a \in {Ask("load", m)} : moved \/ flips}
              \cup {a \in {Ask("review", m)} : enter("review") /\ summary.of # None}
              \cup {a \in {Ask("detail", id)} :
                       /\ s = "review" /\ id # None
                       /\ section # "review" \/ id # detailId}
              \cup {a \in {Ask("reports", m)} : enter("reports")}
<1>2. loading' = (loading \/ moved \/ flips) /\ loads' = Send(loads, asks, FALSE)
  BY Zenon DEF Goto
<1>3. moved \/ flips => Ask("load", m) \in asks
  OBVIOUS
<1>4. Ask("load", m).what = "load"
  BY DEF Ask
<1> HIDE DEF moved, flips, asks
<1>5. loading' => Spins(loads')
  BY <1>1, <1>2, <1>3, <1>4, SendSpins DEF PageRead, Spinning
<1> QED
  BY <1>5 DEF Spinning, Spins

(* Whatever the user does that writes nothing.                             *)
LEMMA MovesSpin ==
  ASSUME PageTyped, Spinning, UserMoves \/ NoticeExpires
  PROVE  Spinning'
<1>1. PageRead
  BY PageIs
<1>2. ASSUME NEW m, NEW s, Goto(m, s) PROVE Spinning'
  BY <1>2, GotoSpins
<1>3. ASSUME NEW asks, NEW spins, SendOnly(asks, spins),
             spins => \E a \in asks : a.what = "load"
      PROVE  Spinning'
  <2>1. loading' => Spins(loads')
    BY <1>1, <1>3, SendSpins DEF SendOnly, PageRead, Spinning
  <2> QED
    BY <2>1 DEF Spinning, Spins
<1>4. CASE Refresh \/ ReloadReview \/ ReloadReports
  <2>1. Ask("load", monthKey).what = "load"
    BY DEF Ask
  <2> QED
    BY <1>3, <1>4, <2>1 DEF Refresh, ReloadReview, ReloadReports
<1>5. CASE ChooseDetail
  <2>1. loading' => Spins(loads')
    BY <1>1, <1>5, SendSpins DEF ChooseDetail, PageRead, Spinning
  <2> QED
    BY <2>1 DEF Spinning, Spins
<1>6. ASSUME UNCHANGED <<loading, loads>> PROVE Spinning'
  BY <1>6 DEF Spinning, Spins
<1>7. \A open, edit, target : Book(open, edit, target) => UNCHANGED <<loading, loads>>
  BY DEF Book
<1>8. CASE \E m \in Months : \/ SwitchMonth(m) \/ EditBookMonth(m) \/ RequestDeleteBookMonth(m)
                             \/ \E s \in Sections : ViewBookMonth(m, s)
  BY <1>2, <1>6, <1>7, <1>8 DEF SwitchMonth, EditBookMonth, RequestDeleteBookMonth, ViewBookMonth
<1>9. CASE \E s \in Sections : Navigate(s)
  BY <1>2, <1>9 DEF Navigate
<1>10. CASE ChooseAllocation \/ CancelPreview \/ OpenMonthBook \/ CloseMonthBook
            \/ CancelDeleteBookMonth \/ NoticeExpires
  BY <1>6, <1>7, <1>10 DEF ChooseAllocation, CancelPreview, OpenMonthBook, CloseMonthBook,
     CancelDeleteBookMonth, NoticeExpires
<1>11. CASE OpenReconcile \/ CloseReconcile \/ OpenSplitModal \/ CloseSplitModal
  BY <1>6, <1>11 DEF OpenReconcile, CloseReconcile, OpenSplitModal, CloseSplitModal, Modals
<1> QED
  BY <1>4, <1>5, <1>8, <1>9, <1>10, <1>11, UserMoves \/ NoticeExpires, Zenon DEF UserMoves

(* A call served or answered: what sets the spinner sends, or awaits, the  *)
(* load.                                                                   *)
LEMMA SavesSpin ==
  ASSUME PageTyped, Spinning, Serve \/ CallAnswers
  PROVE  Spinning'
<1>1. PageRead /\ op.todo \subseteq Loaders
  BY PageIs, OpRead DEF PageRead
<1>2. SUFFICES ASSUME loading' PROVE Spins(loads')
  BY DEF Spinning, Spins
<1>3. CASE Serve
  <2>1. loading /\ Spins(loads)
    BY <1>2, <1>3 DEF Serve, Spinning
  <2>2. CASE loads' = loads
    BY <2>1, <2>2
  <2>3. CASE Accepts(op)
    <3>1. PICK t : t = Touched(op.kind)
      OBVIOUS
    <3> DEFINE hit(l) == /\ l.what \in t
                         /\ l.of = op.at \/ l.what \in {"load", "reports"}
    <3>2. loads' = {Outdate(l, hit(l)) : l \in loads}
      BY <1>3, <2>3, <3>1, Zenon DEF Serve
    <3>3. PICK l \in loads : l.what = "load"
      BY <2>1 DEF Spins
    <3>4. Outdate(l, hit(l)) \in loads' /\ Outdate(l, hit(l)).what = "load"
      <4>1. LoadTyped(l)
        BY <1>1 DEF PageRead, LoadsTyped
      <4> QED
        BY <3>2, <3>3, <4>1 DEF LoadTyped, Outdate
    <3> QED
      BY <3>4 DEF Spins
  <2> QED
    BY <1>3, <2>2, <2>3, Zenon DEF Serve
<1>4. CASE CallFails
  BY <1>2, <1>4 DEF CallFails, Spinning
<1>5. CASE CallSucceeds
  BY <1>1, <1>2, <1>5, ContinueSpins DEF CallSucceeds, PageRead, Spinning
<1>6. CASE DeleteSucceeds
  <2>1. op # NoOp /\ OpTyped
    BY <1>1, <1>6 DEF DeleteSucceeds, PageRead, NoOp
  <2> DEFINE left == op.rows \ {op.at}
             shown == op.at = op.key
             next == IF left = {} THEN ThisMonth ELSE CHOOSE m \in left : \A n \in left : n <= m
             moved == shown /\ next # monthKey
             asks == {a \in {Ask("load", next)} : moved}
                       \cup {a \in {Ask("reports", next)} : moved /\ section = "reports"}
             todo == IF ~shown THEN op.todo ELSE IF next = op.key THEN {"load"} ELSE {}
  <2>2. /\ Continue(todo, Send(loads, asks, FALSE))
        /\ loading' = (loading \/ moved \/ ~shown \/ next = op.key)
    BY <1>6, Zenon DEF DeleteSucceeds
  <2>3. moved => Ask("load", next) \in asks
    OBVIOUS
  <2>4. Ask("load", next).what = "load"
    BY DEF Ask
  <2>5. \A a \in asks : a.what \in Watched /\ a.of \in Months
    <3>1. \A a \in asks : a = Ask("load", next) \/ (a = Ask("reports", next) /\ section = "reports")
      BY Zenon
    <3>2. "load" \in Watched /\ (section = "reports" => "reports" \in Watched)
      BY <1>1 DEF Watched, PageRead
    <3>3. next \in Months
      BY <2>1, LastMonth, MonthsAssumption DEF OpTyped
    <3> HIDE DEF asks, next
    <3> QED
      BY <3>1, <3>2, <3>3 DEF Ask
  <2>6. todo \subseteq Loaders /\ (~shown \/ (shown /\ next = op.key) => "load" \in todo)
    BY <1>1, <1>6, <2>1 DEF OpTyped, DeleteSucceeds, Loaders
  <2>7. shown \/ ~shown
    OBVIOUS
  <2> HIDE DEF left, shown, next, moved, asks, todo
  <2>8. LoadsTyped(Send(loads, asks, FALSE))
    BY <1>1, <2>5, SendTyped DEF PageRead
  <2>9. CASE loading \/ moved
    <3>1. Spins(Send(loads, asks, FALSE))
      BY <1>1, <2>3, <2>4, <2>9, SendSpins DEF PageRead, Spinning
    <3> QED
      BY <2>2, <2>6, <2>8, <3>1, ContinueSpins
  <2>10. CASE ~shown \/ (shown /\ next = op.key)
    BY <2>2, <2>6, <2>8, <2>10, ContinueSpins
  <2> QED
    BY <1>2, <2>2, <2>7, <2>9, <2>10
<1> QED
  BY <1>3, <1>4, <1>5, <1>6 DEF CallAnswers

(* The spinner that hides the page is over it only while a load is on its  *)
(* way: setLoading(true) is never left behind, whatever fails.             *)
THEOREM SpinnerIsEarned == Spec => []SpinnerHasALoad
<1>1. Init => Spinning
  <2> SUFFICES ASSUME Init PROVE Spins(loads)
    BY DEF Spinning
  <2> DEFINE asks == {Ask("load", monthKey)} \cup {a \in {Ask("reports", monthKey)} : section = "reports"}
  <2>1. loads = Send({}, asks, FALSE)
    BY DEF Init
  <2>2. Ask("load", monthKey) \in asks /\ Ask("load", monthKey).what = "load"
    BY DEF Ask
  <2>3. LoadsTyped({})
    BY DEF LoadsTyped
  <2> QED
    BY <2>1, <2>2, <2>3, SendSpins
<1>2. PageTyped /\ Spinning /\ [Next]_vars => Spinning'
  <2> SUFFICES ASSUME PageTyped, Spinning, [Next]_vars PROVE Spinning'
    OBVIOUS
  <2>1. CASE UserActs /\ UserWrites
    <3>1. UNCHANGED <<loading, loads>>
      BY <2>1, Begins DEF Begin, pageVars
    <3> QED
      BY <3>1 DEF Spinning, Spins
  <2>2. CASE (UserActs /\ UserMoves) \/ TimerFires
    BY <2>2, MovesSpin DEF TimerFires
  <2>3. CASE SaveMoves
    BY <2>3, SavesSpin DEF SaveMoves
  <2>4. ASSUME NEW l \in loads, Answer(l) PROVE Spinning'
    BY <2>4, ReadsSpin DEF Answer
  <2>5. CASE UNCHANGED vars
    BY <2>5 DEF vars, pageVars, Spinning, Spins
  <2> QED
    BY <2>1, <2>2, <2>3, <2>4, <2>5 DEF Next, UserActs
<1>3. Spinning => SpinnerHasALoad
  BY DEF Spinning, Spins, SpinnerHasALoad
<1> QED
  BY <1>1, <1>2, <1>3, AlwaysTyped, PTL DEF Spec

-----------------------------------------------------------------------------
(* What the section on screen looks at, and what there is to look at.      *)
InSection(w) ==
  CASE w = "load"                  -> TRUE
    [] w \in {"review", "detail"}  -> section = "review"
    [] OTHER                       -> section = "reports"
Screened(w) ==
  CASE w = "review" -> section = "review" /\ summary.of # None
    [] w = "detail" -> section = "review" /\ detailId # None
    [] OTHER        -> InSection(w)

Wanted(w) == IF w = "detail" THEN detailId ELSE monthKey

LoadCurrent ==
  /\ summary.of = (IF Exists(status[monthKey]) THEN monthKey ELSE None)
  /\ summary.of # None => summary.fresh /\ summary.closed = (status[monthKey] = "closed")
  /\ book.fresh /\ book.rows = Existing(status)

Current(w) ==
  CASE w = "load"   -> LoadCurrent
    [] w = "review" -> review.fresh /\ review.of = monthKey
    [] w = "detail" -> detail.fresh /\ detail.of = detailId
    [] OTHER        -> reports.fresh /\ reports.of = monthKey

(* The handler on the way has changed the view and will read it again, or, *)
(* after a deletion, will hide it or say that it is in doubt.              *)
Deleted == Saving /\ op.phase = "done" /\ op.kind = "delete"
Reloads(w) ==
  \/ /\ Saving /\ op.phase = "done" /\ w \in Touched(op.kind) \cap op.todo
     /\ op.kind = "delete" => w \in {"load", "reports"}
  \/ Saving /\ op.phase = "reload" /\ w \in op.todo
  \/ Deleted /\ w = "review" /\ op.at = op.key
  \/ Deleted /\ w = "detail" /\ op.at = detailId
Pending(w) == Reloads(w) \/ (Deleted /\ w = "detail" /\ op.at = detail.of)

OnItsWay(w) == IF w = "load" THEN loading ELSE \E l \in loads : l.what = w

(* A view on screen is current, or somebody knows that it may not be.      *)
Shown(w) ==
  Screened(w) /\ w \notin doubt => Current(w) \/ Pending(w) \/ OnItsWay(w)
Stale(w) ==
  \A l \in loads : l.what = w /\ InOrder(l) /\ ~l.fresh /\ Screened(w) /\ w \notin doubt => Reloads(w)
ViewOk(w) == Shown(w) /\ Stale(w)

(* No read of a view is both the newest and stale.                         *)
Renewed(ls, w) == \A l \in ls : l.what = w => l.old \/ l.fresh

(* Six ways for a view to be in order after a step: it is in doubt,        *)
LEMMA Doubted ==
  ASSUME NEW w, (w \in doubt)'
  PROVE  ViewOk(w)'
BY DEF ViewOk, Shown, Stale

(* it is off the screen,                                                   *)
LEMMA Unscreened ==
  ASSUME NEW w, ~Screened(w)'
  PROVE  ViewOk(w)'
BY DEF ViewOk, Shown, Stale

(* the handler on the way will read it again,                              *)
LEMMA Reloading ==
  ASSUME NEW w, Reloads(w)'
  PROVE  ViewOk(w)'
BY DEF ViewOk, Shown, Stale, Pending

(* a read of it has just been sent,                                        *)
LEMMA Asked ==
  ASSUME NEW w, Renewed(loads', w), OnItsWay(w)'
  PROVE  ViewOk(w)'
BY DEF ViewOk, Shown, Stale, Renewed, InOrder

(* it has just been read,                                                  *)
LEMMA Answered ==
  ASSUME NEW w, Renewed(loads', w), Current(w)'
  PROVE  ViewOk(w)'
BY DEF ViewOk, Shown, Stale, Renewed, InOrder

(* or it was in order before, and the step left it alone.                  *)
LEMMA Kept ==
  ASSUME NEW w, ViewOk(w), Screened(w)' => Screened(w), w \in doubt => (w \in doubt)',
         Wanted(w)' = Wanted(w), OnItsWay(w) => OnItsWay(w)',
         Current(w) => Current(w)' \/ Pending(w)', Pending(w) => Pending(w)', Reloads(w) => Reloads(w)',
         \A x \in loads' : x.what = w /\ ~x.old /\ ~x.fresh /\ x.of = Wanted(w) =>
           \E l \in loads : l.what = w /\ ~l.old /\ ~l.fresh /\ l.of = x.of
  PROVE  ViewOk(w)'
<1>1. Shown(w)'
  BY DEF ViewOk, Shown
<1>2. ASSUME NEW x \in loads', x.what = w, InOrder(x)', ~x.fresh, Screened(w)', (w \notin doubt)'
      PROVE  Reloads(w)'
  <2>1. x.of = Wanted(w) /\ ~x.old
    BY <1>2 DEF InOrder, Wanted
  <2>2. PICK l \in loads : l.what = w /\ ~l.old /\ ~l.fresh /\ l.of = x.of
    BY <1>2, <2>1
  <2>3. InOrder(l)
    BY <2>1, <2>2 DEF InOrder, Wanted
  <2> QED
    BY <1>2, <2>2, <2>3 DEF ViewOk, Stale
<1> QED
  BY <1>1, <1>2 DEF ViewOk, Stale

(* Reads sent: which of the reads on the way are old ones.                 *)
IsKept(x, l, asks) ==
  /\ x.what = l.what /\ x.of = l.of /\ x.own = l.own /\ x.fresh = l.fresh /\ x.seen = l.seen
  /\ x.old <=> (l.old \/ \E a \in asks : a.what = l.what)
  /\ x = [l EXCEPT !.old = @ \/ \E a \in asks : a.what = l.what]
IsNew(x, a, own) ==
  /\ x.what = a.what /\ x.of = a.of /\ x.own = own /\ ~x.old /\ x.fresh
  /\ x.seen = [m \in Scope(a.what, a.of) |-> status[m]]
  /\ x = Request(a, own)

LEMMA SendIs ==
  ASSUME NEW ls, LoadsTyped(ls), NEW asks, NEW own, NEW x \in Send(ls, asks, own)
  PROVE  (\E l \in ls : IsKept(x, l, asks)) \/ (\E a \in asks : IsNew(x, a, own))
<1>1. CASE \E l \in ls : x = [l EXCEPT !.old = @ \/ \E a \in asks : a.what = l.what]
  <2>1. PICK l \in ls : x = [l EXCEPT !.old = @ \/ \E a \in asks : a.what = l.what]
    BY <1>1
  <2>2. LoadTyped(l)
    BY DEF LoadsTyped
  <2>3. /\ x.what = l.what /\ x.of = l.of /\ x.own = l.own
        /\ x.fresh = l.fresh /\ x.seen = l.seen
        /\ x.old <=> (l.old \/ \E a \in asks : a.what = l.what)
    BY <2>1, <2>2 DEF LoadTyped
  <2> QED
    BY <2>1, <2>3 DEF IsKept
<1>2. CASE \E a \in asks : x = Request(a, own)
  <2>1. PICK a \in asks : x = Request(a, own)
    BY <1>2
  <2>2. /\ x.what = a.what /\ x.of = a.of /\ x.own = own /\ ~x.old /\ x.fresh
        /\ x.seen = [m \in Scope(a.what, a.of) |-> status[m]]
    BY <2>1 DEF Request
  <2> QED
    BY <2>1, <2>2 DEF IsNew
<1> QED
  BY <1>1, <1>2 DEF Send

(* What becomes of the reads of a view.                                    *)
Follow(ls, new, asks, w) ==
  /\ (\E l \in ls : l.what = w) => \E x \in new : x.what = w
  /\ (\E a \in asks : a.what = w) => \E x \in new : x.what = w
  /\ Renewed(ls, w) \/ (\E a \in asks : a.what = w) => Renewed(new, w)
  /\ \A x \in new : x.what = w /\ ~x.old /\ ~x.fresh =>
       \E l \in ls : l.what = w /\ ~l.old /\ ~l.fresh /\ l.of = x.of

(* What Send does to the reads of one view.                                *)
LEMMA SendKeeps ==
  ASSUME NEW ls, LoadsTyped(ls), NEW asks, NEW own, NEW w
  PROVE  Follow(ls, Send(ls, asks, own), asks, w)
<1>1. ASSUME NEW l \in ls, l.what = w PROVE \E x \in Send(ls, asks, own) : x.what = w
  <2> DEFINE kept == [l EXCEPT !.old = @ \/ \E a \in asks : a.what = l.what]
  <2>1. kept \in Send(ls, asks, own)
    BY Zenon DEF Send
  <2>2. kept.what = w
    BY <1>1 DEF LoadsTyped, LoadTyped
  <2> QED
    BY <2>1, <2>2
<1>2. ASSUME NEW a \in asks, a.what = w PROVE \E x \in Send(ls, asks, own) : x.what = w
  <2>1. Request(a, own) \in Send(ls, asks, own) /\ Request(a, own).what = w
    BY <1>2 DEF Send, Request
  <2> QED
    BY <2>1
<1>3. ASSUME Renewed(ls, w) \/ \E a \in asks : a.what = w PROVE Renewed(Send(ls, asks, own), w)
  <2> SUFFICES ASSUME NEW x \in Send(ls, asks, own), x.what = w PROVE x.old \/ x.fresh
    BY DEF Renewed
  <2>1. (\E l \in ls : IsKept(x, l, asks)) \/ (\E a \in asks : IsNew(x, a, own))
    BY SendIs, Zenon
  <2>2. ASSUME NEW l \in ls, IsKept(x, l, asks) PROVE x.old \/ x.fresh
    BY <1>3, <2>2 DEF Renewed, IsKept
  <2>3. ASSUME NEW a \in asks, IsNew(x, a, own) PROVE x.old \/ x.fresh
    BY <2>3 DEF IsNew
  <2> QED
    BY <2>1, <2>2, <2>3
<1>4. ASSUME NEW x \in Send(ls, asks, own), x.what = w, ~x.old, ~x.fresh
      PROVE  \E l \in ls : l.what = w /\ ~l.old /\ ~l.fresh /\ l.of = x.of
  <2>1. (\E l \in ls : IsKept(x, l, asks)) \/ (\E a \in asks : IsNew(x, a, own))
    BY SendIs, Zenon
  <2>2. ASSUME NEW l \in ls, IsKept(x, l, asks)
        PROVE  l.what = w /\ ~l.old /\ ~l.fresh /\ l.of = x.of
    BY <1>4, <2>2 DEF IsKept
  <2>3. ASSUME NEW a \in asks, IsNew(x, a, own) PROVE FALSE
    BY <1>4, <2>3 DEF IsNew
  <2> QED
    BY <2>1, <2>2, <2>3
<1> QED
  BY <1>1, <1>2, <1>3, <1>4 DEF Follow

-----------------------------------------------------------------------------
OneEach(asks) == \A a, b \in asks : a.what = b.what => a = b

NoOwn(ls) == \A l \in ls : ~l.own

(* One read at a time is awaited, and its answer is fresh; one of a view's *)
(* reads is the newest; a fresh load has seen what the server holds.       *)
Orderly(ls) ==
  /\ \A l, k \in ls : l.own /\ k.own => l = k
  /\ \A l, k \in ls : l.what = k.what /\ ~l.old /\ ~k.old => l = k
  /\ \A l \in ls : l.own => l.fresh
  /\ \A l \in ls : l.what = "load" /\ l.fresh => l.seen = status

Awaited == \A l \in loads : l.own => Saving /\ op.phase = "reload"

(* Send keeps the reads in order, one asked for of each view.              *)
LEMMA SendOrderly ==
  ASSUME PageTyped, NEW ls, LoadsTyped(ls), Orderly(ls), NEW asks, OneEach(asks),
         NEW own \in BOOLEAN, own => NoOwn(ls) /\ \A a, b \in asks : a = b
  PROVE  Orderly(Send(ls, asks, own)) /\ (~own /\ NoOwn(ls) => NoOwn(Send(ls, asks, own)))
<1> DEFINE new == Send(ls, asks, own)
<1>1. \A x \in new : (\E l \in ls : IsKept(x, l, asks)) \/ (\E a \in asks : IsNew(x, a, own))
  BY SendIs, Zenon
<1> HIDE DEF new
<1>2. ASSUME NEW x \in new, NEW y \in new, x.own, y.own PROVE x = y
  <2>1. ASSUME NEW l \in ls, IsKept(x, l, asks), NEW k \in ls, IsKept(y, k, asks) PROVE x = y
    <3>1. l = k
      BY <1>2, <2>1 DEF IsKept, Orderly
    <3> QED
      BY <2>1, <3>1 DEF IsKept
  <2>2. ASSUME NEW a \in asks, IsNew(x, a, own), NEW b \in asks, IsNew(y, b, own) PROVE x = y
    <3>1. a = b
      BY <1>2, <2>2 DEF IsNew
    <3> QED
      BY <2>2, <3>1 DEF IsNew
  <2>3. ASSUME NEW l \in ls, NEW a \in asks, NEW v \in new, NEW u \in new, v.own, u.own,
               IsKept(v, l, asks), IsNew(u, a, own)
        PROVE  FALSE
    BY <2>3 DEF IsKept, IsNew, NoOwn
  <2> QED
    BY <1>1, <1>2, <2>1, <2>2, <2>3
<1>3. ASSUME NEW x \in new, NEW y \in new, x.what = y.what, ~x.old, ~y.old PROVE x = y
  <2>1. ASSUME NEW l \in ls, IsKept(x, l, asks), NEW k \in ls, IsKept(y, k, asks) PROVE x = y
    <3>1. l = k
      BY <1>3, <2>1 DEF IsKept, Orderly
    <3> QED
      BY <2>1, <3>1 DEF IsKept
  <2>2. ASSUME NEW a \in asks, IsNew(x, a, own), NEW b \in asks, IsNew(y, b, own) PROVE x = y
    <3>1. a = b
      <4>1. a.what = b.what
        BY <1>3, <2>2 DEF IsNew
      <4>2. a \in asks /\ b \in asks
        BY <2>2
      <4> QED
        BY <4>1, <4>2, OneEach(asks), Zenon DEF OneEach
    <3> QED
      BY <2>2, <3>1 DEF IsNew
  <2>3. ASSUME NEW l \in ls, NEW a \in asks, NEW v, NEW u, v.what = u.what, ~v.old, ~u.old,
               IsKept(v, l, asks), IsNew(u, a, own)
        PROVE  FALSE
    BY <2>3 DEF IsKept, IsNew
  <2> QED
    BY <1>1, <1>3, <2>1, <2>2, <2>3
<1>4. ASSUME NEW x \in new PROVE x.own => x.fresh
  <2>1. ASSUME NEW l \in ls, IsKept(x, l, asks) PROVE x.own => x.fresh
    BY <2>1 DEF IsKept, Orderly
  <2>2. ASSUME NEW a \in asks, IsNew(x, a, own) PROVE x.fresh
    BY <2>2 DEF IsNew
  <2> QED
    BY <1>1, <2>1, <2>2
<1>5. ASSUME NEW x \in new, x.what = "load", x.fresh PROVE x.seen = status
  <2>1. ASSUME NEW l \in ls, IsKept(x, l, asks) PROVE x.seen = status
    BY <1>5, <2>1 DEF IsKept, Orderly
  <2>2. ASSUME NEW a \in asks, IsNew(x, a, own) PROVE x.seen = status
    <3>1. status = [m \in Months |-> status[m]]
      BY PageIs DEF PageRead
    <3> QED
      BY <1>5, <2>2, <3>1 DEF IsNew, Scope
  <2> QED
    BY <1>1, <2>1, <2>2
<1>6. ASSUME ~own, NoOwn(ls), NEW x \in new PROVE ~x.own
  <2>1. ASSUME NEW l \in ls, IsKept(x, l, asks) PROVE ~x.own
    BY <1>6, <2>1 DEF IsKept, NoOwn
  <2>2. ASSUME NEW a \in asks, IsNew(x, a, own) PROVE ~x.own
    BY <1>6, <2>2 DEF IsNew
  <2> QED
    BY <1>1, <2>1, <2>2
<1>7. Orderly(new)
  BY <1>2, <1>3, <1>4, <1>5 DEF Orderly
<1>8. ~own /\ NoOwn(ls) => NoOwn(new)
  BY <1>6 DEF NoOwn
<1> QED
  BY <1>7, <1>8 DEF new

(* What a handler goes on to, for all the views at once.                   *)
LEMMA ContinueIs ==
  ASSUME PageTyped, Saving, NEW ls, NEW todo, todo \subseteq Loaders, Continue(todo, ls)
  PROVE  \/ todo = {} /\ op' = NoOp /\ loads' = ls
         \/ \E asks : /\ loads' = Send(ls, asks, TRUE) /\ op' # NoOp /\ op'.phase = "reload" /\ op'.todo = todo
                      /\ \A a, b \in asks : a = b
                      /\ \A a \in asks : a.what \in todo /\ a.of = IF a.what = "detail" THEN op.detailOf ELSE op.key
                      /\ "load" \in todo => \E a \in asks : a.what = "load"
<1>1. CASE todo = {}
  BY <1>1 DEF Continue
<1>2. CASE todo # {}
  <2> DEFINE w == NextReload(todo)
             a == Ask(w, IF w = "detail" THEN op.detailOf ELSE op.key)
  <2>1. op' = [op EXCEPT !.phase = "reload", !.todo = todo] /\ loads' = Send(ls, {a}, TRUE)
    BY <1>2 DEF Continue
  <2>2. a.what = w /\ a.of = (IF w = "detail" THEN op.detailOf ELSE op.key)
    BY DEF Ask
  <2>3. w \in todo /\ ("load" \in todo => w = "load")
    BY <1>2, NextReloadIn
  <2>4. op' # NoOp /\ op'.phase = "reload" /\ op'.todo = todo
    <3>1. OpTyped /\ op # NoOp
      BY PageIs DEF PageRead, Saving
    <3>2. op'.kind = op.kind /\ op'.phase = "reload" /\ op'.todo = todo
      BY <2>1, <3>1 DEF OpTyped
    <3>3. op'.kind # NoOp.kind
      BY <3>1, <3>2 DEF OpTyped, Kinds, NoOp
    <3> QED
      BY <3>2, <3>3
  <2> HIDE DEF w, a
  <2>5. \A b, c \in {a} : b = c
    OBVIOUS
  <2>6. \A b \in {a} : b.what \in todo /\ b.of = IF b.what = "detail" THEN op.detailOf ELSE op.key
    BY <2>2, <2>3
  <2>7. "load" \in todo => \E b \in {a} : b.what = "load"
    BY <2>2, <2>3
  <2> QED
    BY <2>1, <2>4, <2>5, <2>6, <2>7
<1> QED
  BY <1>1, <1>2

(* A handler that goes on awaits one read at a time.                       *)
LEMMA ContinueOrderly ==
  ASSUME PageTyped, Saving, status' = status, NEW ls, LoadsTyped(ls), Orderly(ls), NoOwn(ls),
         NEW todo, todo \subseteq Loaders, Continue(todo, ls)
  PROVE  Orderly(loads)' /\ Awaited'
<1>1. CASE todo = {} /\ op' = NoOp /\ loads' = ls
  BY <1>1 DEF Orderly, Awaited, NoOwn
<1>2. ASSUME NEW asks, loads' = Send(ls, asks, TRUE), op' # NoOp, op'.phase = "reload",
             \A a, b \in asks : a = b
      PROVE  Orderly(loads)' /\ Awaited'
  <2>1. Orderly(Send(ls, asks, TRUE))
    BY <1>2, SendOrderly DEF OneEach
  <2> QED
    BY <1>2, <2>1 DEF Orderly, Awaited, Saving
<1> QED
  BY <1>1, <1>2, ContinueIs

-----------------------------------------------------------------------------
(* A handler whose call is on the way will reload what it changes of what  *)
(* is on screen, or the page has been told that it cannot tell.            *)
Covered ==
  Saving /\ op.phase # "reload" =>
    /\ \A w \in Touched(op.kind) \cap Watched :
         /\ InSection(w) /\ w \notin doubt
         /\ op.kind = "delete" => w \in {"load", "reports"}
         => w \in op.todo
    /\ "load" \in Touched(op.kind) => "load" \in op.todo
    /\ monthKey # op.key => Touched(op.kind) \cap Watched \subseteq doubt

Chosen == section = "review" /\ summary.of # None => detailId # None

Known == Orderly(loads) /\ Awaited /\ Covered /\ Chosen
PageInv == Known /\ \A w \in Watched : ViewOk(w)

Seen == <<status, use, monthKey, section, summary, book, review, detailId, detail, reports,
          loading, op, loads, doubt>>

(* A step that touches nothing the invariant is about.                     *)
LEMMA UnseenKeeps ==
  ASSUME PageInv, UNCHANGED Seen
  PROVE  PageInv'
BY DEF Seen, PageInv, Known, Orderly, Awaited, Covered, Chosen, Watched, Saving, InSection,
   ViewOk, Shown, Stale, Screened, Current, LoadCurrent, Existing, Pending, Reloads, Deleted,
   OnItsWay, InOrder

(* A write that begins: Begins says what it will reload.                   *)
LEMMA BeginKeeps ==
  ASSUME PageTyped, PageInv, ~Saving,
         NEW kind \in Kinds, NEW at \in Months, NEW row, NEW after \in SUBSET Loaders,
         Begin(kind, at, row, after), Covers(kind, at, after)
  PROVE  PageInv'
<1>1. PageRead
  BY PageIs
<1>2. UNCHANGED <<status, use, monthKey, section, summary, book, review, detailId, detail, reports,
                  loading, loads>>
  BY DEF Begin, pageVars
<1>3. Watched' = Watched
  BY <1>2 DEF Watched
<1>4. DEFINE todo == {w \in after : /\ w = "review" => section = "review" /\ summary.of # None
                                    /\ w = "detail" => section = "review" /\ detailId # None
                                    /\ w = "reports" => section = "reports"}
<1>5. op'.kind = kind /\ op'.key = monthKey /\ op'.phase = "sent" /\ op'.todo = todo
  BY DEF Begin
<1>6. /\ doubt \subseteq doubt'
      /\ section = "review" /\ (summary.of = None \/ kind = "reconcile")
           => Watched \ {"load"} \subseteq doubt'
  BY DEF Begin
<1>7. Orderly(loads)' /\ Awaited' /\ Chosen'
  <2>1. NoOwn(loads)
    BY DEF PageInv, Known, Awaited, NoOwn
  <2> QED
    BY <1>2, <2>1 DEF PageInv, Known, Orderly, Awaited, NoOwn, Chosen
<1>8. Covered'
  <2>1. "load" \in Touched(kind) => "load" \in todo
    BY DEF Covers
  <2>2. ASSUME NEW w \in Touched(kind) \cap Watched, InSection(w), w \notin doubt',
               kind = "delete" => w \in {"load", "reports"}
        PROVE  w \in todo
    <3>1. CASE w = "load"
      BY <2>1, <2>2, <3>1
    <3>2. CASE w \in {"review", "detail"}
      <4>1. section = "review" /\ kind # "delete" /\ kind # "reconcile"
        BY <1>6, <2>2, <3>2 DEF InSection
      <4>2. summary.of # None
        BY <1>6, <2>2, <3>2, <4>1
      <4>3. detailId # None
        BY <4>1, <4>2 DEF PageInv, Known, Chosen
      <4>4. w \in after
        BY <2>2, <3>2, <4>1, <4>2 DEF Covers
      <4> QED
        BY <4>1, <4>2, <4>3, <4>4, <3>2
    <3>3. CASE w = "reports"
      <4>1. section = "reports"
        BY <2>2, <3>3 DEF InSection
      <4> QED
        BY <2>2, <3>3, <4>1 DEF Covers
    <3> QED
      BY <3>1, <3>2, <3>3, <2>2 DEF Watched
  <2> HIDE DEF todo
  <2>3. \A w : InSection(w)' <=> InSection(w)
    BY <1>2 DEF InSection
  <2> QED
    BY <1>2, <1>3, <1>5, <2>1, <2>2, <2>3 DEF Covered
<1>9. ASSUME NEW w \in Watched PROVE ViewOk(w)'
  <2>1. ~Reloads(w) /\ ~Pending(w)
    BY DEF Reloads, Pending, Deleted
  <2>2. /\ Screened(w)' <=> Screened(w)
        /\ Wanted(w)' = Wanted(w)
        /\ OnItsWay(w)' <=> OnItsWay(w)
    BY <1>2 DEF Screened, InSection, Wanted, OnItsWay
  <2>3. Current(w) => Current(w)'
    BY <1>2 DEF Current, LoadCurrent, Existing
  <2> QED
    BY <1>2, <1>6, <2>1, <2>2, <2>3, Kept DEF PageInv
<1> QED
  BY <1>3, <1>7, <1>8, <1>9 DEF PageInv, Known

(* A call that failed: what it may have done is in doubt.                  *)
LEMMA CallFailsKeeps ==
  ASSUME PageTyped, PageInv, CallFails
  PROVE  PageInv'
<1>1. PageRead
  BY PageIs
<1>2. UNCHANGED <<status, use, monthKey, section, summary, book, review, detailId, detail, reports,
                  loading, loads>>
  BY DEF CallFails
<1>3. Watched' = Watched
  BY <1>2 DEF Watched
<1>4. op' = NoOp /\ Saving /\ op.phase \in {"sent", "refused", "done"}
  BY DEF CallFails
<1>5. doubt' = IF op.phase = "done" THEN doubt \cup (Touched(op.kind) \cap Watched) ELSE doubt
  BY DEF CallFails
<1>6. Orderly(loads)' /\ Awaited' /\ Chosen' /\ Covered'
  <2>1. NoOwn(loads)
    BY <1>4 DEF PageInv, Known, Awaited, NoOwn
  <2>2. ~Saving'
    BY <1>4 DEF Saving, NoOp
  <2> QED
    BY <1>2, <2>1, <2>2 DEF PageInv, Known, Orderly, Awaited, NoOwn, Chosen, Covered
<1>7. ASSUME NEW w \in Watched PROVE ViewOk(w)'
  <2>1. CASE w \in doubt'
    BY <2>1, Doubted
  <2>2. CASE w \notin doubt'
    <3>1. ~Reloads(w) /\ ~Pending(w)
      BY <1>4, <1>5, <2>2 DEF Reloads, Pending, Deleted, Touched, Loaders
    <3>2. /\ Screened(w)' <=> Screened(w)
          /\ Wanted(w)' = Wanted(w)
          /\ OnItsWay(w)' <=> OnItsWay(w)
      BY <1>2 DEF Screened, InSection, Wanted, OnItsWay
    <3>3. Current(w) => Current(w)'
      BY <1>2 DEF Current, LoadCurrent, Existing
    <3>4. w \in doubt => w \in doubt'
      BY <1>5
    <3> QED
      BY <1>2, <3>1, <3>2, <3>3, <3>4, Kept DEF PageInv
  <2> QED
    BY <2>1, <2>2
<1> QED
  BY <1>3, <1>6, <1>7 DEF PageInv, Known

-----------------------------------------------------------------------------
(* Reads the user's move sends: a view is asked for again, or goes off the *)
(* screen, or is left as it was.                                           *)
LEMMA SentKeeps ==
  ASSUME PageTyped, PageInv, NEW asks, loads' = Send(loads, asks, FALSE),
         UNCHANGED <<status, use, summary, book, review, detail, reports, op>>,
         doubt \subseteq doubt', loading => loading',
         \A w \in Watched : \/ (\E a \in asks : a.what = w) /\ (w = "load" => loading')
                            \/ ~Screened(w)'
                            \/ Wanted(w)' = Wanted(w) /\ (Screened(w)' => Screened(w))
  PROVE  \A w \in Watched : ViewOk(w)'
<1>1. LoadsTyped(loads)
  BY PageIs DEF PageRead
<1> TAKE w \in Watched
<1>a. Follow(loads, loads', asks, w)
  BY <1>1, SendKeeps
<1>2. CASE (\E a \in asks : a.what = w) /\ (w = "load" => loading')
  <2>1. Renewed(loads', w) /\ \E x \in loads' : x.what = w
    BY <1>2, <1>a DEF Follow
  <2> QED
    BY <1>2, <2>1, Asked DEF OnItsWay
<1>3. CASE ~Screened(w)'
  BY <1>3, Unscreened
<1>4. CASE Wanted(w)' = Wanted(w) /\ (Screened(w)' => Screened(w))
  <2>1. OnItsWay(w) => OnItsWay(w)'
    <3>1. (\E l \in loads : l.what = w) => \E x \in loads' : x.what = w
      BY <1>a DEF Follow
    <3> QED
      BY <3>1 DEF OnItsWay
  <2>2. \A x \in loads' : x.what = w /\ ~x.old /\ ~x.fresh =>
              \E l \in loads : l.what = w /\ ~l.old /\ ~l.fresh /\ l.of = x.of
    BY <1>a DEF Follow
  <2>3. Current(w) => Current(w)'
    BY <1>4 DEF Current, LoadCurrent, Existing, Wanted
  <2>4. (Pending(w) => Pending(w)') /\ (Reloads(w) => Reloads(w)')
    BY <1>4 DEF Pending, Reloads, Deleted, Saving, Wanted
  <2>5. ViewOk(w) /\ (w \in doubt => (w \in doubt)')
    BY DEF PageInv
  <2> QED
    BY <1>4, <2>1, <2>2, <2>3, <2>4, <2>5, Kept
<1> QED
  BY <1>2, <1>3, <1>4

(* Reads sent by the user are awaited by no handler.                       *)
LEMMA SentOrderly ==
  ASSUME PageTyped, PageInv, NEW asks, OneEach(asks), loads' = Send(loads, asks, FALSE),
         UNCHANGED <<status, op>>
  PROVE  Orderly(loads)' /\ Awaited'
<1>1. LoadsTyped(loads) /\ Orderly(loads)
  BY PageIs DEF PageRead, PageInv, Known
<1>2. Orderly(Send(loads, asks, FALSE))
  BY <1>1, SendOrderly
<1>3. Orderly(loads)'
  BY <1>2 DEF Orderly
<1>4. ASSUME NEW x \in loads', x.own PROVE \E l \in loads : l.own
  <2>1. (\E l \in loads : IsKept(x, l, asks)) \/ (\E a \in asks : IsNew(x, a, FALSE))
    BY <1>1, SendIs, Zenon
  <2>2. ASSUME NEW a \in asks, IsNew(x, a, FALSE) PROVE FALSE
    BY <1>4, <2>2 DEF IsNew
  <2>3. ASSUME NEW l \in loads, IsKept(x, l, asks) PROVE l.own
    BY <1>4, <2>3 DEF IsKept
  <2> QED
    BY <2>1, <2>2, <2>3
<1>5. Awaited'
  BY <1>4 DEF Awaited, Saving, PageInv, Known
<1> QED
  BY <1>3, <1>5

(* Another month or section: the effects ask for what comes on screen.     *)
LEMMA GotoKeeps ==
  ASSUME PageTyped, PageInv, NEW m \in Months, NEW s \in Sections, Goto(m, s),
         UNCHANGED <<status, use, summary, book, review, detail, reports, op>>
  PROVE  PageInv'
<1>1. PageRead
  BY PageIs
<1> DEFINE moved == m # monthKey
           flips == (s = "settings") # (section = "settings")
           enter(t) == s = t /\ (section # t \/ moved)
           id == IF s = "review" /\ detailId = None THEN summary.of ELSE detailId
           asks == {a \in {Ask("load", m)} : moved \/ flips}
              \cup {a \in {Ask("review", m)} : enter("review") /\ summary.of # None}
              \cup {a \in {Ask("detail", id)} :
                       /\ s = "review" /\ id # None
                       /\ section # "review" \/ id # detailId}
              \cup {a \in {Ask("reports", m)} : enter("reports")}
<1>2. /\ monthKey' = m /\ section' = s /\ detailId' = id
      /\ loading' = (loading \/ moved \/ flips)
      /\ loads' = Send(loads, asks, FALSE)
      /\ doubt' = IF ~Saving THEN doubt
                  ELSE doubt \cup {w \in Watched : moved \/ w # "load"}
  BY Zenon DEF Goto
<1>3. \A w, of : Ask(w, of).what = w
  BY DEF Ask
<1>4. OneEach(asks)
  BY <1>3 DEF OneEach
<1>5. /\ moved \/ flips => \E a \in asks : a.what = "load"
      /\ enter("review") /\ summary.of # None => \E a \in asks : a.what = "review"
      /\ s = "review" /\ id # None /\ (section # "review" \/ id # detailId) =>
           \E a \in asks : a.what = "detail"
      /\ enter("reports") => \E a \in asks : a.what = "reports"
  <2>1. moved \/ flips => Ask("load", m) \in asks
    OBVIOUS
  <2>2. enter("review") /\ summary.of # None => Ask("review", m) \in asks
    OBVIOUS
  <2>3. s = "review" /\ id # None /\ (section # "review" \/ id # detailId) => Ask("detail", id) \in asks
    OBVIOUS
  <2>4. enter("reports") => Ask("reports", m) \in asks
    OBVIOUS
  <2> HIDE DEF asks
  <2> QED
    BY <1>3, <2>1, <2>2, <2>3, <2>4
<1> HIDE DEF asks
<1>6. \A w \in Watched : ViewOk(w)'
  <2>1. ASSUME NEW w \in Watched
        PROVE  \/ (\E a \in asks : a.what = w) /\ (w = "load" => loading')
               \/ ~Screened(w)'
               \/ Wanted(w)' = Wanted(w) /\ (Screened(w)' => Screened(w))
    BY <1>2, <1>5 DEF Screened, InSection, Wanted, Watched
  <2>2. doubt \subseteq doubt' /\ (loading => loading')
    BY <1>2
  <2> QED
    BY <1>2, <2>1, <2>2, SentKeeps
<1>7. Orderly(loads)' /\ Awaited'
  BY <1>2, <1>4, SentOrderly
<1>8. Chosen'
  BY <1>2 DEF Chosen, PageInv, Known
<1>9. Covered'
  <2>1. Covered
    BY DEF PageInv, Known
  <2>2. ASSUME NEW w, InSection(w)', w \notin doubt', w \in Watched, Saving PROVE InSection(w) /\ w \notin doubt
    BY <1>2, <2>2 DEF InSection
  <2>3. Saving => (monthKey' = monthKey \/ Watched \subseteq doubt') /\ doubt \subseteq doubt'
    BY <1>2
  <2>4. Watched' = Watched
    BY DEF Watched
  <2> QED
    BY <2>1, <2>2, <2>3, <2>4 DEF Covered, Saving
<1>10. Watched' = Watched
  BY DEF Watched
<1> QED
  BY <1>6, <1>7, <1>8, <1>9, <1>10 DEF PageInv, Known

(* One read sent, by a reload button or the choice of an allocation.       *)
LEMMA ReloadKeeps ==
  ASSUME PageTyped, PageInv, NEW a, NEW d, loads' = Send(loads, {a}, FALSE), a.what \in Loaders,
         UNCHANGED <<status, use, monthKey, section, summary, book, review, detail, reports, op, doubt>>,
         detailId' = d, d # detailId => a.what = "detail" /\ d # None, loading => loading', a.what = "load" => loading'
  PROVE  PageInv'
<1>1. OneEach({a})
  BY DEF OneEach
<1>2. Orderly(loads)' /\ Awaited'
  BY <1>1, SentOrderly
<1>3. \A w \in Watched : ViewOk(w)'
  <2>1. ASSUME NEW w \in Watched
        PROVE  \/ (\E b \in {a} : b.what = w) /\ (w = "load" => loading')
               \/ ~Screened(w)'
               \/ Wanted(w)' = Wanted(w) /\ (Screened(w)' => Screened(w))
    BY DEF Screened, InSection, Wanted, Watched
  <2> QED
    BY <2>1, SentKeeps
<1>4. Chosen' /\ Covered' /\ Watched' = Watched
  BY DEF PageInv, Known, Chosen, Covered, Saving, InSection, Watched
<1> QED
  BY <1>2, <1>3, <1>4 DEF PageInv, Known

(* Whatever the user does that writes nothing.                             *)
LEMMA MovesKeep ==
  ASSUME PageTyped, PageInv, UserMoves \/ NoticeExpires
  PROVE  PageInv'
<1>1. PageRead
  BY PageIs
<1>2. ASSUME NEW m \in Months, SwitchMonth(m) PROVE PageInv'
  BY <1>1, <1>2, GotoKeeps DEF SwitchMonth, PageRead
<1>3. ASSUME NEW s \in Sections, Navigate(s) PROVE PageInv'
  BY <1>1, <1>3, GotoKeeps DEF Navigate, PageRead
<1>4. ASSUME NEW m \in Months, NEW s \in Sections, ViewBookMonth(m, s) PROVE PageInv'
  BY <1>4, GotoKeeps DEF ViewBookMonth
<1>5. ASSUME NEW open, NEW edit, NEW target, Book(open, edit, target) PROVE PageInv'
  BY <1>5, UnseenKeeps DEF Book, Seen
<1>6. CASE \/ OpenMonthBook \/ CloseMonthBook \/ CancelDeleteBookMonth
           \/ \E m \in Months : EditBookMonth(m) \/ RequestDeleteBookMonth(m)
  BY <1>5, <1>6 DEF OpenMonthBook, CloseMonthBook, CancelDeleteBookMonth, EditBookMonth,
     RequestDeleteBookMonth
<1>7. \A w, of : Ask(w, of).what = w
  BY DEF Ask
<1>8. CASE Refresh \/ ReloadReview \/ ReloadReports
  <2>1. PICK w \in Loaders : SendOnly({Ask(w, monthKey)}, w = "load")
    BY <1>8 DEF Refresh, ReloadReview, ReloadReports, Loaders
  <2> QED
    BY <1>7, <2>1, ReloadKeeps DEF SendOnly
<1>9. CASE ChooseDetail
  <2>1. Ask("detail", summary.of).what \in Loaders
    BY <1>7 DEF Loaders
  <2> QED
    BY <1>7, <1>9, <2>1, ReloadKeeps DEF ChooseDetail
<1>10. CASE ChooseAllocation \/ CancelPreview \/ NoticeExpires
  BY <1>10, UnseenKeeps DEF ChooseAllocation, CancelPreview, NoticeExpires, Seen
<1>11. CASE OpenReconcile \/ CloseReconcile \/ OpenSplitModal \/ CloseSplitModal
  BY <1>11, UnseenKeeps DEF OpenReconcile, CloseReconcile, OpenSplitModal, CloseSplitModal, Modals, Seen
<1> QED
  BY <1>2, <1>3, <1>4, <1>6, <1>8, <1>9, <1>10, <1>11, UserMoves \/ NoticeExpires, Zenon DEF UserMoves

-----------------------------------------------------------------------------
(* A call that changes none of what a load reads changes no month.         *)
LEMMA UntouchedStays ==
  ASSUME PageTyped, Saving, "load" \notin Touched(op.kind)
  PROVE  Written(op) = status[op.at] /\ op.kind \in {"preview", "splitDetail"}
<1>1. OpTyped /\ op # NoOp
  BY PageIs DEF PageRead, Saving
<1> QED
  BY <1>1 DEF OpTyped, Kinds, Touched, Loaders, Written

(* A read on the way goes stale and keeps all else.                        *)
LEMMA OutdateLoad ==
  ASSUME NEW l, LoadTyped(l), NEW b \in BOOLEAN
  PROVE  LET x == Outdate(l, b) IN
         /\ x.what = l.what /\ x.of = l.of /\ x.own = l.own /\ x.old = l.old /\ x.seen = l.seen
         /\ x.fresh <=> (l.fresh /\ ~b)
BY DEF Outdate, LoadTyped

(* A view goes stale and keeps all else.                                   *)
LEMMA OutdateView ==
  ASSUME NEW v \in Views, NEW b \in BOOLEAN
  PROVE  /\ Outdate(v, b).of = v.of /\ Outdate(v, b).closed = v.closed
         /\ Outdate(v, b).fresh <=> (v.fresh /\ ~b)
BY DEF Outdate, Views

(* The server acts: the handler will reload what went stale, or the page   *)
(* is in doubt.                                                            *)
LEMMA ServeKeeps ==
  ASSUME PageTyped, PageInv, Serve
  PROVE  PageInv'
<1>1. PageRead
  BY PageIs
<1>2. UNCHANGED <<use, monthKey, section, detailId, loading, doubt>> /\ Watched' = Watched
  BY DEF Serve, Watched
<1>3. Saving /\ op.phase = "sent" /\ OpTyped /\ op # NoOp
  BY <1>1 DEF Serve, PageRead, Saving
<1>4. NoOwn(loads) /\ Covered /\ Orderly(loads) /\ Chosen
  BY <1>3 DEF PageInv, Known, Awaited, NoOwn
<1>5. ASSUME NEW p \in {"refused", "done"}, op' = [op EXCEPT !.phase = p]
      PROVE  Saving' /\ op'.phase = p /\ op'.kind = op.kind /\ op'.at = op.at /\ op'.key = op.key
             /\ op'.todo = op.todo
  <2>1. op'.phase = p /\ op'.kind = op.kind /\ op'.at = op.at /\ op'.key = op.key /\ op'.todo = op.todo
    BY <1>3, <1>5 DEF OpTyped
  <2>2. op'.kind # NoOp.kind
    BY <1>3, <2>1 DEF OpTyped, Kinds, NoOp
  <2> QED
    BY <2>1, <2>2 DEF Saving
<1>6. \A w : ~Reloads(w) /\ ~Pending(w)
  BY <1>3 DEF Reloads, Pending, Deleted
<1>7. CASE ~Accepts(op)
  <2>1. op' = [op EXCEPT !.phase = "refused"]
        /\ UNCHANGED <<status, summary, book, review, detail, reports, loads>>
    BY <1>7, Zenon DEF Serve
  <2>2. Saving' /\ op'.phase = "refused" /\ op'.kind = op.kind /\ op'.key = op.key /\ op'.todo = op.todo
    BY <1>5, <2>1
  <2>3. Orderly(loads)' /\ Awaited' /\ Chosen'
    BY <1>2, <1>4, <2>1 DEF Orderly, Awaited, NoOwn, Chosen
  <2>4. Covered'
    <3>1. \A w : InSection(w)' <=> InSection(w)
      BY <1>2 DEF InSection
    <3> QED
      BY <1>2, <1>3, <1>4, <2>2, <3>1 DEF Covered
  <2>5. ASSUME NEW w \in Watched PROVE ViewOk(w)'
    <3>1. /\ Screened(w)' <=> Screened(w)
          /\ Wanted(w)' = Wanted(w)
          /\ OnItsWay(w)' <=> OnItsWay(w)
      BY <1>2, <2>1 DEF Screened, InSection, Wanted, OnItsWay
    <3>2. Current(w) => Current(w)'
      BY <1>2, <2>1 DEF Current, LoadCurrent, Existing
    <3> QED
      BY <1>2, <1>6, <2>1, <3>1, <3>2, Kept DEF PageInv
  <2> QED
    BY <1>2, <2>3, <2>4, <2>5 DEF PageInv, Known
<1>8. CASE Accepts(op)
  <2>1. PICK t : t = Touched(op.kind)
    OBVIOUS
  <2> DEFINE hit(l) == /\ l.what \in t
                       /\ l.of = op.at \/ l.what \in {"load", "reports"}
  <2>2. /\ op' = [op EXCEPT !.phase = "done"]
        /\ status' = [status EXCEPT ![op.at] = Written(op)]
        /\ summary' = Outdate(summary, "load" \in t /\ summary.of = op.at)
        /\ book' = Outdate(book, "load" \in t)
        /\ review' = Outdate(review, "review" \in t /\ review.of = op.at)
        /\ detail' = Outdate(detail, "detail" \in t /\ detail.of = op.at)
        /\ reports' = Outdate(reports, "reports" \in t)
        /\ loads' = {Outdate(l, hit(l)) : l \in loads}
    BY <1>8, <2>1, Zenon DEF Serve
  <2>3. Saving' /\ op'.phase = "done" /\ op'.kind = op.kind /\ op'.at = op.at /\ op'.key = op.key
        /\ op'.todo = op.todo
    BY <1>5, <2>2
  <2>4. \A l : hit(l) \in BOOLEAN
    OBVIOUS
  <2>5. \A x \in loads' : \E l \in loads :
          /\ x = Outdate(l, hit(l)) /\ x.what = l.what /\ x.of = l.of /\ x.own = l.own
          /\ x.old = l.old /\ x.seen = l.seen /\ (x.fresh <=> (l.fresh /\ ~hit(l)))
    <3> HIDE DEF hit
    <3> SUFFICES ASSUME NEW l \in loads
                 PROVE  LET x == Outdate(l, hit(l)) IN
                        /\ x.what = l.what /\ x.of = l.of /\ x.own = l.own
                        /\ x.old = l.old /\ x.seen = l.seen /\ (x.fresh <=> (l.fresh /\ ~hit(l)))
      BY <2>2
    <3> QED
      BY <1>1, <2>4, OutdateLoad DEF PageRead, LoadsTyped
  <2>6. "load" \notin t => status' = status
    BY <1>1, <1>3, <2>1, <2>2, UntouchedStays DEF PageRead, OpTyped
  <2>7. Orderly(loads)' /\ Awaited'
    <3>1. NoOwn(loads')
      BY <1>4, <2>5 DEF NoOwn
    <3>2. ASSUME NEW x \in loads', NEW y \in loads', x.what = y.what, ~x.old, ~y.old PROVE x = y
      <4>1. PICK l \in loads : x = Outdate(l, hit(l)) /\ x.what = l.what /\ x.old = l.old
        BY <2>5
      <4>2. PICK k \in loads : y = Outdate(k, hit(k)) /\ y.what = k.what /\ y.old = k.old
        BY <2>5
      <4>3. l = k
        BY <1>4, <3>2, <4>1, <4>2 DEF Orderly
      <4> QED
        BY <4>1, <4>2, <4>3
    <3>3. ASSUME NEW x \in loads', x.what = "load", x.fresh PROVE x.seen = status'
      <4>1. PICK l \in loads : x.what = l.what /\ x.seen = l.seen /\ (x.fresh <=> (l.fresh /\ ~hit(l)))
        BY <2>5
      <4>2. "load" \notin t
        BY <3>3, <4>1
      <4>3. l.seen = status
        BY <1>4, <3>3, <4>1 DEF Orderly
      <4> QED
        BY <2>6, <4>1, <4>2, <4>3
    <3> QED
      BY <3>1, <3>2, <3>3 DEF Orderly, Awaited, NoOwn
  <2>8. /\ summary'.of = summary.of /\ summary'.closed = summary.closed
        /\ summary'.fresh <=> (summary.fresh /\ ~("load" \in t /\ summary.of = op.at))
    <3>1. ("load" \in t /\ summary.of = op.at) \in BOOLEAN
      OBVIOUS
    <3> QED
      BY <1>1, <2>2, <3>1, OutdateView DEF PageRead
  <2>9. Chosen'
    BY <1>2, <1>4, <2>8 DEF Chosen
  <2>10. Covered'
    <3>1. \A w : InSection(w)' <=> InSection(w)
      BY <1>2 DEF InSection
    <3> QED
      BY <1>2, <1>3, <1>4, <2>3, <3>1 DEF Covered
  <2>11. \A w \in Watched : w \in t /\ Screened(w) /\ w \notin doubt
           /\ (op.kind = "delete" => w \in {"load", "reports"}) => Reloads(w)'
    <3>1. \A w : Screened(w) => InSection(w)
      BY DEF Screened, InSection
    <3> QED
      BY <1>3, <1>4, <2>1, <2>3, <3>1 DEF Covered, Reloads
  <2>12. \A w : (Screened(w)' <=> Screened(w)) /\ Wanted(w)' = Wanted(w)
    BY <1>2, <2>8 DEF Screened, InSection, Wanted
  <2>13. \A w : OnItsWay(w) => OnItsWay(w)'
    <3>1. ASSUME NEW l \in loads PROVE \E x \in loads' : x.what = l.what
      <4>1. Outdate(l, hit(l)) \in loads'
        BY <2>2
      <4> HIDE DEF hit
      <4>2. Outdate(l, hit(l)).what = l.what
        BY <1>1, <2>4, OutdateLoad DEF PageRead, LoadsTyped
      <4> QED
        BY <4>1, <4>2
    <3> QED
      BY <1>2, <3>1 DEF OnItsWay
  <2>14. ASSUME NEW w \in Watched, w \notin t \/ (op.kind = "delete" /\ w \in {"review", "detail"}),
                w \in t => op.at # Wanted(w)
         PROVE  ViewOk(w)'
    <3>1. Current(w) => Current(w)' \/ Pending(w)'
      <4> SUFFICES ASSUME Current(w), ~Pending(w)' PROVE Current(w)'
        OBVIOUS
      <4>1. CASE w = "load"
        <5>1. "load" \notin t
          BY <2>14, <4>1
        <5>2. summary' = summary /\ book' = book /\ status' = status
          BY <1>1, <2>2, <2>6, <5>1 DEF Outdate, PageRead, Views
        <5> QED
          BY <1>2, <4>1, <5>2 DEF Current, LoadCurrent, Existing
      <4>2. CASE w = "review"
        <5>1. ~("review" \in t /\ review.of = op.at)
          BY <2>14, <4>2 DEF Current, Wanted
        <5>2. review' = review
          BY <1>1, <2>2, <5>1 DEF Outdate, PageRead, Views
        <5> QED
          BY <1>2, <4>2, <5>2 DEF Current
      <4>3. CASE w = "detail"
        <5>1. ~("detail" \in t /\ detail.of = op.at)
          BY <2>14, <4>3 DEF Current, Wanted
        <5>2. detail' = detail
          BY <1>1, <2>2, <5>1 DEF Outdate, PageRead, Views
        <5> QED
          BY <1>2, <4>3, <5>2 DEF Current
      <4>4. CASE w = "reports"
        <5>1. "reports" \notin t
          BY <2>14, <4>4
        <5>2. reports' = reports
          BY <1>1, <2>2, <5>1 DEF Outdate, PageRead, Views
        <5> QED
          BY <1>2, <4>4, <5>2 DEF Current
      <4> QED
        BY <4>1, <4>2, <4>3, <4>4 DEF Watched
    <3>2. ASSUME NEW x \in loads', x.what = w, ~x.old, ~x.fresh, x.of = Wanted(w)
          PROVE  \E l \in loads : l.what = w /\ ~l.old /\ ~l.fresh /\ l.of = x.of
      <4>1. PICK l \in loads : x.what = l.what /\ x.of = l.of /\ x.old = l.old /\ (x.fresh <=> (l.fresh /\ ~hit(l)))
        BY <2>5
      <4>2. ~hit(l)
        BY <2>14, <3>2, <4>1
      <4> QED
        BY <3>2, <4>1, <4>2
    <3>3. ViewOk(w) /\ (w \in doubt => (w \in doubt)')
      BY <1>2 DEF PageInv
    <3> QED
      BY <1>6, <2>12, <2>13, <3>1, <3>2, <3>3, Kept
  <2>15. ASSUME NEW w \in Watched PROVE ViewOk(w)'
    <3>1. CASE w \in doubt \/ ~Screened(w)
      BY <1>2, <2>12, <3>1, Doubted, Unscreened
    <3>2. CASE w \notin t
      BY <2>14, <3>2
    <3>3. CASE w \in t /\ Screened(w) /\ w \notin doubt /\ (op.kind = "delete" => w \in {"load", "reports"})
      BY <2>11, <3>3, Reloading
    <3>4. CASE w \in t /\ w \notin doubt /\ op.kind = "delete" /\ w \notin {"load", "reports"}
      <4>1. w \in {"review", "detail"}
        BY <3>4 DEF Watched
      <4>2. CASE w = "review" /\ op.at = op.key
        <5>1. Reloads(w)'
          BY <2>3, <3>4, <4>2 DEF Reloads, Deleted
        <5> QED
          BY <5>1, Reloading
      <4>3. CASE w = "detail" /\ op.at = detailId
        <5>1. Reloads(w)'
          BY <1>2, <2>3, <3>4, <4>3 DEF Reloads, Deleted
        <5> QED
          BY <5>1, Reloading
      <4>4. CASE op.at # Wanted(w)
        BY <2>14, <3>4, <4>1, <4>4
      <4>5. w = "review" => monthKey = op.key
        BY <1>3, <1>4, <2>1, <3>4 DEF Covered
      <4> QED
        BY <4>1, <4>2, <4>3, <4>4, <4>5 DEF Wanted
    <3> QED
      BY <3>1, <3>2, <3>3, <3>4
  <2> QED
    BY <1>2, <2>7, <2>9, <2>10, <2>15 DEF PageInv, Known
<1> QED
  BY <1>7, <1>8

-----------------------------------------------------------------------------
(* Reads sent one after the other.                                         *)
LEMMA FollowBoth ==
  ASSUME NEW a, NEW b, NEW c, NEW some, NEW more, NEW w,
         Follow(a, b, some, w), Follow(b, c, more, w)
  PROVE  Follow(a, c, some \cup more, w)
<1>1. (\E x \in a : x.what = w) => \E x \in c : x.what = w
  BY DEF Follow
<1>2. (\E x \in some \cup more : x.what = w) => \E x \in c : x.what = w
  BY DEF Follow
<1>3. Renewed(a, w) \/ (\E x \in some \cup more : x.what = w) => Renewed(c, w)
  BY DEF Follow
<1>4. \A x \in c : x.what = w /\ ~x.old /\ ~x.fresh =>
        \E y \in a : y.what = w /\ ~y.old /\ ~y.fresh /\ y.of = x.of
  BY DEF Follow
<1> QED
  BY <1>1, <1>2, <1>3, <1>4 DEF Follow

(* No read sent.                                                           *)
LEMMA FollowNone ==
  ASSUME NEW ls, NEW w
  PROVE  Follow(ls, ls, {}, w)
BY DEF Follow

(* A handler that goes on, seen from one view.                             *)
LEMMA ContinueFollows ==
  ASSUME PageTyped, Saving, NEW ls, LoadsTyped(ls), NEW todo, todo \subseteq Loaders,
         Continue(todo, ls), NEW w
  PROVE  /\ Saving' => op'.phase = "reload"
         /\ \A v \in todo : Reloads(v)'
         /\ \E asks : /\ Follow(ls, loads', asks, w)
                      /\ \A a \in asks : a.what \in todo
                      /\ "load" \in todo => \E a \in asks : a.what = "load"
<1>1. CASE todo = {} /\ op' = NoOp /\ loads' = ls
  <2>1. Follow(ls, loads', {}, w)
    BY <1>1, FollowNone
  <2> QED
    BY <1>1, <2>1 DEF Saving
<1>2. ASSUME NEW asks, loads' = Send(ls, asks, TRUE), op' # NoOp, op'.phase = "reload", op'.todo = todo,
             \A a \in asks : a.what \in todo, "load" \in todo => \E a \in asks : a.what = "load"
      PROVE  /\ Saving' => op'.phase = "reload"
             /\ \A v \in todo : Reloads(v)'
             /\ \E as : /\ Follow(ls, loads', as, w)
                        /\ \A a \in as : a.what \in todo
                        /\ "load" \in todo => \E a \in as : a.what = "load"
  <2>1. Follow(ls, loads', asks, w)
    BY <1>2, SendKeeps
  <2> QED
    BY <1>2, <2>1 DEF Reloads, Saving
<1> QED
  BY <1>1, <1>2, ContinueIs

(* A call that succeeded: from now on its handler reloads.                 *)
LEMMA CallSucceedsKeeps ==
  ASSUME PageTyped, PageInv, CallSucceeds
  PROVE  PageInv'
<1>1. PageRead
  BY PageIs
<1>2. UNCHANGED <<status, use, monthKey, section, summary, book, review, detailId, detail, reports, doubt>>
  BY DEF CallSucceeds
<1>3. Saving /\ op.phase = "done" /\ op.kind # "delete" /\ op.todo \subseteq Loaders
  BY <1>1, OpRead DEF CallSucceeds, PageRead, Saving, NoOp
<1>4. Continue(op.todo, loads) /\ loading' = (loading \/ "load" \in op.todo) /\ LoadsTyped(loads)
  BY <1>1 DEF CallSucceeds, PageRead
<1>5. Orderly(loads)' /\ Awaited'
  <2>1. NoOwn(loads) /\ Orderly(loads)
    BY <1>3 DEF PageInv, Known, Awaited, NoOwn
  <2> QED
    BY <1>2, <1>3, <1>4, <2>1, ContinueOrderly
<1>6. Saving' => op'.phase = "reload"
  BY <1>3, <1>4, ContinueFollows
<1>7. Covered' /\ Chosen' /\ Watched' = Watched
  BY <1>2, <1>6 DEF Covered, Chosen, PageInv, Known, Watched
<1>8. ASSUME NEW w \in Watched PROVE ViewOk(w)'
  <2>1. PICK asks : /\ Follow(loads, loads', asks, w)
                    /\ \A a \in asks : a.what \in op.todo
    BY <1>3, <1>4, ContinueFollows
  <2>2. CASE \E a \in asks : a.what = w
    <3>1. OnItsWay(w)'
      BY <1>4, <2>1, <2>2 DEF OnItsWay, Follow
    <3>2. Renewed(loads', w)
      BY <2>1, <2>2 DEF Follow
    <3> QED
      BY <3>1, <3>2, Asked
  <2>3. CASE ~\E a \in asks : a.what = w
    <3>1. /\ Screened(w)' <=> Screened(w)
          /\ Wanted(w)' = Wanted(w)
          /\ OnItsWay(w) => OnItsWay(w)'
      BY <1>2, <1>4, <2>1 DEF Screened, InSection, Wanted, OnItsWay, Follow
    <3>2. Current(w) => Current(w)'
      BY <1>2 DEF Current, LoadCurrent, Existing
    <3>3. Reloads(w) => Reloads(w)'
      <4>1. Reloads(w) => w \in op.todo
        BY <1>3 DEF Reloads, Deleted
      <4> QED
        BY <1>3, <1>4, <4>1, ContinueFollows
    <3>4. Pending(w) => Pending(w)'
      BY <1>3, <3>3 DEF Pending, Deleted
    <3>5. ViewOk(w) /\ (w \in doubt => (w \in doubt)')
      BY <1>2 DEF PageInv
    <3> QED
      BY <2>1, <3>1, <3>2, <3>3, <3>4, <3>5, Kept DEF Follow
  <2> QED
    BY <2>2, <2>3
<1> QED
  BY <1>5, <1>7, <1>8 DEF PageInv, Known

(* A deletion that succeeded: the page moves to another month, or stays on *)
(* one that is gone.                                                       *)
LEMMA DeleteSucceedsKeeps ==
  ASSUME PageTyped, PageInv, DeleteSucceeds
  PROVE  PageInv'
<1>1. PageRead
  BY PageIs
<1>2. op # NoOp /\ OpTyped /\ Saving /\ op.phase = "done" /\ op.kind = "delete" /\ Deleted
  BY <1>1 DEF DeleteSucceeds, PageRead, NoOp, Saving, Deleted
<1>3. UNCHANGED <<status, use, section, review, detailId, detail, reports>> /\ Watched' = Watched
  BY DEF DeleteSucceeds, Watched
<1> DEFINE left == op.rows \ {op.at}
           shown == op.at = op.key
           next == IF left = {} THEN ThisMonth ELSE CHOOSE m \in left : \A n \in left : n <= m
           moved == shown /\ next # monthKey
           asks == {a \in {Ask("load", next)} : moved}
                     \cup {a \in {Ask("reports", next)} : moved /\ section = "reports"}
           todo == IF ~shown THEN op.todo ELSE IF next = op.key THEN {"load"} ELSE {}
           ls == Send(loads, asks, FALSE)
<1>4. /\ monthKey' = IF shown THEN next ELSE monthKey
      /\ summary' = IF shown THEN NoView ELSE summary
      /\ Continue(todo, ls)
      /\ loading' = (loading \/ moved \/ ~shown \/ next = op.key)
      /\ doubt' = doubt \cup {w \in Watched : (w = "detail" /\ op.at \in {detail.of, detailId})
                                          \/ (w = "reports" /\ shown /\ ~moved)}
  BY Zenon DEF DeleteSucceeds
<1>5. next \in Months
  BY <1>2, LastMonth, MonthsAssumption DEF OpTyped
<1>6. OneEach(asks) /\ \A a \in asks : a.what \in Watched /\ a.of \in Months
  <2>1. \A a \in asks : a = Ask("load", next) \/ (a = Ask("reports", next) /\ section = "reports")
    BY Zenon
  <2>2. "load" \in Watched /\ (section = "reports" => "reports" \in Watched)
    BY <1>1 DEF Watched, PageRead
  <2> HIDE DEF asks, next
  <2> QED
    BY <1>5, <2>1, <2>2 DEF Ask, OneEach
<1>7. /\ moved => \E a \in asks : a.what = "load"
      /\ moved /\ section = "reports" => \E a \in asks : a.what = "reports"
  <2>1. /\ moved => Ask("load", next) \in asks
        /\ moved /\ section = "reports" => Ask("reports", next) \in asks
    OBVIOUS
  <2>2. Ask("load", next).what = "load" /\ Ask("reports", next).what = "reports"
    BY DEF Ask
  <2> HIDE DEF asks, next, moved
  <2> QED
    BY <2>1, <2>2
<1>8. todo \subseteq Loaders /\ (~shown => todo = op.todo /\ "load" \in todo)
      /\ (shown /\ next = op.key => todo = {"load"})
  BY <1>1, <1>2, OpRead DEF OpTyped, Loaders
<1>9. moved <=> shown /\ next # monthKey
  OBVIOUS
<1> HIDE DEF left, next, moved, asks, todo
<1>10. LoadsTyped(ls) /\ Orderly(ls) /\ NoOwn(ls)
  <2>1. LoadsTyped(loads) /\ NoOwn(loads) /\ Orderly(loads)
    BY <1>1, <1>2 DEF PageInv, Known, Awaited, NoOwn, PageRead
  <2> QED
    BY <1>6, <2>1, SendTyped, SendOrderly
<1>11. Orderly(loads)' /\ Awaited'
  BY <1>2, <1>3, <1>4, <1>8, <1>10, ContinueOrderly
<1>12. Saving' => op'.phase = "reload"
  BY <1>2, <1>4, <1>8, <1>10, ContinueFollows
<1>a. ASSUME NEW v \in todo PROVE Reloads(v)'
  BY <1>2, <1>4, <1>8, <1>10, ContinueFollows, Zenon
<1>13. Covered' /\ Chosen'
  BY <1>3, <1>4, <1>12 DEF Covered, Chosen, PageInv, Known, NoView
<1>14. ASSUME NEW w \in Watched PROVE ViewOk(w)'
  <2>1. PICK more : /\ Follow(ls, loads', more, w)
                    /\ \A a \in more : a.what \in todo
                    /\ "load" \in todo => \E a \in more : a.what = "load"
    BY <1>2, <1>4, <1>8, <1>10, ContinueFollows, Zenon
  <2>2. Follow(loads, loads', asks \cup more, w)
    <3>1. Follow(loads, ls, asks, w)
      BY <1>1, SendKeeps DEF PageRead
    <3> QED
      BY <2>1, <3>1, FollowBoth
  <2>4. w \notin doubt' => w \notin doubt
    BY <1>4
  <2>5. (\E a \in asks \cup more : a.what = w) => Renewed(loads', w) /\ (OnItsWay(w) \/ w # "load" => OnItsWay(w)')
    BY <1>4, <2>2 DEF Follow, OnItsWay
  <2>6. ASSUME w # "load", w \notin doubt', ~shown \/ w = "detail" PROVE ViewOk(w)'
    <3>1. /\ Screened(w)' => Screened(w)
          /\ Wanted(w)' = Wanted(w)
          /\ OnItsWay(w) => OnItsWay(w)'
      BY <1>3, <1>4, <2>2, <2>6 DEF Screened, InSection, Wanted, OnItsWay, Follow
    <3>2. Current(w) => Current(w)'
      BY <1>3, <1>4, <2>6 DEF Current
    <3>3. Pending(w) => w \in op.todo /\ ~shown
      <4>1. w = "detail" => op.at \notin {detail.of, detailId}
        BY <1>4, <2>6
      <4> QED
        BY <1>2, <2>6, <4>1 DEF Pending, Reloads, Deleted
    <3>4. Pending(w) => Reloads(w)'
      BY <1>8, <1>a, <3>3
    <3>5. (Reloads(w) => Reloads(w)') /\ (Pending(w) => Pending(w)')
      BY <3>4 DEF Pending
    <3>6. ViewOk(w)
      BY DEF PageInv
    <3> QED
      BY <2>2, <2>4, <2>6, <3>1, <3>2, <3>5, <3>6, Kept DEF Follow
  <2>7. CASE w \in doubt'
    BY <2>7, Doubted
  <2>8. CASE w = "load" /\ w \notin doubt'
    <3>1. moved \/ ~shown \/ (shown /\ next = op.key)
      <4>1. Covered /\ Touched(op.kind) = Loaders
        BY <1>2 DEF PageInv, Known, Touched
      <4>2. monthKey = op.key
        BY <1>2, <2>4, <2>8, <4>1 DEF Covered, Loaders
      <4> QED
        BY <1>9, <4>2
    <3>2. \E a \in asks \cup more : a.what = w
      BY <1>7, <1>8, <2>1, <2>8, <3>1
    <3>3. OnItsWay(w)'
      BY <1>4, <2>8, <3>1 DEF OnItsWay
    <3> QED
      BY <2>5, <3>2, <3>3, Asked
  <2>9. CASE w = "review" /\ w \notin doubt'
    <3>1. CASE shown
      <4>1. ~Screened(w)'
        BY <1>4, <2>9, <3>1 DEF Screened, NoView
      <4> QED
        BY <4>1, Unscreened
    <3> QED
      BY <2>6, <2>9, <3>1
  <2>10. CASE w = "reports" /\ w \notin doubt'
    <3>1. CASE shown
      <4>1. moved
        BY <1>4, <2>10, <3>1
      <4>2. CASE section = "reports"
        <5>1. \E a \in asks \cup more : a.what = w
          BY <1>7, <2>10, <4>1, <4>2
        <5> QED
          BY <2>5, <2>10, <5>1, Asked
      <4>3. CASE section # "reports"
        BY <1>3, <2>10, <4>3, Unscreened DEF Screened, InSection
      <4> QED
        BY <4>2, <4>3
    <3> QED
      BY <2>6, <2>10, <3>1
  <2>11. CASE w = "detail" /\ w \notin doubt'
    BY <2>6, <2>11
  <2> QED
    BY <2>7, <2>8, <2>9, <2>10, <2>11 DEF Watched
<1> QED
  BY <1>3, <1>11, <1>13, <1>14 DEF PageInv, Known

-----------------------------------------------------------------------------
(* A read that ends: the reads left, and the handler that awaited it.      *)
LEMMA EndedIs ==
  ASSUME PageTyped, PageInv, NEW l \in loads
  PROVE  /\ LoadsTyped(loads \ {l}) /\ Orderly(loads \ {l})
         /\ l.own => NoOwn(loads \ {l}) /\ Saving /\ op.phase = "reload" /\ l.fresh
         /\ ~l.old => Renewed(loads \ {l}, l.what)
         /\ \A w : w # l.what => Follow(loads, loads \ {l}, {}, w)
<1>1. LoadsTyped(loads \ {l})
  BY PageIs DEF PageRead, LoadsTyped
<1>2. Orderly(loads) /\ Awaited
  BY DEF PageInv, Known
<1>3. Orderly(loads \ {l})
  BY <1>2 DEF Orderly
<1>4. l.own => NoOwn(loads \ {l}) /\ Saving /\ op.phase = "reload" /\ l.fresh
  BY <1>2 DEF Orderly, Awaited, NoOwn
<1>5. ~l.old => Renewed(loads \ {l}, l.what)
  BY <1>2 DEF Orderly, Renewed
<1>6. ASSUME NEW w, w # l.what PROVE Follow(loads, loads \ {l}, {}, w)
  BY <1>6 DEF Follow, Renewed
<1> QED
  BY <1>1, <1>3, <1>4, <1>5, <1>6

(* A read that ends leaves the others in order.                            *)
LEMMA ProceedOrderly ==
  ASSUME PageTyped, PageInv, status' = status, NEW l \in loads,
         NEW ls, LoadsTyped(ls), Orderly(ls), l.own => NoOwn(ls), Proceed(l, ls),
         ~l.own => \A x \in ls : x.own => Saving /\ op.phase = "reload"
  PROVE  Orderly(loads)' /\ Awaited'
<1>1. CASE l.own
  <2>1. Saving /\ op.todo \subseteq Loaders
    BY <1>1, EndedIs, OpRead, PageIs DEF PageRead
  <2>2. Continue(op.todo \ {l.what}, ls)
    BY <1>1 DEF Proceed
  <2> QED
    BY <1>1, <2>1, <2>2, ContinueOrderly
<1>2. CASE ~l.own
  BY <1>2 DEF Proceed, Orderly, Awaited, Saving
<1> QED
  BY <1>1, <1>2

(* A read that ends, seen from one view.                                   *)
LEMMA ProceedFollows ==
  ASSUME PageTyped, PageInv, NEW l \in loads, NEW ls, LoadsTyped(ls), Proceed(l, ls), NEW w
  PROVE  /\ \E asks : Follow(ls, loads', asks, w)
         /\ w # l.what /\ Wanted(w)' = Wanted(w) =>
              /\ Reloads(w) => Reloads(w)'
              /\ (w = "detail" => detail' = detail) => (Pending(w) => Pending(w)')
<1>1. CASE l.own
  <2>1. Saving /\ op.phase = "reload" /\ op.todo \subseteq Loaders
    BY <1>1, EndedIs, OpRead, PageIs DEF PageRead
  <2> DEFINE todo == op.todo \ {l.what}
  <2>2. Continue(todo, ls) /\ todo \subseteq Loaders
    BY <1>1, <2>1 DEF Proceed
  <2>3. w # l.what => (Reloads(w) => w \in todo) /\ (Pending(w) => Reloads(w))
    BY <2>1 DEF Reloads, Pending, Deleted
  <2> HIDE DEF todo
  <2>4. \E asks : /\ Follow(ls, loads', asks, w)
                  /\ \A a \in asks : a.what \in todo
                  /\ "load" \in todo => \E a \in asks : a.what = "load"
    BY <2>1, <2>2, ContinueFollows, Zenon
  <2>5. \A v \in todo : Reloads(v)'
    BY <2>1, <2>2, ContinueFollows, Zenon
  <2> QED
    BY <2>3, <2>4, <2>5 DEF Pending
<1>2. CASE ~l.own
  <2>1. op' = op /\ loads' = ls
    BY <1>2 DEF Proceed
  <2>2. Follow(ls, loads', {}, w)
    BY <2>1, FollowNone
  <2> QED
    BY <2>1, <2>2 DEF Pending, Reloads, Deleted, Saving, Wanted
<1> QED
  BY <1>1, <1>2

(* What an answer leaves of what the page knows of the handler.            *)
LEMMA AnswerCovered ==
  ASSUME PageTyped, PageInv, UNCHANGED <<use, monthKey, section>>, NEW l \in loads, NEW ls, LoadsTyped(ls),
         Proceed(l, ls), NEW fresh \in BOOLEAN, doubt' = DoubtAfter(l, fresh) \/ doubt' = doubt \cup {l.what}
  PROVE  Covered'
<1>1. CASE l.own
  <2>1. Saving /\ op.todo \ {l.what} \subseteq Loaders
    BY <1>1, EndedIs, OpRead, PageIs DEF PageRead
  <2>2. Saving' => op'.phase = "reload"
    BY <1>1, <2>1, ContinueFollows DEF Proceed
  <2> QED
    BY <2>2 DEF Covered
<1>2. CASE ~l.own
  <2>1. op' = op
    BY <1>2 DEF Proceed
  <2>2. Saving => \A w \in Touched(op.kind) : w \in doubt => w \in doubt'
    BY <1>2 DEF DoubtAfter
  <2>3. Covered
    BY DEF PageInv, Known
  <2>4. \A w : InSection(w)' <=> InSection(w)
    BY DEF InSection
  <2>5. Watched' = Watched
    BY DEF Watched
  <2> QED
    BY <2>1, <2>2, <2>3, <2>4, <2>5 DEF Covered, Saving
<1> QED
  BY <1>1, <1>2

(* A view the answer is not for: asked for again by the effects of a new   *)
(* summary, or off the screen, or left as it was.                          *)
LEMMA AnswerOthers ==
  ASSUME PageTyped, PageInv, NEW l \in loads, NEW asks, NEW ls, LoadsTyped(ls), Proceed(l, ls),
         NEW w \in Watched, w # l.what, Follow(loads \ {l}, ls, asks, w),
         w \in doubt => w \in doubt',
         w = "load" => loading' = loading,
         \/ w # "load" /\ \E a \in asks : a.what = w
         \/ ~Screened(w)'
         \/ /\ Wanted(w)' = Wanted(w) /\ (Screened(w)' => Screened(w)) /\ (Current(w) => Current(w)')
            /\ w = "detail" => detail' = detail
  PROVE  ViewOk(w)'
<1>1. PICK more : Follow(loads, loads', (({} \cup asks) \cup more), w)
  <2>1. PICK more : Follow(ls, loads', more, w)
    BY ProceedFollows, Zenon
  <2>2. Follow(loads, loads \ {l}, {}, w)
    BY EndedIs
  <2> QED
    BY <2>1, <2>2, FollowBoth
<1>2. CASE w # "load" /\ \E a \in asks : a.what = w
  <2>1. \E a \in (({} \cup asks) \cup more) : a.what = w
    BY <1>2
  <2>2. OnItsWay(w)' /\ Renewed(loads', w)
    BY <1>1, <1>2, <2>1 DEF Follow, OnItsWay
  <2> QED
    BY <2>2, Asked
<1>3. CASE ~Screened(w)'
  BY <1>3, Unscreened
<1>4. CASE /\ Wanted(w)' = Wanted(w) /\ (Screened(w)' => Screened(w)) /\ (Current(w) => Current(w)')
           /\ w = "detail" => detail' = detail
  <2>1. OnItsWay(w) => OnItsWay(w)'
    BY <1>1 DEF Follow, OnItsWay
  <2>2. (Reloads(w) => Reloads(w)') /\ (Pending(w) => Pending(w)')
    BY <1>4, ProceedFollows, Zenon
  <2>3. \A x \in loads' : x.what = w /\ ~x.old /\ ~x.fresh =>
          \E k \in loads : k.what = w /\ ~k.old /\ ~k.fresh /\ k.of = x.of
    BY <1>1 DEF Follow
  <2>4. ViewOk(w)
    BY DEF PageInv
  <2> QED
    BY <1>4, <2>1, <2>2, <2>3, <2>4, Kept
<1> QED
  BY <1>2, <1>3, <1>4

(* The view the answer is for: current if it was the newest and fresh,     *)
(* known to be doubtful or about to be read again if not.                  *)
LEMMA AnswerItself ==
  ASSUME PageTyped, PageInv, NEW l \in loads, NEW asks, NEW ls, LoadsTyped(ls), Proceed(l, ls),
         Follow(loads \ {l}, ls, asks, l.what), l.what \in Watched,
         NEW v \in Reads(l), doubt' = DoubtAfter(l, v.fresh),
         InOrder(l) /\ v.fresh => Current(l.what)',
         Screened(l.what)' => Screened(l.what), l.what = "detail" => detailId' = detailId
  PROVE  ViewOk(l.what)'
<1>1. LoadTyped(l)
  BY PageIs DEF PageRead, LoadsTyped
<1>2. v.fresh \in BOOLEAN /\ (l.fresh => v.fresh)
  <2>1. v = [seen |-> l.seen, fresh |-> l.fresh] \/ v = [seen |-> status, fresh |-> TRUE]
    BY Zenon DEF Reads
  <2>2. v.fresh = l.fresh \/ v.fresh = TRUE
    BY ONLY <2>1
  <2> QED
    BY <1>1, <2>2 DEF LoadTyped
<1>3. CASE ~InOrder(l)
  <2>1. l.what \in doubt'
    BY <1>2, <1>3 DEF DoubtAfter
  <2> QED
    BY <2>1, Doubted
<1>4. CASE InOrder(l) /\ v.fresh
  <2>1. Renewed(loads \ {l}, l.what)
    BY <1>4, EndedIs DEF InOrder
  <2>2. Renewed(ls, l.what)
    BY <2>1 DEF Follow
  <2>3. PICK more : Follow(ls, loads', more, l.what)
    BY ProceedFollows, Zenon
  <2>4. Renewed(loads', l.what)
    BY <2>2, <2>3 DEF Follow
  <2> QED
    BY <1>4, <2>4, Answered
<1>5. CASE InOrder(l) /\ ~v.fresh
  <2>1. ~l.own /\ ~l.fresh
    BY <1>1, <1>2, <1>5, EndedIs DEF LoadTyped
  <2>2. doubt' = doubt
    BY <1>2, <1>5, <2>1 DEF DoubtAfter
  <2>3. op' = op
    BY <2>1 DEF Proceed
  <2>4. ~Screened(l.what) \/ l.what \in doubt \/ Reloads(l.what)
    BY <1>5, <2>1 DEF PageInv, ViewOk, Stale
  <2>5. Reloads(l.what) => Reloads(l.what)'
    BY <2>3 DEF Reloads, Deleted, Saving
  <2> QED
    BY <2>2, <2>4, <2>5, Unscreened, Doubted, Reloading
<1> QED
  BY <1>3, <1>4, <1>5

-----------------------------------------------------------------------------
(* The load answers, and its effects ask for the review of what it found.  *)
LEMMA LoadAnswersKeeps ==
  ASSUME PageTyped, PageInv, NEW l \in loads, LoadAnswers(l)
  PROVE  PageInv'
<1>1. PageRead /\ UNCHANGED <<status, use, monthKey, section, review, detail, reports>> /\ Watched' = Watched
  BY PageIs DEF LoadAnswers, Watched
<1>2. LoadTyped(l) /\ l.what = "load"
  BY <1>1 DEF LoadAnswers, PageRead, LoadsTyped
<1>3. PICK v \in Reads(l) :
        LET found == Exists(v.seen[l.of])
            id    == IF section = "review" /\ detailId = None /\ found THEN l.of ELSE detailId
        IN  /\ summary' = IF found THEN [of |-> l.of, closed |-> v.seen[l.of] = "closed", fresh |-> v.fresh]
                          ELSE NoView
            /\ book' = [rows |-> Existing(v.seen), closed |-> ClosedOf(v.seen), fresh |-> v.fresh]
            /\ preview' = IF found THEN None ELSE preview
            /\ formRow' = IF found /\ formRow = None THEN l.of ELSE formRow
            /\ detailId' = id
            /\ Proceed(l, Send(loads \ {l},
                   {a \in {Ask("review", monthKey)} : section = "review" /\ found}
                   \cup {a \in {Ask("detail", id)} : id # detailId}, FALSE))
            /\ doubt' = DoubtAfter(l, v.fresh)
  BY DEF LoadAnswers
<1>4. v.fresh \in BOOLEAN
  BY <1>2, <1>3, ReadsTyped
<1> DEFINE found == Exists(v.seen[l.of])
           id == IF section = "review" /\ detailId = None /\ found THEN l.of ELSE detailId
           asks == {a \in {Ask("review", monthKey)} : section = "review" /\ found}
                   \cup {a \in {Ask("detail", id)} : id # detailId}
           ls == Send(loads \ {l}, asks, FALSE)
<1>5. /\ summary' = IF found THEN [of |-> l.of, closed |-> v.seen[l.of] = "closed", fresh |-> v.fresh]
                    ELSE NoView
      /\ book' = [rows |-> Existing(v.seen), closed |-> ClosedOf(v.seen), fresh |-> v.fresh]
      /\ detailId' = id
      /\ Proceed(l, ls)
      /\ doubt' = DoubtAfter(l, v.fresh)
  BY <1>3
<1>6. id \in Months \cup {None} /\ (id # detailId => id \in Months /\ section = "review")
      /\ (section = "review" /\ found => id # None)
  BY <1>1, <1>2, MonthsAssumption DEF PageRead, LoadTyped, None
<1>7. /\ OneEach(asks) /\ \A a \in asks : a.what \in Watched /\ a.of \in Months /\ a.what # "load"
      /\ section = "review" /\ found => \E a \in asks : a.what = "review"
      /\ id # detailId => \E a \in asks : a.what = "detail"
  <2>1. \A a \in asks : \/ a = Ask("review", monthKey) /\ section = "review"
                        \/ a = Ask("detail", id) /\ id # detailId
    BY Zenon
  <2>2. section = "review" => {"review", "detail"} \subseteq Watched
    BY <1>1 DEF Watched, PageRead
  <2>3. \A w, of : Ask(w, of).what = w /\ Ask(w, of).of = of
    BY DEF Ask
  <2>4. /\ section = "review" /\ found => Ask("review", monthKey) \in asks
        /\ id # detailId => Ask("detail", id) \in asks
    OBVIOUS
  <2>5. monthKey \in Months
    BY <1>1 DEF PageRead
  <2> HIDE DEF asks, id, found
  <2> QED
    BY <1>6, <2>1, <2>2, <2>3, <2>4, <2>5 DEF OneEach
<1>8. found => summary'.of = l.of
  BY <1>5
<1>9. ~found => summary'.of = None
  BY <1>5 DEF NoView
<1> HIDE DEF found, id, asks
<1>10. LoadsTyped(ls) /\ Orderly(ls) /\ (l.own => NoOwn(ls))
       /\ (~l.own => \A x \in ls : x.own => Saving /\ op.phase = "reload")
  <2>1. LoadsTyped(loads \ {l}) /\ Orderly(loads \ {l}) /\ (l.own => NoOwn(loads \ {l}))
    BY EndedIs
  <2>2. LoadsTyped(ls) /\ Orderly(ls) /\ (NoOwn(loads \ {l}) => NoOwn(ls))
    BY <1>7, <2>1, SendTyped, SendOrderly
  <2>3. ASSUME NEW x \in ls, x.own PROVE Saving /\ op.phase = "reload"
    <3>1. (\E k \in loads \ {l} : IsKept(x, k, asks)) \/ (\E a \in asks : IsNew(x, a, FALSE))
      BY <2>1, SendIs, Zenon
    <3>2. ASSUME NEW a \in asks, IsNew(x, a, FALSE) PROVE FALSE
      BY <2>3, <3>2 DEF IsNew
    <3>3. ASSUME NEW k \in loads \ {l}, IsKept(x, k, asks) PROVE Saving /\ op.phase = "reload"
      BY <2>3, <3>3 DEF IsKept, PageInv, Known, Awaited
    <3> QED
      BY <3>1, <3>2, <3>3
  <2> QED
    BY <2>1, <2>2, <2>3
<1> HIDE DEF ls
<1>11. \A w : Follow(loads \ {l}, ls, asks, w)
  <2> TAKE w
  <2>1. LoadsTyped(loads \ {l})
    BY EndedIs
  <2> QED
    BY <2>1, SendKeeps DEF ls
<1>12. Orderly(loads)' /\ Awaited'
  BY <1>1, <1>5, <1>10, ProceedOrderly
<1>13. Covered'
  BY <1>1, <1>4, <1>5, <1>10, AnswerCovered
<1>14. Chosen'
  BY <1>1, <1>5, <1>6, <1>9 DEF Chosen
<1>15. ViewOk("load")'
  <2>1. InOrder(l) /\ v.fresh => Current("load")'
    <3> SUFFICES ASSUME InOrder(l), v.fresh PROVE LoadCurrent'
      BY DEF Current
    <3>1. l.of = monthKey
      BY <1>2 DEF InOrder
    <3>2. v.seen = status
      <4>1. v = [seen |-> l.seen, fresh |-> l.fresh] \/ v = [seen |-> status, fresh |-> TRUE]
        BY Zenon DEF Reads
      <4>2. v.seen = status \/ (v.seen = l.seen /\ v.fresh = l.fresh)
        BY ONLY <4>1
      <4>3. l.fresh => l.seen = status
        BY <1>2 DEF PageInv, Known, Orderly
      <4> QED
        BY <4>2, <4>3
    <3>3. l.of # None
      BY <1>2, MonthsAssumption DEF LoadTyped, None
    <3>4. /\ summary' = IF Exists(status[monthKey])
                        THEN [of |-> monthKey, closed |-> status[monthKey] = "closed", fresh |-> v.fresh]
                        ELSE NoView
          /\ book'.rows = Existing(status) /\ book'.fresh = v.fresh
      BY <1>5, <3>1, <3>2 DEF found
    <3>5. NoView.of = None
      BY DEF NoView
    <3> QED
      BY <1>1, <3>1, <3>3, <3>4, <3>5 DEF LoadCurrent, Existing
  <2>2. "load" \in Watched
    BY DEF Watched
  <2>3. Screened("load")' => Screened("load")
    BY DEF Screened, InSection
  <2> QED
    BY <1>2, <1>5, <1>10, <1>11, <2>1, <2>2, <2>3, AnswerItself
<1>16. ASSUME NEW w \in Watched, w # "load" PROVE ViewOk(w)'
  <2>1. w \in doubt => w \in doubt'
    BY <1>2, <1>4, <1>5, <1>16 DEF DoubtAfter
  <2>2. \/ \E a \in asks : a.what = w
        \/ ~Screened(w)'
        \/ /\ Wanted(w)' = Wanted(w) /\ (Screened(w)' => Screened(w)) /\ (Current(w) => Current(w)')
           /\ w = "detail" => detail' = detail
    <3>1. CASE w = "review"
      BY <1>1, <1>7, <1>9, <3>1 DEF Screened
    <3>2. CASE w = "detail"
      BY <1>1, <1>5, <1>7, <3>2 DEF Screened, Wanted, Current
    <3>3. CASE w = "reports"
      BY <1>1, <3>3 DEF Screened, InSection, Wanted, Current
    <3> QED
      BY <1>16, <3>1, <3>2, <3>3 DEF Watched
  <2>3. Follow(loads \ {l}, ls, asks, w)
    BY <1>11
  <2> QED
    BY <1>2, <1>5, <1>10, <1>16, <2>1, <2>2, <2>3, AnswerOthers
<1> QED
  BY <1>1, <1>12, <1>13, <1>14, <1>15, <1>16 DEF PageInv, Known

(* The read of a view answers, or a read fails.                            *)
LEMMA ViewAnswersKeeps ==
  ASSUME PageTyped, PageInv, NEW l \in loads, ViewAnswers(l) \/ LoadFails(l)
  PROVE  PageInv'
<1>1. PageRead /\ UNCHANGED <<status, use, monthKey, section, summary, book, detailId>> /\ Watched' = Watched
  BY PageIs DEF ViewAnswers, LoadFails, Watched
<1>2. LoadTyped(l) /\ l.what \in Watched
  BY <1>1 DEF PageRead, LoadsTyped, LoadTyped
<1> DEFINE ls == loads \ {l}
<1>3. Proceed(l, ls)
  BY DEF ViewAnswers, LoadFails
<1>4. LoadsTyped(ls) /\ Orderly(ls) /\ (l.own => NoOwn(ls))
      /\ (~l.own => \A x \in ls : x.own => Saving /\ op.phase = "reload")
  <2>1. \A x \in ls : x.own => Saving /\ op.phase = "reload"
    BY DEF PageInv, Known, Awaited
  <2> QED
    BY <2>1, EndedIs
<1> HIDE DEF ls
<1>5. \A w : Follow(loads \ {l}, ls, {}, w)
  BY FollowNone DEF ls
<1>6. Orderly(loads)' /\ Awaited'
  BY <1>1, <1>3, <1>4, ProceedOrderly
<1>7. Chosen'
  BY <1>1 DEF Chosen, PageInv, Known
<1>8. ASSUME NEW w \in Watched, w # l.what, w \in doubt => w \in doubt',
             w = "load" => loading' = loading,
             w = "review" => review' = review, w = "detail" => detail' = detail,
             w = "reports" => reports' = reports
      PROVE  ViewOk(w)'
  <2>1. /\ Wanted(w)' = Wanted(w) /\ (Screened(w)' => Screened(w)) /\ (Current(w) => Current(w)')
        /\ w = "detail" => detail' = detail
    BY <1>1, <1>8 DEF Wanted, Screened, InSection, Current, LoadCurrent, Existing, Watched
  <2>2. Follow(loads \ {l}, ls, {}, w)
    BY <1>5
  <2> QED
    BY <1>3, <1>4, <1>8, <2>1, <2>2, AnswerOthers
<1>9. CASE ViewAnswers(l)
  <2>1. PICK v \in Reads(l) :
          LET view == [of |-> l.of, closed |-> FALSE, fresh |-> v.fresh] IN
          /\ l.what # "reports" => Exists(v.seen[l.of])
          /\ review' = IF l.what = "review" THEN view ELSE review
          /\ detail' = IF l.what = "detail" THEN view ELSE detail
          /\ reports' = IF l.what = "reports" THEN view ELSE reports
          /\ doubt' = DoubtAfter(l, v.fresh)
    BY <1>9, Zenon DEF ViewAnswers
  <2>2. v.fresh \in BOOLEAN
    BY <1>2, <2>1, ReadsTyped
  <2>3. Covered'
    BY <1>1, <1>3, <1>4, <2>1, <2>2, AnswerCovered
  <2>4. ViewOk(l.what)'
    <3>1. l.what # "load"
      BY <1>9 DEF ViewAnswers
    <3>2. InOrder(l) /\ v.fresh => Current(l.what)'
      <4> SUFFICES ASSUME InOrder(l), v.fresh PROVE Current(l.what)'
        OBVIOUS
      <4>1. CASE l.what = "review"
        BY <1>1, <2>1, <4>1 DEF InOrder, Current
      <4>2. CASE l.what = "detail"
        BY <1>1, <2>1, <4>2 DEF InOrder, Current
      <4>3. CASE l.what = "reports"
        BY <1>1, <2>1, <4>3 DEF InOrder, Current
      <4> QED
        BY <1>2, <3>1, <4>1, <4>2, <4>3 DEF Watched
    <3>3. Screened(l.what)' => Screened(l.what)
      BY <1>1 DEF Screened, InSection
    <3>4. Follow(loads \ {l}, ls, {}, l.what)
      BY <1>5
    <3> QED
      BY <1>1, <1>2, <1>3, <1>4, <2>1, <3>2, <3>3, <3>4, AnswerItself
  <2>5. ASSUME NEW w \in Watched, w # l.what PROVE ViewOk(w)'
    <3>1. w \in doubt => w \in doubt'
      BY <2>1, <2>2, <2>5 DEF DoubtAfter
    <3>2. loading' = loading
      BY <1>9 DEF ViewAnswers
    <3> QED
      BY <1>8, <2>1, <2>5, <3>1, <3>2
  <2> QED
    BY <1>1, <1>6, <1>7, <2>3, <2>4, <2>5 DEF PageInv, Known
<1>10. CASE LoadFails(l)
  <2>1. /\ doubt' = doubt \cup {l.what} /\ loading' = (loading /\ l.what # "load")
        /\ UNCHANGED <<review, detail, reports>>
    BY <1>10 DEF LoadFails
  <2>2. Covered'
    BY <1>1, <1>3, <1>4, <2>1, AnswerCovered
  <2>3. ViewOk(l.what)'
    BY <2>1, Doubted
  <2>4. ASSUME NEW w \in Watched, w # l.what PROVE ViewOk(w)'
    <3>1. w = "load" => loading' = loading
      BY <1>1, <2>1, <2>4 DEF PageRead
    <3> QED
      BY <1>8, <2>1, <2>4, <3>1
  <2> QED
    BY <1>1, <1>6, <1>7, <2>2, <2>3, <2>4 DEF PageInv, Known
<1> QED
  BY <1>9, <1>10

(* The page as it is mounted.                                              *)
LEMMA InitKnows == Init /\ PageTyped => PageInv
<1> SUFFICES ASSUME Init, PageTyped PROVE PageInv
  OBVIOUS
<1> DEFINE asks == {Ask("load", monthKey)} \cup {a \in {Ask("reports", monthKey)} : section = "reports"}
<1>1. loads = Send({}, asks, FALSE)
  BY DEF Init
<1>2. \A w, of : Ask(w, of).what = w
  BY DEF Ask
<1>3. OneEach(asks) /\ (section = "reports" => \E a \in asks : a.what = "reports")
  BY <1>2 DEF OneEach
<1>4. LoadsTyped({}) /\ Orderly({}) /\ NoOwn({})
  BY DEF LoadsTyped, Orderly, NoOwn
<1> HIDE DEF asks
<1>5. Orderly(loads) /\ NoOwn(loads)
  BY <1>1, <1>3, <1>4, SendOrderly
<1>6. Awaited /\ Covered /\ Chosen
  BY <1>5 DEF Awaited, NoOwn, Covered, Chosen, Init, Saving, NoView
<1>7. ASSUME NEW w \in Watched PROVE ViewOk(w)
  <2>1. Follow({}, loads, asks, w)
    BY <1>1, <1>4, SendKeeps
  <2>2. Renewed({}, w)
    BY DEF Renewed
  <2>3. Stale(w)
    BY <2>1, <2>2 DEF Follow, Renewed, Stale, InOrder
  <2>4. Shown(w)
    BY <1>3, <2>1 DEF Follow, Shown, Screened, InSection, OnItsWay, Init, NoView, Watched
  <2> QED
    BY <2>3, <2>4 DEF ViewOk
<1> QED
  BY <1>5, <1>6, <1>7 DEF PageInv, Known

(* Every step keeps what the page knows in order.                          *)
LEMMA NextKnows == PageTyped /\ PageInv /\ [Next]_vars => PageInv'
<1> SUFFICES ASSUME PageTyped, PageInv, [Next]_vars PROVE PageInv'
  OBVIOUS
<1>1. CASE UserActs /\ UserWrites
  <2>1. /\ ~Saving
        /\ \E kind \in Kinds, at \in Months, row \in Months \cup {None}, after \in SUBSET Loaders :
             Begin(kind, at, row, after) /\ Covers(kind, at, after)
    BY <1>1, Begins
  <2> QED
    BY <2>1, BeginKeeps
<1>2. CASE (UserActs /\ UserMoves) \/ TimerFires
  BY <1>2, MovesKeep DEF TimerFires
<1>3. CASE SaveMoves
  BY <1>3, ServeKeeps, CallSucceedsKeeps, DeleteSucceedsKeeps, CallFailsKeeps DEF SaveMoves, CallAnswers
<1>4. ASSUME NEW l \in loads, Answer(l) PROVE PageInv'
  BY <1>4, LoadAnswersKeeps, ViewAnswersKeeps DEF Answer, AnswerLoad
<1>5. CASE UNCHANGED vars
  BY <1>5, UnseenKeeps DEF vars, pageVars, Seen
<1> QED
  BY <1>1, <1>2, <1>3, <1>4, <1>5 DEF Next, UserActs

(* What the page shows when it is free for the next action is what the     *)
(* server holds of the month in its header, unless an answer was lost or   *)
(* came out of order, or the handler ran in a section it does not reload:  *)
(* the reconciliation submitted over a review leaves its detail behind.    *)
(* Every other handler reloads each view it changed.                       *)
THEOREM PageIsCurrent == Spec => []ShownIsCurrent
<1>1. PageTyped /\ PageInv => ShownIsCurrent
  <2> SUFFICES ASSUME PageTyped, PageInv, ~Saving, ~loading PROVE ShownIsCurrent
    BY DEF ShownIsCurrent
  <2>1. \A w : ~Pending(w)
    BY DEF Pending, Reloads, Deleted
  <2>2. ASSUME NEW w \in Watched, Screened(w), w \notin doubt, w = "load" \/ NoneOnItsWay(w)
        PROVE  Current(w)
    BY <2>1, <2>2 DEF PageInv, ViewOk, Shown, OnItsWay, NoneOnItsWay
  <2>3. "load" \notin doubt => LoadCurrent
    BY <2>2 DEF Watched, Screened, InSection, Current
  <2>4. ASSUME section = "review", summary.of # None
        PROVE  /\ "review" \notin doubt /\ NoneOnItsWay("review") => review.fresh /\ review.of = monthKey
               /\ "detail" \notin doubt /\ NoneOnItsWay("detail") => detail.fresh /\ detail.of = detailId
    <3>1. {"review", "detail"} \subseteq Watched /\ detailId # None
      BY <2>4, PageIs DEF PageRead, Watched, PageInv, Known, Chosen
    <3> QED
      BY <2>2, <2>4, <3>1 DEF Screened, InSection, Current
  <2>5. ASSUME section = "reports", "reports" \notin doubt, NoneOnItsWay("reports")
        PROVE  reports.fresh /\ reports.of = monthKey
    <3>1. "reports" \in Watched
      BY <2>5, PageIs DEF PageRead, Watched
    <3> QED
      BY <2>2, <2>5, <3>1 DEF Screened, InSection, Current
  <2> QED
    BY <2>3, <2>4, <2>5 DEF ShownIsCurrent, LoadCurrent
<1> QED
  BY <1>1, InitTyped, InitKnows, NextKnows, AlwaysTyped, PTL DEF Spec

=============================================================================
