------------------------------ MODULE WalletPage ------------------------------
(***************************************************************************)
(* The wallet page of the client, web/src/routes/Wallet.jsx: the month on  *)
(* screen, what the page holds of the server's months, the reads and the   *)
(* one write it has on the way.  The server is reduced to what the page    *)
(* can tell: whether a month exists and is closed.  Everything else of a   *)
(* month is its freshness: a copy is fresh until the server changes what   *)
(* it is a copy of.  Template drafts are in WalletSettings; the arithmetic *)
(* of the forms is not modelled.                                           *)
(***************************************************************************)
EXTENDS Integers, FiniteSets

CONSTANTS
    Months,      \* month keys, as positive integers in calendar order
    ThisMonth,   \* currentMonthKey()
    Visits       \* one visit each: the sections and tools it uses, and (bounds) what
                 \* the user does in it and how many calls and reads fail

ASSUME MonthsAssumption ==
    Months \subseteq Nat \ {0} /\ IsFiniteSet(Months) /\ ThisMonth \in Months

None     == 0                       \* no month, no id
Sections == {"month", "review", "reports", "settings"}
Tools    == {"book", "create", "undo"}
Loaders  == {"load", "review", "detail", "reports"}

ASSUME VisitsAssumption ==
    Visits \subseteq [use : SUBSET (Sections \cup Tools), acts : Nat, faults : Nat]

VARIABLES
    status,        \* server: what wallet_months says of each month
    use,           \* what this visit uses of the page; never changes
    monthKey, section,
    summary,       \* the month's summary and the balance typed over it
    book,          \* the rows of the month book and of the months list
    bookOpen, bookEdit, deleteTarget,
    preview,       \* the month the preview on screen is of
    formRow,       \* the month of the allocation in the capture form
    review,        \* the transactions under review
    detailId, detail,  \* the allocation chosen in review, by its month
    reports,
    modals,        \* reconcileOpen, and splitTransaction by its month
    notice,        \* the month of the transaction the notice offers to undo
    loading,
    op,            \* the handler whose call or reloads are on the way
    loads,         \* reads on the way
    doubt,         \* history: what the page cannot know to be current
    acts,          \* what the user may still do
    faults         \* calls and reads that may still fail

pageVars == <<monthKey, section, summary, book, bookOpen, bookEdit,
              deleteTarget, preview, formRow, review, detailId, detail,
              reports, modals, notice, loading>>
vars == <<status, use, pageVars, op, loads, doubt, acts, faults>>

Status == {"none", "open", "closed", "gone"}
Exists(s) == s \in {"open", "closed"}

NoView == [of |-> None, closed |-> FALSE, fresh |-> FALSE]
NoOp   == [kind |-> "none", at |-> None, row |-> None, key |-> None,
           detailOf |-> None, rows |-> {}, phase |-> "sent", todo |-> {}]
Saving == op # NoOp

-----------------------------------------------------------------------------
(* Reads.  A newer request for the same view makes those before it old;    *)
(* no answer is dropped for being old.                                     *)

Ask(what, of) == [what |-> what, of |-> of]

\* The months a read asks about.
Scope(what, of) == IF what = "load" THEN Months ELSE {of}

Request(a, own) == [what |-> a.what, of |-> a.of, own |-> own, old |-> FALSE,
                    seen |-> [m \in Scope(a.what, a.of) |-> status[m]], fresh |-> TRUE]

Send(ls, asks, own) ==
    {[l EXCEPT !.old = @ \/ \E a \in asks : a.what = l.what] : l \in ls}
        \cup {Request(a, own) : a \in asks}

\* The views this visit can look at.
Watched == {"load"} \cup (IF "review" \in use THEN {"review", "detail"} ELSE {})
                    \cup (IF "reports" \in use THEN {"reports"} ELSE {})

\* Effects of the router and of monthKey: which reads a change of month or
\* section sends, and the allocation review falls back to.
Goto(m, s) ==
    LET moved   == m # monthKey
        flips   == (s = "settings") # (section = "settings")
        enter(t) == s = t /\ (section # t \/ moved)
        id      == IF s = "review" /\ detailId = None THEN summary.of ELSE detailId
    IN  /\ monthKey' = m
        /\ section' = s
        /\ detailId' = id
        /\ loading' = (loading \/ moved \/ flips)
        /\ loads' = Send(loads,
              {a \in {Ask("load", m)} : moved \/ flips}
              \cup {a \in {Ask("review", m)} : enter("review") /\ summary.of # None}
              \cup {a \in {Ask("detail", id)} :
                       /\ s = "review" /\ id # None
                       /\ section # "review" \/ id # detailId}
              \cup {a \in {Ask("reports", m)} : enter("reports")}, FALSE)
        /\ doubt' = IF ~Saving THEN doubt
                    ELSE doubt \cup {w \in Watched : moved \/ w # "load"}

\* The month input, the buttons of the create page and of the monthly report.
SwitchMonth(m) ==
    /\ m # monthKey
    /\ Goto(m, section)
    /\ UNCHANGED <<faults, status, use, summary, book, bookOpen, bookEdit, deleteTarget,
                   preview, formRow, review, detail, reports, modals, notice, op>>

\* A link of the page's header (no draft to keep: see WalletSettings).
Navigate(s) ==
    /\ s # section /\ s \in use
    /\ Goto(monthKey, s)
    /\ UNCHANGED <<faults, status, use, summary, book, bookOpen, bookEdit, deleteTarget,
                   preview, formRow, review, detail, reports, modals, notice, op>>

SendOnly(asks, spins) ==
    /\ loads' = Send(loads, asks, FALSE)
    /\ loading' = (loading \/ spins)
    /\ UNCHANGED <<faults, status, use, monthKey, section, summary, book, bookOpen, bookEdit,
                   deleteTarget, preview, formRow, review, detailId, detail, reports,
                   modals, notice, op, doubt>>

Refresh == ~loading /\ SendOnly({Ask("load", monthKey)}, TRUE)

(* Mutant: the reload of one view hides the page.                          *)
ReloadReviewSpins ==
    /\ section = "review" /\ ~loading /\ summary.of # None
    /\ SendOnly({Ask("review", monthKey)}, TRUE)

\* The reload button of review, and every change of its filters.
ReloadReview ==
    /\ section = "review" /\ ~loading /\ summary.of # None
    /\ SendOnly({Ask("review", monthKey)}, FALSE)

\* The reload button of reports, and every change of their range or filter.
ReloadReports ==
    /\ section = "reports" /\ ~loading
    /\ SendOnly({Ask("reports", monthKey)}, FALSE)

ChooseDetail ==
    /\ section = "review" /\ ~loading /\ summary.of \notin {None, detailId}
    /\ detailId' = summary.of
    /\ loads' = Send(loads, {Ask("detail", summary.of)}, FALSE)
    /\ UNCHANGED <<faults, status, use, monthKey, section, summary, book, bookOpen, bookEdit,
                   deleteTarget, preview, formRow, review, detail, reports, modals, notice,
                   loading, op, doubt>>

-----------------------------------------------------------------------------
(* The handlers that write.  Buttons and submits are disabled while one    *)
(* of them is saving.                                                      *)

InMonth  == section = "month" /\ ~loading /\ summary.of # None
InReview == section = "review" /\ ~loading /\ summary.of # None
Rows     == IF section = "review" THEN review.of ELSE summary.of

\* setSaving(true) and the call; `after` is what the handler reloads once the
\* call is answered, with the closures of the render it was started in.
Begin(kind, at, row, after) ==
    /\ op' = [kind |-> kind, at |-> at, row |-> row, key |-> monthKey,
              detailOf |-> detailId, phase |-> "sent",
              rows |-> IF kind = "delete" THEN book.rows ELSE {},
              todo |-> {w \in after :
                          /\ w = "review" => section = "review" /\ summary.of # None
                          /\ w = "detail" => section = "review" /\ detailId # None
                          /\ w = "reports" => section = "reports"}]
    \* in review, a render without a summary has a loadReview that reads nothing, and
    \* a reconciliation reads no view of review itself: the list follows the month
    \* when that can be read, the detail is not read again
    /\ doubt' = IF loading \/ (section = "review" /\ (summary.of = None \/ kind = "reconcile"))
                THEN doubt \cup (Watched \ {"load"}) ELSE doubt
    /\ UNCHANGED <<faults, status, use, pageVars, loads>>

(* Mutant: nothing need be on screen.                                      *)
StartAnyway(kind, at, row, after) == ~Saving /\ Begin(kind, at, row, after)

Start(kind, at, row, after) == ~Saving /\ at # None /\ Begin(kind, at, row, after)

SubmitBalance == InMonth /\ ~summary.closed /\ Start("balance", monthKey, monthKey, {"load", "reports"})

\* The modals of a reconciliation and of a split are opened in a section and stay on
\* screen over every other, and while the page loads.
Modals(now) ==
    /\ modals' = now
    /\ UNCHANGED <<faults, status, use, monthKey, section, summary, book, bookOpen, bookEdit,
                   deleteTarget, preview, formRow, review, detailId, detail, reports, notice,
                   loading, op, loads, doubt>>

OpenReconcile ==
    InMonth /\ ~summary.closed /\ ~Saving /\ ~modals.reconcile
        /\ Modals([modals EXCEPT !.reconcile = TRUE])

CloseReconcile ==
    modals.reconcile /\ summary.of # None /\ Modals([modals EXCEPT !.reconcile = FALSE])

SubmitReconciliation ==
    /\ modals.reconcile /\ summary.of # None
    /\ Start("reconcile", monthKey, monthKey, {"load", "reports"})

SubmitAllocation == InMonth /\ ~summary.closed /\ Start("posting", monthKey, monthKey, {"load"})

SaveAllocationBudgetEdit == InMonth /\ Start("posting", summary.of, summary.of, {"load"})

SubmitIncome == InMonth /\ ~summary.closed /\ Start("balance", monthKey, monthKey, {"load"})

SaveIncomeEdit ==
    InMonth /\ ~summary.closed /\ Start("balance", summary.of, summary.of, {"load", "reports"})

\* The select of the capture form, and the chips of recent transactions.
ChooseAllocation ==
    /\ InMonth /\ formRow # summary.of
    /\ formRow' = summary.of
    /\ UNCHANGED <<faults, status, use, monthKey, section, summary, book, bookOpen, bookEdit,
                   deleteTarget, preview, review, detailId, detail, reports, modals, notice,
                   loading, op, loads, doubt>>

\* The capture sheet stays on screen while the page loads.
SubmitTransaction ==
    /\ section = "month" /\ summary.of # None /\ ~summary.closed
    /\ Start("capture", monthKey, IF formRow # None THEN formRow ELSE summary.of, {"load"})

PayAllocation ==
    InMonth /\ ~summary.closed /\ Start("capture", monthKey, summary.of, {"load"})

UndoLastTransaction ==
    /\ notice # None /\ "undo" \in use
    /\ Start("undo", notice, notice, {"load", "review", "detail", "reports"})

NoticeExpires ==
    /\ notice # None
    /\ notice' = None
    /\ UNCHANGED <<faults, status, use, monthKey, section, summary, book, bookOpen, bookEdit,
                   deleteTarget, preview, formRow, review, detailId, detail, reports,
                   modals, loading, op, loads, doubt>>

SaveTransactionAmountEdit ==
    InMonth /\ ~summary.closed /\ Start("posting", summary.of, summary.of, Loaders)

(* Mutant: the allocation beside the list is not read again.               *)
SaveReviewTransactionAlone ==
    /\ InReview /\ ~summary.closed
    /\ Start("posting", review.of, review.of, {"load", "review"})

SaveReviewTransaction ==
    /\ InReview /\ ~summary.closed
    /\ Start("posting", review.of, review.of, {"load", "review", "detail"})

SaveAllocationDetail ==
    /\ InReview /\ ~summary.closed
    /\ Start("posting", detail.of, detail.of, {"load", "review", "detail"})

SubmitAllocationDetailTransaction ==
    /\ InReview /\ ~summary.closed /\ detail.of # None
    /\ Start("posting", monthKey, detail.of, {"load", "review", "detail"})

DeleteTransaction ==
    (InMonth \/ InReview) /\ ~summary.closed /\ Start("posting", Rows, Rows, Loaders)

OpenSplitModal ==
    (InMonth \/ InReview) /\ ~summary.closed /\ ~Saving /\ Rows \notin {None, modals.split}
        /\ Modals([modals EXCEPT !.split = Rows])

CloseSplitModal == modals.split # None /\ Modals([modals EXCEPT !.split = None])

SubmitSplit == Start("split", modals.split, modals.split, Loaders)

\* Only reads, and sets `saving` while it does.
OpenSplitDetail == (InMonth \/ InReview) /\ Start("splitDetail", Rows, Rows, {})

CloseMonth ==
    /\ section = "reports" /\ ~loading /\ summary.of # None /\ ~summary.closed
    /\ Start("close", monthKey, monthKey, {"load", "reports"})

ReopenMonth ==
    /\ section = "reports" /\ ~loading /\ summary.closed
    /\ Start("reopen", monthKey, monthKey, {"load", "reports"})

InCreate == section \notin {"settings", "reports"} /\ ~loading /\ summary.of = None

SubmitCreateMonth == "create" \in use /\ InCreate /\ Start("preview", monthKey, monthKey, {})

ConfirmCreateMonth ==
    InCreate /\ preview # None /\ Start("create", preview, preview, {"load"})

CancelPreview ==
    /\ InCreate /\ preview # None /\ ~Saving
    /\ preview' = None
    /\ UNCHANGED <<faults, status, use, monthKey, section, summary, book, bookOpen, bookEdit,
                   deleteTarget, formRow, review, detailId, detail, reports, modals, notice,
                   loading, op, loads, doubt>>

-----------------------------------------------------------------------------
(* The month book, a modal over any section.                               *)

Book(open, edit, target) ==
    /\ bookOpen' = open
    /\ bookEdit' = edit
    /\ deleteTarget' = target
    /\ UNCHANGED <<faults, status, use, monthKey, section, summary, book, preview, formRow, review,
                   detailId, detail, reports, modals, notice, loading, op, loads, doubt>>

OpenMonthBook == "book" \in use /\ ~loading /\ ~bookOpen /\ Book(TRUE, bookEdit, deleteTarget)

CloseMonthBook == bookOpen /\ Book(FALSE, NoView, deleteTarget)

EditBookMonth(m) ==
    /\ bookOpen /\ m \in book.rows
    /\ Book(TRUE, [of |-> m, closed |-> m \in book.closed, fresh |-> FALSE], deleteTarget)

SaveBookMonthEdit ==
    /\ bookOpen /\ bookEdit.of # None /\ ~bookEdit.closed
    /\ Start("bookEdit", bookEdit.of, bookEdit.of, {"load", "reports"})

ReopenBookMonth ==
    /\ bookOpen /\ bookEdit.closed
    /\ Start("bookReopen", bookEdit.of, bookEdit.of, {"load", "reports"})

RequestDeleteBookMonth(m) == bookOpen /\ m \in book.rows /\ Book(TRUE, bookEdit, m)

CancelDeleteBookMonth == deleteTarget # None /\ Book(bookOpen, bookEdit, None)

ConfirmDeleteBookMonth ==
    /\ deleteTarget # None
    /\ Start("delete", deleteTarget, deleteTarget, {"load", "reports"})

\* viewBookMonth and reportBookMonth
ViewBookMonth(m, s) ==
    /\ bookOpen /\ m \in book.rows /\ s \in {"month", "reports"} \cap use
    /\ Goto(m, s)
    /\ bookOpen' = FALSE
    /\ bookEdit' = NoView
    /\ UNCHANGED <<faults, status, use, summary, book, deleteTarget, preview, formRow, review,
                   detail, reports, modals, notice, op>>

-----------------------------------------------------------------------------
(* The server.                                                             *)

\* The views whose data a call changes.
Touched(kind) ==
    CASE kind \in {"preview", "splitDetail"} -> {}
      [] kind \in {"balance", "bookEdit", "close", "reopen", "bookReopen"} -> {"load", "reports"}
      [] OTHER -> Loaders

Accepts(o) ==
    CASE o.kind \in {"preview", "create"} -> status[o.at] = "none"
      [] o.kind \in {"delete", "close", "reopen", "bookReopen", "splitDetail"} -> Exists(status[o.at])
      [] OTHER -> status[o.at] = "open" /\ o.row = o.at

Written(o) ==
    CASE o.kind \in {"create", "reopen", "bookReopen"} -> "open"
      [] o.kind = "close"  -> "closed"
      [] o.kind = "delete" -> "gone"
      [] OTHER -> status[o.at]

Outdate(view, changed) == [view EXCEPT !.fresh = @ /\ ~changed]

Serve ==
    /\ op.phase = "sent" /\ Saving
    /\ LET touched == Touched(op.kind) IN
       IF Accepts(op)
       THEN /\ status' = [status EXCEPT ![op.at] = Written(op)]
            /\ op' = [op EXCEPT !.phase = "done"]
            /\ summary' = Outdate(summary, "load" \in touched /\ summary.of = op.at)
            /\ book' = Outdate(book, "load" \in touched)
            /\ review' = Outdate(review, "review" \in touched /\ review.of = op.at)
            /\ detail' = Outdate(detail, "detail" \in touched /\ detail.of = op.at)
            /\ reports' = Outdate(reports, "reports" \in touched)
            /\ loads' = {Outdate(l, /\ l.what \in touched
                                    /\ l.of = op.at \/ l.what \in {"load", "reports"})
                           : l \in loads}
       ELSE /\ op' = [op EXCEPT !.phase = "refused"]
            /\ UNCHANGED <<status, summary, book, review, detail, reports, loads>>
    /\ UNCHANGED <<faults, use, monthKey, section, bookOpen, bookEdit, deleteTarget, preview,
                   formRow, detailId, modals, notice, loading, doubt>>

-----------------------------------------------------------------------------
(* Answers.                                                                *)

\* The reloads of a handler run one after the other, in this order.
NextReload(todo) == CHOOSE w \in todo :
    \A v \in todo : w = v \/ w = "load" \/ (w = "review" /\ v # "load") \/ (w = "detail" /\ v = "reports")

(* Mutant: a handler without another reload does not end.                  *)
ContinueSaving(todo, ls) ==
    IF todo = {} THEN op' = [op EXCEPT !.phase = "reload", !.todo = {}] /\ loads' = ls
    ELSE LET w == NextReload(todo)
             a == Ask(w, IF w = "detail" THEN op.detailOf ELSE op.key)
         IN  /\ op' = [op EXCEPT !.phase = "reload", !.todo = todo]
             /\ loads' = Send(ls, {a}, TRUE)

\* The handler goes on to its next reload, or ends: setSaving(false).
Continue(todo, ls) ==
    IF todo = {} THEN op' = NoOp /\ loads' = ls
    ELSE LET w == NextReload(todo)
             a == Ask(w, IF w = "detail" THEN op.detailOf ELSE op.key)
         IN  /\ op' = [op EXCEPT !.phase = "reload", !.todo = todo]
             /\ loads' = Send(ls, {a}, TRUE)

\* The call of the handler failed: it was refused, it never arrived, or what it
\* did was done and the answer is lost.  No handler reloads then.
CallFails ==
    /\ Saving /\ op.phase \in {"sent", "refused", "done"}
    /\ op.phase # "refused" => faults > 0
    /\ faults' = IF op.phase = "refused" THEN faults ELSE faults - 1
    /\ op' = NoOp
    /\ doubt' = IF op.phase = "done" THEN doubt \cup (Touched(op.kind) \cap Watched) ELSE doubt
    /\ notice' = IF op.kind = "undo" THEN None ELSE notice
    /\ UNCHANGED <<status, use, monthKey, section, summary, book, bookOpen, bookEdit,
                   deleteTarget, preview, formRow, review, detailId, detail, reports,
                   modals, loading, loads>>

\* What a handler does with its answer before it reloads.
CallSucceeds ==
    /\ op.phase = "done" /\ op.kind # "delete"
    /\ preview' = CASE op.kind = "preview" -> op.at
                    [] op.kind = "create" -> None
                    [] OTHER -> preview
    /\ notice' = CASE op.kind = "capture" -> op.at
                   [] op.kind = "undo" -> None
                   [] OTHER -> notice
    /\ bookEdit' = CASE op.kind = "bookReopen" /\ bookEdit.of = op.at
                          -> [bookEdit EXCEPT !.closed = FALSE]
                     [] op.kind = "bookEdit" -> NoView
                     [] OTHER -> bookEdit
    /\ modals' = CASE op.kind = "reconcile" -> [modals EXCEPT !.reconcile = FALSE]
                   [] op.kind = "split" -> [modals EXCEPT !.split = None]
                   [] OTHER -> modals
    /\ Continue(op.todo, loads)
    /\ loading' = (loading \/ "load" \in op.todo)
    /\ UNCHANGED <<faults, status, use, monthKey, section, summary, book, bookOpen, deleteTarget,
                   formRow, review, detailId, detail, reports, doubt>>

\* confirmDeleteBookMonth: the rows left are those of the render the handler was
\* started in, and so is the month it compares with.
DeleteSucceeds ==
    /\ op.phase = "done" /\ op.kind = "delete"
    /\ LET left  == op.rows \ {op.at}
           shown == op.at = op.key
           next  == IF left = {} THEN ThisMonth
                    ELSE CHOOSE m \in left : \A n \in left : n <= m
           moved == shown /\ next # monthKey
           ls    == Send(loads, {a \in {Ask("load", next)} : moved}
                          \cup {a \in {Ask("reports", next)} : moved /\ section = "reports"}, FALSE)
       IN  /\ book' = [rows |-> left, closed |-> book.closed \cap left, fresh |-> FALSE]
           /\ monthKey' = IF shown THEN next ELSE monthKey
           /\ summary' = IF shown THEN NoView ELSE summary
           /\ Continue(IF ~shown THEN op.todo
                       ELSE IF next = op.key THEN {"load"} ELSE {}, ls)
           /\ loading' = (loading \/ moved \/ ~shown \/ next = op.key)
           \* nothing reloads the detail of an allocation that went with its month,
           \* nor the reports when the month deleted is also the next one to show
           /\ doubt' = doubt \cup {w \in Watched : (w = "detail" /\ op.at \in {detail.of, detailId})
                                              \/ (w = "reports" /\ shown /\ ~moved)}
    /\ deleteTarget' = None
    /\ bookEdit' = IF bookEdit.of = op.at THEN NoView ELSE bookEdit
    /\ UNCHANGED <<faults, status, use, section, bookOpen, preview, formRow, review, detailId, detail,
                   reports, modals, notice>>

\* A read finds what the server held at some moment since it was sent: what it
\* held then, or what it holds now.
Reads(l) == {[seen |-> l.seen, fresh |-> l.fresh], [seen |-> status, fresh |-> TRUE]}

Existing(seen) == {m \in Months : Exists(seen[m])}
ClosedOf(seen) == {m \in Months : seen[m] = "closed"}

\* History: an answer is in order when no newer request for its view was sent
\* and the page still wants what it asked for.
InOrder(l) == ~l.old /\ l.of = (IF l.what = "detail" THEN detailId ELSE monthKey)
DoubtAfter(l, fresh) ==
    CASE ~InOrder(l) -> doubt \cup {l.what}
      [] InOrder(l) /\ fresh /\ (l.own \/ ~Saving \/ l.what \notin Touched(op.kind)) -> doubt \ {l.what}
      [] OTHER -> doubt

Proceed(l, ls) ==
    IF l.own THEN Continue(op.todo \ {l.what}, ls) ELSE op' = op /\ loads' = ls

\* load: the summary, the settings, the months and the month book at once, and
\* the effects that follow a new summary.
LoadAnswers(l) ==
    /\ l.what = "load"
    /\ \E v \in Reads(l) :
        LET found == Exists(v.seen[l.of])
            id    == IF section = "review" /\ detailId = None /\ found THEN l.of ELSE detailId
        IN  /\ summary' = IF found THEN [of |-> l.of, closed |-> v.seen[l.of] = "closed", fresh |-> v.fresh]
                          ELSE NoView
            /\ book' = [rows |-> Existing(v.seen), closed |-> ClosedOf(v.seen), fresh |-> v.fresh]
            /\ preview' = IF found THEN None ELSE preview
            /\ formRow' = IF found /\ formRow = None THEN l.of ELSE formRow
            /\ detailId' = id
            /\ Proceed(l, Send(loads \ {l},
                   {a \in {Ask("review", monthKey)} : section = "review" /\ found}
                   \cup {a \in {Ask("detail", id)} : id # detailId}, FALSE))
            /\ doubt' = DoubtAfter(l, v.fresh)
    /\ loading' = FALSE
    /\ UNCHANGED <<faults, status, use, monthKey, section, bookOpen, bookEdit, deleteTarget, review, detail,
                   reports, modals, notice>>

\* loadReview, loadAllocationDetail and loadReports. The server knows no review
\* and no allocation of a month it does not have; reports of one are empty.
ViewAnswers(l) ==
    /\ l.what # "load"
    /\ \E v \in Reads(l) :
        LET view == [of |-> l.of, closed |-> FALSE, fresh |-> v.fresh] IN
        /\ l.what # "reports" => Exists(v.seen[l.of])
        /\ review' = IF l.what = "review" THEN view ELSE review
        /\ detail' = IF l.what = "detail" THEN view ELSE detail
        /\ reports' = IF l.what = "reports" THEN view ELSE reports
        /\ doubt' = DoubtAfter(l, v.fresh)
    /\ Proceed(l, loads \ {l})
    /\ UNCHANGED <<faults, status, use, monthKey, section, summary, book, bookOpen, bookEdit,
                   deleteTarget, preview, formRow, detailId, modals, notice, loading>>

\* A failed read leaves what is on screen, and no handler stops for it.
LoadFails(l) ==
    /\ LET missing == l.what \in {"review", "detail"} /\ ~Exists(status[l.of]) IN
       /\ faults > 0 \/ missing
       /\ faults' = IF missing THEN faults ELSE faults - 1
    /\ doubt' = doubt \cup {l.what}
    /\ loading' = (loading /\ l.what # "load")
    /\ Proceed(l, loads \ {l})
    /\ UNCHANGED <<status, use, monthKey, section, summary, book, bookOpen, bookEdit,
                   deleteTarget, preview, formRow, review, detailId, detail, reports, modals, notice>>

AnswerLoad(l) == LoadAnswers(l) \/ ViewAnswers(l) \/ LoadFails(l)

-----------------------------------------------------------------------------
TypeOK ==
    /\ status \in [Months -> Status]
    /\ use \in SUBSET (Sections \cup Tools) /\ section \in Sections /\ monthKey \in Months
    /\ {formRow, preview, detailId, deleteTarget, notice} \subseteq Months \cup {None}
    /\ {summary, bookEdit, review, detail, reports} \subseteq
          [of : Months \cup {None}, closed : BOOLEAN, fresh : BOOLEAN]
    /\ book \in [rows : SUBSET Months, closed : SUBSET Months, fresh : BOOLEAN]
    /\ {bookOpen, loading} \subseteq BOOLEAN
    /\ modals \in [reconcile : BOOLEAN, split : Months \cup {None}]
    /\ doubt \subseteq Watched /\ {acts, faults} \subseteq Nat
    /\ op.phase \in {"sent", "refused", "done", "reload"} /\ op.todo \subseteq Loaders
    /\ op # NoOp => {op.at, op.key} \subseteq Months
    /\ \A l \in loads :
          /\ l.what \in Loaders /\ l.of \in Months
          /\ {l.own, l.old, l.fresh} \subseteq BOOLEAN
          /\ l.seen \in [Scope(l.what, l.of) -> Status]

Init ==
    /\ status \in [Months -> {"none", "open"}]
    /\ \E v \in Visits : use = v.use /\ acts = v.acts /\ faults = v.faults
    /\ section \in Sections \cap use
    /\ monthKey = ThisMonth
    /\ summary = NoView /\ review = NoView /\ detail = NoView /\ reports = NoView
    /\ book = [rows |-> {}, closed |-> {}, fresh |-> FALSE]
    /\ bookOpen = FALSE /\ bookEdit = NoView /\ deleteTarget = None
    /\ preview = None /\ formRow = None /\ detailId = None /\ notice = None
    /\ modals = [reconcile |-> FALSE, split |-> None]
    /\ loading = TRUE
    /\ op = NoOp
    /\ loads = Send({}, {Ask("load", monthKey)} \cup {a \in {Ask("reports", monthKey)} : section = "reports"}, FALSE)
    /\ doubt = {}

UserWrites ==
    \/ SubmitBalance \/ SubmitReconciliation \/ SubmitAllocation \/ SaveAllocationBudgetEdit
    \/ SubmitIncome \/ SaveIncomeEdit \/ SubmitTransaction \/ PayAllocation
    \/ UndoLastTransaction \/ SaveTransactionAmountEdit \/ SaveReviewTransaction
    \/ SaveAllocationDetail \/ SubmitAllocationDetailTransaction \/ DeleteTransaction
    \/ SubmitSplit \/ OpenSplitDetail \/ CloseMonth \/ ReopenMonth
    \/ SubmitCreateMonth \/ ConfirmCreateMonth
    \/ SaveBookMonthEdit \/ ReopenBookMonth \/ ConfirmDeleteBookMonth

UserMoves ==
    \/ \E m \in Months : \/ SwitchMonth(m) \/ EditBookMonth(m) \/ RequestDeleteBookMonth(m)
                         \/ \E s \in Sections : ViewBookMonth(m, s)
    \/ \E s \in Sections : Navigate(s)
    \/ Refresh \/ ReloadReview \/ ReloadReports \/ ChooseDetail \/ ChooseAllocation
    \/ OpenReconcile \/ CloseReconcile \/ OpenSplitModal \/ CloseSplitModal
    \/ CancelPreview \/ OpenMonthBook \/ CloseMonthBook \/ CancelDeleteBookMonth

CallAnswers == CallSucceeds \/ DeleteSucceeds \/ CallFails

UserActs == acts > 0 /\ acts' = acts - 1 /\ (UserWrites \/ UserMoves)

Answer(l)  == UNCHANGED acts /\ AnswerLoad(l)
SaveMoves  == UNCHANGED acts /\ (Serve \/ CallAnswers)
TimerFires == UNCHANGED acts /\ NoticeExpires

Next == UserActs \/ SaveMoves \/ TimerFires \/ \E l \in loads : Answer(l)

\* Every call the browser sends is answered or fails.
Fairness ==
    /\ WF_vars(SaveMoves)
    /\ WF_vars(\E l \in loads : l.own /\ Answer(l))
    /\ WF_vars(\E l \in loads : l.what = "load" /\ Answer(l))

Spec == Init /\ [][Next]_vars /\ Fairness

-----------------------------------------------------------------------------
NoneOnItsWay(w) == \A l \in loads : l.what # w

\* The page is free for the next action, and nothing has happened that it does
\* not recover from: what it shows is what the server holds, of the month in its
\* header. Every handler has to reload each view it changed.
ShownIsCurrent ==
    ~Saving /\ ~loading =>
    /\ "load" \notin doubt =>
          /\ summary.of = (IF Exists(status[monthKey]) THEN monthKey ELSE None)
          /\ summary.of # None => summary.fresh /\ summary.closed = (status[monthKey] = "closed")
          /\ book.fresh /\ book.rows = Existing(status)
    /\ section = "review" /\ summary.of # None =>
          /\ "review" \notin doubt /\ NoneOnItsWay("review") => review.fresh /\ review.of = monthKey
          /\ "detail" \notin doubt /\ NoneOnItsWay("detail") => detail.fresh /\ detail.of = detailId
    /\ section = "reports" /\ "reports" \notin doubt /\ NoneOnItsWay("reports") =>
          reports.fresh /\ reports.of = monthKey

\* The spinner that hides the page is shown only while a load is on its way.
SpinnerHasALoad == loading => \E l \in loads : l.what = "load"

\* When the user stops, the page comes to rest: the buttons a save disabled are
\* back, the spinner is gone.
PageSettles == <>[](~Saving /\ ~loading)
=============================================================================
