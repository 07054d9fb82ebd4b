---------------------------- MODULE WalletSettings ----------------------------
(***************************************************************************)
(* The settings of the wallet page, web/src/routes/Wallet.jsx: the rows of *)
(* allocation templates, whose edits stay as drafts until they are saved,  *)
(* and the plain rows of income templates and categories, whose edits go   *)
(* when the row loses focus.  A row is its content (every field of it as   *)
(* one text) and its sort_order; the server holds the same of every row.   *)
(***************************************************************************)
EXTENDS Integers, FiniteSets, Sequences, SequencesExt

CONSTANTS
    Templates,    \* allocation templates, as integers
    PlainRows,    \* income templates and categories, as integers
    Valid, Bad,   \* contents that pass the checks of a row, and one that does not
    MaxTyping,    \* edits, saves and moves of the user (bound)
    MaxLost       \* calls and reads that fail (bound)

VARIABLES
    server,       \* the rows of the server, deleted ones and free ids absent
    rows,         \* settings: the rows the page holds, with _wallet_original
    isSettings,   \* the section on screen is settings
    busy,         \* loading: the spinner hides the page
    leave,        \* settingsLeaveConfirm
    form,         \* what the form below each list holds
    save,         \* the handler that is saving
    calls,        \* its calls on the way, and those it no longer waits for
    reads,        \* loads on the way
    typed,        \* history: what the user typed in a template while the page was
                  \* at rest, and has neither saved nor given up
    stale,        \* history: a write or a read failed or crossed another
    typing, lost

vars == <<server, rows, isSettings, busy, leave, form, save, calls, reads, typed,
          stale, typing, lost>>

None   == "none"
Rows   == Templates \cup PlainRows
Lists  == {Templates, PlainRows}
ListOf(r) == IF r \in Templates THEN Templates ELSE PlainRows
Texts  == Valid \cup {Bad}
Absent == [text |-> None, pos |-> 0]
NoRow  == [text |-> None, pos |-> 0, orig |-> None]
NoSave == [kind |-> None, merging |-> FALSE, todo |-> <<>>, saved |-> {}]
Idle   == save = NoSave
AtRest == Idle /\ reads = {}

Shown(list) == {r \in list : rows[r] # NoRow}

\* allocationTemplateHasDraft
HasDraft(row) == row.orig # None /\ row.text # row.orig
Drafts(rs) == {r \in Templates : HasDraft(rs[r])}

-----------------------------------------------------------------------------
(* Editing.                                                                *)

CanEdit == isSettings /\ ~busy /\ ~leave

KeepOpen(rs) == leave' = (leave /\ Drafts(rs) # {})   \* the modal goes with the last draft

Edit(r, t) ==
    /\ CanEdit /\ r \in Shown(Rows)
    /\ rows' = [rows EXCEPT ![r].text = t, ![r].orig = IF @ = None THEN rows[r].text ELSE @]
    /\ typed' = IF r \in PlainRows THEN typed
                ELSE [typed EXCEPT ![r] = IF AtRest /\ t # rows'[r].orig THEN t ELSE None]
    /\ UNCHANGED <<server, isSettings, busy, leave, form, save, calls, reads, stale>>

Reverted(row) == IF row.orig = None THEN row ELSE [row EXCEPT !.text = row.orig, !.orig = None]

\* Escape in a row; for a plain row also the loss of focus.
Revert(r) ==
    /\ CanEdit /\ rows[r].orig # None
    /\ rows' = [rows EXCEPT ![r] = Reverted(@)]
    /\ typed' = [typed EXCEPT ![r] = None]
    /\ UNCHANGED <<server, isSettings, busy, leave, form, save, calls, reads, stale>>

TypeForm(list, t) ==
    /\ CanEdit /\ form[list] # t
    /\ form' = [form EXCEPT ![list] = t]
    /\ UNCHANGED <<server, rows, isSettings, busy, leave, save, calls, reads, typed, stale>>

-----------------------------------------------------------------------------
(* Saving. One handler at a time: the buttons are disabled while it saves, *)
(* the inputs are not.                                                     *)

Call(kind, r, text, pos) ==
    [kind |-> kind, row |-> r, text |-> text, pos |-> pos,
     phase |-> "sent", stray |-> FALSE]
Patch(r) == Call("patch", r, rows[r].text, rows[r].pos)

Start(kind, now, later) ==
    /\ CanEdit /\ Idle
    /\ save' = [kind |-> kind, merging |-> isSettings, todo |-> later, saved |-> {}]
    /\ calls' = calls \cup now
    /\ UNCHANGED <<server, isSettings, busy, leave, form, reads, stale>>

\* saveAllocationTemplate, saveIncomeTemplate, saveCategory
SaveRow(r) ==
    /\ r \in Shown(Rows) /\ rows[r].text \in Valid
    /\ Start(IF r \in Templates THEN "template" ELSE "plain", {Patch(r)}, <<>>)
    /\ UNCHANGED <<rows, typed>>

Before(q, r) == rows[q].pos < rows[r].pos \/ (rows[q].pos = rows[r].pos /\ q < r)
InOrder(set) == {s \in [1..Cardinality(set) -> set] :
                    \A i, j \in DOMAIN s : i < j => Before(s[i], s[j])}

\* saveAllocationTemplates: the drafts of this render, one PATCH after the other.
SaveDrafts ==
    /\ Drafts(rows) # {} /\ \A r \in Drafts(rows) : rows[r].text \in Valid
    /\ \E order \in InOrder(Drafts(rows)) :
          LET queue == [i \in DOMAIN order |-> Patch(order[i])]
          IN  Start("drafts", {Head(queue)}, Tail(queue))
    /\ UNCHANGED <<rows, typed>>

DeleteRow(r) ==
    /\ r \in Shown(Rows)
    /\ Start("reload", {Call("delete", r, None, 0)}, <<>>)
    /\ typed' = [typed EXCEPT ![r] = None]
    /\ UNCHANGED rows

\* The submit of a form: the server gives the new row a free id.
AddRow(list) ==
    /\ form[list] \in Valid
    /\ \E r \in list :
        /\ server[r] = Absent /\ rows[r] = NoRow
        /\ Start("reload", {Call("add", r, form[list], Cardinality(Shown(list)) + 1)}, <<>>)
    /\ UNCHANGED <<rows, typed>>

\* A drag, or an arrow key that moves by one place, on the handle of a row. The
\* handles of templates are disabled while there are drafts; of the plain rows only
\* one that is dragged is reverted, the others keep their text and lose the mark
\* of it.
Reorder(list, r, i) ==
    \E others \in InOrder(Shown(list) \ {r}), dragged \in BOOLEAN :
    LET order    == InsertAt(others, i, r)
        Place(q) == 10 * CHOOSE n \in DOMAIN order : order[n] = q
    IN  /\ list = Templates => Drafts(rows) = {}
        /\ r \in Shown(list) /\ i \in 1..Cardinality(Shown(list)) /\ order \notin InOrder(Shown(list))
        /\ dragged \/ \E now \in InOrder(Shown(list)) : r \in {now[j] : j \in DOMAIN now \cap {i - 1, i + 1}}
        /\ Start("sort", {Call("sort", q, None, Place(q)) : q \in Shown(list)}, <<>>)
        /\ rows' = [q \in Rows |->
              IF q \notin Shown(list) THEN rows[q]
              ELSE [(IF q = r /\ dragged THEN Reverted(rows[q]) ELSE rows[q])
                       EXCEPT !.pos = Place(q), !.orig = None]]
        /\ UNCHANGED typed

-----------------------------------------------------------------------------
(* The server, and the answers to the calls.                               *)

\* Only what is there can be changed.
Refused(c) == c.kind # "add" /\ server[c.row] = Absent

Serve(c) ==
    /\ c.phase = "sent"
    /\ server' = IF Refused(c) THEN server ELSE [server EXCEPT ![c.row] =
          CASE c.kind \in {"patch", "add"} -> [text |-> c.text, pos |-> c.pos]
            [] c.kind = "sort"   -> [@ EXCEPT !.pos = c.pos]
            [] c.kind = "delete" -> Absent]
    /\ calls' = (calls \ {c}) \cup {[c EXCEPT !.phase = IF Refused(c) THEN "refused" ELSE "done"]}
    /\ stale' = (stale \/ c.stray)
    /\ UNCHANGED <<rows, isSettings, busy, leave, form, save, reads, typed, lost>>

Read(merging, own) == [merging |-> merging, own |-> own, seen |-> server]

\* mergeSavedAllocationTemplates: the answers take the place of the rows.
Merged(saved) == [r \in Rows |->
    IF rows[r] # NoRow /\ \E c \in saved : c.row = r
    THEN LET c == CHOOSE d \in saved : d.row = r IN [text |-> c.text, pos |-> c.pos, orig |-> None]
    ELSE rows[r]]

EndsWith(saved) ==
    /\ rows' = Merged(saved)
    /\ typed' = [r \in Rows |-> IF \E c \in saved : c.row = r /\ c.text = typed[r] THEN None ELSE typed[r]]
    /\ KeepOpen(rows')
    /\ save' = NoSave
    /\ UNCHANGED <<busy, reads>>

\* The plain row that was saved loses its mark when load ends, found or not.
Reload(saved) ==
    /\ save' = [save EXCEPT !.kind = "load", !.saved = saved]
    /\ reads' = reads \cup {Read(save.merging, TRUE)}
    /\ busy' = TRUE
    /\ UNCHANGED <<rows, typed, leave>>

CallSucceeds(c) ==
    /\ c.phase = "done" /\ ~c.stray
    /\ LET left == calls \ {c}
           got  == save.saved \cup {c}
       IN  CASE save.kind = "template" -> calls' = left /\ EndsWith({c})
             [] save.kind = "drafts" /\ save.todo = <<>> -> calls' = left /\ EndsWith(got)
             [] save.kind = "drafts" /\ save.todo # <<>> ->
                   /\ calls' = left \cup {Head(save.todo)}
                   /\ save' = [save EXCEPT !.todo = Tail(@), !.saved = got]
                   /\ UNCHANGED <<rows, typed, leave, busy, reads>>
             [] save.kind = "sort" /\ \E d \in left : ~d.stray ->
                   calls' = left /\ UNCHANGED <<save, rows, typed, leave, busy, reads>>
             [] OTHER -> calls' = left /\ Reload(IF save.kind = "plain" THEN {c} ELSE {})
    /\ form' = IF c.kind = "add" THEN [form EXCEPT ![ListOf(c.row)] = None] ELSE form
    /\ UNCHANGED <<server, isSettings, stale, lost>>

\* The first failure ends a save. Of the drafts those already saved are merged;
\* a reorder reloads at once, and its other calls go on without it.
CallFails(c) ==
    /\ ~c.stray
    /\ \/ c.phase = "refused" /\ lost' = lost
       \/ c.phase # "refused" /\ lost > 0 /\ lost' = lost - 1
    /\ stale' = (stale \/ c.phase = "done" \/ save.kind = "sort")
    /\ calls' = {[d EXCEPT !.stray = TRUE] : d \in calls \ {c}}
    /\ IF save.kind = "sort" THEN Reload({}) ELSE EndsWith(save.saved)
    /\ UNCHANGED <<server, isSettings, form>>

StrayEnds(c) ==
    /\ c.stray /\ c.phase # "sent"
    /\ calls' = calls \ {c}
    /\ UNCHANGED <<server, rows, isSettings, busy, leave, form, save, reads, typed, stale, lost>>

-----------------------------------------------------------------------------
(* load: what it finds takes the place of every row; when it was started   *)
(* in settings, the templates with drafts keep theirs.                     *)

(* Mutant: what is loaded takes the place of drafts too.                   *)
LoadedOverDrafts(r, found, merging) ==
    IF found = Absent THEN NoRow ELSE [text |-> found.text, pos |-> found.pos, orig |-> None]

Loaded(r, found, merging) ==
    IF found = Absent THEN NoRow
    ELSE IF merging /\ r \in Templates /\ HasDraft(rows[r]) THEN rows[r]
    ELSE [text |-> found.text, pos |-> found.pos, orig |-> None]

LoadAnswers(l) ==
    /\ \E seen \in {l.seen, server} :
        /\ rows' = [r \in Rows |-> Loaded(r, seen[r], l.merging)]
        /\ typed' = [r \in Rows |-> IF seen[r] = Absent THEN None ELSE typed[r]]
        \* current unless it crossed a write; a draft that is kept is as old as it was
        /\ stale' = \/ seen # server \/ (~l.own /\ ~Idle)
                    \/ stale /\ l.merging /\ Drafts(rows) # {}
    /\ KeepOpen(rows')
    /\ busy' = FALSE
    /\ reads' = reads \ {l}
    /\ save' = IF l.own THEN NoSave ELSE save
    /\ UNCHANGED <<server, isSettings, form, calls, lost>>

LoadFails(l) ==
    /\ lost > 0
    /\ lost' = lost - 1
    /\ busy' = FALSE
    /\ reads' = reads \ {l}
    /\ save' = IF l.own THEN NoSave ELSE save
    /\ rows' = [r \in Rows |->
          IF l.own /\ r \in PlainRows /\ \E c \in save.saved : c.row = r THEN [rows[r] EXCEPT !.orig = None] ELSE rows[r]]
    /\ stale' = TRUE
    /\ UNCHANGED <<server, isSettings, leave, form, calls, typed>>

-----------------------------------------------------------------------------
(* Coming and going: a change of section loads, and leaving settings       *)
(* discards the drafts, after a question unless the browser goes back.     *)

Goto(settings) ==
    /\ isSettings' = settings
    /\ busy' = TRUE
    /\ reads' = reads \cup {Read(settings, FALSE)}

EnterSettings ==
    /\ ~isSettings /\ Goto(TRUE)
    /\ UNCHANGED <<server, rows, leave, form, save, calls, typed, stale>>

GoAway ==
    /\ isSettings /\ Goto(FALSE)
    /\ rows' = [r \in Rows |-> IF r \in Templates THEN Reverted(rows[r]) ELSE rows[r]]
    /\ typed' = [r \in Rows |-> None]
    /\ leave' = FALSE
    /\ UNCHANGED <<server, form, save, calls, stale>>

\* requestSettingsLeave: the links of the page and of the document.
RequestLeave ==
    /\ isSettings /\ ~leave /\ Drafts(rows) # {}
    /\ leave' = TRUE
    /\ UNCHANGED <<server, rows, isSettings, busy, form, save, calls, reads, typed, stale>>

CancelLeave ==
    /\ leave
    /\ leave' = FALSE
    /\ UNCHANGED <<server, rows, isSettings, busy, form, save, calls, reads, typed, stale>>

Refresh ==
    /\ ~busy /\ ~leave
    /\ busy' = TRUE
    /\ reads' = reads \cup {Read(isSettings, FALSE)}
    /\ UNCHANGED <<server, rows, isSettings, leave, form, save, calls, typed, stale>>

-----------------------------------------------------------------------------
Init ==
    /\ \E free \in {{}} \cup {{r} : r \in Rows} :
          server = [r \in Rows |-> IF r \in free THEN Absent
                      ELSE [text |-> CHOOSE t \in Valid : TRUE,
                            pos |-> Cardinality({q \in ListOf(r) \ free : q <= r})]]
    /\ rows = [r \in Rows |-> NoRow]
    /\ isSettings \in BOOLEAN /\ busy = TRUE /\ leave = FALSE
    /\ form = [list \in Lists |-> None]
    /\ save = NoSave /\ calls = {} /\ reads = {Read(isSettings, FALSE)}
    /\ typed = [r \in Rows |-> None] /\ stale = FALSE
    /\ typing = MaxTyping /\ lost = MaxLost

UserActs ==
    /\ typing > 0 /\ typing' = typing - 1 /\ lost' = lost
    /\ \/ \E r \in Rows : \/ \E t \in Texts : Edit(r, t)
                          \/ Revert(r) \/ SaveRow(r) \/ DeleteRow(r)
       \/ \E list \in Lists : \/ \E t \in Texts : TypeForm(list, t)
                              \/ AddRow(list)
                              \/ \E r \in list, i \in 1..Cardinality(list) : Reorder(list, r, i)
       \/ SaveDrafts \/ EnterSettings \/ GoAway \/ RequestLeave \/ CancelLeave \/ Refresh

Next ==
    \/ UserActs
    \/ /\ typing' = typing
       /\ \/ \E c \in calls : Serve(c) \/ CallSucceeds(c) \/ CallFails(c) \/ StrayEnds(c)
          \/ \E l \in reads : LoadAnswers(l) \/ LoadFails(l)

Spec == Init /\ [][Next]_vars

-----------------------------------------------------------------------------
TypeOK ==
    /\ server \in [Rows -> [text : Valid \cup {None}, pos : Nat]]
    /\ rows \in [Rows -> [text : Texts \cup {None}, pos : Nat, orig : Texts \cup {None}]]
    /\ {isSettings, busy, leave, stale} \subseteq BOOLEAN
    /\ form \in [Lists -> Texts \cup {None}] /\ typed \in [Rows -> Texts \cup {None}]
    /\ save.kind \in {None, "template", "drafts", "plain", "reload", "sort", "load"}
    /\ {c.row : c \in calls} \subseteq Rows
    /\ typing \in 0..MaxTyping /\ lost \in 0..MaxLost

\* At rest, after any mixture of saves, reorders and their failures, a row that
\* is not marked as edited shows what the server holds, and a marked one goes
\* back to what the server holds.
SettingsAreTheServers ==
    Idle /\ ~busy /\ ~stale /\ calls = {} =>
        \A r \in Rows :
            /\ (rows[r] = NoRow) = (server[r] = Absent)
            /\ rows[r].pos = server[r].pos
            /\ (IF rows[r].orig # None THEN rows[r].orig ELSE rows[r].text) = server[r].text

\* The question on leaving is asked only while there are drafts to lose.
QuestionHasDrafts == leave => Drafts(rows) # {}

\* What was typed in a template stays on screen until it is saved or given up
\* (or a load finds the row deleted, by a call whose answer was lost): no save,
\* reorder or reload that starts later takes it away. (One that was on its way
\* when it was typed does, silently.)
TypedIsKept == \A r \in Templates : typed[r] # None => rows[r].text = typed[r]
=============================================================================
