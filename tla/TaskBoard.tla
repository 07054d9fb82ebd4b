------------------------------ MODULE TaskBoard ------------------------------
(***************************************************************************)
(* The tasks of a workspace as its page shows them: the rows of            *)
(* web/src/components/Board.jsx and ListView.jsx, the editor of            *)
(* TaskModal.jsx and the counts Sidebar.jsx shows beside them.  Every      *)
(* change is a call of its own and nothing stops the next one while it is  *)
(* on its way.  Workspace.tla models what the server does with the calls;  *)
(* here it is the rule that ties completed_at to the status, which is what *)
(* the answers differ by.                                                  *)
(***************************************************************************)
EXTENDS Integers, FiniteSets, Functions

CONSTANTS
    TaskIds,    \* task ids
    MaxCalls,   \* (bound) calls of each kind on the wire at once
    BoardVisits \* one visit each: the parts of the page it uses, and (bounds)
                \* what the user does in it and how many calls fail

None  == 0      \* no task
Parts == {"list", "history", "modal", "sidebar"}

VARIABLES
    parts,   \* what this visit uses of the page; never changes
    db,      \* server: the tasks table
    rows,    \* the page's copy
    modal,   \* the task open in TaskModal: as it was opened, and as edited
    stamping,\* the task whose completion date is being edited, and whether one is saved
    wire,    \* calls about tasks
    nav,     \* the count of open tasks in the sidebar
    navReads,\* fetchNav calls on their way
    doubt,   \* history: tasks whose calls crossed or failed
    acts, faults

vars == <<parts, db, rows, modal, stamping, wire, nav, navReads, doubt, acts, faults>>

\* done: the status is Done; stamp: completed_at is set; mark: everything else a
\* save carries (text, flags, due date).
Row     == [done : BOOLEAN, stamp : BOOLEAN, mark : BOOLEAN]
NoRow   == [done |-> FALSE, stamp |-> FALSE, mark |-> FALSE]
Tables  == UNION {[S -> Row] : S \in SUBSET TaskIds}
Fields  == {"status", "stamp", "mark"}
Kinds   == {"row", "save", "stamp", "restore", "deleteRow", "deleteModal", "create"}
NoStamp == [id |-> None, saving |-> FALSE]
NoModal == [id |-> None, opened |-> NoRow, edited |-> NoRow]
Unread  == -1

Put(table, id, r) == [i \in DOMAIN table \cup {id} |-> IF i = id THEN r ELSE table[i]]
Drop(table, id)   == Restrict(table, DOMAIN table \ {id})
Set(table, id, r) == IF id \in DOMAIN table THEN Put(table, id, r) ELSE table
Open(table)       == Cardinality({i \in DOMAIN table : ~table[i].done})

-----------------------------------------------------------------------------
(* The sidebar.                                                            *)

\* fetchNav, on mount, on every taskUpdated event and every minute. A slot
\* numbers the reads on their way.
FreeSlots == {n \in 1..MaxCalls : \A r \in navReads : r.slot # n}
FetchNav  == {[slot |-> CHOOSE n \in FreeSlots : TRUE, count |-> Unread]}

\* taskUpdated is sent.
TaskUpdated ==
    IF "sidebar" \in parts THEN FreeSlots # {} /\ navReads' = navReads \cup FetchNav
    ELSE UNCHANGED navReads

\* handleTaskPatch sends it when the status changes and React runs the update
\* at once, which it does only when the page has none waiting.
PatchRow(id, r) ==
    /\ rows' = Set(rows, id, r)
    /\ IF id \in DOMAIN rows /\ rows[id].done # r.done
       THEN TaskUpdated \/ UNCHANGED navReads
       ELSE UNCHANGED navReads

(* Mutant: the counts are read when tasks change, and at no other time.    *)
NavTimerNever == FALSE /\ UNCHANGED vars

NavTimer ==
    /\ "sidebar" \in parts /\ navReads = {}
    /\ navReads' = FetchNav
    /\ UNCHANGED <<parts, db, rows, modal, stamping, wire, nav, doubt, acts, faults>>

NavServed(r) ==
    /\ r.count = Unread
    /\ navReads' = (navReads \ {r}) \cup {[r EXCEPT !.count = Open(db)]}
    /\ UNCHANGED <<parts, db, rows, modal, stamping, wire, nav, doubt, acts, faults>>

NavAnswered(r) ==
    /\ r.count # Unread
    /\ nav' = r.count
    /\ navReads' = navReads \ {r}
    /\ UNCHANGED <<parts, db, rows, modal, stamping, wire, doubt, acts, faults>>

NavFails(r) ==
    /\ faults > 0 /\ faults' = faults - 1
    /\ navReads' = navReads \ {r}
    /\ UNCHANGED <<parts, db, rows, modal, stamping, wire, nav, doubt, acts>>

-----------------------------------------------------------------------------
(* Calls.  The fields a PATCH names, and the values it carries; no tells   *)
(* two calls apart that say the same.                                      *)

Call(kind, id, fields, r) ==
    [kind |-> kind, id |-> id, no |-> acts, fields |-> fields, row |-> r, phase |-> "sent",
     status |-> IF kind = "save" THEN modal.opened.done ELSE FALSE]

InFlight(kind, id) == \E c \in wire : c.kind = kind /\ c.id = id

\* The user sends a call; one about the task still on its way crosses it.
Send(kind, id, fields, r) ==
    LET c == Call(kind, id, fields, r) IN
    /\ Cardinality(wire) < MaxCalls
    /\ wire' = wire \cup {c}
    /\ doubt' = IF \E o \in wire : o.id = id THEN doubt \cup {id} ELSE doubt
    /\ UNCHANGED <<parts, db, nav, faults>>

Listed(id)    == "list" \in parts /\ id \in DOMAIN rows /\ ~rows[id].done
Completed(id) == "history" \in parts /\ id \in DOMAIN rows /\ rows[id].done

\* A row's check mark and flags: the page changes first.
ToggleDone(id) ==
    /\ Listed(id) /\ modal = NoModal
    /\ Send("row", id, {"status"}, [rows[id] EXCEPT !.done = TRUE])
    /\ PatchRow(id, [rows[id] EXCEPT !.done = TRUE])
    /\ UNCHANGED <<modal, stamping>>

ToggleFlag(id) ==
    LET r == [rows[id] EXCEPT !.mark = ~@] IN
    /\ Listed(id) /\ modal = NoModal
    /\ Send("row", id, {"mark"}, r)
    /\ PatchRow(id, r)
    /\ UNCHANGED <<modal, stamping>>

DeleteRow(id) ==
    /\ Listed(id) /\ modal = NoModal /\ ~InFlight("deleteRow", id)
    /\ Send("deleteRow", id, {}, NoRow)
    /\ UNCHANGED <<rows, modal, stamping, navReads>>

\* The button is disabled while one is on its way, the Enter key is not. The id
\* is the server's.
CreateTask(id) ==
    /\ "list" \in parts /\ id \notin DOMAIN db \cup DOMAIN rows \cup {c.id : c \in wire}
    /\ modal = NoModal
    /\ Send("create", id, {}, NoRow)
    /\ UNCHANGED <<rows, modal, stamping, navReads>>

\* The list of completed tasks.
RestoreTask(id) ==
    /\ Completed(id) /\ modal = NoModal
    /\ Send("restore", id, {"status"}, NoRow)
    /\ UNCHANGED <<rows, modal, stamping, navReads>>

EditStamp(id) ==
    /\ Completed(id) /\ modal = NoModal /\ stamping.id = None
    /\ stamping' = [stamping EXCEPT !.id = id]
    /\ UNCHANGED <<parts, db, rows, modal, wire, nav, navReads, doubt, faults>>

CloseStamp ==
    /\ stamping.id # None /\ ~stamping.saving
    /\ stamping' = NoStamp
    /\ UNCHANGED <<parts, db, rows, modal, wire, nav, navReads, doubt, faults>>

\* The Enter key sends it again while it is saved.
SaveCompletedAt ==
    /\ stamping.id # None
    /\ stamping' = [stamping EXCEPT !.saving = TRUE]
    /\ Send("stamp", stamping.id, {"stamp"}, [NoRow EXCEPT !.stamp = TRUE])
    /\ UNCHANGED <<rows, modal, navReads>>

\* The editor: opened on the row as the page has it, saved whole on every choice
\* and whenever a field loses the focus.
OpenTaskModal(id) ==
    /\ "modal" \in parts /\ id \in DOMAIN rows /\ modal = NoModal /\ stamping.id = None
    /\ modal' = [id |-> id, opened |-> rows[id], edited |-> rows[id]]
    /\ UNCHANGED <<parts, db, rows, stamping, wire, nav, navReads, doubt, faults>>

CloseTaskModal ==
    /\ modal # NoModal
    /\ modal' = NoModal
    /\ UNCHANGED <<parts, db, rows, stamping, wire, nav, navReads, doubt, faults>>

SaveModal(r) ==
    /\ modal # NoModal
    /\ modal' = [modal EXCEPT !.edited = r]
    /\ Send("save", modal.id, Fields, r)
    /\ UNCHANGED <<rows, stamping, navReads>>

ChooseStatus == SaveModal([modal.edited EXCEPT !.done = ~@])
ChooseMark   == SaveModal([modal.edited EXCEPT !.mark = ~@])

DeleteInModal ==
    /\ modal # NoModal
    /\ Send("deleteModal", modal.id, {}, NoRow)
    /\ UNCHANGED <<rows, modal, stamping, navReads>>

UserActs == acts > 0 /\ acts' = acts - 1 /\
    (\/ \E id \in TaskIds : \/ ToggleDone(id) \/ ToggleFlag(id) \/ DeleteRow(id)
                           \/ CreateTask(id) \/ RestoreTask(id) \/ EditStamp(id)
                           \/ OpenTaskModal(id)
    \/ CloseStamp \/ SaveCompletedAt
    \/ CloseTaskModal \/ ChooseStatus \/ ChooseMark \/ DeleteInModal)

-----------------------------------------------------------------------------
(* The server: internal/tasks/tasks.go.                                    *)

Patched(r, c) ==
    LET done == IF "status" \in c.fields THEN c.row.done ELSE r.done IN
    [done  |-> done,
     stamp |-> CASE "stamp" \in c.fields -> c.row.stamp
                 [] "status" \in c.fields /\ "stamp" \notin c.fields -> done
                 [] OTHER -> r.stamp,
     mark  |-> IF "mark" \in c.fields THEN c.row.mark ELSE r.mark]

\* A completed task has a completion date and no other task has one.
Refused(c) ==
    \/ c.kind # "create" /\ c.id \notin DOMAIN db
    \/ c.fields # {} /\ "stamp" \in c.fields /\ Patched(db[c.id], c).stamp # Patched(db[c.id], c).done

Answered(c, phase, r) == wire' = (wire \ {c}) \cup {[c EXCEPT !.phase = phase, !.row = r]}

Serve(c) ==
    /\ c.phase = "sent" /\ ~Refused(c)
    /\ CASE c.kind \in {"deleteRow", "deleteModal"} ->
            db' = Drop(db, c.id) /\ Answered(c, "ok", c.row)
         [] c.kind = "create" ->
            db' = Put(db, c.id, NoRow) /\ Answered(c, "ok", NoRow)
         [] OTHER -> LET r == Patched(db[c.id], c) IN
            db' = Put(db, c.id, r) /\ Answered(c, "ok", r)
    /\ UNCHANGED <<parts, rows, modal, stamping, nav, navReads, doubt, acts, faults>>

\* The server answers an error: it will not, or it cannot.
Refuse(c) ==
    /\ c.phase = "sent"
    /\ IF Refused(c) THEN UNCHANGED faults ELSE faults > 0 /\ faults' = faults - 1
    /\ Answered(c, "refused", c.row)
    /\ UNCHANGED <<parts, db, rows, modal, stamping, nav, navReads, doubt, acts>>

-----------------------------------------------------------------------------
(* Answers.                                                                *)

Settled(c) == wire' = wire \ {c} /\ UNCHANGED <<parts, db, nav, acts>>

\* patchTask and the modal's handleSave.
PatchAnswered(c) ==
    /\ c.kind \in {"row", "save"} /\ c.phase = "ok"
    /\ Settled(c)
    /\ rows' = Set(rows, c.id, c.row)
    /\ \/ UNCHANGED navReads /\ ~(c.kind = "save" /\ c.row.done # c.status)
       \/ /\ TaskUpdated
          /\ \/ c.kind = "save" /\ c.row.done # c.status
             \/ c.id \in DOMAIN rows /\ rows[c.id].done # c.row.done
    /\ UNCHANGED <<modal, stamping, doubt, faults>>

\* handleSaveCompletedAt and handleRestoreTask.
CompletedAnswered(c) ==
    /\ c.kind \in {"stamp", "restore"} /\ c.phase = "ok"
    /\ Settled(c) /\ TaskUpdated
    /\ rows' = Set(rows, c.id, c.row)
    /\ modal' = IF c.kind = "stamp" /\ modal.id = c.id
                THEN [id |-> c.id, opened |-> c.row, edited |-> c.row] ELSE modal
    /\ stamping' = CASE c.kind = "stamp" -> NoStamp
                     [] stamping.id = c.id -> [stamping EXCEPT !.id = None]
                     [] OTHER -> stamping
    /\ UNCHANGED <<doubt, faults>>

CreateAnswered(c) ==
    /\ c.kind = "create" /\ c.phase = "ok"
    /\ Settled(c) /\ TaskUpdated
    /\ rows' = Put(rows, c.id, c.row)
    /\ UNCHANGED <<modal, stamping, doubt, faults>>

\* A row goes whatever the server answered; the modal looks at the answer, and
\* closes whichever task it shows by then.
DeleteAnswered(c) ==
    /\ \/ c.kind = "deleteRow" /\ c.phase # "sent" /\ UNCHANGED modal
       \/ c.kind = "deleteModal" /\ c.phase = "ok" /\ modal' = NoModal
    /\ Settled(c) /\ TaskUpdated
    /\ rows' = Drop(rows, c.id)
    /\ doubt' = IF c.phase = "refused" THEN doubt \cup {c.id} ELSE doubt
    /\ UNCHANGED <<stamping, faults>>

\* A refusal, or no answer: an alert at most. The page keeps what it shows.
CallFails(c) ==
    /\ \/ c.phase = "refused" /\ c.kind # "deleteRow" /\ UNCHANGED faults
       \/ c.phase # "refused" /\ faults > 0 /\ faults' = faults - 1
    /\ Settled(c)
    /\ doubt' = doubt \cup {c.id}
    /\ stamping' = IF c.kind = "stamp" THEN [stamping EXCEPT !.saving = FALSE] ELSE stamping
    /\ UNCHANGED <<rows, modal, navReads>>

Answer(c) == PatchAnswered(c) \/ CompletedAnswered(c) \/ CreateAnswered(c)
                \/ DeleteAnswered(c) \/ CallFails(c)

-----------------------------------------------------------------------------
TypeOK ==
    /\ parts \in SUBSET Parts
    /\ {db, rows} \subseteq Tables
    /\ modal \in [id : TaskIds \cup {None}, opened : Row, edited : Row]
    /\ stamping \in [id : TaskIds \cup {None}, saving : BOOLEAN]
    /\ wire \subseteq [kind : Kinds, id : TaskIds, no : Nat, fields : SUBSET Fields, row : Row,
                       phase : {"sent", "ok", "refused"}, status : BOOLEAN]
    /\ nav \in Nat
    /\ navReads \subseteq [slot : 1..MaxCalls, count : Nat \cup {Unread}]
    /\ doubt \subseteq TaskIds /\ {acts, faults} \subseteq Nat

\* The page has just loaded.
Init ==
    /\ db \in {t \in Tables : \A i \in DOMAIN t : t[i].stamp = t[i].done /\ ~t[i].mark}
    /\ rows = db
    /\ modal = NoModal /\ stamping = NoStamp
    /\ wire = {} /\ doubt = {}
    /\ \E v \in BoardVisits : parts = v.parts /\ acts = v.acts /\ faults = v.faults
    /\ nav = 0
    /\ navReads = IF "sidebar" \in parts THEN {[slot |-> 1, count |-> Unread]} ELSE {}

CallMoves(c) == Serve(c) \/ Refuse(c) \/ Answer(c)
NavMoves == NavTimer \/ \E r \in navReads : NavServed(r) \/ NavAnswered(r)

Next ==
    \/ UserActs
    \/ \E c \in wire : CallMoves(c)
    \/ NavMoves
    \/ \E r \in navReads : NavFails(r)

\* Every call is answered or fails, and the interval of the sidebar fires.
Fairness == WF_vars(\E c \in wire : CallMoves(c)) /\ WF_vars(NavMoves)

Spec == Init /\ [][Next]_vars /\ Fairness

-----------------------------------------------------------------------------
\* When nothing is on its way, the page shows every task as the server has it,
\* unless calls about that task crossed or one of them failed: those are the
\* only ways to be wrong, and one refused or crossed call spoils no other task.
RowsSettle ==
    wire = {} =>
        \A id \in TaskIds \ doubt :
            /\ id \in DOMAIN rows <=> id \in DOMAIN db
            /\ id \in DOMAIN rows => rows[id] = db[id]

\* The server never has a completed task without its date, nor the reverse.
CompletedAreStamped == \A id \in DOMAIN db : db[id].stamp = db[id].done

\* The sidebar is told of a change before the server has it and its reads
\* overtake each other; in the end its count must still be the server's.
NavIsCurrent == "sidebar" \in parts => nav = Open(db)

\* A choice in the task editor that nothing else crossed is never refused.
ChoicesAreAccepted ==
    \A c \in wire : c.kind = "save" /\ c.phase = "refused" => c.id \in doubt
=============================================================================
