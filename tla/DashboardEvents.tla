--------------------------- MODULE DashboardEvents ---------------------------
(***************************************************************************)
(* The calendar events of the dashboard: web/src/routes/Dashboard.jsx      *)
(* reads a month and drops the answer of a month left since; it keeps the  *)
(* last answer while an error is shown instead.  DashboardView.jsx, built  *)
(* anew for each month and after each error, adds, edits and deletes       *)
(* events in forms that stay usable while a call is on its way.            *)
(***************************************************************************)
EXTENDS Integers, FiniteSets, Functions

CONSTANTS
    EventIds,      \* event ids, positive integers
    EventMonths,   \* months of the calendar
    EventActs,     \* (bound) what the user does
    EventFaults    \* (bound) calls that fail

Closed == -1       \* no form
New    == 0        \* the form of a new event
NoRead == [month |-> Closed, phase |-> "none", found |-> <<>>]
NoData == [month |-> Closed, events |-> <<>>, failed |-> FALSE]

VARIABLES
    db,            \* server: events, by id what they say
    month,         \* location.search
    read,          \* the read still wanted
    data,          \* the last answer, and whether an error hides it
    shown,         \* the events of DashboardView
    form, toDelete,        \* eventForm and deleteEvent, by event
    saving, deleting,
    calls,         \* on the wire
    doubt,         \* history: events whose calls crossed or failed
    acts, faults

vars == <<db, month, read, data, shown, form, toDelete, saving, deleting, calls,
          doubt, acts, faults>>

Tables == UNION {[S -> BOOLEAN] : S \in SUBSET EventIds}
Put(f, id, v) == [i \in DOMAIN f \cup {id} |-> IF i = id THEN v ELSE f[i]]

\* The month DashboardView is built for.
View  == IF data.failed THEN Closed ELSE data.month
Ready == View # Closed

\* The events of which a table and the server say different things.
Stale(t) == {i \in EventIds : \/ (i \in DOMAIN t) # (i \in DOMAIN db)
                              \/ i \in DOMAIN t /\ t[i] # db[i]}

-----------------------------------------------------------------------------
\* A link of the calendar: a new search, and a read that replaces the last. An
\* error goes, and the view comes back with what was last answered, although
\* events were saved since.
GotoMonth(m) ==
    /\ m # month
    /\ month' = m
    /\ read' = [month |-> m, phase |-> "sent", found |-> <<>>]
    /\ data' = [data EXCEPT !.failed = FALSE]
    /\ shown' = IF data.failed THEN data.events ELSE shown
    /\ doubt' = doubt \cup {c.id : c \in calls}
          \cup (IF data.failed /\ data.month # Closed THEN Stale(data.events) ELSE {})
    /\ UNCHANGED <<db, form, toDelete, saving, deleting, calls, faults>>

OpenForm(id) ==
    /\ Ready /\ form = Closed /\ toDelete = Closed
    /\ id = New \/ id \in DOMAIN shown
    /\ form' = id
    /\ UNCHANGED <<db, month, read, data, shown, toDelete, saving, deleting, calls, doubt, faults>>

CloseForm ==
    /\ form # Closed
    /\ form' = Closed
    /\ UNCHANGED <<db, month, read, data, shown, toDelete, saving, deleting, calls, doubt, faults>>

AskDelete(id) ==
    /\ Ready /\ toDelete = Closed /\ form = Closed /\ id \in DOMAIN shown
    /\ toDelete' = id
    /\ UNCHANGED <<db, month, read, data, shown, form, saving, deleting, calls, doubt, faults>>

CancelDelete ==
    /\ toDelete # Closed
    /\ toDelete' = Closed
    /\ UNCHANGED <<db, month, read, data, shown, form, saving, deleting, calls, doubt, faults>>

Send(kind, id, text) ==
    /\ calls' = calls \cup {[kind |-> kind, id |-> id, text |-> text, mounted |-> TRUE, phase |-> "sent"]}
    /\ doubt' = IF read # NoRead \/ \E c \in calls : c.id = id THEN doubt \cup {id} ELSE doubt
    /\ UNCHANGED <<db, month, read, data, shown, form, toDelete, faults>>

\* handleSaveEvent. The id of a new event is the server's.
HandleSaveEvent(id) ==
    /\ form # Closed /\ ~saving
    /\ IF form = New THEN id \notin DOMAIN db \cup DOMAIN shown \cup {c.id : c \in calls} ELSE id = form
    /\ saving' = TRUE
    /\ Send(IF form = New THEN "create" ELSE "edit", id,
            IF form = New THEN FALSE ELSE ~shown[id])
    /\ UNCHANGED deleting

(* Mutant: the question may have been closed.                              *)
HandleDeleteEventAnyway ==
    /\ ~deleting
    /\ deleting' = TRUE
    /\ Send("delete", toDelete, FALSE)
    /\ UNCHANGED saving

HandleDeleteEvent ==
    /\ toDelete # Closed /\ ~deleting
    /\ deleting' = TRUE
    /\ Send("delete", toDelete, FALSE)
    /\ UNCHANGED saving

UserActs == acts > 0 /\ acts' = acts - 1 /\
    (\/ \E m \in EventMonths : GotoMonth(m)
     \/ \E id \in EventIds : OpenForm(id) \/ AskDelete(id) \/ HandleSaveEvent(id)
     \/ OpenForm(New) \/ CloseForm \/ CancelDelete \/ HandleDeleteEvent)

-----------------------------------------------------------------------------
ServeRead ==
    /\ read.phase = "sent"
    /\ read' = [read EXCEPT !.phase = "ok", !.found = db]
    /\ UNCHANGED <<db, month, data, shown, form, toDelete, saving, deleting, calls, doubt, acts, faults>>

\* A month other than the one on screen builds the view anew: its forms go, and
\* calls of the old view change nothing in the new. The same month keeps the
\* events it has.
ReadAnswered ==
    /\ read.phase = "ok"
    /\ read' = NoRead
    /\ data' = [month |-> read.month, events |-> read.found, failed |-> FALSE]
    /\ IF read.month = View
       THEN /\ doubt' = doubt \cup {i \in EventIds : \E c \in calls : c.id = i}
            /\ UNCHANGED <<shown, form, toDelete, saving, deleting, calls>>
       ELSE /\ shown' = read.found
            /\ form' = Closed /\ toDelete' = Closed /\ saving' = FALSE /\ deleting' = FALSE
            /\ calls' = {[c EXCEPT !.mounted = FALSE] : c \in calls}
            /\ doubt' = doubt \cup {c.id : c \in calls}
    /\ UNCHANGED <<db, month, acts, faults>>

\* The view is replaced by the error until another month is asked for.
ReadFails ==
    /\ read # NoRead /\ faults > 0 /\ faults' = faults - 1
    /\ read' = NoRead
    /\ data' = [data EXCEPT !.failed = TRUE] /\ shown' = <<>>
    /\ form' = Closed /\ toDelete' = Closed /\ saving' = FALSE /\ deleting' = FALSE
    /\ calls' = {[c EXCEPT !.mounted = FALSE] : c \in calls}
    /\ UNCHANGED <<db, month, doubt, acts>>

Serve(c) ==
    /\ c.phase = "sent"
    /\ c.kind = "create" \/ c.id \in DOMAIN db
    /\ db' = IF c.kind = "delete" THEN Restrict(db, DOMAIN db \ {c.id}) ELSE Put(db, c.id, c.text)
    /\ calls' = (calls \ {c}) \cup {[c EXCEPT !.phase = "ok"]}
    /\ UNCHANGED <<month, read, data, shown, form, toDelete, saving, deleting, doubt, acts, faults>>

After(c) ==
    IF c.kind = "delete" THEN Restrict(shown, DOMAIN shown \ {c.id})
    ELSE IF c.kind = "create" \/ c.id \in DOMAIN shown THEN Put(shown, c.id, c.text) ELSE shown

\* A save closes whichever form is open by then, a removal the form of its event
\* and whichever question is open.
CallAnswered(c) ==
    /\ c.phase = "ok"
    /\ calls' = calls \ {c}
    /\ IF ~c.mounted THEN UNCHANGED <<shown, form, toDelete, saving, deleting>>
       ELSE IF c.kind = "delete"
       THEN /\ shown' = After(c)
            /\ form' = IF form = c.id THEN Closed ELSE form
            /\ toDelete' = Closed /\ deleting' = FALSE
            /\ UNCHANGED saving
       ELSE /\ shown' = After(c)
            /\ form' = Closed /\ saving' = FALSE
            /\ UNCHANGED <<toDelete, deleting>>
    /\ UNCHANGED <<db, month, read, data, doubt, acts, faults>>

Idle(c) ==
    /\ saving' = (saving /\ ~(c.mounted /\ c.kind # "delete"))
    /\ deleting' = (deleting /\ ~(c.mounted /\ c.kind = "delete"))

CallFails(c) ==
    /\ IF c.phase = "sent" /\ c.kind # "create" /\ c.id \notin DOMAIN db THEN UNCHANGED faults
       ELSE faults > 0 /\ faults' = faults - 1
    /\ calls' = calls \ {c}
    /\ Idle(c)
    /\ doubt' = doubt \cup {c.id}
    /\ UNCHANGED <<db, month, read, data, shown, form, toDelete, acts>>

Moves == ServeRead \/ ReadAnswered \/ ReadFails
            \/ \E c \in calls : Serve(c) \/ CallAnswered(c) \/ CallFails(c)

-----------------------------------------------------------------------------
TypeOK ==
    /\ {db, shown, read.found} \subseteq Tables
    /\ month \in EventMonths
    /\ data \in [month : EventMonths \cup {Closed}, events : Tables, failed : BOOLEAN]
    /\ form \in EventIds \cup {New, Closed} /\ toDelete \in EventIds \cup {Closed}
    /\ {saving, deleting} \subseteq BOOLEAN
    /\ calls \subseteq [kind : {"create", "edit", "delete"}, id : EventIds, text : BOOLEAN,
                        mounted : BOOLEAN, phase : {"sent", "ok"}]
    /\ doubt \subseteq EventIds /\ {acts, faults} \subseteq Nat

Init ==
    /\ db \in {t \in Tables : \A i \in DOMAIN t : ~t[i]}
    /\ \E m \in EventMonths : month = m /\ read = [month |-> m, phase |-> "sent", found |-> <<>>]
    /\ data = NoData /\ shown = <<>> /\ form = Closed /\ toDelete = Closed
    /\ saving = FALSE /\ deleting = FALSE
    /\ calls = {} /\ doubt = {}
    /\ acts = EventActs /\ faults = EventFaults

Next == UserActs \/ Moves

Spec == Init /\ [][Next]_vars /\ WF_vars(Moves)

-----------------------------------------------------------------------------
\* At rest the calendar shows the events of the server, but for those whose
\* calls crossed another, a change of month, or failed, and for those that were
\* out of date when an answer came back from behind an error: the next answer
\* for that month does not replace them.
EventsSettle ==
    calls = {} /\ read = NoRead /\ Ready =>
        \A id \in EventIds \ doubt :
            /\ id \in DOMAIN shown <=> id \in DOMAIN db
            /\ id \in DOMAIN shown => shown[id] = db[id]

\* The view on screen is of the month in the address, once it was read.
ViewIsOfTheMonth == read = NoRead /\ Ready => View = month

\* A button is disabled only while a call of this view is on its way, also
\* after the view was built anew.
BusyHasACall ==
    /\ saving => \E c \in calls : c.mounted /\ c.kind # "delete"
    /\ deleting => \E c \in calls : c.mounted /\ c.kind = "delete"
=============================================================================
