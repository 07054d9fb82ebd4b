----------------------------- MODULE ProjectBoard -----------------------------
(***************************************************************************)
(* The projects of a workspace on the same page: Board.jsx, the sections   *)
(* of ListView.jsx and ProjectModal.jsx.  A drag saves the order with one  *)
(* PATCH per project that moved; other changes are one call each; a list   *)
(* is read whole.  Some handlers put back the list of the render they were *)
(* started in, some filter the list of the moment they are answered.  Of   *)
(* the tasks the page knows whether a project has open ones.               *)
(***************************************************************************)
EXTENDS Integers, Sequences, FiniteSets, Functions

CONSTANTS
    ProjectIds,    \* project ids 1 to the number of them, in the order they are created
    MaxProjectCalls,\* (bound) calls on the wire at once
    ProjectVisits  \* one visit each: the handlers it uses, and (bounds) what the
                   \* user does in it and how many calls fail

None   == 0
Groups == {"order", "create", "delete", "archive", "restore", "rename", "task"}
Rest   == [active |-> FALSE, prev |-> <<>>]

VARIABLES
    groups,    \* the handlers this visit uses; never changes
    srv,       \* server: the projects table
    shown,     \* the page's projects, by id their order_index
    pending,   \* the projects with an open task on the page
    archiveOpen, archived,  \* the archive modal and its list
    saving,    \* projectOrderSaving, and the list a failure goes back to
    loading, error,
    calls,     \* on the wire
    doubt,     \* history: projects whose calls crossed or failed, with which of it
    acts, faults

vars == <<groups, srv, shown, pending, archiveOpen, archived, saving, loading,
          error, calls, doubt, acts, faults>>

Project == [order : Nat, archived : BOOLEAN, pending : BOOLEAN]
Live(table) == {i \in DOMAIN table : ~table[i].archived}
Orders(table) == [i \in Live(table) |-> table[i].order]
WithOpen(table) == {i \in Live(table) : table[i].pending}
Put(f, id, v) == [i \in DOMAIN f \cup {id} |-> IF i = id THEN v ELSE f[i]]
Drop(f, id)   == Restrict(f, DOMAIN f \ {id})
Set(f, id, v) == IF id \in DOMAIN f THEN Put(f, id, v) ELSE f

\* `list`: for a call that ends by putting a list back, that list; for a read,
\* what it found. `open`: the projects a read found open tasks in.
Call(kind, id, order, list) ==
    [kind |-> kind, id |-> id, order |-> order, list |-> list, open |-> {}, phase |-> "sent"]
Kinds == Groups \cup {"stray", "fetch", "archived", "tasks"}
Reads == {"fetch", "archived", "tasks"}
Whole == {"fetch", "create", "archived"}       \* about every project

\* Whose rows a call is about.
About(c) == IF c.kind \in Whole THEN ProjectIds ELSE {c.id}

Cross(new, old) ==
    IF \E c \in new : c.kind \in Whole THEN UNION {About(c) : c \in old}
    ELSE UNION {About(c) : c \in {d \in new : \E o \in old : About(d) \cap About(o) # {}}}

\* New calls join those on the wire and cross those about the same projects.
Put2Wire(new, wire) ==
    /\ Cardinality(new \cup wire) <= MaxProjectCalls /\ new \cap wire = {}
    /\ calls' = wire \cup new
    /\ doubt' = doubt \cup (Cross(new, wire) \X {"crossed"})

Ready == ~loading /\ ~error

-----------------------------------------------------------------------------
(* The user.                                                               *)

\* The sections from top to bottom: order_index, then creation.
Sorted(f) == CHOOSE s \in [1..Cardinality(DOMAIN f) -> DOMAIN f] :
    \A i, j \in DOMAIN s : i < j =>
        f[s[i]] < f[s[j]] \/ (f[s[i]] = f[s[j]] /\ s[i] < s[j])

\* moveProject: taken out, and put in at the index of the one it is dropped on.
Moved(s, from, to) ==
    LET rest == [i \in 1..(Len(s) - 1) |-> IF i < from THEN s[i] ELSE s[i + 1]]
    IN  [i \in DOMAIN s |-> IF i < to THEN rest[i] ELSE IF i = to THEN s[from] ELSE rest[i - 1]]

\* handleProjectsReordered
Reorder(from, to) ==
    LET s       == Moved(Sorted(shown), from, to)
        next    == [id \in DOMAIN shown |-> CHOOSE i \in 0..(Len(s) - 1) : s[i + 1] = id]
        changed == {id \in DOMAIN shown : next[id] # shown[id]}
    IN  /\ Ready /\ "order" \in groups /\ ~saving.active /\ from # to
        /\ shown' = next
        /\ Put2Wire({Call("order", id, next[id], <<>>) : id \in changed}, calls)
        /\ saving' = IF changed = {} THEN saving ELSE [active |-> TRUE, prev |-> shown]
        /\ UNCHANGED <<groups, srv, pending, archiveOpen, archived, loading, error, faults>>

Send(group, new) ==
    /\ Ready /\ group \in groups
    /\ Put2Wire(new, calls)
    /\ UNCHANGED <<groups, srv, shown, pending, saving, loading, error, faults>>

\* Not disabled while its call is on the way: two of them create two projects.
CreateProject(id) ==
    /\ id \notin DOMAIN srv \cup DOMAIN shown /\ ~\E c \in calls : c.kind = "create" /\ c.id = id
    /\ Send("create", {Call("create", id, Cardinality(DOMAIN shown), shown)})
    /\ UNCHANGED <<archiveOpen, archived>>

DeleteProject(id) ==
    /\ id \in DOMAIN shown
    /\ Send("delete", {Call("delete", id, 0, <<>>)})
    /\ UNCHANGED <<archiveOpen, archived>>

RenameProject(id) ==
    /\ id \in DOMAIN shown
    /\ Send("rename", {Call("rename", id, 0, <<>>)})
    /\ UNCHANGED <<archiveOpen, archived>>

ArchiveProject(id) ==
    /\ id \in DOMAIN shown \ pending
    /\ Send("archive", {Call("archive", id, 0, <<>>)})
    /\ UNCHANGED <<archiveOpen, archived>>

CreateTask(id) ==
    /\ id \in DOMAIN shown
    /\ Send("task", {Call("task", id, 0, <<>>)})
    /\ UNCHANGED <<archiveOpen, archived>>

OpenArchive ==
    /\ ~archiveOpen
    /\ Send("restore", {Call("archived", None, 0, <<>>)})
    /\ archiveOpen' = TRUE
    /\ UNCHANGED archived

CloseArchive ==
    /\ archiveOpen
    /\ archiveOpen' = FALSE
    /\ UNCHANGED <<groups, srv, shown, pending, archived, saving, loading, error, calls,
                   doubt, faults>>

\* One project's restore does not disable another's.
RestoreProject(id) ==
    /\ archiveOpen /\ id \in archived /\ ~\E c \in calls : c.kind = "archived"
    /\ Send("restore", {Call("restore", id, 0, <<>>)})
    /\ UNCHANGED <<archiveOpen, archived>>

UserActs == acts > 0 /\ acts' = acts - 1 /\
    (\/ \E i, j \in 1..Cardinality(DOMAIN shown) : Reorder(i, j)
     \/ \E id \in ProjectIds : \/ CreateProject(id) \/ DeleteProject(id) \/ RenameProject(id)
                               \/ ArchiveProject(id) \/ CreateTask(id) \/ RestoreProject(id)
     \/ OpenArchive \/ CloseArchive)

-----------------------------------------------------------------------------
(* The server: internal/projects/projects.go.                              *)

Reply(c, table, phase) ==
    /\ srv' = table
    /\ calls' = (calls \ {c}) \cup {[c EXCEPT !.phase = phase,
          !.order = IF c.kind \in {"rename", "restore"} /\ phase = "ok"
                    THEN table[c.id].order ELSE @]}
    /\ UNCHANGED <<groups, shown, pending, archiveOpen, archived, saving, loading, error,
                   doubt, acts>>

Refused(c) ==
    \/ c.kind \notin Reads \cup {"create"} /\ c.id \notin DOMAIN srv
    \/ c.kind = "archive" /\ c.id \in DOMAIN srv /\ srv[c.id].pending

Written(c) ==
    CASE c.kind = "create"  -> Put(srv, c.id, [order |-> c.order, archived |-> FALSE, pending |-> FALSE])
      [] c.kind = "delete"  -> Drop(srv, c.id)
      [] c.kind \in {"order", "stray"} -> [srv EXCEPT ![c.id].order = c.order]
      [] c.kind = "archive" -> [srv EXCEPT ![c.id].archived = TRUE]
      [] c.kind = "restore" -> [srv EXCEPT ![c.id].archived = FALSE]
      [] c.kind = "task"    -> [srv EXCEPT ![c.id].pending = TRUE]
      [] OTHER -> srv       \* a name

Serve(c) ==
    /\ c.phase = "sent" /\ c.kind \notin Reads /\ ~Refused(c)
    /\ Reply(c, Written(c), "ok")
    /\ UNCHANGED faults

\* The server answers an error: it will not, or it cannot.
Refuse(c) ==
    /\ c.phase = "sent"
    /\ IF Refused(c) THEN UNCHANGED faults ELSE faults > 0 /\ faults' = faults - 1
    /\ Reply(c, srv, "refused")

\* What a read can have found so far: fetchData reads projects and tasks each in
\* its own time; after a restore the tasks of that project alone are read.
Found(c) ==
    LET projects == [c EXCEPT !.list = Orders(srv)]
        tasks    == [c EXCEPT !.open = WithOpen(srv)]
    IN  CASE c.kind = "archived" -> {[c EXCEPT !.open = DOMAIN srv \ Live(srv), !.phase = "ok"]}
          [] c.kind = "tasks"    -> {[c EXCEPT !.open = {i \in DOMAIN srv : i = c.id /\ srv[i].pending}, !.phase = "ok"]}
          [] c.kind = "fetch"    ->
               CASE c.phase = "sent"  -> {[projects EXCEPT !.phase = "tasks"], [tasks EXCEPT !.phase = "projects"]}
                 [] c.phase = "tasks" -> {[tasks EXCEPT !.phase = "ok"]}
                 [] OTHER             -> {[projects EXCEPT !.phase = "ok"]}

ServeRead(c) ==
    /\ c.kind \in Reads /\ c.phase \notin {"ok", "refused"}
    /\ \E d \in Found(c) : calls' = (calls \ {c}) \cup {d}
    /\ UNCHANGED <<groups, srv, shown, pending, archiveOpen, archived, saving, loading, error,
                   doubt, acts, faults>>

-----------------------------------------------------------------------------
(* Answers.                                                                *)

Done(c) == calls' = calls \ {c} /\ UNCHANGED <<groups, srv, acts>>

\* A refusal, or no answer.
Failing(c) == IF c.phase = "refused" THEN UNCHANGED faults ELSE faults > 0 /\ faults' = faults - 1

\* The drag ends with the last of its PATCHes.
OrderAnswered(c) ==
    /\ c.kind = "order" /\ c.phase = "ok"
    /\ saving' = IF \E d \in calls \ {c} : d.kind = "order" THEN saving ELSE Rest
    /\ Done(c)
    /\ UNCHANGED <<shown, pending, archiveOpen, archived, loading, error, doubt, faults>>

(* Mutant: the old list is put back, and taken for the server's.           *)
OrderFailsWithoutRead(c) ==
    /\ c.kind = "order" /\ Failing(c)
    /\ shown' = saving.prev /\ saving' = Rest
    /\ calls' = {[d EXCEPT !.kind = IF @ = "order" THEN "stray" ELSE @] : d \in calls \ {c}}
    /\ doubt' = doubt \cup ((UNION {About(d) : d \in calls \ {c}}) \X {"crossed"})
    /\ UNCHANGED <<groups, srv, pending, archiveOpen, archived, loading, error, acts>>

\* The first to fail puts the old list back and reads both lists again; nobody
\* waits for the others.
OrderFails(c) ==
    /\ c.kind = "order" /\ Failing(c)
    /\ shown' = saving.prev
    /\ calls' = {[d EXCEPT !.kind = IF @ = "order" THEN "stray" ELSE @] : d \in calls \ {c}}
                  \cup {Call("fetch", None, 0, <<>>)}
    /\ doubt' = doubt \cup ((UNION {About(d) : d \in calls \ {c}}) \X {"crossed"})
    /\ UNCHANGED <<groups, srv, pending, archiveOpen, archived, saving, loading, error, acts>>

StrayEnds(c) ==
    /\ c.kind = "stray" /\ c.phase # "sent"
    /\ Done(c)
    /\ UNCHANGED <<shown, pending, archiveOpen, archived, saving, loading, error, doubt, faults>>

\* fetchData, of the first render or after a drag that failed. An error hides
\* the page for good.
FetchAnswered(c) ==
    /\ c.kind = "fetch" /\ c.phase = "ok"
    /\ shown' = c.list /\ pending' = c.open
    /\ saving' = Rest /\ loading' = FALSE
    /\ Done(c)
    /\ UNCHANGED <<archiveOpen, archived, error, doubt, faults>>

FetchFails(c) ==
    /\ c.kind = "fetch" /\ Failing(c)
    /\ error' = TRUE
    /\ saving' = Rest /\ loading' = FALSE
    /\ Done(c)
    /\ UNCHANGED <<shown, pending, archiveOpen, archived, doubt>>

\* handleConfirmCreateProject appends to the list of the render it was started in.
CreateAnswered(c) ==
    /\ c.kind = "create" /\ c.phase = "ok"
    /\ shown' = Put(c.list, c.id, c.order)
    /\ Done(c)
    /\ UNCHANGED <<pending, archiveOpen, archived, saving, loading, error, doubt, faults>>

RenameAnswered(c) ==
    /\ c.kind = "rename" /\ c.phase = "ok"
    /\ shown' = Set(shown, c.id, c.order)
    /\ Done(c)
    /\ UNCHANGED <<pending, archiveOpen, archived, saving, loading, error, doubt, faults>>

TaskAnswered(c) ==
    /\ c.kind = "task" /\ c.phase = "ok"
    /\ pending' = pending \cup {c.id}
    /\ Done(c)
    /\ UNCHANGED <<shown, archiveOpen, archived, saving, loading, error, doubt, faults>>

\* A deleted project goes whatever the server answered.
GoneAnswered(c) ==
    /\ \/ c.kind = "archive" /\ c.phase = "ok" /\ UNCHANGED doubt
       \/ /\ c.kind = "delete" /\ c.phase # "sent"
          /\ doubt' = IF c.phase = "refused" THEN doubt \cup {<<c.id, "delete">>} ELSE doubt
    /\ shown' = Drop(shown, c.id)
    /\ pending' = pending \ {c.id}
    /\ Done(c)
    /\ UNCHANGED <<archiveOpen, archived, saving, loading, error, faults>>

\* handleRestoreProject: the project is back in the list, then its tasks are read.
RestoreAnswered(c) ==
    /\ c.kind = "restore" /\ c.phase = "ok"
    /\ archived' = archived \ {c.id}
    /\ shown' = Put(shown, c.id, c.order)
    /\ calls' = (calls \ {c}) \cup {Call("tasks", c.id, 0, <<>>)}
    /\ UNCHANGED <<groups, srv, pending, archiveOpen, saving, loading, error, doubt, acts, faults>>

TasksAnswered(c) ==
    /\ c.kind = "tasks" /\ c.phase = "ok"
    /\ pending' = (pending \ {c.id}) \cup c.open
    /\ Done(c)
    /\ UNCHANGED <<shown, archiveOpen, archived, saving, loading, error, doubt, faults>>

ArchivedAnswered(c) ==
    /\ c.kind = "archived" /\ c.phase = "ok"
    /\ archived' = c.open
    /\ Done(c)
    /\ UNCHANGED <<shown, pending, archiveOpen, saving, loading, error, doubt, faults>>

\* Everything else alerts and leaves the page as it is.
CallFails(c) ==
    /\ c.kind \notin {"order", "stray", "fetch"} /\ ~(c.kind = "delete" /\ c.phase = "refused")
    /\ Failing(c)
    /\ doubt' = doubt \cup {<<c.id, c.kind>>}
    /\ Done(c)
    /\ UNCHANGED <<shown, pending, archiveOpen, archived, saving, loading, error>>

Answer(c) ==
    \/ OrderAnswered(c) \/ OrderFails(c) \/ StrayEnds(c) \/ FetchAnswered(c) \/ FetchFails(c)
    \/ CreateAnswered(c) \/ RenameAnswered(c) \/ TaskAnswered(c) \/ GoneAnswered(c)
    \/ RestoreAnswered(c) \/ TasksAnswered(c) \/ ArchivedAnswered(c) \/ CallFails(c)

-----------------------------------------------------------------------------
TypeOK ==
    /\ groups \in SUBSET Groups
    /\ DOMAIN srv \subseteq ProjectIds /\ \A i \in DOMAIN srv : srv[i] \in Project
    /\ \A f \in {shown, saving.prev} : DOMAIN f \subseteq ProjectIds /\ \A i \in DOMAIN f : f[i] \in Nat
    /\ pending \subseteq ProjectIds /\ archived \subseteq ProjectIds
    /\ {archiveOpen, saving.active, loading, error} \subseteq BOOLEAN
    /\ \A c \in calls : c.kind \in Kinds /\ c.id \in ProjectIds \cup {None}
    /\ doubt \subseteq (ProjectIds \cup {None}) \X (Kinds \cup {"crossed"}) /\ {acts, faults} \subseteq Nat

Init ==
    /\ \E v \in ProjectVisits : groups = v.groups /\ acts = v.acts /\ faults = v.faults
    /\ \E n \in ProjectIds : \E a \in SUBSET (1..n) :
         srv = [i \in 1..n |-> [order |-> i - 1, archived |-> i \in a, pending |-> FALSE]]
    /\ shown = <<>> /\ pending = {}
    /\ archiveOpen = FALSE /\ archived = {}
    /\ saving = Rest /\ loading = TRUE /\ error = FALSE
    /\ calls = {Call("fetch", None, 0, <<>>)}
    /\ doubt = {}

CallMoves(c) == Serve(c) \/ Refuse(c) \/ ServeRead(c) \/ Answer(c)

Next == UserActs \/ \E c \in calls : CallMoves(c)

\* Every call is answered or fails.
Fairness == WF_vars(\E c \in calls : CallMoves(c))

Spec == Init /\ [][Next]_vars /\ Fairness

-----------------------------------------------------------------------------
Doubted == {d[1] : d \in doubt}

\* When nothing is on its way the page shows the projects of the server, in its
\* order, and knows which have open tasks, but for those whose calls crossed or
\* failed. A drag that failed is no exception unless others of its PATCHes were
\* still on their way when the lists were read again.
ProjectsSettle ==
    calls = {} /\ ~error =>
        \A id \in ProjectIds \ Doubted :
            /\ id \in DOMAIN shown <=> id \in Live(srv)
            /\ id \in DOMAIN shown => /\ shown[id] = srv[id].order
                                      /\ id \in pending <=> srv[id].pending

\* The archive lists no project the page also shows, while it is looked at.
ArchiveIsApart ==
    calls = {} /\ archiveOpen /\ ~error => (archived \cap DOMAIN shown) \subseteq Doubted

\* A project with open tasks is put away only when a task was being added to it
\* at the time, or one was added by a page that never learnt it was put away: the
\* server counts them when it archives, but adds one to any project.
NoOpenTaskArchived ==
    \A id \in DOMAIN srv : srv[id].archived /\ srv[id].pending =>
        {<<id, "crossed">>, <<id, "archive">>} \cap doubt # {}

\* Dragging is disabled while an order is saved; it must come back whatever fails.
CanDrag == ~saving.active
=============================================================================
