------------------------------- MODULE Workspace -------------------------------
(***************************************************************************)
(* The workspace: internal/orgs, internal/projects, internal/tasks and     *)
(* internal/uploads over the tables of migrations/001, and the files of    *)
(* tasks in an object store.                                               *)
(*                                                                         *)
(* A statement is atomic and so is the transaction that updates a project. *)
(* An update of an organisation or a task is a read and, later, a write of *)
(* every column; deleting an attachment is a read and two writes to two    *)
(* stores.  Other requests run in between, and a request may end at any    *)
(* point: cancelled, failed, or with the process.                          *)
(***************************************************************************)
EXTENDS Naturals, FiniteSets, Functions

CONSTANTS
  Handlers,        \* goroutines that serve requests of more than one step
  OrgIds, ProjectIds, TaskIds, AttachmentIds,  \* ids that may be drawn
  ObjectKeys,      \* keys of objects that may be drawn
  Names, Slugs,    \* names of organisations, and their slugs
  ToSlug,          \* slug of a name; several names may have the same
  Texts,           \* values of the columns no rule is about
  MaxRequests,     \* requests in a behaviour
  None             \* NULL; in a patch, a column it does not name

ASSUME SlugsAssumption == ToSlug \in [Names -> Slugs]
ASSUME NoneAssumption ==
  None \notin OrgIds \cup ProjectIds \cup TaskIds \cup AttachmentIds
                \cup ObjectKeys \cup Names \cup Texts \cup BOOLEAN

VARIABLES
  orgs, projects, tasks, attachments,  \* the tables: id -> row
  objects,   \* keys of the objects in the store
  uploads,   \* key -> how far the client is with the upload it is for
  jobs,      \* what each handler is doing
  received   \* requests so far

tables == <<orgs, projects, tasks, attachments>>
vars == <<orgs, projects, tasks, attachments, objects, uploads, jobs, received>>

Statuses == {"In Progress", "Done", "KIV"}

(* In a project and a task, text stands for the columns that are copied    *)
(* and never looked at; of archived_at and completed_at the model keeps    *)
(* whether they are set.                                                   *)
OrgRow == [name : Names, slug : Slugs, text : Texts]
ProjectRow == [org : OrgIds, text : Texts, archived : BOOLEAN]
TaskRow == [project : ProjectIds, text : Texts, status : Statuses, completed : BOOLEAN]
AttachmentRow == [task : TaskIds, key : ObjectKeys]

OrgPatch == [name : Names \cup {None}, text : Texts \cup {None}]
ProjectPatch == [text : Texts \cup {None}, archived : BOOLEAN \cup {None}]
TaskPatch == [project : ProjectIds \cup {None}, text : Texts \cup {None},
              status : Statuses \cup {None}, completed : BOOLEAN \cup {None}]

Idle == [step |-> "idle", id |-> None, was |-> None, patch |-> None]

Become(table, id, row) == [x \in DOMAIN table \cup {id} |-> IF x = id THEN row ELSE table[x]]
Only(table, ids) == Restrict(table, DOMAIN table \cap ids)

(* Mutant: what a patch does not name is written as NULL. *)
PatchedOrNull(old, new) == new

Patched(old, new) == IF new = None THEN old ELSE new

(* Ids are random: one that is drawn is in no table and in no request.     *)
Fresh(ids, table) == {id \in ids \ DOMAIN table : \A h \in Handlers : jobs[h].id # id}

Receive == received < MaxRequests /\ received' = received + 1
Begin(h, job) == jobs[h] = Idle /\ jobs' = [jobs EXCEPT ![h] = job]
End(h) == jobs' = [jobs EXCEPT ![h] = Idle]

-------------------------------------------------------------------------------
(* Deletes cascade: from organisations to projects, tasks, attachments.    *)

AttachmentsOf(someTasks) ==
  Only(attachments, {a \in DOMAIN attachments : attachments[a].task \in DOMAIN someTasks})
TasksOf(someProjects) ==
  Only(tasks, {t \in DOMAIN tasks : tasks[t].project \in DOMAIN someProjects})
ProjectsOf(someOrgs) ==
  Only(projects, {p \in DOMAIN projects : projects[p].org \in DOMAIN someOrgs})

DeleteTask(t) ==
  /\ Receive
  /\ t \in DOMAIN tasks
  /\ tasks' = Only(tasks, TaskIds \ {t})
  /\ attachments' = AttachmentsOf(tasks')
  /\ UNCHANGED <<orgs, projects, objects, uploads, jobs>>

DeleteProject(p) ==
  /\ Receive
  /\ p \in DOMAIN projects
  /\ projects' = Only(projects, ProjectIds \ {p})
  /\ tasks' = TasksOf(projects')
  /\ attachments' = AttachmentsOf(tasks')
  /\ UNCHANGED <<orgs, objects, uploads, jobs>>

DeleteOrg(o) ==
  /\ Receive
  /\ o \in DOMAIN orgs
  /\ orgs' = Only(orgs, OrgIds \ {o})
  /\ projects' = ProjectsOf(orgs')
  /\ tasks' = TasksOf(projects')
  /\ attachments' = AttachmentsOf(tasks')
  /\ UNCHANGED <<objects, uploads, jobs>>

-------------------------------------------------------------------------------
(* Organisations.                                                          *)

SlugTaken(slug, by) == \E o \in DOMAIN orgs \ {by} : orgs[o].slug = slug

CreateOrg ==
  /\ Receive
  /\ \E o \in Fresh(OrgIds, orgs), name \in Names, text \in Texts :
       /\ ~SlugTaken(ToSlug[name], o)
       /\ orgs' = Become(orgs, o, [name |-> name, slug |-> ToSlug[name], text |-> text])
  /\ UNCHANGED <<projects, tasks, attachments, objects, uploads, jobs>>

ReceiveUpdateOrg(h) ==
  /\ Receive
  /\ \E o \in DOMAIN orgs, patch \in OrgPatch :
       Begin(h, [step |-> "update org", id |-> o, was |-> orgs[o], patch |-> patch])
  /\ UNCHANGED <<tables, objects, uploads>>

(* Mutant: a slug is given once and for all. *)
OrgUpdateKeepsSlug(was, patch) ==
  [name |-> Patched(was.name, patch.name), slug |-> was.slug,
   text |-> Patched(was.text, patch.text)]

(* The name and the slug are written together, both as read or both anew.  *)
OrgUpdate(was, patch) ==
  [name |-> Patched(was.name, patch.name),
   slug |-> IF patch.name = None THEN was.slug ELSE ToSlug[patch.name],
   text |-> Patched(was.text, patch.text)]

UpdateOrg(h) ==
  LET j == jobs[h]
      row == OrgUpdate(j.was, j.patch) IN
  /\ j.step = "update org"
  /\ j.id \in DOMAIN orgs
  /\ ~SlugTaken(row.slug, j.id)
  /\ orgs' = Become(orgs, j.id, row)
  /\ End(h)
  /\ UNCHANGED <<projects, tasks, attachments, objects, uploads, received>>

-------------------------------------------------------------------------------
(* Projects.                                                               *)

CreateProject ==
  /\ Receive
  /\ \E p \in Fresh(ProjectIds, projects), o \in DOMAIN orgs, text \in Texts :
       projects' = Become(projects, p, [org |-> o, text |-> text, archived |-> FALSE])
  /\ UNCHANGED <<orgs, tasks, attachments, objects, uploads, jobs>>

(* Mutant: looks for tasks in progress, and forgets those that wait. *)
NoneInProgress(p) ==
  \A t \in DOMAIN tasks : tasks[t].project = p => tasks[t].status # "In Progress"

(* A transaction: the look at the tasks and the write are one step.        *)
AllDone(p) == \A t \in DOMAIN tasks : tasks[t].project = p => tasks[t].status = "Done"

ProjectUpdate(p, patch) ==
  [projects[p] EXCEPT !.text = Patched(@, patch.text),
                      !.archived = Patched(@, patch.archived)]

UpdateProject(p, patch) ==
  /\ Receive
  /\ p \in DOMAIN projects
  /\ patch.archived = TRUE => AllDone(p)
  /\ projects' = Become(projects, p, ProjectUpdate(p, patch))
  /\ UNCHANGED <<orgs, tasks, attachments, objects, uploads, jobs>>

-------------------------------------------------------------------------------
(* Tasks.                                                                  *)

(* A new task is completed if it is created as done.                       *)
CreateTask ==
  /\ Receive
  /\ \E t \in Fresh(TaskIds, tasks), p \in DOMAIN projects, text \in Texts, s \in Statuses :
       tasks' = Become(tasks, t, [project |-> p, text |-> text, status |-> s,
                                  completed |-> s = "Done"])
  /\ UNCHANGED <<orgs, projects, attachments, objects, uploads, jobs>>

(* Mutant: a task that is reopened keeps its time of completion. *)
StatusUpdateOnlySets(was, patch) ==
  IF patch.status = None THEN was
  ELSE [was EXCEPT !.status = patch.status, !.completed = @ \/ patch.status = "Done"]

(* Mutant: an update that names no status sets the one of a new task. *)
StatusUpdateDefaults(was, patch) ==
  IF patch.status = None THEN [was EXCEPT !.status = "In Progress", !.completed = FALSE]
  ELSE [was EXCEPT !.status = patch.status, !.completed = patch.status = "Done"]

(* A status that is set sets or clears the time of completion; a time of   *)
(* completion that is set must go with the status.                         *)
StatusUpdate(was, patch) ==
  IF patch.status = None THEN was
  ELSE [was EXCEPT !.status = patch.status, !.completed = patch.status = "Done"]

TaskUpdate(was, patch) ==
  [StatusUpdate(was, patch) EXCEPT !.completed = Patched(@, patch.completed),
                                   !.text = Patched(@, patch.text),
                                   !.project = Patched(@, patch.project)]

CompletionAllowed(was, patch) ==
  patch.completed # None => patch.completed = (StatusUpdate(was, patch).status = "Done")

ReceiveUpdateTask(h) ==
  /\ Receive
  /\ \E t \in DOMAIN tasks, patch \in TaskPatch :
       /\ CompletionAllowed(tasks[t], patch)
       /\ Begin(h, [step |-> "update task", id |-> t, was |-> tasks[t], patch |-> patch])
  /\ UNCHANGED <<tables, objects, uploads>>

(* Mutant: foreign keys are not enforced. *)
UpdateTaskAnywhere(h) ==
  LET j == jobs[h] IN
  /\ j.step = "update task"
  /\ j.id \in DOMAIN tasks
  /\ tasks' = Become(tasks, j.id, TaskUpdate(j.was, j.patch))
  /\ End(h)
  /\ UNCHANGED <<orgs, projects, attachments, objects, uploads, received>>

(* Mutant: an update that finds no row inserts one. *)
UpdateTaskUpserts(h) ==
  LET j == jobs[h]
      row == TaskUpdate(j.was, j.patch) IN
  /\ j.step = "update task"
  /\ row.project \in DOMAIN projects
  /\ tasks' = Become(tasks, j.id, row)
  /\ End(h)
  /\ UNCHANGED <<orgs, projects, attachments, objects, uploads, received>>

(* The UPDATE writes the columns it read as well as those it patched; it   *)
(* finds no row if the task is gone, and the foreign key refuses it if the *)
(* project is.                                                             *)
UpdateTask(h) ==
  LET j == jobs[h]
      row == TaskUpdate(j.was, j.patch) IN
  /\ j.step = "update task"
  /\ j.id \in DOMAIN tasks
  /\ row.project \in DOMAIN projects
  /\ tasks' = Become(tasks, j.id, row)
  /\ End(h)
  /\ UNCHANGED <<orgs, projects, attachments, objects, uploads, received>>

-------------------------------------------------------------------------------
(* Attachments.  The client asks for a signed URL, puts the file, and then *)
(* tells the server of it, once (web/src/components/TaskModal.jsx).        *)

Presign ==
  /\ Receive
  /\ \E key \in ObjectKeys \ DOMAIN uploads : uploads' = Become(uploads, key, "signed")
  /\ UNCHANGED <<tables, objects, jobs>>

PutObject(key) ==
  /\ key \in DOMAIN uploads /\ uploads[key] = "signed"
  /\ uploads' = [uploads EXCEPT ![key] = "put"]
  /\ objects' = objects \cup {key}
  /\ UNCHANGED <<tables, jobs, received>>

CreateAttachment(key) ==
  /\ Receive
  /\ key \in DOMAIN uploads /\ uploads[key] = "put"
  /\ \E a \in Fresh(AttachmentIds, attachments), t \in DOMAIN tasks :
       attachments' = Become(attachments, a, [task |-> t, key |-> key])
  /\ uploads' = [uploads EXCEPT ![key] = "sent"]
  /\ UNCHANGED <<orgs, projects, tasks, objects, jobs>>

(* Mutant: the row is deleted without the object. *)
ReceiveDeleteAttachmentRow(h) ==
  /\ Receive
  /\ \E a \in DOMAIN attachments :
       Begin(h, [step |-> "delete metadata", id |-> a, was |-> attachments[a], patch |-> None])
  /\ UNCHANGED <<tables, objects, uploads>>

ReceiveDeleteAttachment(h) ==
  /\ Receive
  /\ \E a \in DOMAIN attachments :
       Begin(h, [step |-> "delete object", id |-> a, was |-> attachments[a], patch |-> None])
  /\ UNCHANGED <<tables, objects, uploads>>

(* Deleting an object that is gone is no error.                            *)
DeleteObject(h) ==
  /\ jobs[h].step = "delete object"
  /\ objects' = objects \ {jobs[h].was.key}
  /\ jobs' = [jobs EXCEPT ![h].step = "delete metadata"]
  /\ UNCHANGED <<tables, uploads, received>>

DeleteAttachmentMetadata(h) ==
  /\ jobs[h].step = "delete metadata"
  /\ jobs[h].id \in DOMAIN attachments
  /\ attachments' = Only(attachments, AttachmentIds \ {jobs[h].id})
  /\ End(h)
  /\ UNCHANGED <<orgs, projects, tasks, objects, uploads, received>>

(* A request ends before its next write: a row that is gone, a constraint, *)
(* a store that fails, a client that leaves, a server that stops.          *)
Refuse(h) ==
  /\ jobs[h] # Idle
  /\ End(h)
  /\ UNCHANGED <<tables, objects, uploads, received>>

-------------------------------------------------------------------------------
Init ==
  /\ orgs = <<>> /\ projects = <<>> /\ tasks = <<>> /\ attachments = <<>>
  /\ objects = {}
  /\ uploads = <<>>
  /\ jobs = [h \in Handlers |-> Idle]
  /\ received = 0

Handle(h) ==
  \/ ReceiveUpdateOrg(h) \/ UpdateOrg(h)
  \/ ReceiveUpdateTask(h) \/ UpdateTask(h)
  \/ ReceiveDeleteAttachment(h) \/ DeleteObject(h) \/ DeleteAttachmentMetadata(h)
  \/ Refuse(h)

Next ==
  \/ CreateOrg \/ CreateProject \/ CreateTask \/ Presign
  \/ \E o \in OrgIds : DeleteOrg(o)
  \/ \E p \in ProjectIds : DeleteProject(p) \/ \E patch \in ProjectPatch : UpdateProject(p, patch)
  \/ \E t \in TaskIds : DeleteTask(t)
  \/ \E key \in ObjectKeys : PutObject(key) \/ CreateAttachment(key)
  \/ \E h \in Handlers : Handle(h)

Spec == Init /\ [][Next]_vars
-------------------------------------------------------------------------------
(* Properties.                                                             *)

(* Rows have their columns, and a handler what its step uses.              *)
Job ==
  {Idle}
    \cup [step : {"update org"}, id : OrgIds, was : OrgRow, patch : OrgPatch]
    \cup [step : {"update task"}, id : TaskIds, was : TaskRow, patch : TaskPatch]
    \cup [step : {"delete object", "delete metadata"}, id : AttachmentIds,
          was : AttachmentRow, patch : {None}]

TypeOK ==
  /\ DOMAIN orgs \subseteq OrgIds /\ orgs \in [DOMAIN orgs -> OrgRow]
  /\ DOMAIN projects \subseteq ProjectIds /\ projects \in [DOMAIN projects -> ProjectRow]
  /\ DOMAIN tasks \subseteq TaskIds /\ tasks \in [DOMAIN tasks -> TaskRow]
  /\ DOMAIN attachments \subseteq AttachmentIds
  /\ attachments \in [DOMAIN attachments -> AttachmentRow]
  /\ objects \subseteq ObjectKeys
  /\ DOMAIN uploads \subseteq ObjectKeys
  /\ uploads \in [DOMAIN uploads -> {"signed", "put", "sent"}]
  /\ jobs \in [Handlers -> Job]
  /\ received \in Nat

(* No row outlives what it hangs on, though an update may move a task to a *)
(* project that is deleted between its read and its write.                 *)
Connected ==
  /\ \A p \in DOMAIN projects : projects[p].org \in DOMAIN orgs
  /\ \A t \in DOMAIN tasks : tasks[t].project \in DOMAIN projects
  /\ \A a \in DOMAIN attachments : attachments[a].task \in DOMAIN tasks

(* A task has a time of completion exactly if it is done, however updates  *)
(* of its status and of its time overwrite each other.                     *)
DoneIsCompleted ==
  \A t \in DOMAIN tasks : tasks[t].completed = (tasks[t].status = "Done")

(* Organisations are told apart by their slugs, and a slug is the one of   *)
(* the name, however renames and other updates overwrite each other.       *)
SlugsAreOfNames ==
  /\ \A o \in DOMAIN orgs : orgs[o].slug = ToSlug[orgs[o].name]
  /\ \A o1, o2 \in DOMAIN orgs : orgs[o1].slug = orgs[o2].slug => o1 = o2

(* "Projects can only be archived when all tasks are done."                *)
ArchivedWhenDone ==
  [][\A p \in DOMAIN projects \cap DOMAIN projects' :
       ~projects[p].archived /\ projects'[p].archived =>
         \A t \in DOMAIN tasks' : tasks'[t].project = p => tasks'[t].status = "Done"]_vars

(* What is deleted while a request holds what it read of it does not come  *)
(* back when the request writes.                                           *)
DeletedStayDeleted ==
  [][\A h \in Handlers : jobs[h] # Idle =>
       /\ jobs[h].id \in DOMAIN tasks' => jobs[h].id \in DOMAIN tasks
       /\ jobs[h].id \in DOMAIN orgs' => jobs[h].id \in DOMAIN orgs]_vars

(* A task that is done, in an archived project too, is open again only if  *)
(* a request sets the status, or edits other columns and read the task     *)
(* before it was done.                                                     *)
ReopenedOnRequestOrStaleRead ==
  [][\A t \in DOMAIN tasks \cap DOMAIN tasks' :
       tasks[t].status = "Done" /\ tasks'[t].status # "Done" =>
         \E h \in Handlers :
           /\ jobs[h].step = "update task" /\ jobs[h].id = t /\ jobs'[h] = Idle
           /\ jobs[h].patch.status # None \/ jobs[h].was.status # "Done"]_vars

(* Deleting an attachment does not forget its object: the row, by which    *)
(* the object could still be found, goes last, even if the request is      *)
(* repeated or another one deletes the same attachment.                    *)
NoForgottenObjects ==
  [][\A a \in DOMAIN attachments \ DOMAIN attachments' :
       attachments[a].task \in DOMAIN tasks' => attachments[a].key \notin objects]_vars
===============================================================================
