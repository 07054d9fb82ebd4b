---------------------------- MODULE Workspace_proofs ----------------------------
(***************************************************************************)
(* Theorems about Workspace, for any handlers, ids, names and requests.    *)
(***************************************************************************)
EXTENDS Workspace, TLAPS

(* What an update holds of a row it read: it was right when it was read,   *)
(* and the patch was checked against it.                                   *)
ReadsAgree ==
  \A h \in Handlers :
    LET j == jobs[h] IN
    /\ j.step = "update task" => /\ j.was.completed = (j.was.status = "Done")
                                 /\ CompletionAllowed(j.was, j.patch)
    /\ j.step = "update org" => j.was.slug = ToSlug[j.was.name]

(* Keys of attachments, and those a deletion holds, are of uploads that    *)
(* are over, so nothing is put under them again; the row a deletion holds  *)
(* is still the one it read, or gone.                                      *)
UploadsAreOver ==
  /\ \A a \in DOMAIN attachments :
       attachments[a].key \in DOMAIN uploads /\ uploads[attachments[a].key] = "sent"
  /\ \A h \in Handlers :
       LET j == jobs[h] IN
       j.step \in {"delete object", "delete metadata"} =>
         /\ j.was.key \in DOMAIN uploads /\ uploads[j.was.key] = "sent"
         /\ j.id \in DOMAIN attachments => attachments[j.id] = j.was
         /\ j.step = "delete metadata" => j.was.key \notin objects

IInv ==
  /\ TypeOK /\ Connected /\ DoneIsCompleted /\ SlugsAreOfNames
  /\ ReadsAgree /\ UploadsAreOver

-------------------------------------------------------------------------------
(* Tables.                                                                 *)

Rows(table, Ids, Row) == DOMAIN table \subseteq Ids /\ table \in [DOMAIN table -> Row]

(* A row that is inserted or updated keeps the table's kind of rows.       *)
LEMMA WrittenRows ==
  ASSUME NEW table, NEW Ids, NEW Row, Rows(table, Ids, Row), NEW id \in Ids, NEW row \in Row
  PROVE  Rows(Become(table, id, row), Ids, Row)
  BY DEF Become, Rows

(* A request that is at a step has what that step uses.                    *)
LEMMA JobAtStep ==
  ASSUME NEW j \in Job
  PROVE  /\ j.step = "update org" => /\ j.id \in OrgIds /\ j.was \in OrgRow
                                     /\ j.patch \in OrgPatch
         /\ j.step = "update task" => /\ j.id \in TaskIds /\ j.was \in TaskRow
                                      /\ j.patch \in TaskPatch
         /\ j.step \in {"delete object", "delete metadata"} =>
              j.id \in AttachmentIds /\ j.was \in AttachmentRow /\ j.patch = None
<1>1. CASE j = Idle
  BY <1>1 DEF Idle
<1>2. CASE j \in [step : {"update org"}, id : OrgIds, was : OrgRow, patch : OrgPatch]
  BY <1>2
<1>3. CASE j \in [step : {"update task"}, id : TaskIds, was : TaskRow, patch : TaskPatch]
  BY <1>3
<1>4. CASE j \in [step : {"delete object", "delete metadata"}, id : AttachmentIds,
                  was : AttachmentRow, patch : {None}]
  BY <1>4
<1> QED
  BY <1>1, <1>2, <1>3, <1>4 DEF Job

(* A patched organisation has the slug of its name if it had it before.    *)
LEMMA OrgUpdateRow ==
  ASSUME NEW was \in OrgRow, NEW patch \in OrgPatch
  PROVE  /\ OrgUpdate(was, patch) \in OrgRow
         /\ was.slug = ToSlug[was.name] =>
              OrgUpdate(was, patch).slug = ToSlug[OrgUpdate(was, patch).name]
  BY SlugsAssumption DEF OrgUpdate, OrgRow, OrgPatch, Patched

(* A status update leaves a row done exactly if it is completed.           *)
LEMMA StatusUpdateRow ==
  ASSUME NEW was \in TaskRow, NEW patch \in TaskPatch
  PROVE  LET row == StatusUpdate(was, patch) IN
         /\ row \in TaskRow
         /\ row.project = was.project
         /\ was.completed = (was.status = "Done") => row.completed = (row.status = "Done")
  BY DEF StatusUpdate, TaskRow, TaskPatch

(* So does an update whose time of completion goes with the status.        *)
LEMMA TaskUpdateRow ==
  ASSUME NEW was \in TaskRow, NEW patch \in TaskPatch
  PROVE  /\ TaskUpdate(was, patch) \in TaskRow
         /\ was.completed = (was.status = "Done") /\ CompletionAllowed(was, patch) =>
              TaskUpdate(was, patch).completed = (TaskUpdate(was, patch).status = "Done")
<1> DEFINE row == StatusUpdate(was, patch)
           new == TaskUpdate(was, patch)
<1>1. row \in TaskRow
  BY StatusUpdateRow
<1>2. /\ new.project = Patched(row.project, patch.project)
      /\ new.text = Patched(row.text, patch.text)
      /\ new.status = row.status
      /\ new.completed = Patched(row.completed, patch.completed)
  BY <1>1 DEF TaskUpdate, TaskRow
<1>3. new \in TaskRow
  BY <1>1 DEF TaskUpdate, TaskRow, TaskPatch, Patched
<1>4. ASSUME was.completed = (was.status = "Done"), CompletionAllowed(was, patch)
      PROVE  new.completed = (new.status = "Done")
  BY <1>2, <1>4, StatusUpdateRow DEF CompletionAllowed, Patched
<1> QED
  BY <1>3, <1>4

-------------------------------------------------------------------------------
(* The initial state.                                                      *)

LEMMA InitHolds == Init => IInv
<1> SUFFICES ASSUME Init PROVE IInv
  OBVIOUS
<1>1. DOMAIN <<>> = {} /\ \A Row : <<>> \in [{} -> Row]
  OBVIOUS
<1>2. jobs \in [Handlers -> Job] /\ \A h \in Handlers : jobs[h].step = "idle"
  BY DEF Init, Job, Idle
<1>3. TypeOK
  BY <1>1, <1>2 DEF Init, TypeOK
<1>4. Connected /\ DoneIsCompleted /\ SlugsAreOfNames
  BY <1>1 DEF Init, Connected, DoneIsCompleted, SlugsAreOfNames
<1>5. ReadsAgree /\ UploadsAreOver
  BY <1>1, <1>2 DEF Init, ReadsAgree, UploadsAreOver
<1> QED
  BY <1>3, <1>4, <1>5 DEF IInv

-------------------------------------------------------------------------------
(* Deletes.                                                                *)

Deletes ==
  \/ \E o \in OrgIds : DeleteOrg(o)
  \/ \E p \in ProjectIds : DeleteProject(p)
  \/ \E t \in TaskIds : DeleteTask(t)

Kept(new, table) ==
  /\ DOMAIN new \subseteq DOMAIN table
  /\ \A x \in DOMAIN new : new[x] = table[x]

(* What is left of a table keeps its rows.                                 *)
LEMMA OnlyKept ==
  ASSUME NEW table, NEW Ids, NEW Row, NEW ids, Rows(table, Ids, Row)
  PROVE  Rows(Only(table, ids), Ids, Row) /\ Kept(Only(table, ids), table)
  BY DEF Only, Restrict, Rows, Kept

(* Deletes take rows away, in every table below the one they start in.     *)
LEMMA DeletesKeepRows ==
  ASSUME TypeOK, Deletes
  PROVE  /\ Rows(orgs', OrgIds, OrgRow) /\ Kept(orgs', orgs)
         /\ Rows(projects', ProjectIds, ProjectRow) /\ Kept(projects', projects)
         /\ Rows(tasks', TaskIds, TaskRow) /\ Kept(tasks', tasks)
         /\ Rows(attachments', AttachmentIds, AttachmentRow) /\ Kept(attachments', attachments)
<1>1. /\ Rows(orgs, OrgIds, OrgRow) /\ Rows(projects, ProjectIds, ProjectRow)
      /\ Rows(tasks, TaskIds, TaskRow) /\ Rows(attachments, AttachmentIds, AttachmentRow)
  BY DEF TypeOK, Rows
<1>2. /\ Kept(orgs, orgs) /\ Kept(projects, projects) /\ Kept(tasks, tasks)
  BY DEF Kept
<1>3. CASE \E o \in OrgIds : DeleteOrg(o)
  BY <1>1, <1>3, OnlyKept DEF DeleteOrg, ProjectsOf, TasksOf, AttachmentsOf
<1>4. CASE \E p \in ProjectIds : DeleteProject(p)
  BY <1>1, <1>2, <1>4, OnlyKept DEF DeleteProject, TasksOf, AttachmentsOf
<1>5. CASE \E t \in TaskIds : DeleteTask(t)
  BY <1>1, <1>2, <1>5, OnlyKept DEF DeleteTask, AttachmentsOf
<1> QED
  BY <1>3, <1>4, <1>5 DEF Deletes

(* The rows left below a table are those whose row in it is left.          *)
LEMMA CascadeConnects ==
  ASSUME TypeOK
  PROVE  /\ \A someOrgs : \A p \in DOMAIN ProjectsOf(someOrgs) :
              ProjectsOf(someOrgs)[p].org \in DOMAIN someOrgs
         /\ \A someProjects : \A t \in DOMAIN TasksOf(someProjects) :
              TasksOf(someProjects)[t].project \in DOMAIN someProjects
         /\ \A someTasks : \A a \in DOMAIN AttachmentsOf(someTasks) :
              AttachmentsOf(someTasks)[a].task \in DOMAIN someTasks
  BY DEF ProjectsOf, TasksOf, AttachmentsOf, Only, Restrict

(* Deletes leave no row whose parent they delete.                          *)
LEMMA DeletesConnect ==
  ASSUME TypeOK, Connected, Deletes
  PROVE  Connected'
<1>1. CASE \E o \in OrgIds : DeleteOrg(o)
  BY <1>1, CascadeConnects DEF DeleteOrg, Connected
<1>2. CASE \E p \in ProjectIds : DeleteProject(p)
  <2>1. \A q \in DOMAIN projects' : q \in DOMAIN projects /\ projects'[q] = projects[q]
    BY DeletesKeepRows DEF Kept
  <2> QED
    BY <1>2, <2>1, CascadeConnects DEF DeleteProject, Connected
<1>3. CASE \E t \in TaskIds : DeleteTask(t)
  <2>1. \A q \in DOMAIN tasks' : q \in DOMAIN tasks /\ tasks'[q] = tasks[q]
    BY DeletesKeepRows DEF Kept
  <2> QED
    BY <1>3, <2>1, CascadeConnects DEF DeleteTask, Connected
<1> QED
  BY <1>1, <1>2, <1>3 DEF Deletes

(* Only deletions of the row itself, or of the task or above, take an      *)
(* attachment away; and deletes touch nothing but the tables.              *)
LEMMA DeletesFrame ==
  ASSUME Deletes
  PROVE  /\ UNCHANGED <<objects, uploads, jobs>>
         /\ attachments' = AttachmentsOf(tasks')
         /\ received' = received + 1
  BY DEF Deletes, DeleteOrg, DeleteProject, DeleteTask, Receive

-------------------------------------------------------------------------------
(* Which actions change what.                                              *)

LEMMA WhatChanges ==
  ASSUME Next
  PROVE  /\ \/ UNCHANGED orgs \/ Deletes
            \/ CreateOrg \/ \E h \in Handlers : UpdateOrg(h)
         /\ \/ UNCHANGED projects \/ Deletes
            \/ CreateProject
            \/ \E p \in ProjectIds, patch \in ProjectPatch : UpdateProject(p, patch)
         /\ \/ UNCHANGED tasks \/ Deletes
            \/ CreateTask \/ \E h \in Handlers : UpdateTask(h)
         /\ \/ UNCHANGED attachments \/ Deletes
            \/ \E key \in ObjectKeys : CreateAttachment(key)
            \/ \E h \in Handlers : DeleteAttachmentMetadata(h)
         /\ \/ UNCHANGED objects
            \/ \E key \in ObjectKeys : PutObject(key)
            \/ \E h \in Handlers : DeleteObject(h)
         /\ \/ UNCHANGED uploads \/ Presign
            \/ \E key \in ObjectKeys : PutObject(key) \/ CreateAttachment(key)
         /\ \/ UNCHANGED jobs
            \/ \E h \in Handlers :
                 \/ ReceiveUpdateOrg(h) \/ ReceiveUpdateTask(h) \/ ReceiveDeleteAttachment(h)
                 \/ DeleteObject(h) \/ End(h)
         /\ UNCHANGED received \/ Receive
  BY DEF Next, Deletes, CreateOrg, CreateProject, CreateTask, Presign, DeleteOrg,
         DeleteProject, UpdateProject, DeleteTask, PutObject, CreateAttachment, Handle,
         ReceiveUpdateOrg, UpdateOrg, ReceiveUpdateTask, UpdateTask,
         ReceiveDeleteAttachment, DeleteObject, DeleteAttachmentMetadata, Refuse, tables

-------------------------------------------------------------------------------
(* The steps, one table after the other.                                   *)

(* A write of organisations keeps slugs unique and those of the names.     *)
LEMMA OrgsStep ==
  ASSUME IInv, Next
  PROVE  Rows(orgs', OrgIds, OrgRow) /\ SlugsAreOfNames'
<1>1. Rows(orgs, OrgIds, OrgRow) /\ SlugsAreOfNames
  BY DEF IInv, TypeOK, Rows
<1>2. CASE UNCHANGED orgs
  BY <1>1, <1>2 DEF SlugsAreOfNames, Rows
<1>3. CASE Deletes
  <2>1. Rows(orgs', OrgIds, OrgRow) /\ Kept(orgs', orgs)
    BY <1>3, DeletesKeepRows DEF IInv
  <2> QED
    BY <1>1, <2>1 DEF SlugsAreOfNames, Kept
<1>4. ASSUME NEW o \in OrgIds, NEW row \in OrgRow, orgs' = Become(orgs, o, row),
             ~SlugTaken(row.slug, o), row.slug = ToSlug[row.name]
      PROVE  Rows(orgs', OrgIds, OrgRow) /\ SlugsAreOfNames'
  <2>1. /\ DOMAIN orgs' = DOMAIN orgs \cup {o} /\ orgs'[o] = row
        /\ \A x \in DOMAIN orgs : x # o => orgs'[x] = orgs[x]
    BY <1>4 DEF Become
  <2>2. Rows(orgs', OrgIds, OrgRow)
    BY <1>1, <1>4, WrittenRows
  <2> QED
    BY <1>1, <1>4, <2>1, <2>2 DEF SlugsAreOfNames, SlugTaken
<1>5. CASE CreateOrg
  <2>1. PICK o \in Fresh(OrgIds, orgs), name \in Names, text \in Texts :
          /\ ~SlugTaken(ToSlug[name], o)
          /\ orgs' = Become(orgs, o, [name |-> name, slug |-> ToSlug[name], text |-> text])
    BY <1>5 DEF CreateOrg
  <2> DEFINE row == [name |-> name, slug |-> ToSlug[name], text |-> text]
  <2>2. row \in OrgRow /\ row.slug = ToSlug[row.name] /\ o \in OrgIds
    BY SlugsAssumption DEF OrgRow, Fresh
  <2> QED
    BY <1>4, <2>1, <2>2
<1>6. CASE \E h \in Handlers : UpdateOrg(h)
  <2>1. PICK h \in Handlers : UpdateOrg(h)
    BY <1>6
  <2> DEFINE row == OrgUpdate(jobs[h].was, jobs[h].patch)
  <2>2. jobs[h] \in Job /\ jobs[h].step = "update org"
    BY <2>1 DEF IInv, TypeOK, UpdateOrg
  <2>3. jobs[h].id \in OrgIds /\ jobs[h].was \in OrgRow /\ jobs[h].patch \in OrgPatch
    BY <2>2, JobAtStep
  <2>4. row \in OrgRow /\ row.slug = ToSlug[row.name]
    BY <2>2, <2>3, OrgUpdateRow DEF IInv, ReadsAgree
  <2> QED
    BY <1>4, <2>1, <2>3, <2>4 DEF UpdateOrg
<1> QED
  BY <1>2, <1>3, <1>5, <1>6, WhatChanges

(* A project is created in an organisation, and stays in it.               *)
LEMMA ProjectsStep ==
  ASSUME IInv, Next
  PROVE  /\ Rows(projects', ProjectIds, ProjectRow)
         /\ ~Deletes => \A p \in DOMAIN projects' : projects'[p].org \in DOMAIN orgs
<1>1. /\ Rows(projects, ProjectIds, ProjectRow)
      /\ \A p \in DOMAIN projects : projects[p].org \in DOMAIN orgs
  BY DEF IInv, TypeOK, Rows, Connected
<1>2. CASE UNCHANGED projects
  BY <1>1, <1>2 DEF Rows
<1>3. CASE Deletes
  BY <1>3, DeletesKeepRows DEF IInv
<1>4. ASSUME NEW p \in ProjectIds, NEW row \in ProjectRow,
             projects' = Become(projects, p, row), row.org \in DOMAIN orgs
      PROVE  /\ Rows(projects', ProjectIds, ProjectRow)
             /\ \A q \in DOMAIN projects' : projects'[q].org \in DOMAIN orgs
  <2>1. /\ DOMAIN projects' = DOMAIN projects \cup {p} /\ projects'[p] = row
        /\ \A x \in DOMAIN projects : x # p => projects'[x] = projects[x]
    BY <1>4 DEF Become
  <2>2. Rows(projects', ProjectIds, ProjectRow)
    BY <1>1, <1>4, WrittenRows
  <2> QED
    BY <1>1, <1>4, <2>1, <2>2
<1>5. CASE CreateProject
  <2>1. PICK p \in Fresh(ProjectIds, projects), o \in DOMAIN orgs, text \in Texts :
          projects' = Become(projects, p, [org |-> o, text |-> text, archived |-> FALSE])
    BY <1>5 DEF CreateProject
  <2>2. p \in ProjectIds /\ [org |-> o, text |-> text, archived |-> FALSE] \in ProjectRow
    BY DEF Fresh, ProjectRow, IInv, TypeOK
  <2> QED
    BY <1>4, <2>1, <2>2
<1>6. CASE \E p \in ProjectIds, patch \in ProjectPatch : UpdateProject(p, patch)
  <2>1. PICK p \in ProjectIds, patch \in ProjectPatch : UpdateProject(p, patch)
    BY <1>6
  <2>2. projects[p] \in ProjectRow
    BY <1>1, <2>1 DEF Rows, UpdateProject
  <2>3. /\ ProjectUpdate(p, patch) \in ProjectRow
        /\ ProjectUpdate(p, patch).org = projects[p].org
    BY <2>2 DEF ProjectUpdate, ProjectRow, ProjectPatch, Patched
  <2> QED
    BY <1>1, <1>4, <2>1, <2>3 DEF UpdateProject
<1> QED
  BY <1>2, <1>3, <1>5, <1>6, WhatChanges

(* A write of a task leaves it in a project, and done if it is completed.  *)
LEMMA TasksStep ==
  ASSUME IInv, Next
  PROVE  /\ Rows(tasks', TaskIds, TaskRow)
         /\ DoneIsCompleted'
         /\ ~Deletes => /\ \A t \in DOMAIN tasks' : tasks'[t].project \in DOMAIN projects
                        /\ DOMAIN tasks \subseteq DOMAIN tasks'
<1>1. /\ Rows(tasks, TaskIds, TaskRow) /\ DoneIsCompleted
      /\ \A t \in DOMAIN tasks : tasks[t].project \in DOMAIN projects
  BY DEF IInv, TypeOK, Rows, Connected
<1>2. CASE UNCHANGED tasks
  BY <1>1, <1>2 DEF Rows, DoneIsCompleted
<1>3. CASE Deletes
  <2>1. Rows(tasks', TaskIds, TaskRow) /\ Kept(tasks', tasks)
    BY <1>3, DeletesKeepRows DEF IInv
  <2> QED
    BY <1>1, <1>3, <2>1 DEF DoneIsCompleted, Kept
<1>4. ASSUME NEW t \in TaskIds, NEW row \in TaskRow, tasks' = Become(tasks, t, row),
             row.project \in DOMAIN projects, row.completed = (row.status = "Done")
      PROVE  /\ Rows(tasks', TaskIds, TaskRow) /\ DoneIsCompleted'
             /\ \A x \in DOMAIN tasks' : tasks'[x].project \in DOMAIN projects
             /\ DOMAIN tasks \subseteq DOMAIN tasks'
  <2>1. /\ DOMAIN tasks' = DOMAIN tasks \cup {t} /\ tasks'[t] = row
        /\ \A x \in DOMAIN tasks : x # t => tasks'[x] = tasks[x]
    BY <1>4 DEF Become
  <2>2. Rows(tasks', TaskIds, TaskRow)
    BY <1>1, <1>4, WrittenRows
  <2> QED
    BY <1>1, <1>4, <2>1, <2>2 DEF DoneIsCompleted
<1>5. CASE CreateTask
  <2>1. PICK t \in Fresh(TaskIds, tasks), p \in DOMAIN projects, text \in Texts,
             s \in Statuses :
          tasks' = Become(tasks, t, [project |-> p, text |-> text, status |-> s,
                                     completed |-> s = "Done"])
    BY <1>5 DEF CreateTask
  <2> DEFINE row == [project |-> p, text |-> text, status |-> s, completed |-> s = "Done"]
  <2>2. t \in TaskIds /\ row \in TaskRow /\ row.project \in DOMAIN projects
    BY DEF Fresh, TaskRow, IInv, TypeOK
  <2>3. row.completed = (row.status = "Done")
    OBVIOUS
  <2> QED
    BY <1>4, <2>1, <2>2, <2>3
<1>6. CASE \E h \in Handlers : UpdateTask(h)
  <2>1. PICK h \in Handlers : UpdateTask(h)
    BY <1>6
  <2> DEFINE row == TaskUpdate(jobs[h].was, jobs[h].patch)
  <2>2. jobs[h] \in Job /\ jobs[h].step = "update task"
    BY <2>1 DEF IInv, TypeOK, UpdateTask
  <2>3. jobs[h].id \in TaskIds /\ jobs[h].was \in TaskRow /\ jobs[h].patch \in TaskPatch
    BY <2>2, JobAtStep
  <2>4. row \in TaskRow /\ row.completed = (row.status = "Done")
    BY <2>2, <2>3, TaskUpdateRow DEF IInv, ReadsAgree
  <2> QED
    BY <1>4, <2>1, <2>3, <2>4 DEF UpdateTask
<1> QED
  BY <1>2, <1>3, <1>5, <1>6, WhatChanges

(* Rows stay connected.                                                    *)
LEMMA ConnectedStep ==
  ASSUME IInv, Next
  PROVE  Connected'
<1>1. CASE Deletes
  BY <1>1, DeletesConnect DEF IInv
<1>2. CASE ~Deletes
  <2>1. \A p \in DOMAIN projects' : projects'[p].org \in DOMAIN orgs'
    <3>1. DOMAIN orgs \subseteq DOMAIN orgs'
      BY <1>2, WhatChanges DEF CreateOrg, UpdateOrg, Become
    <3> QED
      BY <1>2, <3>1, ProjectsStep
  <2>2. \A t \in DOMAIN tasks' : tasks'[t].project \in DOMAIN projects'
    <3>1. DOMAIN projects \subseteq DOMAIN projects'
      BY <1>2, WhatChanges DEF CreateProject, UpdateProject, Become
    <3> QED
      BY <1>2, <3>1, TasksStep
  <2>3. \A a \in DOMAIN attachments' : attachments'[a].task \in DOMAIN tasks'
    <3>1. DOMAIN tasks \subseteq DOMAIN tasks'
      BY <1>2, TasksStep
    <3>2. \A a \in DOMAIN attachments' : attachments'[a].task \in DOMAIN tasks
      <4>1. CASE UNCHANGED attachments
        BY <4>1 DEF IInv, Connected
      <4>2. CASE \E key \in ObjectKeys : CreateAttachment(key)
        BY <4>2 DEF IInv, Connected, CreateAttachment, Become
      <4>3. CASE \E h \in Handlers : DeleteAttachmentMetadata(h)
        BY <4>3 DEF IInv, Connected, DeleteAttachmentMetadata, Only, Restrict
      <4> QED
        BY <1>2, <4>1, <4>2, <4>3, WhatChanges
    <3> QED
      BY <3>1, <3>2
  <2> QED
    BY <2>1, <2>2, <2>3 DEF Connected
<1> QED
  BY <1>1, <1>2

(* Uploads only get on, and one that is over is not put again.             *)
LEMMA UploadsStep ==
  ASSUME IInv, Next
  PROVE  /\ objects' \subseteq ObjectKeys
         /\ DOMAIN uploads' \subseteq ObjectKeys
         /\ uploads' \in [DOMAIN uploads' -> {"signed", "put", "sent"}]
         /\ \A key \in DOMAIN uploads : uploads[key] = "sent" =>
              /\ key \in DOMAIN uploads' /\ uploads'[key] = "sent"
              /\ key \notin objects => key \notin objects'
<1>1. /\ objects \subseteq ObjectKeys /\ DOMAIN uploads \subseteq ObjectKeys
      /\ uploads \in [DOMAIN uploads -> {"signed", "put", "sent"}]
  BY DEF IInv, TypeOK
<1>2. /\ objects' \subseteq ObjectKeys
      /\ \A key \in DOMAIN uploads :
           uploads[key] = "sent" /\ key \notin objects => key \notin objects'
  <2>1. CASE UNCHANGED objects
    BY <1>1, <2>1
  <2>2. CASE \E key \in ObjectKeys : PutObject(key)
    BY <1>1, <2>2 DEF PutObject
  <2>3. CASE \E h \in Handlers : DeleteObject(h)
    BY <1>1, <2>3 DEF DeleteObject
  <2> QED
    BY <2>1, <2>2, <2>3, WhatChanges
<1>3. /\ DOMAIN uploads' \subseteq ObjectKeys
      /\ uploads' \in [DOMAIN uploads' -> {"signed", "put", "sent"}]
      /\ \A key \in DOMAIN uploads : uploads[key] = "sent" =>
           key \in DOMAIN uploads' /\ uploads'[key] = "sent"
  <2>1. CASE UNCHANGED uploads \/ Deletes
    BY <1>1, <2>1, DeletesFrame
  <2>2. CASE Presign
    BY <1>1, <2>2 DEF Presign, Become
  <2>3. CASE \E key \in ObjectKeys : PutObject(key)
    BY <1>1, <2>3 DEF PutObject
  <2>4. CASE \E key \in ObjectKeys : CreateAttachment(key)
    BY <1>1, <2>4 DEF CreateAttachment
  <2> QED
    BY <2>1, <2>2, <2>3, <2>4, WhatChanges
<1> QED
  BY <1>2, <1>3

(* An attachment is made of an upload that is then over, under an id that  *)
(* no request names, and never changes.                                    *)
LEMMA AttachmentsStep ==
  ASSUME IInv, Next
  PROVE  /\ Rows(attachments', AttachmentIds, AttachmentRow)
         /\ \A a \in DOMAIN attachments' :
              /\ attachments'[a].key \in DOMAIN uploads'
              /\ uploads'[attachments'[a].key] = "sent"
         /\ \A a \in DOMAIN attachments' :
              \/ a \in DOMAIN attachments /\ attachments'[a] = attachments[a]
              \/ \A h \in Handlers : jobs[h].id # a /\ UNCHANGED jobs
<1>1. /\ Rows(attachments, AttachmentIds, AttachmentRow)
      /\ \A a \in DOMAIN attachments :
           attachments[a].key \in DOMAIN uploads /\ uploads[attachments[a].key] = "sent"
  BY DEF IInv, TypeOK, Rows, UploadsAreOver
<1>2. ASSUME Rows(attachments', AttachmentIds, AttachmentRow), Kept(attachments', attachments)
      PROVE  /\ \A a \in DOMAIN attachments' :
                  /\ attachments'[a].key \in DOMAIN uploads'
                  /\ uploads'[attachments'[a].key] = "sent"
             /\ \A a \in DOMAIN attachments' :
                  a \in DOMAIN attachments /\ attachments'[a] = attachments[a]
  BY <1>1, <1>2, UploadsStep DEF Kept
<1>3. CASE UNCHANGED attachments
  <2>1. Rows(attachments', AttachmentIds, AttachmentRow) /\ Kept(attachments', attachments)
    BY <1>1, <1>3 DEF Kept, Rows
  <2> QED
    BY <1>2, <2>1
<1>4. CASE Deletes
  BY <1>2, <1>4, DeletesKeepRows DEF IInv
<1>5. CASE \E h \in Handlers : DeleteAttachmentMetadata(h)
  <2>1. Rows(attachments', AttachmentIds, AttachmentRow) /\ Kept(attachments', attachments)
    BY <1>1, <1>5, OnlyKept DEF DeleteAttachmentMetadata
  <2> QED
    BY <1>2, <2>1
<1>6. CASE \E key \in ObjectKeys : CreateAttachment(key)
  <2>1. PICK key \in ObjectKeys : CreateAttachment(key)
    BY <1>6
  <2>2. PICK a \in Fresh(AttachmentIds, attachments), t \in DOMAIN tasks :
          attachments' = Become(attachments, a, [task |-> t, key |-> key])
    BY <2>1 DEF CreateAttachment
  <2>3. /\ a \in AttachmentIds /\ [task |-> t, key |-> key] \in AttachmentRow
        /\ \A h \in Handlers : jobs[h].id # a
        /\ UNCHANGED jobs
    BY <2>1 DEF Fresh, AttachmentRow, IInv, TypeOK, CreateAttachment
  <2>4. /\ DOMAIN attachments' = DOMAIN attachments \cup {a}
        /\ attachments'[a] = [task |-> t, key |-> key]
        /\ \A x \in DOMAIN attachments : x # a => attachments'[x] = attachments[x]
    BY <2>2 DEF Become
  <2>5. Rows(attachments', AttachmentIds, AttachmentRow)
    BY <1>1, <2>2, <2>3, WrittenRows
  <2>6. key \in DOMAIN uploads' /\ uploads'[key] = "sent"
    BY <2>1 DEF CreateAttachment
  <2> QED
    BY <1>1, <2>3, <2>4, <2>5, <2>6, UploadsStep
<1> QED
  BY <1>3, <1>4, <1>5, <1>6, WhatChanges

(* What a request holds of what it read stays right: its own steps keep    *)
(* it, and others never bring back the row it read.                        *)
LEMMA JobsStep ==
  ASSUME IInv, Next
  PROVE  jobs' \in [Handlers -> Job] /\ ReadsAgree'
<1>1. jobs \in [Handlers -> Job] /\ ReadsAgree
  BY DEF IInv, TypeOK
<1>2. CASE UNCHANGED jobs
  BY <1>1, <1>2 DEF ReadsAgree
<1>3. ASSUME NEW h \in Handlers, NEW job \in Job, jobs' = [jobs EXCEPT ![h] = job],
             job.step = "update task" =>
               job.was.completed = (job.was.status = "Done") /\ CompletionAllowed(job.was, job.patch),
             job.step = "update org" => job.was.slug = ToSlug[job.was.name]
      PROVE  jobs' \in [Handlers -> Job] /\ ReadsAgree'
  <2>1. jobs'[h] = job /\ \A g \in Handlers : g # h => jobs'[g] = jobs[g]
    BY <1>1, <1>3
  <2> QED
    BY <1>1, <1>3, <2>1 DEF ReadsAgree
<1>4. CASE \E h \in Handlers : ReceiveUpdateOrg(h)
  <2>1. PICK h \in Handlers : ReceiveUpdateOrg(h)
    BY <1>4
  <2>2. PICK o \in DOMAIN orgs, patch \in OrgPatch :
          Begin(h, [step |-> "update org", id |-> o, was |-> orgs[o], patch |-> patch])
    BY <2>1 DEF ReceiveUpdateOrg
  <2>3. o \in OrgIds /\ orgs[o] \in OrgRow /\ orgs[o].slug = ToSlug[orgs[o].name]
    BY DEF IInv, TypeOK, SlugsAreOfNames
  <2>4. [step |-> "update org", id |-> o, was |-> orgs[o], patch |-> patch] \in Job
    BY <2>3 DEF Job
  <2> QED
    BY <1>3, <2>2, <2>3, <2>4 DEF Begin
<1>5. CASE \E h \in Handlers : ReceiveUpdateTask(h)
  <2>1. PICK h \in Handlers : ReceiveUpdateTask(h)
    BY <1>5
  <2>2. PICK t \in DOMAIN tasks, patch \in TaskPatch :
          /\ CompletionAllowed(tasks[t], patch)
          /\ Begin(h, [step |-> "update task", id |-> t, was |-> tasks[t], patch |-> patch])
    BY <2>1 DEF ReceiveUpdateTask
  <2>3. /\ t \in TaskIds /\ tasks[t] \in TaskRow
        /\ tasks[t].completed = (tasks[t].status = "Done")
    BY DEF IInv, TypeOK, DoneIsCompleted
  <2>4. [step |-> "update task", id |-> t, was |-> tasks[t], patch |-> patch] \in Job
    BY <2>3 DEF Job
  <2> QED
    BY <1>3, <2>2, <2>3, <2>4 DEF Begin
<1>6. CASE \E h \in Handlers : ReceiveDeleteAttachment(h)
  <2>1. PICK h \in Handlers : ReceiveDeleteAttachment(h)
    BY <1>6
  <2>2. PICK a \in DOMAIN attachments :
          Begin(h, [step |-> "delete object", id |-> a, was |-> attachments[a], patch |-> None])
    BY <2>1 DEF ReceiveDeleteAttachment
  <2>3. [step |-> "delete object", id |-> a, was |-> attachments[a], patch |-> None] \in Job
    BY DEF Job, IInv, TypeOK
  <2> QED
    BY <1>3, <2>2, <2>3 DEF Begin
<1>7. CASE \E h \in Handlers : DeleteObject(h)
  <2>1. PICK h \in Handlers : DeleteObject(h)
    BY <1>7
  <2>2. jobs[h] \in Job /\ jobs[h].step = "delete object"
    BY <1>1, <2>1 DEF DeleteObject
  <2>3. jobs[h] \in [step : {"delete object", "delete metadata"}, id : AttachmentIds,
                     was : AttachmentRow, patch : {None}]
    <3>1. jobs[h] # Idle
      <4>1. Idle.step = "idle"
        BY DEF Idle
      <4> QED
        BY <2>2, <4>1
    <3>2. jobs[h] \notin [step : {"update org"}, id : OrgIds, was : OrgRow, patch : OrgPatch]
      BY <2>2
    <3>3. jobs[h] \notin [step : {"update task"}, id : TaskIds, was : TaskRow,
                         patch : TaskPatch]
      BY <2>2
    <3> QED
      BY <2>2, <3>1, <3>2, <3>3 DEF Job
  <2> DEFINE job == [jobs[h] EXCEPT !.step = "delete metadata"]
  <2>4. job \in Job /\ job.step = "delete metadata"
    BY <2>3 DEF Job
  <2>5. jobs' = [jobs EXCEPT ![h] = job]
    BY <2>1 DEF DeleteObject
  <2> QED
    BY <1>3, <2>4, <2>5
<1>8. CASE \E h \in Handlers : End(h)
  <2>1. Idle \in Job /\ Idle.step = "idle"
    BY DEF Job, Idle
  <2> QED
    BY <1>3, <1>8, <2>1 DEF End
<1> QED
  BY <1>2, <1>4, <1>5, <1>6, <1>7, <1>8, WhatChanges

(* A deletion holds the row as it is, or as it was before it went.         *)
LEMMA DeletionsStep ==
  ASSUME IInv, Next
  PROVE  UploadsAreOver'
<1>1. UploadsAreOver /\ jobs \in [Handlers -> Job]
  BY DEF IInv, TypeOK
<1>2. SUFFICES ASSUME NEW h \in Handlers, jobs'[h].step \in {"delete object", "delete metadata"}
               PROVE  /\ jobs'[h].was.key \in DOMAIN uploads'
                      /\ uploads'[jobs'[h].was.key] = "sent"
                      /\ jobs'[h].id \in DOMAIN attachments' =>
                           attachments'[jobs'[h].id] = jobs'[h].was
                      /\ jobs'[h].step = "delete metadata" => jobs'[h].was.key \notin objects'
  BY AttachmentsStep DEF UploadsAreOver
<1>3. CASE jobs'[h] = jobs[h]
  <2>1. jobs[h].id \in DOMAIN attachments' =>
          /\ jobs[h].id \in DOMAIN attachments
          /\ attachments'[jobs[h].id] = attachments[jobs[h].id]
    BY AttachmentsStep
  <2> QED
    BY <1>1, <1>2, <1>3, <2>1, UploadsStep DEF UploadsAreOver
<1>4. CASE ReceiveDeleteAttachment(h)
  <2>1. PICK a \in DOMAIN attachments :
          Begin(h, [step |-> "delete object", id |-> a, was |-> attachments[a], patch |-> None])
    BY <1>4 DEF ReceiveDeleteAttachment
  <2> DEFINE job == [step |-> "delete object", id |-> a, was |-> attachments[a], patch |-> None]
  <2>2. jobs'[h] = job
    BY <1>1, <2>1 DEF Begin
  <2>3. /\ jobs'[h].step = "delete object" /\ jobs'[h].id = a
        /\ jobs'[h].was = attachments[a]
    <3>1. job.step = "delete object" /\ job.id = a /\ job.was = attachments[a]
      OBVIOUS
    <3> HIDE DEF job
    <3> QED
      BY <2>2, <3>1
  <2>4. UNCHANGED <<attachments, uploads, objects>>
    BY <1>4 DEF ReceiveDeleteAttachment, tables
  <2>5. attachments[a].key \in DOMAIN uploads /\ uploads[attachments[a].key] = "sent"
    BY <1>1 DEF UploadsAreOver
  <2> QED
    BY <2>3, <2>4, <2>5
<1>5. CASE DeleteObject(h)
  <2>1. jobs[h].step = "delete object" /\ jobs[h] \in Job
    BY <1>1, <1>5 DEF DeleteObject
  <2>2. /\ jobs'[h].id = jobs[h].id /\ jobs'[h].was = jobs[h].was
    BY <1>1, <1>5, <2>1 DEF DeleteObject, Job, Idle
  <2>3. UNCHANGED <<attachments, uploads>> /\ objects' = objects \ {jobs[h].was.key}
    BY <1>5 DEF DeleteObject, tables
  <2> QED
    BY <1>1, <2>1, <2>2, <2>3 DEF UploadsAreOver
<1>6. \/ jobs'[h] = jobs[h] \/ ReceiveDeleteAttachment(h) \/ DeleteObject(h)
  <2>1. CASE UNCHANGED jobs
    BY <2>1
  <2>2. ASSUME NEW g \in Handlers, NEW job, jobs' = [jobs EXCEPT ![g] = job],
               job.step \notin {"delete object", "delete metadata"}
        PROVE  jobs'[h] = jobs[h]
    BY <1>1, <1>2, <2>2
  <2>3. ASSUME NEW g \in Handlers, ReceiveUpdateOrg(g)
        PROVE  jobs'[h] = jobs[h]
    BY <2>2, <2>3 DEF ReceiveUpdateOrg, Begin
  <2>4. ASSUME NEW g \in Handlers, ReceiveUpdateTask(g)
        PROVE  jobs'[h] = jobs[h]
    BY <2>2, <2>4 DEF ReceiveUpdateTask, Begin
  <2>5. ASSUME NEW g \in Handlers, End(g)
        PROVE  jobs'[h] = jobs[h]
    BY <2>2, <2>5 DEF End, Idle
  <2>6. ASSUME NEW g \in Handlers, g # h, ReceiveDeleteAttachment(g) \/ DeleteObject(g)
        PROVE  jobs'[h] = jobs[h]
    BY <1>1, <2>6 DEF ReceiveDeleteAttachment, DeleteObject, Begin
  <2> QED
    BY <2>1, <2>3, <2>4, <2>5, <2>6, WhatChanges
<1> QED
  BY <1>3, <1>4, <1>5, <1>6

-------------------------------------------------------------------------------
(* The theorems.                                                           *)

LEMMA StepKeeps == IInv /\ [Next]_vars => IInv'
<1> SUFFICES ASSUME IInv, [Next]_vars PROVE IInv'
  OBVIOUS
<1>1. CASE UNCHANGED vars
  BY <1>1 DEF IInv, vars, TypeOK, Connected, DoneIsCompleted, SlugsAreOfNames, ReadsAgree,
     UploadsAreOver
<1>2. CASE Next
  <2>1. received' \in Nat
    BY <1>2, WhatChanges DEF Receive, IInv, TypeOK
  <2>2. TypeOK'
    BY <1>2, <2>1, OrgsStep, ProjectsStep, TasksStep, AttachmentsStep, UploadsStep, JobsStep
       DEF TypeOK, Rows
  <2> QED
    BY <1>2, <2>2, OrgsStep, TasksStep, ConnectedStep, JobsStep, DeletionsStep DEF IInv
<1> QED
  BY <1>1, <1>2

(* The inductive invariant: all of the above and what requests hold.       *)
THEOREM Invariance == Spec => []IInv
<1> QED
  BY InitHolds, StepKeeps, PTL DEF Spec

(* Rows keep their columns, and a request holds what its next step uses.   *)
THEOREM TypeCorrect == Spec => []TypeOK
<1>1. IInv => TypeOK
  BY DEF IInv
<1> QED
  BY <1>1, Invariance, PTL

(* No row outlives what it hangs on: deletes cascade, and a task that was  *)
(* read before its project was deleted is not written back.                *)
THEOREM RowsConnected == Spec => []Connected
<1>1. IInv => Connected
  BY DEF IInv
<1> QED
  BY <1>1, Invariance, PTL

(* A task is done exactly if it has a time of completion, however updates  *)
(* of the status and of the time overwrite each other.                     *)
THEOREM DoneTasksCompleted == Spec => []DoneIsCompleted
<1>1. IInv => DoneIsCompleted
  BY DEF IInv
<1> QED
  BY <1>1, Invariance, PTL

(* Slugs are unique and those of the names, however renames and other      *)
(* updates of organisations overwrite each other.                          *)
THEOREM SlugsKept == Spec => []SlugsAreOfNames
<1>1. IInv => SlugsAreOfNames
  BY DEF IInv
<1> QED
  BY <1>1, Invariance, PTL

(* Outside a cascade an attachment's row goes only after its object, which *)
(* nothing puts again: by UploadsAreOver, for any handlers and failures.   *)
THEOREM ObjectsNotForgotten == Spec => NoForgottenObjects
<1>1. ASSUME IInv, [Next]_vars, NEW a \in DOMAIN attachments \ DOMAIN attachments',
             attachments[a].task \in DOMAIN tasks'
      PROVE  attachments[a].key \notin objects
  <2>1. Next
    BY <1>1 DEF vars
  <2>2. CASE Deletes
    BY <1>1, <2>2, DeletesFrame DEF AttachmentsOf, Only, Restrict
  <2>3. CASE \E key \in ObjectKeys : CreateAttachment(key)
    BY <1>1, <2>3 DEF CreateAttachment, Become
  <2>4. CASE \E h \in Handlers : DeleteAttachmentMetadata(h)
    <3>1. PICK h \in Handlers : DeleteAttachmentMetadata(h)
      BY <2>4
    <3>2. jobs[h].id = a
      BY <1>1, <3>1 DEF DeleteAttachmentMetadata, Only, Restrict, IInv, TypeOK
    <3> QED
      BY <1>1, <3>1, <3>2 DEF DeleteAttachmentMetadata, IInv, UploadsAreOver
  <2> QED
    BY <1>1, <2>1, <2>2, <2>3, <2>4, WhatChanges
<1>2. IInv /\ [Next]_vars =>
        [\A a \in DOMAIN attachments \ DOMAIN attachments' :
           attachments[a].task \in DOMAIN tasks' => attachments[a].key \notin objects]_vars
  BY <1>1
<1> QED
  BY <1>2, Invariance, PTL DEF Spec, NoForgottenObjects

(* What a request holds and another deleted does not come back: only a     *)
(* creation adds a row, under an id that no request holds.                 *)
THEOREM DeletedNotRevived == Spec => DeletedStayDeleted
<1>1. ASSUME IInv, [Next]_vars, NEW h \in Handlers, jobs[h] # Idle
      PROVE  /\ jobs[h].id \in DOMAIN tasks' => jobs[h].id \in DOMAIN tasks
             /\ jobs[h].id \in DOMAIN orgs' => jobs[h].id \in DOMAIN orgs
  <2>1. CASE UNCHANGED vars
    BY <2>1 DEF vars
  <2>2. CASE Deletes
    BY <1>1, <2>2, DeletesKeepRows DEF IInv, Kept
  <2>3. CASE Next /\ ~Deletes
    <3>1. jobs[h].id \in DOMAIN tasks' => jobs[h].id \in DOMAIN tasks
      BY <2>3, WhatChanges DEF CreateTask, UpdateTask, Become, Fresh
    <3>2. jobs[h].id \in DOMAIN orgs' => jobs[h].id \in DOMAIN orgs
      BY <2>3, WhatChanges DEF CreateOrg, UpdateOrg, Become, Fresh
    <3> QED
      BY <3>1, <3>2
  <2> QED
    BY <1>1, <2>1, <2>2, <2>3
<1>2. IInv /\ [Next]_vars =>
        [\A h \in Handlers : jobs[h] # Idle =>
           /\ jobs[h].id \in DOMAIN tasks' => jobs[h].id \in DOMAIN tasks
           /\ jobs[h].id \in DOMAIN orgs' => jobs[h].id \in DOMAIN orgs]_vars
  BY <1>1
<1> QED
  BY <1>2, Invariance, PTL DEF Spec, DeletedStayDeleted

(* A project is archived in the transaction that finds its tasks done.     *)
THEOREM ArchivedOnceDone == Spec => ArchivedWhenDone
<1>1. ASSUME IInv, [Next]_vars, NEW p \in DOMAIN projects \cap DOMAIN projects',
             ~projects[p].archived, projects'[p].archived,
             NEW t \in DOMAIN tasks', tasks'[t].project = p
      PROVE  tasks'[t].status = "Done"
  <2>1. Next
    BY <1>1 DEF vars
  <2>2. projects'[p] # projects[p]
    BY <1>1
  <2>3. ~Deletes /\ ~CreateProject
    BY <1>1, <2>2, DeletesKeepRows DEF IInv, Kept, CreateProject, Become, Fresh
  <2>4. PICK q \in ProjectIds, patch \in ProjectPatch : UpdateProject(q, patch)
    BY <2>1, <2>2, <2>3, WhatChanges
  <2>5. q = p /\ projects'[p] = ProjectUpdate(p, patch)
    BY <2>2, <2>4 DEF UpdateProject, Become
  <2>6. projects[p] \in ProjectRow
    BY <1>1 DEF IInv, TypeOK
  <2>7. ProjectUpdate(p, patch).archived = Patched(projects[p].archived, patch.archived)
    BY <2>6 DEF ProjectUpdate, ProjectRow
  <2>8. patch.archived = TRUE
    <3>1. patch.archived # None
      BY <1>1, <2>5, <2>7 DEF Patched
    <3> QED
      BY <1>1, <2>5, <2>7, <3>1 DEF Patched, ProjectPatch
  <2> QED
    BY <1>1, <2>4, <2>5, <2>8 DEF UpdateProject, AllDone
<1>2. IInv /\ [Next]_vars =>
        [\A p \in DOMAIN projects \cap DOMAIN projects' :
           ~projects[p].archived /\ projects'[p].archived =>
             \A t \in DOMAIN tasks' : tasks'[t].project = p => tasks'[t].status = "Done"]_vars
  BY <1>1
<1> QED
  BY <1>2, Invariance, PTL DEF Spec, ArchivedWhenDone

(* An edit that names no status writes the one it read.                    *)
THEOREM ReopenedAsRead == Spec => ReopenedOnRequestOrStaleRead
<1>1. ASSUME IInv, [Next]_vars, NEW t \in DOMAIN tasks \cap DOMAIN tasks',
             tasks[t].status = "Done", tasks'[t].status # "Done"
      PROVE  \E h \in Handlers :
               /\ jobs[h].step = "update task" /\ jobs[h].id = t /\ jobs'[h] = Idle
               /\ jobs[h].patch.status # None \/ jobs[h].was.status # "Done"
  <2>1. Next
    BY <1>1 DEF vars
  <2>2. tasks'[t] # tasks[t]
    BY <1>1
  <2>3. ~Deletes /\ ~CreateTask
    BY <1>1, <2>2, DeletesKeepRows DEF IInv, Kept, CreateTask, Become, Fresh
  <2>4. PICK h \in Handlers : UpdateTask(h)
    BY <2>1, <2>2, <2>3, WhatChanges
  <2>5. jobs[h].id = t /\ tasks'[t] = TaskUpdate(jobs[h].was, jobs[h].patch)
    BY <2>2, <2>4 DEF UpdateTask, Become
  <2>6. jobs[h].step = "update task" /\ jobs[h] \in Job /\ jobs \in [Handlers -> Job]
    <3>1. jobs \in [Handlers -> Job]
      BY <1>1 DEF IInv, TypeOK
    <3> QED
      BY <2>4, <3>1 DEF UpdateTask
  <2>7. jobs[h].was \in TaskRow /\ jobs[h].patch \in TaskPatch
    BY <2>6, JobAtStep
  <2>8. tasks'[t].status = StatusUpdate(jobs[h].was, jobs[h].patch).status
    BY <2>5, <2>7, StatusUpdateRow DEF TaskUpdate, TaskRow
  <2>9. jobs'[h] = Idle
    BY <2>4, <2>6 DEF UpdateTask, End
  <2> QED
    BY <1>1, <2>5, <2>6, <2>8, <2>9 DEF StatusUpdate
<1>2. IInv /\ [Next]_vars =>
        [\A t \in DOMAIN tasks \cap DOMAIN tasks' :
           tasks[t].status = "Done" /\ tasks'[t].status # "Done" =>
             \E h \in Handlers :
               /\ jobs[h].step = "update task" /\ jobs[h].id = t /\ jobs'[h] = Idle
               /\ jobs[h].patch.status # None \/ jobs[h].was.status # "Done"]_vars
  BY <1>1
<1> QED
  BY <1>2, Invariance, PTL DEF Spec, ReopenedOnRequestOrStaleRead
===============================================================================
