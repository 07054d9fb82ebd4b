----------------------------- MODULE Client_proofs -----------------------------
(***************************************************************************)
(* Proofs about Client.                                                    *)
(***************************************************************************)
EXTENDS Client, Sums, SequenceTheorems, TLAPS

-----------------------------------------------------------------------------
(* The calendar: the call behind a button that waits.                      *)

CalendarCall(c) == c \in [kind : {c.kind}, id : {c.id}, text : {c.text},
                           mounted : {c.mounted}, phase : {c.phase}]

CalendarInv == (\A c \in p10 : CalendarCall(c)) /\ Calendar!BusyHasACall

LEMMA CalendarFields ==
    ASSUME NEW c, CalendarCall(c), NEW v
    PROVE  /\ CalendarCall([c EXCEPT !.phase = v]) /\ CalendarCall([c EXCEPT !.mounted = v])
           /\ [c EXCEPT !.phase = v].kind = c.kind /\ [c EXCEPT !.phase = v].mounted = c.mounted
  BY DEF CalendarCall

LEMMA CalendarNew ==
    ASSUME NEW k, NEW i, NEW t
    PROVE  CalendarCall([kind |-> k, id |-> i, text |-> t, mounted |-> TRUE, phase |-> "sent"])
  BY DEF CalendarCall

LEMMA CalendarStarts == Calendar!Init => CalendarInv
  BY DEF Calendar!Init, CalendarInv, Calendar!BusyHasACall

LEMMA CalendarMoves == CalendarInv /\ Calendar!Next => CalendarInv'
<1> SUFFICES ASSUME CalendarInv, Calendar!Next PROVE CalendarInv'
  OBVIOUS
<1> USE DEF CalendarInv, Calendar!BusyHasACall
<1>1. CASE Calendar!UserActs
  <2>1. ASSUME NEW m \in EventMonths, Calendar!GotoMonth(m) PROVE CalendarInv'
    BY <2>1 DEF Calendar!GotoMonth
  <2>2. ASSUME NEW id, Calendar!OpenForm(id) \/ Calendar!AskDelete(id) PROVE CalendarInv'
    BY <2>2 DEF Calendar!OpenForm, Calendar!AskDelete
  <2>3. ASSUME Calendar!CloseForm \/ Calendar!CancelDelete PROVE CalendarInv'
    BY <2>3 DEF Calendar!CloseForm, Calendar!CancelDelete
  <2>4. ASSUME NEW id, Calendar!HandleSaveEvent(id) PROVE CalendarInv'
    <3> DEFINE k == IF p6 = Calendar!New THEN "create" ELSE "edit"
               t == IF p6 = Calendar!New THEN FALSE ELSE ~p5[id]
               c == [kind |-> k, id |-> id, text |-> t, mounted |-> TRUE, phase |-> "sent"]
    <3>1. p10' = p10 \cup {c} /\ UNCHANGED p9
      BY <2>4 DEF Calendar!HandleSaveEvent, Calendar!Send
    <3>2. CalendarCall(c) /\ c.kind # "delete" /\ c.mounted
      BY CalendarNew
    <3> HIDE DEF c
    <3> QED
      BY <3>1, <3>2
  <2>5. ASSUME Calendar!HandleDeleteEvent PROVE CalendarInv'
    <3> DEFINE c == [kind |-> "delete", id |-> p7, text |-> FALSE, mounted |-> TRUE, phase |-> "sent"]
    <3>1. p10' = p10 \cup {c} /\ UNCHANGED p8
      BY <2>5, Zenon DEF Calendar!HandleDeleteEvent, Calendar!Send
    <3>2. CalendarCall(c) /\ c.kind = "delete" /\ c.mounted
      BY CalendarNew
    <3> QED
      BY <3>1, <3>2
  <2> QED
    BY <1>1, <2>1, <2>2, <2>3, <2>4, <2>5, Zenon DEF Calendar!UserActs
<1>2. CASE Calendar!ServeRead \/ Calendar!ReadAnswered \/ Calendar!ReadFails
  <2>1. CASE UNCHANGED <<p8, p9, p10>>
    BY <2>1
  <2>2. CASE p8' = FALSE /\ p9' = FALSE /\ p10' = {[c EXCEPT !.mounted = FALSE] : c \in p10}
    <3>1. \A c \in p10 : CalendarCall([c EXCEPT !.mounted = FALSE])
      BY CalendarFields
    <3> QED
      BY <2>2, <3>1
  <2> QED
    BY <1>2, <2>1, <2>2 DEF Calendar!ServeRead, Calendar!ReadAnswered, Calendar!ReadFails
<1>3. ASSUME NEW c \in p10, Calendar!Serve(c) PROVE CalendarInv'
  <2> DEFINE d == [c EXCEPT !.phase = "ok"]
  <2>1. CalendarCall(d) /\ d.kind = c.kind /\ d.mounted = c.mounted
    BY CalendarFields
  <2>2. p10' = (p10 \ {c}) \cup {d} /\ UNCHANGED <<p8, p9>>
    BY <1>3 DEF Calendar!Serve
  <2> HIDE DEF d
  <2> QED
    BY <2>1, <2>2
<1>4. ASSUME NEW c \in p10, Calendar!CallAnswered(c) PROVE CalendarInv'
  BY <1>4 DEF Calendar!CallAnswered
<1>5. ASSUME NEW c \in p10, Calendar!CallFails(c) PROVE CalendarInv'
  BY <1>5 DEF Calendar!CallFails, Calendar!Idle
<1> QED
  BY <1>1, <1>2, <1>3, <1>4, <1>5, Zenon DEF Calendar!Next, Calendar!Moves

-----------------------------------------------------------------------------
(* The files of a task: what is registered was stored.                     *)

FileCall(c) == c \in [kind : {c.kind}, file : {c.file}, no : {c.no}, base : {c.base},
                       mounted : {c.mounted}, phase : {c.phase}, found : {c.found}]

LEMMA FileUnmounted ==
    ASSUME NEW c, FileCall(c)
    PROVE  LET d == [c EXCEPT !.mounted = FALSE] IN
           FileCall(d) /\ d.kind = c.kind /\ d.file = c.file /\ d.phase = c.phase
  BY DEF FileCall

LEMMA FileAnswered ==
    ASSUME NEW c, FileCall(c), NEW found
    PROVE  LET d == [c EXCEPT !.phase = "ok", !.found = found] IN
           FileCall(d) /\ d.kind = c.kind /\ d.file = c.file /\ d.mounted = c.mounted /\ d.phase = "ok"
  BY DEF FileCall

LEMMA FilePhased ==
    ASSUME NEW c, FileCall(c), NEW phase
    PROVE  LET d == [c EXCEPT !.phase = phase] IN
           FileCall(d) /\ d.kind = c.kind /\ d.file = c.file /\ d.mounted = c.mounted /\ d.phase = phase
  BY DEF FileCall

LEMMA FileNew ==
    ASSUME NEW k, NEW f, NEW n, NEW b
    PROVE  LET c == [kind |-> k, file |-> f, no |-> n, base |-> b, mounted |-> TRUE, phase |-> "sent",
                     found |-> {}]
           IN  FileCall(c) /\ c.kind = k /\ c.file = f /\ c.mounted = TRUE /\ c.phase = "sent"
  BY DEF FileCall

\* A file is uploaded by one call at a time, which registers it when it is in the
\* store; until then it is not registered, so no removal takes its object. A
\* removal is of a file that was asked for.
Uploads ==
    /\ \A c, d \in p6 : c.kind \in Files!Steps /\ d.kind \in Files!Steps /\ c.file = d.file => c = d
    /\ \A c \in p6 : c.kind \in Files!Steps /\ ~(c.kind = "attach" /\ c.phase = "ok") => c.file \notin p1
    /\ \A c \in p6 : (c.kind = "put" /\ c.phase = "ok") \/ (c.kind = "attach" /\ c.phase = "sent") => c.file \in p2
    /\ \A c \in p6 : c.kind = "remove" => c.file \in p7

FilesInv == (\A c \in p6 : FileCall(c)) /\ Uploads /\ Files!FilesAreStored /\ Files!UploadingHasACall

LEMMA FilesStart == Files!Init => FilesInv
  BY DEF Files!Init, FilesInv, Uploads, Files!FilesAreStored, Files!UploadingHasACall

LEMMA FilesStep == FilesInv /\ Files!Next => FilesInv'
<1> SUFFICES ASSUME FilesInv, Files!Next PROVE FilesInv'
  OBVIOUS
<1> USE DEF FilesInv, Uploads, Files!FilesAreStored, Files!UploadingHasACall,
            Files!Kinds, Files!Steps
<1>1. CASE Files!UserActs
  <2>1. ASSUME Files!OpenModal \/ Files!RereadFiles PROVE FilesInv'
    <3> DEFINE Read(b) == [kind |-> "list", file |-> Files!Broken, no |-> acts, base |-> b, mounted |-> TRUE,
                           phase |-> "sent", found |-> {}]
    <3>1. ASSUME NEW b PROVE FileCall(Read(b)) /\ Read(b).kind = "list"
      BY FileNew
    <3>2. \E b : p6' = p6 \cup {Read(b)}
      BY <2>1, Zenon DEF Files!OpenModal, Files!RereadFiles, Files!Add, Files!Call
    <3>3. UNCHANGED <<p1, p2, p7>> /\ (p5' = FALSE \/ UNCHANGED <<p3, p5>>)
      BY <2>1 DEF Files!OpenModal, Files!RereadFiles
    <3> HIDE DEF Read
    <3> QED
      BY <3>1, <3>2, <3>3
  <2>2. ASSUME Files!CloseModal PROVE FilesInv'
    <3> DEFINE Left(c) == [c EXCEPT !.mounted = FALSE]
    <3>1. \A c \in p6 : FileCall(Left(c)) /\ Left(c).kind = c.kind /\ Left(c).file = c.file
                             /\ Left(c).phase = c.phase
      BY FileUnmounted
    <3>2. p6' = {Left(c) : c \in p6} /\ p3' = FALSE /\ UNCHANGED <<p1, p2, p7>>
      BY <2>2 DEF Files!CloseModal
    <3> HIDE DEF Left
    <3> QED
      BY <3>1, <3>2
  <2>3. ASSUME NEW f, Files!HandleFileUpload(f) PROVE FilesInv'
    <3> DEFINE c == [kind |-> "presign", file |-> f, no |-> acts, base |-> p4, mounted |-> TRUE,
                     phase |-> "sent", found |-> {}]
    <3>1. FileCall(c) /\ c.kind = "presign" /\ c.file = f /\ c.mounted
      BY FileNew
    <3>2. /\ p6' = p6 \cup {c} /\ UNCHANGED <<p1, p2, p3, p7>>
          /\ f \notin p1 /\ ~\E d \in p6 : d.file = f
      BY <2>3 DEF Files!HandleFileUpload, Files!Add, Files!Call
    <3> HIDE DEF c
    <3> QED
      BY <3>1, <3>2
  <2>4. ASSUME NEW f, Files!HandleDeleteAttachment(f) PROVE FilesInv'
    <3> DEFINE c == [kind |-> "remove", file |-> f, no |-> acts, base |-> p4, mounted |-> TRUE,
                     phase |-> "sent", found |-> {}]
    <3>1. FileCall(c) /\ c.kind = "remove" /\ c.file = f
      BY FileNew
    <3>2. p6' = p6 \cup {c} /\ p7' = p7 \cup {f} /\ UNCHANGED <<p1, p2, p3, p5>>
      BY <2>4 DEF Files!HandleDeleteAttachment, Files!Add, Files!Call
    <3> HIDE DEF c
    <3> QED
      BY <3>1, <3>2
  <2> QED
    BY <1>1, <2>1, <2>2, <2>3, <2>4, Zenon DEF Files!UserActs
<1>2. ASSUME NEW c \in p6, Files!Serve(c) PROVE FilesInv'
  <2> DEFINE d == [c EXCEPT !.phase = "ok", !.found = p1]
  <2>1. FileCall(d) /\ d.kind = c.kind /\ d.file = c.file /\ d.mounted = c.mounted /\ d.phase = "ok"
    BY FileAnswered
  <2>2. p6' = (p6 \ {c}) \cup {d} /\ UNCHANGED <<p3, p5, p7>>
    BY <1>2 DEF Files!Serve
  <2> HIDE DEF d
  <2>3. Files!UploadingHasACall' /\ (\A e \in p6' : FileCall(e))
    BY <2>1, <2>2
  <2>4. CASE c.kind = "attach"
    <3>1. p1' = p1 \cup {c.file} /\ p2' = p2 /\ c.phase = "sent"
      BY <1>2, <2>4 DEF Files!Serve
    <3> QED
      BY <2>1, <2>2, <2>3, <2>4, <3>1
  <2>5. CASE c.kind = "remove"
    <3>1. p1' = p1 \ {c.file} /\ p2' = p2
      BY <1>2, <2>5 DEF Files!Serve
    <3> QED
      BY <2>1, <2>2, <2>3, <2>5, <3>1
  <2>6. CASE c.kind \notin {"attach", "remove"}
    <3>1. p1' = p1 /\ (p2' = IF c.kind = "put" THEN p2 \cup {c.file} ELSE p2) /\ c.phase = "sent"
      BY <1>2, <2>6 DEF Files!Serve
    <3> QED
      BY <2>1, <2>2, <2>3, <2>6, <3>1
  <2> QED
    BY <2>4, <2>5, <2>6
<1>3. ASSUME NEW c \in p6, Files!Refuse(c) PROVE FilesInv'
  <2> DEFINE d == [c EXCEPT !.phase = "refused"]
  <2>1. FileCall(d) /\ d.kind = c.kind /\ d.file = c.file /\ d.mounted = c.mounted /\ d.phase = "refused"
    BY FilePhased
  <2>2. p6' = (p6 \ {c}) \cup {d} /\ UNCHANGED <<p1, p2, p3, p5, p7>>
        /\ c.phase \in {"sent", "erased"}
    BY <1>3 DEF Files!Refuse
  <2> HIDE DEF d
  <2> QED
    BY <2>1, <2>2
<1>6. ASSUME NEW c \in p6, Files!Erase(c) PROVE FilesInv'
  <2> DEFINE d == [c EXCEPT !.phase = "erased"]
  <2>1. FileCall(d) /\ d.kind = c.kind /\ d.file = c.file /\ d.mounted = c.mounted /\ d.phase = "erased"
    BY FilePhased
  <2>2. /\ p6' = (p6 \ {c}) \cup {d} /\ p2' = p2 \ {c.file} /\ UNCHANGED <<p1, p3, p5, p7>>
        /\ c.kind = "remove" /\ c.file \in p1 /\ c.file \in p7
    BY <1>6 DEF Files!Erase
  <2> HIDE DEF d
  <2> QED
    BY <2>1, <2>2
<1>4. ASSUME NEW c \in p6, Files!UploadGoesOn(c) PROVE FilesInv'
  <2> DEFINE put == [c EXCEPT !.kind = "put", !.phase = "sent"]
             attach == [c EXCEPT !.kind = "attach", !.phase = "sent"]
  <2>1. /\ FileCall(put) /\ put.kind = "put" /\ put.file = c.file /\ put.mounted = c.mounted
        /\ FileCall(attach) /\ attach.kind = "attach" /\ attach.file = c.file
        /\ attach.mounted = c.mounted /\ put.phase = "sent" /\ attach.phase = "sent"
    BY DEF FileCall
  <2>2. /\ UNCHANGED <<p1, p2, p3, p5, p7>> /\ c.phase = "ok"
        /\ \/ c.kind = "presign" /\ p6' = (p6 \ {c}) \cup {put}
           \/ c.kind = "put" /\ p6' = (p6 \ {c}) \cup {attach}
    BY <1>4 DEF Files!UploadGoesOn
  <2> HIDE DEF put, attach
  <2> QED
    BY <2>1, <2>2
<1>5. ASSUME NEW c \in p6, Files!UploadEnds(c) \/ Files!ListAnswered(c) \/ Files!CallFails(c) PROVE FilesInv'
  <2>1. /\ p6' = p6 \ {c} /\ UNCHANGED <<p1, p2, p3, p7>>
        /\ \/ p5' = (p5 /\ ~(c.mounted /\ c.kind \in Files!Steps))
           \/ UNCHANGED p5 /\ c.kind \in {"list", "remove"}
    BY <1>5 DEF Files!UploadEnds, Files!ListAnswered, Files!CallFails, Files!Idle
  <2>2. Files!UploadingHasACall'
    BY <2>1
  <2> QED
    BY <2>1, <2>2
<1> QED
  BY <1>1, <1>2, <1>3, <1>4, <1>5, <1>6, Zenon DEF Files!Next, Files!CallMoves, Files!Answer

-----------------------------------------------------------------------------
(* The notes: the fetch behind the spinner.                                *)

LEMMA NotesStep == Notes!SpinnerHasAFetch /\ Notes!Next => Notes!SpinnerHasAFetch'
<1> SUFFICES ASSUME Notes!SpinnerHasAFetch, Notes!Next PROVE Notes!SpinnerHasAFetch'
  OBVIOUS
<1> USE DEF Notes!SpinnerHasAFetch, Notes!viewVars, Notes!shareVars, Notes!Ends
<1>1. CASE Notes!UserActs
  BY <1>1 DEF Notes!UserActs, Notes!SelectFetched, Notes!SelectOther, Notes!Select, Notes!HandleShare,
     Notes!CancelShare, Notes!CreateShare
<1>2. CASE Notes!ScriptEnds \/ Notes!ShareAnswered \/ Notes!ShareTimer
  BY <1>2 DEF Notes!ScriptEnds, Notes!ShareAnswered, Notes!ShareTimer
<1>3. ASSUME NEW f \in p5, Notes!TextArrives(f) \/ Notes!DocxArrives(f) \/ Notes!DocxParsed(f) \/ Notes!FetchFails(f)
      PROVE Notes!SpinnerHasAFetch'
  BY <1>3 DEF Notes!TextArrives, Notes!DocxArrives, Notes!DocxParsed, Notes!FetchFails
<1> QED
  BY <1>1, <1>2, <1>3, Zenon DEF Notes!Next, Notes!Moves

-----------------------------------------------------------------------------
(* The tasks: completed_at goes with the status.                           *)

LEMMA TasksStart == Tasks!Init => Tasks!CompletedAreStamped
  BY DEF Tasks!Init, Tasks!CompletedAreStamped

LEMMA TasksStep == Tasks!CompletedAreStamped /\ Tasks!Next => Tasks!CompletedAreStamped'
<1> SUFFICES ASSUME Tasks!CompletedAreStamped, Tasks!Next PROVE Tasks!CompletedAreStamped'
  OBVIOUS
<1> USE DEF Tasks!CompletedAreStamped
<1>1. ASSUME NEW c \in p6, Tasks!Serve(c) PROVE Tasks!CompletedAreStamped'
  <2>1. CASE c.kind \in {"deleteRow", "deleteModal"}
    BY <1>1, <2>1 DEF Tasks!Serve, Tasks!Drop, Tasks!Restrict
  <2>2. CASE c.kind = "create"
    <3>1. p2' = Tasks!Put(p2, c.id, Tasks!NoRow)
      BY <1>1, <2>2 DEF Tasks!Serve
    <3> QED
      BY <3>1 DEF Tasks!Put, Tasks!NoRow
  <2>3. CASE c.kind \notin {"deleteRow", "deleteModal", "create"}
    <3> DEFINE r == Tasks!Patched(p2[c.id], c)
    <3>1. c.id \in DOMAIN p2 /\ ("stamp" \in c.fields => r.stamp = r.done)
      BY <1>1, <2>3 DEF Tasks!Serve, Tasks!Refused
    <3>2. r.stamp = r.done
      BY <3>1 DEF Tasks!Patched
    <3>3. p2' = Tasks!Put(p2, c.id, r)
      BY <1>1, <2>3 DEF Tasks!Serve
    <3> QED
      BY <3>1, <3>2, <3>3 DEF Tasks!Put
  <2> QED
    BY <2>1, <2>2, <2>3
<1>2. CASE UNCHANGED p2
  BY <1>2
<1>3. CASE Tasks!UserActs
  BY <1>3, <1>2 DEF Tasks!UserActs, Tasks!Send, Tasks!ToggleDone, Tasks!ToggleFlag, Tasks!DeleteRow,
     Tasks!CreateTask, Tasks!RestoreTask, Tasks!EditStamp, Tasks!OpenTaskModal, Tasks!CloseStamp,
     Tasks!SaveCompletedAt, Tasks!CloseTaskModal, Tasks!ChooseStatus, Tasks!ChooseMark,
     Tasks!SaveModal, Tasks!DeleteInModal
<1>4. ASSUME NEW c \in p6, Tasks!Refuse(c) \/ Tasks!Answer(c) PROVE UNCHANGED p2
  BY <1>4 DEF Tasks!Refuse, Tasks!Answer, Tasks!Settled, Tasks!PatchAnswered, Tasks!CompletedAnswered,
     Tasks!CreateAnswered, Tasks!DeleteAnswered, Tasks!CallFails
<1>5. CASE Tasks!NavMoves \/ \E r \in p8 : Tasks!NavFails(r)
  BY <1>5, <1>2 DEF Tasks!NavMoves, Tasks!NavTimer, Tasks!NavServed, Tasks!NavAnswered, Tasks!NavFails
<1> QED
  BY <1>1, <1>2, <1>3, <1>4, <1>5, Zenon DEF Tasks!Next, Tasks!CallMoves

-----------------------------------------------------------------------------
(* The projects: a project with open tasks is not put away unnoticed.      *)

ProjectCall(c) == c \in [kind : {c.kind}, id : {c.id}, order : {c.order}, list : {c.list},
                          open : {c.open}, phase : {c.phase}]

Clean(id) == <<id, "crossed">> \notin doubt /\ <<id, "archive">> \notin doubt
Away(id)  == id \in DOMAIN p2 /\ p2[id].archived

ProjectRows ==
    /\ DOMAIN p2 \subseteq ProjectIds
    /\ \A id \in DOMAIN p2 : p2[id] \in [order : {p2[id].order}, archived : BOOLEAN, pending : BOOLEAN]

ProjectCalls == \A c \in p10 : ProjectCall(c) /\ (c.kind = "create" => c.id \in ProjectIds)

\* Calls that did not cross are alone with the project they are about.
Alone ==
    \A id \in ProjectIds : Clean(id) =>
        \A c, d \in p10 : id \in Projects!About(c) /\ id \in Projects!About(d) => c = d

\* A list that is to be shown has no project that was put away.
Lists ==
    \A c \in p10, id \in ProjectIds :
        Clean(id) /\ c.kind \in {"fetch", "create"} /\ id \in DOMAIN c.list => ~Away(id)

\* A task is added, and a project brought back, where it is not put away.
Adding ==
    \A c \in p10 : c.id \in ProjectIds /\ Clean(c.id)
                      /\ (c.kind = "task" \/ (c.kind \in {"restore", "create"} /\ c.phase = "ok")) => ~Away(c.id)

\* The page shows a project that is put away only until it learns of it.
ShownAway ==
    \A id \in DOMAIN p3 : id \in ProjectIds /\ Clean(id) /\ Away(id) =>
        p9 \/ \E c \in p10 : c.kind = "fetch" \/ (c.kind = "archive" /\ c.id = id)

ProjectsInv == ProjectRows /\ ProjectCalls /\ Alone /\ Lists /\ Adding /\ ShownAway
                  /\ Projects!NoOpenTaskArchived

LEMMA ProjectNew ==
    ASSUME NEW k, NEW i, NEW o, NEW l
    PROVE  LET c == Projects!Call(k, i, o, l) IN
           ProjectCall(c) /\ c.kind = k /\ c.id = i /\ c.list = l /\ c.phase = "sent"
  BY DEF ProjectCall, Projects!Call

LEMMA ProjectsStart == Projects!Init => ProjectsInv
<1> SUFFICES ASSUME Projects!Init PROVE ProjectsInv
  OBVIOUS
<1>1. /\ p10 = {Projects!Call("fetch", Projects!None, 0, <<>>)} /\ p3 = <<>>
  BY DEF Projects!Init
<1>2. ProjectCalls
  BY <1>1, ProjectNew DEF ProjectCalls
<1>3. Alone /\ Lists /\ Adding /\ ShownAway
  BY <1>1, ProjectNew DEF Alone, Lists, Adding, ShownAway
<1>4. ProjectRows /\ Projects!NoOpenTaskArchived
  <2>1. PICK n \in ProjectIds : \E a \in SUBSET (1..n) :
           p2 = [i \in 1..n |-> [order |-> i - 1, archived |-> i \in a, pending |-> FALSE]]
    BY Zenon DEF Projects!Init
  <2>2. PICK a \in SUBSET (1..n) :
           p2 = [i \in 1..n |-> [order |-> i - 1, archived |-> i \in a, pending |-> FALSE]]
    BY <2>1
  <2>3. 1..n \subseteq ProjectIds
    BY ProjectIdsAssumption
  <2> QED
    BY <2>2, <2>3 DEF ProjectRows, Projects!NoOpenTaskArchived
<1> QED
  BY <1>2, <1>3, <1>4 DEF ProjectsInv

LEMMA Crossed ==
    ASSUME NEW new, NEW old, NEW c \in new, NEW d \in old, NEW id,
           id \in Projects!About(c), id \in Projects!About(d)
    PROVE  id \in Projects!Cross(new, old)
<1>1. CASE \E e \in new : e.kind \in Projects!Whole
  BY <1>1 DEF Projects!Cross
<1>2. CASE ~\E e \in new : e.kind \in Projects!Whole
  <2>1. c \in {e \in new : \E o \in old : Projects!About(e) \cap Projects!About(o) # {}}
    OBVIOUS
  <2> QED
    BY <1>2, <2>1 DEF Projects!Cross
<1> QED
  BY <1>1, <1>2

\* What the user sends.
LEMMA ProjectsSent ==
    ASSUME ProjectsInv, NEW new, Projects!Put2Wire(new, p10), UNCHANGED <<p2, p9>>, ~p9,
           DOMAIN p3' = DOMAIN p3,
           \A c \in new : /\ ProjectCall(c) /\ c.phase = "sent" /\ c.kind # "fetch"
                          /\ c.kind = "create" => c.id \in ProjectIds /\ c.list = p3
                          /\ c.kind = "task" => c.id \in DOMAIN p3,
           \A id \in ProjectIds : \A c, d \in new :
               id \in Projects!About(c) /\ id \in Projects!About(d) => c = d
    PROVE  ProjectsInv'
<1>1. /\ p10' = p10 \cup new
      /\ doubt' = doubt \cup (Projects!Cross(new, p10) \X {"crossed"})
  BY DEF Projects!Put2Wire
<1>2. \A id : Clean(id)' => Clean(id) /\ id \notin Projects!Cross(new, p10)
  BY <1>1 DEF Clean
<1>3. \A id : Away(id)' <=> Away(id)
  BY DEF Away
<1>4. \A id \in ProjectIds, c \in new, d \in p10 :
          Clean(id)' => ~(id \in Projects!About(c) /\ id \in Projects!About(d))
  BY <1>2, Crossed
<1>5. ASSUME NEW id \in ProjectIds, NEW c \in new, Clean(id)', id \in Projects!About(c), id \in DOMAIN p3
      PROVE  ~Away(id)
  <2>1. \A d \in p10 : ~(d.kind = "fetch" \/ (d.kind = "archive" /\ d.id = id))
    BY <1>4, <1>5 DEF Projects!About, Projects!Whole
  <2> QED
    BY <1>2, <1>5, <2>1 DEF ProjectsInv, ShownAway
<1>6. ProjectRows' /\ ProjectCalls'
  BY <1>1 DEF ProjectsInv, ProjectRows, ProjectCalls
<1>7. Alone'
  BY <1>1, <1>2, <1>4 DEF ProjectsInv, Alone
<1>8. Lists'
  <2> SUFFICES ASSUME NEW c \in p10', NEW id \in ProjectIds, Clean(id)', c.kind \in {"fetch", "create"},
                      id \in DOMAIN c.list
               PROVE  ~Away(id)
    BY <1>3 DEF Lists
  <2>1. CASE c \in p10
    BY <1>2, <2>1 DEF ProjectsInv, Lists
  <2>2. CASE c \in new
    BY <1>5, <2>2 DEF Projects!About, Projects!Whole
  <2> QED
    BY <1>1, <2>1, <2>2
<1>9. Adding'
  <2> SUFFICES ASSUME NEW c \in p10', c.id \in ProjectIds, Clean(c.id)',
                      c.kind = "task" \/ (c.kind \in {"restore", "create"} /\ c.phase = "ok")
               PROVE  ~Away(c.id)
    BY <1>3 DEF Adding
  <2>1. CASE c \in p10
    BY <1>2, <2>1 DEF ProjectsInv, Adding
  <2>2. CASE c \in new
    BY <1>5, <2>2 DEF Projects!About, Projects!Whole
  <2> QED
    BY <1>1, <2>1, <2>2
<1>10. ShownAway'
  BY <1>1, <1>2, <1>3 DEF ProjectsInv, ShownAway
<1>11. Projects!NoOpenTaskArchived'
  BY <1>1 DEF ProjectsInv, Projects!NoOpenTaskArchived
<1> QED
  BY <1>6, <1>7, <1>8, <1>9, <1>10, <1>11 DEF ProjectsInv

LEMMA ProjectsUser == ProjectsInv /\ Projects!UserActs => ProjectsInv'
<1> SUFFICES ASSUME ProjectsInv, Projects!UserActs PROVE ProjectsInv'
  OBVIOUS
<1>1. ASSUME NEW from, NEW to, Projects!Reorder(from, to) PROVE ProjectsInv'
  <2> DEFINE s       == Projects!Moved(Projects!Sorted(p3), from, to)
             next    == [id \in DOMAIN p3 |-> CHOOSE i \in 0..(Len(s) - 1) : s[i + 1] = id]
             changed == {id \in DOMAIN p3 : next[id] # p3[id]}
             new     == {Projects!Call("order", id, next[id], <<>>) : id \in changed}
  <2>1. p3' = next /\ Projects!Put2Wire(new, p10) /\ UNCHANGED <<p2, p9>> /\ ~p9
    BY <1>1, Zenon DEF Projects!Reorder, Projects!Ready
  <2>2. DOMAIN next = DOMAIN p3
    OBVIOUS
  <2> HIDE DEF next
  <2>3. \A c \in new : \E id : /\ c = Projects!Call("order", id, next[id], <<>>) /\ ProjectCall(c)
                                /\ c.id = id /\ c.kind = "order" /\ c.phase = "sent"
    BY ProjectNew
  <2> HIDE DEF new
  <2>4. \A id : \A c, d \in new : id \in Projects!About(c) /\ id \in Projects!About(d) => c = d
    BY <2>3 DEF Projects!About, Projects!Whole
  <2> QED
    BY <2>1, <2>2, <2>3, <2>4, ProjectsSent
<1>2. ASSUME NEW kind, NEW id, NEW order, NEW list, NEW group,
             Projects!Send(group, {Projects!Call(kind, id, order, list)}),
             kind # "fetch", kind = "create" => id \in ProjectIds /\ list = p3,
             kind = "task" => id \in DOMAIN p3
      PROVE  ProjectsInv'
  <2> DEFINE c == Projects!Call(kind, id, order, list)
  <2>1. Projects!Put2Wire({c}, p10) /\ UNCHANGED <<p2, p3, p9>> /\ ~p9
    BY <1>2 DEF Projects!Send, Projects!Ready
  <2>2. ProjectCall(c) /\ c.kind = kind /\ c.id = id /\ c.list = list /\ c.phase = "sent"
    BY ProjectNew
  <2> HIDE DEF c
  <2> QED
    BY <1>2, <2>1, <2>2, ProjectsSent
<1>3. ASSUME NEW id \in ProjectIds,
             \/ Projects!CreateProject(id) \/ Projects!DeleteProject(id) \/ Projects!RenameProject(id)
             \/ Projects!ArchiveProject(id) \/ Projects!CreateTask(id) \/ Projects!RestoreProject(id)
      PROVE  ProjectsInv'
  BY <1>2, <1>3 DEF Projects!CreateProject, Projects!DeleteProject, Projects!RenameProject,
     Projects!ArchiveProject, Projects!CreateTask, Projects!RestoreProject
<1>4. CASE Projects!OpenArchive
  BY <1>2, <1>4 DEF Projects!OpenArchive
<1>5. CASE Projects!CloseArchive
  BY <1>5 DEF Projects!CloseArchive, ProjectsInv, ProjectRows, ProjectCalls, Alone, Lists, Adding,
     ShownAway, Projects!NoOpenTaskArchived, Clean, Away
<1> QED
  BY <1>1, <1>3, <1>4, <1>5, Zenon DEF Projects!UserActs

\* What the server does with a call it serves.
LEMMA ProjectWritten ==
    ASSUME ProjectsInv, NEW c \in p10, Projects!Serve(c)
    PROVE  /\ ProjectRows'
           /\ \A id : id # c.id => /\ id \in DOMAIN p2' <=> id \in DOMAIN p2
                                   /\ id \in DOMAIN p2 => p2'[id] = p2[id]
           /\ c.id \in DOMAIN p2' =>
                 /\ p2'[c.id].archived => c.kind = "archive" \/ (Away(c.id) /\ c.kind \notin {"create", "restore"})
                 /\ p2'[c.id].pending  => c.kind = "task" \/ (c.id \in DOMAIN p2 /\ p2[c.id].pending /\ c.kind # "archive")
<1> USE DEF ProjectsInv, ProjectRows, ProjectCalls, Away
<1>1. p2' = Projects!Written(c) /\ ~Projects!Refused(c) /\ c.kind \notin Projects!Reads
  BY DEF Projects!Serve, Projects!Reply
<1>2. CASE c.kind = "create"
  BY <1>1, <1>2 DEF Projects!Written, Projects!Put
<1>3. CASE c.kind = "delete"
  BY <1>1, <1>3 DEF Projects!Written, Projects!Drop, Projects!Restrict
<1>4. CASE c.kind \in {"order", "stray"}
  BY <1>1, <1>4 DEF Projects!Written, Projects!Refused, Projects!Reads
<1>5. CASE c.kind = "archive"
  BY <1>1, <1>5 DEF Projects!Written, Projects!Refused, Projects!Reads
<1>6. CASE c.kind = "restore"
  BY <1>1, <1>6 DEF Projects!Written, Projects!Refused, Projects!Reads
<1>7. CASE c.kind = "task"
  BY <1>1, <1>7 DEF Projects!Written, Projects!Refused, Projects!Reads
<1>8. CASE c.kind \notin {"create", "delete", "order", "stray", "archive", "restore", "task"}
  BY <1>1, <1>8 DEF Projects!Written, Projects!Refused, Projects!Reads
<1> QED
  BY <1>2, <1>3, <1>4, <1>5, <1>6, <1>7, <1>8

\* Where a call becomes another about the same projects, and the rows of the
\* server change at most.
LEMMA ProjectsServed ==
    ASSUME ProjectsInv, NEW c \in p10, NEW d, ProjectRows',
           ProjectCall(d), d.kind = c.kind, d.id = c.id,
           p10' = (p10 \ {c}) \cup {d}, UNCHANGED <<p3, p9, doubt>>,
           \A id \in DOMAIN p2' : p2'[id].archived =>
               Away(id) \/ (c.kind = "archive" /\ c.id = id),
           d.kind \in {"fetch", "create"} =>
               \A id \in DOMAIN d.list : id \in DOMAIN c.list \/ ~Away(id),
           d.kind \in {"restore", "create"} /\ d.phase = "ok" => ~Away(c.id)',
           Projects!NoOpenTaskArchived'
    PROVE  ProjectsInv'
<1>1. \A e : e \in p10' <=> (e \in p10 /\ e # c) \/ e = d
  OBVIOUS
<1>2. Projects!About(d) = Projects!About(c)
  BY DEF Projects!About
<1>3. \A id : Clean(id)' <=> Clean(id)
  BY DEF Clean
<1>4. \A id : Away(id)' => Away(id) \/ (c.kind = "archive" /\ c.id = id)
  BY DEF Away
<1>5. ProjectCalls'
  BY <1>1 DEF ProjectsInv, ProjectCalls
<1>6. Alone'
  BY <1>1, <1>2, <1>3 DEF ProjectsInv, Alone
<1>7. \A id \in ProjectIds, e \in p10 :
         Clean(id) /\ c.kind = "archive" /\ c.id = id /\ id \in Projects!About(e) => e = c
  BY DEF ProjectsInv, Alone, Projects!About, Projects!Whole
<1>8. Lists'
  <2> SUFFICES ASSUME NEW e \in p10', NEW id \in ProjectIds, Clean(id), e.kind \in {"fetch", "create"},
                      id \in DOMAIN e.list, Away(id)'
               PROVE  FALSE
    BY <1>3 DEF Lists
  <2>1. CASE e \in p10 /\ e # c
    <3>1. ~Away(id) /\ id \in Projects!About(e)
      BY <2>1 DEF ProjectsInv, Lists, Projects!About, Projects!Whole
    <3> QED
      BY <2>1, <3>1, <1>4, <1>7
  <2>2. CASE e = d
    BY <2>2, <1>4 DEF ProjectsInv, Lists
  <2> QED
    BY <1>1, <2>1, <2>2
<1>9. Adding'
  <2> SUFFICES ASSUME NEW e \in p10', e.id \in ProjectIds, Clean(e.id), Away(e.id)',
                      e.kind = "task" \/ (e.kind \in {"restore", "create"} /\ e.phase = "ok")
               PROVE  FALSE
    BY <1>3 DEF Adding
  <2>1. CASE e \in p10 /\ e # c
    <3>1. ~Away(e.id) /\ e.id \in Projects!About(e)
      BY <2>1 DEF ProjectsInv, Adding, Projects!About, Projects!Whole
    <3> QED
      BY <2>1, <3>1, <1>4, <1>7
  <2>2. CASE e = d
    BY <2>2, <1>4 DEF ProjectsInv, Adding
  <2> QED
    BY <1>1, <2>1, <2>2
<1>10. ShownAway'
  BY <1>1, <1>3, <1>4 DEF ProjectsInv, ShownAway
<1> QED
  BY <1>5, <1>6, <1>8, <1>9, <1>10 DEF ProjectsInv

LEMMA ProjectsServerStep ==
    ASSUME ProjectsInv, NEW c \in p10, Projects!Serve(c) \/ Projects!Refuse(c) \/ Projects!ServeRead(c)
    PROVE  ProjectsInv'
<1>1. CASE Projects!Serve(c)
  <2> DEFINE d == [c EXCEPT !.phase = "ok",
                            !.order = IF c.kind \in {"rename", "restore"} THEN Projects!Written(c)[c.id].order
                                      ELSE c.order]
  <2>1. ProjectCall(c)
    BY DEF ProjectsInv, ProjectCalls
  <2>2. ProjectCall(d) /\ d.kind = c.kind /\ d.id = c.id /\ d.list = c.list /\ d.phase = "ok"
    BY <2>1 DEF ProjectCall
  <2>3. /\ p10' = (p10 \ {c}) \cup {d} /\ UNCHANGED <<p3, p9, doubt>>
        /\ c.kind \notin Projects!Reads /\ ~Projects!Refused(c) /\ p2' = Projects!Written(c)
    BY <1>1, Zenon DEF Projects!Serve, Projects!Reply
  <2> HIDE DEF d
  <2>4. \A id \in DOMAIN p2' : p2'[id].archived => Away(id) \/ (c.kind = "archive" /\ c.id = id)
    BY <1>1, ProjectWritten DEF Away
  <2>5. d.kind \in {"restore", "create"} => ~Away(c.id)'
    BY <1>1, <2>2, ProjectWritten DEF Away
  <2>6. Projects!NoOpenTaskArchived'
    <3> SUFFICES ASSUME NEW id \in DOMAIN p2', p2'[id].archived, p2'[id].pending PROVE ~Clean(id)
      BY <2>3 DEF Projects!NoOpenTaskArchived, Clean
    <3>1. CASE id # c.id
      BY <3>1, <1>1, ProjectWritten DEF ProjectsInv, Projects!NoOpenTaskArchived, Clean
    <3>2. CASE id = c.id /\ c.kind = "archive"
      BY <3>2, <1>1, ProjectWritten
    <3>3. CASE id = c.id /\ c.kind # "archive"
      <4>1. Away(id) /\ (c.kind = "task" \/ p2[id].pending)
        BY <3>3, <1>1, ProjectWritten
      <4> QED
        BY <3>3, <4>1 DEF ProjectsInv, Adding, ProjectRows, Away, Projects!NoOpenTaskArchived, Clean
    <3> QED
      BY <3>1, <3>2, <3>3
  <2>7. ProjectRows'
    BY <1>1, ProjectWritten
  <2> QED
    BY <2>2, <2>3, <2>4, <2>5, <2>6, <2>7, ProjectsServed
<1>2. CASE Projects!Refuse(c)
  <2> DEFINE d == [c EXCEPT !.phase = "refused", !.order = c.order]
  <2>1. ProjectCall(c)
    BY DEF ProjectsInv, ProjectCalls
  <2>2. ProjectCall(d) /\ d.kind = c.kind /\ d.id = c.id /\ d.list = c.list /\ d.phase = "refused"
    BY <2>1 DEF ProjectCall
  <2>3. p10' = (p10 \ {c}) \cup {d} /\ UNCHANGED <<p2, p3, p9, doubt>>
    BY <1>2 DEF Projects!Refuse, Projects!Reply
  <2> HIDE DEF d
  <2> QED
    BY <2>2, <2>3, ProjectsServed DEF ProjectsInv, ProjectRows, Projects!NoOpenTaskArchived, Away
<1>3. CASE Projects!ServeRead(c)
  <2>1. ProjectCall(c)
    BY DEF ProjectsInv, ProjectCalls
  <2>2. PICK d \in Projects!Found(c) : p10' = (p10 \ {c}) \cup {d}
    BY <1>3 DEF Projects!ServeRead
  <2>4. UNCHANGED <<p2, p3, p9, doubt>> /\ c.kind \in Projects!Reads
    BY <1>3 DEF Projects!ServeRead
  <2>3. /\ ProjectCall(d) /\ d.kind = c.kind /\ d.id = c.id
        /\ d.list = c.list \/ d.list = Projects!Orders(p2)
    <3>1. CASE c.kind \in {"archived", "tasks"}
      BY <2>1, <3>1 DEF Projects!Found, ProjectCall
    <3>2. CASE c.kind = "fetch"
      BY <2>1, <3>2 DEF Projects!Found, ProjectCall
    <3> QED
      BY <2>4, <3>1, <3>2 DEF Projects!Reads
  <2>5. \A id \in DOMAIN Projects!Orders(p2) : ~Away(id)
    BY DEF Projects!Orders, Projects!Live, Away
  <2> QED
    BY <2>2, <2>3, <2>4, <2>5, ProjectsServed
       DEF ProjectsInv, ProjectRows, Projects!NoOpenTaskArchived, Away, Projects!Reads
<1> QED
  BY <1>1, <1>2, <1>3

\* An answer that sends no call.
LEMMA ProjectsEnded ==
    ASSUME ProjectsInv, p10' \subseteq p10, UNCHANGED p2, doubt \subseteq doubt', ShownAway'
    PROVE  ProjectsInv'
<1>1. (\A id : Clean(id)' => Clean(id)) /\ (\A id : Away(id)' <=> Away(id))
  BY DEF Clean, Away
<1>2. ProjectRows' /\ ProjectCalls' /\ Alone'
  BY <1>1 DEF ProjectsInv, ProjectRows, ProjectCalls, Alone
<1>3. Lists' /\ Adding'
  BY <1>1 DEF ProjectsInv, Lists, Adding
<1>4. Projects!NoOpenTaskArchived'
  BY DEF ProjectsInv, Projects!NoOpenTaskArchived
<1> QED
  BY <1>2, <1>3, <1>4 DEF ProjectsInv

LEMMA ProjectsAnswer ==
    ASSUME ProjectsInv, NEW c \in p10, Projects!Answer(c)
    PROVE  ProjectsInv'
<1> USE DEF Projects!Done
<1>a. UNCHANGED p2 => \A id : Away(id)' <=> Away(id)
  BY DEF Away
<1>b. doubt \subseteq doubt' => \A id : Clean(id)' => Clean(id)
  BY DEF Clean
<1>1. CASE \/ Projects!OrderAnswered(c) \/ Projects!StrayEnds(c) \/ Projects!TaskAnswered(c)
           \/ Projects!TasksAnswered(c) \/ Projects!ArchivedAnswered(c) \/ Projects!RenameAnswered(c)
  <2>1. p10' = p10 \ {c} /\ UNCHANGED <<p2, p9, doubt>> /\ c.kind \notin {"fetch", "archive"}
    BY <1>1 DEF Projects!OrderAnswered, Projects!StrayEnds, Projects!TaskAnswered, Projects!TasksAnswered,
       Projects!ArchivedAnswered, Projects!RenameAnswered
  <2>2. DOMAIN p3' = DOMAIN p3
    BY <1>1 DEF Projects!OrderAnswered, Projects!StrayEnds, Projects!TaskAnswered, Projects!TasksAnswered,
       Projects!ArchivedAnswered, Projects!RenameAnswered, Projects!Set, Projects!Put
  <2>3. ShownAway'
    BY <1>a, <1>b, <2>1, <2>2 DEF ProjectsInv, ShownAway
  <2> QED
    BY <2>1, <2>3, ProjectsEnded
<1>2. CASE Projects!CallFails(c)
  <2>1. /\ p10' = p10 \ {c} /\ UNCHANGED <<p2, p3, p9>> /\ c.kind # "fetch"
        /\ doubt' = doubt \cup {<<c.id, c.kind>>}
    BY <1>2 DEF Projects!CallFails
  <2>2. c.kind = "archive" => ~Clean(c.id)'
    BY <2>1 DEF Clean
  <2>3. ShownAway'
    BY <1>a, <1>b, <2>1, <2>2 DEF ProjectsInv, ShownAway
  <2> QED
    BY <2>1, <2>3, ProjectsEnded
<1>3. CASE Projects!FetchFails(c)
  <2>1. p10' = p10 \ {c} /\ UNCHANGED <<p2, doubt>> /\ p9' = TRUE
    BY <1>3 DEF Projects!FetchFails
  <2>2. ShownAway'
    BY <2>1 DEF ShownAway
  <2> QED
    BY <2>1, <2>2, ProjectsEnded
<1>4. CASE Projects!FetchAnswered(c)
  <2>1. p10' = p10 \ {c} /\ UNCHANGED <<p2, doubt>> /\ p3' = c.list /\ c.kind = "fetch"
    BY <1>4 DEF Projects!FetchAnswered
  <2>2. ShownAway'
    BY <1>a, <1>b, <2>1 DEF ProjectsInv, Lists, ShownAway
  <2> QED
    BY <2>1, <2>2, ProjectsEnded
<1>5. CASE Projects!CreateAnswered(c)
  <2>1. /\ p10' = p10 \ {c} /\ UNCHANGED <<p2, doubt>> /\ c.kind = "create" /\ c.phase = "ok"
        /\ p3' = Projects!Put(c.list, c.id, c.order)
    BY <1>5 DEF Projects!CreateAnswered
  <2>2. DOMAIN p3' = DOMAIN c.list \cup {c.id}
    BY <2>1 DEF Projects!Put
  <2>3. ShownAway'
    BY <1>a, <1>b, <2>1, <2>2 DEF ProjectsInv, Lists, Adding, ShownAway
  <2> QED
    BY <2>1, <2>3, ProjectsEnded
<1>6. CASE Projects!GoneAnswered(c)
  <2>1. /\ p10' = p10 \ {c} /\ UNCHANGED <<p2, p9>> /\ doubt \subseteq doubt' /\ c.kind \in {"archive", "delete"}
        /\ p3' = Projects!Drop(p3, c.id)
    BY <1>6 DEF Projects!GoneAnswered
  <2>2. DOMAIN p3' = DOMAIN p3 \ {c.id}
    BY <2>1 DEF Projects!Drop, Projects!Restrict
  <2>3. ShownAway'
    BY <1>a, <1>b, <2>1, <2>2 DEF ProjectsInv, ShownAway
  <2> QED
    BY <2>1, <2>3, ProjectsEnded
<1>7. CASE Projects!OrderFails(c)
  <2> DEFINE Stray(d) == [d EXCEPT !.kind = IF d.kind = "order" THEN "stray" ELSE d.kind]
             new == Projects!Call("fetch", Projects!None, 0, <<>>)
  <2>1. /\ p10' = {Stray(d) : d \in p10 \ {c}} \cup {new} /\ UNCHANGED <<p2, p9>>
        /\ doubt' = doubt \cup ((UNION {Projects!About(d) : d \in p10 \ {c}}) \X {"crossed"})
    BY <1>7 DEF Projects!OrderFails
  <2>2. ProjectCall(new) /\ new.kind = "fetch" /\ new.list = <<>>
    BY ProjectNew
  <2>3. ASSUME NEW d \in p10
        PROVE  /\ ProjectCall(Stray(d)) /\ Stray(d).kind = IF d.kind = "order" THEN "stray" ELSE d.kind
               /\ Stray(d).id = d.id
    BY DEF ProjectsInv, ProjectCalls, ProjectCall
  <2> HIDE DEF Stray, new
  <2>4. ASSUME NEW e \in p10', e # new, NEW id \in Projects!About(e) PROVE ~Clean(id)'
    <3>1. PICK d \in p10 \ {c} : e = Stray(d)
      BY <2>1, <2>4
    <3>2. id \in Projects!About(d)
      BY <2>3, <2>4, <3>1 DEF Projects!About, Projects!Whole
    <3> QED
      BY <2>1, <3>1, <3>2 DEF Clean
  <2>5. ProjectRows' /\ ProjectCalls'
    BY <2>1, <2>2, <2>3 DEF ProjectsInv, ProjectRows, ProjectCalls
  <2>6. Alone'
    BY <2>4 DEF Alone
  <2>7. Lists'
    BY <2>2, <2>4 DEF Lists, Projects!About, Projects!Whole
  <2>8. Adding'
    BY <2>2, <2>4 DEF Adding, Projects!About, Projects!Whole
  <2>9. ShownAway'
    BY <2>1, <2>2 DEF ShownAway
  <2>10. Projects!NoOpenTaskArchived'
    BY <2>1 DEF ProjectsInv, Projects!NoOpenTaskArchived
  <2> QED
    BY <2>5, <2>6, <2>7, <2>8, <2>9, <2>10 DEF ProjectsInv
<1>8. CASE Projects!RestoreAnswered(c)
  <2> DEFINE new == Projects!Call("tasks", c.id, 0, <<>>)
  <2>1. /\ p10' = (p10 \ {c}) \cup {new} /\ UNCHANGED <<p2, p9, doubt>>
        /\ c.kind = "restore" /\ c.phase = "ok" /\ p3' = Projects!Put(p3, c.id, c.order)
    BY <1>8 DEF Projects!RestoreAnswered
  <2>2. ProjectCall(new) /\ new.kind = "tasks" /\ new.id = c.id
    BY ProjectNew
  <2> HIDE DEF new
  <2>3. Projects!About(new) = Projects!About(c)
    BY <2>1, <2>2 DEF Projects!About, Projects!Whole
  <2>4. DOMAIN p3' = DOMAIN p3 \cup {c.id}
    BY <2>1 DEF Projects!Put
  <2>5. ProjectRows' /\ ProjectCalls'
    BY <2>1, <2>2 DEF ProjectsInv, ProjectRows, ProjectCalls
  <2>6. Alone'
    BY <1>b, <2>1, <2>3 DEF ProjectsInv, Alone
  <2>7. Lists' /\ Adding'
    BY <1>a, <1>b, <2>1, <2>2 DEF ProjectsInv, Lists, Adding
  <2>8. ShownAway'
    BY <1>a, <1>b, <2>1, <2>2, <2>4 DEF ProjectsInv, Adding, ShownAway
  <2>9. Projects!NoOpenTaskArchived'
    BY <2>1 DEF ProjectsInv, Projects!NoOpenTaskArchived
  <2> QED
    BY <2>5, <2>6, <2>7, <2>8, <2>9 DEF ProjectsInv
<1> QED
  BY <1>1, <1>2, <1>3, <1>4, <1>5, <1>6, <1>7, <1>8, Zenon DEF Projects!Answer

LEMMA ProjectsStep == ProjectsInv /\ Projects!Next => ProjectsInv'
  BY ProjectsUser, ProjectsServerStep, ProjectsAnswer, Zenon DEF Projects!Next, Projects!CallMoves

-----------------------------------------------------------------------------
(* The gate: what the browser knows of the session.                        *)

GateCall(c) == c \in [slot : {c.slot}, kind : {c.kind}, token : {c.token}, status : {c.status},
                       session : {c.session}]

\* One read of the session at a time, unless the page may be wrong.
OneRead == ~doubt => \A c, d \in p7 : c.kind = "session" /\ d.kind = "session" => c = d

\* Unless a sign-in or sign-out was served and not answered, what reads the
\* session will find it, and without such a read the page knows it.
Known ==
    ~doubt /\ (\A c \in p7 : c.kind \in {"login", "logout"} => c.status # "ok") =>
        /\ \A c \in p7 : c.kind = "session" => c.status = "sent" \/ c.session = p1
        /\ (\A c \in p7 : c.kind # "session") => p4 = (p1 # Gate!None) /\ p6 = p1 /\ p5 = FALSE

GateInv ==
    /\ \A c \in p7 : GateCall(c) /\ (c.kind = "session" => c.status \in {"sent", "ok"})
    /\ OneRead /\ Known
    /\ p4 \in BOOLEAN
    /\ p5 = FALSE => p3 = Gate!Landed(p3, p4)
    /\ p3 \in Gate!Paths

LEMMA GateNew ==
    ASSUME NEW kind, NEW cs
    PROVE  LET c == Gate!Call(kind, cs) IN
           GateCall(c) /\ c.kind = kind /\ c.status = "sent"
  BY DEF GateCall, Gate!Call

LEMMA LandedLands ==
    ASSUME NEW p \in Gate!Paths, NEW b \in BOOLEAN
    PROVE  Gate!Landed(p, b) \in Gate!Paths /\ Gate!Landed(Gate!Landed(p, b), b) = Gate!Landed(p, b)
  BY DEF Gate!Landed, Gate!Paths

LEMMA GateStarts == Gate!Init => GateInv
<1> SUFFICES ASSUME Gate!Init PROVE GateInv
  OBVIOUS
<1>1. /\ p7 = {Gate!Call("session", {})} /\ p5 = TRUE /\ p4 = FALSE
      /\ \E p \in Gate!Paths : p3 = Gate!Landed(p, p1 # Gate!None)
  BY DEF Gate!Init, Gate!Sent
<1>2. p3 \in Gate!Paths
  BY <1>1, LandedLands
<1> DEFINE c == Gate!Call("session", {})
<1>3. GateCall(c) /\ c.kind = "session" /\ c.status = "sent"
  BY GateNew
<1>4. p7 = {c}
  BY <1>1
<1> HIDE DEF c
<1> QED
  BY <1>1, <1>2, <1>3, <1>4 DEF GateInv, OneRead, Known

\* Showing a path reads at most what the page shows.
LEMMA Shows ==
    ASSUME NEW p \in Gate!Paths, NEW b \in BOOLEAN, NEW again, NEW cs, Gate!Show(p, b, again, cs)
    PROVE  /\ p3' \in Gate!Paths /\ p3' = Gate!Landed(p3', b)
           /\ p7' = cs \/ \E c : p7' = cs \cup {c} /\ GateCall(c) /\ c.kind = "read" /\ c.status = "sent"
<1>1. p3' = Gate!Landed(p, b) /\ (p7' = cs \/ p7' = cs \cup {Gate!Call("read", cs)})
  BY DEF Gate!Show, Gate!Sent
<1> QED
  BY <1>1, GateNew, LandedLands

\* A call that is neither the session's nor a sign-in nor a sign-out matters not.
LEMMA GateIdles ==
    ASSUME GateInv, UNCHANGED <<p1, p4, p5, p6, doubt>>, p3' \in Gate!Paths,
           p5 = FALSE => p3' = Gate!Landed(p3', p4),
           \A c \in p7' : c \in p7 \/ (GateCall(c) /\ c.kind # "session" /\ c.status # "ok"),
           \A c \in p7 : c \in p7' \/ (c.kind # "session" /\ (c.kind \in {"login", "logout"} => c.status # "ok"))
    PROVE  GateInv'
  BY DEF GateInv, OneRead, Known

LEMMA GateUser == GateInv /\ (Gate!UserActs \/ Gate!NavTimer) => GateInv'
<1> SUFFICES ASSUME GateInv, Gate!UserActs \/ Gate!NavTimer PROVE GateInv'
  OBVIOUS
<1>1. ASSUME NEW kind \in {"login", "logout", "write", "read"}, Gate!Send(kind) PROVE GateInv'
  <2>1. p7' = p7 \cup {Gate!Call(kind, p7)} /\ UNCHANGED <<p1, p3, p4, p5, p6, doubt>>
    BY <1>1 DEF Gate!Send, Gate!Sent
  <2>2. GateCall(Gate!Call(kind, p7)) /\ Gate!Call(kind, p7).kind = kind /\ Gate!Call(kind, p7).status = "sent"
    BY GateNew
  <2>3. p3' \in Gate!Paths /\ (p5 = FALSE => p3' = Gate!Landed(p3', p4))
    BY <2>1 DEF GateInv
  <2> QED
    BY <2>1, <2>2, <2>3, GateIdles
<1>2. ASSUME NEW p \in Gate!Paths, Gate!Reload(p) PROVE GateInv'
  <2>1. /\ p7' = {Gate!Call("session", {})} /\ p5' = TRUE /\ p4' = FALSE
        /\ p3' = Gate!Landed(p, p1 # Gate!None)
    BY <1>2 DEF Gate!Reload, Gate!Sent
  <2>2. LET c == Gate!Call("session", {}) IN GateCall(c) /\ c.kind = "session" /\ c.status = "sent"
    BY GateNew
  <2>3. p3' \in Gate!Paths
    BY <2>1, LandedLands
  <2> QED
    BY <2>1, <2>2, <2>3 DEF GateInv, OneRead, Known
<1>3. ASSUME Gate!EndElsewhere \/ Gate!SignInElsewhere PROVE GateInv'
  BY <1>3 DEF Gate!EndElsewhere, Gate!SignInElsewhere, GateInv, OneRead, Known
<1> QED
  BY <1>1, <1>2, <1>3 DEF Gate!UserActs, Gate!NavTimer, Gate!SignIn, Gate!Logout, Gate!Change

LEMMA GateServes == ASSUME GateInv, NEW c \in p7, Gate!Serve(c) PROVE GateInv'
<1> DEFINE Served(status, s) == [c EXCEPT !.status = status, !.session = s]
           Answers(status, s) ==
               \/ c.kind = "session" /\ status = "ok" /\ s = p1 /\ UNCHANGED p1
               \/ c.kind \in {"login", "logout"} /\ status = "ok"
               \/ c.kind # "session" /\ status \in {"401", "403"} /\ UNCHANGED p1
               \/ c.kind \in {"read", "write"} /\ status = "ok" /\ UNCHANGED p1
<1>1. \E status, s : p7' = (p7 \ {c}) \cup {Served(status, s)} /\ Answers(status, s)
  BY DEF Gate!Serve, Gate!Answered
<1>2. PICK status, s : p7' = (p7 \ {c}) \cup {Served(status, s)} /\ Answers(status, s)
  BY <1>1, Zenon
<1> DEFINE d == Served(status, s)
<1>3. GateCall(d) /\ d.kind = c.kind /\ d.status = status /\ d.session = s
  BY DEF GateInv, GateCall
<1>4. UNCHANGED <<p3, p4, p5, p6, doubt>> /\ c.status = "sent"
  BY DEF Gate!Serve
<1>5. p7' = (p7 \ {c}) \cup {d} /\ Answers(status, s)
  BY <1>2
<1> HIDE DEF d, Served
<1>6. OneRead'
  BY <1>3, <1>4, <1>5 DEF GateInv, OneRead
<1>7. Known'
  BY <1>3, <1>4, <1>5 DEF GateInv, OneRead, Known
<1> QED
  BY <1>3, <1>4, <1>5, <1>6, <1>7 DEF GateInv

LEMMA GateAnswers == ASSUME GateInv, NEW c \in p7, Gate!Answer(c) \/ Gate!Lost(c) PROVE GateInv'
<1>1. CASE Gate!SessionAnswered(c)
  <2>1. /\ c.kind = "session" /\ c.status = "ok" /\ UNCHANGED <<p1, doubt>>
        /\ p4' = (c.session # Gate!None) /\ p5' = FALSE /\ p6' = c.session
        /\ Gate!Show(p3, c.session # Gate!None, FALSE, p7 \ {c})
    BY <1>1 DEF Gate!SessionAnswered, Gate!SessionKnown
  <2>2. /\ p3' \in Gate!Paths /\ p3' = Gate!Landed(p3', p4')
        /\ p7' = p7 \ {c} \/ \E e : p7' = (p7 \ {c}) \cup {e} /\ GateCall(e) /\ e.kind = "read" /\ e.status = "sent"
    <3>1. p3' = Gate!Landed(p3, p4') /\ p4' \in BOOLEAN /\ p3 \in Gate!Paths
      BY <2>1 DEF Gate!Show, GateInv
    <3>2. p7' = p7 \ {c} \/ p7' = (p7 \ {c}) \cup {Gate!Call("read", p7 \ {c})}
      BY <2>1 DEF Gate!Show, Gate!Sent
    <3> QED
      BY <3>1, <3>2, GateNew, LandedLands
  <2>3. OneRead'
    BY <2>1, <2>2 DEF GateInv, OneRead
  <2>4. Known'
    BY <2>1, <2>2 DEF GateInv, OneRead, Known
  <2> QED
    BY <2>1, <2>2, <2>3, <2>4 DEF GateInv
<1>2. ASSUME NEW p \in {"page", "login"}, Gate!AuthChanged(c, p) PROVE GateInv'
  <2> DEFINE left == p7 \ {c}
             new  == Gate!Call("session", left)
  <2>1. /\ Gate!Show(p, p4, p # p3, left \cup {new}) /\ UNCHANGED <<p1, p4, p5>>
        /\ doubt' = (doubt \/ \E o \in left : o.kind = "session")
    BY <1>2 DEF Gate!AuthChanged, Gate!Sent
  <2>2. GateCall(new) /\ new.kind = "session" /\ new.status = "sent"
    BY GateNew
  <2> HIDE DEF new
  <2>3. /\ p3' \in Gate!Paths /\ p3' = Gate!Landed(p3', p4)
        /\ \/ p7' = left \cup {new}
           \/ \E e : p7' = (left \cup {new}) \cup {e} /\ GateCall(e) /\ e.kind = "read" /\ e.status = "sent"
    <3>1. p \in Gate!Paths /\ p4 \in BOOLEAN
      BY DEF GateInv, Gate!Paths
    <3> HIDE DEF left
    <3> QED
      BY <2>1, <3>1, Shows
  <2>4. \A e \in p7' : e \in left \/ e = new \/ (GateCall(e) /\ e.kind = "read" /\ e.status = "sent")
    BY <2>3
  <2>5. new \in p7'
    BY <2>3
  <2>6. OneRead' /\ Known'
    BY <2>1, <2>2, <2>4, <2>5 DEF OneRead, Known
  <2> QED
    BY <2>1, <2>2, <2>3, <2>4, <2>6 DEF GateInv
<1>3. CASE Gate!LoginAnswered(c) \/ Gate!LogoutAnswered(c)
  BY <1>2, <1>3 DEF Gate!LoginAnswered, Gate!LogoutAnswered
<1>4. CASE Gate!OtherAnswered(c)
  <2>1. /\ UNCHANGED <<p1, p4, p5, p6, doubt>>
        /\ \/ p7' = p7 \ {c} /\ UNCHANGED p3
           \/ Gate!Show("login", p4, TRUE, p7 \ {c})
        /\ c.status \in {"401", "403"} \/ (c.status = "ok" /\ c.kind \in {"read", "write"})
    BY <1>4 DEF Gate!OtherAnswered, Gate!Unauthenticated, Gate!Stay
  <2>2. /\ p3' \in Gate!Paths /\ (p5 = FALSE => p3' = Gate!Landed(p3', p4))
        /\ p7' = p7 \ {c} \/ \E e : p7' = (p7 \ {c}) \cup {e} /\ GateCall(e) /\ e.kind = "read" /\ e.status = "sent"
    <3>1. "login" \in Gate!Paths
      BY DEF Gate!Paths
    <3>2. ASSUME NEW p \in Gate!Paths, NEW b \in BOOLEAN, NEW again, Gate!Show(p, b, again, p7 \ {c})
          PROVE  /\ p3' \in Gate!Paths /\ p3' = Gate!Landed(p3', b)
                 /\ p7' = p7 \ {c} \/ \E e : p7' = (p7 \ {c}) \cup {e} /\ GateCall(e) /\ e.kind = "read" /\ e.status = "sent"
      BY <3>2, Shows
    <3>3. CASE p7' = p7 \ {c} /\ UNCHANGED p3
      BY <2>1, <3>3 DEF GateInv
    <3> QED
      BY <2>1, <3>1, <3>2, <3>3 DEF GateInv
  <2>3. c.kind # "session" /\ (c.kind \in {"login", "logout"} => c.status # "ok")
    BY <2>1 DEF GateInv
  <2> QED
    BY <2>1, <2>2, <2>3, GateIdles
<1>5. CASE Gate!Lost(c)
  <2>1. CASE c.kind = "session"
    <3>1. /\ doubt' = TRUE /\ p4' = FALSE /\ p5' = FALSE /\ Gate!Show(p3, FALSE, FALSE, p7 \ {c})
      BY <1>5, <2>1 DEF Gate!Lost, Gate!SessionKnown
    <3>2. /\ p3' \in Gate!Paths /\ p3' = Gate!Landed(p3', p4')
          /\ p7' = p7 \ {c} \/ \E e : p7' = (p7 \ {c}) \cup {e} /\ GateCall(e) /\ e.kind = "read" /\ e.status = "sent"
      BY <3>1, Shows DEF GateInv
    <3> QED
      BY <3>1, <3>2 DEF GateInv, OneRead, Known
  <2>2. CASE c.kind # "session"
    <3>1. /\ p7' = p7 \ {c} /\ UNCHANGED <<p1, p3, p4, p5, p6>>
          /\ doubt' = (doubt \/ c.kind \in {"session", "login", "logout"})
      BY <1>5, <2>2 DEF Gate!Lost, Gate!Stay
    <3> QED
      BY <2>2, <3>1 DEF GateInv, OneRead, Known
  <2> QED
    BY <2>1, <2>2
<1> QED
  BY <1>1, <1>3, <1>4, <1>5 DEF Gate!Answer

LEMMA GateStep == GateInv /\ Gate!Next => GateInv'
  BY GateUser, GateServes, GateAnswers, Zenon DEF Gate!Next, Gate!Moves

LEMMA GateSettles == GateInv => Gate!AuthSettles
<1> SUFFICES ASSUME GateInv, ~doubt, \A c \in p7 : c.kind \in {"read", "write"}
             PROVE  p4 = (p1 # Gate!None) /\ p6 = p1 /\ p3 = Gate!Landed(p3, p1 # Gate!None)
  BY DEF Gate!AuthSettles
<1>1. p4 = (p1 # Gate!None) /\ p6 = p1 /\ p5 = FALSE
  BY DEF GateInv, Known
<1> QED
  BY <1>1 DEF GateInv

-----------------------------------------------------------------------------
(* The gate: what it keeps.                                                *)

GateCalls == [slot : 1..MaxShellCalls, kind : Gate!Kinds, token : Nat,
              status : {"sent", "ok", "401", "403"}, session : Nat]

\* Calls on their way have slots of their own.
Slotted(cs) == cs \subseteq GateCalls /\ \A c, d \in cs : c.slot = d.slot => c = d

GateTyped ==
    /\ p1 \in Nat /\ p2 \in Nat /\ p6 \in Nat /\ acts \in Nat /\ faults \in Nat
    /\ p5 \in BOOLEAN /\ doubt \in BOOLEAN
    /\ Slotted(p7)

LEMMA GateIsTyped == GateInv /\ GateTyped => Gate!TypeOK
  BY DEF GateInv, GateTyped, Slotted, GateCalls, Gate!TypeOK

LEMMA SlotTaken ==
    ASSUME p6 \in Nat, NEW kind \in Gate!Kinds, NEW cs, Slotted(cs), Gate!FreeSlots(cs) # {}
    PROVE  Slotted(Gate!Sent(kind, cs))
<1> DEFINE c == Gate!Call(kind, cs)
<1>1. c.slot \in Gate!FreeSlots(cs)
  BY DEF Gate!Call
<1>2. c \in GateCalls
  BY <1>1 DEF Gate!Call, GateCalls, Gate!FreeSlots, Gate!None
<1>3. \A d \in cs : d.slot # c.slot
  BY <1>1 DEF Gate!FreeSlots
<1>4. Gate!Sent(kind, cs) = cs \cup {c}
  BY DEF Gate!Sent
<1> HIDE DEF c
<1> QED
  BY <1>2, <1>3, <1>4 DEF Slotted

LEMMA SlotFreed ==
    ASSUME NEW cs, Slotted(cs), NEW c \in cs
    PROVE  Slotted(cs \ {c}) /\ Gate!FreeSlots(cs \ {c}) # {}
<1>1. c.slot \in Gate!FreeSlots(cs \ {c})
  BY DEF Slotted, GateCalls, Gate!FreeSlots
<1> QED
  BY <1>1 DEF Slotted

LEMMA SlotFirst == Slotted({}) /\ Gate!FreeSlots({}) # {}
<1>1. 1 \in Gate!FreeSlots({})
  BY BoundsAssumption DEF Gate!FreeSlots
<1> QED
  BY <1>1 DEF Slotted

LEMMA SlotShown ==
    ASSUME p6 \in Nat, NEW p, NEW b, NEW again, NEW cs, Slotted(cs), Gate!Show(p, b, again, cs)
    PROVE  Slotted(p7')
<1>1. "read" \in Gate!Kinds
  BY DEF Gate!Kinds
<1> QED
  BY <1>1, SlotTaken DEF Gate!Show

LEMMA GateTypedStart == Gate!Init => GateTyped
<1> SUFFICES ASSUME Gate!Init PROVE GateTyped
  OBVIOUS
<1>1. p6 = 0 /\ p1 \in {0, 1} /\ p2 = 1 /\ p7 = Gate!Sent("session", {}) /\ p5 = TRUE /\ doubt = FALSE
      /\ acts = ShellActs /\ faults = ShellFaults
  BY DEF Gate!Init, Gate!None
<1>2. "session" \in Gate!Kinds
  BY DEF Gate!Kinds
<1>3. Slotted(p7)
  BY <1>1, <1>2, SlotFirst, SlotTaken
<1>4. ShellActs \in Nat /\ ShellFaults \in Nat
  BY BoundsAssumption
<1>5. p1 \in Nat /\ p2 \in Nat /\ p6 \in Nat /\ acts \in Nat /\ faults \in Nat
  BY <1>1, <1>4, SMT
<1>6. p5 \in BOOLEAN /\ doubt \in BOOLEAN
  BY <1>1, Zenon
<1> QED
  BY <1>3, <1>5, <1>6 DEF GateTyped

LEMMA GateUserTyped == GateTyped /\ (Gate!UserActs \/ Gate!NavTimer) => GateTyped'
<1> SUFFICES ASSUME GateTyped, Gate!UserActs \/ Gate!NavTimer PROVE GateTyped'
  OBVIOUS
<1>1. acts' \in Nat
  BY DEF GateTyped, Gate!UserActs, Gate!NavTimer
<1>2. ASSUME NEW kind \in {"login", "logout", "write", "read"}, Gate!Send(kind) PROVE GateTyped'
  <2>1. kind \in Gate!Kinds
    BY DEF Gate!Kinds
  <2> QED
    BY <1>1, <1>2, <2>1, SlotTaken DEF Gate!Send, Gate!Ready, GateTyped
<1>3. ASSUME NEW p \in Gate!Paths, Gate!Reload(p) PROVE GateTyped'
  <2>1. /\ p7' = Gate!Sent("session", {}) /\ p6' = 0 /\ p5' = TRUE /\ doubt' = FALSE
        /\ UNCHANGED <<p1, p2, faults>>
    BY <1>3 DEF Gate!Reload, Gate!None
  <2>2. "session" \in Gate!Kinds
    BY DEF Gate!Kinds
  <2>3. Slotted(p7')
    BY <2>1, <2>2, SlotFirst, SlotTaken DEF GateTyped
  <2> QED
    BY <1>1, <2>1, <2>3 DEF GateTyped
<1>4. ASSUME Gate!EndElsewhere \/ Gate!SignInElsewhere PROVE GateTyped'
  <2>1. doubt' = TRUE /\ p1' \in Nat /\ p2' \in Nat /\ UNCHANGED <<p5, p6, p7, faults>>
    BY <1>4 DEF Gate!EndElsewhere, Gate!SignInElsewhere, GateTyped, Gate!None
  <2> QED
    BY <1>1, <2>1 DEF GateTyped
<1> QED
  BY <1>2, <1>3, <1>4 DEF Gate!UserActs, Gate!NavTimer, Gate!SignIn, Gate!Logout, Gate!Change

LEMMA GateServesTyped == ASSUME GateTyped, NEW c \in p7, Gate!Serve(c) PROVE GateTyped'
<1> DEFINE Served(status, s) == p7' = (p7 \ {c}) \cup {[c EXCEPT !.status = status, !.session = s]}
<1>0. UNCHANGED <<p5, p6, doubt, acts, faults>> /\ \A status, s : Gate!Answered(c, status, s) => Served(status, s)
  BY DEF Gate!Serve, Gate!Answered
<1> HIDE DEF Served
<1>1. /\ p1' \in Nat /\ p2' \in Nat
      /\ \E status \in {"ok", "401", "403"}, s \in Nat : Served(status, s)
  <2>1. CASE c.kind = "session"
    BY <1>0, <2>1 DEF Gate!Serve, GateTyped
  <2>2. CASE c.kind = "login"
    BY <1>0, <2>2 DEF Gate!Serve, GateTyped, Gate!None
  <2>3. CASE c.kind \in {"logout", "read", "write"}
    BY <1>0, <2>3 DEF Gate!Serve, GateTyped, Gate!None
  <2> QED
    BY <2>1, <2>2, <2>3 DEF Gate!Serve
<1>5. PICK status \in {"ok", "401", "403"}, s \in Nat : Served(status, s)
  BY <1>1
<1> DEFINE d == [c EXCEPT !.status = status, !.session = s]
<1>2. d \in GateCalls /\ d.slot = c.slot
  BY DEF GateTyped, Slotted, GateCalls
<1>3. p7' = (p7 \ {c}) \cup {d}
  BY <1>5 DEF Served
<1> HIDE DEF d
<1>4. Slotted(p7')
  BY <1>2, <1>3 DEF GateTyped, Slotted
<1> QED
  BY <1>0, <1>1, <1>4 DEF GateTyped

LEMMA GateAnswersTyped == ASSUME GateTyped, NEW c \in p7, Gate!Answer(c) \/ Gate!Lost(c) PROVE GateTyped'
<1>a. Slotted(p7 \ {c}) /\ Gate!FreeSlots(p7 \ {c}) # {} /\ c.session \in Nat
  BY SlotFreed DEF GateTyped, Slotted, GateCalls
<1>1. ASSUME NEW s, Gate!SessionKnown(c, s), p6' \in Nat, faults' \in Nat, doubt' \in BOOLEAN,
             UNCHANGED <<p1, p2, acts>>
      PROVE  GateTyped'
  BY <1>1, <1>a, SlotShown DEF Gate!SessionKnown, GateTyped
<1>2. ASSUME Gate!Stay(c), faults' \in Nat, doubt' \in BOOLEAN, UNCHANGED <<p1, p2, p5, p6, acts>> PROVE GateTyped'
  BY <1>2, <1>a DEF Gate!Stay, GateTyped
<1>3. ASSUME NEW p, Gate!AuthChanged(c, p), p6' \in Nat PROVE GateTyped'
  <2>1. "session" \in Gate!Kinds
    BY DEF Gate!Kinds
  <2>2. Slotted(Gate!Sent("session", p7 \ {c}))
    BY <1>a, <2>1, SlotTaken DEF GateTyped
  <2>3. Gate!Show(p, p4, p # p3, Gate!Sent("session", p7 \ {c})) /\ doubt' \in BOOLEAN /\ UNCHANGED <<p1, p2, p5, acts, faults>>
    BY <1>3 DEF Gate!AuthChanged, GateTyped
  <2>4. Slotted(p7')
    BY <2>2, <2>3, SlotShown DEF GateTyped
  <2> QED
    BY <1>3, <2>3, <2>4 DEF GateTyped
<1>4. CASE Gate!SessionAnswered(c)
  BY <1>1, <1>4, <1>a DEF Gate!SessionAnswered, GateTyped
<1>5. CASE Gate!LoginAnswered(c) \/ Gate!LogoutAnswered(c)
  BY <1>3, <1>5, <1>a DEF Gate!LoginAnswered, Gate!LogoutAnswered, Gate!None
<1>6. CASE Gate!OtherAnswered(c)
  <2>1. UNCHANGED <<p1, p2, p5, p6, doubt, acts, faults>> /\ (Gate!Stay(c) \/ Gate!Show("login", p4, TRUE, p7 \ {c}))
    BY <1>6 DEF Gate!OtherAnswered, Gate!Unauthenticated
  <2>2. Slotted(p7')
    BY <1>a, <2>1, SlotShown DEF Gate!Stay, GateTyped
  <2> QED
    BY <2>1, <2>2 DEF GateTyped
<1>7. CASE Gate!Lost(c)
  <2>1. faults' \in Nat /\ doubt' \in BOOLEAN /\ UNCHANGED <<p1, p2, p6, acts>>
    BY <1>7 DEF Gate!Lost, GateTyped
  <2> QED
    BY <1>1, <1>2, <1>7, <2>1 DEF Gate!Lost, GateTyped
<1> QED
  BY <1>4, <1>5, <1>6, <1>7 DEF Gate!Answer

LEMMA GateTypedMoves == GateTyped /\ Gate!Next => GateTyped'
  BY GateUserTyped, GateServesTyped, GateAnswersTyped, Zenon DEF Gate!Next, Gate!Moves

-----------------------------------------------------------------------------
(* The settings of the wallet: what was typed, and the question.           *)

RowShaped(x) == x \in [text : {x.text}, pos : {x.pos}, orig : {x.orig}]
SettingCall(c) ==
    /\ c \in [kind : {"patch", "add", "sort", "delete"}, row : {c.row}, text : {c.text},
              pos : {c.pos}, phase : {c.phase}, stray : BOOLEAN]
    /\ c.kind \in {"patch", "add"} => c.text # "none"

Waited == {c \in p8 : c.stray = FALSE}
IsSeq(s) == \E S : s \in Seq(S)

\* Rows, calls and the save that goes on have their fields; a row on screen, or
\* sent, says something.
SettingsShaped ==
    /\ p3 \in BOOLEAN
    /\ p1 = [r \in Settings!Rows |-> p1[r]]
    /\ \A r \in Settings!Rows : p1[r] \in [text : {p1[r].text}, pos : {p1[r].pos}]
    /\ p2 = [r \in Settings!Rows |-> p2[r]]
    /\ p10 = [r \in Settings!Rows |-> p10[r]]
    /\ \A r \in Settings!Rows : RowShaped(p2[r])
    /\ \A c \in p8 : SettingCall(c)
    /\ \A l \in p9 : l.own \in BOOLEAN
    /\ p7 \in [kind : {p7.kind}, merging : {p7.merging}, todo : {p7.todo}, saved : {p7.saved}]
    /\ IsSeq(p7.todo)

SettingsSay ==
    /\ \A r \in Settings!Rows : p1[r] # Settings!Absent => p1[r].text # "none"
    /\ \A l \in p9, r \in Settings!Rows : l.seen[r] # Settings!Absent => l.seen[r].text # "none"
    /\ \A r \in Settings!Rows : p2[r] # Settings!NoRow => p2[r].text # "none"
    /\ p7.kind # "load" => \A c \in p7.saved : c.text # "none"

Todo == {p7.todo[i] : i \in DOMAIN p7.todo}

\* What a save has on its way: one call at a time, all at once if it is an order;
\* then a load of its own.
OneSave ==
    /\ p7.kind \in {"none", "load"} => Waited = {}
    /\ p7.kind # "sort" => \A c, d \in Waited : c = d
    /\ p7.kind \in {"template", "drafts"} => \A c \in Waited : c.kind = "patch"
    /\ \A c \in Todo : SettingCall(c) /\ c.kind = "patch" /\ c.stray = FALSE
    /\ p7.kind = "none" => p7 = Settings!NoSave
    /\ p7.kind \notin {"drafts", "load"} => p7.saved = {}
    /\ p7.kind # "none" => p7.merging = TRUE
    /\ \A l \in p9 : l.own = TRUE => p7.kind = "load"
    /\ \A l, m \in p9 : l.own = TRUE /\ m.own = TRUE => l = m

\* What is typed at rest is a draft; every load started since keeps it, and every
\* save sends it.
TypedIsSafe ==
    \A r \in Templates : p10[r] # "none" =>
        /\ p3 = TRUE
        /\ Settings!HasDraft(p2[r]) /\ p2[r].text = p10[r]
        /\ \A l \in p9 : l.merging = TRUE
        /\ p7.kind \in {"template", "drafts"} =>
              \A c \in Waited \cup p7.saved \cup Todo : c.row = r => c.text = p10[r]

SettingsInv == SettingsShaped /\ SettingsSay /\ OneSave /\ TypedIsSafe /\ Settings!QuestionHasDrafts

LEMMA SettingsSettle == SettingsInv => Settings!TypedIsKept /\ Settings!QuestionHasDrafts
  BY DEF SettingsInv, TypedIsSafe, Settings!TypedIsKept, Settings!None

LEMMA SettingsStart == Settings!Init => SettingsInv
<1> SUFFICES ASSUME Settings!Init PROVE SettingsInv
  OBVIOUS
<1>1. /\ p2 = [r \in Settings!Rows |-> Settings!NoRow] /\ p10 = [r \in Settings!Rows |-> "none"]
      /\ p7 = Settings!NoSave /\ p8 = {} /\ p9 = {Settings!Read(p3, FALSE)} /\ p5 = FALSE
      /\ p3 \in BOOLEAN
  BY DEF Settings!Init, Settings!None
<1>2. PICK free \in {{}} \cup {{r} : r \in Settings!Rows} :
         p1 = [r \in Settings!Rows |-> IF r \in free THEN Settings!Absent
                      ELSE [text |-> CHOOSE t \in Valid : TRUE,
                            pos |-> Settings!Cardinality({q \in Settings!ListOf(r) \ free : q <= r})]]
  BY Zenon DEF Settings!Init
<1>3. (CHOOSE t \in Valid : TRUE) # "none"
  BY TextsAssumption, ValidAssumption
<1>4. SettingsShaped
  <2>1. IsSeq(<<>>)
    BY DEF IsSeq
  <2>2. \A r \in Settings!Rows : p1[r] \in [text : {p1[r].text}, pos : {p1[r].pos}]
    BY <1>2 DEF Settings!Absent
  <2>3. p1 = [r \in Settings!Rows |-> p1[r]]
    BY <1>2
  <2> QED
    <3>1. p7 \in [kind : {p7.kind}, merging : {p7.merging}, todo : {p7.todo}, saved : {p7.saved}]
          /\ p7.todo = <<>>
      BY <1>1 DEF Settings!NoSave
    <3>2. RowShaped(Settings!NoRow)
      BY DEF RowShaped, Settings!NoRow
    <3>3. \A r \in Settings!Rows : p2[r] = Settings!NoRow
      BY <1>1
    <3>4. \A l \in p9 : l.own \in BOOLEAN
      <4>1. \A l \in p9 : l.own = FALSE
        BY <1>1 DEF Settings!Read
      <4> QED
        BY <4>1
    <3> QED
      BY <1>1, <2>1, <2>2, <2>3, <3>1, <3>2, <3>3, <3>4 DEF SettingsShaped
<1>5. SettingsSay
  <2>1. \A r \in Settings!Rows : p1[r] # Settings!Absent => p1[r].text # "none"
    BY <1>2, <1>3
  <2> QED
    BY <1>1, <2>1 DEF SettingsSay, Settings!Read, Settings!NoSave
<1>6. OneSave
  <2>1. Waited = {} /\ p7.kind = "none" /\ p7.saved = {} /\ p7.todo = <<>>
    BY <1>1 DEF Waited, Settings!NoSave, Settings!None
  <2>2. \A l \in p9 : l.own = FALSE
    BY <1>1 DEF Settings!Read
  <2>3. Todo = {}
    BY <2>1 DEF Todo
  <2> QED
    BY <1>1, <2>1, <2>2, <2>3 DEF OneSave
<1>7. TypedIsSafe /\ Settings!QuestionHasDrafts
  BY <1>1, SettingsRowsAssumption DEF TypedIsSafe, Settings!QuestionHasDrafts, Settings!Rows
<1> QED
  BY <1>4, <1>5, <1>6, <1>7 DEF SettingsInv

LEMMA TailOf ==
    ASSUME NEW s, IsSeq(s), s # <<>>
    PROVE  /\ IsSeq(Tail(s)) /\ Head(s) = s[1] /\ 1 \in DOMAIN s
           /\ \A i \in DOMAIN Tail(s) : i + 1 \in DOMAIN s /\ Tail(s)[i] = s[i + 1]
<1>1. PICK S : s \in Seq(S)
  BY DEF IsSeq
<1>2. Len(s) \in Nat /\ Len(s) > 0 /\ DOMAIN s = 1..Len(s)
  BY <1>1
<1>3. Head(s) = s[1]
  BY <1>1, <1>2
<1>4. Tail(s) \in Seq(S) /\ DOMAIN Tail(s) = 1..(Len(s) - 1)
  BY <1>1, <1>2
<1>5. \A i \in 1..(Len(s) - 1) : Tail(s)[i] = s[i + 1] /\ i + 1 \in 1..Len(s)
  BY <1>1, <1>2, <1>4
<1> QED
  BY <1>2, <1>3, <1>4, <1>5 DEF IsSeq

\* What the user does with the page, when nothing is sent.
LEMMA SettingsEdit ==
    ASSUME SettingsInv, UNCHANGED <<p1, p7, p8, p3, p9>>,
           p2' = [r \in Settings!Rows |-> p2'[r]], \A r \in Settings!Rows : RowShaped(p2'[r]),
           p10' = [r \in Settings!Rows |-> p10'[r]],
           \A r \in Settings!Rows : p2'[r] # Settings!NoRow => p2'[r].text # "none",
           \A r \in Templates : p10'[r] # "none" =>
               \/ p10'[r] = p10[r] /\ p2'[r] = p2[r]
               \/ /\ p3 = TRUE /\ Settings!HasDraft(p2'[r]) /\ p2'[r].text = p10'[r]
                  /\ p9 = {} /\ p7.kind = "none",
           Settings!QuestionHasDrafts'
    PROVE  SettingsInv'
<1>1. SettingsShaped' /\ SettingsSay'
  BY DEF SettingsInv, SettingsShaped, SettingsSay
<1>2. OneSave'
  BY DEF SettingsInv, OneSave, Waited, Todo
<1>3. TypedIsSafe'
  BY DEF SettingsInv, TypedIsSafe, Waited, Todo
<1> QED
  BY <1>1, <1>2, <1>3 DEF SettingsInv

LEMMA RowEdited ==
    ASSUME NEW x, RowShaped(x), NEW t, NEW o
    PROVE  LET y == [x EXCEPT !.text = t, !.orig = o]
           IN  RowShaped(y) /\ y.text = t /\ y.orig = o /\ y.pos = x.pos
  BY DEF RowShaped

LEMMA SettingsTyped ==
    ASSUME SettingsInv, NEW r \in Settings!Rows, NEW t \in Settings!Texts, Settings!Edit(r, t)
    PROVE  SettingsInv'
<1> DEFINE o == IF p2[r].orig = "none" THEN p2[r].text ELSE p2[r].orig
           y == [p2[r] EXCEPT !.text = t, !.orig = o]
<1>1. /\ p2' = [p2 EXCEPT ![r].text = t, ![r].orig = IF @ = "none" THEN p2[r].text ELSE @]
      /\ p2[r] # Settings!NoRow /\ p3 /\ ~p5' /\ UNCHANGED <<p1, p3, p7, p8, p9>>
      /\ p10' = IF r \in PlainRows THEN p10
                ELSE [p10 EXCEPT ![r] = IF Settings!AtRest /\ t # p2'[r].orig THEN t ELSE "none"]
  BY DEF Settings!Edit, Settings!None, Settings!Shown, Settings!CanEdit
<1>2. t # "none"
  BY TextsAssumption DEF Settings!Texts
<1>3. /\ p2 = [q \in Settings!Rows |-> p2[q]] /\ RowShaped(p2[r])
      /\ \A q \in Settings!Rows : RowShaped(p2[q]) /\ (p2[q] # Settings!NoRow => p2[q].text # "none")
      /\ p10 = [q \in Settings!Rows |-> p10[q]] /\ p3 = TRUE
  BY <1>1 DEF SettingsInv, SettingsShaped, SettingsSay
<1>4. RowShaped(y) /\ y.text = t /\ y.orig = o
  BY <1>3 DEF RowShaped
<1>5. p2' = [q \in Settings!Rows |-> IF q = r THEN y ELSE p2[q]]
  BY <1>1, <1>3 DEF RowShaped
<1>6. p2[r].text # "none" /\ o # "none"
  BY <1>1, <1>3
<1> HIDE DEF y, o
<1>7. \A q \in Templates : p10'[q] # "none" =>
               \/ p10'[q] = p10[q] /\ p2'[q] = p2[q]
               \/ /\ p3 = TRUE /\ Settings!HasDraft(p2'[q]) /\ p2'[q].text = p10'[q]
                  /\ p9 = {} /\ p7.kind = "none"
  <2>1. Settings!AtRest => p9 = {} /\ p7.kind = "none"
    BY DEF Settings!AtRest, Settings!Idle, Settings!NoSave, Settings!None
  <2>2. p2'[r] = y /\ \A q \in Settings!Rows : q # r => p2'[q] = p2[q]
    BY <1>5
  <2>3. \A q \in Settings!Rows : q # r => p10'[q] = p10[q]
    BY <1>1, <1>3
  <2>4. r \in Templates => p10'[r] = IF Settings!AtRest /\ t # p2'[r].orig THEN t ELSE "none"
    BY <1>1, <1>3, SettingsRowsAssumption
  <2>5. ASSUME r \in Templates, p10'[r] # "none" PROVE p3 = TRUE /\ Settings!HasDraft(p2'[r]) /\ p2'[r].text = p10'[r] /\ p9 = {} /\ p7.kind = "none"
    BY <2>5, <2>1, <2>2, <2>4, <1>3, <1>4, <1>6 DEF Settings!HasDraft, Settings!None
  <2> QED
    BY <2>2, <2>3, <2>5 DEF Settings!Rows
<1>8. p10' = [q \in Settings!Rows |-> p10'[q]]
  BY <1>1, <1>3
<1>9. /\ p2' = [q \in Settings!Rows |-> p2'[q]] /\ \A q \in Settings!Rows : RowShaped(p2'[q])
      /\ \A q \in Settings!Rows : p2'[q] # Settings!NoRow => p2'[q].text # "none"
  BY <1>2, <1>3, <1>4, <1>5
<1>10. Settings!QuestionHasDrafts'
  BY <1>1 DEF Settings!QuestionHasDrafts
<1> QED
  BY <1>1, <1>7, <1>8, <1>9, <1>10, SettingsEdit

LEMMA RowReverted ==
    ASSUME NEW x, RowShaped(x), x # Settings!NoRow => x.text # "none"
    PROVE  /\ RowShaped(Settings!Reverted(x))
           /\ Settings!Reverted(x) # Settings!NoRow => Settings!Reverted(x).text # "none"
  BY DEF RowShaped, Settings!Reverted, Settings!None, Settings!NoRow

LEMMA SettingsReverted ==
    ASSUME SettingsInv, NEW r \in Settings!Rows, Settings!Revert(r)
    PROVE  SettingsInv'
<1>1. /\ p2' = [p2 EXCEPT ![r] = Settings!Reverted(p2[r])] /\ p10' = [p10 EXCEPT ![r] = "none"]
      /\ ~p5' /\ UNCHANGED <<p1, p3, p7, p8, p9>>
  BY DEF Settings!Revert, Settings!None, Settings!CanEdit
<1>3. /\ p2 = [q \in Settings!Rows |-> p2[q]]
      /\ \A q \in Settings!Rows : RowShaped(p2[q]) /\ (p2[q] # Settings!NoRow => p2[q].text # "none")
      /\ p10 = [q \in Settings!Rows |-> p10[q]]
  BY <1>1 DEF SettingsInv, SettingsShaped, SettingsSay
<1>5. p2' = [q \in Settings!Rows |-> IF q = r THEN Settings!Reverted(p2[q]) ELSE p2[q]]
  BY <1>1, <1>3
<1>7. \A q \in Templates : p10'[q] # "none" => p10'[q] = p10[q] /\ p2'[q] = p2[q]
  BY <1>1, <1>3, <1>5 DEF Settings!Rows
<1>8. p10' = [q \in Settings!Rows |-> p10'[q]]
  BY <1>1, <1>3
<1>9. /\ p2' = [q \in Settings!Rows |-> p2'[q]] /\ \A q \in Settings!Rows : RowShaped(p2'[q])
      /\ \A q \in Settings!Rows : p2'[q] # Settings!NoRow => p2'[q].text # "none"
  BY <1>3, <1>5, RowReverted
<1>10. Settings!QuestionHasDrafts'
  BY <1>1 DEF Settings!QuestionHasDrafts
<1> QED
  BY <1>1, <1>7, <1>8, <1>9, <1>10, SettingsEdit

\* What changes nothing but the question.
LEMMA SettingsAsk ==
    ASSUME SettingsInv, UNCHANGED <<p1, p2, p3, p7, p8, p9, p10>>, Settings!QuestionHasDrafts'
    PROVE  SettingsInv'
<1>1. SettingsShaped'
  BY DEF SettingsInv, SettingsShaped
<1>2. SettingsSay'
  BY DEF SettingsInv, SettingsSay
<1>3. OneSave'
  BY DEF SettingsInv, OneSave, Waited, Todo
<1>4. TypedIsSafe'
  BY DEF SettingsInv, TypedIsSafe, Waited, Todo
<1> QED
  BY <1>1, <1>2, <1>3, <1>4 DEF SettingsInv

\* A load that the user starts.
LEMMA SettingsReads ==
    ASSUME SettingsInv, NEW m \in BOOLEAN, p9' = p9 \cup {Settings!Read(m, FALSE)},
           UNCHANGED <<p1, p7, p8>>, p3' \in BOOLEAN,
           p2' = [r \in Settings!Rows |-> p2'[r]], \A r \in Settings!Rows : RowShaped(p2'[r]),
           p10' = [r \in Settings!Rows |-> p10'[r]],
           \A r \in Settings!Rows : p2'[r] # Settings!NoRow => p2'[r].text # "none",
           \A r \in Templates : p10'[r] # "none" =>
               p10'[r] = p10[r] /\ p2'[r] = p2[r] /\ p3' = p3 /\ m = TRUE,
           Settings!QuestionHasDrafts'
    PROVE  SettingsInv'
<1>1. \A l \in p9' : l \in p9 \/ (l.merging = m /\ l.own = FALSE /\ l.seen = p1)
  BY DEF Settings!Read
<1>2. SettingsShaped'
  BY <1>1 DEF SettingsInv, SettingsShaped
<1>3. SettingsSay'
  BY <1>1 DEF SettingsInv, SettingsSay
<1>4. OneSave'
  BY <1>1 DEF SettingsInv, OneSave, Waited, Todo
<1>5. TypedIsSafe'
  <2> SUFFICES ASSUME NEW r \in Templates, p10'[r] # "none"
               PROVE  /\ p3' = TRUE
                      /\ Settings!HasDraft(p2'[r]) /\ p2'[r].text = p10'[r]
                      /\ \A l \in p9' : l.merging = TRUE
                      /\ p7'.kind \in {"template", "drafts"} =>
                            \A c \in (Waited \cup p7.saved \cup Todo)' : c.row = r => c.text = p10'[r]
    BY DEF TypedIsSafe
  <2>1. p10'[r] = p10[r] /\ p2'[r] = p2[r] /\ p3' = p3 /\ m = TRUE
    OBVIOUS
  <2>2. Waited' = Waited /\ Todo' = Todo
    BY DEF Waited, Todo
  <2> QED
    BY <1>1, <2>1, <2>2 DEF SettingsInv, TypedIsSafe
<1> QED
  BY <1>2, <1>3, <1>4, <1>5 DEF SettingsInv

LEMMA SettingsGo ==
    ASSUME SettingsInv, Settings!EnterSettings \/ Settings!GoAway \/ Settings!Refresh
    PROVE  SettingsInv'
<1>1. /\ p2 = [q \in Settings!Rows |-> p2[q]]
      /\ \A q \in Settings!Rows : RowShaped(p2[q]) /\ (p2[q] # Settings!NoRow => p2[q].text # "none")
      /\ p10 = [q \in Settings!Rows |-> p10[q]] /\ p3 \in BOOLEAN
  BY DEF SettingsInv, SettingsShaped, SettingsSay
<1>2. CASE Settings!EnterSettings
  <2>1. /\ p3 = FALSE /\ p3' = TRUE /\ UNCHANGED <<p1, p2, p5, p7, p8, p10>>
        /\ p9' = p9 \cup {Settings!Read(TRUE, FALSE)}
    BY <1>1, <1>2 DEF Settings!EnterSettings, Settings!Goto
  <2>2. \A r \in Templates : p10'[r] = "none"
    BY <2>1 DEF SettingsInv, TypedIsSafe
  <2>3. Settings!QuestionHasDrafts'
    BY <2>1 DEF SettingsInv, Settings!QuestionHasDrafts, Settings!Drafts
  <2>4. ASSUME NEW m \in BOOLEAN, m = TRUE, p9' = p9 \cup {Settings!Read(m, FALSE)} PROVE SettingsInv'
    BY <1>1, <2>1, <2>2, <2>3, <2>4, SettingsReads
  <2> QED
    BY <2>1, <2>4
<1>3. CASE Settings!GoAway
  <2>1. /\ p3' = FALSE /\ p5' = FALSE /\ UNCHANGED <<p1, p7, p8>>
        /\ p9' = p9 \cup {Settings!Read(FALSE, FALSE)}
        /\ p2' = [r \in Settings!Rows |-> IF r \in Templates THEN Settings!Reverted(p2[r]) ELSE p2[r]]
        /\ p10' = [r \in Settings!Rows |-> "none"]
    BY <1>3 DEF Settings!GoAway, Settings!Goto, Settings!None
  <2>2. /\ p2' = [r \in Settings!Rows |-> p2'[r]] /\ \A r \in Settings!Rows : RowShaped(p2'[r])
        /\ p10' = [r \in Settings!Rows |-> p10'[r]]
        /\ \A r \in Settings!Rows : p2'[r] # Settings!NoRow => p2'[r].text # "none"
    BY <1>1, <2>1, RowReverted
  <2>3. \A r \in Templates : p10'[r] = "none"
    BY <2>1 DEF Settings!Rows
  <2>4. Settings!QuestionHasDrafts'
    BY <2>1 DEF Settings!QuestionHasDrafts
  <2>5. ASSUME NEW m \in BOOLEAN, m = FALSE, p9' = p9 \cup {Settings!Read(m, FALSE)} PROVE SettingsInv'
    BY <2>1, <2>2, <2>3, <2>4, <2>5, SettingsReads
  <2> QED
    BY <2>1, <2>5
<1>4. CASE Settings!Refresh
  <2>1. /\ UNCHANGED <<p1, p2, p3, p5, p7, p8, p10>>
        /\ p9' = p9 \cup {Settings!Read(p3, FALSE)}
    BY <1>4 DEF Settings!Refresh
  <2>2. \A r \in Templates : p10[r] # "none" => p3 = TRUE
    BY DEF SettingsInv, TypedIsSafe
  <2>3. Settings!QuestionHasDrafts'
    BY <2>1 DEF SettingsInv, Settings!QuestionHasDrafts, Settings!Drafts
  <2> QED
    BY <1>1, <2>1, <2>2, <2>3, SettingsReads
<1> QED
  BY <1>2, <1>3, <1>4

\* A handler starts to save.
LEMMA SettingsSaves ==
    ASSUME SettingsInv, NEW kind, NEW now, NEW later, Settings!Start(kind, now, later),
           kind \notin {"none", "load"}, IsSeq(later),
           \A c \in now : SettingCall(c) /\ c.stray = FALSE,
           kind # "sort" => \A c, d \in now : c = d,
           \A i \in DOMAIN later : SettingCall(later[i]) /\ later[i].kind = "patch" /\ later[i].stray = FALSE,
           kind \in {"template", "drafts"} =>
               \A c \in now \cup {later[i] : i \in DOMAIN later} :
                  c.kind = "patch" /\ \A r \in Templates : p10[r] # "none" /\ c.row = r => c.text = p10[r],
           p2' = [r \in Settings!Rows |-> p2'[r]], \A r \in Settings!Rows : RowShaped(p2'[r]),
           p10' = [r \in Settings!Rows |-> p10'[r]],
           \A r \in Settings!Rows : p2'[r] # Settings!NoRow => p2'[r].text # "none",
           \A r \in Templates : p10'[r] # "none" => p10'[r] = p10[r] /\ p2'[r] = p2[r],
           UNCHANGED p1
    PROVE  SettingsInv'
<1> DEFINE s == [kind |-> kind, merging |-> p3, todo |-> later, saved |-> {}]
<1>1. /\ p7 = Settings!NoSave /\ p7' = s /\ p8' = p8 \cup now /\ UNCHANGED <<p3, p5, p9>>
      /\ p3 /\ ~p5
  BY DEF Settings!Start, Settings!CanEdit, Settings!Idle
<1>2. /\ s \in [kind : {s.kind}, merging : {s.merging}, todo : {s.todo}, saved : {s.saved}]
      /\ s.kind = kind /\ s.merging = p3 /\ s.todo = later /\ s.saved = {}
  OBVIOUS
<1> HIDE DEF s
<1>3. p3 = TRUE /\ p7.kind = "none"
  BY <1>1 DEF SettingsInv, SettingsShaped, Settings!NoSave, Settings!None
<1>4. Waited = {} /\ \A l \in p9 : l.own # TRUE
  BY <1>3 DEF SettingsInv, OneSave
<1>5. Waited' = now
  BY <1>1, <1>4 DEF Waited
<1>6. Todo' = {later[i] : i \in DOMAIN later}
  BY <1>1, <1>2 DEF Todo
<1>7. SettingsShaped'
  BY <1>1, <1>2 DEF SettingsInv, SettingsShaped
<1>8. SettingsSay'
  BY <1>1, <1>2 DEF SettingsInv, SettingsSay
<1>9. OneSave'
  <2>1. p7'.kind = kind /\ p7'.merging = TRUE /\ p7'.saved = {}
    BY <1>1, <1>2, <1>3
  <2>2. \A c \in Todo' : SettingCall(c) /\ c.kind = "patch" /\ c.stray = FALSE
    BY <1>6
  <2>3. \A l \in p9' : l.own # TRUE
    BY <1>1, <1>4
  <2>4. kind # "sort" => \A c, d \in Waited' : c = d
    BY <1>5
  <2>5. kind \in {"template", "drafts"} => \A c \in Waited' : c.kind = "patch"
    BY <1>5
  <2> HIDE DEF s
  <2> QED
    BY <2>1, <2>2, <2>3, <2>4, <2>5 DEF OneSave
<1>10. TypedIsSafe'
  <2>1. \A r \in Templates : p10'[r] # "none" =>
           /\ Settings!HasDraft(p2'[r]) /\ p2'[r].text = p10'[r] /\ \A l \in p9 : l.merging = TRUE
    BY DEF SettingsInv, TypedIsSafe
  <2>2. p7'.kind \in {"template", "drafts"} => kind \in {"template", "drafts"}
    BY <1>1, <1>2
  <2> QED
    BY <1>1, <1>2, <1>3, <1>5, <1>6, <2>1, <2>2 DEF TypedIsSafe
<1>11. Settings!QuestionHasDrafts'
  BY <1>1 DEF Settings!QuestionHasDrafts
<1> QED
  BY <1>7, <1>8, <1>9, <1>10, <1>11 DEF SettingsInv

LEMMA SettingsCall ==
    ASSUME NEW kind \in {"patch", "add", "sort", "delete"}, NEW r, NEW text, NEW pos,
           kind \in {"patch", "add"} => text # "none"
    PROVE  LET c == Settings!Call(kind, r, text, pos)
           IN  SettingCall(c) /\ c.stray = FALSE /\ c.kind = kind /\ c.row = r /\ c.text = text
  BY DEF SettingCall, Settings!Call

\* What a draft sends is what was typed.
LEMMA SettingsPatch ==
    ASSUME SettingsInv, NEW q \in Settings!Rows, p2[q] # Settings!NoRow
    PROVE  /\ SettingCall(Settings!Patch(q)) /\ Settings!Patch(q).stray = FALSE
           /\ Settings!Patch(q).kind = "patch" /\ Settings!Patch(q).row = q
           /\ \A r \in Templates : p10[r] # "none" /\ Settings!Patch(q).row = r => Settings!Patch(q).text = p10[r]
<1>1. p2[q].text # "none"
  BY DEF SettingsInv, SettingsSay
<1>2. q \in Templates /\ p10[q] # "none" => p2[q].text = p10[q]
  BY DEF SettingsInv, TypedIsSafe
<1> QED
  BY <1>1, <1>2 DEF Settings!Patch, SettingCall, Settings!Call

LEMMA SettingsSaveRow ==
    ASSUME SettingsInv, NEW q \in Settings!Rows, Settings!SaveRow(q)
    PROVE  SettingsInv'
<1>1. /\ p2 = [r \in Settings!Rows |-> p2[r]]
      /\ \A r \in Settings!Rows : RowShaped(p2[r]) /\ (p2[r] # Settings!NoRow => p2[r].text # "none")
      /\ p10 = [r \in Settings!Rows |-> p10[r]]
  BY DEF SettingsInv, SettingsShaped, SettingsSay
<1>2. p2[q] # Settings!NoRow /\ UNCHANGED <<p2, p10>>
  BY DEF Settings!SaveRow, Settings!Shown
<1> DEFINE c == Settings!Patch(q)
           now == {c}
<1>3. /\ SettingCall(c) /\ c.stray = FALSE /\ c.kind = "patch"
      /\ \A r \in Templates : p10[r] # "none" /\ c.row = r => c.text = p10[r]
  BY <1>2, SettingsPatch
<1>4. PICK kind \in {"template", "plain"} : Settings!Start(kind, now, <<>>)
  BY DEF Settings!SaveRow
<1>5. UNCHANGED p1
  BY <1>4 DEF Settings!Start
<1>6. IsSeq(<<>>) /\ DOMAIN <<>> = {}
  BY DEF IsSeq
<1> HIDE DEF c
<1>7. /\ \A d \in now : SettingCall(d) /\ d.stray = FALSE
      /\ \A d, e \in now : d = e
      /\ \A d \in now : d.kind = "patch" /\ \A r \in Templates : p10[r] # "none" /\ d.row = r => d.text = p10[r]
  BY <1>3
<1> HIDE DEF now
<1>8. ASSUME NEW later, later = <<>>, Settings!Start(kind, now, later) PROVE SettingsInv'
  BY <1>1, <1>2, <1>5, <1>6, <1>7, <1>8, SettingsSaves
<1> QED
  BY <1>4, <1>8

LEMMA SettingsDelete ==
    ASSUME SettingsInv, NEW q \in Settings!Rows, Settings!DeleteRow(q)
    PROVE  SettingsInv'
<1>1. /\ p2 = [r \in Settings!Rows |-> p2[r]]
      /\ \A r \in Settings!Rows : RowShaped(p2[r]) /\ (p2[r] # Settings!NoRow => p2[r].text # "none")
      /\ p10 = [r \in Settings!Rows |-> p10[r]]
  BY DEF SettingsInv, SettingsShaped, SettingsSay
<1>2. p10' = [p10 EXCEPT ![q] = "none"] /\ UNCHANGED p2
  BY DEF Settings!DeleteRow, Settings!None
<1>3. p10' = [r \in Settings!Rows |-> p10'[r]] /\ \A r \in Templates : p10'[r] # "none" => p10'[r] = p10[r]
  BY <1>1, <1>2 DEF Settings!Rows
<1> DEFINE c == Settings!Call("delete", q, Settings!None, 0)
           now == {c}
<1>4. SettingCall(c) /\ c.stray = FALSE
  BY DEF SettingCall, Settings!Call
<1>5. Settings!Start("reload", now, <<>>) /\ UNCHANGED p1
  BY DEF Settings!DeleteRow, Settings!Start
<1>6. IsSeq(<<>>) /\ DOMAIN <<>> = {}
  BY DEF IsSeq
<1> HIDE DEF c
<1>7. \A d \in now : SettingCall(d) /\ d.stray = FALSE /\ \A e \in now : d = e
  BY <1>4
<1> HIDE DEF now
<1>8. ASSUME NEW kind, kind = "reload", NEW later, later = <<>>, Settings!Start(kind, now, later) PROVE SettingsInv'
  BY <1>1, <1>2, <1>3, <1>5, <1>6, <1>7, <1>8, SettingsSaves
<1> QED
  BY <1>5, <1>8

LEMMA SettingsAdd ==
    ASSUME SettingsInv, NEW list \in Settings!Lists, Settings!AddRow(list)
    PROVE  SettingsInv'
<1>1. /\ p2 = [r \in Settings!Rows |-> p2[r]]
      /\ \A r \in Settings!Rows : RowShaped(p2[r]) /\ (p2[r] # Settings!NoRow => p2[r].text # "none")
      /\ p10 = [r \in Settings!Rows |-> p10[r]]
  BY DEF SettingsInv, SettingsShaped, SettingsSay
<1>2. UNCHANGED <<p2, p10>> /\ p6[list] # "none"
  BY TextsAssumption DEF Settings!AddRow
<1>3. PICK q \in list : Settings!Start("reload",
           {Settings!Call("add", q, p6[list], Settings!Cardinality(Settings!Shown(list)) + 1)}, <<>>)
  BY Zenon DEF Settings!AddRow
<1> DEFINE c == Settings!Call("add", q, p6[list], Settings!Cardinality(Settings!Shown(list)) + 1)
           now == {c}
<1>4. SettingCall(c) /\ c.stray = FALSE
  BY <1>2 DEF SettingCall, Settings!Call
<1>5. Settings!Start("reload", now, <<>>) /\ UNCHANGED p1
  BY <1>3 DEF Settings!Start
<1>6. IsSeq(<<>>) /\ DOMAIN <<>> = {}
  BY DEF IsSeq
<1> HIDE DEF c
<1>7. \A d \in now : SettingCall(d) /\ d.stray = FALSE /\ \A e \in now : d = e
  BY <1>4
<1> HIDE DEF now
<1>8. ASSUME NEW kind, kind = "reload", NEW later, later = <<>>, Settings!Start(kind, now, later) PROVE SettingsInv'
  BY <1>1, <1>2, <1>5, <1>6, <1>7, <1>8, SettingsSaves
<1> QED
  BY <1>5, <1>8

LEMMA SettingsReorder ==
    ASSUME SettingsInv, NEW list \in Settings!Lists, NEW q \in list, NEW n, Settings!Reorder(list, q, n)
    PROVE  SettingsInv'
<1>1. /\ p2 = [r \in Settings!Rows |-> p2[r]]
      /\ \A r \in Settings!Rows : RowShaped(p2[r]) /\ (p2[r] # Settings!NoRow => p2[r].text # "none")
      /\ p10 = [r \in Settings!Rows |-> p10[r]]
  BY DEF SettingsInv, SettingsShaped, SettingsSay
<1>0. PICK others \in Settings!InOrder(Settings!Shown(list) \ {q}), dragged \in BOOLEAN :
         LET order    == Settings!InsertAt(others, n, q)
             Place(x) == 10 * CHOOSE m \in DOMAIN order : order[m] = x
         IN  /\ list = Templates => Settings!Drafts(p2) = {}
             /\ Settings!Start("sort", {Settings!Call("sort", x, Settings!None, Place(x)) :
                                           x \in Settings!Shown(list)}, <<>>)
             /\ p2' = [x \in Settings!Rows |->
                   IF x \notin Settings!Shown(list) THEN p2[x]
                   ELSE [(IF x = q /\ dragged THEN Settings!Reverted(p2[x]) ELSE p2[x])
                            EXCEPT !.pos = Place(x), !.orig = Settings!None]]
             /\ UNCHANGED p10
  BY Zenon DEF Settings!Reorder
<1> DEFINE order  == Settings!InsertAt(others, n, q)
           Place(x) == 10 * CHOOSE m \in DOMAIN order : order[m] = x
           now == {Settings!Call("sort", x, Settings!None, Place(x)) : x \in Settings!Shown(list)}
           Put(x) == [(IF x = q /\ dragged THEN Settings!Reverted(p2[x]) ELSE p2[x])
                         EXCEPT !.pos = Place(x), !.orig = Settings!None]
<1>2. /\ list = Templates => Settings!Drafts(p2) = {}
      /\ Settings!Start("sort", now, <<>>)
      /\ p2' = [x \in Settings!Rows |-> IF x \notin Settings!Shown(list) THEN p2[x] ELSE Put(x)]
      /\ UNCHANGED p10
  BY <1>0
<1> HIDE DEF Place
<1>3. \A x \in Settings!Shown(list) : x \in list /\ p2[x] # Settings!NoRow
  BY DEF Settings!Shown
<1>4. list \subseteq Settings!Rows
  BY DEF Settings!Lists, Settings!Rows
<1>5. \A x \in Settings!Shown(list) : RowShaped(Put(x)) /\ Put(x).text # "none"
  <2> TAKE x \in Settings!Shown(list)
  <2>1. RowShaped(p2[x]) /\ p2[x].text # "none"
    BY <1>1, <1>3, <1>4
  <2>2. RowShaped(Settings!Reverted(p2[x])) /\ Settings!Reverted(p2[x]).text # "none"
    BY <2>1 DEF Settings!Reverted, RowShaped, Settings!None
  <2> QED
    BY <2>1, <2>2 DEF RowShaped
<1> HIDE DEF Put
<1>6. /\ p2' = [r \in Settings!Rows |-> p2'[r]] /\ \A r \in Settings!Rows : RowShaped(p2'[r])
      /\ \A r \in Settings!Rows : p2'[r] # Settings!NoRow => p2'[r].text # "none"
  BY <1>1, <1>2, <1>5
<1>7. ASSUME NEW r \in Templates, p10'[r] # "none" PROVE p10'[r] = p10[r] /\ p2'[r] = p2[r]
  <2>1. Settings!HasDraft(p2[r]) /\ UNCHANGED p10
    BY <1>2, <1>7 DEF SettingsInv, TypedIsSafe
  <2>2. r \in Settings!Drafts(p2)
    BY <2>1 DEF Settings!Drafts
  <2>3. list = PlainRows
    BY <1>2, <2>2 DEF Settings!Lists
  <2>4. r \notin Settings!Shown(list)
    BY <1>3, <2>3, SettingsRowsAssumption
  <2> QED
    BY <1>2, <2>1, <2>4 DEF Settings!Rows
<1>8. \A c \in now : SettingCall(c) /\ c.stray = FALSE
  <2>1. \A x, y : SettingCall(Settings!Call("sort", x, Settings!None, y))
                  /\ Settings!Call("sort", x, Settings!None, y).stray = FALSE
    BY DEF SettingCall, Settings!Call
  <2> QED
    BY <2>1
<1>9. UNCHANGED p1 /\ IsSeq(<<>>) /\ DOMAIN <<>> = {}
  BY <1>2 DEF Settings!Start, IsSeq
<1> HIDE DEF now
<1>10. ASSUME NEW kind, kind = "sort", NEW later, later = <<>>, Settings!Start(kind, now, later) PROVE SettingsInv'
  BY <1>1, <1>2, <1>6, <1>7, <1>8, <1>9, <1>10, SettingsSaves
<1> QED
  BY <1>2, <1>10

LEMMA SettingsSaveDrafts == ASSUME SettingsInv, Settings!SaveDrafts PROVE SettingsInv'
<1>1. /\ p2 = [r \in Settings!Rows |-> p2[r]]
      /\ \A r \in Settings!Rows : RowShaped(p2[r]) /\ (p2[r] # Settings!NoRow => p2[r].text # "none")
      /\ p10 = [r \in Settings!Rows |-> p10[r]]
  BY DEF SettingsInv, SettingsShaped, SettingsSay
<1> DEFINE ds == Settings!Drafts(p2)
           n  == Settings!Cardinality(ds)
<1>2. /\ ds # {} /\ UNCHANGED <<p2, p10>>
      /\ \E order \in [1..n -> ds] :
            Settings!Start("drafts", {Head([i \in DOMAIN order |-> Settings!Patch(order[i])])},
                           Tail([i \in DOMAIN order |-> Settings!Patch(order[i])]))
  BY DEF Settings!SaveDrafts, Settings!InOrder
<1>3. PICK order \in [1..n -> ds] :
            Settings!Start("drafts", {Head([i \in DOMAIN order |-> Settings!Patch(order[i])])},
                           Tail([i \in DOMAIN order |-> Settings!Patch(order[i])]))
  BY <1>2
<1> DEFINE queue == [i \in 1..n |-> Settings!Patch(order[i])]
           now   == {Head(queue)}
           later == Tail(queue)
<1>4. Settings!Start("drafts", now, later) /\ UNCHANGED p1
  BY <1>3 DEF Settings!Start
<1>5. n \in Nat \ {0}
  <2>1. ds \subseteq Templates
    BY DEF Settings!Drafts
  <2>2. IsFiniteSet(ds)
    BY <2>1, FS_Subset, SettingsRowsAssumption
  <2>3. n = Cardinality(ds)
    BY DEF Settings!Cardinality, Cardinality
  <2> QED
    BY <1>2, <2>2, <2>3, FS_CardinalityType, FS_EmptySet
<1>6. \A q \in ds : /\ SettingCall(Settings!Patch(q)) /\ Settings!Patch(q).stray = FALSE
                    /\ Settings!Patch(q).kind = "patch"
                    /\ \A r \in Templates : p10[r] # "none" /\ Settings!Patch(q).row = r => Settings!Patch(q).text = p10[r]
  <2> TAKE q \in ds
  <2>1. q \in Settings!Rows /\ Settings!HasDraft(p2[q])
    BY DEF Settings!Drafts, Settings!Rows
  <2>2. p2[q] # Settings!NoRow
    BY <2>1 DEF Settings!HasDraft, Settings!NoRow
  <2> QED
    BY <2>1, <2>2, SettingsPatch
<1> HIDE DEF ds, n
<1> DEFINE Calls == {Settings!Patch(q) : q \in ds}
<1>7. queue \in Seq(Calls) /\ queue # <<>> /\ DOMAIN queue = 1..n
  BY <1>5
<1>8. \A i \in DOMAIN queue : queue[i] \in Calls
  BY <1>7
<1>9. \A c \in Calls : /\ SettingCall(c) /\ c.stray = FALSE /\ c.kind = "patch"
                       /\ \A r \in Templates : p10[r] # "none" /\ c.row = r => c.text = p10[r]
  BY <1>6
<1> HIDE DEF queue, Calls
<1>10. /\ IsSeq(later) /\ Head(queue) \in Calls /\ \A i \in DOMAIN later : later[i] \in Calls
  BY <1>7, <1>8, TailOf DEF IsSeq
<1>11. \A c \in now \cup {later[i] : i \in DOMAIN later} : c \in Calls
  BY <1>10
<1>12. \A c, d \in now : c = d
  OBVIOUS
<1> HIDE DEF now, later
<1>14. /\ \A c \in now : SettingCall(c) /\ c.stray = FALSE
       /\ \A i \in DOMAIN later : SettingCall(later[i]) /\ later[i].kind = "patch" /\ later[i].stray = FALSE
       /\ \A c \in now \cup {later[i] : i \in DOMAIN later} :
             c.kind = "patch" /\ \A r \in Templates : p10[r] # "none" /\ c.row = r => c.text = p10[r]
  BY <1>9, <1>10, <1>11
<1>13. ASSUME NEW kind, kind = "drafts", Settings!Start(kind, now, later) PROVE SettingsInv'
  BY <1>1, <1>2, <1>4, <1>10, <1>12, <1>14, <1>13, SettingsSaves
<1> QED
  BY <1>4, <1>13

\* The server takes a call.
LEMMA SettingsServe == ASSUME SettingsInv, NEW c \in p8, Settings!Serve(c) PROVE SettingsInv'
<1> DEFINE d == [c EXCEPT !.phase = IF Settings!Refused(c) THEN "refused" ELSE "done"]
<1>1. /\ p8' = (p8 \ {c}) \cup {d} /\ UNCHANGED <<p2, p3, p5, p7, p9, p10>>
      /\ p1' = IF Settings!Refused(c) THEN p1 ELSE [p1 EXCEPT ![c.row] =
            CASE c.kind \in {"patch", "add"} -> [text |-> c.text, pos |-> c.pos]
              [] c.kind = "sort"   -> [p1[c.row] EXCEPT !.pos = c.pos]
              [] c.kind = "delete" -> Settings!Absent]
  BY DEF Settings!Serve
<1>2. SettingCall(c)
  BY DEF SettingsInv, SettingsShaped
<1>3. /\ SettingCall(d) /\ d.kind = c.kind /\ d.row = c.row /\ d.text = c.text /\ d.stray = c.stray
  BY <1>2 DEF SettingCall
<1> HIDE DEF d
<1>4. /\ \A e \in Waited' : e \in Waited \/ (e = d /\ c \in Waited)
      /\ p7.kind # "sort" => \A e, f \in Waited' : e = f
  <2>1. \A e \in Waited' : (e \in Waited /\ e # c) \/ (e = d /\ c \in Waited)
    BY <1>1, <1>3 DEF Waited
  <2>2. p7.kind # "sort" => \A e, f \in Waited : e = f
    BY DEF SettingsInv, OneSave
  <2> QED
    BY <2>1, <2>2
<1>5. /\ p1 = [r \in Settings!Rows |-> p1[r]]
      /\ \A r \in Settings!Rows : p1[r] \in [text : {p1[r].text}, pos : {p1[r].pos}]
                                  /\ (p1[r] # Settings!Absent => p1[r].text # "none")
  BY DEF SettingsInv, SettingsShaped, SettingsSay
<1>6. /\ p1' = [r \in Settings!Rows |-> p1'[r]]
      /\ \A r \in Settings!Rows : p1'[r] \in [text : {p1'[r].text}, pos : {p1'[r].pos}]
                                  /\ (p1'[r] # Settings!Absent => p1'[r].text # "none")
  <2>1. CASE Settings!Refused(c)
    BY <1>1, <1>5, <2>1
  <2>2. CASE ~Settings!Refused(c)
    <3> DEFINE x == CASE c.kind \in {"patch", "add"} -> [text |-> c.text, pos |-> c.pos]
                      [] c.kind = "sort"   -> [p1[c.row] EXCEPT !.pos = c.pos]
                      [] c.kind = "delete" -> Settings!Absent
    <3>1. p1' = [p1 EXCEPT ![c.row] = x]
      BY <1>1, <2>2
    <3>2. c.row \in Settings!Rows => x \in [text : {x.text}, pos : {x.pos}] /\ (x # Settings!Absent => x.text # "none")
      <4> SUFFICES ASSUME c.row \in Settings!Rows
                   PROVE  x \in [text : {x.text}, pos : {x.pos}] /\ (x # Settings!Absent => x.text # "none")
        OBVIOUS
      <4>1. CASE c.kind \in {"patch", "add"}
        <5>1. x = [text |-> c.text, pos |-> c.pos] /\ c.text # "none"
          BY <4>1, <1>2 DEF SettingCall
        <5> HIDE DEF x
        <5> QED
          BY <5>1
      <4>2. CASE c.kind = "sort"
        <5>1. x = [p1[c.row] EXCEPT !.pos = c.pos] /\ p1[c.row] # Settings!Absent
          BY <4>2, <2>2 DEF Settings!Refused
        <5>2. p1[c.row].text # "none" /\ p1[c.row] \in [text : {p1[c.row].text}, pos : {p1[c.row].pos}]
          BY <5>1, <1>5
        <5> HIDE DEF x
        <5> QED
          BY <5>1, <5>2
      <4>3. CASE c.kind = "delete"
        <5>1. x = Settings!Absent
          BY <4>3
        <5> HIDE DEF x
        <5> QED
          BY <5>1 DEF Settings!Absent
      <4> QED
        BY <4>1, <4>2, <4>3, <1>2 DEF SettingCall
    <3> HIDE DEF x
    <3> QED
      BY <3>1, <3>2, <1>5
  <2> QED
    BY <2>1, <2>2
<1>7. SettingsShaped'
  BY <1>1, <1>3, <1>6 DEF SettingsInv, SettingsShaped
<1>8. SettingsSay'
  BY <1>1, <1>6 DEF SettingsInv, SettingsSay
<1>9. OneSave'
  <2>1. Todo' = Todo
    BY <1>1 DEF Todo
  <2> QED
    BY <1>1, <1>3, <1>4, <2>1 DEF SettingsInv, OneSave
<1>10. TypedIsSafe'
  <2>1. Todo' = Todo
    BY <1>1 DEF Todo
  <2> QED
    BY <1>1, <1>3, <1>4, <2>1 DEF SettingsInv, TypedIsSafe
<1>11. Settings!QuestionHasDrafts'
  BY <1>1 DEF SettingsInv, Settings!QuestionHasDrafts, Settings!Drafts
<1> QED
  BY <1>7, <1>8, <1>9, <1>10, <1>11 DEF SettingsInv

LEMMA MergedRows ==
    ASSUME SettingsInv, NEW saved, \A c \in saved : c.text # "none"
    PROVE  /\ Settings!Merged(saved) = [r \in Settings!Rows |-> Settings!Merged(saved)[r]]
           /\ \A r \in Settings!Rows :
                /\ RowShaped(Settings!Merged(saved)[r])
                /\ Settings!Merged(saved)[r] # Settings!NoRow => Settings!Merged(saved)[r].text # "none"
                /\ (\A c \in saved : c.row # r) => Settings!Merged(saved)[r] = p2[r]
<1> DEFINE New(r) == IF p2[r] # Settings!NoRow /\ \E c \in saved : c.row = r
                     THEN LET c == CHOOSE d \in saved : d.row = r
                          IN  [text |-> c.text, pos |-> c.pos, orig |-> Settings!None]
                     ELSE p2[r]
<1>1. Settings!Merged(saved) = [r \in Settings!Rows |-> New(r)]
  BY DEF Settings!Merged
<1>2. \A r \in Settings!Rows :
          /\ RowShaped(New(r)) /\ (New(r) # Settings!NoRow => New(r).text # "none")
          /\ (\A c \in saved : c.row # r) => New(r) = p2[r]
  <2> TAKE r \in Settings!Rows
  <2>1. RowShaped(p2[r]) /\ (p2[r] # Settings!NoRow => p2[r].text # "none")
    BY DEF SettingsInv, SettingsShaped, SettingsSay
  <2>2. CASE p2[r] # Settings!NoRow /\ \E c \in saved : c.row = r
    <3> DEFINE c == CHOOSE d \in saved : d.row = r
    <3>1. c \in saved /\ c.row = r
      BY <2>2
    <3>2. New(r) = [text |-> c.text, pos |-> c.pos, orig |-> Settings!None]
      BY <2>2
    <3> HIDE DEF c, New
    <3> QED
      BY <3>1, <3>2, <2>2 DEF RowShaped
  <2>3. CASE ~(p2[r] # Settings!NoRow /\ \E c \in saved : c.row = r)
    BY <2>1, <2>3
  <2> QED
    BY <2>2, <2>3
<1> HIDE DEF New
<1> QED
  BY <1>1, <1>2

\* A save ends: what it saved takes the place of the rows.
LEMMA SettingsEnd ==
    ASSUME SettingsInv, NEW saved, Settings!EndsWith(saved), UNCHANGED <<p1, p3>>,
           p7.kind \notin {"none", "load"}, Waited' = {}, \A c \in p8' : SettingCall(c),
           \A c \in saved : c.text # "none",
           \A c \in saved, r \in Templates : p10[r] # "none" /\ c.row = r => c.text = p10[r]
    PROVE  SettingsInv'
<1>1. /\ p2' = Settings!Merged(saved) /\ p7' = Settings!NoSave /\ UNCHANGED p9
      /\ p10' = [r \in Settings!Rows |-> IF \E c \in saved : c.row = r /\ c.text = p10[r] THEN "none" ELSE p10[r]]
      /\ p5' = (p5 /\ Settings!Drafts(p2') # {})
  BY DEF Settings!EndsWith, Settings!KeepOpen, Settings!None
<1>2. /\ p7'.kind = "none" /\ p7'.todo = <<>> /\ p7'.saved = {}
      /\ p7' \in [kind : {p7'.kind}, merging : {p7'.merging}, todo : {p7'.todo}, saved : {p7'.saved}]
  BY <1>1 DEF Settings!NoSave, Settings!None
<1>3. /\ p2' = [r \in Settings!Rows |-> p2'[r]]
      /\ \A r \in Settings!Rows :
           /\ RowShaped(p2'[r]) /\ (p2'[r] # Settings!NoRow => p2'[r].text # "none")
           /\ (\A c \in saved : c.row # r) => p2'[r] = p2[r]
  BY <1>1, MergedRows
<1>4. \A l \in p9 : l.own # TRUE
  BY DEF SettingsInv, OneSave
<1>5. IsSeq(<<>>) /\ Todo' = {}
  BY <1>2 DEF IsSeq, Todo
<1>6. SettingsShaped'
  BY <1>1, <1>2, <1>3, <1>5 DEF SettingsInv, SettingsShaped
<1>7. SettingsSay'
  BY <1>1, <1>2, <1>3 DEF SettingsInv, SettingsSay
<1>8. OneSave'
  BY <1>1, <1>2, <1>4, <1>5 DEF OneSave
<1>9. TypedIsSafe'
  <2> SUFFICES ASSUME NEW r \in Templates, p10'[r] # "none"
               PROVE  /\ p3' = TRUE
                      /\ Settings!HasDraft(p2'[r]) /\ p2'[r].text = p10'[r]
                      /\ \A l \in p9' : l.merging = TRUE
    BY <1>2 DEF TypedIsSafe
  <2>1. r \in Settings!Rows
    BY DEF Settings!Rows
  <2>2. p10'[r] = p10[r] /\ ~\E c \in saved : c.row = r /\ c.text = p10[r]
    BY <1>1, <2>1
  <2>3. \A c \in saved : c.row # r
    BY <2>2
  <2>4. p2'[r] = p2[r]
    BY <1>3, <2>1, <2>3
  <2> QED
    BY <1>1, <2>2, <2>4 DEF SettingsInv, TypedIsSafe
<1>10. Settings!QuestionHasDrafts'
  BY <1>1 DEF Settings!QuestionHasDrafts
<1> QED
  BY <1>6, <1>7, <1>8, <1>9, <1>10 DEF SettingsInv

\* A save ends with a load of its own.
LEMMA SettingsReload ==
    ASSUME SettingsInv, NEW saved, Settings!Reload(saved), UNCHANGED <<p1, p3>>,
           p7.kind \notin {"none", "load", "drafts"}, Waited' = {}, \A c \in p8' : SettingCall(c)
    PROVE  SettingsInv'
<1> DEFINE l == Settings!Read(p7.merging, TRUE)
<1>1. /\ p7' = [p7 EXCEPT !.kind = "load", !.saved = saved] /\ p9' = p9 \cup {l} /\ UNCHANGED <<p2, p10, p5>>
  BY DEF Settings!Reload
<1>2. /\ p7.merging = TRUE /\ \A m \in p9 : m.own # TRUE
      /\ p7 \in [kind : {p7.kind}, merging : {p7.merging}, todo : {p7.todo}, saved : {p7.saved}]
  BY DEF SettingsInv, SettingsShaped, OneSave
<1>3. l.merging = TRUE /\ l.own = TRUE /\ l.seen = p1
  BY <1>2 DEF Settings!Read
<1>4. /\ p7'.kind = "load" /\ p7'.merging = TRUE /\ p7'.todo = p7.todo
      /\ p7' \in [kind : {p7'.kind}, merging : {p7'.merging}, todo : {p7'.todo}, saved : {p7'.saved}]
  BY <1>1, <1>2
<1> HIDE DEF l
<1>5. Todo' = Todo
  BY <1>4 DEF Todo
<1>6. SettingsShaped'
  BY <1>1, <1>3, <1>4 DEF SettingsInv, SettingsShaped
<1>7. SettingsSay'
  BY <1>1, <1>3, <1>4 DEF SettingsInv, SettingsSay
<1>8. OneSave'
  BY <1>1, <1>2, <1>3, <1>4, <1>5 DEF SettingsInv, OneSave
<1>9. TypedIsSafe'
  BY <1>1, <1>3, <1>4 DEF SettingsInv, TypedIsSafe
<1>10. Settings!QuestionHasDrafts'
  BY <1>1 DEF SettingsInv, Settings!QuestionHasDrafts, Settings!Drafts
<1> QED
  BY <1>6, <1>7, <1>8, <1>9, <1>10 DEF SettingsInv

LEMMA SettingsFails == ASSUME SettingsInv, NEW c \in p8, Settings!CallFails(c) PROVE SettingsInv'
<1>1. /\ ~c.stray /\ p8' = {[d EXCEPT !.stray = TRUE] : d \in p8 \ {c}} /\ UNCHANGED <<p1, p3>>
      /\ IF p7.kind = "sort" THEN Settings!Reload({}) ELSE Settings!EndsWith(p7.saved)
  BY DEF Settings!CallFails
<1>2. \A d \in p8 : SettingCall(d)
  BY DEF SettingsInv, SettingsShaped
<1>3. c \in Waited
  BY <1>1, <1>2 DEF Waited, SettingCall
<1>4. p7.kind \notin {"none", "load"}
  BY <1>3 DEF SettingsInv, OneSave
<1>5. \A d : SettingCall(d) => SettingCall([d EXCEPT !.stray = TRUE]) /\ [d EXCEPT !.stray = TRUE].stray = TRUE
  BY DEF SettingCall
<1>6. Waited' = {} /\ \A d \in p8' : SettingCall(d)
  BY <1>1, <1>2, <1>5 DEF Waited
<1>7. \A d \in p7.saved : d.text # "none"
  BY <1>4 DEF SettingsInv, SettingsSay
<1>8. \A d \in p7.saved, r \in Templates : p10[r] # "none" /\ d.row = r => d.text = p10[r]
  BY <1>4 DEF SettingsInv, TypedIsSafe, OneSave
<1>9. CASE p7.kind = "sort"
  <2>1. ASSUME NEW saved, Settings!Reload(saved) PROVE SettingsInv'
    BY <1>1, <1>4, <1>6, <1>9, <2>1, SettingsReload
  <2> QED
    BY <1>1, <1>9, <2>1
<1>10. CASE p7.kind # "sort"
  <2>1. ASSUME NEW saved, saved = p7.saved, Settings!EndsWith(saved) PROVE SettingsInv'
    BY <1>1, <1>4, <1>6, <1>7, <1>8, <2>1, SettingsEnd
  <2> QED
    BY <1>1, <1>10, <2>1
<1> QED
  BY <1>9, <1>10

LEMMA SettingsStray == ASSUME SettingsInv, NEW c \in p8, Settings!StrayEnds(c) PROVE SettingsInv'
<1>1. /\ p8' = p8 \ {c} /\ c.stray /\ UNCHANGED <<p1, p2, p3, p5, p7, p9, p10>>
  BY DEF Settings!StrayEnds
<1>2. Waited' \subseteq Waited /\ Todo' = Todo
  BY <1>1 DEF Waited, Todo
<1>3. SettingsShaped'
  BY <1>1 DEF SettingsInv, SettingsShaped
<1>4. SettingsSay'
  BY <1>1 DEF SettingsInv, SettingsSay
<1>5. OneSave'
  BY <1>1, <1>2 DEF SettingsInv, OneSave
<1>6. TypedIsSafe'
  BY <1>1, <1>2 DEF SettingsInv, TypedIsSafe
<1>7. Settings!QuestionHasDrafts'
  BY <1>1 DEF SettingsInv, Settings!QuestionHasDrafts, Settings!Drafts
<1> QED
  BY <1>3, <1>4, <1>5, <1>6, <1>7 DEF SettingsInv

\* One of the calls of a save has succeeded.
LEMMA SettingsSucceeds == ASSUME SettingsInv, NEW c \in p8, Settings!CallSucceeds(c) PROVE SettingsInv'
<1> DEFINE left == p8 \ {c}
           got  == p7.saved \cup {c}
<1>1. /\ c.phase = "done" /\ ~c.stray /\ UNCHANGED <<p1, p3>>
      /\ CASE p7.kind = "template" -> p8' = left /\ Settings!EndsWith({c})
           [] p7.kind = "drafts" /\ p7.todo = <<>> -> p8' = left /\ Settings!EndsWith(got)
           [] p7.kind = "drafts" /\ p7.todo # <<>> ->
                 /\ p8' = left \cup {Head(p7.todo)}
                 /\ p7' = [p7 EXCEPT !.todo = Tail(@), !.saved = got]
                 /\ UNCHANGED <<p2, p10, p5, p4, p9>>
           [] p7.kind = "sort" /\ \E d \in left : ~d.stray ->
                 p8' = left /\ UNCHANGED <<p7, p2, p10, p5, p4, p9>>
           [] OTHER -> p8' = left /\ Settings!Reload(IF p7.kind = "plain" THEN {c} ELSE {})
  BY DEF Settings!CallSucceeds
<1>2. \A d \in p8 : SettingCall(d)
  BY DEF SettingsInv, SettingsShaped
<1>3. c \in Waited /\ p7.kind \notin {"none", "load"}
  BY <1>1, <1>2 DEF SettingsInv, OneSave, Waited, SettingCall
<1>4. \A d \in Waited : p7.kind # "sort" => d = c
  BY <1>3 DEF SettingsInv, OneSave
<1>5. \A d \in left : d.stray = FALSE => d \in Waited
  BY DEF Waited
<1>6. ASSUME p7.kind \in {"template", "drafts"}
      PROVE  /\ \A d \in got : d.text # "none"
             /\ \A d \in got, r \in Templates : p10[r] # "none" /\ d.row = r => d.text = p10[r]
  <2>1. c.kind = "patch" /\ c.text # "none"
    BY <1>2, <1>3, <1>6 DEF SettingsInv, OneSave, SettingCall
  <2>2. \A d \in p7.saved : d.text # "none"
    BY <1>3 DEF SettingsInv, SettingsSay
  <2>3. \A d \in got, r \in Templates : p10[r] # "none" /\ d.row = r => d.text = p10[r]
    BY <1>3, <1>6 DEF SettingsInv, TypedIsSafe
  <2> QED
    BY <2>1, <2>2, <2>3
<1>7. p7.kind # "sort" /\ p8' = left => Waited' = {}
  BY <1>4 DEF Waited
<1> HIDE DEF got
<1>8. CASE p7.kind = "template"
  <2>1. /\ p8' = left /\ Settings!EndsWith({c})
        /\ \A d \in {c} : d \in got
    BY <1>1, <1>8 DEF got
  <2> DEFINE one == {c}
  <2>2. Settings!EndsWith(one) /\ \A d \in one : d \in got
    BY <2>1
  <2> HIDE DEF one
  <2> QED
    BY <1>1, <1>2, <1>3, <1>6, <1>7, <1>8, <2>1, <2>2, SettingsEnd
<1>9. CASE p7.kind = "drafts" /\ p7.todo = <<>>
  <2>1. p8' = left /\ Settings!EndsWith(got)
    BY <1>1, <1>9
  <2> QED
    BY <1>1, <1>2, <1>3, <1>6, <1>7, <1>9, <2>1, SettingsEnd
<1>10. CASE p7.kind = "drafts" /\ p7.todo # <<>>
  <2> DEFINE h == Head(p7.todo)
  <2>1. /\ p8' = left \cup {h} /\ p7' = [p7 EXCEPT !.todo = Tail(@), !.saved = got]
        /\ UNCHANGED <<p2, p10, p5, p9>>
    BY <1>1, <1>10
  <2>2. /\ p7 \in [kind : {p7.kind}, merging : {p7.merging}, todo : {p7.todo}, saved : {p7.saved}]
        /\ IsSeq(p7.todo)
    BY DEF SettingsInv, SettingsShaped
  <2>3. /\ p7' \in [kind : {p7'.kind}, merging : {p7'.merging}, todo : {p7'.todo}, saved : {p7'.saved}]
        /\ p7'.kind = "drafts" /\ p7'.merging = p7.merging /\ p7'.todo = Tail(p7.todo) /\ p7'.saved = got
    BY <1>10, <2>1, <2>2
  <2>4. /\ IsSeq(Tail(p7.todo)) /\ h \in Todo
        /\ \A i \in DOMAIN Tail(p7.todo) : Tail(p7.todo)[i] \in Todo
    BY <1>10, <2>2, TailOf DEF Todo
  <2>5. Todo' \subseteq Todo
    BY <2>3, <2>4 DEF Todo
  <2>6. SettingCall(h) /\ h.kind = "patch" /\ h.stray = FALSE
    BY <2>4 DEF SettingsInv, OneSave
  <2> HIDE DEF h
  <2>7. Waited' = {h}
    BY <1>4, <1>10, <2>1, <2>6 DEF Waited
  <2>8. SettingsShaped'
    BY <1>1, <1>2, <2>1, <2>3, <2>4, <2>6 DEF SettingsInv, SettingsShaped
  <2>9. SettingsSay'
    BY <1>1, <1>6, <1>10, <2>1, <2>3 DEF SettingsInv, SettingsSay
  <2>10. OneSave'
    BY <1>10, <2>1, <2>3, <2>5, <2>6, <2>7 DEF SettingsInv, OneSave
  <2>11. TypedIsSafe'
    BY <1>1, <1>6, <1>10, <2>1, <2>3, <2>4, <2>5, <2>7 DEF SettingsInv, TypedIsSafe
  <2>12. Settings!QuestionHasDrafts'
    BY <2>1 DEF SettingsInv, Settings!QuestionHasDrafts, Settings!Drafts
  <2> QED
    BY <2>8, <2>9, <2>10, <2>11, <2>12 DEF SettingsInv
<1>11. CASE p7.kind = "sort" /\ \E d \in left : ~d.stray
  <2>1. p8' = left /\ UNCHANGED <<p7, p2, p10, p5, p9>>
    BY <1>1, <1>11
  <2>2. Waited' \subseteq Waited /\ Todo' = Todo
    BY <2>1 DEF Waited, Todo
  <2>3. SettingsShaped'
    BY <1>1, <2>1 DEF SettingsInv, SettingsShaped
  <2>4. SettingsSay'
    BY <1>1, <2>1 DEF SettingsInv, SettingsSay
  <2>5. OneSave'
    BY <1>1, <2>1, <2>2 DEF SettingsInv, OneSave
  <2>6. TypedIsSafe'
    BY <1>1, <2>1, <2>2 DEF SettingsInv, TypedIsSafe
  <2>7. Settings!QuestionHasDrafts'
    BY <2>1 DEF SettingsInv, Settings!QuestionHasDrafts, Settings!Drafts
  <2> QED
    BY <2>3, <2>4, <2>5, <2>6, <2>7 DEF SettingsInv
<1>12. CASE p7.kind \notin {"template", "drafts"} /\ ~(p7.kind = "sort" /\ \E d \in left : ~d.stray)
  <2>1. p8' = left /\ \E saved : Settings!Reload(saved)
    BY <1>1, <1>12
  <2>2. Waited' = {}
    BY <1>4, <1>12, <2>1 DEF Waited
  <2> QED
    BY <1>1, <1>2, <1>3, <1>12, <2>1, <2>2, SettingsReload
<1> QED
  BY <1>8, <1>9, <1>10, <1>11, <1>12

\* A load has gone from those on the way, with the save that waited for it.
LEMMA SettingsRead ==
    ASSUME SettingsInv, NEW l \in p9, p9' = p9 \ {l}, p7' = IF l.own THEN Settings!NoSave ELSE p7,
           l.own \in BOOLEAN, UNCHANGED <<p1, p3, p8>>,
           p2' = [r \in Settings!Rows |-> p2'[r]], \A r \in Settings!Rows : RowShaped(p2'[r]),
           p10' = [r \in Settings!Rows |-> p10'[r]],
           \A r \in Settings!Rows : p2'[r] # Settings!NoRow => p2'[r].text # "none",
           \A r \in Templates : p10'[r] # "none" => p10'[r] = p10[r] /\ p2'[r] = p2[r],
           Settings!QuestionHasDrafts'
    PROVE  SettingsInv'
<1>1. /\ Settings!NoSave.kind = "none" /\ Settings!NoSave.todo = <<>> /\ Settings!NoSave.saved = {}
      /\ Settings!NoSave \in [kind : {Settings!NoSave.kind}, merging : {Settings!NoSave.merging},
                              todo : {Settings!NoSave.todo}, saved : {Settings!NoSave.saved}]
      /\ IsSeq(<<>>)
  BY DEF Settings!NoSave, Settings!None, IsSeq
<1>2. Waited' = Waited /\ (l.own = TRUE => Todo' = {} /\ Waited = {}) /\ (l.own = FALSE => Todo' = Todo)
  BY <1>1 DEF SettingsInv, OneSave, Waited, Todo
<1>3. SettingsShaped'
  BY <1>1 DEF SettingsInv, SettingsShaped
<1>4. SettingsSay'
  BY <1>1 DEF SettingsInv, SettingsSay
<1>5. OneSave'
  <2>1. CASE l.own = TRUE
    <3>1. p7' = Settings!NoSave /\ Waited' = {} /\ Todo' = {} /\ \A m \in p9' : m.own # TRUE
      BY <1>2, <2>1 DEF SettingsInv, OneSave
    <3> QED
      BY <1>1, <3>1 DEF OneSave
  <2>2. CASE l.own = FALSE
    <3>1. p7' = p7 /\ Waited' = Waited /\ Todo' = Todo
      BY <1>2, <2>2
    <3> QED
      BY <3>1 DEF SettingsInv, OneSave
  <2> QED
    BY <2>1, <2>2
<1>6. TypedIsSafe'
  <2> SUFFICES ASSUME NEW r \in Templates, p10'[r] # "none"
               PROVE  /\ p3' = TRUE
                      /\ Settings!HasDraft(p2'[r]) /\ p2'[r].text = p10'[r]
                      /\ \A m \in p9' : m.merging = TRUE
                      /\ p7'.kind \in {"template", "drafts"} =>
                            \A c \in (Waited \cup p7.saved \cup Todo)' : c.row = r => c.text = p10'[r]
    BY DEF TypedIsSafe
  <2>1. p10'[r] = p10[r] /\ p2'[r] = p2[r]
    OBVIOUS
  <2>2. /\ p3' = TRUE /\ Settings!HasDraft(p2'[r]) /\ p2'[r].text = p10'[r]
        /\ \A m \in p9' : m.merging = TRUE
    BY <2>1 DEF SettingsInv, TypedIsSafe
  <2>3. ASSUME p7'.kind \in {"template", "drafts"}
        PROVE  \A c \in (Waited \cup p7.saved \cup Todo)' : c.row = r => c.text = p10'[r]
    <3>1. l.own = FALSE /\ p7' = p7
      BY <1>1, <2>3
    <3>2. Waited' = Waited /\ Todo' = Todo
      BY <1>2, <3>1
    <3> QED
      BY <2>1, <2>3, <3>1, <3>2 DEF SettingsInv, TypedIsSafe
  <2> QED
    BY <2>2, <2>3
<1> QED
  BY <1>3, <1>4, <1>5, <1>6 DEF SettingsInv

LEMMA SettingsLoads ==
    ASSUME SettingsInv, NEW l \in p9, l.own \in BOOLEAN, Settings!LoadAnswers(l) \/ Settings!LoadFails(l)
    PROVE  SettingsInv'
<1>1. /\ p2 = [r \in Settings!Rows |-> p2[r]]
      /\ \A r \in Settings!Rows : RowShaped(p2[r]) /\ (p2[r] # Settings!NoRow => p2[r].text # "none")
      /\ p10 = [r \in Settings!Rows |-> p10[r]]
  BY DEF SettingsInv, SettingsShaped, SettingsSay
<1>2. CASE Settings!LoadFails(l)
  <2> DEFINE New(r) == IF l.own /\ r \in PlainRows /\ \E c \in p7.saved : c.row = r
                       THEN [p2[r] EXCEPT !.orig = "none"] ELSE p2[r]
  <2>1. /\ p9' = p9 \ {l} /\ p7' = (IF l.own THEN Settings!NoSave ELSE p7)
        /\ p2' = [r \in Settings!Rows |-> New(r)]
        /\ UNCHANGED <<p1, p3, p5, p8, p10>>
    BY <1>2 DEF Settings!LoadFails, Settings!None
  <2>2. \A r \in Settings!Rows : RowShaped(New(r)) /\ (New(r) # Settings!NoRow => New(r).text # "none")
    BY <1>1 DEF RowShaped, Settings!NoRow, Settings!None
  <2>3. \A r \in Templates : r \in Settings!Rows /\ New(r) = p2[r]
    BY SettingsRowsAssumption DEF Settings!Rows
  <2> HIDE DEF New
  <2>4. /\ p2' = [r \in Settings!Rows |-> p2'[r]]
        /\ \A r \in Settings!Rows : RowShaped(p2'[r]) /\ (p2'[r] # Settings!NoRow => p2'[r].text # "none")
        /\ \A r \in Templates : p2'[r] = p2[r]
    BY <2>1, <2>2, <2>3
  <2>5. Settings!QuestionHasDrafts'
    BY <2>1, <2>4 DEF SettingsInv, Settings!QuestionHasDrafts, Settings!Drafts
  <2>6. p10' = [r \in Settings!Rows |-> p10'[r]]
    BY <1>1, <2>1
  <2> QED
    BY <1>1, <2>1, <2>4, <2>5, <2>6, SettingsRead
<1>3. CASE Settings!LoadAnswers(l)
  <2>1. /\ p9' = p9 \ {l} /\ p7' = (IF l.own THEN Settings!NoSave ELSE p7) /\ UNCHANGED <<p1, p3, p8>>
        /\ p5' = (p5 /\ Settings!Drafts(p2') # {})
    BY <1>3 DEF Settings!LoadAnswers, Settings!KeepOpen
  <2>2. PICK seen \in {l.seen, p1} :
           /\ p2' = [r \in Settings!Rows |-> Settings!Loaded(r, seen[r], l.merging)]
           /\ p10' = [r \in Settings!Rows |-> IF seen[r] = Settings!Absent THEN Settings!None ELSE p10[r]]
    BY <1>3, Zenon DEF Settings!LoadAnswers
  <2>3. \A r \in Settings!Rows : seen[r] # Settings!Absent => seen[r].text # "none"
    BY <2>2 DEF SettingsInv, SettingsSay
  <2>4. \A r \in Settings!Rows :
           /\ RowShaped(Settings!Loaded(r, seen[r], l.merging))
           /\ Settings!Loaded(r, seen[r], l.merging) # Settings!NoRow =>
                 Settings!Loaded(r, seen[r], l.merging).text # "none"
    BY <1>1, <2>3 DEF Settings!Loaded, Settings!NoRow, Settings!None, RowShaped
  <2>5. ASSUME NEW r \in Templates, p10'[r] # "none" PROVE p10'[r] = p10[r] /\ p2'[r] = p2[r]
    <3>1. r \in Settings!Rows
      BY DEF Settings!Rows
    <3>2. seen[r] # Settings!Absent /\ p10'[r] = p10[r]
      BY <2>2, <2>5, <3>1 DEF Settings!None
    <3>3. Settings!HasDraft(p2[r]) /\ l.merging = TRUE
      BY <2>5, <3>2 DEF SettingsInv, TypedIsSafe
    <3> QED
      BY <2>2, <3>1, <3>2, <3>3 DEF Settings!Loaded
  <2>6. Settings!QuestionHasDrafts'
    BY <2>1 DEF Settings!QuestionHasDrafts
  <2>7. /\ p2' = [r \in Settings!Rows |-> p2'[r]] /\ p10' = [r \in Settings!Rows |-> p10'[r]]
        /\ \A r \in Settings!Rows : RowShaped(p2'[r]) /\ (p2'[r] # Settings!NoRow => p2'[r].text # "none")
    BY <2>2, <2>4
  <2> QED
    BY <2>1, <2>5, <2>6, <2>7, SettingsRead
<1> QED
  BY <1>2, <1>3

LEMMA SettingsUser == SettingsInv /\ Settings!UserActs => SettingsInv'
<1> SUFFICES ASSUME SettingsInv, Settings!UserActs PROVE SettingsInv'
  OBVIOUS
<1>1. ASSUME NEW r \in Settings!Rows,
             \/ \E t \in Settings!Texts : Settings!Edit(r, t)
             \/ Settings!Revert(r) \/ Settings!SaveRow(r) \/ Settings!DeleteRow(r)
      PROVE  SettingsInv'
  BY <1>1, SettingsTyped, SettingsReverted, SettingsSaveRow, SettingsDelete
<1>2. ASSUME NEW list \in Settings!Lists,
             \/ Settings!AddRow(list)
             \/ \E r \in list, i \in 1..Settings!Cardinality(list) : Settings!Reorder(list, r, i)
      PROVE  SettingsInv'
  BY <1>2, SettingsAdd, SettingsReorder
<1>3. ASSUME \/ \E list \in Settings!Lists, t \in Settings!Texts : Settings!TypeForm(list, t)
             \/ Settings!RequestLeave \/ Settings!CancelLeave
      PROVE  SettingsInv'
  <2>1. UNCHANGED <<p1, p2, p3, p7, p8, p9, p10>>
    BY <1>3 DEF Settings!TypeForm, Settings!RequestLeave, Settings!CancelLeave
  <2>2. Settings!QuestionHasDrafts'
    BY <1>3 DEF SettingsInv, Settings!QuestionHasDrafts, Settings!TypeForm, Settings!RequestLeave,
       Settings!CancelLeave, Settings!Drafts
  <2> QED
    BY <2>1, <2>2, SettingsAsk
<1>4. ASSUME Settings!SaveDrafts PROVE SettingsInv'
  BY <1>4, SettingsSaveDrafts
<1>5. ASSUME Settings!EnterSettings \/ Settings!GoAway \/ Settings!Refresh PROVE SettingsInv'
  BY <1>5, SettingsGo
<1> QED
  BY <1>1, <1>2, <1>3, <1>4, <1>5, Zenon DEF Settings!UserActs

LEMMA SettingsStep == SettingsInv /\ Settings!Next => SettingsInv'
<1> SUFFICES ASSUME SettingsInv, Settings!Next PROVE SettingsInv'
  OBVIOUS
<1>1. ASSUME NEW c \in p8, \/ Settings!Serve(c) \/ Settings!CallSucceeds(c)
                           \/ Settings!CallFails(c) \/ Settings!StrayEnds(c)
      PROVE  SettingsInv'
  BY <1>1, SettingsServe, SettingsSucceeds, SettingsFails, SettingsStray
<1>2. ASSUME NEW l \in p9, Settings!LoadAnswers(l) \/ Settings!LoadFails(l) PROVE SettingsInv'
  BY <1>2, SettingsLoads DEF SettingsInv, SettingsShaped
<1> QED
  BY <1>1, <1>2, SettingsUser, Zenon DEF Settings!Next

-----------------------------------------------------------------------------
(* The settings: what rows, calls and loads hold.                           *)

ServerRows == [Settings!Rows -> [text : Valid \cup {"none"}, pos : Nat]]
PageRow    == [text : Settings!Texts \cup {"none"}, pos : Nat, orig : Settings!Texts \cup {"none"}]
CallFits(c) == c.row \in Settings!Rows /\ c.text \in Valid \cup {"none"} /\ c.pos \in Nat

SettingsFit ==
    /\ p1 \in ServerRows /\ p2 \in [Settings!Rows -> PageRow]
    /\ p3 \in BOOLEAN /\ p4 \in BOOLEAN /\ p5 \in BOOLEAN /\ doubt \in BOOLEAN
    /\ p6 \in [Settings!Lists -> Settings!Texts \cup {"none"}]
    /\ p10 \in [Settings!Rows -> Settings!Texts \cup {"none"}]
    /\ p7.kind \in {"none", "template", "drafts", "plain", "reload", "sort", "load"}
    /\ \A c \in p8 : CallFits(c)
    /\ \A c \in p7.saved : CallFits(c)
    /\ \A c \in Todo : CallFits(c)
    /\ \A l \in p9 : l.seen \in ServerRows

SettingsCount == acts \in 0..MaxTyping /\ faults \in 0..MaxLost

LEMMA SettingsAreTyped == SettingsFit /\ SettingsCount => Settings!TypeOK
  BY DEF SettingsFit, SettingsCount, ServerRows, PageRow, CallFits, Settings!TypeOK, Settings!None

LEMMA SettingsCountMoves == SettingsCount /\ Settings!Next => SettingsCount'
<1> SUFFICES ASSUME SettingsCount, Settings!Next PROVE SettingsCount'
  OBVIOUS
<1>1. MaxTyping \in Nat /\ MaxLost \in Nat
  BY BoundsAssumption
<1>2. CASE Settings!UserActs
  BY <1>1, <1>2 DEF Settings!UserActs, SettingsCount
<1>3. ASSUME acts' = acts, NEW c, Settings!Serve(c) \/ Settings!CallSucceeds(c)
                           \/ Settings!CallFails(c) \/ Settings!StrayEnds(c)
      PROVE  SettingsCount'
  BY <1>1, <1>3 DEF Settings!Serve, Settings!CallSucceeds, Settings!CallFails, Settings!StrayEnds, SettingsCount
<1>4. ASSUME acts' = acts, NEW l, Settings!LoadAnswers(l) \/ Settings!LoadFails(l) PROVE SettingsCount'
  <2>1. faults' = faults \/ (faults > 0 /\ faults' = faults - 1)
    BY <1>4, Zenon DEF Settings!LoadAnswers, Settings!LoadFails
  <2> QED
    BY <1>1, <1>4, <2>1 DEF SettingsCount
<1> QED
  BY <1>2, <1>3, <1>4, Zenon DEF Settings!Next

LEMMA SettingsCardinality == \A S : Settings!Cardinality(S) = Cardinality(S)
  BY DEF Settings!Cardinality, Cardinality

\* A list is finite, and so is what the page shows of it.
LEMMA ListsFinite ==
    ASSUME NEW list \in Settings!Lists, NEW S, S \subseteq list
    PROVE  list \subseteq Settings!Rows /\ IsFiniteSet(S) /\ Cardinality(S) \in Nat
<1>1. IsFiniteSet(list) /\ list \subseteq Settings!Rows
  BY SettingsRowsAssumption DEF Settings!Lists, Settings!Rows
<1> QED
  BY <1>1, FS_Subset, FS_CardinalityType

LEMMA SettingsFitStart == Settings!Init => SettingsFit /\ SettingsCount
<1> SUFFICES ASSUME Settings!Init PROVE SettingsFit /\ SettingsCount
  OBVIOUS
<1>1. /\ p2 = [r \in Settings!Rows |-> Settings!NoRow] /\ p10 = [r \in Settings!Rows |-> "none"]
      /\ p6 = [list \in Settings!Lists |-> "none"]
      /\ p7 = Settings!NoSave /\ p8 = {} /\ p9 = {Settings!Read(p3, FALSE)} /\ p4 = TRUE /\ p5 = FALSE
      /\ p3 \in BOOLEAN /\ doubt = FALSE /\ acts = MaxTyping /\ faults = MaxLost
  BY DEF Settings!Init, Settings!None
<1>2. PICK free \in {{}} \cup {{r} : r \in Settings!Rows} :
         p1 = [r \in Settings!Rows |-> IF r \in free THEN Settings!Absent
                      ELSE [text |-> CHOOSE t \in Valid : TRUE,
                            pos |-> Settings!Cardinality({q \in Settings!ListOf(r) \ free : q <= r})]]
  BY Zenon DEF Settings!Init
<1>3. (CHOOSE t \in Valid : TRUE) \in Valid
  BY ValidAssumption
<1>4. \A r \in Settings!Rows : Settings!Cardinality({q \in Settings!ListOf(r) \ free : q <= r}) \in Nat
  <2> TAKE r \in Settings!Rows
  <2>1. Settings!ListOf(r) \in Settings!Lists
    BY DEF Settings!ListOf, Settings!Lists
  <2> DEFINE S == {q \in Settings!ListOf(r) \ free : q <= r}
  <2>2. S \subseteq Settings!ListOf(r)
    OBVIOUS
  <2> HIDE DEF S
  <2>3. Cardinality(S) \in Nat
    BY <2>1, <2>2, ListsFinite
  <2>4. Settings!Cardinality(S) \in Nat
    BY <2>3, SettingsCardinality
  <2> QED
    BY <2>4 DEF S
<1>5. p1 \in ServerRows
  BY <1>2, <1>3, <1>4 DEF ServerRows, Settings!Absent, Settings!None
<1>6. /\ p7.kind = "none" /\ p7.saved = {} /\ Todo = {}
  BY <1>1 DEF Settings!NoSave, Settings!None, Todo
<1>7. \A l \in p9 : l.seen = p1
  BY <1>1 DEF Settings!Read
<1>8. p2 \in [Settings!Rows -> PageRow]
  BY <1>1 DEF PageRow, Settings!NoRow, Settings!None
<1>9. MaxTyping \in Nat /\ MaxLost \in Nat
  BY BoundsAssumption
<1>10. SettingsCount
  BY <1>1, <1>9 DEF SettingsCount
<1>11. /\ \A l \in p9 : l.seen \in ServerRows
       /\ p4 \in BOOLEAN /\ p5 \in BOOLEAN /\ doubt \in BOOLEAN
       /\ p6 \in [Settings!Lists -> Settings!Texts \cup {"none"}]
       /\ p10 \in [Settings!Rows -> Settings!Texts \cup {"none"}]
  BY <1>1, <1>5, <1>7
<1> QED
  BY <1>1, <1>5, <1>6, <1>8, <1>10, <1>11 DEF SettingsFit

-----------------------------------------------------------------------------
(* What the user does with the rows.                                       *)

\* Nothing but what is on screen changes, and perhaps a load more is started.
LEMMA SettingsFitEdit ==
    ASSUME SettingsFit, UNCHANGED <<p1, p7, p8, doubt>>, NEW m,
           p9' = p9 \/ p9' = p9 \cup {Settings!Read(m, FALSE)},
           p2' \in [Settings!Rows -> PageRow], p3' \in BOOLEAN, p4' \in BOOLEAN, p5' \in BOOLEAN,
           p6' \in [Settings!Lists -> Settings!Texts \cup {"none"}],
           p10' \in [Settings!Rows -> Settings!Texts \cup {"none"}]
    PROVE  SettingsFit'
<1>1. Settings!Read(m, FALSE).seen = p1
  BY DEF Settings!Read
<1>2. Todo' = Todo
  BY DEF Todo
<1> QED
  BY <1>1, <1>2 DEF SettingsFit

LEMMA RevertedFits == ASSUME NEW x \in PageRow PROVE Settings!Reverted(x) \in PageRow
  BY DEF PageRow, Settings!Reverted, Settings!None

LEMMA SettingsFitTyped ==
    ASSUME SettingsFit, NEW r \in Settings!Rows, NEW t \in Settings!Texts, Settings!Edit(r, t) \/ Settings!Revert(r)
    PROVE  SettingsFit'
<1>1. /\ p2 \in [Settings!Rows -> PageRow] /\ p10 \in [Settings!Rows -> Settings!Texts \cup {"none"}]
      /\ p2[r] \in PageRow
  BY DEF SettingsFit
<1>2. UNCHANGED <<p1, p3, p4, p5, p6, p7, p8, p9, doubt>>
  BY DEF Settings!Edit, Settings!Revert
<1>3. p2' \in [Settings!Rows -> PageRow] /\ p10' \in [Settings!Rows -> Settings!Texts \cup {"none"}]
  <2>1. CASE Settings!Edit(r, t)
    <3> DEFINE row == [p2[r] EXCEPT !.text = t, !.orig = IF p2[r].orig = Settings!None THEN p2[r].text ELSE p2[r].orig]
    <3>1. row \in PageRow
      BY <1>1 DEF PageRow
    <3>2. p2' = [p2 EXCEPT ![r] = row]
      BY <2>1, <1>1 DEF Settings!Edit, PageRow
    <3> HIDE DEF row
    <3>3. p2' \in [Settings!Rows -> PageRow]
      BY <1>1, <3>1, <3>2
    <3>4. p10' = p10 \/ \E x \in Settings!Texts \cup {"none"} : p10' = [p10 EXCEPT ![r] = x]
      BY <2>1 DEF Settings!Edit, Settings!None
    <3> QED
      BY <1>1, <3>3, <3>4
  <2>2. CASE Settings!Revert(r)
    <3>1. p2' = [p2 EXCEPT ![r] = Settings!Reverted(p2[r])] /\ p10' = [p10 EXCEPT ![r] = "none"]
      BY <2>2 DEF Settings!Revert, Settings!None
    <3> QED
      BY <1>1, <3>1, RevertedFits
  <2> QED
    BY <2>1, <2>2
<1> QED
  BY <1>2, <1>3, SettingsFitEdit DEF SettingsFit

LEMMA SettingsFitGo ==
    ASSUME SettingsFit,
           \/ \E list \in Settings!Lists, t \in Settings!Texts : Settings!TypeForm(list, t)
           \/ Settings!RequestLeave \/ Settings!CancelLeave
           \/ Settings!EnterSettings \/ Settings!GoAway \/ Settings!Refresh
    PROVE  SettingsFit'
<1>1. CASE \E list \in Settings!Lists, t \in Settings!Texts : Settings!TypeForm(list, t)
  <2>1. PICK list \in Settings!Lists, t \in Settings!Texts : Settings!TypeForm(list, t)
    BY <1>1
  <2>2. p6' = [p6 EXCEPT ![list] = t] /\ UNCHANGED <<p1, p2, p3, p4, p5, p7, p8, p9, p10, doubt>>
    BY <2>1 DEF Settings!TypeForm
  <2>3. p6' \in [Settings!Lists -> Settings!Texts \cup {"none"}]
    BY <2>2 DEF SettingsFit
  <2> QED
    BY <2>2, <2>3, SettingsFitEdit DEF SettingsFit
<1>2. CASE Settings!RequestLeave \/ Settings!CancelLeave
  <2>1. p5' \in BOOLEAN /\ UNCHANGED <<p1, p2, p3, p4, p6, p7, p8, p9, p10, doubt>>
    BY <1>2 DEF Settings!RequestLeave, Settings!CancelLeave
  <2> QED
    BY <2>1, SettingsFitEdit DEF SettingsFit
<1>3. CASE Settings!EnterSettings
  <2>1. /\ p3' = TRUE /\ p4' = TRUE /\ UNCHANGED <<p1, p2, p5, p6, p7, p8, p10, doubt>>
        /\ p9' = p9 \cup {Settings!Read(TRUE, FALSE)}
    BY <1>3 DEF Settings!EnterSettings, Settings!Goto
  <2>2. /\ p2' \in [Settings!Rows -> PageRow] /\ p5' \in BOOLEAN /\ p3' \in BOOLEAN /\ p4' \in BOOLEAN
        /\ p6' \in [Settings!Lists -> Settings!Texts \cup {"none"}]
        /\ p10' \in [Settings!Rows -> Settings!Texts \cup {"none"}]
    BY <2>1 DEF SettingsFit
  <2>3. ASSUME NEW m, m = TRUE, p9' = p9 \cup {Settings!Read(m, FALSE)} PROVE SettingsFit'
    BY <2>1, <2>2, <2>3, SettingsFitEdit
  <2> QED
    BY <2>1, <2>3
<1>4. CASE Settings!GoAway
  <2>1. /\ p3' = FALSE /\ p4' = TRUE /\ p5' = FALSE /\ UNCHANGED <<p1, p6, p7, p8, doubt>>
        /\ p9' = p9 \cup {Settings!Read(FALSE, FALSE)}
        /\ p2' = [r \in Settings!Rows |-> IF r \in Templates THEN Settings!Reverted(p2[r]) ELSE p2[r]]
        /\ p10' = [r \in Settings!Rows |-> "none"]
    BY <1>4 DEF Settings!GoAway, Settings!Goto, Settings!None
  <2>2. /\ p2' \in [Settings!Rows -> PageRow] /\ p5' \in BOOLEAN /\ p3' \in BOOLEAN /\ p4' \in BOOLEAN
        /\ p6' \in [Settings!Lists -> Settings!Texts \cup {"none"}]
        /\ p10' \in [Settings!Rows -> Settings!Texts \cup {"none"}]
    BY <2>1, RevertedFits DEF SettingsFit
  <2>3. ASSUME NEW m, m = FALSE, p9' = p9 \cup {Settings!Read(m, FALSE)} PROVE SettingsFit'
    BY <2>1, <2>2, <2>3, SettingsFitEdit
  <2> QED
    BY <2>1, <2>3
<1>5. CASE Settings!Refresh
  <2>1. /\ p4' = TRUE /\ UNCHANGED <<p1, p2, p3, p5, p6, p7, p8, p10, doubt>>
        /\ p9' = p9 \cup {Settings!Read(p3, FALSE)}
    BY <1>5 DEF Settings!Refresh
  <2>2. /\ p2' \in [Settings!Rows -> PageRow] /\ p5' \in BOOLEAN /\ p3' \in BOOLEAN /\ p4' \in BOOLEAN
        /\ p6' \in [Settings!Lists -> Settings!Texts \cup {"none"}]
        /\ p10' \in [Settings!Rows -> Settings!Texts \cup {"none"}]
    BY <2>1 DEF SettingsFit
  <2>3. ASSUME NEW m, m = p3, p9' = p9 \cup {Settings!Read(m, FALSE)} PROVE SettingsFit'
    BY <2>1, <2>2, <2>3, SettingsFitEdit
  <2> QED
    BY <2>1, <2>3
<1> QED
  BY <1>1, <1>2, <1>3, <1>4, <1>5

-----------------------------------------------------------------------------
(* What is sent fits, also the places of a reorder.                        *)

LEMMA SettingsFitSaves ==
    ASSUME SettingsFit, NEW kind \in {"template", "drafts", "plain", "reload", "sort"}, NEW now, NEW later,
           Settings!Start(kind, now, later),
           \A c \in now : CallFits(c), \A i \in DOMAIN later : CallFits(later[i]),
           p2' \in [Settings!Rows -> PageRow], p10' \in [Settings!Rows -> Settings!Texts \cup {"none"}]
    PROVE  SettingsFit'
<1>1. /\ p7' = [kind |-> kind, merging |-> p3, todo |-> later, saved |-> {}]
      /\ p8' = p8 \cup now /\ UNCHANGED <<p1, p3, p4, p5, p6, p9, doubt>>
  BY DEF Settings!Start
<1>2. p7'.kind = kind /\ p7'.saved = {} /\ Todo' = {later[i] : i \in DOMAIN later}
  BY <1>1 DEF Todo
<1> QED
  BY <1>1, <1>2 DEF SettingsFit

LEMMA CallFitsNew ==
    ASSUME NEW kind, NEW r \in Settings!Rows, NEW text \in Valid \cup {"none"}, NEW pos \in Nat
    PROVE  CallFits(Settings!Call(kind, r, text, pos))
  BY DEF CallFits, Settings!Call

LEMMA PatchFits ==
    ASSUME SettingsFit, NEW r \in Settings!Rows, p2[r].text \in Valid
    PROVE  CallFits(Settings!Patch(r))
<1>1. p2[r].pos \in Nat
  BY DEF SettingsFit, PageRow
<1> QED
  BY <1>1, CallFitsNew DEF Settings!Patch

LEMMA SettingsFitRow ==
    ASSUME SettingsFit, NEW r \in Settings!Rows, Settings!SaveRow(r) \/ Settings!DeleteRow(r)
    PROVE  SettingsFit'
<1>1. CASE Settings!SaveRow(r)
  <2> DEFINE c == Settings!Patch(r)
             now == {c}
  <2>1. CallFits(c)
    BY <1>1, PatchFits DEF Settings!SaveRow
  <2>2. PICK kind \in {"template", "plain"} : Settings!Start(kind, now, <<>>)
    BY <1>1 DEF Settings!SaveRow
  <2> HIDE DEF c
  <2>3. \A d \in now : CallFits(d)
    BY <2>1
  <2>4. UNCHANGED <<p2, p10>>
    BY <1>1 DEF Settings!SaveRow
  <2> HIDE DEF now
  <2>5. ASSUME NEW later, later = <<>>, Settings!Start(kind, now, later) PROVE SettingsFit'
    <3>1. p2' \in [Settings!Rows -> PageRow] /\ p10' \in [Settings!Rows -> Settings!Texts \cup {"none"}]
      BY <2>4 DEF SettingsFit
    <3>2. \A i \in DOMAIN later : CallFits(later[i])
      BY <2>5
    <3> QED
      BY <2>3, <2>5, <3>1, <3>2, SettingsFitSaves
  <2> QED
    BY <2>2, <2>5
<1>2. CASE Settings!DeleteRow(r)
  <2> DEFINE c == Settings!Call("delete", r, Settings!None, 0)
             now == {c}
  <2>1. CallFits(c)
    BY CallFitsNew DEF Settings!None
  <2>2. Settings!Start("reload", now, <<>>)
    BY <1>2 DEF Settings!DeleteRow
  <2> HIDE DEF c
  <2>3. \A d \in now : CallFits(d)
    BY <2>1
  <2>4. UNCHANGED p2 /\ p10' = [p10 EXCEPT ![r] = "none"]
    BY <1>2 DEF Settings!DeleteRow, Settings!None
  <2> HIDE DEF now
  <2>5. ASSUME NEW kind, kind = "reload", NEW later, later = <<>>, Settings!Start(kind, now, later) PROVE SettingsFit'
    <3>1. p2' \in [Settings!Rows -> PageRow] /\ p10' \in [Settings!Rows -> Settings!Texts \cup {"none"}]
      BY <2>4 DEF SettingsFit
    <3>2. \A i \in DOMAIN later : CallFits(later[i])
      BY <2>5
    <3> QED
      BY <2>3, <2>5, <3>1, <3>2, SettingsFitSaves
  <2> QED
    BY <2>2, <2>5
<1> QED
  BY <1>1, <1>2

LEMMA SettingsFitAdd ==
    ASSUME SettingsFit, NEW list \in Settings!Lists, Settings!AddRow(list)
    PROVE  SettingsFit'
<1> DEFINE S == Settings!Shown(list)
           n == Settings!Cardinality(S) + 1
<1>1. PICK q \in list : Settings!Start("reload", {Settings!Call("add", q, p6[list], n)}, <<>>)
  BY Zenon DEF Settings!AddRow
<1>2. p6[list] \in Valid /\ UNCHANGED <<p2, p10>>
  BY DEF Settings!AddRow
<1>3. q \in Settings!Rows /\ n \in Nat
  <2>1. S \subseteq list
    BY DEF Settings!Shown
  <2> HIDE DEF S
  <2> QED
    BY <2>1, ListsFinite, SettingsCardinality
<1> DEFINE c == Settings!Call("add", q, p6[list], n)
           now == {c}
<1> HIDE DEF n
<1>4. CallFits(c)
  BY <1>2, <1>3, CallFitsNew
<1>5. Settings!Start("reload", now, <<>>)
  BY <1>1
<1> HIDE DEF c
<1>6. \A d \in now : CallFits(d)
  BY <1>4
<1> HIDE DEF now
<1>7. ASSUME NEW kind, kind = "reload", NEW later, later = <<>>, Settings!Start(kind, now, later) PROVE SettingsFit'
  <2>1. p2' \in [Settings!Rows -> PageRow] /\ p10' \in [Settings!Rows -> Settings!Texts \cup {"none"}]
    BY <1>2 DEF SettingsFit
  <2>2. \A i \in DOMAIN later : CallFits(later[i])
    BY <1>7
  <2> QED
    BY <1>6, <1>7, <2>1, <2>2, SettingsFitSaves
<1> QED
  BY <1>5, <1>7

LEMMA SettingsFitDrafts == ASSUME SettingsFit, Settings!SaveDrafts PROVE SettingsFit'
<1> DEFINE ds == Settings!Drafts(p2)
           n  == Settings!Cardinality(ds)
<1>1. /\ ds # {} /\ UNCHANGED <<p2, p10>> /\ \A r \in ds : p2[r].text \in Valid
      /\ \E order \in [1..n -> ds] :
            Settings!Start("drafts", {Head([i \in DOMAIN order |-> Settings!Patch(order[i])])},
                           Tail([i \in DOMAIN order |-> Settings!Patch(order[i])]))
  BY DEF Settings!SaveDrafts, Settings!InOrder
<1>2. PICK order \in [1..n -> ds] :
            Settings!Start("drafts", {Head([i \in DOMAIN order |-> Settings!Patch(order[i])])},
                           Tail([i \in DOMAIN order |-> Settings!Patch(order[i])]))
  BY <1>1
<1> DEFINE queue == [i \in 1..n |-> Settings!Patch(order[i])]
           now   == {Head(queue)}
           later == Tail(queue)
           Calls == {Settings!Patch(q) : q \in ds}
<1>3. Settings!Start("drafts", now, later)
  BY <1>2
<1>4. ds \subseteq Templates /\ Templates \in Settings!Lists
  BY DEF Settings!Drafts, Settings!Lists
<1>5. n \in Nat \ {0}
  <2> HIDE DEF ds
  <2>1. IsFiniteSet(ds) /\ n \in Nat /\ n = Cardinality(ds)
    BY <1>4, ListsFinite, SettingsCardinality
  <2> QED
    BY <1>1, <2>1, FS_EmptySet
<1>6. \A c \in Calls : CallFits(c)
  <2>1. \A q \in ds : q \in Settings!Rows
    BY <1>4 DEF Settings!Rows
  <2> HIDE DEF ds
  <2> QED
    BY <1>1, <2>1, PatchFits
<1> HIDE DEF ds, n
<1>7. queue \in Seq(Calls) /\ queue # <<>> /\ DOMAIN queue = 1..n
  BY <1>5
<1>8. \A i \in DOMAIN queue : queue[i] \in Calls
  BY <1>7
<1> HIDE DEF queue, Calls
<1>9. Head(queue) \in Calls /\ \A i \in DOMAIN later : later[i] \in Calls
  BY <1>7, <1>8, TailOf DEF IsSeq
<1>10. (\A c \in now : CallFits(c)) /\ \A i \in DOMAIN later : CallFits(later[i])
  BY <1>6, <1>9
<1> HIDE DEF now, later
<1>11. p2' \in [Settings!Rows -> PageRow] /\ p10' \in [Settings!Rows -> Settings!Texts \cup {"none"}]
  BY <1>1 DEF SettingsFit
<1>12. ASSUME NEW kind, kind = "drafts", Settings!Start(kind, now, later) PROVE SettingsFit'
  BY <1>10, <1>11, <1>12, SettingsFitSaves
<1> QED
  BY <1>3, <1>12

\* Whatever is in S has a place in o.
Places(o, n, S) == DOMAIN o = 1..n /\ \A x \in S : \E i \in 1..n : o[i] = x

\* A row that is dragged takes its place and the others keep theirs: every row
\* has one.
LEMMA SplitAt ==
    ASSUME NEW S, NEW s \in Seq(S), NEW i \in 1..(Len(s) + 1)
    PROVE  /\ SubSeq(s, 1, i - 1) \in Seq(S) /\ SubSeq(s, i, Len(s)) \in Seq(S)
           /\ Len(SubSeq(s, 1, i - 1)) = i - 1
           /\ Len(SubSeq(s, i, Len(s))) = Len(s) - i + 1
           /\ \A j \in 1..(i - 1) : SubSeq(s, 1, i - 1)[j] = s[j]
           /\ \A j \in 1..(Len(s) - i + 1) : SubSeq(s, i, Len(s))[j] = s[i + j - 1]
  OBVIOUS

LEMMA InsertedAll ==
    ASSUME NEW U, NEW k \in Nat, NEW r, NEW s \in [1..k -> U], \A x \in U : \E n \in 1..k : s[n] = x,
           NEW i \in 1..(k + 1), NEW o, o = Settings!InsertAt(s, i, r)
    PROVE  Places(o, k + 1, U \cup {r})
<1> DEFINE a == SubSeq(s, 1, i - 1)
           b == SubSeq(s, i, k)
<1>4. s \in Seq(U) /\ Len(s) = k /\ i \in 1..(Len(s) + 1)
  OBVIOUS
<1>5. /\ a \in Seq(U) /\ Len(a) = i - 1 /\ \A n \in 1..(i - 1) : a[n] = s[n]
      /\ b \in Seq(U) /\ Len(b) = k - i + 1 /\ \A n \in 1..(k - i + 1) : b[n] = s[i + n - 1]
  BY <1>4, SplitAt
<1>6. o = a \o <<r>> \o b
  BY <1>4 DEF Settings!InsertAt
<1> HIDE DEF a, b
<1> DEFINE V == U \cup {r}
           c == a \o <<r>>
<1>8. /\ c \in Seq(V) /\ Len(c) = i
      /\ \A n \in 1..(i - 1) : c[n] = a[n]
      /\ c[i] = r
  <2>1. a \in Seq(V) /\ <<r>> \in Seq(V) /\ Len(<<r>>) = 1 /\ <<r>>[1] = r
    BY <1>5
  <2>2. /\ c \in Seq(V) /\ Len(c) = Len(a) + Len(<<r>>)
        /\ \A n \in 1..(Len(a) + Len(<<r>>)) : c[n] = IF n <= Len(a) THEN a[n] ELSE <<r>>[n - Len(a)]
    <3> HIDE DEF V
    <3> QED
      BY <2>1, ConcatProperties
  <2> HIDE DEF V, c
  <2> QED
    BY <1>5, <2>1, <2>2
<1>7. /\ DOMAIN o = 1..(k + 1)
      /\ \A n \in 1..i : o[n] = c[n]
      /\ \A n \in (i + 1)..(k + 1) : o[n] = b[n - i]
  <2>1. c \in Seq(V) /\ b \in Seq(V) /\ Len(c) = i /\ Len(b) = k - i + 1 /\ o = c \o b
    BY <1>5, <1>6, <1>8
  <2> HIDE DEF V, c
  <2>4. /\ c \o b \in Seq(V) /\ Len(c \o b) = Len(c) + Len(b)
        /\ \A n \in 1..(Len(c) + Len(b)) : (c \o b)[n] = IF n <= Len(c) THEN c[n] ELSE b[n - Len(c)]
    BY <2>1, ConcatProperties
  <2>2. /\ o \in Seq(V) /\ Len(o) = i + (k - i + 1)
        /\ \A n \in 1..(i + (k - i + 1)) : o[n] = IF n <= i THEN c[n] ELSE b[n - i]
    BY <2>1, <2>4, Zenon
  <2>5. i + (k - i + 1) = k + 1
    OBVIOUS
  <2>3. DOMAIN o = 1..Len(o)
    BY <2>2
  <2> QED
    BY <2>2, <2>3, <2>5
<1> HIDE DEF c
<1>9. ASSUME NEW x \in V PROVE \E n \in 1..(k + 1) : o[n] = x
  <2>1. CASE x = r
    BY <1>7, <1>8, <2>1
  <2>2. CASE x # r
    <3>1. PICK n \in 1..k : s[n] = x
      BY <2>2
    <3>2. CASE n < i
      <4>1. n \in 1..(i - 1) /\ n \in 1..i /\ n \in 1..(k + 1)
        BY <3>1, <3>2
      <4> QED
        BY <1>5, <1>7, <1>8, <3>1, <4>1
    <3>3. CASE n >= i
      <4>1. /\ n + 1 \in (i + 1)..(k + 1) /\ (n + 1) - i \in 1..(k - i + 1)
            /\ n + 1 \in 1..(k + 1) /\ i + ((n + 1) - i) - 1 = n
        BY <3>1, <3>3
      <4>2. o[n + 1] = b[(n + 1) - i] /\ b[(n + 1) - i] = s[i + ((n + 1) - i) - 1]
        BY <1>5, <1>7, <4>1
      <4> QED
        BY <3>1, <4>1, <4>2
    <3> QED
      BY <3>1, <3>2, <3>3
  <2> QED
    BY <2>1, <2>2
<1> QED
  BY <1>7, <1>9 DEF Places

LEMMA SettingsFitReorder ==
    ASSUME SettingsFit, NEW list \in Settings!Lists, NEW r \in list, NEW i \in Nat, Settings!Reorder(list, r, i)
    PROVE  SettingsFit'
<1> DEFINE T == Settings!Shown(list)
<1>1. /\ T \subseteq list /\ list \subseteq Settings!Rows /\ IsFiniteSet(T)
      /\ list \subseteq Nat
  <2>1. T \subseteq list
    BY DEF Settings!Shown
  <2> HIDE DEF T
  <2> QED
    BY <2>1, ListsFinite, SettingsRowsAssumption DEF Settings!Rows
<1>2. PICK others \in Settings!InOrder(T \ {r}), dragged \in BOOLEAN :
         LET order    == Settings!InsertAt(others, i, r)
             Place(x) == 10 * CHOOSE m \in DOMAIN order : order[m] = x
         IN  /\ r \in T /\ i \in 1..Settings!Cardinality(T)
             /\ Settings!Start("sort", {Settings!Call("sort", x, Settings!None, Place(x)) : x \in T}, <<>>)
             /\ p2' = [x \in Settings!Rows |->
                   IF x \notin T THEN p2[x]
                   ELSE [(IF x = r /\ dragged THEN Settings!Reverted(p2[x]) ELSE p2[x])
                            EXCEPT !.pos = Place(x), !.orig = Settings!None]]
             /\ UNCHANGED p10
  BY Zenon DEF Settings!Reorder
<1> DEFINE order  == Settings!InsertAt(others, i, r)
           Index(x) == CHOOSE m \in DOMAIN order : order[m] = x
           Place(x) == 10 * Index(x)
           now == {Settings!Call("sort", x, Settings!None, Place(x)) : x \in T}
           Put(x) == [(IF x = r /\ dragged THEN Settings!Reverted(p2[x]) ELSE p2[x])
                         EXCEPT !.pos = Place(x), !.orig = Settings!None]
<1>3. /\ r \in T /\ i \in 1..Cardinality(T) /\ Settings!Start("sort", now, <<>>)
      /\ p2' = [x \in Settings!Rows |-> IF x \notin T THEN p2[x] ELSE Put(x)]
      /\ UNCHANGED p10
  BY <1>2, SettingsCardinality
<1>4. /\ others \in [1..Cardinality(T \ {r}) -> T \ {r}]
      /\ \A m, n \in 1..Cardinality(T \ {r}) : m < n => others[m] # others[n]
  <2> HIDE DEF T
  <2> DEFINE U == T \ {r}
  <2>1. /\ others \in [1..Settings!Cardinality(U) -> U]
        /\ \A m, n \in DOMAIN others : m < n => Settings!Before(others[m], others[n])
    BY DEF Settings!InOrder
  <2>2. \A x \in U : x \in Nat /\ p2[x].pos \in Nat
    BY <1>1 DEF SettingsFit, PageRow
  <2>3. \A x \in U : ~Settings!Before(x, x)
    BY <2>2 DEF Settings!Before
  <2>4. Settings!Cardinality(U) = Cardinality(U)
    BY SettingsCardinality
  <2> HIDE DEF U
  <2>5. \A m, n \in 1..Cardinality(U) : m < n => others[m] # others[n]
    BY <2>1, <2>3, <2>4
  <2> QED
    BY <2>1, <2>4, <2>5 DEF U
<1>5. \A x \in T : Place(x) \in Nat
  <2>1. DOMAIN order \subseteq Nat /\ \A x \in T : \E n \in DOMAIN order : order[n] = x
    <3> DEFINE U == T \ {r}
               k == Cardinality(U)
    <3>1. IsFiniteSet(U) /\ k \in Nat /\ Cardinality(T) = k + 1
      <4> HIDE DEF T
      <4>1. IsFiniteSet(U) /\ k = Cardinality(T) - 1 /\ Cardinality(T) \in Nat
        BY <1>1, <1>3, FS_RemoveElement, FS_CardinalityType
      <4>2. k \in Nat
        BY <4>1, FS_CardinalityType
      <4> QED
        BY <4>1, <4>2
    <3>2. others \in [1..k -> U] /\ \A m, n \in 1..k : m < n => others[m] # others[n]
      BY <1>4
    <3>3. i \in 1..(k + 1) /\ U \cup {r} = T
      BY <1>3, <3>1
    <3> HIDE DEF U
    <3>4. \A x \in U : \E n \in 1..k : others[n] = x
      BY <3>1, <3>2, ListedOnce
    <3> HIDE DEF k, Index
    <3>5. Places(order, k + 1, U \cup {r})
      <4>1. k \in Nat /\ others \in [1..k -> U] /\ i \in 1..(k + 1)
        BY <3>1, <3>2, <3>3
      <4> HIDE DEF T
      <4> QED
        BY <3>4, <4>1, InsertedAll
    <3>6. DOMAIN order = 1..(k + 1) /\ \A x \in U \cup {r} : \E n \in 1..(k + 1) : order[n] = x
      BY <3>5 DEF Places
    <3> HIDE DEF order, T
    <3>7. DOMAIN order \subseteq Nat
      BY <3>1, <3>6
    <3>8. \A x \in T : \E n \in DOMAIN order : order[n] = x
      BY <3>3, <3>6, Zenon
    <3> QED
      BY <3>7, <3>8
  <2> HIDE DEF T, order
  <2>2. \A x \in T : Index(x) \in Nat
    BY <2>1
  <2> HIDE DEF Index
  <2> QED
    BY <2>2
<1> HIDE DEF Place, T
<1>6. \A x \in T : Put(x) \in PageRow
  <2> TAKE x \in T
  <2>1. p2[x] \in PageRow
    BY <1>1 DEF SettingsFit
  <2>2. Settings!Reverted(p2[x]) \in PageRow
    BY <2>1, RevertedFits
  <2> QED
    BY <1>5, <2>1, <2>2 DEF PageRow, Settings!None
<1> HIDE DEF Put
<1>7. p2' \in [Settings!Rows -> PageRow] /\ p10' \in [Settings!Rows -> Settings!Texts \cup {"none"}]
  BY <1>3, <1>6 DEF SettingsFit
<1>8. \A c \in now : CallFits(c)
  <2>1. \A x \in T : CallFits(Settings!Call("sort", x, Settings!None, Place(x)))
    <3> TAKE x \in T
    <3>1. x \in Settings!Rows /\ Settings!None \in Valid \cup {"none"} /\ Place(x) \in Nat
      BY <1>1, <1>5 DEF Settings!None
    <3> QED
      BY <3>1, CallFitsNew
  <2> QED
    BY <2>1
<1> HIDE DEF now
<1>9. ASSUME NEW kind, kind = "sort", NEW later, later = <<>>, Settings!Start(kind, now, later) PROVE SettingsFit'
  <2>1. \A n \in DOMAIN later : CallFits(later[n])
    BY <1>9
  <2> QED
    BY <1>7, <1>8, <1>9, <2>1, SettingsFitSaves
<1> QED
  BY <1>3, <1>9

LEMMA SettingsFitUser == SettingsFit /\ Settings!UserActs => SettingsFit'
<1> SUFFICES ASSUME SettingsFit, Settings!UserActs PROVE SettingsFit'
  OBVIOUS
<1>1. ASSUME NEW r \in Settings!Rows,
             \/ \E t \in Settings!Texts : Settings!Edit(r, t)
             \/ Settings!Revert(r) \/ Settings!SaveRow(r) \/ Settings!DeleteRow(r)
      PROVE  SettingsFit'
  <2>1. \E t : t \in Settings!Texts
    BY DEF Settings!Texts
  <2> QED
    BY <1>1, <2>1, SettingsFitTyped, SettingsFitRow
<1>2. ASSUME NEW list \in Settings!Lists,
             \/ Settings!AddRow(list)
             \/ \E r \in list, i \in 1..Settings!Cardinality(list) : Settings!Reorder(list, r, i)
      PROVE  SettingsFit'
  <2>1. \A i \in 1..Settings!Cardinality(list) : i \in Nat
    OBVIOUS
  <2> QED
    BY <1>2, <2>1, SettingsFitAdd, SettingsFitReorder
<1>3. ASSUME \/ \E list \in Settings!Lists, t \in Settings!Texts : Settings!TypeForm(list, t)
             \/ Settings!RequestLeave \/ Settings!CancelLeave
             \/ Settings!EnterSettings \/ Settings!GoAway \/ Settings!Refresh
      PROVE  SettingsFit'
  BY <1>3, SettingsFitGo
<1> QED
  BY <1>1, <1>2, <1>3, SettingsFitDrafts, Zenon DEF Settings!UserActs

-----------------------------------------------------------------------------
(* The server, the answers and the loads.                                  *)

LEMMA SettingsFitServe == ASSUME SettingsInv, SettingsFit, NEW c \in p8, Settings!Serve(c) PROVE SettingsFit'
<1> DEFINE d == [c EXCEPT !.phase = IF Settings!Refused(c) THEN "refused" ELSE "done"]
           x == CASE c.kind \in {"patch", "add"} -> [text |-> c.text, pos |-> c.pos]
                  [] c.kind = "sort"   -> [p1[c.row] EXCEPT !.pos = c.pos]
                  [] c.kind = "delete" -> Settings!Absent
<1>1. /\ p8' = (p8 \ {c}) \cup {d} /\ UNCHANGED <<p2, p3, p4, p5, p6, p7, p9, p10>>
      /\ p1' = (IF Settings!Refused(c) THEN p1 ELSE [p1 EXCEPT ![c.row] = x])
      /\ doubt' = (doubt \/ c.stray)
  BY DEF Settings!Serve
<1>2. SettingCall(c) /\ CallFits(c)
  BY DEF SettingsInv, SettingsShaped, SettingsFit
<1>3. CallFits(d)
  BY <1>2 DEF SettingCall, CallFits
<1>4. x \in [text : Valid \cup {"none"}, pos : Nat]
  <2>1. CASE c.kind \in {"patch", "add"}
    <3>1. x = [text |-> c.text, pos |-> c.pos]
      BY <2>1
    <3> HIDE DEF x
    <3> QED
      BY <1>2, <3>1 DEF CallFits
  <2>2. CASE c.kind = "sort"
    <3>1. x = [p1[c.row] EXCEPT !.pos = c.pos]
      BY <2>2
    <3>2. p1[c.row] \in [text : Valid \cup {"none"}, pos : Nat]
      BY <1>2 DEF SettingsFit, ServerRows, CallFits
    <3> HIDE DEF x
    <3> QED
      BY <1>2, <3>1, <3>2 DEF CallFits
  <2>3. CASE c.kind = "delete"
    <3>1. x = Settings!Absent
      BY <2>3
    <3> HIDE DEF x
    <3> QED
      BY <3>1 DEF Settings!Absent, Settings!None
  <2> QED
    BY <1>2, <2>1, <2>2, <2>3 DEF SettingCall
<1> HIDE DEF d, x
<1>5. p1' \in ServerRows
  BY <1>1, <1>2, <1>4 DEF SettingsFit, ServerRows, CallFits
<1>6. Todo' = Todo
  BY <1>1 DEF Todo
<1>7. \A e \in p8' : CallFits(e)
  BY <1>1, <1>3 DEF SettingsFit
<1>8. doubt' \in BOOLEAN
  BY <1>1, <1>2 DEF SettingCall, SettingsFit
<1> QED
  BY <1>1, <1>5, <1>6, <1>7, <1>8 DEF SettingsFit

\* What the answers bring, and what a load brings, fits.
LEMMA MergedFits ==
    ASSUME SettingsFit, NEW saved, \A c \in saved : CallFits(c)
    PROVE  Settings!Merged(saved) \in [Settings!Rows -> PageRow]
<1> DEFINE New(r) == IF p2[r] # Settings!NoRow /\ \E c \in saved : c.row = r
                     THEN LET c == CHOOSE d \in saved : d.row = r
                          IN  [text |-> c.text, pos |-> c.pos, orig |-> Settings!None]
                     ELSE p2[r]
<1>1. Settings!Merged(saved) = [r \in Settings!Rows |-> New(r)]
  BY DEF Settings!Merged
<1>2. \A r \in Settings!Rows : New(r) \in PageRow
  <2> TAKE r \in Settings!Rows
  <2>1. CASE p2[r] # Settings!NoRow /\ \E c \in saved : c.row = r
    <3> DEFINE c == CHOOSE d \in saved : d.row = r
    <3>1. c \in saved
      BY <2>1
    <3>2. New(r) = [text |-> c.text, pos |-> c.pos, orig |-> Settings!None]
      BY <2>1
    <3> HIDE DEF c, New
    <3> QED
      BY <3>1, <3>2 DEF CallFits, PageRow, Settings!None, Settings!Texts
  <2>2. CASE ~(p2[r] # Settings!NoRow /\ \E c \in saved : c.row = r)
    BY <2>2 DEF SettingsFit
  <2> QED
    BY <2>1, <2>2
<1> HIDE DEF New
<1> QED
  BY <1>1, <1>2

LEMMA SettingsFitEnds ==
    ASSUME SettingsFit, NEW saved, Settings!EndsWith(saved) \/ Settings!Reload(saved),
           \A c \in saved : CallFits(c), \A c \in p8' : CallFits(c), UNCHANGED <<p1, p3>>,
           SettingsInv,
           p6' \in [Settings!Lists -> Settings!Texts \cup {"none"}], doubt' \in BOOLEAN
    PROVE  SettingsFit'
<1>1. CASE Settings!EndsWith(saved)
  <2>1. /\ p2' = Settings!Merged(saved) /\ p7' = Settings!NoSave /\ UNCHANGED <<p4, p9>>
        /\ p10' = [r \in Settings!Rows |-> IF \E c \in saved : c.row = r /\ c.text = p10[r] THEN "none" ELSE p10[r]]
        /\ p5' \in BOOLEAN
    BY <1>1 DEF Settings!EndsWith, Settings!KeepOpen, Settings!None
  <2>2. p2' \in [Settings!Rows -> PageRow] /\ p10' \in [Settings!Rows -> Settings!Texts \cup {"none"}]
    BY <2>1, MergedFits DEF SettingsFit
  <2>3. p7'.kind = "none" /\ p7'.saved = {} /\ Todo' = {}
    BY <2>1 DEF Settings!NoSave, Settings!None, Todo
  <2> QED
    BY <2>1, <2>2, <2>3 DEF SettingsFit
<1>2. CASE Settings!Reload(saved)
  <2> DEFINE l == Settings!Read(p7.merging, TRUE)
  <2>1. /\ p7' = [p7 EXCEPT !.kind = "load", !.saved = saved] /\ p9' = p9 \cup {l} /\ p4' = TRUE /\ UNCHANGED <<p2, p5, p10>>
    BY <1>2 DEF Settings!Reload
  <2>2. l.seen = p1
    BY DEF Settings!Read
  <2>3. p7 \in [kind : {p7.kind}, merging : {p7.merging}, todo : {p7.todo}, saved : {p7.saved}]
    BY DEF SettingsInv, SettingsShaped
  <2>4. p7'.kind = "load" /\ p7'.todo = p7.todo /\ p7'.saved = saved
    BY <2>1, <2>3
  <2>5. Todo' = Todo
    BY <2>4 DEF Todo
  <2> HIDE DEF l
  <2> QED
    BY <2>1, <2>2, <2>4, <2>5 DEF SettingsFit
<1> QED
  BY <1>1, <1>2

LEMMA SettingsFitFails == ASSUME SettingsInv, SettingsFit, NEW c \in p8, Settings!CallFails(c) PROVE SettingsFit'
<1>1. /\ p8' = {[d EXCEPT !.stray = TRUE] : d \in p8 \ {c}} /\ UNCHANGED <<p1, p3, p6>>
      /\ Settings!EndsWith(p7.saved) \/ Settings!Reload({})
      /\ doubt' \in BOOLEAN
  BY DEF Settings!CallFails, SettingsFit
<1>2. \A d : SettingCall(d) /\ CallFits(d) => CallFits([d EXCEPT !.stray = TRUE])
  BY DEF SettingCall, CallFits
<1>3. \A d \in p8 : SettingCall(d) /\ CallFits(d)
  BY DEF SettingsInv, SettingsShaped, SettingsFit
<1>4. \A d \in p8' : CallFits(d)
  BY <1>1, <1>2, <1>3
<1>5. (\A d \in p7.saved : CallFits(d)) /\ p6' \in [Settings!Lists -> Settings!Texts \cup {"none"}]
  BY <1>1 DEF SettingsFit
<1>6. ASSUME NEW saved, \A d \in saved : CallFits(d), Settings!EndsWith(saved) \/ Settings!Reload(saved)
      PROVE  SettingsFit'
  BY <1>1, <1>4, <1>5, <1>6, SettingsFitEnds
<1>7. PICK saved : (\A d \in saved : CallFits(d)) /\ (Settings!EndsWith(saved) \/ Settings!Reload(saved))
  BY <1>1, <1>5
<1> QED
  BY <1>6, <1>7

LEMMA SettingsFitSucceeds == ASSUME SettingsInv, SettingsFit, NEW c \in p8, Settings!CallSucceeds(c) PROVE SettingsFit'
<1> DEFINE left == p8 \ {c}
           got  == p7.saved \cup {c}
<1>1. /\ UNCHANGED <<p1, p3, doubt>>
      /\ p6' = (IF c.kind = "add" THEN [p6 EXCEPT ![Settings!ListOf(c.row)] = "none"] ELSE p6)
      /\ CASE p7.kind = "template" -> p8' = left /\ Settings!EndsWith({c})
           [] p7.kind = "drafts" /\ p7.todo = <<>> -> p8' = left /\ Settings!EndsWith(got)
           [] p7.kind = "drafts" /\ p7.todo # <<>> ->
                 /\ p8' = left \cup {Head(p7.todo)}
                 /\ p7' = [p7 EXCEPT !.todo = Tail(@), !.saved = got]
                 /\ UNCHANGED <<p2, p10, p5, p4, p9>>
           [] p7.kind = "sort" /\ \E d \in left : ~d.stray ->
                 p8' = left /\ UNCHANGED <<p7, p2, p10, p5, p4, p9>>
           [] OTHER -> p8' = left /\ Settings!Reload(IF p7.kind = "plain" THEN {c} ELSE {})
  BY DEF Settings!CallSucceeds, Settings!None
<1>2. /\ \A d \in left : CallFits(d)
      /\ \A d \in got : CallFits(d)
      /\ CallFits(c) /\ doubt' \in BOOLEAN
  BY <1>1 DEF SettingsFit
<1>3. p6' \in [Settings!Lists -> Settings!Texts \cup {"none"}]
  BY <1>1 DEF SettingsFit
<1>4. ASSUME NEW saved, \A d \in saved : CallFits(d), p8' = left, Settings!EndsWith(saved) \/ Settings!Reload(saved)
      PROVE  SettingsFit'
  BY <1>1, <1>2, <1>3, <1>4, SettingsFitEnds
<1>5. CASE p7.kind = "template"
  <2> DEFINE one == {c}
  <2>1. p8' = left /\ Settings!EndsWith(one) /\ \A d \in one : CallFits(d)
    BY <1>1, <1>2, <1>5
  <2> HIDE DEF one, left
  <2> QED
    BY <1>4, <2>1
<1> HIDE DEF got, left
<1>6. CASE p7.kind = "drafts" /\ p7.todo = <<>>
  <2>1. p8' = left /\ Settings!EndsWith(got)
    BY <1>1, <1>6
  <2> QED
    BY <1>2, <1>4, <2>1
<1>7. CASE p7.kind = "drafts" /\ p7.todo # <<>>
  <2> DEFINE h == Head(p7.todo)
  <2>1. /\ p8' = left \cup {h} /\ p7' = [p7 EXCEPT !.todo = Tail(@), !.saved = got]
        /\ UNCHANGED <<p2, p4, p5, p9, p10>>
    BY <1>1, <1>7
  <2>2. /\ p7 \in [kind : {p7.kind}, merging : {p7.merging}, todo : {p7.todo}, saved : {p7.saved}]
        /\ IsSeq(p7.todo)
    BY DEF SettingsInv, SettingsShaped
  <2>3. p7'.kind = "drafts" /\ p7'.todo = Tail(p7.todo) /\ p7'.saved = got
    BY <1>7, <2>1, <2>2
  <2>4. h \in Todo /\ \A i \in DOMAIN Tail(p7.todo) : Tail(p7.todo)[i] \in Todo
    BY <1>7, <2>2, TailOf DEF Todo
  <2>5. Todo' \subseteq Todo
    BY <2>3, <2>4 DEF Todo
  <2> HIDE DEF h
  <2> QED
    BY <1>1, <1>2, <1>3, <2>1, <2>3, <2>4, <2>5 DEF SettingsFit
<1>8. CASE p7.kind = "sort" /\ \E d \in left : ~d.stray
  <2>1. p8' = left /\ UNCHANGED <<p2, p4, p5, p7, p9, p10>>
    BY <1>1, <1>8
  <2>2. Todo' = Todo
    BY <2>1 DEF Todo
  <2> QED
    BY <1>1, <1>2, <1>3, <2>1, <2>2 DEF SettingsFit
<1>9. CASE p7.kind \notin {"template", "drafts"} /\ ~(p7.kind = "sort" /\ \E d \in left : ~d.stray)
  <2>1. p8' = left /\ \E saved : (\A d \in saved : CallFits(d)) /\ Settings!Reload(saved)
    BY <1>1, <1>2, <1>9
  <2> QED
    BY <1>4, <2>1
<1> QED
  BY <1>5, <1>6, <1>7, <1>8, <1>9

LEMMA SettingsFitStray == ASSUME SettingsFit, NEW c \in p8, Settings!StrayEnds(c) PROVE SettingsFit'
<1>1. /\ p8' = p8 \ {c} /\ UNCHANGED <<p1, p2, p3, p4, p5, p6, p7, p9, p10, doubt>>
  BY DEF Settings!StrayEnds
<1>2. Todo' = Todo
  BY <1>1 DEF Todo
<1> QED
  BY <1>1, <1>2 DEF SettingsFit

LEMMA SettingsFitLoads ==
    ASSUME SettingsFit, NEW l \in p9, Settings!LoadAnswers(l) \/ Settings!LoadFails(l)
    PROVE  SettingsFit'
<1>1. /\ p4' = FALSE /\ p9' = p9 \ {l} /\ p7' = (IF l.own THEN Settings!NoSave ELSE p7)
      /\ UNCHANGED <<p1, p3, p6, p8>> /\ (p5' = p5 \/ p5' = (p5 /\ Settings!Drafts(p2') # {}))
  BY DEF Settings!LoadAnswers, Settings!LoadFails, Settings!KeepOpen
<1>2. /\ p2' \in [Settings!Rows -> PageRow] /\ p10' \in [Settings!Rows -> Settings!Texts \cup {"none"}]
      /\ doubt' \in BOOLEAN
  <2>1. CASE Settings!LoadFails(l)
    <3>1. /\ p2' = [r \in Settings!Rows |->
                IF l.own /\ r \in PlainRows /\ \E c \in p7.saved : c.row = r
                THEN [p2[r] EXCEPT !.orig = Settings!None] ELSE p2[r]]
          /\ p10' = p10 /\ doubt' = TRUE
      BY <2>1 DEF Settings!LoadFails
    <3>2. \A r \in Settings!Rows : p2[r] \in PageRow /\ [p2[r] EXCEPT !.orig = Settings!None] \in PageRow
      BY DEF SettingsFit, PageRow, Settings!None
    <3> QED
      BY <3>1, <3>2 DEF SettingsFit
  <2>2. CASE Settings!LoadAnswers(l)
    <3>1. PICK seen \in {l.seen, p1} :
             /\ p2' = [r \in Settings!Rows |-> Settings!Loaded(r, seen[r], l.merging)]
             /\ p10' = [r \in Settings!Rows |-> IF seen[r] = Settings!Absent THEN Settings!None ELSE p10[r]]
             /\ doubt' = \/ seen # p1 \/ (~l.own /\ ~Settings!Idle)
                         \/ doubt /\ l.merging /\ Settings!Drafts(p2) # {}
      BY <2>2, Zenon DEF Settings!LoadAnswers
    <3>2. seen \in ServerRows
      BY <3>1 DEF SettingsFit
    <3>3. \A r \in Settings!Rows : Settings!Loaded(r, seen[r], l.merging) \in PageRow
      BY <3>2 DEF SettingsFit, ServerRows, PageRow, Settings!Loaded, Settings!NoRow, Settings!None, Settings!Texts
    <3>4. doubt' \in BOOLEAN
      BY <3>1
    <3> QED
      BY <3>1, <3>3, <3>4 DEF SettingsFit, Settings!None
  <2> QED
    BY <2>1, <2>2
<1>3. p5' \in BOOLEAN
  BY <1>1 DEF SettingsFit
<1>4. /\ p7'.kind \in {"none", "template", "drafts", "plain", "reload", "sort", "load"}
      /\ \A c \in p7'.saved : CallFits(c)
      /\ \A c \in Todo' : CallFits(c)
  <2>1. CASE p7' = p7
    BY <2>1 DEF SettingsFit, Todo
  <2>2. CASE p7' = Settings!NoSave
    <3>1. p7'.kind = "none" /\ p7'.saved = {} /\ Todo' = {}
      BY <2>2 DEF Settings!NoSave, Settings!None, Todo
    <3> QED
      BY <3>1
  <2> QED
    BY <1>1, <2>1, <2>2
<1> QED
  BY <1>1, <1>2, <1>3, <1>4 DEF SettingsFit

LEMMA SettingsFitMoves == SettingsInv /\ SettingsFit /\ Settings!Next => SettingsFit'
  BY SettingsFitUser, SettingsFitServe, SettingsFitSucceeds, SettingsFitFails, SettingsFitStray, SettingsFitLoads,
     Zenon DEF Settings!Next

-----------------------------------------------------------------------------
(* The prompts: whose draft is on screen.                                  *)

PromptCall(c) == c \in [kind : {c.kind}, id : {c.id}, doc : {c.doc}, made : {c.made}, phase : {c.phase}]

\* Only a prompt that exists is archived, and the answer is about that one.
PromptsInv ==
    /\ \A c \in p6 : PromptCall(c) /\ (c.kind = "archive" =>
          c.id # Prompts!None /\ (c.phase = "ok" => c.made = c.id))
    /\ p5 \in [of : {p5.of}, text : {p5.text}]
    /\ Prompts!DraftIsOfTheSelection

LEMMA DraftOf ==
    ASSUME NEW id, NEW doc
    PROVE  Prompts!Draft(id, doc).of = id /\
           Prompts!Draft(id, doc) \in [of : {Prompts!Draft(id, doc).of}, text : {Prompts!Draft(id, doc).text}]
  BY DEF Prompts!Draft

LEMMA PromptsStart == Prompts!Init => PromptsInv
  BY DraftOf DEF Prompts!Init, PromptsInv, Prompts!DraftIsOfTheSelection

LEMMA PromptsUser == PromptsInv /\ Prompts!UserActs => PromptsInv'
<1> SUFFICES ASSUME PromptsInv, Prompts!UserActs PROVE PromptsInv'
  OBVIOUS
<1>1. ASSUME NEW id, NEW doc, p5' = Prompts!Draft(id, doc), p4' = id, UNCHANGED p6 PROVE PromptsInv'
  BY <1>1, DraftOf DEF PromptsInv, Prompts!DraftIsOfTheSelection
<1>2. ASSUME NEW id, Prompts!SelectPrompt(id) \/ Prompts!StartNewPrompt PROVE PromptsInv'
  BY <1>1, <1>2 DEF Prompts!SelectPrompt, Prompts!StartNewPrompt
<1>3. CASE Prompts!Type
  <2>1. p5' = [p5 EXCEPT !.text = 1 - p5.text] /\ UNCHANGED <<p4, p6, p7>>
    BY <1>3 DEF Prompts!Type
  <2> QED
    BY <2>1 DEF PromptsInv, Prompts!DraftIsOfTheSelection
<1>4. ASSUME NEW kind, NEW doc, kind = "archive" => p4 # Prompts!None, Prompts!Call(kind, doc) PROVE PromptsInv'
  <2> DEFINE c == [kind |-> kind, id |-> p4, doc |-> doc, made |-> Prompts!None, phase |-> "sent"]
  <2>1. PromptCall(c) /\ c.kind = kind /\ c.id = p4 /\ c.phase = "sent"
    BY DEF PromptCall
  <2>2. p6' = p6 \cup {c} /\ UNCHANGED <<p4, p5, p7>>
    BY <1>4 DEF Prompts!Call
  <2> HIDE DEF c
  <2> QED
    BY <1>4, <2>1, <2>2 DEF PromptsInv, Prompts!DraftIsOfTheSelection
<1>5. CASE Prompts!SavePrompt \/ Prompts!TogglePromptArchive
  BY <1>4, <1>5 DEF Prompts!SavePrompt, Prompts!TogglePromptArchive
<1> QED
  BY <1>2, <1>3, <1>5, Zenon DEF Prompts!UserActs

LEMMA PromptsMoves == PromptsInv /\ Prompts!Moves => PromptsInv'
<1> SUFFICES ASSUME PromptsInv, Prompts!Moves PROVE PromptsInv'
  OBVIOUS
<1>1. CASE Prompts!LoadServed
  <2>1. \/ UNCHANGED <<p4, p5>>
        \/ \E id, doc : p4' = id /\ p5' = Prompts!Draft(id, doc)
    BY <1>1, Zenon DEF Prompts!LoadServed
  <2>2. UNCHANGED <<p6, p7>>
    BY <1>1 DEF Prompts!LoadServed
  <2> QED
    BY <2>1, <2>2, DraftOf DEF PromptsInv, Prompts!DraftIsOfTheSelection
<1>2. CASE Prompts!LoadFails
  BY <1>2 DEF Prompts!LoadFails, PromptsInv, Prompts!DraftIsOfTheSelection
<1>3. ASSUME NEW c \in p6, Prompts!Serve(c) PROVE PromptsInv'
  <2>1. \E id, doc : Prompts!Answered(c, id, doc) /\ (c.kind = "archive" => id = c.id)
    BY <1>3, Zenon DEF Prompts!Serve, PromptsInv
  <2>2. PICK id, doc : Prompts!Answered(c, id, doc) /\ (c.kind = "archive" => id = c.id)
    BY <2>1
  <2> DEFINE d == [c EXCEPT !.made = id, !.doc = doc, !.phase = "ok"]
  <2>3. PromptCall(d) /\ d.kind = c.kind /\ d.id = c.id /\ d.made = id
    BY DEF PromptsInv, PromptCall
  <2>4. p6' = (p6 \ {c}) \cup {d}
    BY <2>2 DEF Prompts!Answered
  <2>5. UNCHANGED <<p4, p5, p7>>
    BY <1>3 DEF Prompts!Serve
  <2> HIDE DEF d
  <2> QED
    BY <2>2, <2>3, <2>4, <2>5 DEF PromptsInv, Prompts!DraftIsOfTheSelection
<1>4. ASSUME NEW c \in p6, Prompts!Answer(c) PROVE PromptsInv'
  <2>1. p6' = p6 \ {c}
    BY <1>4 DEF Prompts!Answer
  <2>2. CASE Prompts!SaveAnswered(c)
    BY <2>1, <2>2, DraftOf DEF Prompts!SaveAnswered, PromptsInv, Prompts!DraftIsOfTheSelection
  <2>3. CASE Prompts!ArchiveAnswered(c)
    <3>1. p5' = Prompts!Draft(c.made, c.doc) /\ (p7' = (p4 # c.id)) /\ UNCHANGED p4 /\ c.made = c.id
      BY <2>3 DEF Prompts!ArchiveAnswered, PromptsInv
    <3>2. p5' \in [of : {p5'.of}, text : {p5'.text}] /\ p5'.of = c.id
      BY <3>1, DraftOf
    <3>3. Prompts!DraftIsOfTheSelection'
      BY <3>1, <3>2 DEF Prompts!DraftIsOfTheSelection
    <3> QED
      BY <2>1, <3>2, <3>3 DEF PromptsInv
  <2>4. CASE Prompts!Fails(c)
    BY <2>1, <2>4 DEF Prompts!Fails, PromptsInv, Prompts!DraftIsOfTheSelection
  <2> QED
    BY <1>4, <2>2, <2>3, <2>4 DEF Prompts!Answer
<1> QED
  BY <1>1, <1>2, <1>3, <1>4, Zenon DEF Prompts!Moves

LEMMA PromptsStep == PromptsInv /\ Prompts!Next => PromptsInv'
  BY PromptsUser, PromptsMoves, Zenon DEF Prompts!Next

-----------------------------------------------------------------------------
(* The pages together.                                                     *)

IInv ==
    /\ route = "gate"      => GateInv
    /\ route = "dashboard" => CalendarInv
    /\ route = "tasks"     => Tasks!CompletedAreStamped
    /\ route = "projects"  => ProjectsInv
    /\ route = "files"     => FilesInv
    /\ route = "prompts"   => PromptsInv
    /\ route = "notes"     => Notes!SpinnerHasAFetch
    /\ route = "settings"  => SettingsInv

LEMMA InitHolds == Init => IInv
<1> SUFFICES ASSUME Init PROVE IInv
  OBVIOUS
<1>1. /\ route = "gate"      => Gate!Init
      /\ route = "dashboard" => Calendar!Init
      /\ route = "tasks"     => Tasks!Init
      /\ route = "projects"  => Projects!Init
      /\ route = "files"     => Files!Init
      /\ route = "prompts"   => Prompts!Init
      /\ route = "notes"     => Notes!Init
      /\ route = "settings"  => Settings!Init
  BY DEF Init
<1>2. Notes!Init => Notes!SpinnerHasAFetch
  BY DEF Notes!Init, Notes!SpinnerHasAFetch
<1> QED
  BY <1>1, <1>2, GateStarts, CalendarStarts, TasksStart, ProjectsStart, FilesStart,
     PromptsStart, SettingsStart DEF IInv

LEMMA NextKeeps == IInv /\ [Next]_vars => IInv'
<1> SUFFICES ASSUME IInv, [Next]_vars PROVE IInv'
  OBVIOUS
<1>1. CASE DashboardMoves
  BY <1>1, CalendarMoves DEF DashboardMoves, IInv
<1>2. CASE TasksMove
  BY <1>2, TasksStep DEF TasksMove, IInv
<1>3. CASE ProjectsMove
  BY <1>3, ProjectsStep DEF ProjectsMove, IInv
<1>4. CASE FilesMove
  BY <1>4, FilesStep DEF FilesMove, IInv
<1>5. CASE NotesMove
  BY <1>5, NotesStep DEF NotesMove, IInv
<1>6. CASE GateMoves
  BY <1>6, GateStep DEF GateMoves, IInv
<1>7. CASE PromptsMove
  BY <1>7, PromptsStep DEF PromptsMove, IInv
<1>8. CASE SettingsMove
  BY <1>8, SettingsStep DEF SettingsMove, IInv
<1>9. CASE UNCHANGED vars
  <2>1. CASE route = "gate"
    BY <1>9, <2>1 DEF vars, IInv, GateInv, OneRead, Known
  <2>2. CASE route \in {"dashboard", "tasks", "notes"}
    BY <1>9, <2>2 DEF vars, IInv, CalendarInv, Calendar!BusyHasACall, Tasks!CompletedAreStamped,
       Notes!SpinnerHasAFetch
  <2>3. CASE route = "projects"
    BY <1>9, <2>3 DEF vars, IInv, ProjectsInv, ProjectRows, ProjectCalls, Alone, Lists, Adding,
       ShownAway, Projects!NoOpenTaskArchived, Clean, Away
  <2>4. CASE route \in {"files", "prompts"}
    BY <1>9, <2>4 DEF vars, IInv, FilesInv, Uploads, Files!FilesAreStored, Files!UploadingHasACall,
       PromptsInv, Prompts!DraftIsOfTheSelection
  <2>5. CASE route = "settings"
    <3>1. SettingsInv /\ Settings!QuestionHasDrafts'
      BY <1>9, <2>5 DEF vars, IInv, SettingsInv, Settings!QuestionHasDrafts, Settings!Drafts
    <3> QED
      BY <1>9, <2>5, <3>1, SettingsAsk DEF vars, IInv
  <2> QED
    BY <1>9, <2>1, <2>2, <2>3, <2>4, <2>5 DEF vars, IInv
<1> QED
  BY <1>1, <1>2, <1>3, <1>4, <1>5, <1>6, <1>7, <1>8, <1>9, Zenon DEF Next

(* However long the user goes on and whatever calls cross or fail: a       *)
(* button of the calendar or of the files that waits, and the spinner of   *)
(* the notes, have a call behind them that is still to be answered.        *)
THEOREM BusyIsAnswered == Spec => []BusyHasACall
<1>1. IInv => BusyHasACall
  BY DEF IInv, BusyHasACall, CalendarInv, FilesInv
<1> QED
  BY <1>1, InitHolds, NextKeeps, PTL DEF Spec

(* Whatever crosses: once the calls are answered the gate shows what the   *)
(* session lets it show, and holds its token, unless a sign-in or a        *)
(* sign-out was lost on its way.                                           *)
THEOREM GateSettled == Spec => []AuthSettles
<1>1. IInv => AuthSettles
  BY GateSettles DEF IInv, AuthSettles
<1> QED
  BY <1>1, InitHolds, NextKeeps, PTL DEF Spec

(* Whatever is saved, reordered, loaded and lost in between: the draft on   *)
(* screen is of the prompt that is selected, a template typed at rest       *)
(* keeps what was typed until it is saved or given up, and the question on  *)
(* leaving the settings is asked only while there are drafts.               *)
THEOREM DraftsStay == Spec => []DraftsAreKept
<1>1. IInv => DraftsAreKept
  BY SettingsSettle DEF IInv, DraftsAreKept, PromptsInv
<1> QED
  BY <1>1, InitHolds, NextKeeps, PTL DEF Spec

(* Whatever the pages send, in any order: a completed task has its date, a *)
(* project with open tasks is put away only when calls about it crossed or *)
(* one was lost, and a file that is registered and that nobody asked to    *)
(* remove is in the store. (Of one that somebody did, the row may outlive  *)
(* the object: tasks.go takes them in two writes.)                         *)
THEOREM RecordsStayTrue == Spec => []RecordsAgree
<1>1. IInv => RecordsAgree
  BY DEF IInv, RecordsAgree, ProjectsInv, FilesInv
<1> QED
  BY <1>1, InitHolds, NextKeeps, PTL DEF Spec
===============================================================================
