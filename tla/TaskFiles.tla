------------------------------ MODULE TaskFiles ------------------------------
(***************************************************************************)
(* The files of the task open in web/src/components/TaskModal.jsx: an      *)
(* upload asks the server for a signed address, puts the file there and    *)
(* registers it, one call after the other.  A removal takes the object and *)
(* then the row.  When they are answered, an upload and a removal put back *)
(* the list of the render they were started in, changed.                   *)
(***************************************************************************)
EXTENDS Integers, FiniteSets

CONSTANTS
    FileIds,     \* files, as positive integers: each is uploaded once at most
    FileActs,    \* (bound) what the user does
    FileFaults   \* (bound) calls that fail

VARIABLES
    files,       \* server: the attachments of the task
    store,       \* the object store: what was uploaded and not removed
    open,        \* the modal is open
    listed,      \* the list in the modal; Broken is an error taken for a file
    uploading,
    calls,       \* on the wire
    asked,       \* history: the files the user asked to remove
    doubt,       \* history: calls crossed or failed since the modal was opened
    acts, faults

vars == <<files, store, open, listed, uploading, calls, asked, doubt, acts, faults>>

Broken == 0
Steps  == {"presign", "put", "attach"}
Kinds  == Steps \cup {"list", "remove"}

\* base: the list of the render the handler was started in; no: tells removals of
\* one file apart, as nothing disables the button of one that was asked for. A
\* call of a modal since closed changes no list.
Call(kind, file, base) ==
    [kind |-> kind, file |-> file, no |-> acts, base |-> base, mounted |-> TRUE, phase |-> "sent",
     found |-> {}]

Add(c) == calls' = calls \cup {c}

\* openTaskModal, and the effect that reads the list.
OpenModal ==
    /\ ~open
    /\ open' = TRUE /\ listed' = {} /\ uploading' = FALSE /\ doubt' = (calls # {})
    /\ Add(Call("list", Broken, {}))
    /\ UNCHANGED <<files, store, asked, faults>>

CloseModal ==
    /\ open
    /\ open' = FALSE
    /\ calls' = {[c EXCEPT !.mounted = FALSE] : c \in calls}
    /\ UNCHANGED <<files, store, listed, uploading, asked, doubt, faults>>

\* The effect runs again when the task is replaced: its completion date was saved.
RereadFiles ==
    /\ open /\ ~\E c \in calls : c.kind = "list" /\ c.mounted
    /\ Add(Call("list", Broken, listed))
    /\ doubt' = (doubt \/ calls # {})
    /\ UNCHANGED <<files, store, open, listed, uploading, asked, faults>>

HandleFileUpload(f) ==
    /\ open /\ ~uploading
    /\ f \notin files \cup store \cup asked /\ ~\E c \in calls : c.file = f
    /\ uploading' = TRUE
    /\ Add(Call("presign", f, listed))
    /\ doubt' = (doubt \/ calls # {})
    /\ UNCHANGED <<files, store, open, listed, asked, faults>>

HandleDeleteAttachment(f) ==
    /\ open /\ f \in listed \ {Broken}
    /\ Add(Call("remove", f, listed))
    /\ asked' = asked \cup {f}
    /\ doubt' = (doubt \/ calls # {})
    /\ UNCHANGED <<files, store, open, listed, uploading, faults>>

UserActs == acts > 0 /\ acts' = acts - 1 /\
    (\/ OpenModal \/ CloseModal \/ RereadFiles
     \/ \E f \in FileIds : HandleFileUpload(f) \/ HandleDeleteAttachment(f))

-----------------------------------------------------------------------------
\* The server and the store. A removal that finds its row takes the object first:
\* when the row was removed meanwhile it is refused, and when the second write
\* fails the row names an object that is gone.
Erase(c) ==
    /\ c.kind = "remove" /\ c.phase = "sent" /\ c.file \in files
    /\ store' = store \ {c.file}
    /\ calls' = (calls \ {c}) \cup {[c EXCEPT !.phase = "erased"]}
    /\ UNCHANGED <<files, open, listed, uploading, asked, doubt, acts, faults>>

Serve(c) ==
    /\ c.phase = (IF c.kind = "remove" THEN "erased" ELSE "sent")
    /\ c.kind = "remove" => c.file \in files
    /\ files' = CASE c.kind = "attach" -> files \cup {c.file}
                  [] c.kind = "remove" -> files \ {c.file}
                  [] OTHER -> files
    /\ store' = IF c.kind = "put" THEN store \cup {c.file} ELSE store
    /\ calls' = (calls \ {c}) \cup {[c EXCEPT !.phase = "ok", !.found = files]}
    /\ UNCHANGED <<open, listed, uploading, asked, doubt, acts, faults>>

Refuse(c) ==
    /\ c.phase \in {"sent", "erased"}
    /\ IF c.kind = "remove" /\ c.file \notin files THEN UNCHANGED faults
       ELSE faults > 0 /\ faults' = faults - 1
    /\ calls' = (calls \ {c}) \cup {[c EXCEPT !.phase = "refused"]}
    /\ UNCHANGED <<files, store, open, listed, uploading, asked, doubt, acts>>

\* Only a modal still open shows what its calls bring.
Show(c, list) == listed' = IF c.mounted THEN list ELSE listed
Idle(c) == uploading' = (uploading /\ ~(c.mounted /\ c.kind \in Steps))

(* Mutant: the answer of the store is not looked at.                       *)
UploadGoesOnAnyway(c) ==
    /\ c.kind \in {"presign", "put"} /\ c.phase # "sent"
    /\ calls' = (calls \ {c}) \cup
          {[c EXCEPT !.kind = IF @ = "presign" THEN "put" ELSE "attach", !.phase = "sent"]}
    /\ UNCHANGED <<files, store, open, listed, uploading, asked, doubt, acts, faults>>

\* The next step of an upload. The answer of the first is not looked at, and a
\* refusal sends the file to no address; the last is taken for a file whatever
\* it says.
UploadGoesOn(c) ==
    /\ \/ c.kind = "presign" /\ c.phase = "ok" /\ calls' = (calls \ {c}) \cup {[c EXCEPT !.kind = "put", !.phase = "sent"]}
       \/ c.kind = "put" /\ c.phase = "ok" /\ calls' = (calls \ {c}) \cup {[c EXCEPT !.kind = "attach", !.phase = "sent"]}
    /\ UNCHANGED <<files, store, open, listed, uploading, asked, doubt, acts, faults>>

UploadEnds(c) ==
    /\ c.kind = "attach" /\ c.phase # "sent"
    /\ Show(c, c.base \cup {IF c.phase = "ok" THEN c.file ELSE Broken})
    /\ doubt' = (doubt \/ (c.mounted /\ c.phase = "refused"))
    /\ Idle(c)
    /\ calls' = calls \ {c}
    /\ UNCHANGED <<files, store, open, asked, acts, faults>>

ListAnswered(c) ==
    /\ c.phase = "ok"
    /\ \/ c.kind = "list" /\ Show(c, c.found)
       \/ c.kind = "remove" /\ Show(c, c.base \ {c.file})
    /\ calls' = calls \ {c}
    /\ UNCHANGED <<files, store, open, uploading, asked, doubt, acts, faults>>

CallFails(c) ==
    /\ IF c.phase = "refused" THEN c.kind # "attach" /\ UNCHANGED faults
       ELSE faults > 0 /\ faults' = faults - 1
    /\ doubt' = (doubt \/ c.mounted)
    /\ Idle(c)
    /\ calls' = calls \ {c}
    /\ UNCHANGED <<files, store, open, listed, asked, acts>>

Answer(c) == UploadGoesOn(c) \/ UploadEnds(c) \/ ListAnswered(c) \/ CallFails(c)

-----------------------------------------------------------------------------
TypeOK ==
    /\ files \subseteq FileIds /\ store \subseteq FileIds /\ asked \subseteq FileIds
    /\ listed \subseteq FileIds \cup {Broken}
    /\ {open, uploading, doubt} \subseteq BOOLEAN /\ {acts, faults} \subseteq Nat
    /\ calls \subseteq [kind : Kinds, file : FileIds \cup {Broken}, no : Nat,
                        base : SUBSET (FileIds \cup {Broken}), mounted : BOOLEAN,
                        phase : {"sent", "erased", "ok", "refused"}, found : SUBSET FileIds]

Init ==
    /\ files \in SUBSET FileIds /\ store = files
    /\ open = FALSE /\ listed = {} /\ uploading = FALSE
    /\ calls = {} /\ asked = {} /\ doubt = FALSE
    /\ acts = FileActs /\ faults = FileFaults

CallMoves(c) == Erase(c) \/ Serve(c) \/ Refuse(c) \/ Answer(c)

Next == UserActs \/ \E c \in calls : CallMoves(c)

Fairness == WF_vars(\E c \in calls : CallMoves(c))

Spec == Init /\ [][Next]_vars /\ Fairness

-----------------------------------------------------------------------------
\* A registered file that nobody asked to remove is in the store: it is
\* registered after it was put there, also when a call of the upload fails, and
\* no removal takes the object of another file.
FilesAreStored == files \ asked \subseteq store

\* A modal at rest lists the task's files, unless calls crossed or failed while
\* it was open, those of an earlier opening that were still on their way
\* included.
FilesSettle == open /\ calls = {} /\ ~doubt => listed = files

\* The file input is disabled only while an upload is on its way.
UploadingHasACall == open /\ uploading => \E c \in calls : c.mounted /\ c.kind \in Steps
=============================================================================
