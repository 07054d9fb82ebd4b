------------------------------ MODULE NoteViewer ------------------------------
(***************************************************************************)
(* The reader of shared and private notes: the path chosen in              *)
(* web/src/components/GitNoteLayout.jsx, its file as GitNoteViewer.jsx     *)
(* fetches and renders it, and the button that makes a public link.  A     *)
(* fetch is never cancelled: the answer of an earlier path is taken for    *)
(* the file of the one on screen.                                          *)
(***************************************************************************)
EXTENDS Integers, FiniteSets

CONSTANTS
    NoteKinds,   \* by path, what its extension says: text, docx, pdf or binary
    NoteActs,    \* (bound) what the user does
    NoteFaults   \* (bound) calls that fail

None  == "none"
Paths == DOMAIN NoteKinds
Fetched(p) == p # None /\ NoteKinds[p] \in {"text", "docx"}

VARIABLES
    path,        \* selectedPath, None when nothing is chosen
    content,     \* the path whose file is rendered
    error,       \* the path whose fetch failed
    loading,
    fetches,     \* on their way; no tells two of one path apart
    mammoth,     \* the parser of docx files, a script loaded once
    share, confirm,   \* shareStatus, shareConfirmOpen
    timers,      \* the timers that put shareStatus back
    sharing,     \* calls that create a link
    doubt,       \* history: a path was chosen while a fetch was on its way
    acts, faults

viewVars  == <<path, content, error, loading, fetches, mammoth>>
shareVars == <<share, confirm, timers, sharing>>
vars == <<viewVars, shareVars, doubt, acts, faults>>

\* The effect of the viewer on a new path, of the tree or of the browser's Back,
\* which goes also where nothing was chosen and while the question on sharing is
\* open. Nothing but a fetch sets or resets `loading` for a pdf or for no path.
Select(p) ==
    /\ p # path
    /\ path' = p /\ content' = None /\ error' = None
    /\ doubt' = (fetches # {})
    /\ UNCHANGED <<mammoth, shareVars, faults>>

SelectFetched(p) ==
    /\ Fetched(p) /\ Select(p)
    /\ fetches' = fetches \cup {[path |-> p, no |-> acts, phase |-> "sent"]}
    /\ loading' = TRUE

SelectOther(p) ==
    /\ ~Fetched(p) /\ Select(p)
    /\ loading' = (loading /\ (p = None \/ NoteKinds[p] # "binary"))
    /\ UNCHANGED fetches

HandleShare ==
    /\ path # None /\ share # "sharing" /\ ~confirm
    /\ confirm' = TRUE
    /\ UNCHANGED <<viewVars, share, timers, sharing, doubt, faults>>

CancelShare ==
    /\ confirm /\ path # None /\ share # "sharing"
    /\ confirm' = FALSE
    /\ UNCHANGED <<viewVars, share, timers, sharing, doubt, faults>>

CreateShare ==
    /\ confirm /\ path # None /\ share # "sharing"
    /\ confirm' = FALSE /\ share' = "sharing" /\ sharing' = sharing + 1
    /\ UNCHANGED <<viewVars, timers, doubt, faults>>

UserActs == acts > 0 /\ acts' = acts - 1 /\
    (\/ \E p \in Paths : SelectFetched(p) \/ SelectOther(p)
     \/ SelectOther(None) \/ HandleShare \/ CancelShare \/ CreateShare)

-----------------------------------------------------------------------------
(* Mutant: the spinner is left to the next fetch.                          *)
EndsBusy(f) == fetches' = fetches \ {f} /\ UNCHANGED loading

Ends(f) == fetches' = fetches \ {f} /\ loading' = FALSE

TextArrives(f) ==
    /\ f.phase = "sent" /\ NoteKinds[f.path] = "text"
    /\ Ends(f)
    /\ content' = f.path
    /\ UNCHANGED <<path, error, mammoth, shareVars, doubt, acts, faults>>

\* A docx file waits for the parser, whose script the first of them loads.
DocxArrives(f) ==
    /\ f.phase = "sent" /\ NoteKinds[f.path] = "docx"
    /\ fetches' = (fetches \ {f}) \cup {[f EXCEPT !.phase = "parsing"]}
    /\ mammoth' = IF mammoth = "none" THEN "loading" ELSE mammoth
    /\ UNCHANGED <<path, content, error, loading, shareVars, doubt, acts, faults>>

\* A script that failed once stays failed: the promise is kept.
ScriptEnds ==
    /\ mammoth = "loading"
    /\ \/ mammoth' = "ready" /\ UNCHANGED faults
       \/ mammoth' = "broken" /\ faults > 0 /\ faults' = faults - 1
    /\ UNCHANGED <<path, content, error, loading, fetches, shareVars, doubt, acts>>

\* The parser may reject the file.
DocxParsed(f) ==
    /\ f.phase = "parsing" /\ mammoth \in {"ready", "broken"}
    /\ Ends(f)
    /\ \/ mammoth = "ready" /\ content' = f.path /\ UNCHANGED <<error, faults>>
       \/ mammoth = "ready" /\ faults > 0 /\ faults' = faults - 1 /\ error' = f.path /\ UNCHANGED content
       \/ mammoth = "broken" /\ error' = f.path /\ UNCHANGED <<content, faults>>
    /\ UNCHANGED <<path, mammoth, shareVars, doubt, acts>>

FetchFails(f) ==
    /\ f.phase = "sent" /\ faults > 0 /\ faults' = faults - 1
    /\ Ends(f)
    /\ error' = f.path
    /\ UNCHANGED <<path, content, mammoth, shareVars, doubt, acts>>

\* createShare: copied or failed, and two seconds later idle.
ShareAnswered ==
    /\ sharing > 0 /\ sharing' = sharing - 1
    /\ \/ share' = "copied" /\ UNCHANGED faults
       \/ share' = "failed" /\ faults > 0 /\ faults' = faults - 1
    /\ timers' = timers + 1
    /\ UNCHANGED <<viewVars, confirm, doubt, acts>>

ShareTimer ==
    /\ timers > 0 /\ timers' = timers - 1
    /\ share' = "idle"
    /\ UNCHANGED <<viewVars, confirm, sharing, doubt, acts, faults>>

Moves == ScriptEnds \/ ShareAnswered \/ ShareTimer
            \/ \E f \in fetches : TextArrives(f) \/ DocxArrives(f) \/ DocxParsed(f) \/ FetchFails(f)

-----------------------------------------------------------------------------
TypeOK ==
    /\ {path, content, error} \subseteq Paths \cup {None}
    /\ {loading, confirm, doubt} \subseteq BOOLEAN
    /\ fetches \subseteq [path : {p \in Paths : Fetched(p)}, no : Nat, phase : {"sent", "parsing"}]
    /\ mammoth \in {"none", "loading", "ready", "broken"}
    /\ share \in {"idle", "sharing", "copied", "failed"}
    /\ {timers, sharing, acts, faults} \subseteq Nat

Init ==
    /\ path = None /\ content = None /\ error = None /\ loading = FALSE /\ fetches = {}
    /\ mammoth = "none"
    /\ share = "idle" /\ confirm = FALSE /\ timers = 0 /\ sharing = 0
    /\ doubt = FALSE
    /\ acts = NoteActs /\ faults = NoteFaults

Next == UserActs \/ Moves

\* Every call is answered or fails, every script loads or fails, timers fire.
Fairness == WF_vars(Moves)

Spec == Init /\ [][Next]_vars /\ Fairness

-----------------------------------------------------------------------------
\* Once its fetch has ended, the file on screen is the one of the path on
\* screen, or its error is; unless another path was left while it was fetched.
ViewerSettles ==
    fetches = {} /\ ~doubt /\ path # None =>
        IF Fetched(path) THEN {content, error} = {path, None} ELSE content = None /\ error = None

\* The spinner turns only while something is fetched. (The reverse fails: the
\* answer of an earlier path stops the spinner of the next.)
SpinnerHasAFetch == loading => fetches # {}

\* The share button must not stay busy, whatever answers and timers overtake
\* each other.
CanShare == share = "idle"
=============================================================================
