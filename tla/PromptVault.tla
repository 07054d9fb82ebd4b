----------------------------- MODULE PromptVault -----------------------------
(***************************************************************************)
(* The prompt studio: the prompts (or, by the same code again, the context *)
(* packs) of web/src/components/prompts/PromptVault.jsx, the one that is   *)
(* selected and the draft being edited.  No button waits for a call, so    *)
(* the user saves, archives and selects others while calls are on their    *)
(* way, and an answer sets the draft whatever is selected by then.         *)
(***************************************************************************)
EXTENDS Integers, FiniteSets, Functions

CONSTANTS
    PromptIds,    \* prompt ids
    VaultCalls,   \* (bound) calls on their way at once
    VaultActs,    \* (bound) what the user does
    VaultFaults   \* (bound) calls that fail

None   == 0         \* no prompt: a new one
Texts  == {0, 1}    \* what a prompt says; 0 is also the blank one
Doc    == [text : Texts, archived : BOOLEAN]
Blank  == [text |-> 0, archived |-> FALSE]
Tables == UNION {[S -> Doc] : S \in SUBSET PromptIds}

VARIABLES
    db,        \* server
    loading,
    list,      \* prompts, as the page has them
    active,    \* activePromptId
    draft,     \* promptDraft: whose it is and what it says
    calls,     \* on their way, with the activePromptId they were sent under
    late,      \* history: an archive was answered after another prompt was selected
    doubt,     \* history: prompts whose calls crossed or failed
    acts, faults

vars == <<db, loading, list, active, draft, calls, late, doubt, acts, faults>>

Put(table, id, doc) == [i \in DOMAIN table \cup {id} |-> IF i = id THEN doc ELSE table[i]]
Set(table, id, doc) == IF id \in DOMAIN table THEN Put(table, id, doc) ELSE table
Draft(id, doc) == [of |-> id, text |-> doc.text]

-----------------------------------------------------------------------------
(* loadData.                                                               *)

LoadServed ==
    /\ loading
    /\ loading' = FALSE
    /\ list' = db
    /\ IF DOMAIN db = {} THEN UNCHANGED <<active, draft>>
       ELSE \E id \in DOMAIN db :
              /\ db[id].archived => \A i \in DOMAIN db : db[i].archived
              /\ active' = id /\ draft' = Draft(id, db[id])
    /\ UNCHANGED <<db, calls, late, doubt, acts, faults>>

LoadFails ==
    /\ loading /\ faults > 0 /\ faults' = faults - 1
    /\ loading' = FALSE
    /\ doubt' = PromptIds
    /\ UNCHANGED <<db, list, active, draft, calls, late, acts>>

-----------------------------------------------------------------------------
(* The user.                                                               *)

SelectPrompt(id) ==
    /\ id \in DOMAIN list
    /\ active' = id /\ draft' = Draft(id, list[id]) /\ late' = FALSE
    /\ UNCHANGED <<db, list, calls, doubt>>

StartNewPrompt ==
    /\ active' = None /\ draft' = Draft(None, Blank) /\ late' = FALSE
    /\ UNCHANGED <<db, list, calls, doubt>>

Type ==
    /\ draft' = [draft EXCEPT !.text = 1 - @]
    /\ UNCHANGED <<db, list, active, calls, late, doubt>>

Call(kind, doc) ==
    LET c == [kind |-> kind, id |-> active, doc |-> doc, made |-> None, phase |-> "sent"] IN
    /\ Cardinality(calls) < VaultCalls /\ c \notin calls
    /\ calls' = calls \cup {c}
    /\ doubt' = IF active # None /\ \E o \in calls : active \in {o.id, o.made}
                THEN doubt \cup {active} ELSE doubt
    /\ UNCHANGED <<db, list, active, draft, late>>

\* What the page shows of the selection: none while it is new, or not loaded.
Shown == IF active \in DOMAIN list THEN list[active] ELSE Blank

SavePrompt == Call("save", [Blank EXCEPT !.text = draft.text])

TogglePromptArchive == active # None /\ Call("archive", [Blank EXCEPT !.archived = ~Shown.archived])

UserActs ==
    /\ ~loading /\ acts > 0 /\ acts' = acts - 1
    /\ \/ \E id \in PromptIds : SelectPrompt(id)
       \/ StartNewPrompt \/ Type \/ SavePrompt \/ TogglePromptArchive
    /\ UNCHANGED <<loading, faults>>

-----------------------------------------------------------------------------
(* The server: a PATCH sets what it names, a POST makes a prompt.          *)

Answered(c, id, doc) ==
    /\ db' = Put(db, id, doc)
    /\ calls' = (calls \ {c}) \cup {[c EXCEPT !.made = id, !.doc = doc, !.phase = "ok"]}

Serve(c) ==
    /\ c.phase = "sent"
    /\ \/ c.id # None /\ c.kind = "save" /\ Answered(c, c.id, [db[c.id] EXCEPT !.text = c.doc.text])
       \/ c.kind = "archive" /\ Answered(c, c.id, [db[c.id] EXCEPT !.archived = c.doc.archived])
       \/ c.id = None /\ \E id \in PromptIds \ DOMAIN db : Answered(c, id, c.doc)
    /\ UNCHANGED <<loading, list, active, draft, late, doubt, acts, faults>>

\* Saved: the page goes back to the prompt that was saved.
SaveAnswered(c) ==
    /\ c.kind = "save" /\ c.phase = "ok"
    /\ list' = IF c.id # None THEN Set(list, c.made, c.doc) ELSE Put(list, c.made, c.doc)
    /\ active' = c.made /\ draft' = Draft(c.made, c.doc) /\ late' = FALSE
    /\ UNCHANGED <<doubt, faults>>

\* Archived or restored: the draft becomes the answer's, the selection stays.
ArchiveAnswered(c) ==
    /\ c.kind = "archive" /\ c.phase = "ok"
    /\ list' = Set(list, c.made, c.doc)
    /\ draft' = Draft(c.made, c.doc) /\ late' = (active # c.id)
    /\ UNCHANGED <<active, doubt, faults>>

\* Refused or unanswered: the page says so.
Fails(c) ==
    /\ faults > 0 /\ faults' = faults - 1
    /\ doubt' = doubt \cup ({c.id, c.made} \ {None})
    /\ UNCHANGED <<list, active, draft, late>>

Answer(c) ==
    /\ SaveAnswered(c) \/ ArchiveAnswered(c) \/ Fails(c)
    /\ calls' = calls \ {c}
    /\ UNCHANGED <<db, loading, acts>>

Moves == LoadServed \/ LoadFails \/ \E c \in calls : Serve(c) \/ Answer(c)

-----------------------------------------------------------------------------
TypeOK ==
    /\ {db, list} \subseteq Tables
    /\ {loading, late} \subseteq BOOLEAN
    /\ active \in PromptIds \cup {None}
    /\ draft \in [of : PromptIds \cup {None}, text : Texts]
    /\ calls \subseteq [kind : {"save", "archive"}, id : PromptIds \cup {None}, doc : Doc,
                        made : PromptIds \cup {None}, phase : {"sent", "ok"}]
    /\ doubt \subseteq PromptIds /\ {acts, faults} \subseteq Nat

\* The page opens.
Init ==
    /\ db \in {t \in Tables : DOMAIN t # PromptIds /\ \A i \in DOMAIN t : t[i].text = 0}
    /\ loading = TRUE /\ list = [i \in {} |-> Blank]
    /\ active = None /\ draft = Draft(None, Blank)
    /\ calls = {} /\ late = FALSE /\ doubt = {}
    /\ acts = VaultActs /\ faults = VaultFaults

Next == UserActs \/ Moves

Spec == Init /\ [][Next]_vars

-----------------------------------------------------------------------------
\* When nothing is on its way the page has every prompt as the server has it,
\* the ones whose calls crossed or failed apart: saving a new prompt twice, or
\* going on to another while a call is out, loses or mixes up none.
VaultSettles ==
    ~loading /\ calls = {} =>
        \A id \in PromptIds \ doubt :
            /\ id \in DOMAIN list <=> id \in DOMAIN db
            /\ id \in DOMAIN list => list[id] = db[id]

\* The draft is the selected prompt's, so that Save writes to no other. One way
\* out of it exists: the answer to Archive after another prompt was selected.
DraftIsOfTheSelection == draft.of = active \/ late
==============================================================================
