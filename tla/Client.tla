-------------------------------- MODULE Client --------------------------------
(***************************************************************************)
(* The pages behind the routes of web/src/App.jsx.  One of them is mounted *)
(* at a time and loses its state when it is left, so a behaviour is one    *)
(* visit: the gate itself (Shell), the calendar (DashboardEvents), a board *)
(* (its tasks, its projects or the files of a task), the prompt studio,    *)
(* the notes, or the settings of the wallet.  The other views of the       *)
(* wallet are WalletPage.tla.                                              *)
(*                                                                         *)
(* The variables p1 to p10 are the state of the page that is mounted, in   *)
(* the order its module declares it, and 0 where it has fewer.             *)
(***************************************************************************)
EXTENDS Integers, FiniteSets

CONSTANTS
    Routes,
    MaxShellCalls, ShellActs, ShellFaults,
    EventIds, EventMonths, EventActs, EventFaults,
    TaskIds, MaxCalls, BoardVisits,
    ProjectIds, MaxProjectCalls, ProjectVisits,
    FileIds, FileActs, FileFaults,
    PromptIds, VaultCalls, VaultActs, VaultFaults,
    NoteKinds, NoteActs, NoteFaults,
    Templates, PlainRows, Valid, Bad, MaxTyping, MaxLost

ASSUME RoutesAssumption ==
    Routes \subseteq {"gate", "dashboard", "tasks", "projects", "files", "prompts", "notes", "settings"}
ASSUME BoundsAssumption ==
    /\ {MaxShellCalls, ShellActs, ShellFaults, EventActs, EventFaults, MaxCalls, MaxProjectCalls,
        FileActs, FileFaults, VaultCalls, VaultActs, VaultFaults, NoteActs, NoteFaults,
        MaxTyping, MaxLost} \subseteq Nat
    /\ 0 \notin {MaxShellCalls, MaxCalls}
ASSUME TaskIdsAssumption == IsFiniteSet(TaskIds)
ASSUME SettingsRowsAssumption ==
    /\ Templates \cup PlainRows \subseteq Nat /\ Templates \cap PlainRows = {}
    /\ IsFiniteSet(Templates) /\ IsFiniteSet(PlainRows)
ASSUME ProjectIdsAssumption ==
    ProjectIds \subseteq Nat \ {0} /\ \A n \in ProjectIds : 1..n \subseteq ProjectIds
ASSUME PromptIdsAssumption == 0 \notin PromptIds
ASSUME ValidAssumption == Valid # {}
ASSUME TextsAssumption == Bad \notin Valid \cup {"none"} /\ "none" \notin Valid

VARIABLES
    route,      \* what is mounted
    p1, p2, p3, p4, p5, p6, p7, p8, p9, p10,
    doubt,      \* history: what may be wrong, and why, as each page says
    acts,       \* (bound) what is left for the user to do
    faults      \* (bound) calls that may still fail

vars == <<route, p1, p2, p3, p4, p5, p6, p7, p8, p9, p10, doubt, acts, faults>>

Gate == INSTANCE Shell WITH
    cookie <- p1, issued <- p2, path <- p3, authenticated <- p4, loading <- p5, csrf <- p6,
    calls <- p7

Calendar == INSTANCE DashboardEvents WITH
    db <- p1, month <- p2, read <- p3, data <- p4, shown <- p5, form <- p6, toDelete <- p7,
    saving <- p8, deleting <- p9, calls <- p10

Tasks == INSTANCE TaskBoard WITH
    parts <- p1, db <- p2, rows <- p3, modal <- p4, stamping <- p5, wire <- p6, nav <- p7,
    navReads <- p8

Projects == INSTANCE ProjectBoard WITH
    groups <- p1, srv <- p2, shown <- p3, pending <- p4, archiveOpen <- p5, archived <- p6,
    saving <- p7, loading <- p8, error <- p9, calls <- p10

Files == INSTANCE TaskFiles WITH
    files <- p1, store <- p2, open <- p3, listed <- p4, uploading <- p5, calls <- p6,
    asked <- p7

Prompts == INSTANCE PromptVault WITH
    db <- p1, loading <- p2, list <- p3, active <- p4, draft <- p5, calls <- p6, late <- p7

Notes == INSTANCE NoteViewer WITH
    path <- p1, content <- p2, error <- p3, loading <- p4, fetches <- p5, mammoth <- p6,
    share <- p7, confirm <- p8, timers <- p9, sharing <- p10

Settings == INSTANCE WalletSettings WITH
    server <- p1, rows <- p2, isSettings <- p3, busy <- p4, leave <- p5, form <- p6,
    save <- p7, calls <- p8, reads <- p9, typed <- p10,
    stale <- doubt, typing <- acts, lost <- faults

ASSUME VisitsAssumption ==
    /\ BoardVisits \subseteq [parts : SUBSET Tasks!Parts, acts : Nat, faults : Nat]
    /\ ProjectVisits \subseteq [groups : SUBSET Projects!Groups, acts : Nat, faults : Nat]

-----------------------------------------------------------------------------
(* A visit.                                                                *)

None8to10 == p8 = 0 /\ p9 = 0 /\ p10 = 0

Init ==
    /\ route \in Routes
    /\ CASE route = "gate"      -> Gate!Init /\ None8to10
         [] route = "dashboard" -> Calendar!Init
         [] route = "tasks"     -> Tasks!Init /\ p9 = 0 /\ p10 = 0
         [] route = "projects"  -> Projects!Init
         [] route = "files"     -> Files!Init /\ None8to10
         [] route = "prompts"   -> Prompts!Init /\ None8to10
         [] route = "notes"     -> Notes!Init
         [] route = "settings"  -> Settings!Init

GateMoves      == route = "gate"      /\ Gate!Next     /\ UNCHANGED <<route, p8, p9, p10>>
DashboardMoves == route = "dashboard" /\ Calendar!Next /\ UNCHANGED route
TasksMove      == route = "tasks"     /\ Tasks!Next    /\ UNCHANGED <<route, p9, p10>>
ProjectsMove   == route = "projects"  /\ Projects!Next /\ UNCHANGED route
FilesMove      == route = "files"     /\ Files!Next    /\ UNCHANGED <<route, p8, p9, p10>>
PromptsMove    == route = "prompts"   /\ Prompts!Next  /\ UNCHANGED <<route, p8, p9, p10>>
NotesMove      == route = "notes"     /\ Notes!Next    /\ UNCHANGED route
SettingsMove   == route = "settings"  /\ Settings!Next /\ UNCHANGED route

Next == GateMoves \/ DashboardMoves \/ TasksMove \/ ProjectsMove \/ FilesMove
            \/ PromptsMove \/ NotesMove \/ SettingsMove

\* What the browser and the server do of themselves: calls are answered or
\* fail, scripts load or fail, timers fire.
Works ==
    /\ \/ route = "tasks" /\ (\E c \in p6 : Tasks!CallMoves(c)) /\ UNCHANGED <<p9, p10>>
       \/ route = "projects" /\ \E c \in p10 : Projects!CallMoves(c)
       \/ route = "notes" /\ Notes!Moves
       \/ route = "gate" /\ Gate!Moves /\ UNCHANGED <<p8, p9, p10>>
    /\ UNCHANGED route

SidebarWorks == route = "tasks" /\ Tasks!NavMoves /\ UNCHANGED <<route, p9, p10>>

Spec == Init /\ [][Next]_vars /\ WF_vars(Works) /\ WF_vars(SidebarWorks)

-----------------------------------------------------------------------------
(* What the pages promise, in the words of their modules.                  *)

\* Every page keeps its state within its types.
TypeOK ==
    CASE route = "gate"      -> Gate!TypeOK
      [] route = "dashboard" -> Calendar!TypeOK
      [] route = "tasks"     -> Tasks!TypeOK
      [] route = "projects"  -> Projects!TypeOK
      [] route = "files"     -> Files!TypeOK
      [] route = "prompts"   -> Prompts!TypeOK
      [] route = "notes"     -> Notes!TypeOK
      [] route = "settings"  -> Settings!TypeOK

\* App.jsx, api.js: the gate ends where the session puts it, with its token.
AuthSettles == route = "gate" => Gate!AuthSettles

\* What a page shows once no call is on its way is what the server holds, but for
\* what it knows to be doubtful: calls about that very row crossed, or failed.
\* DashboardView.jsx: the events of the month in the address; Board.jsx and
\* ListView.jsx: the tasks, and the projects, apart from the archived ones;
\* TaskModal.jsx: the files; PromptVault.jsx: the prompts; GitNoteViewer.jsx: the
\* note that is chosen; Wallet.jsx: the rows that are not marked as edited.
ScreensSettle ==
    /\ route = "dashboard" => Calendar!EventsSettle /\ Calendar!ViewIsOfTheMonth
    /\ route = "tasks"     => Tasks!RowsSettle
    /\ route = "projects"  => Projects!ProjectsSettle /\ Projects!ArchiveIsApart
    /\ route = "files"     => Files!FilesSettle
    /\ route = "prompts"   => Prompts!VaultSettles
    /\ route = "notes"     => Notes!ViewerSettles
    /\ route = "settings"  => Settings!SettingsAreTheServers

\* DashboardView.jsx, TaskModal.jsx, GitNoteViewer.jsx: a button that waits or a
\* spinner has a call behind it that is still to be answered.
BusyHasACall ==
    /\ route = "dashboard" => Calendar!BusyHasACall
    /\ route = "files"     => Files!UploadingHasACall
    /\ route = "notes"     => Notes!SpinnerHasAFetch

\* PromptVault.jsx, Wallet.jsx: the draft on screen is of what is selected; one
\* that was typed at rest is kept until it is saved or given up, and the question
\* on leaving is about drafts there are.
DraftsAreKept ==
    /\ route = "prompts"  => Prompts!DraftIsOfTheSelection
    /\ route = "settings" => Settings!TypedIsKept /\ Settings!QuestionHasDrafts

\* tasks.go, projects.go, uploads.go, by what the pages send: a completed task has
\* its date, an archived project no open task, and a file that is registered, and
\* that nobody asked to remove, is stored.
RecordsAgree ==
    /\ route = "tasks"    => Tasks!CompletedAreStamped
    /\ route = "projects" => Projects!NoOpenTaskArchived
    /\ route = "files"    => Files!FilesAreStored

\* Sidebar.jsx, Board.jsx, GitNoteViewer.jsx: the count of open tasks ends as the
\* server's, dragging comes back, and so does the button that shares a note.
PagesRest ==
    <>[](/\ route = "tasks" => Tasks!NavIsCurrent
         /\ route = "projects" => Projects!CanDrag
         /\ route = "notes" => Notes!CanShare)

\* api.js and App.jsx: whose session has ended comes to the login page, as the
\* server sends them there, or to a page that is public.
SignedOutSeesLogin ==
    (route = "gate" /\ p1 = 0) ~> (p1 # 0 \/ p3 \in {"login", "share"})

\* Sidebar.jsx and api.js: who reads a shared page stays there until they go
\* elsewhere.
ReadersStay == [][route = "gate" /\ Gate!Reading => Gate!Reading' \/ acts' # acts]_vars

\* TaskModal.jsx and tasks.go: what is chosen in the task editor is not refused.
ChoicesAreAccepted == route = "tasks" => Tasks!ChoicesAreAccepted
==============================================================================
