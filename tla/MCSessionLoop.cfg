SPECIFICATION Spec
CONSTANTS
  Routes = {"gate"}
  MaxShellCalls = 2
  ShellActs = 1
  ShellFaults = 0
  EventIds = {1, 2}
  EventMonths = {1, 2}
  EventActs = 5
  EventFaults = 1
  TaskIds = {1, 2}
  MaxCalls = 2
  BoardVisits <- MCBoardVisits
  ProjectIds = {1, 2, 3}
  MaxProjectCalls = 3
  ProjectVisits <- MCProjectVisits
  FileIds = {1, 2}
  FileActs = 4
  FileFaults = 1
  PromptIds = {1, 2, 3}
  VaultCalls = 2
  VaultActs = 4
  VaultFaults = 1
  NoteKinds <- MCNoteKinds
  NoteActs = 5
  NoteFaults = 1
  Templates = {1, 2}
  PlainRows = {3, 4}
  Valid = {"a", "b"}
  Bad = "bad"
  MaxTyping = 3
  MaxLost = 1
PROPERTY SignedOutSeesLogin
CHECK_DEADLOCK FALSE
