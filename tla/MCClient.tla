------------------------------- MODULE MCClient -------------------------------
(***************************************************************************)
(* An instance of Client for TLC.                                          *)
(***************************************************************************)
EXTENDS Client, TLC

Visit(parts, a, f) == [parts |-> parts, acts |-> a, faults |-> f]

\* Which parts of a board one visit uses together. The sidebar reads all the
\* time, so the visits with it are short.
MCBoardVisits ==
    {Visit({"list"}, 3, 1), Visit({"list", "history"}, 3, 0), Visit({"list", "modal"}, 3, 0),
     Visit({"modal"}, 3, 1), Visit({"history"}, 3, 1), Visit({"list", "sidebar"}, 2, 1)}

Handling(groups, a, f) == [groups |-> groups, acts |-> a, faults |-> f]

MCProjectVisits ==
    {Handling({"order", "delete"}, 2, 1), Handling({"order", "create"}, 2, 1),
     Handling({"create", "delete"}, 3, 0), Handling({"order", "rename"}, 2, 0),
     Handling({"archive", "task"}, 3, 1), Handling({"restore", "task"}, 3, 0),
     Handling({"archive", "restore"}, 3, 1)}

\* Only the task editor.
MCModalVisits == {Visit({"modal"}, 2, 0)}

MCNoteKinds == [a |-> "text", b |-> "docx", c |-> "pdf", d |-> "binary"]
===============================================================================
