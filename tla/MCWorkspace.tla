------------------------------ MODULE MCWorkspace ------------------------------
(***************************************************************************)
(* Instances of Workspace for TLC.  A run starts from a small workspace    *)
(* instead of empty tables, so that few requests reach the interesting     *)
(* cases; the same requests lead there from empty tables.                  *)
(***************************************************************************)
EXTENDS Workspace, TLC

CONSTANTS
  h1, h2,            \* handlers
  o1, o2,            \* organisations
  p1, p2,            \* projects
  t1, t2,            \* tasks
  a1, a2,            \* attachments
  k1, k2,            \* object keys
  home, Home, work,  \* names of organisations; two have the same slug
  x, y               \* texts

MCSlugs == {"home", "work"}
MCToSlug == [name \in Names |-> IF name = work THEN "work" ELSE "home"]

(* One organisation with the projects there are, the first task in the     *)
(* first of them.                                                          *)
MCInit ==
  /\ orgs = o1 :> [name |-> home, slug |-> "home", text |-> x]
  /\ projects = [p \in ProjectIds |-> [org |-> o1, text |-> x, archived |-> FALSE]]
  /\ tasks = [t \in TaskIds \cap {t1} |->
                [project |-> p1, text |-> x, status |-> "In Progress", completed |-> FALSE]]
  /\ attachments = <<>>
  /\ objects = {}
  /\ uploads = <<>>
  /\ jobs = [h \in Handlers |-> Idle]
  /\ received = 0

MCSpec == MCInit /\ [][Next]_vars

(* Handlers, attachments and object keys are interchangeable.              *)
Symmetry ==
  Permutations(Handlers) \cup Permutations(AttachmentIds) \cup Permutations(ObjectKeys)
===============================================================================
