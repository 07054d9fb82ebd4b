-------------------------------- MODULE MCAuth --------------------------------
(***************************************************************************)
(* An instance of Auth for TLC.                                            *)
(***************************************************************************)
EXTENDS Auth

CONSTANTS
  h1, h2,    \* handlers
  here,      \* address
  admin,     \* email
  s1, s2     \* session tokens
===============================================================================
