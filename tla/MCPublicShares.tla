---------------------------- MODULE MCPublicShares ----------------------------
(***************************************************************************)
(* An instance of PublicShares for TLC: a folder with a note, a note that  *)
(* is shared alone, and one picture.                                       *)
(***************************************************************************)
EXTENDS PublicShares, TLC

CONSTANTS h1, h2, here, s1, s2, draft, memo, folder, photo

MCCovers == (folder :> {draft, photo}) @@ (memo :> {memo})
MCLoads  == {[writes |-> 3, ticks |-> 1], [writes |-> 0, ticks |-> 5]}
MCKeys   == UNION {KeysOf(ip, id) : ip \in Addresses, id \in ShareIds}

Symmetry == Permutations(Handlers) \cup Permutations(ShareIds)
===============================================================================
