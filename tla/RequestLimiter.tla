---------------------------- MODULE RequestLimiter ----------------------------
(***************************************************************************)
(* RequestLimiter of internal/security, which public share requests go     *)
(* through: a count of requests per key, in windows that start with the    *)
(* first request they count.  Allow holds a mutex, so it is one step.      *)
(*                                                                         *)
(* What is left of a window counts down with Tick; at 0 it is over.        *)
(***************************************************************************)
EXTENDS Integers, Functions

CONSTANTS
  Keys,    \* what requests are counted under: an address, an address and a share
  Limit,   \* requests a window admits
  Window   \* ticks a window lasts

ASSUME LimitsAssumption == Limit \in Nat \ {0} /\ Window \in Nat \ {0}

VARIABLES
  entries,  \* key -> count and what is left of its window
  recent    \* for the properties: key -> age in ticks -> requests admitted then

vars == <<entries, recent>>

Ages == 0..(Window - 1)

Pruned == Restrict(entries, {key \in DOMAIN entries : entries[key].left > 0})

(* Mutant: blocks one request late. *)
FullPastLimit(key) ==
  key \in DOMAIN entries /\ entries[key].left > 0 /\ entries[key].count > Limit

Full(key) ==
  key \in DOMAIN entries /\ entries[key].left > 0 /\ entries[key].count >= Limit

Counted(keys) ==
  [key \in DOMAIN Pruned \cup keys |->
    IF key \notin keys THEN Pruned[key]
    ELSE IF key \in DOMAIN Pruned THEN [Pruned[key] EXCEPT !.count = @ + 1]
    ELSE [count |-> 1, left |-> Window]]

Noted(keys) ==
  [key \in Keys |-> IF key \in keys THEN [recent[key] EXCEPT ![0] = @ + 1] ELSE recent[key]]

(* Mutant: keys are counted one by one until one of them is full. *)
AllowCountsAsItGoes(keys) ==
  IF \E key \in keys : Full(key)
  THEN \E some \in SUBSET {key \in keys : ~Full(key)} :
         entries' = Counted(some) /\ UNCHANGED recent
  ELSE entries' = Counted(keys) /\ recent' = Noted(keys)

(* Windows that are over are dropped; then all the keys are looked at, and *)
(* only if none of them is full are all of them counted.  A request        *)
(* without keys (they are all blank) is admitted and counted nowhere.      *)
Allow(keys) ==
  IF \E key \in keys : Full(key)
  THEN entries' = Pruned /\ UNCHANGED recent
  ELSE entries' = Counted(keys) /\ recent' = Noted(keys)

Tick ==
  /\ entries' = [key \in DOMAIN entries |->
       [entries[key] EXCEPT !.left = IF @ = 0 THEN 0 ELSE @ - 1]]
  /\ recent' = [key \in Keys |-> [age \in Ages |-> IF age = 0 THEN 0 ELSE recent[key][age - 1]]]

Init ==
  /\ entries = <<>>
  /\ recent = [key \in Keys |-> [age \in Ages |-> 0]]

Next == Tick \/ \E keys \in SUBSET Keys : Allow(keys)

Spec == Init /\ [][Next]_vars

-------------------------------------------------------------------------------
(* Properties.                                                             *)

Admitted(key) == SumFunction(recent[key])

(* Windows are not sliding: one may be filled at its end and the next at   *)
(* its beginning.  That is the worst: in no period of the length of a      *)
(* window are more requests of a key admitted than two windows hold, less  *)
(* the one that opened the first of them.                                  *)
BurstsAreBounded == \A key \in Keys : Admitted(key) <= 2 * Limit - 1

(* A key that is full has earned it: as many of its requests as a window   *)
(* holds were admitted within the length of one.  Requests refused for     *)
(* another key's sake are not held against it.                             *)
FullKeysWereUsed == \A key \in Keys : Full(key) => Admitted(key) >= Limit
===============================================================================
