------------------------------ MODULE WalletBooks ------------------------------
(***************************************************************************)
(* What the wallet promises of a month, without its tables: the opening    *)
(* balance, the net of what is posted to it, the balance the user's wallet *)
(* has, and whether the month is closed.  A posting moves the wallet by    *)
(* what it posts.  Only setting the balances and dropping an allocation    *)
(* open a gap between wallet and books.  A closed month keeps the balance  *)
(* it was closed with and changes only by being reopened or deleted.       *)
(***************************************************************************)
EXTENDS Integers

CONSTANTS
  MonthIds,  \* the months there can be
  None       \* no closing balance

VARIABLE books  \* month -> what is known of it

Sound(m) ==
  \/ books[m].status = "open" /\ books[m].closedWallet = None
  \/ books[m].status = "closed" /\ books[m].closedWallet = books[m].wallet

Init == DOMAIN books \subseteq MonthIds /\ \A m \in DOMAIN books : Sound(m)

OnlyMonth(m) ==
  /\ DOMAIN books' = DOMAIN books
  /\ \A n \in DOMAIN books \ {m} : books'[n] = books[n]

StaysOpen(m) ==
  /\ OnlyMonth(m)
  /\ books[m].status = "open"
  /\ books'[m].status = "open"
  /\ books'[m].closedWallet = None

(* A new month, with the allocations and the income prepared for it.       *)
Open(m) ==
  /\ m \notin DOMAIN books
  /\ DOMAIN books' = DOMAIN books \cup {m}
  /\ \A n \in DOMAIN books : books'[n] = books[n]
  /\ books'[m].status = "open"
  /\ books'[m].closedWallet = None

(* Income, spending, edits, deletions, splits and reconciliations; a       *)
(* reconciliation may need an allocation, and the user may add one.        *)
Post(m) ==
  /\ StaysOpen(m)
  /\ books'[m].opening = books[m].opening
  /\ books'[m].wallet - books[m].wallet = books'[m].posted - books[m].posted
  /\ books'[m].allocations - books[m].allocations \in {0, 1}

SetBalances(m) ==
  /\ StaysOpen(m)
  /\ books'[m].posted = books[m].posted
  /\ books'[m].allocations = books[m].allocations

(* An allocation goes, and what was posted on it with it.                  *)
DropAllocation(m) ==
  /\ StaysOpen(m)
  /\ books'[m].opening = books[m].opening
  /\ books'[m].wallet = books[m].wallet
  /\ books'[m].allocations = books[m].allocations - 1

Close(m) ==
  /\ books[m].status = "open"
  /\ books' = [books EXCEPT ![m].status = "closed", ![m].closedWallet = books[m].wallet]

Reopen(m) ==
  /\ books[m].status = "closed"
  /\ books' = [books EXCEPT ![m].status = "open", ![m].closedWallet = None]

Delete(m) == books' = [n \in DOMAIN books \ {m} |-> books[n]]

Next ==
  \/ \E m \in MonthIds : Open(m)
  \/ \E m \in DOMAIN books :
       \/ Post(m) \/ SetBalances(m) \/ DropAllocation(m)
       \/ Close(m) \/ Reopen(m) \/ Delete(m)

Spec == Init /\ [][Next]_books
===============================================================================
