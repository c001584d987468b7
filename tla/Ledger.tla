------------------------------- MODULE Ledger -------------------------------
(***************************************************************************)
(* What the hub's token store promises to the people who hold tokens, with  *)
(* no process, lock, memory or temporary file: a book of tokens that is     *)
(* only ever added to and struck through.  A crash is not visible here.     *)
(* Module Hub implements it.                                               *)
(***************************************************************************)
CONSTANTS
  Id,     \* token IDs
  Entry,  \* what the book says of a token: its secret, its kind, is it active?
  None    \* nothing

VARIABLES
  book,      \* the entries
  promised,  \* IDs whose token was handed to somebody
  withdrawn  \* IDs whose revocation was confirmed to somebody

vars == <<book, promised, withdrawn>>

Struck(e) == [e EXCEPT !.active = FALSE]

Init ==
  /\ book = [t \in Id |-> None]
  /\ promised = {} /\ withdrawn = {}

\* Any number of changes is entered at once: new entries are made, old ones
\* struck through, and nothing is erased, altered or restored.
Enter ==
  /\ book' \in [Id -> Entry \cup {None}]
  /\ \A t \in Id : book[t] # None => book'[t] \in {book[t], Struck(book[t])}
  /\ UNCHANGED <<promised, withdrawn>>

\* A token is handed out once it is in the book.
Promise(t) ==
  /\ book[t] # None
  /\ promised' = promised \cup {t}
  /\ UNCHANGED <<book, withdrawn>>

\* A revocation is confirmed once the entry is struck through.
Withdraw(t) ==
  /\ book[t] # None /\ ~book[t].active
  /\ withdrawn' = withdrawn \cup {t}
  /\ UNCHANGED <<book, promised>>

Next == Enter \/ \E t \in Id : Promise(t) \/ Withdraw(t)

Spec == Init /\ [][Next]_vars
=============================================================================
