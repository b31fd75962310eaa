------------------------------ MODULE Delivery ------------------------------
(***************************************************************************)
(* What the feed promises the person who types, whatever the network does: *)
(* the branch file on the server holds the changes of every page in the    *)
(* order in which they were typed and without gaps.  A run of changes may  *)
(* be saved again (delivery is at least once), but a change never reaches  *)
(* the file before the one typed just before it.                           *)
(***************************************************************************)
EXTENDS Integers, Sequences

CONSTANTS
  Clients,     \* pages open in a browser
  MaxChanges   \* bound: changes one page can make

VARIABLES
  typed,       \* typed[c]: how many changes page c has made so far
  log          \* the branch file: a sequence of <<page, number of the change>>

vars == <<typed, log>>

Entries(c, batch) == [i \in 1..Len(batch) |-> <<c, batch[i]>>]

Saved(c, n) == \E i \in 1..Len(log) : log[i] = <<c, n>>

Init ==
  /\ typed = [c \in Clients |-> 0]
  /\ log = << >>

Type(c) ==
  /\ typed[c] < MaxChanges
  /\ typed' = [typed EXCEPT ![c] = @ + 1]
  /\ UNCHANGED log

\* A run lo..hi of typed changes is appended; everything before it is there.
SaveRun(c, lo, hi) ==
  /\ \A n \in 1..(lo - 1) : Saved(c, n)
  /\ hi <= typed[c]
  /\ log' = log \o Entries(c, [i \in 1..(hi - lo + 1) |-> lo + i - 1])
  /\ UNCHANGED typed

Next ==
  \E c \in Clients :
    \/ Type(c)
    \/ \E lo, hi \in 1..MaxChanges : SaveRun(c, lo, hi)

Spec == Init /\ [][Next]_vars
=============================================================================
