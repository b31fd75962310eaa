------------------------------- MODULE MCFeed -------------------------------
(* Transfers for TLC: bytes 0..7, integers of two bytes. *)
EXTENDS Feed, TLC

Branch(id) == <<OpBranch>> \o Encoded(id)

\* A change that claims any lengths, with a body that looks like opcodes.
Insert(l, n) == <<OpInsert, 0, 3>> \o Encoded(l) \o Encoded(n)
Bodies == {<< >>, <<OpBranch, 0>>}
Tails == {<< >>, <<OpBranch>>, <<OpBranch, 0>>, Branch(9), <<7>>,
          Branch(9) \o Insert(1, 0) \o <<5>>, Insert(0, 1) \o <<5>>}

TextsVal ==
  {Branch(1) \o Insert(l, n) \o b \o t :
     l \in 0..(Word - 1), n \in 0..(Word - 1), b \in Bodies, t \in Tails}
  \cup Tails

C(last, now) == [pos |-> 3, last |-> last, now |-> now]
Changes == {C(<< >>, <<OpBranch>>), C(<<5, OpInsert>>, << >>), C(<<5>>, <<6>>)}
Sequels == {<< >>} \cup {<<c>> : c \in Changes} \cup {<<c, d>> : c, d \in Changes}

ListsVal == {[id |-> i, changes |-> s] : i \in {1, 10}, s \in Sequels}

DisksVal == {<< >>, 1 :> <<OpInsert>>}
=============================================================================
