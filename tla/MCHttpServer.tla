---------------------------- MODULE MCHttpServer ----------------------------
(* Small instances of HttpServer for TLC. *)
EXTENDS HttpServer, TLC

Symmetry == Permutations(Conns)

(* A page, one that is absent, a feed, requests that do not fit the buffer,  *)
(* and a file whose answer does not fit one write.                           *)
Page == [size |-> 1, answer |-> 2, opens |-> "unchecked"]
Absent == [Page EXCEPT !.opens = "absent"]
Feed == [size |-> 2, answer |-> 1, opens |-> "checked"]
Long == [size |-> 3, answer |-> 1, opens |-> "no"]
Longer == [size |-> 4, answer |-> 1, opens |-> "no"]
Huge == [size |-> 1, answer |-> 3, opens |-> "no"]

AllRequests == {Page, Absent, Feed, Long, Huge}
LongerRequests == {Page, Absent, Feed, Longer, Huge}
=============================================================================
