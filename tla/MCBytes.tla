------------------------------ MODULE MCBytes ------------------------------
(* Texts of line ends, digits and signs for TLC. *)
EXTENDS BytesSpec

CR == 13
LF == 10

AlphabetVal == {CR, LF, Minus, 48, 50, 51}

NeedlesVal ==
  {<<CR, LF>>, <<CR, LF, CR, LF>>, <<48>>, <<50, 51>>, <<48, 48, 50>>}
=============================================================================
