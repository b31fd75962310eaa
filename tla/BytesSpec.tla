----------------------------- MODULE BytesSpec -----------------------------
(***************************************************************************)
(* The functions of Bytes against what they are for, on every text that    *)
(* can be made of an alphabet, character by character.                     *)
(***************************************************************************)
EXTENDS Bytes, FiniteSetsExt

CONSTANTS
  Alphabet,   \* character codes
  MaxLength,  \* bound: length of a text
  Needles     \* what is looked for

ASSUME BytesSpecAssumption ==
  /\ Alphabet \subseteq 0..255
  /\ MaxLength \in Nat
  /\ Needles \subseteq Seq(0..255) \ {<< >>}

VARIABLE text

NoText == text = << >>

Grow ==
  /\ Len(text) < MaxLength
  /\ \E c \in Alphabet : text' = Append(text, c)

Texts == NoText /\ [][Grow]_text

-----------------------------------------------------------------------------
Left(n) == SubSeq(text, 1, n)
From(n) == SubSeq(text, n + 1, Len(text))

\* `what` comes after the first k characters.
Occurs(what, k) == SubSeq(text, k + 1, k + Len(what)) = what

Occurrences(what) == {k \in 0..(Len(text) - Len(what)) : Occurs(what, k)}

\* The text breaks off a match with a character that a match could start at
\* or go on with.
BreaksOff(what) ==
  \E k \in 1..(Len(what) - 1) : \E i \in (k + 1)..Len(text) :
    /\ SubSeq(text, i - k, i - 1) = SubSeq(what, 1, k)
    /\ text[i] # what[k + 1]
    /\ \E s \in 1..k : SubSeq(text, (i - s) + 1, i) = SubSeq(what, 1, s)

\* bfind: the parts it returns make up the text, and what it has found is
\* what was looked for; if nothing is found, all of the text comes before.
\* It finds what is there, and the first of it, unless the text breaks off a
\* match with a character that is not looked at again: a line end after a lone
\* CR is overlooked.
FindRight ==
  \A what \in Needles :
    LET f == Find(text, All(text), what) IN
    /\ IF f.found = Void
       THEN f.before = All(text) /\ f.after = Void
       ELSE /\ Same(text, f.found, what)
            /\ Chars(text, f.before) \o what \o Chars(text, f.after) = text
    /\ ~BreaksOff(what) =>
         IF Occurrences(what) = {} THEN f.found = Void
         ELSE f.found.at = Min(Occurrences(what)) + 1

IsNumber ==
  \E sign \in {0, 1} :
    /\ sign = 1 => text # << >> /\ text[1] = Minus
    /\ \A i \in (sign + 1)..Len(text) : IsDigit(text[i])

\* The digits of a text count by their places, a sign not at all.
Places ==
  LET value[i \in 0..Len(text)] ==
        IF i = 0 THEN 0
        ELSE value[i - 1] + (IF text[i] = Minus THEN 0
                             ELSE (text[i] - Zero) * Power(10, Len(text) - i)) IN
  value[Len(text)]

\* btoi64 reads a number as an int64_t holds it, the least one included, whose
\* digits alone it cannot hold; a text that is none is 0, as no session is.
\* It reads what bprintf prints of any number back as that number, and what
\* itob writes as the int that was passed, of which it writes no negative one.
NumbersRight ==
  LET n == ToNumber(text) IN
  /\ n = IF ~IsNumber THEN 0
         ELSE Wrapped(IF text # << >> /\ text[1] = Minus THEN -Places ELSE Places)
  /\ ToNumber(Decimal(n)) = n
  /\ IF Truncated(n) < 0 THEN Itob(n) = << >>
     ELSE /\ ToNumber(Itob(n)) = Truncated(n)
          /\ Itob(n)[1] = Zero => Truncated(n) = 0

\* bcat joins two strings in a destination of any size, which cuts off what it
\* has no room for and is not written past its end.
JoinsWithin ==
  \A n \in 0..Len(text) : \A size \in 0..(MaxLength + 1) :
    LET dst == [at |-> 2, len |-> size]
        blank == [a \in 1..(MaxLength + 3) |-> -1]
        j == Joined(blank, dst, Left(n), From(n)) IN
    /\ Chars(j.mem, j.str) = Left(Smaller(size, Len(text)))
    /\ \A a \in DOMAIN blank : a \notin 2..(size + 1) => j.mem[a] = -1

\* A string is a part of another.
PartOf(b, whole) == b.at >= whole.at /\ b.at + b.len <= whole.at + whole.len

\* "All functions here take into account the specified length of their
\* arguments" (bytes.c:35): what bprintf has printed is a part of the string
\* it was given for it, and so is the room that it leaves.  Neither is, when
\* the text has more characters than that string.
PartsWithin ==
  \A size \in 1..MaxLength :
    LET dst == [at |-> 1, len |-> size]
        p == Printed(dst, Len(text)) IN
    PartOf(p.first, dst) /\ PartOf(p.second, dst)
=============================================================================
