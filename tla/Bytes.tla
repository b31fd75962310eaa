------------------------------- MODULE Bytes -------------------------------
(***************************************************************************)
(* Byte strings (bytes.c).  A byte string is a pointer and a length, and   *)
(* nothing ends it: its characters are those that memory happens to hold.  *)
(* Memory is a function `mem` from addresses to character codes, a string  *)
(* a record [at, len]; strings that the code only reads once are given by  *)
(* their characters, a sequence.                                           *)
(***************************************************************************)
EXTENDS Integers, Sequences

CONSTANTS
  Int64,    \* numbers that an int64_t or a size_t tells apart (2^64)
  Int32     \* numbers that an int tells apart (2^32)

ASSUME BytesAssumption ==
  /\ Int64 \in Nat \ {0} /\ Int64 % 2 = 0
  /\ Int32 \in Nat \ {0} /\ Int32 % 2 = 0 /\ Int32 <= Int64

\* bvoid, the null string.
Void == [at |-> 0, len |-> 0]

Chars(mem, b) == [i \in 1..b.len |-> mem[b.at + i - 1]]

\* The string that a sequence of characters is.
All(text) == [at |-> 1, len |-> Len(text)]

Smaller(a, b) == IF a < b THEN a ELSE b

\* bslice: an `end` is taken on trust, 0 stands for the end of the string.
Slice(b, start, end) ==
  IF start >= b.len
  THEN [b EXCEPT !.len = 0]
  ELSE [at |-> b.at + start,
        len |-> IF end > 0 THEN (end - start) % Int64 ELSE b.len - start]

\* bprintf: a string with the n characters that a format makes, as if there
\* was room for them, and the room that is left.
Printed(b, n) ==
  [first |-> [b EXCEPT !.len = n],
   second |-> [at |-> b.at + n, len |-> (b.len - n) % Int64]]

\* bsame
Same(mem, b, text) == Chars(mem, b) = text

Strings == [at : Nat, len : Nat]

\* After how many characters of a string bfind has matched all of `what`, 0 if
\* it never has: a character that does not go on with a match is not looked
\* at again.
EndOfMatch(mem, in, what) ==
  LET end[i \in 0..in.len] ==    \* from character i on, when j are matched
        [j \in 0..Len(what) |->
           IF j = Len(what) THEN i
           ELSE IF i = in.len THEN 0
           ELSE end[i + 1][IF mem[in.at + i] = what[j + 1] THEN j + 1 ELSE 0]] IN
  end[0][0]

\* Seeded fault: the last character is not looked at.
FindShort(mem, in, what) ==
  LET e == EndOfMatch(mem, [in EXCEPT !.len = in.len - Smaller(1, in.len)], what) IN
  IF e = 0
  THEN [before |-> in, found |-> Void, after |-> Void]
  ELSE [before |-> [at |-> in.at, len |-> e - Len(what)],
        found |-> [at |-> in.at + e - Len(what), len |-> Len(what)],
        after |-> [at |-> in.at + e, len |-> in.len - e]]

\* bfind
Find(mem, in, what) ==
  LET e == EndOfMatch(mem, in, what) IN
  IF e = 0
  THEN [before |-> in, found |-> Void, after |-> Void]
  ELSE [before |-> [at |-> in.at, len |-> e - Len(what)],
        found |-> [at |-> in.at + e - Len(what), len |-> Len(what)],
        after |-> [at |-> in.at + e, len |-> in.len - e]]

\* A number as an int64_t holds it.
Wrapped(n) == ((n + (Int64 \div 2)) % Int64) - (Int64 \div 2)

Minus == 45
Zero == 48
IsDigit(c) == c \in Zero..(Zero + 9)

\* Seeded fault: the sign is read as a digit.
ToNumberUnsigned(text) ==
  LET acc[i \in 0..Len(text)] ==
        IF i = 0 THEN 0 ELSE Wrapped(acc[i - 1] * 10 + text[i] - Zero) IN
  IF \E i \in 1..Len(text) : ~IsDigit(text[i]) THEN 0 ELSE acc[Len(text)]

\* btoi64: anything that is not a number is 0, and a long one wraps, as the
\* compiler leaves signed overflow to the machine.
ToNumber(text) ==
  LET negative == text # << >> /\ text[1] = Minus
      digits == SubSeq(text, IF negative THEN 2 ELSE 1, Len(text))
      acc[i \in 0..Len(digits)] ==
        IF i = 0 THEN 0 ELSE Wrapped(acc[i - 1] * 10 + digits[i] - Zero) IN
  IF \E i \in 1..Len(digits) : ~IsDigit(digits[i]) THEN 0
  ELSE Wrapped(IF negative THEN -acc[Len(digits)] ELSE acc[Len(digits)])

\* A number with n digits of base b has one of that many values.
Power(b, n) ==
  LET power[k \in 0..n] == IF k = 0 THEN 1 ELSE power[k - 1] * b IN power[n]

\* A number as an int holds it: btoi makes one of what btoi64 reads.
Truncated(n) == ((n + (Int32 \div 2)) % Int32) - (Int32 \div 2)

\* Digits from the last to the first, turned round; none if n < 0.
Digits(n) ==
  LET rest[k \in 0..n] == IF k < 10 THEN 1 ELSE 1 + rest[k \div 10]
      count == rest[n] IN
  IF n < 0 THEN << >>
  ELSE [i \in 1..count |-> Zero + ((n \div Power(10, count - i)) % 10)]

\* What bprintf makes of %ld or %zd.
Decimal(n) == IF n < 0 THEN <<Minus>> \o Digits(-n) ELSE Digits(n)

\* itob: the number is passed as an int.
Itob(n) == Digits(Truncated(n))

\* Seeded fault: the room in the destination is not looked at.
CopiedWhole(mem, dst, text) ==
  [a \in DOMAIN mem |->
     IF a \in dst.at..(dst.at + Len(text) - 1)
     THEN text[a - dst.at + 1] ELSE mem[a]]

\* bcpy: what fits of a text, over what the destination holds.
Copied(mem, dst, text) ==
  [a \in DOMAIN mem |->
     IF a \in dst.at..(dst.at + Smaller(dst.len, Len(text)) - 1)
     THEN text[a - dst.at + 1] ELSE mem[a]]

\* bcat: memory, and the string in it.
Joined(mem, dst, first, second) ==
  LET rest == Slice(dst, Len(first), 0)
      left == Slice(rest, Len(second), 0) IN
  [mem |-> Copied(Copied(mem, dst, first), rest, second),
   str |-> [dst EXCEPT !.len = dst.len - left.len]]
=============================================================================
