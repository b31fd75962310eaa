----------------------------- MODULE TextProofs -----------------------------
(***************************************************************************)
(* What is read in texts, for all of them: the functions of bytes.c do     *)
(* what they are for on every text (the specification Texts of BytesSpec), *)
(* and what a connection makes of requests and answers with them is right  *)
(* for all messages, however they come in pieces (Spec, of HttpRequest).   *)
(***************************************************************************)
EXTENDS BytesSpec, HttpRequest, BytesProofs

\* What the steps keep of the text.
TextInv == text \in Seq(Alphabet) /\ Len(text) <= MaxLength

LEMMA TextIs ==
  ASSUME TextInv
  PROVE  \E n \in Nat : n = Len(text) /\ n <= MaxLength /\ text \in Seq(Nat)
<1>1. text \in Seq(Alphabet) /\ Alphabet \subseteq Nat
  BY BytesSpecAssumption DEF TextInv
<1>2. PICK n \in Nat : n = Len(text)
  BY <1>1, LenProperties
<1>3. \A i \in 1..n : text[i] \in Nat
  BY <1>1, <1>2, ElementOfSeq
<1>4. text = [i \in 1..n |-> text[i]]
  BY <1>1, <1>2, LenProperties
<1>5. text \in [1..n -> Nat]
  BY <1>3, <1>4
<1>6. text \in Seq(Nat)
  BY <1>5, SeqDef
<1>7. QED
  BY <1>2, <1>6 DEF TextInv

LEMMA TextStays == Texts => []TextInv
<1>1. NoText => TextInv
  BY BytesSpecAssumption, EmptySeq DEF NoText, TextInv
<1>2. TextInv /\ [Grow]_text => TextInv'
  <2> SUFFICES ASSUME TextInv, [Grow]_text
               PROVE  TextInv'
    OBVIOUS
  <2>1. CASE Grow
    <3>1. PICK c \in Alphabet : text' = Append(text, c) /\ Len(text) < MaxLength
      BY <2>1 DEF Grow
    <3>2. text \in Seq(Alphabet) /\ Len(text) \in Nat /\ MaxLength \in Nat
      BY LenProperties, BytesSpecAssumption DEF TextInv
    <3>3. text' \in Seq(Alphabet) /\ Len(text') = Len(text) + 1
      BY <3>1, <3>2, AppendProperties
    <3>4. QED
      BY <3>1, <3>2, <3>3 DEF TextInv
  <2>2. CASE text' = text
    BY <2>2 DEF TextInv
  <2>3. QED
    BY <2>1, <2>2
<1>3. QED
  BY <1>1, <1>2, PTL DEF Texts

-----------------------------------------------------------------------------
(* bfind *)

\* Where the memory is the text itself, and the string is all of it.
LEMMA TextMatched ==
  ASSUME TextInv, NEW n \in Nat, n = Len(text),
         NEW what \in Seq(Nat), NEW j \in 0..Len(what), NEW i \in j..n
  PROVE  Matched(text, 1, what, i, j) <=>
           SubSeq(text, (i - j) + 1, i) = SubSeq(what, 1, j)
<1>1. text \in Seq(Nat)
  BY TextIs
<1>2. PICK m \in Nat : m = Len(what)
  BY LenProperties
<1>3. i \in Nat /\ j \in Nat /\ j <= i /\ j \in 0..m
  BY <1>2
<1> DEFINE a == SubSeq(text, (i - j) + 1, i)
           b == SubSeq(what, 1, j)
<1>4. PICK s \in Nat : s = (i - j) + 1 /\ s \in 1..(n + 1) /\ i \in (s - 1)..n
                       /\ (i + 1) - s = j
  BY <1>3
<1>5. a \in Seq(Nat) /\ Len(a) = j /\ \A k \in 1..j : a[k] = text[s + k - 1]
  <2>1. PICK len \in Nat :
               /\ len = (i + 1) - s
               /\ SubSeq(text, s, i) \in Seq(Nat) /\ Len(SubSeq(text, s, i)) = len
               /\ \A k \in 1..len : SubSeq(text, s, i)[k] = text[s + k - 1]
    BY <1>1, <1>4, Part
  <2>2. QED
    BY <1>4, <2>1
<1>6. b \in Seq(Nat) /\ Len(b) = j /\ \A k \in 1..j : b[k] = what[k]
  <2>1. 1 \in 1..(m + 1) /\ j \in (1 - 1)..m
    BY <1>2
  <2>2. PICK len \in Nat :
               /\ len = (j + 1) - 1
               /\ SubSeq(what, 1, j) \in Seq(Nat) /\ Len(SubSeq(what, 1, j)) = len
               /\ \A k \in 1..len : SubSeq(what, 1, j)[k] = what[1 + k - 1]
    BY <1>2, <2>1, Part
  <2>3. \A k \in 1..j : 1 + k - 1 = k
    OBVIOUS
  <2>4. len = j
    BY <2>2
  <2>5. QED
    BY <2>2, <2>3, <2>4
<1> HIDE DEF a, b
<1>7. a = b <=> \A k \in 1..j : a[k] = b[k]
  BY <1>5, <1>6, SeqEqual
<1>8. \A k \in 1..j : 1 + (i - j) + k - 1 = s + k - 1
  BY <1>4
<1>9. Matched(text, 1, what, i, j) <=> \A k \in 1..j : text[s + k - 1] = what[k]
  BY <1>3, <1>8 DEF Matched
<1>10. (\A k \in 1..j : text[s + k - 1] = what[k]) <=> (\A k \in 1..j : a[k] = b[k])
  BY <1>5, <1>6
<1>11. QED
  BY <1>7, <1>9, <1>10 DEF a, b

LEMMA TextOccurs ==
  ASSUME TextInv, NEW n \in Nat, n = Len(text),
         NEW what \in Seq(Nat), NEW m \in Nat, m = Len(what),
         NEW k \in Nat, k + m <= n
  PROVE  Matched(text, 1, what, k + m, m) <=> Occurs(what, k)
<1>1. m \in 0..Len(what) /\ k + m \in m..n
  OBVIOUS
<1>2. Matched(text, 1, what, k + m, m) <=>
        SubSeq(text, ((k + m) - m) + 1, k + m) = SubSeq(what, 1, m)
  BY <1>1, TextMatched
<1>3. ((k + m) - m) + 1 = k + 1
  OBVIOUS
<1>4. SubSeq(what, 1, m) = what
  BY SubSeqFull
<1>5. QED
  BY <1>2, <1>3, <1>4 DEF Occurs

\* If the text does not break off a match so that it goes unseen, nothing is
\* broken for the matching.
LEMMA TextUnbroken ==
  ASSUME TextInv, NEW n \in Nat, n = Len(text),
         NEW what \in Seq(Nat), NEW m \in Nat, m = Len(what), ~BreaksOff(what)
  PROVE  Unbroken(text, 1, what, n, m)
<1> SUFFICES ASSUME NEW i \in 0..(n - 1), NEW j \in 1..(m - 1), NEW s \in 1..j,
                    BreaksAt(text, 1, what, i, j, s)
             PROVE  BreaksOff(what)
  BY DEF Unbroken
<1>1. /\ Matched(text, 1, what, i, j) /\ Matched(text, 1, what, i + 1, s)
      /\ text[1 + i] # what[j + 1]
  BY DEF BreaksAt
<1>2. j <= i
  BY <1>1 DEF Matched
<1>3. PICK x \in Nat : x = i + 1
  OBVIOUS
<1>4. /\ j \in 1..(Len(what) - 1) /\ x \in (j + 1)..Len(text) /\ s \in 1..j
      /\ j \in 0..Len(what) /\ i \in j..n /\ s \in 0..Len(what) /\ x \in s..n
  BY <1>2, <1>3
<1>5. SubSeq(text, x - j, x - 1) = SubSeq(what, 1, j)
  <2>1. SubSeq(text, (i - j) + 1, i) = SubSeq(what, 1, j)
    BY <1>1, <1>4, TextMatched
  <2>2. (i - j) + 1 = x - j /\ i = x - 1
    BY <1>3
  <2>3. QED
    BY <2>1, <2>2
<1>6. SubSeq(text, (x - s) + 1, x) = SubSeq(what, 1, s)
  BY <1>1, <1>3, <1>4, TextMatched, ZenonT(60)
<1>7. text[x] # what[j + 1]
  <2>1. 1 + i = x
    BY <1>3
  <2>2. QED
    BY <1>1, <2>1
<1>8. QED
  BY <1>4, <1>5, <1>6, <1>7 DEF BreaksOff

\* What bfind returns, by the end of the match.
LEMMA FindReturns ==
  ASSUME TextInv, NEW n \in Nat, n = Len(text),
         NEW what \in Seq(Nat), NEW m \in Nat, m = Len(what), m > 0
  PROVE  LET f == Find(text, All(text), what) IN
         \E e \in 0..n :
           /\ e = EndOfMatch(text, All(text), what)
           /\ e = 0 => f.before = All(text) /\ f.found = Void /\ f.after = Void
           /\ e # 0 => /\ m <= e /\ Matched(text, 1, what, e, m)
                       /\ f.before = [at |-> 1, len |-> e - m]
                       /\ f.found = [at |-> 1 + e - m, len |-> m]
                       /\ f.after = [at |-> 1 + e, len |-> n - e]
                       /\ f.found # Void
<1> DEFINE in == All(text)
           f == Find(text, in, what)
<1>1. in = [at |-> 1, len |-> n] /\ in \in Strings
  BY DEF All, Strings
<1>2. in.at = 1 /\ in.len = n
  BY <1>1
<1> HIDE DEF in
<1>3. PICK e \in 0..n : /\ e = EndOfMatch(text, in, what)
                        /\ e # 0 => Matched(text, 1, what, e, m)
  BY <1>1, <1>2, MatchIsFound
<1>4. CASE e = 0
  <2>1. f = [before |-> in, found |-> Void, after |-> Void]
    BY <1>3, <1>4 DEF Find
  <2>2. QED
    BY <1>3, <1>4, <2>1 DEF in
<1>5. CASE e # 0
  <2>1. f = [before |-> [at |-> 1, len |-> e - m],
             found |-> [at |-> 1 + e - m, len |-> m],
             after |-> [at |-> 1 + e, len |-> n - e]]
    BY <1>2, <1>3, <1>5 DEF Find
  <2>2. f.found # Void
    <3>1. f.found = [at |-> 1 + e - m, len |-> m]
      BY <2>1
    <3>2. f.found.len # 0
      BY <3>1
    <3>3. Void.len = 0
      BY DEF Void
    <3>4. QED
      BY <3>2, <3>3
  <2>3. m <= e
    BY <1>3, <1>5 DEF Matched
  <2>4. /\ f.before = [at |-> 1, len |-> e - m]
        /\ f.found = [at |-> 1 + e - m, len |-> m]
        /\ f.after = [at |-> 1 + e, len |-> n - e]
    <3> HIDE DEF f
    <3>1. QED
      BY <2>1
  <2> HIDE DEF f
  <2>5. e # 0 => /\ m <= e /\ Matched(text, 1, what, e, m)
                 /\ f.before = [at |-> 1, len |-> e - m]
                 /\ f.found = [at |-> 1 + e - m, len |-> m]
                 /\ f.after = [at |-> 1 + e, len |-> n - e]
                 /\ f.found # Void
    BY <1>3, <2>2, <2>3, <2>4
  <2>6. QED
    BY <1>3, <1>5, <2>5 DEF in, f
<1>6. QED
  BY <1>4, <1>5

LEMMA TextOfLength ==
  ASSUME NEW n \in Nat, NEW s \in [1..n -> Nat]
  PROVE  s \in Seq(Nat) /\ Len(s) = n
<1>1. s \in Seq(Nat)
  BY SeqDef
<1>2. DOMAIN s = 1..n /\ Len(s) \in Nat /\ DOMAIN s = 1..Len(s)
  BY <1>1, LenProperties
<1>3. QED
  BY <1>1, <1>2

\* A text is what comes before a part of it, the part, and what comes after.
LEMMA PartsMakeText ==
  ASSUME TextInv, NEW n \in Nat, n = Len(text),
         NEW e \in 0..n, NEW m \in 0..e
  PROVE  Chars(text, [at |-> 1, len |-> e - m])
           \o Chars(text, [at |-> 1 + e - m, len |-> m])
           \o Chars(text, [at |-> 1 + e, len |-> n - e]) = text
<1> DEFINE a == Chars(text, [at |-> 1, len |-> e - m])
           b == Chars(text, [at |-> 1 + e - m, len |-> m])
           c == Chars(text, [at |-> 1 + e, len |-> n - e])
<1>1. text \in Seq(Nat) /\ \A i \in 1..n : text[i] \in Nat
  BY TextIs, ElementOfSeq
<1>2. PICK k \in Nat, l \in Nat : k = e - m /\ l = n - e /\ m \in Nat
  <2>1. e - m \in Nat /\ n - e \in Nat /\ m \in Nat
    <3>1. e \in Nat /\ m \in Nat /\ m <= e /\ e <= n
      OBVIOUS
    <3>2. QED
      BY <3>1
  <2>2. QED
    BY <2>1, Zenon
<1>3. /\ a = [i \in 1..k |-> text[1 + i - 1]]
      /\ b = [i \in 1..m |-> text[1 + e - m + i - 1]]
      /\ c = [i \in 1..l |-> text[1 + e + i - 1]]
  BY <1>2 DEF Chars
<1>4. /\ \A i \in 1..k : 1 + i - 1 = i /\ i \in 1..n
      /\ \A i \in 1..m : 1 + e - m + i - 1 = k + i /\ k + i \in 1..n
      /\ \A i \in 1..l : 1 + e + i - 1 = e + i /\ e + i \in 1..n
  BY <1>2
<1> HIDE DEF a, b, c
<1>5. /\ a \in [1..k -> Nat] /\ b \in [1..m -> Nat] /\ c \in [1..l -> Nat]
  BY <1>1, <1>3, <1>4
<1>6. /\ a \in Seq(Nat) /\ Len(a) = k /\ b \in Seq(Nat) /\ Len(b) = m
      /\ c \in Seq(Nat) /\ Len(c) = l
  <2>1. a \in Seq(Nat) /\ Len(a) = k
    BY <1>2, <1>5, TextOfLength
  <2>2. b \in Seq(Nat) /\ Len(b) = m
    BY <1>2, <1>5, TextOfLength
  <2>3. c \in Seq(Nat) /\ Len(c) = l
    BY <1>2, <1>5, TextOfLength
  <2>4. QED
    BY <2>1, <2>2, <2>3
<1>7. /\ \A i \in 1..k : a[i] = text[i]
      /\ \A i \in 1..m : b[i] = text[k + i]
      /\ \A i \in 1..l : c[i] = text[e + i]
  BY <1>3, <1>4
<1> DEFINE d == a \o b
           t == d \o c
<1>8. /\ d \in Seq(Nat) /\ Len(d) = k + m
      /\ \A i \in 1..(k + m) : d[i] = IF i <= k THEN a[i] ELSE b[i - k]
  BY <1>6, ConcatProperties
<1> HIDE DEF d
<1>9. Len(d) = e
  BY <1>2, <1>8
<1>10. /\ t \in Seq(Nat) /\ Len(t) = e + l
       /\ \A i \in 1..(e + l) : t[i] = IF i <= e THEN d[i] ELSE c[i - e]
  <2>1. /\ t \in Seq(Nat) /\ Len(t) = Len(d) + Len(c)
        /\ \A i \in 1..(Len(d) + Len(c)) :
             t[i] = IF i <= Len(d) THEN d[i] ELSE c[i - Len(d)]
    <3>1. d \in Seq(Nat) /\ c \in Seq(Nat)
      BY <1>6, <1>8
    <3>2. QED
      BY <3>1, ConcatProperties, Zenon
  <2> HIDE DEF t
  <2>2. QED
    BY <1>6, <1>9, <2>1, Zenon
<1> HIDE DEF t
<1>11. e + l = n
  BY <1>2
<1>12. ASSUME NEW i \in 1..n
       PROVE  t[i] = text[i]
  <2>1. CASE i <= k
    <3>1. i <= e /\ i \in 1..(k + m) /\ i \in 1..k /\ i \in 1..(e + l)
      BY <1>2, <1>11, <2>1
    <3>2. QED
      BY <1>7, <1>8, <1>10, <2>1, <3>1
  <2>2. CASE k < i /\ i <= e
    <3>1. PICK x \in Nat : x = i - k
      BY <2>2
    <3>2. /\ i <= e /\ ~(i <= k) /\ i \in 1..(k + m) /\ x \in 1..m /\ k + x = i
          /\ i \in 1..(e + l)
      BY <1>2, <1>11, <2>2, <3>1
    <3>3. t[i] = d[i] /\ d[i] = b[x]
      BY <1>8, <1>10, <3>1, <3>2
    <3>4. QED
      BY <1>7, <3>2, <3>3
  <2>3. CASE e < i
    <3>1. PICK x \in Nat : x = i - e
      BY <2>3
    <3>2. ~(i <= e) /\ x \in 1..l /\ e + x = i /\ i \in 1..(e + l)
      BY <1>2, <1>11, <2>3, <3>1
    <3>3. t[i] = c[x]
      BY <1>10, <3>1, <3>2
    <3>4. QED
      BY <1>7, <3>2, <3>3
  <2>4. QED
    BY <1>2, <2>1, <2>2, <2>3
<1>13. t = text
  BY <1>1, <1>10, <1>11, <1>12, SeqEqual
<1>14. QED
  BY <1>13 DEF a, b, c, d, t

\* bfind, for one string that is looked for.
LEMMA NeedleFound ==
  ASSUME TextInv, NEW what \in Seq(Nat), what # << >>
  PROVE  LET f == Find(text, All(text), what) IN
    /\ IF f.found = Void
       THEN f.before = All(text) /\ f.after = Void
       ELSE /\ Same(text, f.found, what)
            /\ Chars(text, f.before) \o what \o Chars(text, f.after) = text
    /\ ~BreaksOff(what) =>
         IF Occurrences(what) = {} THEN f.found = Void
         ELSE f.found.at = Min(Occurrences(what)) + 1
<1>1. PICK n \in Nat : n = Len(text)
  BY TextIs
<1>2. PICK m \in Nat : m = Len(what) /\ m > 0
  BY LenProperties, EmptySeq
<1> DEFINE in == All(text)
           f == Find(text, in, what)
<1>3. PICK e \in 0..n :
        /\ e = EndOfMatch(text, in, what)
        /\ e = 0 => f.before = in /\ f.found = Void /\ f.after = Void
        /\ e # 0 => /\ m <= e /\ Matched(text, 1, what, e, m)
                    /\ f.before = [at |-> 1, len |-> e - m]
                    /\ f.found = [at |-> 1 + e - m, len |-> m]
                    /\ f.after = [at |-> 1 + e, len |-> n - e]
                    /\ f.found # Void
  BY <1>1, <1>2, FindReturns
<1>4. in \in Strings /\ in.at = 1 /\ in.len = n
  BY <1>1 DEF All, Strings
<1> HIDE DEF f, in
<1>5. ASSUME e # 0
      PROVE  /\ Chars(text, f.found) = what
             /\ Chars(text, f.before) \o what \o Chars(text, f.after) = text
  <2> DEFINE part == Chars(text, [at |-> 1 + e - m, len |-> m])
  <2>1. m \in 0..e /\ e \in Nat /\ e <= n
    BY <1>3, <1>5
  <2>2. Matched(text, 1, what, e, m)
    BY <1>3, <1>5
  <2>3. part = [i \in 1..m |-> text[1 + e - m + i - 1]]
    BY DEF Chars
  <2>4. \A i \in 1..m : 1 + (e - m) + i - 1 = 1 + e - m + i - 1
    BY <2>1
  <2>5. \A i \in 1..m : text[1 + (e - m) + i - 1] = what[i]
    BY <2>2 DEF Matched
  <2>6. \A i \in 1..m : part[i] = what[i] /\ what[i] \in Nat
    BY <1>2, <2>3, <2>4, <2>5, ElementOfSeq
  <2>7. DOMAIN part = 1..m
    BY <2>3
  <2>8. part \in [1..m -> Nat]
    BY <2>3, <2>6
  <2> HIDE DEF part
  <2>9. part \in Seq(Nat) /\ Len(part) = m
    BY <2>8, TextOfLength
  <2>10. part = what
    BY <1>2, <2>6, <2>9, SeqEqual
  <2>11. Chars(text, [at |-> 1, len |-> e - m]) \o part
           \o Chars(text, [at |-> 1 + e, len |-> n - e]) = text
    BY <1>1, <2>1, PartsMakeText DEF part
  <2>12. QED
    BY <1>3, <1>5, <2>10, <2>11 DEF part
<1>6. IF f.found = Void
      THEN f.before = in /\ f.after = Void
      ELSE /\ Same(text, f.found, what)
           /\ Chars(text, f.before) \o what \o Chars(text, f.after) = text
  BY <1>3, <1>5 DEF Same
<1>7. ASSUME Occurrences(what) = {}
      PROVE  f.found = Void
  <2> SUFFICES ASSUME e # 0
               PROVE  FALSE
    BY <1>3
  <2>1. m <= e /\ Matched(text, 1, what, e, m) /\ e \in Nat /\ e <= n
    BY <1>3
  <2>2. PICK k \in Nat : k = e - m
    BY <2>1
  <2>3. k + m = e /\ k + m <= n /\ k \in 0..(Len(text) - Len(what))
    BY <1>1, <1>2, <2>1, <2>2
  <2>4. Occurs(what, k)
    BY <1>1, <1>2, <2>1, <2>3, TextOccurs
  <2>5. QED
    BY <1>7, <2>3, <2>4 DEF Occurrences
<1>8. ASSUME ~BreaksOff(what), Occurrences(what) # {}
      PROVE  f.found.at = Min(Occurrences(what)) + 1
  <2> DEFINE T == Occurrences(what)
             k0 == Min(T)
  <2>1. T \in SUBSET Nat /\ T # {}
    <3>1. \A k \in T : k \in 0..(Len(text) - Len(what))
      BY DEF Occurrences
    <3>2. QED
      BY <1>8, <3>1
  <2>2. k0 \in T /\ \A y \in T : k0 <= y
    <3> HIDE DEF T
    <3>1. \E x \in T : \A y \in T : x <= y
      BY <2>1, LeastExists
    <3>2. QED
      BY <3>1 DEF Min
  <2> HIDE DEF k0
  <2>3. \A k \in Nat : k + m <= n /\ Occurs(what, k) => k \in T
    BY <1>1, <1>2 DEF Occurrences
  <2>4. PICK k \in Nat : k = k0 /\ k + m <= n /\ Occurs(what, k) /\ k \in 0..(n - m)
    BY <1>1, <1>2, <2>1, <2>2 DEF Occurrences
  <2>5. Matched(text, 1, what, k + m, m)
    BY <1>1, <1>2, <2>4, TextOccurs
  <2>6. ASSUME NEW l \in 0..(k - 1), Matched(text, 1, what, l + m, m)
        PROVE  FALSE
    <3>1. l \in Nat /\ l + m <= n /\ l < k
      BY <2>4
    <3>2. Occurs(what, l)
      BY <1>1, <1>2, <2>6, <3>1, TextOccurs
    <3>3. k <= l
      BY <2>2, <2>3, <2>4, <3>1, <3>2
    <3>4. QED
      BY <3>1, <3>3
  <2>7. StandsFirst(text, 1, what, k, m)
    BY <2>5, <2>6 DEF StandsFirst
  <2>8. Unbroken(text, 1, what, n, m)
    BY <1>1, <1>2, <1>8, TextUnbroken
  <2>9. e = k + m
    <3>1. /\ in \in Strings /\ what \in Seq(Nat)
          /\ n \in Nat /\ n = in.len /\ m \in Nat /\ m = Len(what) /\ m > 0
          /\ k \in 0..(n - m)
      BY <1>2, <1>4, <2>4
    <3>2. /\ StandsFirst(text, in.at, what, k, m)
          /\ Unbroken(text, in.at, what, n, m)
      BY <1>4, <2>7, <2>8
    <3>3. EndOfMatch(text, in, what) = k + m
      BY <3>1, <3>2, MatchIsFirst
    <3>4. QED
      BY <1>3, <3>3
  <2>10. e # 0 /\ (1 + e) - m = k + 1
    BY <1>2, <2>9
  <2>11. f.found = [at |-> 1 + e - m, len |-> m]
    BY <1>3, <2>10
  <2>12. f.found.at = 1 + e - m
    BY <2>11
  <2>13. QED
    BY <2>4, <2>10, <2>12 DEF k0
<1>9. QED
  BY <1>6, <1>7, <1>8 DEF f, in

\* bfind returns parts of the text, what it finds is what it was given, and
\* it finds the first of it, unless the text breaks off a match: for every
\* text and every string that is looked for.
THEOREM FindsRight == Texts => []FindRight
<1>1. TextInv => FindRight
  <2> SUFFICES ASSUME TextInv, NEW what \in Needles
               PROVE  LET f == Find(text, All(text), what) IN
    /\ IF f.found = Void
       THEN f.before = All(text) /\ f.after = Void
       ELSE /\ Same(text, f.found, what)
            /\ Chars(text, f.before) \o what \o Chars(text, f.after) = text
    /\ ~BreaksOff(what) =>
         IF Occurrences(what) = {} THEN f.found = Void
         ELSE f.found.at = Min(Occurrences(what)) + 1
    BY DEF FindRight
  <2>1. what \in Seq(0..255) /\ what # << >>
    BY BytesSpecAssumption
  <2>2. what \in Seq(Nat)
    <3>1. PICK m \in Nat : m = Len(what)
      BY <2>1, LenProperties
    <3>2. ASSUME NEW i \in 1..m
          PROVE  what[i] \in Nat
      <4>1. what[i] \in 0..255
        BY <2>1, <3>1, ElementOfSeq
      <4>2. QED
        BY <4>1
    <3>3. what = [i \in 1..m |-> what[i]]
      BY <2>1, <3>1, LenProperties
    <3>4. what \in [1..m -> Nat]
      BY <3>2, <3>3
    <3>5. QED
      BY <3>4, TextOfLength
  <2>3. QED
    BY <2>1, <2>2, NeedleFound
<1>2. QED
  BY <1>1, TextStays, PTL

-----------------------------------------------------------------------------
(* btoi64, itob *)

After(s, digits, m) == \A i \in 1..m : digits[i] = text[s + i]

LEMMA SignedIs ==
  ASSUME TextInv, NEW n \in Nat, n = Len(text)
  PROVE  \E s \in {0, 1}, m \in Nat, digits \in Seq(Nat) :
           /\ Signed(text, s, digits)
           /\ s <= n /\ m = n - s /\ m = Len(digits)
           /\ s = 1 => text[1] = Minus
           /\ After(s, digits, m)
<1>1. text \in Seq(Nat)
  BY TextIs
<1>2. PICK s \in {0, 1} : s = 1 <=> text # << >> /\ text[1] = Minus
  <2>1. CASE text # << >> /\ text[1] = Minus
    BY <2>1
  <2>2. CASE ~(text # << >> /\ text[1] = Minus)
    <3>1. 0 \in {0, 1} /\ ~(0 = 1)
      OBVIOUS
    <3>2. QED
      BY <2>2, <3>1
  <2>3. QED
    BY <2>1, <2>2
<1>3. s <= n
  <2>1. text # << >> => n > 0
    BY <1>1, EmptySeq, LenProperties
  <2>2. QED
    BY <1>2, <2>1
<1>4. PICK a \in 1..(n + 1) : a = s + 1 /\ n \in (a - 1)..n
  BY <1>3
<1>5. PICK m \in Nat :
        /\ m = (n + 1) - a
        /\ SubSeq(text, a, n) \in Seq(Nat) /\ Len(SubSeq(text, a, n)) = m
        /\ \A i \in 1..m : SubSeq(text, a, n)[i] = text[a + i - 1]
  <2>1. \E b \in (a - 1)..n : b = n
    BY <1>4
  <2>2. PICK b \in (a - 1)..n : b = n
    BY <2>1
  <2>3. PICK m \in Nat :
          /\ m = (b + 1) - a
          /\ SubSeq(text, a, b) \in Seq(Nat) /\ Len(SubSeq(text, a, b)) = m
          /\ \A i \in 1..m : SubSeq(text, a, b)[i] = text[a + i - 1]
    <3>1. /\ text \in Seq(Nat) /\ n \in Nat /\ n = Len(text)
          /\ a \in 1..(n + 1) /\ b \in (a - 1)..n
      BY <1>1
    <3>2. QED
      BY <3>1, Part
  <2>4. QED
    BY <2>2, <2>3
<1>6. m = n - s /\ \A i \in 1..m : a + i - 1 = s + i
  BY <1>4, <1>5
<1>7. PICK digits \in Seq(Nat) : digits = SubSeq(text, a, n)
  BY <1>5
<1>8. Len(digits) = m /\ digits = SubSeq(text, s + 1, n)
  BY <1>4, <1>5, <1>7
<1>9. After(s, digits, m)
  BY <1>5, <1>6, <1>7 DEF After
<1>10. Signed(text, s, digits)
  BY <1>2, <1>8 DEF Signed
<1>11. QED
  BY <1>2, <1>3, <1>6, <1>8, <1>9, <1>10

LEMMA NumberIs ==
  ASSUME TextInv, NEW n \in Nat, n = Len(text), NEW s \in {0, 1}, s <= n,
         s = 1 <=> text # << >> /\ text[1] = Minus,
         NEW m \in Nat, m = n - s, NEW digits \in Seq(Nat), m = Len(digits),
         After(s, digits, m)
  PROVE  IsNumber <=> AllDigits(digits)
<1>1. AllDigits(digits) <=> \A i \in (s + 1)..n : IsDigit(text[i])
  <2>1. ASSUME AllDigits(digits), NEW i \in (s + 1)..n
        PROVE  IsDigit(text[i])
    <3>1. PICK k \in 1..m : k = i - s
      OBVIOUS
    <3>2. s + k = i
      BY <3>1
    <3>3. IsDigit(digits[k]) /\ digits[k] = text[s + k]
      BY <2>1 DEF AllDigits, After
    <3>4. QED
      BY <3>2, <3>3
  <2>2. ASSUME \A i \in (s + 1)..n : IsDigit(text[i]), NEW k \in 1..m
        PROVE  IsDigit(digits[k])
    <3>1. s + k \in (s + 1)..n
      OBVIOUS
    <3>2. QED
      BY <2>2, <3>1 DEF After
  <2>3. QED
    BY <2>1, <2>2 DEF AllDigits
<1>2. CASE s = 1
  <2>1. text # << >> /\ text[1] = Minus /\ n > 0
    BY <1>2
  <2>2. ~IsDigit(text[1])
    BY <2>1 DEF IsDigit, Minus, Zero
  <2>3. ~(\A i \in (0 + 1)..n : IsDigit(text[i]))
    BY <2>1, <2>2
  <2>4. IsNumber <=> \A i \in (1 + 1)..n : IsDigit(text[i])
    BY <2>1, <2>3 DEF IsNumber
  <2>5. QED
    BY <1>1, <1>2, <2>4
<1>3. CASE s = 0
  <2>1. ~(text # << >> /\ text[1] = Minus)
    BY <1>3
  <2>2. IsNumber <=> \A i \in (0 + 1)..n : IsDigit(text[i])
    BY <2>1 DEF IsNumber
  <2>3. QED
    BY <1>1, <1>3, <2>2
<1>4. QED
  BY <1>2, <1>3

\* All of that, for a text.
Read(n, s, m, digits) ==
  /\ n = Len(text) /\ s <= 1 /\ s <= n /\ m = n - s /\ m = Len(digits)
  /\ s = 1 => text[1] = Minus
  /\ After(s, digits, m)

LEMMA NotMinus ==
  ASSUME NEW c, IsDigit(c)
  PROVE  c # Minus
BY DEF IsDigit, Minus, Zero

LEMMA HornerStep ==
  ASSUME NEW m \in Nat, NEW digits, m = Len(digits), AllDigits(digits),
         NEW v, Horner(v, digits, m), NEW k \in 1..m
  PROVE  /\ v[k - 1] \in Nat /\ v[k] \in Nat /\ digits[k] - Zero \in Int
         /\ v[k] = v[k - 1] * 10 + (digits[k] - Zero)
<1>1. v \in [0..m -> Nat] /\ v[k] = v[k - 1] * 10 + (digits[k] - Zero)
  BY DEF Horner
<1>2. digits[k] - Zero \in Int
  BY DigitValue
<1>3. v[k] \in Nat /\ v[k - 1] \in Nat
  BY <1>1
<1>4. QED
  BY <1>1, <1>2, <1>3

LEMMA TenStep ==
  ASSUME NEW r \in Nat
  PROVE  \E p \in Nat, q \in Nat :
           p = Power(10, r) /\ q = Power(10, r + 1) /\ q = 10 * p
<1>1. Power(10, r) \in Nat /\ Power(10, r + 1) = 10 * Power(10, r)
  BY TenPower
<1>2. QED
  BY <1>1

LEMMA DigitPlaced ==
  ASSUME NEW x \in Nat, NEW y \in Nat, NEW d \in Int, NEW p \in Nat, NEW q \in Nat,
         y = x * 10 + d, q = 10 * p
  PROVE  y * p = x * q + d * p
<1>1. y * p = (x * 10) * p + d * p
  OBVIOUS
<1>2. (x * 10) * p = x * (10 * p)
  OBVIOUS
<1>3. QED
  BY <1>1, <1>2

\* The value that digits have by their places is the value that they have one
\* after the other.
LEMMA PlacesIs ==
  ASSUME NEW n \in Nat, NEW s \in Nat, NEW m \in Nat, NEW digits,
         Read(n, s, m, digits),
         AllDigits(digits), NEW v, Horner(v, digits, m)
  PROVE  Places = v[m]
<1> DEFINE F(g) == [i \in 0..n |->
                      IF i = 0 THEN 0
                      ELSE g[i - 1] + (IF text[i] = Minus THEN 0
                                       ELSE (text[i] - Zero) * Power(10, n - i))]
           g == CHOOSE g : g = F(g)
           h == [i \in 0..n |-> IF i <= s THEN 0 ELSE v[i - s] * Power(10, n - i)]
           T == {i \in 0..n : g[i] = h[i]}
<1>1. Places = g[n]
  BY DEF Places, Read
<1>2. s \in {0, 1} /\ s <= n /\ m = n - s /\ m = Len(digits)
  BY DEF Read
<1>3. v \in [0..m -> Nat] /\ v[0] = 0
  BY DEF Horner
<1>4. \A k \in 1..m : v[k] = v[k - 1] * 10 + (digits[k] - Zero)
  BY DEF Horner
<1>5. ASSUME NEW i \in 1..n
      PROVE  h[i] = h[i - 1] + (IF text[i] = Minus THEN 0
                                ELSE (text[i] - Zero) * Power(10, n - i))
  <2>1. i - 1 \in 0..n /\ i \in 0..n
    OBVIOUS
  <2>2. CASE i <= s
    <3>1. i = 1 /\ s = 1
      BY <1>2, <2>2
    <3>2. h[i] = 0 /\ h[i - 1] = 0
      BY <2>1, <3>1
    <3> HIDE DEF h
    <3>3. text[i] = Minus
      BY <3>1 DEF Read
    <3>4. QED
      BY <3>2, <3>3
  <2>3. CASE s < i
    <3>1. PICK k \in 1..m : k = i - s
      BY <1>2, <2>3
    <3>2. PICK x \in Nat, y \in Nat, d \in Int :
            /\ x = v[k - 1] /\ y = v[k] /\ d = digits[k] - Zero
            /\ y = x * 10 + d
      <4>1. m = Len(digits)
        BY <1>2
      <4>2. AllDigits(digits) /\ Horner(v, digits, m) /\ k \in 1..m /\ m \in Nat
        OBVIOUS
      <4>3. QED
        <5>1. /\ v[k - 1] \in Nat /\ v[k] \in Nat /\ digits[k] - Zero \in Int
              /\ v[k] = v[k - 1] * 10 + (digits[k] - Zero)
          BY <4>1, <4>2, HornerStep
        <5>2. QED
          BY <5>1
    <3>3. text[i] = digits[k] /\ IsDigit(text[i])
      <4>1. s + k = i
        BY <3>1
      <4>2. QED
        BY <1>2, <4>1 DEF AllDigits, After, Read
    <3>4. text[i] # Minus
      BY <3>3, NotMinus
    <3>5. PICK r \in Nat : r = n - i
      OBVIOUS
    <3>6. PICK p \in Nat, q \in Nat : p = Power(10, r) /\ q = Power(10, r + 1) /\ q = 10 * p
      BY TenStep
    <3>7. h[i] = y * p
      <4>1. h[i] = v[i - s] * Power(10, n - i)
        BY <2>1, <2>3
      <4>2. QED
        BY <3>1, <3>2, <3>5, <3>6, <4>1
    <3>8. h[i - 1] = x * q
      <4>1. CASE i - 1 <= s
        <5>1. h[i - 1] = 0
          BY <2>1, <4>1
        <5>2. k - 1 = 0
          BY <1>2, <2>3, <3>1, <4>1
        <5>3. x = 0
          BY <1>3, <3>2, <5>2
        <5>4. QED
          BY <5>1, <5>3
      <4>2. CASE ~(i - 1 <= s)
        <5>1. h[i - 1] = v[(i - 1) - s] * Power(10, n - (i - 1))
          BY <2>1, <4>2
        <5>2. (i - 1) - s = k - 1 /\ n - (i - 1) = r + 1
          BY <3>1, <3>5
        <5>3. QED
          BY <3>2, <3>6, <5>1, <5>2
      <4>3. QED
        BY <4>1, <4>2
    <3> HIDE DEF h
    <3>9. y * p = x * q + d * p
      BY <3>2, <3>6, DigitPlaced
    <3>10. (text[i] - Zero) * Power(10, n - i) = d * p
      BY <3>2, <3>3, <3>5, <3>6
    <3>11. QED
      BY <3>4, <3>7, <3>8, <3>9, <3>10
  <2>4. QED
    BY <2>2, <2>3
<1>6. h = [i \in 0..n |-> h[i]] /\ h[0] = 0
  OBVIOUS
<1>7. v[m] = h[n]
  <2>1. CASE n <= s
    <3>1. m = 0 /\ h[n] = 0
      BY <1>2, <2>1
    <3>2. QED
      BY <1>3, <3>1
  <2>2. CASE s < n
    <3>1. h[n] = v[n - s] * Power(10, n - n)
      BY <2>2
    <3>2. n - n = 0 /\ n - s = m /\ v[m] \in Nat
      BY <1>2, <1>3
    <3> HIDE DEF h
    <3>3. h[n] = v[m] * 1
      BY <3>1, <3>2, TenPower
    <3>4. QED
      BY <3>2, <3>3
  <2>3. QED
    BY <2>1, <2>2
<1> HIDE DEF h
<1>8. \E f : f = F(f)
  <2>1. ASSUME NEW i \in 0..n
        PROVE  h[i] = IF i = 0 THEN 0
                      ELSE h[i - 1] + (IF text[i] = Minus THEN 0
                                       ELSE (text[i] - Zero) * Power(10, n - i))
    <3>1. CASE i = 0
      BY <1>6, <3>1
    <3>2. CASE i # 0
      <4>1. i \in 1..n
        BY <3>2
      <4>2. QED
        BY <1>5, <3>2, <4>1
    <3>3. QED
      BY <3>1, <3>2
  <2>2. h = F(h)
    BY <1>6, <2>1
  <2>3. QED
    BY <2>2
<1>9. g = F(g)
  <2> HIDE DEF F
  <2>1. QED
    BY <1>8
<1> HIDE DEF g
<1>10. g[0] = 0
  BY <1>9
<1>11. \A i \in 1..n : g[i] = g[i - 1] + (IF text[i] = Minus THEN 0
                                   ELSE (text[i] - Zero) * Power(10, n - i))
  <2> SUFFICES ASSUME NEW i \in 1..n
               PROVE  g[i] = F(g)[i] /\
                      F(g)[i] = g[i - 1] + (IF text[i] = Minus THEN 0
                                   ELSE (text[i] - Zero) * Power(10, n - i))
    OBVIOUS
  <2>1. i \in 0..n /\ i # 0
    OBVIOUS
  <2>2. F(g)[i] = g[i - 1] + (IF text[i] = Minus THEN 0
                                   ELSE (text[i] - Zero) * Power(10, n - i))
    BY <2>1
  <2>3. g[i] = F(g)[i]
    BY <1>9, Zenon
  <2>4. QED
    BY <2>2, <2>3
<1> HIDE DEF F
<1>12. 0 \in T
  BY <1>6, <1>10
<1>13. ASSUME NEW i \in 0..(n - 1), i \in T
       PROVE  i + 1 \in T
  <2>1. PICK k \in 1..n : k = i + 1
    OBVIOUS
  <2>2. k - 1 = i /\ k \in 0..n /\ g[i] = h[i]
    BY <1>13, <2>1
  <2>3. g[k] = g[k - 1] + (IF text[k] = Minus THEN 0
                           ELSE (text[k] - Zero) * Power(10, n - k))
    BY <1>11
  <2>4. h[k] = h[k - 1] + (IF text[k] = Minus THEN 0
                           ELSE (text[k] - Zero) * Power(10, n - k))
    BY <1>5
  <2>5. g[k] = h[k]
    BY <2>2, <2>3, <2>4, Zenon
  <2>6. QED
    BY <2>1, <2>2, <2>5
<1>14. 0..n \subseteq T
  <2> HIDE DEF T
  <2>1. QED
    BY <1>12, <1>13, Induction
<1>15. QED
  BY <1>1, <1>7, <1>14

\* For every text: btoi64 reads the number that it is, as an int64_t holds it,
\* and 0 if it is none; it reads back what bprintf prints of any number, and
\* what itob prints as the int that was passed.
THEOREM ReadsNumbers == Texts => []NumbersRight
<1>1. TextInv => NumbersRight
  <2> SUFFICES ASSUME TextInv
               PROVE  NumbersRight
    OBVIOUS
  <2> DEFINE negative == text # << >> /\ text[1] = Minus
             t == ToNumber(text)
  <2>1. PICK n \in Nat : n = Len(text)
    BY TextIs
  <2>2. PICK s \in {0, 1}, m \in Nat, digits \in Seq(Nat) :
          /\ Signed(text, s, digits)
          /\ s <= n /\ m = n - s /\ m = Len(digits)
          /\ s = 1 => text[1] = Minus
          /\ After(s, digits, m)
    BY <2>1, SignedIs
  <2>3. (s = 1 <=> negative) /\ digits = SubSeq(text, s + 1, n)
    BY <2>2 DEF Signed
  <2>4. IsNumber <=> AllDigits(digits)
    BY <2>1, <2>2, <2>3, NumberIs
  <2>5. /\ ~AllDigits(digits) => t = 0
        /\ AllDigits(digits) => \A v :
             Horner(v, digits, m) => t = Wrapped(IF s = 1 THEN -v[m] ELSE v[m])
    BY <2>2, ReadIs
  <2>6. Read(n, s, m, digits)
    <3>1. s <= 1
      OBVIOUS
    <3>2. QED
      BY <2>1, <2>2, <3>1 DEF Read
  <2> HIDE DEF t
  <2>7. ASSUME AllDigits(digits)
        PROVE  /\ t \in (-Half)..(Half - 1)
               /\ t = Wrapped(IF negative THEN -Places ELSE Places)
    <3>1. PICK v : /\ Horner(v, digits, m)
                   /\ t = Wrapped(IF s = 1 THEN -v[m] ELSE v[m])
      BY <2>2, <2>5, <2>7, HornerExists
    <3>2. Places = v[m]
      BY <2>6, <2>7, <3>1, PlacesIs
    <3>3. v[m] \in Nat
      BY <3>1 DEF Horner
    <3>4. PICK x \in Int : x = IF s = 1 THEN -v[m] ELSE v[m]
      BY <3>3
    <3>5. t = Wrapped(x)
      BY <3>1, <3>4
    <3>6. t \in (-Half)..(Half - 1)
      BY <3>5, WrappedIs
    <3>7. x = IF negative THEN -Places ELSE Places
      BY <2>3, <3>2, <3>4, Zenon
    <3>8. QED
      BY <3>5, <3>6, <3>7
  <2>8. t = IF ~IsNumber THEN 0
            ELSE Wrapped(IF text # << >> /\ text[1] = Minus THEN -Places ELSE Places)
    BY <2>4, <2>5, <2>7
  <2>9. t \in (-Half)..(Half - 1)
    <3>1. 0 \in (-Half)..(Half - 1)
      BY HalfIs
    <3>2. QED
      BY <2>5, <2>7, <3>1
  <2>10. ToNumber(Decimal(t)) = t
    BY <2>9, ReadsDecimal
  <2>11. PICK i \in (-HalfInt)..(HalfInt - 1) : i = Truncated(t)
    <3>1. t \in Int
      BY <2>9, HalfIs
    <3>2. QED
      BY <3>1, TruncatedIs
  <2>12. Itob(t) = Digits(i)
    BY <2>11 DEF Itob
  <2>13. IF i < 0 THEN Itob(t) = << >>
         ELSE ToNumber(Itob(t)) = i /\ (Itob(t)[1] = Zero => i = 0)
    <3>1. CASE i < 0
      BY <2>12, <3>1 DEF Digits
    <3>2. CASE ~(i < 0)
      <4>1. PICK x \in 0..(Half - 1) : x = i
        BY <3>2, HalfIs, HalfIntIs
      <4>2. QED
        BY <2>12, <3>2, <4>1, ReadsBack
    <3>3. QED
      BY <3>1, <3>2
  <2>14. QED
    BY <2>8, <2>10, <2>11, <2>13 DEF NumbersRight, t
<1>2. QED
  BY <1>1, TextStays, PTL

-----------------------------------------------------------------------------
(* bcat *)

\* What bcpy leaves in memory, address by address.
LEMMA CopiedIs ==
  ASSUME NEW mem, NEW at \in Nat, NEW len \in Nat, NEW chars \in Seq(Nat),
         NEW k \in Nat, k = Len(chars),
         NEW r \in Nat, r = Smaller(len, k), NEW a \in DOMAIN mem, a \in Nat
  PROVE  LET after == Copied(mem, [at |-> at, len |-> len], chars) IN
         /\ DOMAIN after = DOMAIN mem
         /\ at <= a /\ a < at + r => after[a] = chars[a - at + 1]
         /\ ~(at <= a /\ a < at + r) => after[a] = mem[a]
<1> DEFINE dst == [at |-> at, len |-> len]
           after == Copied(mem, dst, chars)
<1>1. dst.at = at /\ dst.len = len
  OBVIOUS
<1> HIDE DEF dst
<1>2. after = [b \in DOMAIN mem |->
                 IF b \in at..(at + r - 1) THEN chars[b - at + 1] ELSE mem[b]]
  BY <1>1 DEF Copied
<1>3. a \in at..(at + r - 1) <=> at <= a /\ a < at + r
  OBVIOUS
<1> HIDE DEF after
<1>4. DOMAIN after = DOMAIN mem
  BY <1>2
<1>5. after[a] = IF a \in at..(at + r - 1) THEN chars[a - at + 1] ELSE mem[a]
  BY <1>2
<1>6. QED
  BY <1>3, <1>4, <1>5 DEF after, dst

LEMMA LeftIs ==
  ASSUME TextInv, NEW length \in Nat, length = Len(text), NEW n \in Nat, n <= length
  PROVE  Left(n) \in Seq(Nat) /\ Len(Left(n)) = n /\ \A i \in 1..n : Left(n)[i] = text[i]
<1>1. text \in Seq(Nat)
  BY TextIs
<1>2. PICK a \in 1..(length + 1) : a = 1
  OBVIOUS
<1>3. PICK b \in (a - 1)..length : b = n
  BY <1>2
<1>4. PICK len \in Nat :
        /\ len = (b + 1) - a
        /\ SubSeq(text, a, b) \in Seq(Nat) /\ Len(SubSeq(text, a, b)) = len
        /\ \A i \in 1..len : SubSeq(text, a, b)[i] = text[a + i - 1]
  <2>1. /\ text \in Seq(Nat) /\ length \in Nat /\ length = Len(text)
        /\ a \in 1..(length + 1) /\ b \in (a - 1)..length
    BY <1>1
  <2>2. QED
    BY <2>1, Part
<1>5. len = n /\ \A i \in 1..n : a + i - 1 = i
  BY <1>2, <1>3, <1>4
<1>6. Left(n) = SubSeq(text, a, b)
  BY <1>2, <1>3 DEF Left
<1>7. QED
  BY <1>4, <1>5, <1>6

LEMMA FromIs ==
  ASSUME TextInv, NEW length \in Nat, length = Len(text), NEW n \in Nat, n <= length,
         NEW k \in Nat, k = length - n
  PROVE  From(n) \in Seq(Nat) /\ Len(From(n)) = k /\ \A i \in 1..k : From(n)[i] = text[n + i]
<1>1. text \in Seq(Nat)
  BY TextIs
<1>2. PICK a \in 1..(length + 1) : a = n + 1
  OBVIOUS
<1>3. PICK b \in (a - 1)..length : b = length
  BY <1>2
<1>4. PICK len \in Nat :
        /\ len = (b + 1) - a
        /\ SubSeq(text, a, b) \in Seq(Nat) /\ Len(SubSeq(text, a, b)) = len
        /\ \A i \in 1..len : SubSeq(text, a, b)[i] = text[a + i - 1]
  <2>1. /\ text \in Seq(Nat) /\ length \in Nat /\ length = Len(text)
        /\ a \in 1..(length + 1) /\ b \in (a - 1)..length
    BY <1>1
  <2>2. QED
    BY <2>1, Part
<1>5. len = k /\ \A i \in 1..k : a + i - 1 = n + i
  BY <1>2, <1>3, <1>4
<1>6. From(n) = SubSeq(text, a, b)
  BY <1>2, <1>3 DEF From
<1>7. QED
  BY <1>4, <1>5, <1>6

\* bcat, for one way to part the text and one size of the destination.
LEMMA JoinIs ==
  ASSUME TextInv, NEW n \in Nat, n <= Len(text), NEW size \in 0..(MaxLength + 1)
  PROVE  LET dst == [at |-> 2, len |-> size]
             blank == [a \in 1..(MaxLength + 3) |-> -1]
             j == Joined(blank, dst, Left(n), From(n)) IN
         /\ Chars(j.mem, j.str) = Left(Smaller(size, Len(text)))
         /\ \A a \in DOMAIN blank : a \notin 2..(size + 1) => j.mem[a] = -1
<1> DEFINE dst == [at |-> 2, len |-> size]
           blank == [a \in 1..(MaxLength + 3) |-> -1]
           first == Left(n)
           second == From(n)
           j == Joined(blank, dst, first, second)
           rest == Slice(dst, Len(first), 0)
           left == Slice(rest, Len(second), 0)
           one == Copied(blank, dst, first)
           two == Copied(one, rest, second)
<1>1. j.mem = two /\ j.str = [dst EXCEPT !.len = dst.len - left.len]
  BY DEF Joined
<1>2. PICK length \in Nat : length = Len(text) /\ length <= MaxLength /\ text \in Seq(Nat)
  BY TextIs
<1>3. PICK k \in Nat : k = length - n /\ n <= length
  <2>1. n <= length
    BY <1>2
  <2>2. length - n \in Nat
    BY <2>1
  <2>3. QED
    BY <2>1, <2>2
<1>4. MaxLength \in Nat /\ size \in Nat /\ size <= MaxLength + 1
  BY BytesSpecAssumption
<1>5. first \in Seq(Nat) /\ Len(first) = n /\ \A i \in 1..n : first[i] = text[i]
  BY <1>2, LeftIs
<1>6. second \in Seq(Nat) /\ Len(second) = k /\ \A i \in 1..k : second[i] = text[n + i]
  BY <1>2, <1>3, FromIs, ZenonT(90)
<1> HIDE DEF first, second
<1>7. PICK at \in Nat, len \in Nat :
        /\ rest = [at |-> at, len |-> len]
        /\ n >= size => at = 2 /\ len = 0
        /\ n < size => at = 2 + n /\ len = size - n
  <2>1. dst \in [at : Nat, len : Nat] /\ dst.at = 2 /\ dst.len = size
    BY <1>4
  <2> HIDE DEF dst
  <2>2. /\ n >= size => rest = [at |-> 2, len |-> 0]
        /\ n < size => rest = [at |-> 2 + n, len |-> size - n]
    BY <1>5, <2>1, SliceRest
  <2> HIDE DEF rest
  <2>3. CASE n >= size
    BY <2>2, <2>3
  <2>4. CASE n < size
    <3>1. 2 + n \in Nat /\ size - n \in Nat /\ ~(n >= size)
      BY <1>4, <2>4
    <3>2. QED
      BY <2>2, <2>4, <3>1
  <2>5. QED
    BY <1>4, <2>3, <2>4
<1> HIDE DEF rest
<1>8. PICK l \in Nat : l = Smaller(size, length) /\ l <= size /\ l <= length
  BY <1>4 DEF Smaller
<1>9. j.str = [at |-> 2, len |-> l]
  <2>1. rest \in [at : Nat, len : Nat] /\ rest.len = len
    BY <1>7
  <2>2. /\ k >= len => left = [at |-> rest.at, len |-> 0]
        /\ k < len => left = [at |-> rest.at + k, len |-> len - k]
    BY <1>6, <2>1, SliceRest
  <2> HIDE DEF left
  <2>3. left.len = IF k >= len THEN 0 ELSE len - k
    BY <2>2
  <2>4. dst.len - left.len = l
    <3>1. dst.len = size
      OBVIOUS
    <3>2. size - (IF k >= len THEN 0 ELSE len - k) = l
      BY <1>3, <1>4, <1>7, <1>8 DEF Smaller
    <3>3. QED
      BY <2>3, <3>1, <3>2
  <2>5. QED
    BY <1>1, <2>4
<1>10. ASSUME NEW a \in 1..(MaxLength + 3)
       PROVE  j.mem[a] = IF a \in 2..(l + 1) THEN text[a - 1] ELSE -1
  <2>1. PICK p \in Nat, q \in Nat : p = Smaller(size, n) /\ q = Smaller(len, k)
    BY <1>4 DEF Smaller
  <2>2. a \in Nat /\ a \in DOMAIN blank /\ blank[a] = -1
    BY <1>4
  <2> HIDE DEF blank
  <2>3. /\ DOMAIN one = DOMAIN blank
        /\ 2 <= a /\ a < 2 + p => one[a] = first[a - 2 + 1]
        /\ ~(2 <= a /\ a < 2 + p) => one[a] = blank[a]
    <3>1. /\ 2 \in Nat /\ size \in Nat /\ first \in Seq(Nat) /\ n \in Nat
          /\ n = Len(first) /\ p \in Nat /\ p = Smaller(size, n)
          /\ a \in DOMAIN blank /\ a \in Nat
      BY <1>4, <1>5, <2>1, <2>2
    <3>2. one = Copied(blank, [at |-> 2, len |-> size], first)
      OBVIOUS
    <3> HIDE DEF one
    <3> DEFINE copied == Copied(blank, [at |-> 2, len |-> size], first)
    <3>3. /\ DOMAIN copied = DOMAIN blank
          /\ 2 <= a /\ a < 2 + p => copied[a] = first[a - 2 + 1]
          /\ ~(2 <= a /\ a < 2 + p) => copied[a] = blank[a]
      BY <3>1, CopiedIs, SMTT(30)
    <3> HIDE DEF copied
    <3>4. one = copied
      BY <3>2 DEF copied
    <3>5. QED
      BY <3>3, <3>4
  <2> HIDE DEF one
  <2>4. /\ at <= a /\ a < at + q => two[a] = second[a - at + 1]
        /\ ~(at <= a /\ a < at + q) => two[a] = one[a]
    <3>1. /\ at \in Nat /\ len \in Nat /\ second \in Seq(Nat) /\ k \in Nat
          /\ k = Len(second) /\ q \in Nat /\ q = Smaller(len, k)
          /\ a \in DOMAIN one /\ a \in Nat
      BY <1>6, <2>1, <2>2, <2>3
    <3>2. two = Copied(one, [at |-> at, len |-> len], second)
      BY <1>7
    <3> HIDE DEF two
    <3> DEFINE copied == Copied(one, [at |-> at, len |-> len], second)
    <3>3. /\ at <= a /\ a < at + q => copied[a] = second[a - at + 1]
          /\ ~(at <= a /\ a < at + q) => copied[a] = one[a]
      BY <3>1, CopiedIs, SMTT(30)
    <3> HIDE DEF copied
    <3>4. two = copied
      BY <3>2 DEF copied
    <3>5. QED
      BY <3>3, <3>4
  <2> HIDE DEF two
  <2>5. CASE at <= a /\ a < at + q
    <3>1. PICK x \in 1..k : x = a - at + 1
      BY <2>1, <2>2, <2>5 DEF Smaller
    <3>2. n < size /\ at = 2 + n
      BY <1>4, <1>7, <2>1, <2>2, <2>5 DEF Smaller
    <3>3. n + x = a - 1
      BY <2>2, <3>1, <3>2
    <3>4. a \in 2..(l + 1)
      BY <1>3, <1>4, <1>7, <1>8, <2>1, <2>2, <2>5, <3>2 DEF Smaller
    <3>5. two[a] = text[a - 1]
      BY <1>6, <2>4, <2>5, <3>1, <3>3
    <3>6. QED
      BY <1>1, <3>4, <3>5
  <2>6. CASE ~(at <= a /\ a < at + q)
    <3>1. two[a] = one[a]
      BY <2>4, <2>6
    <3>2. CASE 2 <= a /\ a < 2 + p
      <4>1. PICK x \in 1..n : x = a - 2 + 1 /\ x = a - 1
        BY <2>1, <2>2, <3>2 DEF Smaller
      <4>2. a \in 2..(l + 1)
        BY <1>3, <1>4, <1>8, <2>1, <2>2, <3>2 DEF Smaller
      <4>3. one[a] = text[a - 1]
        BY <1>5, <2>3, <3>2, <4>1
      <4>4. QED
        BY <1>1, <3>1, <4>2, <4>3
    <3>3. CASE ~(2 <= a /\ a < 2 + p)
      <4>1. a \notin 2..(l + 1)
        BY <1>3, <1>4, <1>7, <1>8, <2>1, <2>2, <2>6, <3>3 DEF Smaller
      <4>2. one[a] = -1
        BY <2>2, <2>3, <3>3
      <4>3. QED
        BY <1>1, <3>1, <4>1, <4>2
    <3>4. QED
      BY <3>2, <3>3
  <2>7. QED
    BY <2>5, <2>6
<1> HIDE DEF j
<1>11. Chars(j.mem, j.str) = Left(Smaller(size, Len(text)))
  <2> DEFINE whole == Left(l)
             chars == Chars(j.mem, j.str)
  <2>1. whole \in Seq(Nat) /\ Len(whole) = l /\ \A i \in 1..l : whole[i] = text[i]
    BY <1>2, <1>8, LeftIs
  <2>2. chars = [i \in 1..l |-> j.mem[2 + i - 1]]
    BY <1>9 DEF Chars
  <2>3. ASSUME NEW i \in 1..l
        PROVE  j.mem[2 + i - 1] = text[i] /\ text[i] \in Nat
    <3>1. PICK a \in 1..(MaxLength + 3) : a = i + 1
      BY <1>4, <1>8
    <3>2. 2 + i - 1 = a /\ a - 1 = i /\ a \in 2..(l + 1)
      BY <3>1
    <3>3. j.mem[a] = text[a - 1]
      BY <1>10, <3>2
    <3>4. i \in 1..length
      BY <1>8
    <3>5. QED
      BY <1>2, <3>2, <3>3, <3>4, ElementOfSeq
  <2>4. chars \in [1..l -> Nat] /\ \A i \in 1..l : chars[i] = text[i]
    BY <2>2, <2>3
  <2> HIDE DEF whole, chars
  <2>5. chars \in Seq(Nat) /\ Len(chars) = l
    BY <2>4, TextOfLength
  <2>6. \A i \in 1..l : chars[i] = whole[i]
    BY <2>1, <2>4
  <2>7. chars = whole
    BY <2>1, <2>5, <2>6, SeqEqual
  <2>8. QED
    BY <1>2, <1>8, <2>7 DEF chars, whole
<1>12. ASSUME NEW a \in DOMAIN blank, a \notin 2..(size + 1)
       PROVE  j.mem[a] = -1
  <2>1. a \in 1..(MaxLength + 3)
    OBVIOUS
  <2>2. a \notin 2..(l + 1)
    BY <1>4, <1>8, <1>12, <2>1
  <2>3. QED
    BY <1>10, <2>1, <2>2
<1>13. QED
  BY <1>11, <1>12 DEF j, first, second

\* bcat puts one string after the other, cuts off what the destination has no
\* room for and writes nothing past its end: for every text, parted anywhere,
\* and every size of the destination.
THEOREM JoinsRight == Texts => []JoinsWithin
<1>1. TextInv => JoinsWithin
  <2> SUFFICES ASSUME TextInv, NEW n \in 0..Len(text), NEW size \in 0..(MaxLength + 1)
               PROVE  LET dst == [at |-> 2, len |-> size]
                          blank == [a \in 1..(MaxLength + 3) |-> -1]
                          j == Joined(blank, dst, Left(n), From(n)) IN
                      /\ Chars(j.mem, j.str) = Left(Smaller(size, Len(text)))
                      /\ \A a \in DOMAIN blank : a \notin 2..(size + 1) => j.mem[a] = -1
    BY DEF JoinsWithin
  <2>1. n \in Nat /\ n <= Len(text)
    BY TextIs
  <2>2. QED
    BY <2>1, JoinIs
<1>2. QED
  BY <1>1, TextStays, PTL

-----------------------------------------------------------------------------
(* Looking for a text *)

\* How much of `what` is matched after each of the first k characters.
Path(p, mem, in, what, k, m) ==
  /\ in \in Strings /\ m \in Nat /\ m = Len(what) /\ m > 0 /\ k \in 0..in.len
  /\ p \in [0..k -> 0..m] /\ p[0] = 0
  /\ \A i \in 0..(k - 1) :
       /\ p[i] < m
       /\ p[i + 1] = IF mem[in.at + i] = what[p[i] + 1] THEN p[i] + 1 ELSE 0

\* bfind goes that way.
LEMMA PathLeads ==
  ASSUME NEW p, NEW mem, NEW in, NEW what, NEW k, NEW m, Path(p, mem, in, what, k, m)
  PROVE  /\ p[k] = m => EndOfMatch(mem, in, what) = k
         /\ k = in.len /\ p[k] # m => EndOfMatch(mem, in, what) = 0
<1> DEFINE n == in.len
<1>0. in \in Strings /\ n \in Nat /\ m \in Nat /\ m = Len(what) /\ m > 0 /\ k \in 0..n
  BY DEF Path, Strings
<1> HIDE DEF n
<1>1. PICK end : Matching(end, mem, in, what, n, m)
  BY <1>0, MatchFollows DEF n
<1>2. end \in [0..n -> [0..m -> 0..n]]
  BY <1>1 DEF Matching
<1>3. \A i \in 0..n : end[i][m] = i
  BY <1>1 DEF Matching
<1>4. \A j \in 0..(m - 1) : end[n][j] = 0
  BY <1>1 DEF Matching
<1>5. \A i \in 0..(n - 1) : \A j \in 0..(m - 1) :
        end[i][j] = IF mem[in.at + i] = what[j + 1] THEN end[i + 1][j + 1]
                    ELSE end[i + 1][0]
  BY <1>1 DEF Matching
<1>6. p \in [0..k -> 0..m] /\ p[0] = 0
  BY DEF Path
<1>7. \A i \in 0..(k - 1) :
        /\ p[i] < m
        /\ p[i + 1] = IF mem[in.at + i] = what[p[i] + 1] THEN p[i] + 1 ELSE 0
  BY DEF Path
<1> DEFINE T == {i \in 0..k : end[0][0] = end[i][p[i]]}
<1>8. 0 \in T
  BY <1>0, <1>6
<1>9. \A i \in 0..(k - 1) : i \in T => i + 1 \in T
  <2> SUFFICES ASSUME NEW i \in 0..(k - 1), i \in T
               PROVE  i + 1 \in T
    OBVIOUS
  <2>1. i \in 0..(n - 1) /\ i \in 0..k /\ i + 1 \in 0..k
    BY <1>0
  <2>2. PICK j \in 0..(m - 1) : j = p[i]
    BY <1>0, <1>6, <1>7, <2>1
  <2>3. end[i][j] = IF mem[in.at + i] = what[j + 1] THEN end[i + 1][j + 1]
                    ELSE end[i + 1][0]
    BY <1>5, <2>1
  <2>4. p[i + 1] = IF mem[in.at + i] = what[j + 1] THEN j + 1 ELSE 0
    BY <1>7, <2>2
  <2>5. end[i][j] = end[i + 1][p[i + 1]]
    BY <2>3, <2>4
  <2>6. QED
    BY <1>0, <2>1, <2>2, <2>5
<1>10. k \in T
  <2> HIDE DEF T
  <2>1. k \in Nat
    BY <1>0
  <2>2. 0..k \subseteq T
    BY <1>8, <1>9, <2>1, Induction
  <2>3. QED
    BY <2>1, <2>2
<1>11. EndOfMatch(mem, in, what) = end[k][p[k]]
  BY <1>1, <1>10 DEF Matching
<1>12. k \in 0..n /\ p[k] \in 0..m
  BY <1>0, <1>6
<1>13. p[k] = m => end[k][p[k]] = k
  BY <1>0, <1>3, <1>12
<1>14. k = n /\ p[k] # m => end[k][p[k]] = 0
  BY <1>0, <1>4, <1>12
<1>15. QED
  BY <1>11, <1>13, <1>14 DEF n

\* What bfind returns when a match ends after k + m characters, and when none
\* has ended.
FoundAfter(in, k, m) ==
  [before |-> [at |-> in.at, len |-> k],
   found |-> [at |-> in.at + k, len |-> m],
   after |-> [at |-> in.at + k + m, len |-> in.len - (k + m)]]

NotFound(in) == [before |-> in, found |-> Void, after |-> Void]

LEMMA FindIsNone ==
  ASSUME NEW mem, NEW in, NEW what, EndOfMatch(mem, in, what) = 0
  PROVE  Find(mem, in, what) = NotFound(in)
BY DEF Find, NotFound

LEMMA FindIsAfter ==
  ASSUME NEW mem, NEW in, in \in Strings, NEW what, NEW m \in Nat, m = Len(what), m > 0,
         NEW k \in Nat, EndOfMatch(mem, in, what) = k + m
  PROVE  Find(mem, in, what) = FoundAfter(in, k, m)
<1>1. in.at \in Nat /\ in.len \in Nat
  BY DEF Strings
<1>2. k + m # 0 /\ (k + m) - m = k /\ in.at + (k + m) = in.at + k + m
        /\ in.at + (k + m) - m = in.at + k
  BY <1>1
<1>3. QED
  BY <1>2 DEF Find, FoundAfter

\* A text stands after k characters, of which none could begin it.
Comes(mem, in, what, k, m) ==
  /\ in \in Strings /\ m \in Nat /\ m = Len(what) /\ m > 0 /\ k \in Nat
  /\ k + m <= in.len
  /\ \A i \in 0..(k - 1) : mem[in.at + i] # what[1]
  /\ \A j \in 1..m : mem[in.at + k + j - 1] = what[j]

\* It is found there.
LEMMA FindsAfter ==
  ASSUME NEW mem, NEW in, NEW what, NEW k, NEW m, Comes(mem, in, what, k, m)
  PROVE  Find(mem, in, what) = FoundAfter(in, k, m)
<1>0. /\ in \in Strings /\ m \in Nat /\ m = Len(what) /\ m > 0 /\ k \in Nat
      /\ k + m <= in.len
  BY DEF Comes
<1>a. \A i \in 0..(k - 1) : mem[in.at + i] # what[1]
  BY DEF Comes
<1>b. \A j \in 1..m : mem[in.at + k + j - 1] = what[j]
  BY DEF Comes
<1>1. in.at \in Nat /\ in.len \in Nat
  BY <1>0 DEF Strings
<1> DEFINE p == [i \in 0..(k + m) |-> IF i <= k THEN 0 ELSE i - k]
<1>2. p \in [0..(k + m) -> 0..m] /\ p[0] = 0
  BY <1>0
<1>3. ASSUME NEW i \in 0..((k + m) - 1)
      PROVE  /\ p[i] < m
             /\ p[i + 1] = IF mem[in.at + i] = what[p[i] + 1] THEN p[i] + 1 ELSE 0
  <2>1. CASE i < k
    <3>1. i \in 0..(k - 1) /\ p[i] = 0 /\ p[i + 1] = 0
      BY <1>0, <2>1
    <3>2. mem[in.at + i] # what[1]
      BY <1>a, <3>1
    <3>3. QED
      BY <1>0, <3>1, <3>2
  <2>2. CASE i >= k
    <3>1. PICK j \in 1..m : j = i - k + 1
      BY <1>0, <2>2
    <3>2. p[i] = j - 1 /\ p[i + 1] = j /\ in.at + k + j - 1 = in.at + i
      BY <1>0, <1>1, <2>2, <3>1
    <3>3. mem[in.at + i] = what[j]
      BY <1>b, <3>2
    <3>4. p[i] + 1 = j /\ p[i] < m
      BY <1>0, <3>2
    <3>5. QED
      BY <3>2, <3>3, <3>4
  <2>3. QED
    BY <1>0, <2>1, <2>2
<1>4. Path(p, mem, in, what, k + m, m)
  <2>1. k + m \in 0..in.len
    BY <1>0, <1>1
  <2>2. QED
    BY <1>0, <1>2, <1>3, <2>1 DEF Path
<1>5. p[k + m] = m
  BY <1>0
<1> HIDE DEF p
<1>6. EndOfMatch(mem, in, what) = k + m
  BY <1>4, <1>5, PathLeads
<1>7. QED
  BY <1>0, <1>6, FindIsAfter

\* A text is not found where no character could begin it.
LEMMA FindsNone ==
  ASSUME NEW mem, NEW in \in Strings, NEW what,
         NEW m \in Nat, m = Len(what), m > 0,
         \A i \in 0..(in.len - 1) : mem[in.at + i] # what[1]
  PROVE  Find(mem, in, what) = NotFound(in)
<1>1. in.at \in Nat /\ in.len \in Nat
  BY DEF Strings
<1> DEFINE p == [i \in 0..in.len |-> 0]
<1>2. p \in [0..in.len -> 0..m] /\ p[0] = 0
  BY <1>1
<1>3. ASSUME NEW i \in 0..(in.len - 1)
      PROVE  /\ p[i] < m
             /\ p[i + 1] = IF mem[in.at + i] = what[p[i] + 1] THEN p[i] + 1 ELSE 0
  <2>1. p[i] = 0 /\ p[i + 1] = 0 /\ mem[in.at + i] # what[1]
    BY <1>1
  <2>2. QED
    BY <2>1
<1>4. Path(p, mem, in, what, in.len, m)
  <2>1. in.len \in 0..in.len
    BY <1>1
  <2>2. QED
    BY <1>2, <1>3, <2>1 DEF Path
<1>5. p[in.len] # m /\ in.len \in 0..in.len
  BY <1>1
<1> HIDE DEF p
<1>6. EndOfMatch(mem, in, what) = 0
  BY <1>4, <1>5, PathLeads
<1>7. QED
  BY <1>6, FindIsNone

-----------------------------------------------------------------------------
(* Lines *)

\* Lines, of which none is empty and the last does not end.
Lined(h) ==
  /\ h \in Seq(Nat)
  /\ \A i \in 1..Len(h) :
       /\ h[i] = 13 => i < Len(h) /\ h[i + 1] = 10
       /\ h[i] = 10 => /\ i > 1 /\ h[i - 1] = 13
                       /\ i < Len(h) /\ h[i + 1] \notin {13, 10}

LEMMA HeaderEndIs ==
  /\ LineEnd \in Seq(Nat) /\ Len(LineEnd) = 2 /\ LineEnd[1] = 13 /\ LineEnd[2] = 10
  /\ HeaderEnd \in Seq(Nat) /\ Len(HeaderEnd) = 4
  /\ HeaderEnd[1] = 13 /\ HeaderEnd[2] = 10 /\ HeaderEnd[3] = 13 /\ HeaderEnd[4] = 10
<1>1. LineEnd \in Seq(Nat) /\ Len(LineEnd) = 2 /\ LineEnd[1] = 13 /\ LineEnd[2] = 10
  BY DEF LineEnd
<1>2. /\ HeaderEnd \in Seq(Nat) /\ Len(HeaderEnd) = Len(LineEnd) + Len(LineEnd)
      /\ \A i \in 1..(Len(LineEnd) + Len(LineEnd)) :
           HeaderEnd[i] = IF i <= Len(LineEnd) THEN LineEnd[i] ELSE LineEnd[i - Len(LineEnd)]
  BY <1>1, ConcatProperties DEF HeaderEnd
<1>3. HeaderEnd[1] = 13 /\ HeaderEnd[2] = 10 /\ HeaderEnd[3] = 13 /\ HeaderEnd[4] = 10
  BY <1>1, <1>2
<1>4. QED
  BY <1>1, <1>2, <1>3

\* The first n characters of memory go as those of h do, and of the end of a
\* header after it.
Opens(mem, in, n, h, H) ==
  /\ Lined(h) /\ H \in Nat /\ H = Len(h) /\ H > 0
  /\ n \in Nat /\ in \in Strings /\ in.at = 1 /\ in.len = n
  /\ \A i \in 1..n : i <= H => mem[i] = h[i]
  /\ \A i \in 1..4 : H + i <= n => mem[H + i] = HeaderEnd[i]

\* The end of a header is found after its lines, not before, and not before
\* all of it has come.
LEMMA HeaderEndFound ==
  ASSUME NEW mem, NEW in, NEW n, NEW h, NEW H, Opens(mem, in, n, h, H)
  PROVE  /\ n >= H + 4 => Find(mem, in, HeaderEnd) = FoundAfter(in, H, 4)
         /\ n < H + 4 => Find(mem, in, HeaderEnd) = NotFound(in)
<1> USE DEF Opens
<1>1. in \in Strings /\ in.at = 1 /\ in.len = n
  OBVIOUS
<1>2. /\ Len(HeaderEnd) = 4 /\ HeaderEnd[1] = 13 /\ HeaderEnd[2] = 10
      /\ HeaderEnd[3] = 13 /\ HeaderEnd[4] = 10
  BY HeaderEndIs
<1>3. \A i \in 1..H :
       /\ h[i] = 13 => i < H /\ h[i + 1] = 10
       /\ h[i] = 10 => /\ i > 1 /\ h[i - 1] = 13
                       /\ i < H /\ h[i + 1] \notin {13, 10}
  BY DEF Lined
<1>4. PICK k \in Nat : k = IF n < H + 4 THEN n ELSE H + 4
  OBVIOUS
<1> DEFINE In(c) == IF c = 13 THEN 1 ELSE IF c = 10 THEN 2 ELSE 0
           p == [i \in 0..k |-> IF i = 0 THEN 0 ELSE IF i <= H THEN In(h[i]) ELSE i - H]
<1>5. p \in [0..k -> 0..4] /\ p[0] = 0
  BY <1>4
<1>6. \A i \in 0..(k - 1) : i >= H => p[i] = i - H /\ p[i + 1] = (i + 1) - H
  <2> SUFFICES ASSUME NEW i \in 0..(k - 1), i >= H
               PROVE  p[i] = i - H /\ p[i + 1] = (i + 1) - H
    OBVIOUS
  <2>1. In(h[H]) = 0
    BY <1>3
  <2>2. QED
    BY <2>1
<1>7. ASSUME NEW i \in 0..(k - 1)
      PROVE  /\ p[i] < 4
             /\ p[i + 1] = IF mem[1 + i] = HeaderEnd[p[i] + 1] THEN p[i] + 1 ELSE 0
  <2>1. CASE i >= H
    <3>1. PICK j \in 1..4 : j = i - H + 1
      BY <1>4, <2>1
    <3>2. p[i] = j - 1 /\ p[i + 1] = j
      <4>1. p[i] = i - H /\ p[i + 1] = (i + 1) - H
        BY <1>6, <2>1
      <4>2. QED
        BY <3>1, <4>1
    <3>3. H + j <= n /\ 1 + i = H + j
      BY <1>4, <3>1
    <3>4. mem[1 + i] = HeaderEnd[j]
      BY <3>3
    <3>5. p[i] + 1 = j /\ p[i] < 4
      BY <3>2
    <3> HIDE DEF p
    <3>6. QED
      BY <3>2, <3>4, <3>5
  <2>2. CASE i = 0
    <3>1. p[i] = 0 /\ 1 \in 1..H /\ 1 \in 1..n /\ p[i + 1] = In(h[1])
      BY <1>4, <2>2
    <3>2. mem[1 + i] = h[1] /\ h[1] # 10
      BY <1>3, <2>2, <3>1
    <3>3. QED
      BY <1>2, <3>1, <3>2
  <2>3. CASE i < H /\ i # 0
    <3>1. i \in 1..H /\ i + 1 \in 1..H /\ i + 1 \in 1..n /\ 1 + i = i + 1
      BY <1>4, <2>3
    <3>2. p[i] = In(h[i]) /\ p[i + 1] = In(h[i + 1])
      BY <1>4, <3>1
    <3>3. mem[1 + i] = h[i + 1]
      BY <3>1
    <3>4. h[i] = 13 => h[i + 1] = 10
      BY <1>3, <3>1
    <3>5. h[i] = 10 => h[i + 1] # 13 /\ h[i + 1] # 10
      BY <1>3, <3>1
    <3>6. h[i + 1] = 10 => h[i] = 13
      <4>1. (i + 1) - 1 = i
        BY <3>1
      <4>2. QED
        BY <1>3, <3>1, <4>1
    <3> HIDE DEF p
    <3>7. QED
      BY <1>2, <3>2, <3>3, <3>4, <3>5, <3>6
  <2>4. QED
    BY <2>1, <2>2, <2>3
<1>9. n >= H + 4 => k = H + 4 /\ p[k] = 4
  BY <1>4
<1>10. n < H + 4 => k = n /\ p[k] # 4
  BY <1>3, <1>4
<1>11. k \in 0..n
  BY <1>4
<1> HIDE DEF p
<1>12. Path(p, mem, in, HeaderEnd, k, 4)
  <2>1. \A i \in 0..(k - 1) :
          /\ p[i] < 4
          /\ p[i + 1] = IF mem[in.at + i] = HeaderEnd[p[i] + 1] THEN p[i] + 1 ELSE 0
    BY <1>1, <1>7
  <2>2. QED
    BY <1>1, <1>2, <1>5, <1>11, <2>1 DEF Path
<1>13. CASE n >= H + 4
  <2>1. EndOfMatch(mem, in, HeaderEnd) = H + 4
    BY <1>9, <1>12, <1>13, PathLeads
  <2>2. PICK m \in Nat : m = 4
    OBVIOUS
  <2>3. EndOfMatch(mem, in, HeaderEnd) = H + m /\ m = Len(HeaderEnd) /\ m > 0
    BY <1>2, <2>1, <2>2
  <2>4. Find(mem, in, HeaderEnd) = FoundAfter(in, H, m)
    BY <1>1, <2>3, FindIsAfter
  <2>5. QED
    BY <1>13, <2>2, <2>4
<1>14. CASE n < H + 4
  <2>1. EndOfMatch(mem, in, HeaderEnd) = 0
    BY <1>1, <1>10, <1>12, <1>14, PathLeads
  <2>2. QED
    BY <1>14, <2>1, FindIsNone
<1>15. QED
  BY <1>13, <1>14
\* In h, a line of its own after the first k characters begins with the name
\* that the letter X stands for, and goes on with v; X is nowhere before.
LineAt(h, X, v, k) ==
  /\ k \in Nat /\ k + 3 + Len(v) <= Len(h)
  /\ \A i \in 1..k : h[i] # X
  /\ h[k + 1] = X /\ h[k + 2] = 58 /\ h[k + 3] = 32
  /\ \A i \in 1..Len(v) : h[k + 3 + i] = v[i]
  /\ \/ k + 3 + Len(v) = Len(h)
     \/ /\ k + 5 + Len(v) <= Len(h)
        /\ h[k + 4 + Len(v)] = 13 /\ h[k + 5 + Len(v)] = 10

HasLine(h, X, v) == \E k : LineAt(h, X, v, k)

Lacks(h, X) == \A i \in 1..Len(h) : h[i] # X

\* Characters as they stand in memory, from its beginning.
Stands(mem, h, in) ==
  /\ h \in Seq(Nat) /\ in \in Strings /\ in.at = 1 /\ in.len = Len(h)
  /\ \A i \in 1..Len(h) : mem[i] = h[i]

\* What comes after the name in the line.
Rest(h, k) == [at |-> k + 4, len |-> Len(h) - (k + 3)]

LEMMA RestIs ==
  ASSUME NEW h, h \in Seq(Nat), NEW X, NEW v, v \in Seq(Nat), NEW k, LineAt(h, X, v, k)
  PROVE  /\ Rest(h, k) \in Strings
         /\ Rest(h, k).at = k + 4 /\ Rest(h, k).len = Len(h) - (k + 3)
         /\ k \in Nat /\ Len(v) \in Nat /\ Len(h) \in Nat
         /\ Len(v) <= Rest(h, k).len
<1>1. Len(h) \in Nat /\ Len(v) \in Nat
  BY LenProperties
<1>2. k \in Nat /\ k + 3 + Len(v) <= Len(h)
  BY DEF LineAt
<1>3. Len(h) - (k + 3) \in Nat /\ k + 4 \in Nat /\ Len(v) <= Len(h) - (k + 3)
  BY <1>1, <1>2
<1>4. QED
  BY <1>1, <1>2, <1>3 DEF Rest, Strings

\* The name, with and without the two characters after it, is found.
LEMMA NameFound ==
  ASSUME NEW mem, NEW h, NEW in, Stands(mem, h, in), NEW X, NEW v, v \in Seq(Nat),
         NEW k, LineAt(h, X, v, k), NEW what, NEW m \in {1, 3}, m = Len(what),
         what = IF m = 1 THEN <<X>> ELSE <<X, 58, 32>>
  PROVE  Find(mem, in, what) = FoundAfter(in, k, m)
<1>1. /\ in \in Strings /\ in.at = 1 /\ in.len = Len(h) /\ h \in Seq(Nat)
      /\ \A i \in 1..Len(h) : mem[i] = h[i]
  BY DEF Stands
<1>2. k \in Nat /\ Len(v) \in Nat /\ Len(h) \in Nat /\ k + 3 <= Len(h)
  <2>1. Len(h) \in Nat /\ Len(v) \in Nat
    BY <1>1, LenProperties
  <2>2. QED
    BY <2>1 DEF LineAt
<1>3. \A i \in 1..k : h[i] # X
  BY DEF LineAt
<1>4. h[k + 1] = X /\ h[k + 2] = 58 /\ h[k + 3] = 32
  BY DEF LineAt
<1>5. m \in Nat /\ m > 0 /\ k + m <= in.len /\ what[1] = X
  BY <1>1, <1>2
<1>6. \A i \in 0..(k - 1) : mem[in.at + i] # what[1]
  <2> SUFFICES ASSUME NEW i \in 0..(k - 1)
               PROVE  mem[in.at + i] # what[1]
    OBVIOUS
  <2>1. 1 + i \in 1..k /\ 1 + i \in 1..Len(h)
    BY <1>2
  <2>2. QED
    BY <1>1, <1>3, <1>5, <2>1
<1>7. \A j \in 1..m : mem[in.at + k + j - 1] = what[j]
  <2> SUFFICES ASSUME NEW j \in 1..m
               PROVE  mem[in.at + k + j - 1] = what[j]
    OBVIOUS
  <2>1. k + j \in 1..Len(h) /\ 1 + k + j - 1 = k + j
    BY <1>2
  <2>2. mem[in.at + k + j - 1] = h[k + j]
    BY <1>1, <2>1
  <2>3. h[k + j] = what[j]
    <3>1. CASE m = 1
      BY <1>4, <3>1
    <3>2. CASE m = 3
      <4>1. what[1] = X /\ what[2] = 58 /\ what[3] = 32
        BY <3>2
      <4>2. j \in {1, 2, 3}
        BY <3>2
      <4>3. QED
        BY <1>4, <4>1, <4>2
    <3>3. QED
      BY <3>1, <3>2
  <2>4. QED
    BY <2>2, <2>3
<1>8. Comes(mem, in, what, k, m)
  BY <1>1, <1>2, <1>5, <1>6, <1>7 DEF Comes
<1>9. QED
  BY <1>8, FindsAfter

\* After the name and those two characters comes the rest of the header.
NameRead(mem, h, in, X, k) ==
  /\ Find(mem, in, <<X, 58, 32>>).after = Rest(h, k)
  /\ Find(mem, in, <<X, 58, 32>>).found.len > 0
  /\ Slice(Find(mem, in, <<X>>).after, 2, 0) = Rest(h, k)

LEMMA AfterName ==
  ASSUME NEW mem, NEW h, NEW in, Stands(mem, h, in), NEW X, NEW v, v \in Seq(Nat),
         v # << >>, NEW k, LineAt(h, X, v, k)
  PROVE  NameRead(mem, h, in, X, k)
<1>1. in \in Strings /\ in.at = 1 /\ in.len = Len(h) /\ h \in Seq(Nat)
  BY DEF Stands
<1>2. k \in Nat /\ Len(v) \in Nat /\ Len(h) \in Nat /\ k + 3 + Len(v) <= Len(h)
  <2>1. Len(h) \in Nat /\ Len(v) \in Nat
    BY <1>1, LenProperties
  <2>2. QED
    BY <2>1 DEF LineAt
<1>3. Len(v) > 0
  BY <1>2, EmptySeq
<1>4. Find(mem, in, <<X, 58, 32>>) = FoundAfter(in, k, 3)
  BY NameFound
<1>5. Find(mem, in, <<X>>) = FoundAfter(in, k, 1)
  BY NameFound
<1>6. FoundAfter(in, k, 3).after = Rest(h, k) /\ FoundAfter(in, k, 3).found.len = 3
  BY <1>1, <1>2 DEF FoundAfter, Rest
<1>7. FoundAfter(in, k, 1).after = [at |-> k + 2, len |-> Len(h) - (k + 1)]
  BY <1>1, <1>2 DEF FoundAfter
<1>8. PICK b \in Strings : b.at = k + 2 /\ b.len = Len(h) - (k + 1)
                           /\ b = [at |-> k + 2, len |-> Len(h) - (k + 1)]
  <2>1. k + 2 \in Nat /\ Len(h) - (k + 1) \in Nat
    BY <1>2
  <2>2. QED
    BY <2>1 DEF Strings
<1>9. Slice(b, 2, 0) = [at |-> b.at + 2, len |-> b.len - 2]
  <2>1. 2 < b.len
    BY <1>2, <1>3, <1>8
  <2>2. b \in [at : Nat, len : Nat]
    BY DEF Strings
  <2>3. QED
    BY <2>1, <2>2, SliceRest
<1>10. b.at + 2 = k + 4 /\ b.len - 2 = Len(h) - (k + 3)
  BY <1>2, <1>8
<1>11. Slice(b, 2, 0) = Rest(h, k)
  BY <1>9, <1>10 DEF Rest
<1>12. QED
  BY <1>4, <1>5, <1>6, <1>7, <1>8, <1>11 DEF NameRead

\* Up to a character that v has not, or to the end, it is v.
LEMMA ValueBefore ==
  ASSUME NEW mem, NEW h, NEW in, Stands(mem, h, in), NEW X, NEW v, v \in Seq(Nat),
         v # << >>, NEW k, LineAt(h, X, v, k), \A i \in 1..Len(v) : v[i] # 13
  PROVE  LET value == Find(mem, Rest(h, k), LineEnd).before IN
         /\ value \in Strings /\ value.at = k + 4 /\ value.len = Len(v)
         /\ Chars(mem, value) = v
<1>1. /\ in \in Strings /\ in.at = 1 /\ in.len = Len(h) /\ h \in Seq(Nat)
      /\ \A i \in 1..Len(h) : mem[i] = h[i]
  BY DEF Stands
<1>2. /\ Rest(h, k) \in Strings
      /\ Rest(h, k).at = k + 4 /\ Rest(h, k).len = Len(h) - (k + 3)
      /\ k \in Nat /\ Len(v) \in Nat /\ Len(h) \in Nat
      /\ Len(v) <= Rest(h, k).len
  BY <1>1, RestIs
<1> DEFINE rest == Rest(h, k)
           value == Find(mem, rest, LineEnd).before
<1>3. /\ \A i \in 1..Len(v) : h[k + 3 + i] = v[i]
      /\ \/ k + 3 + Len(v) = Len(h)
         \/ /\ k + 5 + Len(v) <= Len(h)
            /\ h[k + 4 + Len(v)] = 13 /\ h[k + 5 + Len(v)] = 10
  BY DEF LineAt
<1>4. \A i \in 1..Len(v) : mem[k + 3 + i] = v[i]
  <2> SUFFICES ASSUME NEW i \in 1..Len(v)
               PROVE  mem[k + 3 + i] = v[i]
    OBVIOUS
  <2>1. k + 3 + i \in 1..Len(h)
    BY <1>2
  <2>2. QED
    BY <1>1, <1>3, <2>1
<1>5. \A i \in 0..(Len(v) - 1) : mem[rest.at + i] # LineEnd[1]
  <2> SUFFICES ASSUME NEW i \in 0..(Len(v) - 1)
               PROVE  mem[rest.at + i] # LineEnd[1]
    OBVIOUS
  <2>1. PICK j : j = i + 1
    OBVIOUS
  <2>2. j \in 1..Len(v) /\ rest.at + i = k + 3 + j
    BY <1>2, <2>1
  <2>3. LineEnd[1] = 13
    BY HeaderEndIs
  <2>4. QED
    BY <1>4, <2>2, <2>3
<1>6. value = [at |-> rest.at, len |-> Len(v)]
  <2>1. CASE k + 3 + Len(v) = Len(h)
    <3>1. rest.len = Len(v)
      BY <1>2, <2>1
    <3>2. Find(mem, rest, LineEnd) = NotFound(rest)
      <4>1. PICK m \in Nat : m = Len(LineEnd) /\ m > 0
        BY HeaderEndIs
      <4>2. QED
        BY <1>2, <1>5, <3>1, <4>1, FindsNone
    <3>3. rest = [at |-> rest.at, len |-> rest.len]
      BY <1>2 DEF Strings
    <3>4. QED
      BY <3>1, <3>2, <3>3 DEF NotFound
  <2>2. CASE /\ k + 5 + Len(v) <= Len(h)
             /\ h[k + 4 + Len(v)] = 13 /\ h[k + 5 + Len(v)] = 10
    <3>1. PICK m \in Nat : m = 2
      OBVIOUS
    <3>2. m = Len(LineEnd) /\ m > 0
      BY <3>1, HeaderEndIs
    <3>3. Len(v) + m <= rest.len
      BY <1>2, <2>2, <3>1
    <3>4. \A j \in 1..m : mem[rest.at + Len(v) + j - 1] = LineEnd[j]
      <4>1. k + 4 + Len(v) \in 1..Len(h) /\ k + 5 + Len(v) \in 1..Len(h)
        BY <1>2, <2>2
      <4>2. mem[k + 4 + Len(v)] = 13 /\ mem[k + 5 + Len(v)] = 10
        BY <1>1, <2>2, <4>1
      <4>3. /\ rest.at + Len(v) + 1 - 1 = k + 4 + Len(v)
            /\ rest.at + Len(v) + 2 - 1 = k + 5 + Len(v)
        BY <1>2
      <4>4. \A j \in 1..m : j = 1 \/ j = 2
        BY <3>1
      <4>5. QED
        BY <4>2, <4>3, <4>4, HeaderEndIs
    <3>5. Comes(mem, rest, LineEnd, Len(v), m)
      BY <1>2, <1>5, <3>2, <3>3, <3>4 DEF Comes
    <3>6. Find(mem, rest, LineEnd) = FoundAfter(rest, Len(v), m)
      BY <3>5, FindsAfter
    <3>7. QED
      BY <3>6 DEF FoundAfter
  <2>3. QED
    BY <1>3, <2>1, <2>2
<1>7. value \in Strings /\ value.at = k + 4 /\ value.len = Len(v)
  BY <1>2, <1>6 DEF Strings
<1>8. Chars(mem, value) = v
  <2> HIDE DEF value
  <2>1. \A i \in 1..Len(v) : mem[value.at + i - 1] = v[i]
    <3> SUFFICES ASSUME NEW i \in 1..Len(v)
                 PROVE  mem[value.at + i - 1] = v[i]
      OBVIOUS
    <3>1. value.at + i - 1 = k + 3 + i
      BY <1>2, <1>7
    <3>2. QED
      BY <1>4, <3>1
  <2>2. v \in [1..Len(v) -> Nat]
    BY LenProperties
  <2>3. QED
    BY <1>7, <2>1, <2>2 DEF Chars
<1>9. QED
  BY <1>7, <1>8

\* A name that is not there is not found.
LEMMA NameMissing ==
  ASSUME NEW mem, NEW h, NEW in, Stands(mem, h, in), NEW X, Lacks(h, X),
         NEW what, NEW m \in Nat, m = Len(what), m > 0, what[1] = X
  PROVE  Find(mem, in, what) = NotFound(in)
<1>1. /\ in \in Strings /\ in.at = 1 /\ in.len = Len(h) /\ h \in Seq(Nat)
      /\ \A i \in 1..Len(h) : mem[i] = h[i]
  BY DEF Stands
<1>2. Len(h) \in Nat
  BY <1>1, LenProperties
<1>3. \A i \in 0..(in.len - 1) : mem[in.at + i] # what[1]
  <2> SUFFICES ASSUME NEW i \in 0..(in.len - 1)
               PROVE  mem[in.at + i] # what[1]
    OBVIOUS
  <2>1. 1 + i \in 1..Len(h)
    BY <1>1, <1>2
  <2>2. QED
    BY <1>1, <2>1 DEF Lacks
<1>4. QED
  BY <1>1, <1>3, FindsNone
-----------------------------------------------------------------------------
(* Headers grow by lines *)

\* Characters of values: no line ends, and none of the letters for names.
Plain == Nat \ {10, 13, 75, 76, 84, 86}

\* A line with a name and a value, its beginning after the line before.
IsLine(w, X, v) ==
  /\ w \in Seq(Nat) /\ v \in Seq(Plain) /\ v # << >> /\ Len(w) = 5 + Len(v)
  /\ w[1] = 13 /\ w[2] = 10 /\ w[3] = X /\ w[4] = 58 /\ w[5] = 32
  /\ \A i \in 1..Len(v) : w[5 + i] = v[i]

\* A value as a sequence of numbers.
LEMMA PlainValue ==
  ASSUME NEW v, v \in Seq(Plain)
  PROVE  /\ v \in Seq(Nat) /\ Len(v) \in Nat
         /\ \A i \in 1..Len(v) : v[i] \in Plain
         /\ v # << >> => Len(v) > 0
<1>1. Plain \subseteq Nat
  BY DEF Plain
<1>2. v \in Seq(Nat)
  BY <1>1, SeqMonotonic
<1>3. \A i \in 1..Len(v) : v[i] \in Plain
  BY ElementOfSeq
<1>4. QED
  BY <1>2, <1>3, LenProperties, EmptySeq

LEMMA Concatenated ==
  ASSUME NEW s, s \in Seq(Nat), NEW w, w \in Seq(Nat)
  PROVE  /\ s \o w \in Seq(Nat) /\ Len(s) \in Nat /\ Len(w) \in Nat
         /\ Len(s \o w) = Len(s) + Len(w)
         /\ \A i \in 1..Len(s) : (s \o w)[i] = s[i]
         /\ \A i \in 1..Len(w) : (s \o w)[Len(s) + i] = w[i]
<1>1. /\ s \o w \in Seq(Nat) /\ Len(s) \in Nat /\ Len(w) \in Nat
      /\ Len(s \o w) = Len(s) + Len(w)
      /\ \A i \in 1..(Len(s) + Len(w)) :
           (s \o w)[i] = IF i <= Len(s) THEN s[i] ELSE w[i - Len(s)]
  BY ConcatProperties, LenProperties
<1>2. \A i \in 1..Len(s) : (s \o w)[i] = s[i]
  BY <1>1
<1>3. ASSUME NEW i \in 1..Len(w)
      PROVE  (s \o w)[Len(s) + i] = w[i]
  <2>1. Len(s) + i \in 1..(Len(s) + Len(w)) /\ ~(Len(s) + i <= Len(s))
        /\ (Len(s) + i) - Len(s) = i
    BY <1>1
  <2>2. QED
    BY <1>1, <2>1
<1>4. QED
  BY <1>1, <1>2, <1>3

\* One sequence of a characters, then another of b.
Joint(t, s, w, a, b) ==
  /\ t \in Seq(Nat) /\ a \in Nat /\ b \in Nat /\ Len(t) = a + b
  /\ \A i \in 1..a : t[i] = s[i]
  /\ \A i \in 1..b : t[a + i] = w[i]

LEMMA JointIs ==
  ASSUME NEW s, s \in Seq(Nat), NEW w, w \in Seq(Nat),
         NEW a, a = Len(s), NEW b, b = Len(w)
  PROVE  Joint(s \o w, s, w, a, b)
BY Concatenated DEF Joint

\* Concatenation may be regrouped.
Regroups(s, t, u) == (s \o t) \o u = s \o (t \o u)

LEMMA AlwaysRegroups ==
  ASSUME NEW s, s \in Seq(Nat), NEW t, t \in Seq(Nat), NEW u, u \in Seq(Nat)
  PROVE  Regroups(s, t, u)
<1>1. \A S : \A x, y, z \in Seq(S) : Regroups(x, y, z)
  BY ConcatAssociative, Zenon DEF Regroups
<1>2. QED
  BY <1>1

\* Each character of a concatenation is one of either part.
LEMMA ConcatenatedParts ==
  ASSUME NEW s, s \in Seq(Nat), NEW w, w \in Seq(Nat), NEW i \in 1..Len(s \o w)
  PROVE  \/ i \in 1..Len(s) /\ (s \o w)[i] = s[i]
         \/ \E j \in 1..Len(w) : i = Len(s) + j /\ (s \o w)[i] = w[j]
<1>1. /\ Len(s) \in Nat /\ Len(w) \in Nat
      /\ Len(s \o w) = Len(s) + Len(w)
      /\ \A x \in 1..Len(s) : (s \o w)[x] = s[x]
      /\ \A x \in 1..Len(w) : (s \o w)[Len(s) + x] = w[x]
  BY Concatenated
<1>2. PICK a \in Nat, b \in Nat : a = Len(s) /\ b = Len(w) /\ i \in 1..(a + b)
  BY <1>1
<1>3. CASE i <= a
  BY <1>1, <1>2, <1>3
<1>4. CASE i > a
  <2>1. i - a \in 1..b /\ i = a + (i - a)
    BY <1>2, <1>4
  <2>2. PICK j \in 1..b : i = a + j
    BY <2>1
  <2>3. QED
    BY <1>1, <1>2, <2>2
<1>5. QED
  BY <1>3, <1>4

LEMMA LinedGrows ==
  ASSUME NEW s, Lined(s), NEW w, Lined(w)
  PROVE  Lined(s \o w)
<1>1. s \in Seq(Nat) /\ w \in Seq(Nat)
  BY DEF Lined
<1>2. /\ s \o w \in Seq(Nat) /\ Len(s) \in Nat /\ Len(w) \in Nat
      /\ Len(s \o w) = Len(s) + Len(w)
      /\ \A i \in 1..Len(s) : (s \o w)[i] = s[i]
      /\ \A i \in 1..Len(w) : (s \o w)[Len(s) + i] = w[i]
  BY <1>1, Concatenated
<1> DEFINE t == s \o w
<1> HIDE DEF t
<1>3. ASSUME NEW i \in 1..Len(t)
      PROVE  /\ t[i] = 13 => i < Len(t) /\ t[i + 1] = 10
             /\ t[i] = 10 => /\ i > 1 /\ t[i - 1] = 13
                             /\ i < Len(t) /\ t[i + 1] \notin {13, 10}
  <2>1. CASE i \in 1..Len(s)
    <3>1. /\ s[i] = 13 => i < Len(s) /\ s[i + 1] = 10
          /\ s[i] = 10 => /\ i > 1 /\ s[i - 1] = 13
                          /\ i < Len(s) /\ s[i + 1] \notin {13, 10}
      BY <2>1 DEF Lined
    <3>2. t[i] = s[i]
      BY <1>2, <2>1 DEF t
    <3>3. i < Len(s) => t[i + 1] = s[i + 1] /\ i < Len(t)
      BY <1>2, <2>1 DEF t
    <3>4. i > 1 => t[i - 1] = s[i - 1]
      BY <1>2, <2>1 DEF t
    <3>5. QED
      BY <3>1, <3>2, <3>3, <3>4
  <2>2. CASE i \notin 1..Len(s)
    <3>1. PICK j \in 1..Len(w) : i = Len(s) + j
      BY <1>1, <2>2, ConcatenatedParts DEF t
    <3>2. /\ w[j] = 13 => j < Len(w) /\ w[j + 1] = 10
          /\ w[j] = 10 => /\ j > 1 /\ w[j - 1] = 13
                          /\ j < Len(w) /\ w[j + 1] \notin {13, 10}
      BY DEF Lined
    <3>3. t[i] = w[j]
      BY <1>2, <3>1 DEF t
    <3>4. j < Len(w) => t[i + 1] = w[j + 1] /\ i < Len(t)
      <4> SUFFICES ASSUME j < Len(w)
                   PROVE  t[i + 1] = w[j + 1] /\ i < Len(t)
        OBVIOUS
      <4>1. i + 1 = Len(s) + (j + 1) /\ j + 1 \in 1..Len(w) /\ i < Len(s) + Len(w)
        BY <1>2, <3>1
      <4>2. QED
        BY <1>2, <4>1 DEF t
    <3>5. j > 1 => t[i - 1] = w[j - 1] /\ i > 1
      <4> SUFFICES ASSUME j > 1
                   PROVE  t[i - 1] = w[j - 1] /\ i > 1
        OBVIOUS
      <4>1. i - 1 = Len(s) + (j - 1) /\ j - 1 \in 1..Len(w) /\ i > 1
        BY <1>2, <3>1
      <4>2. QED
        BY <1>2, <4>1 DEF t
    <3>6. QED
      BY <3>2, <3>3, <3>4, <3>5
  <2>3. QED
    BY <2>1, <2>2
<1>4. QED
  BY <1>2, <1>3 DEF Lined, t

LEMMA LacksGrows ==
  ASSUME NEW s, s \in Seq(Nat), NEW w, w \in Seq(Nat), NEW X, Lacks(s, X), Lacks(w, X)
  PROVE  Lacks(s \o w, X)
<1> SUFFICES ASSUME NEW i \in 1..Len(s \o w)
             PROVE  (s \o w)[i] # X
  BY DEF Lacks
<1>1. CASE i \in 1..Len(s) /\ (s \o w)[i] = s[i]
  BY <1>1 DEF Lacks
<1>2. CASE \E j \in 1..Len(w) : i = Len(s) + j /\ (s \o w)[i] = w[j]
  BY <1>2 DEF Lacks
<1>3. QED
  BY <1>1, <1>2, ConcatenatedParts

\* What is nothing, or begins with a line end.
BeginsLine(w) == w = << >> \/ (Len(w) >= 2 /\ w[1] = 13 /\ w[2] = 10)

\* A line stays where it is.
LEMMA LineStays ==
  ASSUME NEW s, s \in Seq(Nat), NEW w, w \in Seq(Nat), BeginsLine(w),
         NEW X, NEW v, v \in Seq(Nat), NEW k, LineAt(s, X, v, k)
  PROVE  LineAt(s \o w, X, v, k)
<1>1. /\ s \o w \in Seq(Nat) /\ Len(s) \in Nat /\ Len(w) \in Nat
      /\ Len(s \o w) = Len(s) + Len(w)
      /\ \A i \in 1..Len(s) : (s \o w)[i] = s[i]
      /\ \A i \in 1..Len(w) : (s \o w)[Len(s) + i] = w[i]
  BY Concatenated
<1>2. Len(v) \in Nat
  BY LenProperties
<1>3. /\ k \in Nat /\ k + 3 + Len(v) <= Len(s)
      /\ \A i \in 1..k : s[i] # X
      /\ s[k + 1] = X /\ s[k + 2] = 58 /\ s[k + 3] = 32
      /\ \A i \in 1..Len(v) : s[k + 3 + i] = v[i]
      /\ \/ k + 3 + Len(v) = Len(s)
         \/ /\ k + 5 + Len(v) <= Len(s)
            /\ s[k + 4 + Len(v)] = 13 /\ s[k + 5 + Len(v)] = 10
  BY DEF LineAt
<1> DEFINE t == s \o w
<1> HIDE DEF t
<1>a. /\ k \in Nat /\ Len(s) \in Nat /\ Len(w) \in Nat /\ Len(v) \in Nat
      /\ k + 3 + Len(v) <= Len(s) /\ Len(t) = Len(s) + Len(w)
  BY <1>1, <1>2, <1>3 DEF t
<1>4. \A i \in 1..k : t[i] # X
  <2> SUFFICES ASSUME NEW i \in 1..k
               PROVE  t[i] # X
    OBVIOUS
  <2>1. i \in 1..Len(s)
    BY <1>a
  <2>2. QED
    BY <1>1, <1>3, <2>1 DEF t
<1>5. t[k + 1] = X /\ t[k + 2] = 58 /\ t[k + 3] = 32
  <2>1. k + 1 \in 1..Len(s) /\ k + 2 \in 1..Len(s) /\ k + 3 \in 1..Len(s)
    BY <1>a
  <2>2. QED
    BY <1>1, <1>3, <2>1 DEF t
<1>6. \A i \in 1..Len(v) : t[k + 3 + i] = v[i]
  <2> SUFFICES ASSUME NEW i \in 1..Len(v)
               PROVE  t[k + 3 + i] = v[i]
    OBVIOUS
  <2>1. k + 3 + i \in 1..Len(s)
    BY <1>a
  <2>2. QED
    BY <1>1, <1>3, <2>1 DEF t
<1>7. k + 3 + Len(v) <= Len(t)
  BY <1>a
<1>8. \/ k + 3 + Len(v) = Len(t)
      \/ /\ k + 5 + Len(v) <= Len(t)
         /\ t[k + 4 + Len(v)] = 13 /\ t[k + 5 + Len(v)] = 10
  <2>1. CASE k + 5 + Len(v) <= Len(s) /\ s[k + 4 + Len(v)] = 13 /\ s[k + 5 + Len(v)] = 10
    <3>1. k + 4 + Len(v) \in 1..Len(s) /\ k + 5 + Len(v) \in 1..Len(s)
      BY <1>a, <2>1, SMTT(30)
    <3>2. k + 5 + Len(v) <= Len(t)
      BY <1>a, <2>1
    <3>3. QED
      BY <1>1, <2>1, <3>1, <3>2 DEF t
  <2>2. CASE k + 3 + Len(v) = Len(s) /\ w = << >>
    <3>1. Len(t) = Len(s)
      BY <1>1, <2>2, EmptySeq DEF t
    <3>2. QED
      BY <2>2, <3>1
  <2>3. CASE k + 3 + Len(v) = Len(s) /\ Len(w) >= 2 /\ w[1] = 13 /\ w[2] = 10
    <3>1. k + 4 + Len(v) = Len(s) + 1 /\ k + 5 + Len(v) = Len(s) + 2
      <4>1. k + 3 + Len(v) = Len(s)
        BY <2>3
      <4>2. \A x, y, z \in Nat : x + 3 + y = z => x + 4 + y = z + 1 /\ x + 5 + y = z + 2
        OBVIOUS
      <4>3. k \in Nat /\ Len(v) \in Nat /\ Len(s) \in Nat
        BY <1>a
      <4>4. QED
        BY <4>1, <4>2, <4>3
    <3>2. 1 \in 1..Len(w) /\ 2 \in 1..Len(w)
      BY <1>1, <2>3
    <3>3. t[Len(s) + 1] = 13 /\ t[Len(s) + 2] = 10
      BY <1>1, <2>3, <3>2 DEF t
    <3>4. Len(s) + 2 <= Len(t)
      BY <1>a, <2>3
    <3>5. QED
      BY <3>1, <3>3, <3>4
  <2>4. QED
    BY <1>3, <2>1, <2>2, <2>3 DEF BeginsLine
<1>9. LineAt(t, X, v, k)
  BY <1>3, <1>4, <1>5, <1>6, <1>7, <1>8 DEF LineAt
<1>10. QED
  BY <1>9 DEF t

\* A line is added.
LEMMA LineAdded ==
  ASSUME NEW s, s \in Seq(Nat), NEW w, NEW X, X \notin {10, 13}, NEW v,
         IsLine(w, X, v), Lacks(s, X)
  PROVE  LineAt(s \o w, X, v, Len(s) + 2)
<1>1. /\ w \in Seq(Nat) /\ v \in Seq(Plain) /\ Len(w) = 5 + Len(v)
      /\ w[1] = 13 /\ w[2] = 10 /\ w[3] = X /\ w[4] = 58 /\ w[5] = 32
      /\ \A i \in 1..Len(v) : w[5 + i] = v[i]
  BY DEF IsLine
<1>0. s \in Seq(Nat) /\ w \in Seq(Nat) /\ v \in Seq(Plain) /\ Len(w) = 5 + Len(v)
  BY <1>1
<1> DEFINE t == s \o w
           k == Len(s) + 2
<1> HIDE DEF t
<1>2. /\ \A i \in 1..Len(s) : t[i] = s[i]
      /\ \A i \in 1..Len(w) : t[Len(s) + i] = w[i]
  BY <1>0, Concatenated DEF t
<1>3. /\ Len(v) \in Nat /\ Len(s) \in Nat /\ Len(w) \in Nat
      /\ Len(t) = Len(s) + Len(w) /\ Len(w) = 5 + Len(v)
  BY <1>0, PlainValue, Concatenated DEF t
<1>a. \A i \in 1..Len(w) : t[Len(s) + i] = w[i]
  BY <1>2
<1>b. /\ t[Len(s) + 1] = w[1] /\ t[Len(s) + 2] = w[2] /\ t[Len(s) + 3] = w[3]
      /\ t[Len(s) + 4] = w[4] /\ t[Len(s) + 5] = w[5]
  <2>1. 1 \in 1..Len(w) /\ 2 \in 1..Len(w) /\ 3 \in 1..Len(w)
        /\ 4 \in 1..Len(w) /\ 5 \in 1..Len(w)
    BY <1>3
  <2>2. QED
    BY <1>a, <2>1
<1>4. \A i \in 1..k : t[i] # X
  <2> SUFFICES ASSUME NEW i \in 1..k
               PROVE  t[i] # X
    OBVIOUS
  <2>1. CASE i \in 1..Len(s)
    BY <1>2, <2>1 DEF Lacks
  <2>2. CASE i = Len(s) + 1
    BY <1>1, <1>b, <2>2
  <2>3. CASE i = Len(s) + 2
    BY <1>1, <1>b, <2>3
  <2>4. QED
    BY <1>3, <2>1, <2>2, <2>3
<1>5. t[k + 1] = X /\ t[k + 2] = 58 /\ t[k + 3] = 32
  <2>1. k + 1 = Len(s) + 3 /\ k + 2 = Len(s) + 4 /\ k + 3 = Len(s) + 5
    BY <1>3
  <2>2. QED
    BY <1>1, <1>b, <2>1
<1>6. \A i \in 1..Len(v) : t[k + 3 + i] = v[i]
  <2> SUFFICES ASSUME NEW i \in 1..Len(v)
               PROVE  t[k + 3 + i] = v[i]
    OBVIOUS
  <2>1. 5 + i \in 1..Len(w) /\ k + 3 + i = Len(s) + (5 + i)
    BY <1>3
  <2>2. w[5 + i] = v[i]
    BY <1>1
  <2>3. QED
    BY <1>a, <2>1, <2>2
<1>7. k \in Nat /\ k + 3 + Len(v) = Len(t)
  BY <1>3
<1>8. k + 3 + Len(v) <= Len(t)
  BY <1>3, <1>7
<1> HIDE DEF k
<1>9. LineAt(t, X, v, k)
  BY <1>4, <1>5, <1>6, <1>7, <1>8 DEF LineAt
<1>10. QED
  BY <1>9 DEF t, k

\* Each character of a line.
LEMMA LineParts ==
  ASSUME NEW w, NEW X, NEW v, IsLine(w, X, v), NEW i \in 1..Len(w)
  PROVE  \/ i = 1 /\ w[i] = 13
         \/ i = 2 /\ w[i] = 10
         \/ i = 3 /\ w[i] = X
         \/ i = 4 /\ w[i] = 58
         \/ i = 5 /\ w[i] = 32
         \/ \E j \in 1..Len(v) : i = 5 + j /\ w[i] = v[j]
<1>1. /\ w \in Seq(Nat) /\ v \in Seq(Plain) /\ Len(w) = 5 + Len(v)
      /\ w[1] = 13 /\ w[2] = 10 /\ w[3] = X /\ w[4] = 58 /\ w[5] = 32
      /\ \A j \in 1..Len(v) : w[5 + j] = v[j]
  BY DEF IsLine
<1>2. Len(v) \in Nat
  BY <1>1, PlainValue
<1>3. CASE i <= 5
  BY <1>1, <1>3
<1>4. CASE i > 5
  <2>1. PICK j \in 1..Len(v) : i = 5 + j
    BY <1>1, <1>2, <1>4
  <2>2. QED
    BY <1>1, <2>1
<1>5. QED
  BY <1>3, <1>4

LEMMA LineLacks ==
  ASSUME NEW w, NEW X \in {75, 76, 84, 86}, NEW Y, Y # X, NEW v, IsLine(w, Y, v)
  PROVE  Lacks(w, X)
<1>1. v \in Seq(Plain)
  BY DEF IsLine
<1>2. \A j \in 1..Len(v) : v[j] # X
  BY <1>1, PlainValue DEF Plain
<1> SUFFICES ASSUME NEW i \in 1..Len(w)
             PROVE  w[i] # X
  BY DEF Lacks
<1>3. QED
  BY <1>2, LineParts

LEMMA LineIsLined ==
  ASSUME NEW w, NEW X \in Nat \ {10, 13}, NEW v, IsLine(w, X, v)
  PROVE  Lined(w) /\ w \in Seq(Nat) /\ BeginsLine(w)
<1>1. /\ w \in Seq(Nat) /\ v \in Seq(Plain) /\ v # << >> /\ Len(w) = 5 + Len(v)
      /\ w[1] = 13 /\ w[2] = 10 /\ w[3] = X
  BY DEF IsLine
<1>2. Len(v) \in Nat /\ Len(v) > 0
  BY <1>1, PlainValue
<1>3. \A j \in 1..Len(v) : v[j] # 13 /\ v[j] # 10
  BY <1>1, PlainValue DEF Plain
<1>4. ASSUME NEW i \in 1..Len(w)
      PROVE  /\ w[i] = 13 => i < Len(w) /\ w[i + 1] = 10
             /\ w[i] = 10 => /\ i > 1 /\ w[i - 1] = 13
                             /\ i < Len(w) /\ w[i + 1] \notin {13, 10}
  <2>1. w[i] = 13 => i = 1
    BY <1>3, LineParts
  <2>2. w[i] = 10 => i = 2
    BY <1>3, LineParts
  <2>3. QED
    BY <1>1, <1>2, <2>1, <2>2
<1>5. Len(w) >= 2
  BY <1>1, <1>2
<1>6. QED
  BY <1>1, <1>4, <1>5 DEF Lined, BeginsLine
-----------------------------------------------------------------------------
(* The header of a request *)

\* The characters of a session's number.
Figures == {Minus} \cup Zero..(Zero + 9)

LEMMA FiguresArePlain ==
  ASSUME NEW f, f \in Seq(Figures)
  PROVE  f \in Seq(Plain) /\ f \in Seq(Nat)
<1>1. Figures \subseteq Plain /\ Figures \subseteq Nat
  BY DEF Figures, Plain, Minus, Zero
<1>2. QED
  BY <1>1, SeqMonotonic

LEMMA DigitsArePlain ==
  ASSUME NEW n \in Nat
  PROVE  Digits(n) \in Seq(Figures) /\ Digits(n) \in Seq(Plain) /\ Digits(n) # << >>
<1>1. PICK c \in Nat : \E v :
           /\ Written10(Digits(n), n, c)
           /\ AllDigits(Digits(n)) /\ Horner(v, Digits(n), c) /\ v[c] = n
           /\ Digits(n)[1] # Minus
           /\ Digits(n)[1] = Zero => n = 0
  BY DigitsValue
<1> DEFINE d == Digits(n)
<1> HIDE DEF d
<1>2. d \in Seq(Nat) /\ Len(d) = c /\ c > 0
  BY <1>1 DEF Written10, d
<1>3. \A i \in 1..Len(d) : d[i] \in Figures
  BY <1>1 DEF AllDigits, IsDigit, Figures, d
<1>4. d \in Seq(Figures)
  <2>1. \A i \in 1..c : d[i] \in Figures
    BY <1>2, <1>3
  <2>2. SubSeq(d, 1, c) \in Seq(Figures)
    BY <1>2, <2>1, SubSeqProperties
  <2>3. SubSeq(d, 1, c) = d
    BY <1>2, SubSeqFull
  <2>4. QED
    BY <2>2, <2>3
<1>5. d # << >>
  BY <1>2, EmptySeq
<1>6. QED
  BY <1>4, <1>5, FiguresArePlain DEF d

LEMMA DecimalIsFigures ==
  ASSUME NEW n \in Int
  PROVE  /\ Decimal(n) \in Seq(Figures) /\ Decimal(n) \in Seq(Plain)
         /\ Decimal(n) \in Seq(Nat) /\ Decimal(n) # << >>
<1>1. CASE n < 0
  <2>1. PICK m \in Nat : m = -n
    BY <1>1
  <2>2. PICK d : d = Digits(m) /\ d \in Seq(Figures)
    BY DigitsArePlain
  <2>3. <<Minus>> \in Seq(Figures) /\ <<Minus>> # << >>
    BY DEF Figures
  <2>4. <<Minus>> \o d \in Seq(Figures) /\ <<Minus>> \o d # << >>
    BY <2>2, <2>3, ConcatProperties, EmptySeq
  <2>5. Decimal(n) = <<Minus>> \o d
    BY <1>1, <2>1, <2>2 DEF Decimal
  <2>6. QED
    BY <2>4, <2>5, FiguresArePlain
<1>2. CASE ~(n < 0)
  <2>1. n \in Nat /\ Decimal(n) = Digits(n)
    BY <1>2 DEF Decimal
  <2>2. QED
    BY <2>1, DigitsArePlain, FiguresArePlain
<1>3. QED
  BY <1>1, <1>2

LEMMA ZeroIsDecimal == Decimal(0) = <<Zero>>
<1>1. PICK c \in Nat : Written10(Digits(0), 0, c)
  BY DigitsWritten
<1> DEFINE d == Digits(0)
<1> HIDE DEF d
<1>2. /\ c > 0 /\ Len(d) = c /\ d \in Seq(Nat)
      /\ c > 1 => Power(10, c - 1) <= 0
      /\ \A i \in 1..c : d[i] = Zero + ((0 \div Power(10, c - i)) % 10)
  BY <1>1 DEF Written10, d
<1>3. ~(c > 1)
  <2> SUFFICES ASSUME c > 1 PROVE FALSE
    OBVIOUS
  <2>1. c - 1 \in Nat
    BY <1>2
  <2>2. Power(10, c - 1) \in Nat /\ Power(10, c - 1) > 0
    BY <2>1, TenPower
  <2>3. QED
    BY <1>2, <2>2
<1>4. c = 1
  BY <1>2, <1>3
<1>5. d[1] = Zero
  <2>1. d[1] = Zero + ((0 \div Power(10, 0)) % 10)
    BY <1>2, <1>4
  <2>2. (0 \div 1) % 10 = 0
    OBVIOUS
  <2>3. QED
    BY <2>1, <2>2, TenPower DEF Zero
<1>6. d = <<Zero>>
  BY <1>2, <1>4, <1>5
<1>7. QED
  BY <1>6 DEF Decimal, d

\* The sessions that a cookie may name, as their digits.
Tellings == {Decimal(s) : s \in Sessions \cup {0}}

LEMMA TellingsAre ==
  /\ Tellings \subseteq Seq(Figures)
  /\ \A f \in Tellings : ToNumber(f) \in Sessions \cup {0} /\ f = Decimal(ToNumber(f))
<1> SUFFICES ASSUME NEW s \in Sessions \cup {0}
             PROVE  Decimal(s) \in Seq(Figures) /\ ToNumber(Decimal(s)) = s
  BY DEF Tellings
<1>1. s \in (-Half)..(Half - 1)
  BY RequestAssumption, HalfIs DEF Half
<1>2. s \in Int
  BY <1>1, HalfIs
<1>3. QED
  BY <1>1, <1>2, DecimalIsFigures, ReadsDecimal

\* The cookies of a client: none, or a session.
Baked(j) == j = << >> \/ \E f \in Tellings : j = SessionIs \o f

LEMMA SessionIsSeq ==
  /\ SessionIs \in Seq(Plain) /\ SessionIs \in Seq(Nat) /\ Len(SessionIs) = 2
  /\ SessionIs[1] = 83 /\ SessionIs[2] = 61
<1>1. SessionIs = <<83, 61>> /\ 83 \in Plain /\ 61 \in Plain
  BY DEF SessionIs, Plain
<1>2. QED
  BY <1>1

LEMMA BakedIsPlain ==
  ASSUME NEW j, Baked(j)
  PROVE  j \in Seq(Plain) /\ j \in Seq(Nat)
<1>1. CASE j = << >>
  BY <1>1, EmptySeq
<1>2. CASE \E f \in Tellings : j = SessionIs \o f
  <2>1. PICK f \in Seq(Figures) : j = SessionIs \o f
    BY <1>2, TellingsAre
  <2>2. f \in Seq(Plain) /\ SessionIs \in Seq(Plain)
    BY FiguresArePlain, SessionIsSeq
  <2>3. j \in Seq(Plain)
    BY <2>1, <2>2, ConcatProperties
  <2>4. QED
    BY <2>3, PlainValue
<1>3. QED
  BY <1>1, <1>2 DEF Baked

Letter(name) ==
  CASE name = "length" -> 76 [] name = "cookie" -> 75
    [] name = "version" -> 86 [] name = "other" -> 79

Value(m, name) ==
  CASE name = "length" -> Digits(Len(m.body)) [] name = "cookie" -> jar
    [] name = "version" -> Digits(13) [] name = "other" -> <<Minus>>

HeaderNames == {"length", "cookie", "version", "other"}

LEMMA LetterIs ==
  /\ Letter("length") = 76 /\ Letter("cookie") = 75
  /\ Letter("version") = 86 /\ Letter("other") = 79
BY DEF Letter

\* Five characters and a value make a line.
\* A name with what stands after it, and the line end before it.
IsName(q, X) == q \in Seq(Nat) /\ Len(q) = 3 /\ q[1] = X /\ q[2] = 58 /\ q[3] = 32

OpensLine(p, X) ==
  /\ p \in Seq(Nat) /\ Len(p) = 5
  /\ p[1] = 13 /\ p[2] = 10 /\ p[3] = X /\ p[4] = 58 /\ p[5] = 32

LEMMA LineMade ==
  ASSUME NEW p, NEW X, OpensLine(p, X), NEW v, v \in Seq(Plain), v # << >>
  PROVE  IsLine(p \o v, X, v)
<1>0. /\ p \in Seq(Nat) /\ Len(p) = 5
      /\ p[1] = 13 /\ p[2] = 10 /\ p[3] = X /\ p[4] = 58 /\ p[5] = 32
  BY DEF OpensLine
<1> DEFINE w == p \o v
<1>1. v \in Seq(Nat)
  BY PlainValue
<1>2. Joint(w, p, v, 5, Len(v))
  <2>1. PICK five, n : five = 5 /\ n = Len(v) /\ five = Len(p)
    BY <1>0
  <2>2. Joint(p \o v, p, v, five, n)
    BY <1>0, <1>1, <2>1, JointIs
  <2>3. QED
    BY <2>1, <2>2
<1> HIDE DEF w
<1>3. /\ w \in Seq(Nat) /\ Len(w) = 5 + Len(v)
      /\ \A i \in 1..5 : w[i] = p[i]
      /\ \A i \in 1..Len(v) : w[5 + i] = v[i]
  BY <1>2 DEF Joint
<1>4. w[1] = p[1] /\ w[2] = p[2] /\ w[3] = p[3] /\ w[4] = p[4] /\ w[5] = p[5]
  BY <1>3
<1>5. IsLine(w, X, v)
  BY <1>0, <1>3, <1>4 DEF IsLine
<1>6. QED
  BY <1>5 DEF w

\* What comes before the value of each header.
LEMMA FiveCharacters ==
  ASSUME NEW q, NEW X, IsName(q, X)
  PROVE  OpensLine(LineEnd \o q, X)
<1> DEFINE t == LineEnd \o q
<1>1. q \in Seq(Nat) /\ Len(q) = 3 /\ q[1] = X /\ q[2] = 58 /\ q[3] = 32
  BY DEF IsName
<1>2. Joint(t, LineEnd, q, 2, 3)
  <2>1. PICK two, three : two = 2 /\ three = 3 /\ two = Len(LineEnd) /\ three = Len(q)
    BY <1>1, HeaderEndIs
  <2>2. Joint(LineEnd \o q, LineEnd, q, two, three)
    BY <1>1, <2>1, HeaderEndIs, JointIs
  <2>3. QED
    BY <2>1, <2>2
<1> HIDE DEF t
<1>3. /\ t \in Seq(Nat) /\ Len(t) = 5
      /\ \A i \in 1..2 : t[i] = LineEnd[i]
      /\ \A i \in 1..3 : t[2 + i] = q[i]
  BY <1>2 DEF Joint
<1>4. t[1] = LineEnd[1] /\ t[2] = LineEnd[2]
  BY <1>3
<1>5. t[3] = q[1] /\ t[4] = q[2] /\ t[5] = q[3]
  <2>1. t[2 + 1] = q[1] /\ t[2 + 2] = q[2] /\ t[2 + 3] = q[3]
    <3>1. 1 \in 1..3 /\ 2 \in 1..3 /\ 3 \in 1..3
      OBVIOUS
    <3>2. QED
      BY <1>3, <3>1, Zenon
  <2>2. QED
    BY <2>1
<1>6. OpensLine(t, X)
  BY <1>1, <1>3, <1>4, <1>5, HeaderEndIs DEF OpensLine
<1>7. QED
  BY <1>6 DEF t

LEMMA NamedCharacters ==
  ASSUME NEW X \in Nat
  PROVE  OpensLine((LineEnd \o <<X>>) \o <<58, 32>>, X)
<1> DEFINE a == <<X>>
           b == <<58, 32>>
           q == a \o b
<1>1. a \in Seq(Nat) /\ Len(a) = 1 /\ a[1] = X
  OBVIOUS
<1>2. b \in Seq(Nat) /\ Len(b) = 2 /\ b[1] = 58 /\ b[2] = 32
  OBVIOUS
<1> HIDE DEF a, b
<1>3. Joint(q, a, b, 1, 2)
  <2>1. PICK one, two : one = 1 /\ two = 2 /\ one = Len(a) /\ two = Len(b)
    BY <1>1, <1>2
  <2>2. Joint(a \o b, a, b, one, two)
    BY <1>1, <1>2, <2>1, JointIs
  <2>3. QED
    BY <2>1, <2>2
<1>4. (LineEnd \o a) \o b = LineEnd \o q
  <2>1. LineEnd \in Seq(Nat) /\ a \in Seq(Nat) /\ b \in Seq(Nat)
    BY <1>1, <1>2, HeaderEndIs
  <2>2. Regroups(LineEnd, a, b)
    BY <2>1, AlwaysRegroups
  <2>3. QED
    BY <2>2 DEF Regroups
<1> HIDE DEF q
<1>5. /\ q \in Seq(Nat) /\ Len(q) = 3
      /\ \A i \in 1..1 : q[i] = a[i]
      /\ \A i \in 1..2 : q[1 + i] = b[i]
  BY <1>3 DEF Joint
<1>6. q[1] = X /\ q[2] = 58 /\ q[3] = 32
  <2>1. q[1] = a[1] /\ q[1 + 1] = b[1] /\ q[1 + 2] = b[2]
    <3>1. 1 \in 1..1 /\ 1 \in 1..2 /\ 2 \in 1..2
      OBVIOUS
    <3>2. QED
      BY <1>5, <3>1, Zenon
  <2>2. QED
    BY <1>1, <1>2, <2>1
<1>7. IsName(q, X)
  BY <1>5, <1>6 DEF IsName
<1>8. OpensLine(LineEnd \o q, X)
  BY <1>7, FiveCharacters
<1>9. QED
  BY <1>4, <1>8 DEF a, b

\* Each header is a line, a cookie only when the client has one.
LEMMA HeaderLineIs ==
  ASSUME NEW m, m.body \in Seq(Nat), Baked(jar), NEW name \in HeaderNames
  PROVE  /\ name = "cookie" /\ jar = << >> => HeaderLine(m, name) = << >>
         /\ ~(name = "cookie" /\ jar = << >>) =>
              IsLine(HeaderLine(m, name), Letter(name), Value(m, name))
<1>1. CASE name = "length"
  <2>1. Len(m.body) \in Nat
    BY LenProperties
  <2>2. Digits(Len(m.body)) \in Seq(Plain) /\ Digits(Len(m.body)) # << >>
    BY <2>1, DigitsArePlain
  <2> DEFINE p == LineEnd \o ContentLength
  <2>3. IsName(ContentLength, 76)
    BY DEF ContentLength, IsName
  <2>4. OpensLine(p, 76)
    BY <2>3, FiveCharacters
  <2> HIDE DEF p
  <2>5. IsLine(p \o Digits(Len(m.body)), 76, Digits(Len(m.body)))
    BY <2>2, <2>4, LineMade
  <2>6. HeaderLine(m, name) = p \o Digits(Len(m.body))
    BY <1>1 DEF HeaderLine, p
  <2>7. Letter(name) = 76 /\ Value(m, name) = Digits(Len(m.body))
    BY <1>1 DEF Letter, Value
  <2>8. QED
    BY <1>1, <2>5, <2>6, <2>7
<1>2. CASE name = "cookie" /\ jar = << >>
  BY <1>2 DEF HeaderLine
<1>3. CASE name = "cookie" /\ jar # << >>
  <2> DEFINE p == (LineEnd \o <<75>>) \o <<58, 32>>
  <2>1. OpensLine(p, 75)
    BY NamedCharacters
  <2> HIDE DEF p
  <2>2. IsLine(p \o jar, 75, jar)
    BY <1>3, <2>1, BakedIsPlain, LineMade
  <2>3. HeaderLine(m, name) = p \o jar
    BY <1>3 DEF HeaderLine, Cookie, p
  <2>4. Letter(name) = 75 /\ Value(m, name) = jar
    BY <1>3 DEF Letter, Value
  <2>5. QED
    BY <1>3, <2>2, <2>3, <2>4
<1>4. CASE name = "version"
  <2> DEFINE p == (LineEnd \o <<86>>) \o <<58, 32>>
  <2>1. OpensLine(p, 86)
    BY NamedCharacters
  <2> HIDE DEF p
  <2>2. IsLine(p \o Digits(13), 86, Digits(13))
    <3>1. Digits(13) \in Seq(Plain) /\ Digits(13) # << >>
      <4>1. 13 \in Nat
        OBVIOUS
      <4>2. QED
        BY <4>1, DigitsArePlain
    <3>2. QED
      BY <2>1, <3>1, LineMade
  <2>3. HeaderLine(m, name) = p \o Digits(13)
    BY <1>4 DEF HeaderLine, WebSocketVersion, p
  <2>4. Letter(name) = 86 /\ Value(m, name) = Digits(13)
    BY <1>4 DEF Letter, Value
  <2>5. QED
    BY <1>4, <2>2, <2>3, <2>4
<1>5. CASE name = "other"
  <2> DEFINE q == <<79, 58, 32, 45>>
             w == LineEnd \o q
             p == LineEnd \o <<79, 58, 32>>
             v == <<45>>
  <2>1. <<79, 58, 32>> \in Seq(Nat) /\ Len(<<79, 58, 32>>) = 3
    OBVIOUS
  <2>2. v \in Seq(Plain) /\ v \in Seq(Nat) /\ v # << >> /\ Len(v) = 1 /\ v[1] = 45
    BY DEF Plain
  <2>3. q = <<79, 58, 32>> \o v
    BY SMTT(30)
  <2> HIDE DEF v
  <2>4. w = p \o v
    <3> DEFINE u == <<79, 58, 32>>
    <3>1. u \in Seq(Nat) /\ v \in Seq(Nat) /\ LineEnd \in Seq(Nat) /\ q = u \o v
      BY <2>1, <2>2, <2>3, HeaderEndIs
    <3> HIDE DEF u, q
    <3>2. u \in Seq(Nat) /\ v \in Seq(Nat) /\ LineEnd \in Seq(Nat)
      BY <3>1
    <3>3. Regroups(LineEnd, u, v)
      BY <3>2, AlwaysRegroups
    <3>4. (LineEnd \o u) \o v = LineEnd \o q
      BY <3>1, <3>3 DEF Regroups
    <3>5. QED
      BY <3>4 DEF u
  <2>5. OpensLine(p, 79)
    <3> DEFINE u == <<79, 58, 32>>
    <3>1. IsName(u, 79)
      BY DEF IsName
    <3> HIDE DEF u
    <3>2. OpensLine(LineEnd \o u, 79)
      BY <3>1, FiveCharacters
    <3>3. QED
      BY <3>2 DEF u
  <2> HIDE DEF p, q, w
  <2>10. IsLine(w, 79, v)
    BY <2>2, <2>4, <2>5, LineMade
  <2>11. HeaderLine(m, name) = w
    BY <1>5 DEF HeaderLine, Minus, w, q
  <2>12. Letter(name) = 79 /\ Value(m, name) = v
    BY <1>5 DEF Letter, Value, Minus, v
  <2>13. QED
    BY <1>5, <2>10, <2>11, <2>12
<1>6. QED
  BY <1>1, <1>2, <1>3, <1>4, <1>5 DEF HeaderNames

\* One after another, the lines of the headers follow.
Lines(m) ==
  LET lines[i \in 0..Len(m.headers)] ==
        IF i = 0 THEN << >> ELSE lines[i - 1] \o HeaderLine(m, m.headers[i]) IN
  lines[Len(m.headers)]

LEMMA HeaderLineSeq ==
  ASSUME NEW m, m.body \in Seq(Nat), Baked(jar), NEW name \in HeaderNames
  PROVE  HeaderLine(m, name) \in Seq(Nat)
<1>1. CASE name = "cookie" /\ jar = << >>
  BY <1>1, HeaderLineIs, EmptySeq
<1>2. CASE ~(name = "cookie" /\ jar = << >>)
  BY <1>2, HeaderLineIs DEF IsLine
<1>3. QED
  BY <1>1, <1>2

LEMMA LinesFollow ==
  ASSUME NEW m, m.body \in Seq(Nat), Baked(jar), m.headers \in Seq(HeaderNames),
         NEW n \in Nat, n = Len(m.headers)
  PROVE  \E g : /\ g \in [0..n -> Seq(Nat)] /\ g[0] = << >> /\ Lines(m) = g[n]
                /\ \A k \in 1..n : g[k] = g[k - 1] \o HeaderLine(m, m.headers[k])
<1> DEFINE S == Seq(Nat)
           line == [k \in 1..n |-> HeaderLine(m, m.headers[k])]
           step == [k \in 1..n |-> [s \in S |-> s \o line[k]]]
           F(g) == [i \in 0..n |->
                      IF i = 0 THEN << >> ELSE g[i - 1] \o HeaderLine(m, m.headers[i])]
           g == CHOOSE g : g = F(g)
<1>1. Lines(m) = g[n]
  BY DEF Lines
<1>2. \A k \in 1..n : line[k] \in S
  <2> SUFFICES ASSUME NEW k \in 1..n
               PROVE  line[k] \in S
    OBVIOUS
  <2>1. m.headers[k] \in HeaderNames
    BY ElementOfSeq
  <2>2. QED
    BY <2>1, HeaderLineSeq
<1>3. step \in [1..n -> [S -> S]]
  <2> HIDE DEF line
  <2>1. \A k \in 1..n : [s \in S |-> s \o line[k]] \in [S -> S]
    <3> SUFFICES ASSUME NEW k \in 1..n, NEW s \in S
                 PROVE  s \o line[k] \in S
      OBVIOUS
    <3>1. QED
      BY <1>2, ConcatProperties
  <2>2. QED
    BY <2>1
<1>4. << >> \in S
  BY EmptySeq
<1>5. PICK f : Follows(f, n, S, << >>, step)
  <2> HIDE DEF S, step
  <2>1. Course(n, S, << >>, step)
    BY <1>3, <1>4 DEF Course
  <2>2. QED
    BY <2>1, SequenceRecursion
<1>6. f \in [0..n -> S] /\ f[0] = << >>
  BY <1>5 DEF Follows
<1>7. \A k \in 1..n : f[k] = f[k - 1] \o HeaderLine(m, m.headers[k])
  <2> SUFFICES ASSUME NEW k \in 1..n
               PROVE  f[k] = f[k - 1] \o HeaderLine(m, m.headers[k])
    OBVIOUS
  <2>1. f[k] = step[k][f[k - 1]]
    BY <1>5 DEF Follows
  <2>2. k - 1 \in 0..n
    OBVIOUS
  <2>3. f[k - 1] \in S
    <3> HIDE DEF S
    <3>1. QED
      BY <1>6, <2>2
  <2>4. step[k] = [s \in S |-> s \o line[k]] /\ line[k] = HeaderLine(m, m.headers[k])
    OBVIOUS
  <2> HIDE DEF S, step, line
  <2>5. QED
    BY <2>1, <2>3, <2>4
<1>8. \E h : h = F(h)
  <2>1. \A i \in 0..n : f[i] =
          IF i = 0 THEN << >> ELSE f[i - 1] \o HeaderLine(m, m.headers[i])
    <3> SUFFICES ASSUME NEW i \in 0..n
                 PROVE  f[i] =
          IF i = 0 THEN << >> ELSE f[i - 1] \o HeaderLine(m, m.headers[i])
      OBVIOUS
    <3>1. i = 0 \/ i \in 1..n
      OBVIOUS
    <3>2. CASE i = 0
      BY <1>6, <3>2
    <3>3. CASE i # 0
      BY <1>7, <3>1, <3>3
    <3>4. QED
      BY <3>2, <3>3
  <2>2. f = [i \in 0..n |-> f[i]]
    BY <1>6
  <2>3. f = F(f)
    BY <2>1, <2>2
  <2>4. QED
    BY <2>3
<1>9. g = F(g)
  <2> HIDE DEF F
  <2>1. QED
    BY <1>8
<1> HIDE DEF g
<1>10. g[0] = << >>
  BY <1>9
<1>11. \A k \in 1..n : g[k] = g[k - 1] \o HeaderLine(m, m.headers[k])
  <2> SUFFICES ASSUME NEW k \in 1..n
               PROVE  g[k] = g[k - 1] \o HeaderLine(m, m.headers[k])
    OBVIOUS
  <2>1. k \in 0..n /\ k # 0
    OBVIOUS
  <2>2. g = [i \in 0..n |->
                      IF i = 0 THEN << >> ELSE g[i - 1] \o HeaderLine(m, m.headers[i])]
    BY <1>9
  <2>3. g[k] = IF k = 0 THEN << >> ELSE g[k - 1] \o HeaderLine(m, m.headers[k])
    BY <2>1, <2>2
  <2>4. QED
    BY <2>1, <2>3
<1>12. DOMAIN g = 0..n /\ g = [i \in 0..n |-> g[i]]
  BY <1>9
<1> HIDE DEF F
<1> DEFINE T == {i \in 0..n : g[i] \in S}
<1>13. 0 \in T
  <2> HIDE DEF S
  <2>1. QED
    BY <1>4, <1>10
<1>14. \A i \in 0..(n - 1) : i \in T => i + 1 \in T
  <2> SUFFICES ASSUME NEW i \in 0..(n - 1), i \in T
               PROVE  i + 1 \in T
    OBVIOUS
  <2>1. i + 1 \in 1..n /\ i + 1 \in 0..n /\ (i + 1) - 1 = i
    OBVIOUS
  <2>2. g[i + 1] = g[i] \o HeaderLine(m, m.headers[i + 1])
    BY <1>11, <2>1
  <2>3. line[i + 1] = HeaderLine(m, m.headers[i + 1]) /\ line[i + 1] \in S
    BY <1>2, <2>1
  <2> HIDE DEF line
  <2>4. g[i + 1] \in S
    BY <2>2, <2>3, ConcatProperties
  <2>5. QED
    BY <2>1, <2>4
<1>15. 0..n \subseteq T
  <2> HIDE DEF T
  <2>1. QED
    BY <1>13, <1>14, Induction
<1>16. g \in [0..n -> S]
  BY <1>12, <1>15
<1>17. QED
  BY <1>1, <1>10, <1>11, <1>16

\* A header that a client sends is there among the first i.
Named(m, i, name) ==
  /\ \E k \in 1..i : m.headers[k] = name
  /\ name = "cookie" => jar # << >>

Sought(h, X, v, there) == IF there THEN HasLine(h, X, v) ELSE Lacks(h, X)

\* Characters with the first i headers.
Well(h, m, i) ==
  /\ Lined(h)
  /\ \A name \in {"length", "cookie", "version"} :
       Sought(h, Letter(name), Value(m, name), Named(m, i, name))

LEMMA WellGrows ==
  ASSUME NEW m, m.body \in Seq(Nat), Baked(jar), m.headers \in Seq(HeaderNames),
         NEW i \in Nat, i + 1 \in 1..Len(m.headers), NEW h, Well(h, m, i)
  PROVE  Well(h \o HeaderLine(m, m.headers[i + 1]), m, i + 1)
<1> DEFINE x == m.headers[i + 1]
           w == HeaderLine(m, x)
<1>1. x \in HeaderNames
  BY ElementOfSeq
<1>2. \A name : Named(m, i + 1, name) <=>
                  Named(m, i, name) \/ (x = name /\ (name = "cookie" => jar # << >>))
  <2>1. \A k \in 1..(i + 1) : k \in 1..i \/ k = i + 1
    OBVIOUS
  <2>2. 1..i \subseteq 1..(i + 1) /\ i + 1 \in 1..(i + 1)
    OBVIOUS
  <2>3. QED
    BY <2>1, <2>2 DEF Named
<1> HIDE DEF x
<1>3. h \in Seq(Nat) /\ Lined(h)
  BY DEF Well, Lined
<1>4. CASE x = "cookie" /\ jar = << >>
  <2>1. w = << >>
    BY <1>1, <1>4, HeaderLineIs
  <2>2. h \o w = h
    BY <1>3, <2>1, ConcatEmptySeq
  <2>3. \A name : Named(m, i + 1, name) = Named(m, i, name)
    BY <1>2, <1>4 DEF Named
  <2>4. Well(h \o w, m, i + 1)
    BY <2>2, <2>3 DEF Well
  <2>5. QED
    BY <2>4 DEF x
<1>5. CASE ~(x = "cookie" /\ jar = << >>)
  <2>1. IsLine(w, Letter(x), Value(m, x))
    BY <1>1, <1>5, HeaderLineIs
  <2> HIDE DEF w
  <2>2. Letter(x) \in Nat \ {10, 13}
    BY <1>1, LetterIs DEF HeaderNames
  <2>3. Lined(w) /\ w \in Seq(Nat) /\ BeginsLine(w)
    BY <2>1, <2>2, LineIsLined
  <2>4. Lined(h \o w)
    BY <1>3, <2>3, LinedGrows
  <2>5. ASSUME NEW name \in {"length", "cookie", "version"}
        PROVE  Sought(h \o w, Letter(name), Value(m, name), Named(m, i + 1, name))
    <3>1. name \in HeaderNames /\ Letter(name) \in {75, 76, 84, 86} /\ Letter(name) \notin {10, 13}
      BY LetterIs DEF HeaderNames
    <3>2. Sought(h, Letter(name), Value(m, name), Named(m, i, name))
      BY DEF Well
    <3>3. CASE Named(m, i, name)
      <4>1. Named(m, i + 1, name)
        BY <1>2, <3>3
      <4>2. PICK k : LineAt(h, Letter(name), Value(m, name), k)
        BY <3>2, <3>3 DEF Sought, HasLine
      <4>3. Value(m, name) \in Seq(Nat)
        <5>1. ~(name = "cookie" /\ jar = << >>)
          BY <3>3 DEF Named
        <5>2. IsLine(HeaderLine(m, name), Letter(name), Value(m, name))
          BY <3>1, <5>1, HeaderLineIs
        <5>3. QED
          BY <5>2, PlainValue DEF IsLine
      <4>4. LineAt(h \o w, Letter(name), Value(m, name), k)
        BY <1>3, <2>3, <4>2, <4>3, LineStays
      <4>5. QED
        BY <4>1, <4>4 DEF Sought, HasLine
    <3>4. CASE ~Named(m, i, name) /\ x = name
      <4>1. Named(m, i + 1, name)
        BY <1>2, <1>5, <3>4
      <4>2. Lacks(h, Letter(name))
        BY <3>2, <3>4 DEF Sought
      <4>3. LineAt(h \o w, Letter(name), Value(m, name), Len(h) + 2)
        BY <1>3, <2>1, <3>1, <3>4, <4>2, LineAdded
      <4>4. QED
        BY <4>1, <4>3 DEF Sought, HasLine
    <3>5. CASE ~Named(m, i, name) /\ x # name
      <4>1. ~Named(m, i + 1, name)
        BY <1>2, <3>5
      <4>2. Lacks(h, Letter(name))
        BY <3>2, <3>5 DEF Sought
      <4>3. Letter(x) # Letter(name)
        BY <1>1, <3>5, LetterIs DEF HeaderNames
      <4>4. Lacks(w, Letter(name))
        BY <2>1, <3>1, <4>3, LineLacks
      <4>5. Lacks(h \o w, Letter(name))
        BY <1>3, <2>3, <4>2, <4>4, LacksGrows
      <4>6. QED
        BY <4>1, <4>5 DEF Sought
    <3>6. QED
      BY <3>3, <3>4, <3>5
  <2>6. Well(h \o w, m, i + 1)
    BY <2>4, <2>5 DEF Well
  <2>7. QED
    BY <2>6 DEF x, w
<1>6. QED
  BY <1>4, <1>5

\* Requests as the assumption has them.
Addressed == Seq(Nat \ {10, 13, 32, 75, 76, 86})

Proper(m) ==
  /\ m.addr \in Addressed /\ m.addr # << >>
  /\ m.body \in Seq(Nat) /\ Len(m.body) < HalfInt
  /\ m.headers \in Seq(HeaderNames)
  /\ m.body # << >> => \E i \in 1..Len(m.headers) : m.headers[i] = "length"

LEMMA MessagesAreProper == \A m \in Messages : Proper(m)
BY RequestAssumption DEF Proper, Addressed, HeaderNames, HalfInt

LEMMA AddressIs ==
  ASSUME NEW a, a \in Addressed
  PROVE  /\ a \in Seq(Nat) /\ Len(a) \in Nat
         /\ \A i \in 1..Len(a) : a[i] \in Nat \ {10, 13, 32, 75, 76, 86}
         /\ a # << >> => Len(a) > 0
<1> DEFINE S == Nat \ {10, 13, 32, 75, 76, 86}
<1>1. S \subseteq Nat /\ a \in Seq(S)
  BY DEF Addressed
<1>2. \A i \in 1..Len(a) : a[i] \in S
  <2> HIDE DEF S
  <2>1. QED
    BY <1>1, ElementOfSeq
<1>3. a \in Seq(Nat)
  <2> HIDE DEF S
  <2>1. QED
    BY <1>1, SeqMonotonic
<1>4. QED
  BY <1>2, <1>3, LenProperties, EmptySeq

\* A request line.
Start(m) == (<<80, Space>> \o m.addr) \o <<Space, 72>>

Starts(h, a) ==
  /\ h \in Seq(Nat) /\ Len(a) \in Nat /\ 4 + Len(a) <= Len(h)
  /\ h[1] = 80 /\ h[2] = 32 /\ h[3 + Len(a)] = 32
  /\ \A i \in 1..Len(a) : h[2 + i] = a[i]

LEMMA StartIs ==
  ASSUME NEW m, m.addr \in Addressed
  PROVE  /\ Starts(Start(m), m.addr) /\ Lined(Start(m))
         /\ Lacks(Start(m), 75) /\ Lacks(Start(m), 76) /\ Lacks(Start(m), 86)
<1> DEFINE a == m.addr
           n == Len(a)
           p == <<80, Space>>
           q == <<Space, 72>>
           s == p \o a
           t == s \o q
<1>1. /\ a \in Seq(Nat) /\ n \in Nat
      /\ \A i \in 1..n : a[i] \in Nat \ {10, 13, 32, 75, 76, 86}
  BY AddressIs
<1>2. p \in Seq(Nat) /\ Len(p) = 2 /\ p[1] = 80 /\ p[2] = 32
  BY DEF Space
<1>3. q \in Seq(Nat) /\ Len(q) = 2 /\ q[1] = 32 /\ q[2] = 72
  BY DEF Space
<1>4. Start(m) = t
  BY DEF Start
<1> HIDE DEF a, p, q
<1>5. Joint(s, p, a, 2, n)
  BY <1>1, <1>2, JointIs, ZenonT(60)
<1> HIDE DEF s
<1>6. s \in Seq(Nat) /\ Len(s) = 2 + n
  BY <1>5 DEF Joint
<1>7. Joint(t, s, q, 2 + n, 2)
  BY <1>3, <1>6, JointIs, ZenonT(60)
<1> HIDE DEF t, n
<1>8. /\ \A i \in 1..2 : s[i] = p[i]
      /\ \A i \in 1..n : s[2 + i] = a[i]
  BY <1>5 DEF Joint
<1>9. /\ t \in Seq(Nat) /\ Len(t) = (2 + n) + 2
      /\ \A i \in 1..(2 + n) : t[i] = s[i]
      /\ \A i \in 1..2 : t[(2 + n) + i] = q[i]
  BY <1>7 DEF Joint
<1>10. s[1] = 80 /\ s[2] = 32
  BY <1>2, <1>8
<1>11. 1 \in 1..(2 + n) /\ 2 \in 1..(2 + n) /\ \A i \in 1..n : 2 + i \in 1..(2 + n)
  BY <1>1
<1>12. t[1] = 80 /\ t[2] = 32
  BY <1>9, <1>10, <1>11
<1>13. \A i \in 1..n : t[2 + i] = a[i]
  BY <1>8, <1>9, <1>11
<1>14. t[(2 + n) + 1] = 32 /\ t[(2 + n) + 2] = 72
  BY <1>3, <1>9
<1>15. (2 + n) + 1 = 3 + n /\ (2 + n) + 2 = 4 + n
  BY <1>1
<1>16. Starts(t, a)
  BY <1>1, <1>9, <1>12, <1>13, <1>14, <1>15 DEF Starts, n
<1>17. \A i \in 1..Len(t) : t[i] \notin {10, 13, 75, 76, 86}
  <2> SUFFICES ASSUME NEW i \in 1..Len(t)
               PROVE  t[i] \notin {10, 13, 75, 76, 86}
    OBVIOUS
  <2>1. \/ i = 1 \/ i = 2 \/ i = (2 + n) + 1 \/ i = (2 + n) + 2
        \/ (i - 2 \in 1..n /\ i = 2 + (i - 2))
    BY <1>1, <1>9
  <2>2. CASE i - 2 \in 1..n /\ i = 2 + (i - 2)
    <3>1. PICK j \in 1..n : i = 2 + j
      BY <2>2
    <3>2. t[i] = a[j]
      BY <1>13, <3>1
    <3>3. QED
      BY <1>1, <3>2
  <2>3. QED
    BY <1>12, <1>14, <2>1, <2>2
<1>18. Lined(t) /\ Lacks(t, 75) /\ Lacks(t, 76) /\ Lacks(t, 86)
  BY <1>9, <1>17 DEF Lined, Lacks
<1>19. QED
  BY <1>4, <1>16, <1>18 DEF a

LEMMA StartsStays ==
  ASSUME NEW h, NEW a, Starts(h, a), NEW w, w \in Seq(Nat)
  PROVE  Starts(h \o w, a)
<1> DEFINE t == h \o w
           H == Len(h)
           n == Len(a)
<1>1. /\ h \in Seq(Nat) /\ n \in Nat /\ 4 + n <= H
      /\ h[1] = 80 /\ h[2] = 32 /\ h[3 + n] = 32
      /\ \A i \in 1..n : h[2 + i] = a[i]
  BY DEF Starts
<1>2. Joint(t, h, w, H, Len(w))
  BY <1>1, JointIs
<1> HIDE DEF t, H, n
<1>3. /\ t \in Seq(Nat) /\ H \in Nat /\ Len(w) \in Nat /\ Len(t) = H + Len(w)
      /\ \A i \in 1..H : t[i] = h[i]
  BY <1>2 DEF Joint
<1>4. 1 \in 1..H /\ 2 \in 1..H /\ 3 + n \in 1..H /\ \A i \in 1..n : 2 + i \in 1..H
  BY <1>1, <1>3
<1>5. t[1] = 80 /\ t[2] = 32 /\ t[3 + n] = 32 /\ \A i \in 1..n : t[2 + i] = a[i]
  <2>1. t[1] = h[1] /\ t[2] = h[2] /\ t[3 + n] = h[3 + n]
    BY <1>3, <1>4
  <2>2. \A i \in 1..n : t[2 + i] = h[2 + i]
    BY <1>3, <1>4
  <2>3. QED
    BY <1>1, <2>1, <2>2
<1>6. 4 + n <= Len(t)
  BY <1>1, <1>3
<1>7. Starts(t, a)
  BY <1>1, <1>3, <1>5, <1>6 DEF Starts, n
<1>8. QED
  BY <1>7 DEF t

\* A request as it is sent: request line and headers, their end, the body.
Header(m) == Start(m) \o Lines(m)

LEMMA RenderedIs ==
  ASSUME NEW m
  PROVE  Rendered(m) = (Header(m) \o HeaderEnd) \o m.body
BY DEF Rendered, Header, Start, Lines

LEMMA HeaderIs ==
  ASSUME NEW m, Proper(m), Baked(jar)
  PROVE  /\ Header(m) \in Seq(Nat) /\ Starts(Header(m), m.addr)
         /\ Well(Header(m), m, Len(m.headers))
<1> DEFINE n == Len(m.headers)
<1>1. /\ m.addr \in Addressed /\ m.body \in Seq(Nat) /\ m.headers \in Seq(HeaderNames)
      /\ n \in Nat
  BY LenProperties DEF Proper
<1>2. PICK g : /\ g \in [0..n -> Seq(Nat)] /\ g[0] = << >> /\ Lines(m) = g[n]
               /\ \A k \in 1..n : g[k] = g[k - 1] \o HeaderLine(m, m.headers[k])
  BY <1>1, LinesFollow
<1> DEFINE s == Start(m)
           T == {i \in 0..n : Well(s \o g[i], m, i)}
<1>3. Starts(s, m.addr) /\ Lined(s) /\ s \in Seq(Nat)
      /\ Lacks(s, 75) /\ Lacks(s, 76) /\ Lacks(s, 86)
  BY <1>1, StartIs DEF Lined
<1> HIDE DEF s, n
<1>4. 0 \in T
  <2>1. s \o g[0] = s
    BY <1>2, <1>3, ConcatEmptySeq
  <2>2. \A name : ~Named(m, 0, name)
    BY DEF Named
  <2>3. \A name \in {"length", "cookie", "version"} : Lacks(s, Letter(name))
    BY <1>3, LetterIs
  <2>4. Well(s, m, 0)
    BY <1>3, <2>2, <2>3 DEF Well, Sought
  <2>5. Well(s \o g[0], m, 0) /\ 0 \in 0..n
    BY <1>1, <2>1, <2>4
  <2>6. QED
    BY <2>5
<1>5. \A i \in 0..(n - 1) : i \in T => i + 1 \in T
  <2> SUFFICES ASSUME NEW i \in 0..(n - 1), Well(s \o g[i], m, i)
               PROVE  Well(s \o g[i + 1], m, i + 1) /\ i + 1 \in 0..n
    OBVIOUS
  <2>1. i \in Nat /\ i + 1 \in 1..n /\ (i + 1) - 1 = i /\ i + 1 \in 0..n /\ i \in 0..n
    BY <1>1
  <2>2. g[i + 1] = g[i] \o HeaderLine(m, m.headers[i + 1])
    BY <1>2, <2>1
  <2>3. HeaderLine(m, m.headers[i + 1]) \in Seq(Nat) /\ g[i] \in Seq(Nat)
    <3>1. m.headers[i + 1] \in HeaderNames
      BY <1>1, <2>1, ElementOfSeq DEF n
    <3>2. QED
      BY <1>1, <1>2, <2>1, <3>1, HeaderLineSeq
  <2>4. s \o g[i + 1] = (s \o g[i]) \o HeaderLine(m, m.headers[i + 1])
    <3>1. (s \o g[i]) \o HeaderLine(m, m.headers[i + 1])
            = s \o (g[i] \o HeaderLine(m, m.headers[i + 1]))
      <4> DEFINE u == g[i]
                 w == HeaderLine(m, m.headers[i + 1])
      <4>1. s \in Seq(Nat) /\ u \in Seq(Nat) /\ w \in Seq(Nat)
        BY <1>3, <2>3
      <4> HIDE DEF u, w
      <4>2. Regroups(s, u, w)
        BY <4>1, AlwaysRegroups
      <4>3. QED
        BY <4>2 DEF Regroups, u, w
    <3>2. QED
      BY <2>2, <3>1
  <2>5. Well((s \o g[i]) \o HeaderLine(m, m.headers[i + 1]), m, i + 1)
    BY <1>1, <2>1, WellGrows DEF n
  <2>6. QED
    BY <2>1, <2>4, <2>5
<1>6. n \in T
  <2> HIDE DEF T
  <2>1. 0..n \subseteq T
    BY <1>1, <1>4, <1>5, Induction
  <2>2. QED
    BY <1>1, <2>1
<1>7. Header(m) = s \o g[n]
  BY <1>2 DEF Header, s
<1>8. g[n] \in Seq(Nat)
  BY <1>1, <1>2
<1>9. Starts(s \o g[n], m.addr)
  BY <1>3, <1>8, StartsStays
<1>10. s \o g[n] \in Seq(Nat)
  BY <1>9 DEF Starts
<1>11. QED
  BY <1>6, <1>7, <1>9, <1>10 DEF n

-----------------------------------------------------------------------------
(* What is read from a header *)

LEMMA VoidIs == Void \in Strings /\ Void.at = 0 /\ Void.len = 0
BY DEF Void, Strings

LEMMA NothingInVoid ==
  ASSUME NEW mem, NEW what, NEW m \in Nat, m = Len(what), m > 0
  PROVE  Find(mem, Void, what) = NotFound(Void)
<1>1. \A i \in 0..(Void.len - 1) : mem[Void.at + i] # what[1]
  BY VoidIs
<1>2. QED
  BY <1>1, VoidIs, FindsNone

LEMMA NotFoundIs ==
  ASSUME NEW in
  PROVE  NotFound(in).before = in /\ NotFound(in).found = Void /\ NotFound(in).after = Void
BY DEF NotFound

LEMMA SliceOfVoid == Slice(Void, 2, 0) = Void
<1>1. Void \in [at : Nat, len : Nat]
  BY VoidIs DEF Strings
<1>2. PICK b \in [at : Nat, len : Nat] : b = Void
  BY <1>1
<1>3. b.at = 0 /\ 2 >= b.len
  BY <1>2, VoidIs
<1>4. Slice(b, 2, 0) = [at |-> b.at, len |-> 0]
  BY <1>3, SliceRest
<1>5. QED
  BY <1>2, <1>3, <1>4 DEF Void

LEMMA CharsOfVoid ==
  ASSUME NEW mem
  PROVE  Chars(mem, Void) = << >>
<1>1. Chars(mem, Void) = [i \in 1..0 |-> mem[Void.at + i - 1]]
  BY VoidIs DEF Chars
<1>2. [i \in 1..0 |-> mem[Void.at + i - 1]] \in Seq(Nat)
      /\ Len([i \in 1..0 |-> mem[Void.at + i - 1]]) = 0
  OBVIOUS
<1>3. QED
  BY <1>1, <1>2, EmptySeq

LEMMA NothingIsZero == ToNumber(<< >>) = 0
<1> DEFINE d == << >>
           v == [i \in 0..0 |-> 0]
<1>1. d \in Seq(Nat) /\ Len(d) = 0
  BY EmptySeq
<1>2. SubSeq(d, 1, Len(d)) = d
  BY <1>1, SubSeqFull
<1> HIDE DEF d
<1>3. AllDigits(d)
  BY <1>1 DEF AllDigits
<1>4. Horner(v, d, 0)
  BY DEF Horner
<1>5. v[0] = 0
  OBVIOUS
<1> HIDE DEF v
<1>6. Accumulated(d) = Wrapped(0)
  BY <1>1, <1>3, <1>4, <1>5, AccumulatedIs
<1>7. Wrapped(0) = 0
  BY HalfIs, WrappedSmall
<1>8. d = << >>
  BY DEF d
<1>9. ToNumber(d) = Wrapped(Accumulated(d))
  BY <1>2, <1>3, <1>8 DEF ToNumber, Accumulated, AllDigits
<1>10. QED
  BY <1>6, <1>7, <1>8, <1>9

LEMMA NumberOfChars ==
  ASSUME NEW mem, NEW b, NEW v, v \in Seq(Nat), Chars(mem, b) = v
  PROVE  Number(mem, b) = ToNumber(v)
BY DEF Number, Numbers

\* The text after a name, up to a line end.
ValueOf(mem, b, X) == Find(mem, Find(mem, b, <<X, 58, 32>>).after, LineEnd).before

\* It is v.
Reads(mem, b, X, v) ==
  /\ Find(mem, b, <<X, 58, 32>>).found.len > 0
  /\ ValueOf(mem, b, X) \in Strings /\ ValueOf(mem, b, X).len = Len(v)
  /\ Chars(mem, ValueOf(mem, b, X)) = v
  /\ Number(mem, ValueOf(mem, b, X)) = ToNumber(v)
  /\ ExtractParam(mem, b, <<X>>) = ValueOf(mem, b, X)

LEMMA ValueRead ==
  ASSUME NEW mem, NEW h, NEW b, Stands(mem, h, b), NEW X, NEW v, v \in Seq(Plain),
         v # << >>, HasLine(h, X, v)
  PROVE  Reads(mem, b, X, v)
<1>1. PICK k : LineAt(h, X, v, k)
  BY DEF HasLine
<1>2. v \in Seq(Nat) /\ \A i \in 1..Len(v) : v[i] # 13
  BY PlainValue DEF Plain
<1> DEFINE value == Find(mem, Rest(h, k), LineEnd).before
<1>3. /\ Find(mem, b, <<X, 58, 32>>).after = Rest(h, k)
      /\ Find(mem, b, <<X, 58, 32>>).found.len > 0
      /\ Slice(Find(mem, b, <<X>>).after, 2, 0) = Rest(h, k)
  <2>1. NameRead(mem, h, b, X, k)
    BY <1>1, <1>2, AfterName
  <2>2. QED
    BY <2>1 DEF NameRead
<1>4. value \in Strings /\ value.len = Len(v) /\ Chars(mem, value) = v
  BY <1>1, <1>2, ValueBefore
<1>5. ExtractParam(mem, b, <<X>>) = value
  BY <1>3 DEF ExtractParam
<1> HIDE DEF value
<1>6. Number(mem, value) = ToNumber(v)
  BY <1>2, <1>4, NumberOfChars
<1>7. ValueOf(mem, b, X) = value
  BY <1>3 DEF value, ValueOf
<1>8. QED
  BY <1>3, <1>4, <1>5, <1>6, <1>7 DEF Reads

\* Without the name it is void.
LEMMA ValueMissing ==
  ASSUME NEW mem, NEW h, NEW b, Stands(mem, h, b), NEW X, Lacks(h, X)
  PROVE  /\ Find(mem, b, <<X, 58, 32>>) = NotFound(b)
         /\ ValueOf(mem, b, X) = Void /\ ExtractParam(mem, b, <<X>>) = Void
         /\ Number(mem, Void) = 0
<1>1. Find(mem, b, <<X, 58, 32>>) = NotFound(b)
  <2> DEFINE w == <<X, 58, 32>>
  <2>1. PICK m \in Nat : m = Len(w) /\ m > 0 /\ w[1] = X
    OBVIOUS
  <2> HIDE DEF w
  <2>2. Find(mem, b, w) = NotFound(b)
    BY <2>1, NameMissing
  <2>3. QED
    BY <2>2 DEF w
<1>2. Find(mem, b, <<X>>) = NotFound(b)
  <2> DEFINE w == <<X>>
  <2>1. PICK m \in Nat : m = Len(w) /\ m > 0 /\ w[1] = X
    OBVIOUS
  <2> HIDE DEF w
  <2>2. Find(mem, b, w) = NotFound(b)
    BY <2>1, NameMissing
  <2>3. QED
    BY <2>2 DEF w
<1>3. Find(mem, Void, LineEnd).before = Void
  <2>1. PICK m \in Nat : m = Len(LineEnd) /\ m > 0
    BY HeaderEndIs
  <2>2. QED
    BY <2>1, NothingInVoid, NotFoundIs
<1>4. Number(mem, Void) = 0
  <2>1. PICK v \in Seq(Nat) : v = << >>
    BY EmptySeq
  <2>2. Chars(mem, Void) = v
    BY <2>1, CharsOfVoid
  <2>3. Number(mem, Void) = Numbers[v]
    BY <2>2 DEF Number
  <2>4. Numbers[v] = ToNumber(v)
    BY DEF Numbers
  <2>5. QED
    BY <2>1, <2>3, <2>4, NothingIsZero
<1>5. ExtractParam(mem, b, <<X>>) = Void
  BY <1>2, <1>3, SliceOfVoid, NotFoundIs DEF ExtractParam
<1>6. ValueOf(mem, b, X) = Void
  BY <1>1, <1>3, NotFoundIs DEF ValueOf
<1>7. QED
  BY <1>1, <1>4, <1>5, <1>6
-----------------------------------------------------------------------------
(* Parts of what is sent *)

\* A header of H characters, its end, and a body of B characters.
Sent(r, h, H, body, B) ==
  /\ r \in Seq(Nat) /\ h \in Seq(Nat) /\ body \in Seq(Nat)
  /\ H \in Nat /\ H = Len(h) /\ B \in Nat /\ B = Len(body)
  /\ Len(r) = H + 4 + B
  /\ \A i \in 1..H : r[i] = h[i]
  /\ \A i \in 1..4 : r[H + i] = HeaderEnd[i]
  /\ \A i \in 1..B : r[H + 4 + i] = body[i]

LEMMA SentIs ==
  ASSUME NEW h, h \in Seq(Nat), NEW body, body \in Seq(Nat)
  PROVE  Sent((h \o HeaderEnd) \o body, h, Len(h), body, Len(body))
<1> DEFINE H == Len(h)
           B == Len(body)
           s == h \o HeaderEnd
           r == s \o body
<1>1. H \in Nat /\ B \in Nat
  BY LenProperties
<1>2. PICK m \in Nat : m = Len(HeaderEnd) /\ m = 4
  BY HeaderEndIs
<1>3. Joint(s, h, HeaderEnd, H, m)
  BY <1>2, HeaderEndIs, JointIs
<1> HIDE DEF s
<1>4. /\ s \in Seq(Nat) /\ Len(s) = H + 4
      /\ \A i \in 1..H : s[i] = h[i]
      /\ \A i \in 1..4 : s[H + i] = HeaderEnd[i]
  BY <1>2, <1>3 DEF Joint
<1>5. Joint(r, s, body, H + 4, B)
  BY <1>4, JointIs
<1> HIDE DEF r
<1>6. /\ r \in Seq(Nat) /\ Len(r) = H + 4 + B
      /\ \A i \in 1..(H + 4) : r[i] = s[i]
      /\ \A i \in 1..B : r[H + 4 + i] = body[i]
  BY <1>5 DEF Joint
<1> HIDE DEF H, B
<1>7. \A i \in 1..H : i \in 1..(H + 4)
  BY <1>1
<1>8. \A i \in 1..4 : H + i \in 1..(H + 4)
  BY <1>1
<1>9. \A i \in 1..H : r[i] = h[i]
  BY <1>4, <1>6, <1>7
<1>10. \A i \in 1..4 : r[H + i] = HeaderEnd[i]
  BY <1>4, <1>6, <1>8
<1>11. Sent(r, h, H, body, B)
  BY <1>1, <1>6, <1>9, <1>10 DEF Sent, H, B
<1>12. QED
  BY <1>11 DEF r, s, H, B

\* The first n characters of it.
Came(mem, n, r) ==
  /\ mem \in Seq(Nat) /\ n \in Nat /\ n = Len(mem) /\ n <= Len(r)
  /\ \A i \in 1..n : mem[i] = r[i]

HeaderPart(H) == [at |-> 1, len |-> H]

BodyPart(H, n) == [at |-> H + 5, len |-> n - (H + 4)]

LEMMA PartsAre ==
  ASSUME NEW H \in Nat, NEW n \in Nat
  PROVE  /\ HeaderPart(H) \in Strings /\ HeaderPart(H).at = 1 /\ HeaderPart(H).len = H
         /\ BodyPart(H, n).at = H + 5 /\ BodyPart(H, n).len = n - (H + 4)
BY DEF HeaderPart, BodyPart, Strings

LEMMA AllIs ==
  ASSUME NEW mem, NEW n \in Nat, n = Len(mem)
  PROVE  All(mem) \in Strings /\ All(mem).at = 1 /\ All(mem).len = n
BY DEF All, Strings

\* What bfind makes of it.
Parted(f, mem, n, h, H) ==
  /\ n < H + 4 => f = NotFound(All(mem))
  /\ n >= H + 4 =>
       /\ f.before = HeaderPart(H) /\ f.found.len = 4 /\ f.after = BodyPart(H, n)
       /\ Stands(mem, h, HeaderPart(H))

LEMMA PartsFound ==
  ASSUME NEW r, NEW h, NEW H, NEW body, NEW B, Sent(r, h, H, body, B), Lined(h), H > 0,
         NEW mem, NEW n, Came(mem, n, r)
  PROVE  Parted(Find(mem, All(mem), HeaderEnd), mem, n, h, H)
<1>1. /\ H \in Nat /\ H = Len(h) /\ h \in Seq(Nat) /\ B \in Nat /\ Len(r) = H + 4 + B
      /\ \A i \in 1..H : r[i] = h[i]
      /\ \A i \in 1..4 : r[H + i] = HeaderEnd[i]
  BY DEF Sent
<1>2. n \in Nat /\ n = Len(mem) /\ n <= Len(r) /\ \A i \in 1..n : mem[i] = r[i]
  BY DEF Came
<1>3. PICK in : in = All(mem) /\ in \in Strings /\ in.at = 1 /\ in.len = n
  BY <1>2, AllIs
<1>4. \A i \in 1..n : i <= H => mem[i] = h[i]
  <2> SUFFICES ASSUME NEW i \in 1..n, i <= H PROVE mem[i] = h[i]
    OBVIOUS
  <2>1. i \in 1..H
    BY <1>1
  <2>2. QED
    BY <1>1, <1>2, <2>1
<1>5. \A i \in 1..4 : H + i <= n => mem[H + i] = HeaderEnd[i]
  <2> SUFFICES ASSUME NEW i \in 1..4, H + i <= n PROVE mem[H + i] = HeaderEnd[i]
    OBVIOUS
  <2>1. H + i \in 1..n
    BY <1>1, <1>2
  <2>2. QED
    BY <1>1, <1>2, <2>1
<1>6. /\ n >= H + 4 => Find(mem, in, HeaderEnd) = FoundAfter(in, H, 4)
      /\ n < H + 4 => Find(mem, in, HeaderEnd) = NotFound(in)
  <2>1. Opens(mem, in, n, h, H)
    BY <1>1, <1>2, <1>3, <1>4, <1>5 DEF Opens
  <2>2. QED
    BY <2>1, HeaderEndFound
<1>7. /\ FoundAfter(in, H, 4).before = HeaderPart(H)
      /\ FoundAfter(in, H, 4).found.len = 4
      /\ FoundAfter(in, H, 4).after = BodyPart(H, n)
  <2>1. 1 + H + 4 = H + 5
    BY <1>1
  <2>2. QED
    BY <1>3, <2>1 DEF FoundAfter, HeaderPart, BodyPart
<1>8. n >= H + 4 => Stands(mem, h, HeaderPart(H))
  <2> SUFFICES ASSUME n >= H + 4 PROVE Stands(mem, h, HeaderPart(H))
    OBVIOUS
  <2>1. \A i \in 1..H : i \in 1..n /\ i <= H
    BY <1>1, <1>2
  <2>2. \A i \in 1..H : mem[i] = h[i]
    BY <1>4, <2>1
  <2>3. HeaderPart(H) \in Strings /\ HeaderPart(H).at = 1 /\ HeaderPart(H).len = H
    BY <1>1, PartsAre
  <2>4. QED
    BY <1>1, <2>2, <2>3 DEF Stands
<1>9. QED
  BY <1>3, <1>6, <1>7, <1>8 DEF Parted
-----------------------------------------------------------------------------
(* Whole requests *)

LEMMA NamesAre ==
  /\ ContentLength = <<76, 58, 32>> /\ SetCookie = <<84, 58, 32>>
  /\ Cookie = <<75>> /\ WebSocketVersion = <<86>>
BY DEF ContentLength, SetCookie, Cookie, WebSocketVersion

\* btoi reads a length as what it is, and no characters as 0.
LEMMA LengthReadBack ==
  /\ \A n \in Nat : n < HalfInt => ToNumber(Digits(n)) = n /\ Truncated(n) = n
  /\ Truncated(0) = 0
<1>1. ASSUME NEW n \in Nat, n < HalfInt
      PROVE  ToNumber(Digits(n)) = n /\ Truncated(n) = n
  <2>1. n \in 0..(Half - 1) /\ n \in (-HalfInt)..(HalfInt - 1) /\ n \in Int
    BY <1>1, HalfIs, HalfIntIs
  <2>2. QED
    BY <2>1, ReadsBack, TruncatedIs
<1>2. QED
  BY <1>1, HalfIntIs

\* A request, of which h is the header.
Request(m, h, H, B) ==
  /\ Proper(m) /\ Baked(jar) /\ h = Header(m) /\ h \in Seq(Nat)
  /\ H \in Nat /\ H = Len(h) /\ H > 0 /\ B \in Nat /\ B = Len(m.body)
  /\ Starts(h, m.addr) /\ Lined(h)
  /\ \A name \in {"length", "cookie", "version"} :
       Sought(h, Letter(name), Value(m, name), Named(m, Len(m.headers), name))
  /\ Sent(Rendered(m), h, H, m.body, B)

LEMMA RequestIs ==
  ASSUME NEW m, Proper(m), Baked(jar)
  PROVE  \E h, H, B : Request(m, h, H, B)
<1> DEFINE h == Header(m)
           H == Len(h)
           B == Len(m.body)
<1>1. h \in Seq(Nat) /\ Starts(h, m.addr) /\ Well(h, m, Len(m.headers))
  BY HeaderIs
<1>2. m.body \in Seq(Nat)
  BY DEF Proper
<1>3. Sent((h \o HeaderEnd) \o m.body, h, H, m.body, B)
  BY <1>1, <1>2, SentIs
<1>4. Sent(Rendered(m), h, H, m.body, B)
  BY <1>3, RenderedIs
<1>5. H \in Nat /\ B \in Nat
  BY <1>1, <1>2, LenProperties
<1>6. H > 0
  BY <1>1, <1>5 DEF Starts
<1> HIDE DEF H, B
<1>7. Request(m, h, H, B)
  BY <1>1, <1>4, <1>5, <1>6 DEF Request, Well, H, B
<1>8. QED
  BY <1>7

\* The length is there when there is a body, and is that of the body.
LEMMA LengthNamed ==
  ASSUME NEW m, NEW h, NEW H, NEW B, Request(m, h, H, B)
  PROVE  /\ B < HalfInt
         /\ B > 0 => HasLine(h, 76, Digits(B))
         /\ HasLine(h, 76, Digits(B)) \/ Lacks(h, 76)
<1> DEFINE named == Named(m, Len(m.headers), "length")
<1>1. Sought(h, 76, Digits(B), named)
  <2>1. Sought(h, Letter("length"), Value(m, "length"), named)
    BY DEF Request
  <2>2. Value(m, "length") = Digits(B)
    BY DEF Value, Request
  <2>3. QED
    BY <2>1, <2>2, LetterIs
<1>2. B > 0 => named
  <2>1. B > 0 => m.body # << >>
    <3>1. m.body \in Seq(Nat) /\ B = Len(m.body)
      BY DEF Request, Proper
    <3>2. QED
      BY <3>1, EmptySeq
  <2>2. m.body # << >> => \E i \in 1..Len(m.headers) : m.headers[i] = "length"
    BY DEF Request, Proper
  <2>3. QED
    BY <2>1, <2>2 DEF Named
<1>3. B < HalfInt
  BY DEF Request, Proper
<1> HIDE DEF named
<1>4. QED
  BY <1>1, <1>2, <1>3 DEF Sought

\* A payload is whole when it is as long as the body.
LEMMA WholeIs ==
  ASSUME NEW m, NEW h, NEW H, NEW B, Request(m, h, H, B),
         NEW mem, NEW b, Stands(mem, h, b), NEW payload
  PROVE  /\ payload.len = B => Whole(mem, b, payload)
         /\ B > 0 /\ payload.len # B => ~Whole(mem, b, payload)
<1> DEFINE name == <<76, 58, 32>>
           f == Find(mem, b, name)
           length == ValueOf(mem, b, 76)
<1>1. ContentLength = name
  BY NamesAre
<1>2. Whole(mem, b, payload) <=>
        (f.found.len > 0 => Truncated(Number(mem, length)) = payload.len)
  BY <1>1 DEF Whole, ValueOf, IntOf
<1>3. B \in Nat
  BY DEF Request
<1>4. CASE HasLine(h, 76, Digits(B))
  <2>1. Digits(B) \in Seq(Plain) /\ Digits(B) # << >>
    BY <1>3, DigitsArePlain
  <2>2. ToNumber(Digits(B)) = B /\ Truncated(B) = B
    BY <1>3, LengthNamed, LengthReadBack
  <2>3. f.found.len > 0 /\ Number(mem, length) = ToNumber(Digits(B))
    <3>1. PICK v : v = Digits(B) /\ v \in Seq(Plain) /\ v # << >>
      BY <2>1
    <3>2. PICK X : X = 76
      OBVIOUS
    <3>3. HasLine(h, X, v)
      BY <1>4, <3>1, <3>2
    <3>4. Reads(mem, b, X, v)
      BY <3>1, <3>3, ValueRead
    <3>5. QED
      BY <3>1, <3>2, <3>4 DEF Reads
  <2> HIDE DEF f, length
  <2>4. QED
    BY <1>2, <2>2, <2>3
<1>5. CASE Lacks(h, 76) /\ ~HasLine(h, 76, Digits(B))
  <2>1. f = NotFound(b)
    BY <1>5, ValueMissing
  <2>2. f.found.len = 0
    BY <2>1, NotFoundIs, VoidIs
  <2>3. ~(B > 0)
    BY <1>5, LengthNamed
  <2> HIDE DEF f, length
  <2>4. QED
    BY <1>2, <2>2, <2>3
<1>6. QED
  BY <1>4, <1>5, LengthNamed
-----------------------------------------------------------------------------
(* Where the parts of a request are found *)

AddrPart(L) == [at |-> 3, len |-> L]

LEMMA AddrPartIs ==
  ASSUME NEW L \in Nat
  PROVE  AddrPart(L) \in Strings /\ AddrPart(L).at = 3 /\ AddrPart(L).len = L
BY DEF AddrPart, Strings

\* A space stands after k characters that are none.
Spaced(mem, in, k) ==
  /\ in \in Strings /\ k \in Nat /\ k + 1 <= in.len
  /\ \A i \in 0..(k - 1) : mem[in.at + i] # 32
  /\ mem[in.at + k] = 32

LEMMA SpaceFound ==
  ASSUME NEW mem, NEW in, NEW k, Spaced(mem, in, k)
  PROVE  Find(mem, in, <<Space>>) = FoundAfter(in, k, 1)
<1> USE DEF Spaced
<1> DEFINE what == <<Space>>
<1>1. Len(what) = 1 /\ what[1] = 32
  BY DEF Space
<1> HIDE DEF what
<1>2. in.at \in Nat /\ in.len \in Nat
  BY DEF Strings
<1>3. PICK m \in Nat : m = 1 /\ m = Len(what)
  BY <1>1
<1>4. \A j \in 1..m : mem[in.at + k + j - 1] = what[j]
  <2> SUFFICES ASSUME NEW j \in 1..m PROVE mem[in.at + k + j - 1] = what[j]
    OBVIOUS
  <2>1. j = 1 /\ in.at + k + j - 1 = in.at + k
    BY <1>2, <1>3
  <2>2. QED
    BY <1>1, <2>1
<1>5. Comes(mem, in, what, k, m)
  BY <1>1, <1>2, <1>3, <1>4 DEF Comes
<1>6. Find(mem, in, what) = FoundAfter(in, k, m)
  BY <1>5, FindsAfter
<1>7. QED
  BY <1>3, <1>6 DEF what

LEMMA AddressFound ==
  ASSUME NEW mem, NEW h, NEW b, Stands(mem, h, b), NEW a, a \in Addressed, Starts(h, a)
  PROVE  Find(mem, Find(mem, b, <<Space>>).after, <<Space>>).before = AddrPart(Len(a))
<1> DEFINE H == Len(h)
           L == Len(a)
<1>1. /\ h \in Seq(Nat) /\ b \in Strings /\ b.at = 1 /\ b.len = H
      /\ \A i \in 1..H : mem[i] = h[i]
  BY DEF Stands
<1>2. /\ L \in Nat /\ 4 + L <= H /\ h[1] = 80 /\ h[2] = 32 /\ h[3 + L] = 32
      /\ \A i \in 1..L : h[2 + i] = a[i]
  BY DEF Starts
<1>3. \A i \in 1..L : a[i] # 32
  BY AddressIs
<1>4. H \in Nat
  BY <1>1, LenProperties
<1> HIDE DEF H, L
<1>5. PICK one \in Nat : one = 1
  OBVIOUS
<1>6. Find(mem, b, <<Space>>) = FoundAfter(b, one, 1)
  <2>1. 1 \in 1..H /\ 2 \in 1..H
    BY <1>2, <1>4
  <2>2. mem[1] # 32 /\ mem[2] = 32
    BY <1>1, <1>2, <2>1
  <2>3. \A i \in 0..(one - 1) : mem[b.at + i] # 32
    <3>1. \A i \in 0..(one - 1) : b.at + i = 1
      BY <1>1, <1>5
    <3>2. QED
      BY <2>2, <3>1
  <2>4. b.at + one = 2 /\ one + 1 <= b.len
    BY <1>1, <1>2, <1>4, <1>5
  <2>5. mem[b.at + one] = 32
    BY <2>2, <2>4
  <2>6. Spaced(mem, b, one)
    BY <1>1, <2>3, <2>4, <2>5 DEF Spaced
  <2>7. QED
    BY <2>6, SpaceFound
<1>7. PICK c : c = FoundAfter(b, one, 1).after /\ c \in Strings /\ c.at = 3 /\ c.len = H - 2
  <2>1. FoundAfter(b, one, 1).after = [at |-> 3, len |-> H - 2]
    BY <1>1, <1>4, <1>5 DEF FoundAfter
  <2>2. H - 2 \in Nat
    BY <1>2, <1>4
  <2>3. QED
    BY <2>1, <2>2 DEF Strings
<1>8. Find(mem, c, <<Space>>) = FoundAfter(c, L, 1)
  <2>1. \A i \in 0..(L - 1) : mem[c.at + i] # 32
    <3> SUFFICES ASSUME NEW i \in 0..(L - 1) PROVE mem[c.at + i] # 32
      OBVIOUS
    <3>1. PICK j \in 1..L : j = i + 1
      BY <1>2
    <3>2. c.at + i = 2 + j /\ 2 + j \in 1..H
      BY <1>2, <1>4, <1>7, <3>1
    <3>3. mem[2 + j] = a[j]
      BY <1>1, <1>2, <3>2
    <3>4. QED
      BY <1>3, <3>2, <3>3 DEF L
  <2>2. c.at + L = 3 + L /\ 3 + L \in 1..H /\ L + 1 <= c.len
    BY <1>2, <1>4, <1>7
  <2>3. mem[c.at + L] = 32
    BY <1>1, <1>2, <2>2
  <2>4. Spaced(mem, c, L)
    BY <1>2, <1>7, <2>1, <2>2, <2>3 DEF Spaced
  <2>5. QED
    BY <2>4, SpaceFound
<1>9. FoundAfter(c, L, 1).before = AddrPart(L)
  BY <1>7 DEF FoundAfter, AddrPart
<1>10. QED
  BY <1>6, <1>7, <1>8, <1>9 DEF L

NotWhole == [header |-> Void, payload |-> Void, addr |-> Void]

\* A request that has not come whole is seen not to be.
LEMMA ParsedShort ==
  ASSUME NEW m, NEW h, NEW H, NEW B, Request(m, h, H, B),
         NEW mem, NEW n, Came(mem, n, Rendered(m)), n < H + 4 + B
  PROVE  ParseRequest(mem) = NotWhole
<1> DEFINE r == Rendered(m)
           f == Find(mem, All(mem), HeaderEnd)
<1>1. Sent(r, h, H, m.body, B) /\ Lined(h) /\ H > 0 /\ H \in Nat /\ B \in Nat /\ n \in Nat
  BY DEF Request, Came
<1> HIDE DEF r
<1>2. /\ n < H + 4 => f = NotFound(All(mem))
      /\ n >= H + 4 =>
           /\ f.before = HeaderPart(H) /\ f.found.len = 4 /\ f.after = BodyPart(H, n)
           /\ Stands(mem, h, HeaderPart(H))
  <2>1. Parted(Find(mem, All(mem), HeaderEnd), mem, n, h, H)
    BY <1>1, PartsFound DEF r
  <2>2. QED
    BY <2>1 DEF Parted
<1>3. f.found.len = 0 \/ ~Whole(mem, f.before, f.after) => ParseRequest(mem) = NotWhole
  BY DEF ParseRequest, NotWhole
<1> HIDE DEF f
<1>4. CASE n < H + 4
  BY <1>2, <1>3, <1>4, NotFoundIs, VoidIs
<1>5. CASE n >= H + 4
  <2>1. BodyPart(H, n).len = n - (H + 4)
    BY <1>1, PartsAre
  <2>2. B > 0 /\ BodyPart(H, n).len # B
    BY <1>1, <1>5, <2>1
  <2>3. ~Whole(mem, HeaderPart(H), BodyPart(H, n))
    BY <1>2, <1>5, <2>2, WholeIs
  <2>4. QED
    BY <1>2, <1>3, <1>5, <2>3
<1>6. QED
  BY <1>1, <1>4, <1>5

\* And one that has is cut into its parts.
LEMMA ParsedWhole ==
  ASSUME NEW m, NEW h, NEW H, NEW B, Request(m, h, H, B),
         NEW mem, NEW n, Came(mem, n, Rendered(m)), n = H + 4 + B
  PROVE  /\ ParseRequest(mem) = [header |-> HeaderPart(H), payload |-> BodyPart(H, n),
                                 addr |-> AddrPart(Len(m.addr))]
         /\ Stands(mem, h, HeaderPart(H))
<1> DEFINE r == Rendered(m)
           f == Find(mem, All(mem), HeaderEnd)
           method == Find(mem, f.before, <<Space>>)
<1>1. Sent(r, h, H, m.body, B) /\ Lined(h) /\ H > 0 /\ H \in Nat /\ B \in Nat /\ n \in Nat
  BY DEF Request, Came
<1> HIDE DEF r
<1>2. /\ f.before = HeaderPart(H) /\ f.found.len = 4 /\ f.after = BodyPart(H, n)
      /\ Stands(mem, h, HeaderPart(H))
  <2>1. Parted(Find(mem, All(mem), HeaderEnd), mem, n, h, H)
    BY <1>1, PartsFound DEF r
  <2>2. n >= H + 4
    BY <1>1
  <2>3. QED
    BY <2>1, <2>2 DEF Parted
<1>3. BodyPart(H, n).len = B
  BY <1>1, PartsAre
<1>4. Whole(mem, HeaderPart(H), BodyPart(H, n))
  BY <1>2, <1>3, WholeIs
<1>5. Find(mem, Find(mem, HeaderPart(H), <<Space>>).after, <<Space>>).before
        = AddrPart(Len(m.addr))
  <2>1. m.addr \in Addressed /\ Starts(h, m.addr)
    BY DEF Request, Proper
  <2>2. QED
    BY <1>2, <2>1, AddressFound
<1>6. f.found.len # 0 /\ Whole(mem, f.before, f.after) =>
        ParseRequest(mem) = [header |-> f.before, payload |-> f.after,
                             addr |-> Find(mem, method.after, <<Space>>).before]
  BY DEF ParseRequest
<1> HIDE DEF f
<1>7. QED
  BY <1>2, <1>4, <1>5, <1>6
-----------------------------------------------------------------------------
(* The handler *)

\* The text in memory that a string is.
LEMMA CharsAre ==
  ASSUME NEW mem, NEW b, NEW v, v \in Seq(Nat), b.at \in Nat, b.len = Len(v),
         \A i \in 1..Len(v) : mem[b.at + i - 1] = v[i]
  PROVE  Chars(mem, b) = v
<1> DEFINE n == Len(v)
           s == [i \in 1..n |-> mem[b.at + i - 1]]
<1>1. Chars(mem, b) = s
  BY DEF Chars
<1>2. n \in Nat /\ v = [i \in 1..n |-> v[i]]
  BY SeqDef
<1>3. s = [i \in 1..n |-> v[i]]
  OBVIOUS
<1> HIDE DEF s, n
<1>4. QED
  BY <1>1, <1>2, <1>3

LEMMA CallbacksAre ==
  /\ Len(Callbacks) = 7
  /\ Callbacks[1].addr = <<47>>
  /\ Callbacks[2].addr = <<47, 97, 110>>
  /\ Callbacks[3].addr = <<47, 97, 98, 47>>
  /\ Callbacks[4].addr = <<47, 97, 98, 115>>
  /\ Callbacks[5].addr = <<47, 97, 102>>
  /\ Callbacks[6].addr = <<47, 97, 117>>
  /\ Callbacks[7].addr = <<47, 97, 108>>
  /\ Callbacks[1].fun = "root" /\ Callbacks[2].fun = "newbranch"
  /\ Callbacks[3].fun = "branch" /\ Callbacks[4].fun = "branches"
  /\ Callbacks[5].fun = "feed" /\ Callbacks[6].fun = "user"
  /\ Callbacks[7].fun = "login"
BY DEF Callbacks

\* The address of a handler: K characters, no space, and a third.
Entry(c, K) ==
  /\ c \in Seq(Nat) /\ K = Len(c) /\ K \in {1, 3, 4}
  /\ \A i \in 1..K : c[i] # 32

LEMMA EntriesAre ==
  /\ \A i \in 1..7 : \E K : Entry(Callbacks[i].addr, K) /\ (K = 1 <=> i = 1)
  /\ Callbacks[2].addr[3] = 110
  /\ Callbacks[3].addr[3] = 98 /\ Callbacks[3].addr[4] = 47
  /\ Callbacks[4].addr[3] = 98 /\ Callbacks[4].addr[4] = 115
  /\ Len(Callbacks[3].addr) = 4 /\ Len(Callbacks[4].addr) = 4
  /\ Callbacks[5].addr[3] = 102 /\ Callbacks[6].addr[3] = 117
  /\ Callbacks[7].addr[3] = 108
<1>1. Entry(<<47>>, 1)
  BY DEF Entry
<1>2. Entry(<<47, 97, 110>>, 3) /\ Entry(<<47, 97, 102>>, 3)
  BY DEF Entry
<1>3. Entry(<<47, 97, 117>>, 3) /\ Entry(<<47, 97, 108>>, 3)
  BY DEF Entry
<1>4. Entry(<<47, 97, 98, 47>>, 4) /\ Entry(<<47, 97, 98, 115>>, 4)
  BY DEF Entry
<1>5. /\ Entry(Callbacks[1].addr, 1) /\ Entry(Callbacks[2].addr, 3)
      /\ Entry(Callbacks[3].addr, 4) /\ Entry(Callbacks[4].addr, 4)
      /\ Entry(Callbacks[5].addr, 3) /\ Entry(Callbacks[6].addr, 3)
      /\ Entry(Callbacks[7].addr, 3)
  BY <1>1, <1>2, <1>3, <1>4, CallbacksAre
<1>6. \A i \in 1..7 : i \in {1, 2, 3, 4, 5, 6, 7}
  OBVIOUS
<1>7. QED
  BY <1>5, <1>6, CallbacksAre

\* An address as it stands in a request, with the space after it.
Stood(mem, a, L) ==
  /\ a \in Seq(Nat) /\ L \in Nat /\ L = Len(a) /\ L > 0
  /\ \A i \in 1..L : mem[2 + i] = a[i]
  /\ mem[3 + L] = 32

\* The characters compared are those of the address, or the space is one.
LEMMA BeginningIs ==
  ASSUME NEW mem, NEW a, NEW L, Stood(mem, a, L), NEW c, NEW K, Entry(c, K)
  PROVE  Chars(mem, [at |-> 3, len |-> K]) = c <=> Begins(a, c)
<1>1. /\ a \in Seq(Nat) /\ L \in Nat /\ L = Len(a)
      /\ \A i \in 1..L : mem[2 + i] = a[i]
      /\ mem[3 + L] = 32
  BY DEF Stood
<1>2. c \in Seq(Nat) /\ K = Len(c) /\ K \in Nat /\ \A i \in 1..K : c[i] # 32
  BY DEF Entry
<1> DEFINE b == [at |-> 3, len |-> K]
<1>3. b.at = 3 /\ b.len = K
  OBVIOUS
<1>4. Chars(mem, b) = [i \in 1..K |-> mem[3 + i - 1]]
  BY DEF Chars
<1>5. \A i \in 1..K : 3 + i - 1 = 2 + i
  BY <1>2
<1>6. \A i \in 1..K : Chars(mem, b)[i] = mem[2 + i]
  BY <1>4, <1>5
<1> HIDE DEF b
<1>7. ASSUME Chars(mem, b) = c
      PROVE  Begins(a, c)
  <2>1. K <= L
    <3> SUFFICES ASSUME K > L PROVE FALSE
      BY <1>1, <1>2
    <3>1. L + 1 \in 1..K /\ 2 + (L + 1) = 3 + L
      BY <1>1, <1>2
    <3>2. c[L + 1] = mem[2 + (L + 1)]
      BY <1>6, <1>7, <3>1
    <3>3. QED
      BY <1>1, <1>2, <3>1, <3>2
  <2>2. \A i \in 1..K : c[i] = a[i]
    <3> SUFFICES ASSUME NEW i \in 1..K PROVE c[i] = a[i]
      OBVIOUS
    <3>1. i \in 1..L
      BY <1>1, <1>2, <2>1
    <3>2. QED
      BY <1>1, <1>6, <1>7, <3>1
  <2>3. SubSeq(a, 1, K) = [i \in 1..K |-> a[i]]
    BY <1>1, <1>2, <2>1
  <2>4. c = [i \in 1..K |-> c[i]]
    BY <1>2, SeqDef
  <2>5. SubSeq(a, 1, K) = c
    BY <2>2, <2>3, <2>4
  <2>6. QED
    BY <1>1, <1>2, <2>1, <2>5 DEF Begins
<1>8. ASSUME Begins(a, c)
      PROVE  Chars(mem, b) = c
  <2>1. K <= L /\ SubSeq(a, 1, K) = c
    BY <1>1, <1>2, <1>8 DEF Begins
  <2>2. \A i \in 1..K : SubSeq(a, 1, K)[i] = a[i]
    BY <1>1, <1>2, <2>1
  <2>3. \A i \in 1..K : mem[b.at + i - 1] = c[i]
    <3> SUFFICES ASSUME NEW i \in 1..K PROVE mem[b.at + i - 1] = c[i]
      OBVIOUS
    <3>1. i \in 1..L /\ b.at + i - 1 = 2 + i
      BY <1>1, <1>2, <1>3, <2>1
    <3>2. QED
      BY <1>1, <2>1, <2>2, <3>1
  <2>4. b.at \in Nat /\ b.len = Len(c)
    BY <1>2, <1>3
  <2>5. QED
    BY <1>2, <2>3, <2>4, CharsAre
<1>9. QED
  BY <1>7, <1>8 DEF b

LEMMA HitIs ==
  ASSUME NEW mem, NEW a, NEW L, Stood(mem, a, L),
         NEW callback, NEW K, Entry(callback.addr, K)
  PROVE  Hit(mem, AddrPart(L), callback) <=>
           \/ a = callback.addr
           \/ K > 1 /\ Begins(a, callback.addr)
<1>1. a \in Seq(Nat) /\ L \in Nat /\ L = Len(a) /\ L > 0 /\ \A i \in 1..L : mem[2 + i] = a[i]
  BY DEF Stood
<1>2. PICK c : c = callback.addr /\ Entry(c, K)
  OBVIOUS
<1>3. K = Len(c) /\ K \in Nat /\ K > 0 /\ K <= 4
  <2>1. K = Len(c) /\ K \in {1, 3, 4}
    BY <1>2 DEF Entry
  <2>2. QED
    BY <2>1
<1>4. AddrPart(L).at = 3 /\ AddrPart(L).len = L
  BY <1>1, AddrPartIs
<1>5. Chars(mem, AddrPart(L)) = a
  <2>1. \A i \in 1..L : 3 + i - 1 = 2 + i
    BY <1>1
  <2>2. PICK b : b = AddrPart(L)
    OBVIOUS
  <2>3. b.at \in Nat /\ b.len = Len(a)
    BY <1>1, <1>4, <2>2
  <2>4. \A i \in 1..Len(a) : mem[b.at + i - 1] = a[i]
    BY <1>1, <1>4, <2>1, <2>2
  <2>5. Chars(mem, b) = a
    BY <1>1, <2>3, <2>4, CharsAre
  <2>6. QED
    BY <2>2, <2>5
<1>6. (K - 0) % Int64 = K
  <2>1. K < Int64 /\ Int64 \in Nat /\ K - 0 = K
    BY <1>3, HalfIs, HalfIntIs, RequestAssumption DEF HalfInt
  <2>2. QED
    BY <1>3, <2>1, RemainderSmall
<1>7. Slice(AddrPart(L), 0, K) = [at |-> 3, len |-> K]
  <2>1. ~(0 >= AddrPart(L).len) /\ AddrPart(L).at + 0 = 3 /\ K > 0
    BY <1>1, <1>4, <1>3
  <2>2. QED
    BY <1>6, <2>1 DEF Slice
<1>8. Chars(mem, Slice(AddrPart(L), 0, K)) = c <=> Begins(a, c)
  BY <1>2, <1>7, BeginningIs
<1>9. QED
  BY <1>2, <1>5, <1>8, <1>3 DEF Hit, Same
\* The handlers that an address asks for.
Wants(a) ==
  {i \in 1..Len(Callbacks) :
     \/ a = Callbacks[i].addr
     \/ i > 1 /\ Begins(a, Callbacks[i].addr)}

LEMMA BeginsWith ==
  ASSUME NEW a, a \in Seq(Nat), NEW c, NEW K, Entry(c, K)
  PROVE  /\ a = c => Begins(a, c)
         /\ Begins(a, c) => K <= Len(a) /\ \A k \in 1..K : a[k] = c[k]
<1>1. c \in Seq(Nat) /\ K = Len(c) /\ K \in Nat
  BY DEF Entry
<1>2. ASSUME a = c PROVE Begins(a, c)
  <2>1. SubSeq(c, 1, Len(c)) = c
    BY <1>1, SubSeqFull
  <2>2. QED
    BY <1>1, <1>2, <2>1 DEF Begins
<1>3. ASSUME Begins(a, c) PROVE K <= Len(a) /\ \A k \in 1..K : a[k] = c[k]
  <2>1. K <= Len(a) /\ SubSeq(a, 1, K) = c
    BY <1>1, <1>3 DEF Begins
  <2>2. \A k \in 1..K : SubSeq(a, 1, K)[k] = a[k]
    BY <1>1, <2>1
  <2>3. QED
    BY <2>1, <2>2
<1>4. QED
  BY <1>2, <1>3

\* The third character of an address tells the handler, but for "branch".
Third(k, x) ==
  \/ k = 2 /\ x = 110
  \/ k \in {3, 4} /\ x = 98
  \/ k = 5 /\ x = 102
  \/ k = 6 /\ x = 117
  \/ k = 7 /\ x = 108

\* No address asks for two.
LEMMA AtMostOne ==
  ASSUME NEW a, a \in Seq(Nat), NEW i \in Wants(a), NEW j \in Wants(a)
  PROVE  i = j
<1>1. ASSUME NEW k \in Wants(a)
      PROVE  /\ k \in 1..7
             /\ k = 1 => Len(a) = 1
             /\ k > 1 => Len(a) >= 3 /\ a[3] = Callbacks[k].addr[3]
             /\ k \in {3, 4} => a[4] = Callbacks[k].addr[4]
  <2>1. k \in 1..7 /\ (a = Callbacks[k].addr \/ (k > 1 /\ Begins(a, Callbacks[k].addr)))
    BY CallbacksAre DEF Wants
  <2>2. PICK K : Entry(Callbacks[k].addr, K) /\ (K = 1 <=> k = 1)
    BY <2>1, EntriesAre
  <2>3. PICK c : c = Callbacks[k].addr
    OBVIOUS
  <2>4. Entry(c, K) /\ (a = c \/ Begins(a, c))
    BY <2>1, <2>2, <2>3
  <2>5. K <= Len(a) /\ \A x \in 1..K : a[x] = c[x]
    BY <2>4, BeginsWith
  <2>6. K \in {1, 3, 4} /\ K = Len(c)
    BY <2>4 DEF Entry
  <2>7. k = 1 => Len(a) = 1
    <3>1. k = 1 => ~(k > 1)
      OBVIOUS
    <3>2. k = 1 => a = Callbacks[1].addr
      BY <2>1, <3>1
    <3>3. k = 1 => a = <<47>>
      BY <3>2, CallbacksAre
    <3>4. QED
      BY <3>3
  <2>8. k > 1 => Len(a) >= 3 /\ a[3] = c[3]
    <3>1. Len(a) \in Nat
      BY LenProperties
    <3>2. k > 1 => K \in {3, 4}
      BY <2>1, <2>2, <2>6
    <3>3. K \in {3, 4} => 3 \in 1..K /\ Len(a) >= 3
      BY <2>5, <3>1
    <3>4. QED
      BY <2>5, <3>2, <3>3
  <2>9. k \in {3, 4} => a[4] = c[4]
    <3>1. k \in {3, 4} => Len(c) = 4
      BY <2>3, EntriesAre
    <3>2. K = 4 => 4 \in 1..K
      OBVIOUS
    <3>3. QED
      BY <2>5, <2>6, <3>1, <3>2
  <2>10. QED
    BY <2>1, <2>3, <2>7, <2>8, <2>9
<1>2. /\ i \in 1..7 /\ j \in 1..7
      /\ i = 1 => Len(a) = 1
      /\ j = 1 => Len(a) = 1
      /\ i > 1 => Len(a) >= 3 /\ a[3] = Callbacks[i].addr[3]
      /\ j > 1 => Len(a) >= 3 /\ a[3] = Callbacks[j].addr[3]
      /\ i \in {3, 4} => a[4] = Callbacks[i].addr[4]
      /\ j \in {3, 4} => a[4] = Callbacks[j].addr[4]
  BY <1>1
<1>3. i = 1 \/ j = 1 => i = j
  <2>1. Len(a) \in Nat
    BY LenProperties
  <2>2. QED
    BY <1>2, <2>1
<1>4. \A k \in 1..7 : k > 1 => Third(k, Callbacks[k].addr[3])
  <2>1. \A k \in 1..7 : k > 1 => k \in {2, 3, 4, 5, 6, 7}
    OBVIOUS
  <2>2. /\ Third(2, Callbacks[2].addr[3]) /\ Third(3, Callbacks[3].addr[3])
        /\ Third(4, Callbacks[4].addr[3]) /\ Third(5, Callbacks[5].addr[3])
        /\ Third(6, Callbacks[6].addr[3]) /\ Third(7, Callbacks[7].addr[3])
    BY EntriesAre DEF Third
  <2>3. QED
    BY <2>1, <2>2
<1>5. i > 1 /\ j > 1 => Third(i, a[3]) /\ Third(j, a[3])
  BY <1>2, <1>4
<1>6. i > 1 /\ j > 1 => i = j \/ (i = 3 /\ j = 4) \/ (i = 4 /\ j = 3)
  BY <1>5 DEF Third
<1>7. ~(i = 3 /\ j = 4) /\ ~(i = 4 /\ j = 3)
  <2>1. Callbacks[3].addr[4] = 47 /\ Callbacks[4].addr[4] = 115
    BY EntriesAre
  <2>2. ~(i = 3 /\ j = 4)
    BY <1>2, <2>1
  <2>3. ~(i = 4 /\ j = 3)
    BY <1>2, <2>1
  <2>4. QED
    BY <2>2, <2>3
<1>8. i > 1 \/ i = 1
  BY <1>2
<1>9. j > 1 \/ j = 1
  BY <1>2
<1>10. QED
  BY <1>3, <1>6, <1>7, <1>8, <1>9

Upgrade(m) == \E i \in 1..Len(m.headers) : m.headers[i] = "version"

Handlers ==
  {"websocket", "not_found",
   "root", "newbranch", "branch", "branches", "feed", "user", "login"}

\* A request is dispatched right.
Dispatched(m, fun) ==
  /\ fun \in Handlers
  /\ {fun} = IF Upgrade(m) THEN {"websocket"}
             ELSE IF Wants(m.addr) = {} THEN {"not_found"}
             ELSE {Callbacks[i].fun : i \in Wants(m.addr)}

LEMMA MinOfOne ==
  ASSUME NEW i \in Int
  PROVE  Min({i}) = i
<1>1. \E x \in {i} : \A y \in {i} : x <= y
  OBVIOUS
<1>2. QED
  BY <1>1 DEF Min

\* The version of a web socket is read as 13 when there is one.
LEMMA VersionIs ==
  ASSUME NEW m, NEW h, NEW H, NEW B, Request(m, h, H, B),
         NEW mem, NEW b, Stands(mem, h, b)
  PROVE  IntOf(mem, ExtractParam(mem, b, WebSocketVersion)) = 13 <=> Upgrade(m)
<1>1. WebSocketVersion = <<86>>
  BY NamesAre
<1>2. Sought(h, 86, Digits(13), Upgrade(m))
  <2>1. Sought(h, Letter("version"), Value(m, "version"), Named(m, Len(m.headers), "version"))
    BY DEF Request
  <2>2. Value(m, "version") = Digits(13)
    BY DEF Value
  <2>3. Named(m, Len(m.headers), "version") <=> Upgrade(m)
    BY DEF Named, Upgrade
  <2>4. Named(m, Len(m.headers), "version") = Upgrade(m)
    BY <2>3 DEF Named, Upgrade
  <2>5. QED
    BY <2>1, <2>2, <2>4, LetterIs
<1>3. PICK n \in Nat : n = 13
  OBVIOUS
<1>4. /\ ToNumber(Digits(n)) = n /\ Truncated(n) = n
      /\ Digits(n) \in Seq(Plain) /\ Digits(n) # << >>
  <2>1. n < HalfInt
    BY <1>3, RequestAssumption DEF HalfInt
  <2>2. QED
    BY <2>1, LengthReadBack, DigitsArePlain
<1>5. PICK X : X = 86
  OBVIOUS
<1>6. CASE Upgrade(m)
  <2>1. PICK v : v = Digits(n) /\ v \in Seq(Plain) /\ v # << >>
    BY <1>4
  <2>2. HasLine(h, X, v)
    BY <1>2, <1>3, <1>5, <1>6, <2>1 DEF Sought
  <2>3. Reads(mem, b, X, v)
    BY <2>1, <2>2, ValueRead
  <2>4. Number(mem, ExtractParam(mem, b, <<X>>)) = ToNumber(v)
    BY <2>3 DEF Reads
  <2>5. QED
    BY <1>1, <1>3, <1>4, <1>5, <1>6, <2>1, <2>4 DEF IntOf
<1>7. CASE ~Upgrade(m)
  <2>1. Lacks(h, X)
    BY <1>2, <1>5, <1>7 DEF Sought
  <2>2. ExtractParam(mem, b, <<X>>) = Void /\ Number(mem, Void) = 0
    BY <2>1, ValueMissing
  <2>3. QED
    BY <1>1, <1>5, <1>7, <2>2, LengthReadBack DEF IntOf
<1>8. QED
  BY <1>6, <1>7

LEMMA DispatchIs ==
  ASSUME NEW m, NEW h, NEW H, NEW B, Request(m, h, H, B),
         NEW mem, Stands(mem, h, HeaderPart(H)),
         NEW r, r.header = HeaderPart(H), r.addr = AddrPart(Len(m.addr))
  PROVE  Dispatched(m, HandlerOf(mem, r))
<1> DEFINE a == m.addr
           L == Len(a)
           hits == {i \in 1..Len(Callbacks) : Hit(mem, r.addr, Callbacks[i])}
           number == IntOf(mem, ExtractParam(mem, r.header, WebSocketVersion))
<1>1. Starts(h, a) /\ a \in Addressed /\ a # << >> /\ h \in Seq(Nat)
  BY DEF Request, Proper
<1>2. a \in Seq(Nat) /\ L \in Nat /\ L > 0
  BY <1>1, AddressIs
<1> HIDE DEF a, L
<1>3. Stood(mem, a, L)
  <2>1. \A i \in 1..Len(h) : mem[i] = h[i]
    BY DEF Stands
  <2>2. /\ 4 + L <= Len(h) /\ h[3 + L] = 32
        /\ \A i \in 1..L : h[2 + i] = a[i]
    BY <1>1 DEF Starts, L
  <2>3. Len(h) \in Nat
    BY <1>1, LenProperties
  <2>4. 3 + L \in 1..Len(h) /\ \A i \in 1..L : 2 + i \in 1..Len(h)
    BY <1>2, <2>2, <2>3
  <2>5. mem[3 + L] = 32 /\ \A i \in 1..L : mem[2 + i] = a[i]
    BY <2>1, <2>2, <2>4
  <2>6. QED
    BY <1>2, <2>5 DEF Stood, L
<1>4. r.addr = AddrPart(L)
  BY DEF L, a
<1>5. \A i \in 1..7 : Hit(mem, r.addr, Callbacks[i]) <=>
                        (a = Callbacks[i].addr \/ (i > 1 /\ Begins(a, Callbacks[i].addr)))
  <2> SUFFICES ASSUME NEW i \in 1..7
               PROVE  Hit(mem, r.addr, Callbacks[i]) <=>
                        (a = Callbacks[i].addr \/ (i > 1 /\ Begins(a, Callbacks[i].addr)))
    OBVIOUS
  <2>1. PICK K : Entry(Callbacks[i].addr, K) /\ (K = 1 <=> i = 1)
    BY EntriesAre
  <2>2. PICK callback : callback = Callbacks[i]
    OBVIOUS
  <2>3. Entry(callback.addr, K)
    BY <2>1, <2>2
  <2>4. Hit(mem, AddrPart(L), callback) <=>
          (a = callback.addr \/ (K > 1 /\ Begins(a, callback.addr)))
    BY <1>3, <2>3, HitIs
  <2>5. K \in {1, 3, 4}
    BY <2>3 DEF Entry
  <2>6. K > 1 <=> i > 1
    BY <2>1, <2>5
  <2>7. QED
    BY <1>4, <2>2, <2>4, <2>6
<1>6. hits = Wants(a)
  BY <1>5, CallbacksAre DEF Wants
<1>7. number = 13 <=> Upgrade(m)
  BY VersionIs
<1>8. HandlerOf(mem, r) = CASE number = 13 -> "websocket"
                            [] number # 13 /\ hits = {} -> "not_found"
                            [] OTHER -> Callbacks[Min(hits)].fun
  BY DEF HandlerOf
<1> HIDE DEF hits, number
<1>9. CASE Upgrade(m)
  BY <1>7, <1>8, <1>9 DEF Dispatched, Handlers
<1>10. CASE ~Upgrade(m) /\ hits = {}
  BY <1>6, <1>7, <1>8, <1>10 DEF Dispatched, Handlers, a
<1>11. CASE ~Upgrade(m) /\ hits # {}
  <2>1. PICK i : i \in Wants(a)
    BY <1>6, <1>11
  <2>2. i \in 1..7
    BY <2>1, CallbacksAre DEF Wants
  <2>3. \A j \in Wants(a) : j = i
    BY <1>2, <2>1, AtMostOne
  <2>4. Wants(a) = {i}
    BY <2>1, <2>3
  <2>5. Min(hits) = i
    BY <1>6, <2>2, <2>4, MinOfOne
  <2>6. HandlerOf(mem, r) = Callbacks[i].fun
    BY <1>7, <1>8, <1>11, <2>5
  <2>7. {Callbacks[j].fun : j \in Wants(a)} = {Callbacks[i].fun}
    BY <2>4
  <2>8. Callbacks[i].fun \in Handlers
    <3>1. i \in {1, 2, 3, 4, 5, 6, 7}
      BY <2>2
    <3>2. QED
      BY <3>1, CallbacksAre DEF Handlers
  <2>9. QED
    BY <1>6, <1>11, <2>6, <2>7, <2>8 DEF Dispatched, a
<1>12. QED
  BY <1>9, <1>10, <1>11
-----------------------------------------------------------------------------
(* The session *)

\* A cookie of n figures.
Cookies(j, f, n) ==
  /\ f \in Seq(Figures) /\ f \in Seq(Nat) /\ n \in Nat /\ n = Len(f)
  /\ j \in Seq(Nat) /\ Len(j) = 2 + n /\ j[1] = 83 /\ j[2] = 61
  /\ \A i \in 1..n : j[2 + i] = f[i]

LEMMA CookieParts ==
  ASSUME NEW f, f \in Seq(Figures), NEW j, j = SessionIs \o f
  PROVE  Cookies(j, f, Len(f)) /\ SubSeq(j, Len(SessionIs) + 1, Len(j)) = f
<1> DEFINE n == Len(f)
<1>1. f \in Seq(Nat) /\ n \in Nat
  BY FiguresArePlain, LenProperties
<1>2. PICK two \in Nat : two = Len(SessionIs) /\ two = 2
  BY SessionIsSeq
<1>3. Joint(j, SessionIs, f, two, n)
  BY <1>1, <1>2, SessionIsSeq, JointIs, ZenonT(60)
<1> HIDE DEF n
<1>4. /\ j \in Seq(Nat) /\ Len(j) = 2 + n /\ \A i \in 1..2 : j[i] = SessionIs[i]
      /\ \A i \in 1..n : j[2 + i] = f[i]
  BY <1>2, <1>3 DEF Joint
<1>5. j[1] = 83 /\ j[2] = 61
  <2>1. 1 \in 1..2 /\ 2 \in 1..2
    OBVIOUS
  <2>2. j[1] = SessionIs[1] /\ j[2] = SessionIs[2]
    BY <1>4, <2>1
  <2>3. QED
    BY <2>2, SessionIsSeq
<1>6. Cookies(j, f, n)
  BY <1>1, <1>4, <1>5 DEF Cookies, n
<1>7. SubSeq(j, 3, 2 + n) = f
  <2> DEFINE s == SubSeq(j, 3, 2 + n)
  <2>1. s \in Seq(Nat)
    <3>1. PICK m \in Int : m = 2 + n
      BY <1>1
    <3>2. PICK k \in Int : k = 3
      OBVIOUS
    <3>3. \A i \in k..m : i \in 1..Len(j)
      BY <1>1, <1>4, <3>1, <3>2
    <3>4. \A i \in k..m : j[i] \in Nat
      BY <1>4, <3>3, ElementOfSeq
    <3>5. SubSeq(j, k, m) \in Seq(Nat)
      BY <3>4, SubSeqProperties
    <3>6. QED
      BY <3>1, <3>2, <3>5
  <2>2. Len(s) = n
    BY <1>1, <1>4
  <2>3. \A i \in 1..n : s[i] = j[2 + i]
    BY <1>1, <1>4
  <2>4. \A i \in 1..n : s[i] = f[i]
    BY <1>4, <2>3
  <2> HIDE DEF s
  <2>5. s = [i \in 1..n |-> s[i]] /\ f = [i \in 1..n |-> f[i]]
    BY <1>1, <2>1, <2>2, SeqDef DEF n
  <2>6. s = f
    BY <2>4, <2>5
  <2>7. QED
    BY <2>6 DEF s
<1>8. QED
  BY <1>2, <1>4, <1>6, <1>7 DEF n

\* What comes after "session=", and has no semicolon, is the number.
LEMMA NumberInCookie ==
  ASSUME NEW mem, NEW c, c \in Strings, NEW j, NEW f, NEW n, Cookies(j, f, n),
         c.len = Len(j), Chars(mem, c) = j
  PROVE  Number(mem, Find(mem, Find(mem, c, SessionIs).after, <<Semicolon>>).before)
           = ToNumber(f)
<1>1. /\ f \in Seq(Nat) /\ n \in Nat /\ n = Len(f) /\ f \in Seq(Figures)
      /\ j \in Seq(Nat) /\ Len(j) = 2 + n /\ j[1] = 83 /\ j[2] = 61
      /\ \A i \in 1..n : j[2 + i] = f[i]
  BY DEF Cookies
<1>2. c.at \in Nat
  BY DEF Strings
<1>3. \A i \in 1..(2 + n) : mem[c.at + i - 1] = j[i]
  <2>1. j = [i \in 1..(2 + n) |-> mem[c.at + i - 1]]
    BY <1>1 DEF Chars
  <2>2. QED
    BY <2>1
<1>4. PICK two \in Nat : two = 2 /\ two = Len(SessionIs)
  BY SessionIsSeq
<1>5. PICK zero \in Nat : zero = 0
  OBVIOUS
<1>6. Find(mem, c, SessionIs) = FoundAfter(c, zero, two)
  <2>1. 1 \in 1..(2 + n) /\ 2 \in 1..(2 + n)
    BY <1>1
  <2>2. mem[c.at + 1 - 1] = 83 /\ mem[c.at + 2 - 1] = 61
    BY <1>1, <1>3, <2>1
  <2>3. \A i \in 1..two : mem[c.at + zero + i - 1] = SessionIs[i]
    <3> SUFFICES ASSUME NEW i \in 1..two PROVE mem[c.at + zero + i - 1] = SessionIs[i]
      OBVIOUS
    <3>1. (i = 1 \/ i = 2) /\ c.at + zero + i - 1 = c.at + i - 1
      BY <1>2, <1>4, <1>5
    <3>2. QED
      BY <2>2, <3>1, SessionIsSeq
  <2>4. zero + two <= c.len /\ two > 0 /\ \A i \in 0..(zero - 1) : FALSE
    BY <1>1, <1>4, <1>5
  <2>5. Comes(mem, c, SessionIs, zero, two)
    BY <1>4, <2>3, <2>4 DEF Comes
  <2>6. QED
    BY <2>5, FindsAfter
<1>7. PICK d : d = FoundAfter(c, zero, two).after /\ d \in Strings
               /\ d.at = c.at + 2 /\ d.len = n
  <2>1. c.at + zero + two = c.at + 2 /\ c.len - (zero + two) = n /\ c.at + 2 \in Nat
    BY <1>1, <1>2, <1>4, <1>5
  <2>2. FoundAfter(c, zero, two).after = [at |-> c.at + 2, len |-> n]
    BY <2>1 DEF FoundAfter
  <2>3. [at |-> c.at + 2, len |-> n] \in Strings
    BY <1>1, <2>1 DEF Strings
  <2>4. QED
    BY <2>2, <2>3
<1>8. \A i \in 1..n : mem[d.at + i - 1] = f[i]
  <2> SUFFICES ASSUME NEW i \in 1..n PROVE mem[d.at + i - 1] = f[i]
    OBVIOUS
  <2>1. d.at + i - 1 = c.at + (2 + i) - 1
    <3>1. PICK x \in Nat : x = c.at
      BY <1>2
    <3>2. i \in Nat
      BY <1>1
    <3>3. (x + 2) + i - 1 = x + (2 + i) - 1
      BY <3>2
    <3>4. QED
      BY <1>7, <3>1, <3>3
  <2>2. 2 + i \in 1..(2 + n)
    BY <1>1
  <2>3. mem[c.at + (2 + i) - 1] = j[2 + i]
    BY <1>3, <2>2
  <2>4. QED
    BY <1>1, <2>1, <2>3
<1>9. Find(mem, d, <<Semicolon>>) = NotFound(d)
  <2>1. \A i \in 0..(d.len - 1) : mem[d.at + i] # 59
    <3> SUFFICES ASSUME NEW i \in 0..(d.len - 1) PROVE mem[d.at + i] # 59
      OBVIOUS
    <3>1. PICK k \in 1..n : k = i + 1
      BY <1>1, <1>7
    <3>2. d.at + i = d.at + k - 1
      BY <1>2, <1>7, <3>1
    <3>3. mem[d.at + i] = f[k]
      BY <1>8, <3>2
    <3>4. f[k] \in Figures
      BY <1>1, ElementOfSeq
    <3>5. QED
      BY <3>3, <3>4, SMTT(30) DEF Figures, Minus, Zero
  <2> DEFINE what == <<Semicolon>>
  <2>2. PICK m \in Nat : m = Len(what) /\ m > 0 /\ what[1] = 59
    BY DEF Semicolon
  <2> HIDE DEF what
  <2>3. \A i \in 0..(d.len - 1) : mem[d.at + i] # what[1]
    BY <2>1, <2>2
  <2>4. Find(mem, d, what) = NotFound(d)
    BY <1>7, <2>2, <2>3, FindsNone
  <2>5. QED
    BY <2>4 DEF what
<1>10. Chars(mem, d) = f
  <2>1. d.at \in Nat /\ d.len = Len(f) /\ \A i \in 1..Len(f) : mem[d.at + i - 1] = f[i]
    BY <1>1, <1>2, <1>7, <1>8
  <2>2. QED
    BY <1>1, <2>1, CharsAre
<1>11. Number(mem, d) = ToNumber(f)
  <2>1. Numbers[f] = ToNumber(f)
    BY <1>1 DEF Numbers
  <2>2. QED
    BY <1>10, <2>1 DEF Number
<1>12. QED
  BY <1>6, <1>7, <1>9, <1>11, NotFoundIs

\* The session of the client, if it sends its cookie.
Own(m) ==
  IF (\E i \in 1..Len(m.headers) : m.headers[i] = "cookie") /\ jar # << >>
  THEN ToNumber(SubSeq(jar, Len(SessionIs) + 1, Len(jar))) ELSE 0

LEMMA SessionIsOwn ==
  ASSUME NEW m, NEW h, NEW H, NEW B, Request(m, h, H, B),
         NEW mem, NEW b, Stands(mem, h, b)
  PROVE  SessionOf(mem, b) = Own(m)
<1> DEFINE sent == (\E i \in 1..Len(m.headers) : m.headers[i] = "cookie") /\ jar # << >>
<1>1. Cookie = <<75>>
  BY NamesAre
<1>2. PICK X : X = 75
  OBVIOUS
<1>3. Sought(h, X, jar, Named(m, Len(m.headers), "cookie"))
  <2>1. Sought(h, Letter("cookie"), Value(m, "cookie"), Named(m, Len(m.headers), "cookie"))
    BY DEF Request
  <2>2. Value(m, "cookie") = jar
    BY DEF Value
  <2>3. QED
    BY <1>2, <2>1, <2>2, LetterIs
<1>4. Named(m, Len(m.headers), "cookie") <=> sent
  BY DEF Named
<1>5. CASE sent
  <2>1. PICK v : v = jar /\ v # << >> /\ Baked(v)
    BY <1>5 DEF Request
  <2>2. v \in Seq(Plain)
    BY <2>1, BakedIsPlain
  <2>3. HasLine(h, X, v)
    BY <1>3, <1>4, <1>5, <2>1 DEF Sought
  <2>4. Reads(mem, b, X, v)
    BY <2>1, <2>2, <2>3, ValueRead
  <2>5. PICK c : c = ExtractParam(mem, b, Cookie) /\ c \in Strings
                 /\ c.len = Len(v) /\ Chars(mem, c) = v
    BY <1>1, <1>2, <2>4 DEF Reads
  <2>6. PICK f : f \in Seq(Figures) /\ v = SessionIs \o f
    BY <2>1, TellingsAre DEF Baked
  <2>7. PICK n : n = Len(f) /\ Cookies(v, f, n) /\ SubSeq(v, Len(SessionIs) + 1, Len(v)) = f
    BY <2>6, CookieParts
  <2>8. Number(mem, Find(mem, Find(mem, c, SessionIs).after, <<Semicolon>>).before)
          = ToNumber(f)
    BY <2>5, <2>7, NumberInCookie
  <2>9. Own(m) = ToNumber(f)
    BY <1>5, <2>1, <2>7 DEF Own
  <2>10. SessionOf(mem, b)
           = Number(mem, Find(mem, Find(mem, c, SessionIs).after, <<Semicolon>>).before)
    BY <2>5 DEF SessionOf
  <2>11. QED
    BY <2>8, <2>9, <2>10
<1>6. CASE ~sent
  <2>1. Lacks(h, X)
    BY <1>3, <1>4, <1>6 DEF Sought
  <2>2. ExtractParam(mem, b, Cookie) = Void /\ Number(mem, Void) = 0
    BY <1>1, <1>2, <2>1, ValueMissing
  <2>3. Find(mem, Void, SessionIs).after = Void
    <3>1. PICK k \in Nat : k = Len(SessionIs) /\ k > 0
      BY SessionIsSeq
    <3>2. QED
      BY <3>1, NothingInVoid, NotFoundIs
  <2>4. Find(mem, Void, <<Semicolon>>).before = Void
    <3> DEFINE what == <<Semicolon>>
    <3>1. PICK k \in Nat : k = Len(what) /\ k > 0
      OBVIOUS
    <3> HIDE DEF what
    <3>2. Find(mem, Void, what).before = Void
      BY <3>1, NothingInVoid, NotFoundIs
    <3>3. QED
      BY <3>2 DEF what
  <2>5. SessionOf(mem, b) = 0
    BY <2>2, <2>3, <2>4 DEF SessionOf
  <2>6. Own(m) = 0
    BY <1>6 DEF Own
  <2>7. QED
    BY <2>5, <2>6
<1>7. QED
  BY <1>5, <1>6
-----------------------------------------------------------------------------
(* All that the server finds *)

\* What the server makes of the parts.
CrunchedFrom(u, mem, r) ==
  /\ u.whole <=> r.addr.len > 0
  /\ u.fun = HandlerOf(mem, r)
  /\ u.payload = Chars(mem, r.payload)
  /\ u.session = SessionOf(mem, r.header)

LEMMA CrunchedIs ==
  ASSUME NEW mem, mem \in Seq(Nat), NEW r, r = ParseRequest(mem)
  PROVE  CrunchedFrom(Crunched[mem], mem, r)
<1>1. PICK w, f, p, s : w = r.addr.len /\ f = HandlerOf(mem, r)
                        /\ p = Chars(mem, r.payload) /\ s = SessionOf(mem, r.header)
  OBVIOUS
<1>2. PICK u : u = Crunched[mem]
  OBVIOUS
<1>3. u = [whole |-> w > 0, fun |-> f, payload |-> p, session |-> s]
  BY <1>1, <1>2 DEF Crunched
<1>4. (u.whole <=> w > 0) /\ u.fun = f /\ u.payload = p /\ u.session = s
  BY <1>3
<1>5. QED
  BY <1>1, <1>2, <1>4 DEF CrunchedFrom

\* Less than the request that is sent is not a whole one.
LEMMA CrunchedShort ==
  ASSUME NEW m, Proper(m), Baked(jar), NEW mem, NEW n, Came(mem, n, Rendered(m)),
         n < Len(Rendered(m))
  PROVE  ~Crunched[mem].whole
<1>1. PICK h, H, B : Request(m, h, H, B)
  BY RequestIs
<1>2. Len(Rendered(m)) = H + 4 + B
  BY <1>1 DEF Request, Sent
<1>3. PICK r : r = ParseRequest(mem) /\ r = NotWhole
  BY <1>1, <1>2, ParsedShort
<1>4. ~(r.addr.len > 0)
  BY <1>3, VoidIs DEF NotWhole
<1>5. mem \in Seq(Nat)
  BY DEF Came
<1>6. CrunchedFrom(Crunched[mem], mem, r)
  BY <1>3, <1>5, CrunchedIs
<1>7. Crunched[mem].whole <=> r.addr.len > 0
  BY <1>6 DEF CrunchedFrom
<1>8. QED
  BY <1>4, <1>7

\* What the server finds in a request.
FoundIn(u, m) ==
  u.whole /\ u.payload = m.body /\ u.session = Own(m) /\ Dispatched(m, u.fun)

LEMMA CrunchedWhole ==
  ASSUME NEW m, Proper(m), Baked(jar), NEW mem, mem = Rendered(m)
  PROVE  FoundIn(Crunched[mem], m)
<1>1. PICK h, H, B : Request(m, h, H, B)
  BY RequestIs
<1>2. /\ mem \in Seq(Nat) /\ m.body \in Seq(Nat) /\ B = Len(m.body)
      /\ \A i \in 1..B : mem[H + 4 + i] = m.body[i]
  BY <1>1 DEF Request, Sent
<1>16. H \in Nat /\ B \in Nat /\ Len(mem) = H + 4 + B
  BY <1>1 DEF Request, Sent
<1>3. PICK n \in Nat : n = Len(mem) /\ n = H + 4 + B
  <2>1. PICK n : n = H + 4 + B
    OBVIOUS
  <2>2. n \in Nat
    BY <1>16, <2>1
  <2>3. QED
    BY <1>16, <2>1, <2>2
<1>4. Came(mem, n, Rendered(m))
  <2>1. n <= Len(Rendered(m))
    BY <1>3
  <2>2. QED
    BY <1>2, <1>3, <2>1 DEF Came
<1>5. PICK r : /\ r = ParseRequest(mem)
               /\ r = [header |-> HeaderPart(H), payload |-> BodyPart(H, n),
                       addr |-> AddrPart(Len(m.addr))]
               /\ Stands(mem, h, HeaderPart(H))
  BY <1>1, <1>3, <1>4, ParsedWhole
<1>6. r.header = HeaderPart(H) /\ r.payload = BodyPart(H, n) /\ r.addr = AddrPart(Len(m.addr))
  BY <1>5
<1>7. CrunchedFrom(Crunched[mem], mem, r)
  BY <1>2, <1>5, CrunchedIs
<1>8. r.addr.len > 0
  <2>1. Len(m.addr) \in Nat /\ Len(m.addr) > 0
    BY AddressIs DEF Proper
  <2>2. QED
    BY <1>6, <2>1, AddrPartIs
<1>9. Dispatched(m, HandlerOf(mem, r))
  BY <1>1, <1>5, <1>6, DispatchIs
<1>10. SessionOf(mem, r.header) = Own(m)
  <2>1. SessionOf(mem, HeaderPart(H)) = Own(m)
    BY <1>1, <1>5, SessionIsOwn
  <2>2. QED
    BY <1>6, <2>1
<1>11. Chars(mem, r.payload) = m.body
  <2>1. PICK b : b = BodyPart(H, n) /\ b.at = H + 5 /\ b.len = n - (H + 4)
    <3>1. n \in Nat /\ H \in Nat
      BY <1>3, <1>16
    <3>2. QED
      BY <3>1, PartsAre
  <2>2. b.at \in Nat /\ b.len = B
    BY <1>3, <1>16, <2>1
  <2>3. \A i \in 1..B : b.at + i - 1 = H + 4 + i
    BY <1>16, <2>1
  <2>4. PICK v : v = m.body
    OBVIOUS
  <2>5. v \in Seq(Nat) /\ b.len = Len(v) /\ \A i \in 1..Len(v) : mem[b.at + i - 1] = v[i]
    BY <1>2, <2>2, <2>3, <2>4
  <2>6. Chars(mem, b) = v
    BY <2>2, <2>5, CharsAre
  <2>7. QED
    BY <1>6, <2>1, <2>4, <2>6
<1>12. PICK u : u = Crunched[mem]
  OBVIOUS
<1>13. /\ u.whole <=> r.addr.len > 0
       /\ u.fun = HandlerOf(mem, r)
       /\ u.payload = Chars(mem, r.payload)
       /\ u.session = SessionOf(mem, r.header)
  BY <1>7, <1>12 DEF CrunchedFrom
<1>14. u.whole /\ u.payload = m.body /\ u.session = Own(m) /\ Dispatched(m, u.fun)
  BY <1>8, <1>9, <1>10, <1>11, <1>13
<1>15. QED
  BY <1>12, <1>14 DEF FoundIn
-----------------------------------------------------------------------------
(* The bytes of an answer *)

\* The value of the cookie that a login gives out.
GivenOut(v) ==
  \E f \in Tellings : v = ((SessionIs \o f) \o <<Semicolon>>) \o HeaderEnd

\* What the server answers: a payload, or a session, or that it could read none.
Sane(a) ==
  /\ a.length = IF a = Unread THEN -1 ELSE Len(a.payload)
  /\ a.status \in {101, 200, 400, 404}
  /\ a.payload \in Seq(Nat) /\ Len(a.payload) < Half
  /\ a.status = 101 => a.value = << >> /\ a.payload = << >>
  /\ a.value = << >> \/ (a.payload = << >> /\ GivenOut(a.value))

LEMMA UnreadIs ==
  /\ Unread.status = 200 /\ Unread.value = << >> /\ Unread.payload = << >>
  /\ Unread.length = -1
BY DEF Unread, Answer

\* Other answers have the length of their payload.
LEMMA AnswerIs ==
  ASSUME NEW status, NEW value, NEW payload \in Seq(Nat),
         NEW a, a = Answer(status, value, payload)
  PROVE  /\ a.status = status /\ a.value = value /\ a.payload = payload
         /\ a.length = Len(payload) /\ a # Unread
<1>1. /\ a.status = status /\ a.value = value /\ a.payload = payload
      /\ a.length = Len(payload)
  BY DEF Answer
<1>2. Len(payload) # -1
  BY LenProperties
<1>3. QED
  BY <1>1, <1>2, UnreadIs

LEMMA CookieIsSane ==
  ASSUME NEW f, f \in Tellings
  PROVE  Sane(Answer(200, ((SessionIs \o f) \o <<Semicolon>>) \o HeaderEnd, << >>))
<1>1. PICK v : v = ((SessionIs \o f) \o <<Semicolon>>) \o HeaderEnd
  OBVIOUS
<1>2. GivenOut(v)
  BY <1>1 DEF GivenOut
<1>3. PICK b : b = Answer(200, v, << >>)
  OBVIOUS
<1>5. << >> \in Seq(Nat) /\ Len(<< >>) = 0 /\ 0 < Half
  BY EmptySeq, HalfIs
<1>4. b.status = 200 /\ b.value = v /\ b.payload = << >>
      /\ b.length = Len(b.payload) /\ b # Unread
  <2>1. PICK q \in Seq(Nat) : q = << >>
    BY <1>5
  <2>2. b = Answer(200, v, q)
    BY <1>3, <2>1
  <2>3. /\ b.status = 200 /\ b.value = v /\ b.payload = q
        /\ b.length = Len(q) /\ b # Unread
    BY <2>2, AnswerIs
  <2>4. QED
    BY <2>1, <2>3
<1>6. b.payload \in Seq(Nat) /\ Len(b.payload) < Half
  BY <1>4, <1>5
<1>7. GivenOut(b.value)
  BY <1>2, <1>4
<1>8. Sane(b)
  BY <1>4, <1>6, <1>7 DEF Sane
<1>9. QED
  BY <1>1, <1>3, <1>8

LEMMA AnswersAreSane ==
  ASSUME NEW fun \in Handlers, NEW a \in Answers(fun)
  PROVE  Sane(a)
<1>1. ASSUME NEW status \in {101, 200, 400, 404}, NEW payload \in Seq(Nat),
             Len(payload) < Half, status = 101 => payload = << >>
      PROVE  Sane(Answer(status, << >>, payload))
  <2>1. PICK b : b = Answer(status, << >>, payload)
    OBVIOUS
  <2>2. b.status = status /\ b.value = << >> /\ b.payload = payload
        /\ b.length = Len(payload) /\ b # Unread
    BY <2>1, AnswerIs
  <2>3. Sane(b)
    BY <1>1, <2>2 DEF Sane
  <2>4. QED
    BY <2>1, <2>3
<1>2. ASSUME NEW s \in Sessions
      PROVE  Sane(Answer(200, SessionIs \o Decimal(s) \o <<Semicolon>> \o HeaderEnd, << >>))
  <2>1. PICK f \in Tellings : f = Decimal(s)
    BY DEF Tellings
  <2>2. Sane(Answer(200, ((SessionIs \o f) \o <<Semicolon>>) \o HeaderEnd, << >>))
    BY CookieIsSane
  <2>3. QED
    BY <2>1, <2>2
<1> DEFINE Found == {Answer(200, << >>, page) : page \in Pages}
           None == {Answer(status, << >>, << >>) : status \in {101, 200, 400, 404}}
           Given == {Answer(200, SessionIs \o Decimal(s) \o <<Semicolon>> \o HeaderEnd, << >>) :
                       s \in Sessions}
<1>3. \A b \in Found \cup {Unread} \cup None \cup Given : Sane(b)
  <2>1. \A b \in Found : Sane(b)
    <3>1. \A page \in Pages : page \in Seq(Nat) /\ Len(page) < Half
      BY RequestAssumption DEF Half
    <3>2. QED
      BY <1>1, <3>1
  <2>2. \A b \in None : Sane(b)
    <3>1. PICK q \in Seq(Nat) : q = << >> /\ Len(q) < Half
      BY EmptySeq, HalfIs
    <3>2. ASSUME NEW status \in {101, 200, 400, 404}
          PROVE  Sane(Answer(status, << >>, q))
      <4>1. Len(q) < Half /\ (status = 101 => q = << >>)
        BY <3>1
      <4>2. QED
        BY <1>1, <4>1
    <3>3. QED
      BY <3>1, <3>2
  <2>3. \A b \in Given : Sane(b)
    BY <1>2
  <2>4. Sane(Unread)
    <3>1. << >> \in Seq(Nat) /\ Len(<< >>) < Half
      BY EmptySeq, HalfIs
    <3>2. PICK b : b = Unread
      OBVIOUS
    <3>3. b.status = 200 /\ b.value = << >> /\ b.payload = << >> /\ b.length = -1
      BY <3>2, UnreadIs
    <3>4. Sane(b)
      BY <3>1, <3>2, <3>3 DEF Sane
    <3>5. QED
      BY <3>2, <3>4
  <2>5. QED
    BY <2>1, <2>2, <2>3, <2>4
<1>4. /\ Answer(101, << >>, << >>) \in None /\ Answer(200, << >>, << >>) \in None
      /\ Answer(400, << >>, << >>) \in None /\ Answer(404, << >>, << >>) \in None
  OBVIOUS
<1> HIDE DEF None
<1>5. CASE fun \in {"root", "branch"}
  <2>1. a \in Found \cup {Unread}
    BY <1>5 DEF Answers
  <2>2. QED
    BY <1>3, <2>1
<1>6. CASE fun = "branches"
  <2>1. a \in Found \cup {Answer(400, << >>, << >>)}
    BY <1>6 DEF Answers
  <2>2. QED
    BY <1>3, <1>4, <2>1
<1>7. CASE fun = "login"
  <2>1. a \in Given \cup {Answer(400, << >>, << >>)}
    BY <1>7 DEF Answers
  <2>2. QED
    BY <1>3, <1>4, <2>1
<1>8. CASE fun \in {"newbranch", "feed", "user"}
  <2>1. a \in {Answer(200, << >>, << >>), Answer(400, << >>, << >>)}
    BY <1>8 DEF Answers
  <2>2. QED
    BY <1>3, <1>4, <2>1
<1>9. CASE fun = "websocket"
  <2>1. a \in {Answer(101, << >>, << >>)}
    BY <1>9 DEF Answers
  <2>2. QED
    BY <1>3, <1>4, <2>1
<1>10. CASE fun = "not_found"
  <2>1. a \in {Answer(404, << >>, << >>)}
    BY <1>10 DEF Answers
  <2>2. QED
    BY <1>3, <1>4, <2>1
<1>11. QED
  BY <1>5, <1>6, <1>7, <1>8, <1>9, <1>10 DEF Handlers
\* A line end, another line and its end: the line with its beginning, and an end.
Moves(a, b, c, d) == (a \o b) \o ((c \o d) \o b) = (a \o ((b \o c) \o d)) \o b

LEMMA LineMoves ==
  ASSUME NEW a, a \in Seq(Nat), NEW b, b \in Seq(Nat), NEW c, c \in Seq(Nat),
         NEW d, d \in Seq(Nat)
  PROVE  Moves(a, b, c, d)
<1>1. PICK bc, cd : bc = b \o c /\ cd = c \o d /\ bc \in Seq(Nat) /\ cd \in Seq(Nat)
  <2>1. b \o c \in Seq(Nat) /\ c \o d \in Seq(Nat)
    BY ConcatProperties
  <2>2. QED
    BY <2>1
<1>2. PICK x, y : x = cd \o b /\ y = bc \o d /\ x \in Seq(Nat) /\ y \in Seq(Nat)
  <2>1. cd \o b \in Seq(Nat) /\ bc \o d \in Seq(Nat)
    BY <1>1, ConcatProperties
  <2>2. QED
    BY <2>1
<1>3. bc \in Seq(Nat) /\ cd \in Seq(Nat) /\ x \in Seq(Nat) /\ y \in Seq(Nat)
  BY <1>1, <1>2
<1>4. Regroups(a, b, x)
  BY <1>3, AlwaysRegroups
<1>5. Regroups(b, cd, b)
  BY <1>3, AlwaysRegroups
<1>6. Regroups(b, c, d)
  BY AlwaysRegroups
<1>7. Regroups(a, y, b)
  BY <1>3, AlwaysRegroups
<1>8. QED
  BY <1>1, <1>2, <1>4, <1>5, <1>6, <1>7 DEF Regroups, Moves

\* The cookie without what ends it.
Stripped(f) == (SessionIs \o f) \o <<Semicolon>>

\* Bytes of an answer: a header, its end, and what comes after.
Composed(s, a, h, tail) ==
  /\ s = (h \o HeaderEnd) \o tail
  /\ Lined(h) /\ h # << >> /\ h[1] = a.status /\ tail \in Seq(Nat)
  /\ IF a.status = 101 THEN Lacks(h, 76) ELSE HasLine(h, 76, Decimal(a.length))
  /\ IF a.value = << >> THEN Lacks(h, 84) /\ tail = a.payload
     ELSE /\ tail = HeaderEnd
          /\ \E f \in Tellings : HasLine(h, 84, Stripped(f))

LEMMA StrippedIs ==
  ASSUME NEW f, f \in Seq(Figures)
  PROVE  /\ SessionIs \o f \in Seq(Plain) /\ SessionIs \o f \in Seq(Nat)
         /\ Stripped(f) \in Seq(Plain) /\ Stripped(f) \in Seq(Nat) /\ Stripped(f) # << >>
         /\ Len(Stripped(f)) = Len(SessionIs \o f) + 1
         /\ Stripped(f)[Len(SessionIs \o f) + 1] = 59
         /\ \A i \in 1..Len(SessionIs \o f) : Stripped(f)[i] = (SessionIs \o f)[i]
<1> DEFINE s == SessionIs \o f
           p == <<Semicolon>>
<1>1. s \in Seq(Plain)
  BY FiguresArePlain, SessionIsSeq, ConcatProperties
<1>2. s \in Seq(Nat)
  BY <1>1, PlainValue
<1>3. p \in Seq(Plain) /\ p \in Seq(Nat) /\ Len(p) = 1 /\ p[1] = 59
  BY DEF Semicolon, Plain
<1>4. Stripped(f) = s \o p
  BY DEF Stripped
<1> HIDE DEF s, p
<1>5. PICK one \in Nat : one = 1 /\ one = Len(p)
  BY <1>3
<1>6. Joint(s \o p, s, p, Len(s), one)
  BY <1>2, <1>3, <1>5, JointIs
<1> DEFINE t == s \o p
           n == Len(s)
<1>7. t \in Seq(Plain)
  BY <1>1, <1>3, ConcatProperties
<1> HIDE DEF t
<1>8. /\ t \in Seq(Nat) /\ n \in Nat /\ Len(t) = n + one
      /\ \A i \in 1..n : t[i] = s[i]
      /\ \A i \in 1..one : t[n + i] = p[i]
  BY <1>6 DEF Joint, t
<1>9. t[n + 1] = 59 /\ Len(t) = n + 1
  BY <1>3, <1>5, <1>8
<1>10. t # << >>
  BY <1>8, <1>9, EmptySeq
<1>11. QED
  BY <1>1, <1>2, <1>4, <1>7, <1>8, <1>9, <1>10 DEF t, s

\* The line of a status.
LEMMA StatusIs ==
  ASSUME NEW c \in Nat \ {10, 13, 75, 76, 84, 86}
  PROVE  /\ <<c>> \in Seq(Nat) /\ Lined(<<c>>) /\ Lacks(<<c>>, 76) /\ Lacks(<<c>>, 84)
         /\ Len(<<c>>) = 1 /\ <<c>>[1] = c
<1>1. <<c>> \in Seq(Nat) /\ Len(<<c>>) = 1 /\ <<c>>[1] = c
  OBVIOUS
<1>2. \A i \in 1..Len(<<c>>) : <<c>>[i] = c
  OBVIOUS
<1>3. QED
  BY <1>1, <1>2 DEF Lined, Lacks

\* Adding a line with a name and a value.
Added(h, X, v) == h \o ((LineEnd \o <<X, 58, 32>>) \o v)

LEMMA AddedIs ==
  ASSUME NEW h, Lined(h), h # << >>, NEW X \in {76, 84}, NEW v, v \in Seq(Plain), v # << >>,
         Lacks(h, X)
  PROVE  /\ Lined(Added(h, X, v)) /\ Added(h, X, v) # << >> /\ Added(h, X, v)[1] = h[1]
         /\ HasLine(Added(h, X, v), X, v)
         /\ \A Y \in {76, 84} : Y # X /\ Lacks(h, Y) => Lacks(Added(h, X, v), Y)
         /\ \A Y, u : u \in Seq(Nat) /\ HasLine(h, Y, u) => HasLine(Added(h, X, v), Y, u)
<1> DEFINE q == <<X, 58, 32>>
           p == LineEnd \o q
           w == p \o v
<1>1. IsName(q, X)
  BY DEF IsName
<1> HIDE DEF q
<1>2. OpensLine(p, X)
  BY <1>1, FiveCharacters
<1> HIDE DEF p
<1>3. IsLine(w, X, v)
  BY <1>2, LineMade
<1> HIDE DEF w
<1>4. X \in Nat \ {10, 13} /\ X \in {75, 76, 84, 86} /\ X \notin {10, 13}
  OBVIOUS
<1>5. Lined(w) /\ w \in Seq(Nat) /\ BeginsLine(w)
  BY <1>3, <1>4, LineIsLined
<1>6. h \in Seq(Nat)
  BY DEF Lined
<1> DEFINE t == h \o w
<1>7. Added(h, X, v) = t
  BY DEF Added, w, p, q
<1>8. Lined(t)
  BY <1>5, LinedGrows
<1>9. t # << >> /\ t[1] = h[1]
  <2>1. Joint(t, h, w, Len(h), Len(w))
    BY <1>5, <1>6, JointIs
  <2> HIDE DEF t
  <2>2. t \in Seq(Nat) /\ Len(t) = Len(h) + Len(w) /\ Len(h) \in Nat /\ Len(w) \in Nat
        /\ \A i \in 1..Len(h) : t[i] = h[i]
    BY <2>1 DEF Joint
  <2>3. Len(h) > 0
    BY <1>6, <2>2, EmptySeq
  <2>4. 1 \in 1..Len(h) /\ Len(t) > 0
    BY <2>2, <2>3
  <2>5. QED
    BY <2>2, <2>4, EmptySeq
<1>10. HasLine(t, X, v)
  <2>1. LineAt(t, X, v, Len(h) + 2)
    BY <1>3, <1>4, <1>6, LineAdded
  <2>2. QED
    BY <2>1 DEF HasLine
<1>11. ASSUME NEW Y \in {76, 84}, Y # X, Lacks(h, Y)
       PROVE  Lacks(t, Y)
  <2>1. Y \in {75, 76, 84, 86} /\ X # Y
    BY <1>11
  <2>2. Lacks(w, Y)
    BY <1>3, <2>1, LineLacks
  <2>3. QED
    BY <1>5, <1>6, <1>11, <2>2, LacksGrows
<1>12. ASSUME NEW Y, NEW u, u \in Seq(Nat), HasLine(h, Y, u)
       PROVE  HasLine(t, Y, u)
  <2>1. PICK k : LineAt(h, Y, u, k)
    BY <1>12 DEF HasLine
  <2>2. LineAt(t, Y, u, k)
    BY <1>5, <1>6, <1>12, <2>1, LineStays
  <2>3. QED
    BY <2>2 DEF HasLine
<1> HIDE DEF t
<1>13. QED
  BY <1>7, <1>8, <1>9, <1>10, <1>11, <1>12
LEMMA EndsTwice ==
  ASSUME NEW s, s \in Seq(Nat)
  PROVE  /\ s \o LineEnd \in Seq(Nat) /\ s \o HeaderEnd \in Seq(Nat)
         /\ (s \o LineEnd) \o LineEnd = s \o HeaderEnd
         /\ s \o << >> = s
<1>1. LineEnd \in Seq(Nat) /\ HeaderEnd \in Seq(Nat)
  BY HeaderEndIs
<1>2. s \o LineEnd \in Seq(Nat) /\ s \o HeaderEnd \in Seq(Nat)
  BY <1>1, ConcatProperties
<1>3. Regroups(s, LineEnd, LineEnd)
  BY <1>1, AlwaysRegroups
<1>4. HeaderEnd = LineEnd \o LineEnd
  BY DEF HeaderEnd
<1>5. s \o << >> = s
  BY ConcatEmptySeq
<1>6. QED
  BY <1>2, <1>3, <1>4, <1>5 DEF Regroups

\* The bytes of a payload without a cookie.
LEMMA PlainComposed ==
  ASSUME NEW h, h \in Seq(Nat), NEW p, p \in Seq(Nat)
  PROVE  (((h \o LineEnd) \o << >>) \o LineEnd) \o p = (h \o HeaderEnd) \o p
<1>1. PICK s : s = h \o LineEnd /\ s \in Seq(Nat) /\ s \o LineEnd = h \o HeaderEnd
  BY EndsTwice
<1>2. s \o << >> = s
  BY <1>1, EndsTwice
<1>3. QED
  BY <1>1, <1>2

\* And with one.
LEMMA CookieComposed ==
  ASSUME NEW h, h \in Seq(Nat), NEW c, c \in Seq(Nat)
  PROVE  (((h \o LineEnd) \o ((SetCookie \o (c \o HeaderEnd)) \o LineEnd)) \o LineEnd) \o << >>
           = (Added(h, 84, c) \o HeaderEnd) \o HeaderEnd
<1>1. LineEnd \in Seq(Nat) /\ HeaderEnd \in Seq(Nat) /\ SetCookie \in Seq(Nat)
  BY HeaderEndIs DEF SetCookie
<1>2. PICK v, p : v = c \o HeaderEnd /\ p = LineEnd \o SetCookie
  OBVIOUS
<1>3. v \in Seq(Nat) /\ p \in Seq(Nat)
  BY <1>1, <1>2, ConcatProperties
<1>4. PICK w : w = p \o c
  OBVIOUS
<1>5. w \in Seq(Nat)
  BY <1>3, <1>4, ConcatProperties
<1>6. PICK t : t = h \o w
  OBVIOUS
<1>7. t \in Seq(Nat)
  BY <1>5, <1>6, ConcatProperties
<1>8. Moves(h, LineEnd, SetCookie, v)
  BY <1>1, <1>3, LineMoves
<1>9. Regroups(p, c, HeaderEnd) /\ Regroups(h, w, HeaderEnd)
  BY <1>1, <1>3, <1>5, AlwaysRegroups
<1>10. h \o (p \o v) = t \o HeaderEnd
  BY <1>2, <1>4, <1>6, <1>9 DEF Regroups
<1>11. PICK u : u = t \o HeaderEnd /\ u \in Seq(Nat)
  BY <1>7, EndsTwice
<1>12. (u \o LineEnd) \o LineEnd = u \o HeaderEnd
  BY <1>11, EndsTwice
<1>13. u \o HeaderEnd \in Seq(Nat)
  BY <1>11, EndsTwice
<1>14. (u \o HeaderEnd) \o << >> = u \o HeaderEnd
  BY <1>13, EndsTwice
<1>15. t = Added(h, 84, c)
  BY <1>2, <1>4, <1>6 DEF Added, SetCookie
<1>16. QED
  BY <1>2, <1>8, <1>10, <1>11, <1>12, <1>14, <1>15 DEF Moves

LEMMA ComposedIs ==
  ASSUME NEW a, Sane(a)
  PROVE  \E h, tail : Composed(Assembled(a), a, h, tail)
<1> DEFINE st == <<a.status>>
           D == Decimal(a.length)
           first == IF a.status = 101 THEN << >>
                    ELSE (ContentLength \o D) \o LineEnd
           second == IF a.value = << >> THEN << >> ELSE (SetCookie \o a.value) \o LineEnd
<1>1. Assembled(a) = ((((st \o LineEnd) \o first) \o second) \o LineEnd) \o a.payload
  BY DEF Assembled
<1>2. PICK B \in Nat : B = Len(a.payload) /\ a.payload \in Seq(Nat) /\ B < Half
  BY LenProperties DEF Sane
<1>3. D \in Seq(Plain) /\ D # << >> /\ D \in Seq(Nat)
  <2>1. a.length \in Int
    BY <1>2 DEF Sane
  <2>2. QED
    BY <2>1, DecimalIsFigures
<1>4. a.status \in Nat \ {10, 13, 75, 76, 84, 86}
  BY DEF Sane
<1>5. st \in Seq(Nat) /\ Lined(st) /\ Lacks(st, 76) /\ Lacks(st, 84) /\ Len(st) = 1
      /\ st[1] = a.status
  BY <1>4, StatusIs
<1>6. st # << >>
  BY <1>5, EmptySeq
<1> HIDE DEF st
<1>7. CASE a.status = 101
  <2>1. a.value = << >>
    BY <1>7 DEF Sane
  <2>2. first = << >> /\ second = << >>
    BY <1>7, <2>1
  <2>3. st \o LineEnd \in Seq(Nat)
    BY <1>5, EndsTwice
  <2>4. (st \o LineEnd) \o << >> = st \o LineEnd
    BY <2>3, EndsTwice
  <2>5. Assembled(a) = (st \o HeaderEnd) \o a.payload
    <3>1. PICK p : p = a.payload /\ p \in Seq(Nat)
      BY <1>2
    <3>2. (((st \o LineEnd) \o << >>) \o LineEnd) \o p = (st \o HeaderEnd) \o p
      BY <1>5, <3>1, PlainComposed
    <3>3. Assembled(a) = ((((st \o LineEnd) \o << >>) \o << >>) \o LineEnd) \o p
      BY <1>1, <2>2, <3>1
    <3>4. QED
      BY <2>4, <3>1, <3>2, <3>3
  <2>6. Composed(Assembled(a), a, st, a.payload)
    BY <1>2, <1>5, <1>6, <1>7, <2>1, <2>5 DEF Composed
  <2>7. QED
    BY <2>6
<1>8. CASE a.status # 101
  <2>1. PICK h : h = Added(st, 76, D)
    OBVIOUS
  <2>2. /\ Lined(h) /\ h # << >> /\ h[1] = a.status /\ HasLine(h, 76, D) /\ Lacks(h, 84)
    <3>1. PICK X \in {76, 84} : X = 76
      OBVIOUS
    <3>2. PICK v : v = D /\ v \in Seq(Plain) /\ v # << >>
      BY <1>3
    <3>3. Lacks(st, X)
      BY <1>5, <3>1
    <3>4. /\ Lined(Added(st, X, v)) /\ Added(st, X, v) # << >> /\ Added(st, X, v)[1] = st[1]
          /\ HasLine(Added(st, X, v), X, v)
          /\ \A Y \in {76, 84} : Y # X /\ Lacks(st, Y) => Lacks(Added(st, X, v), Y)
      BY <1>5, <1>6, <3>2, <3>3, AddedIs
    <3>5. Lacks(Added(st, X, v), 84)
      BY <1>5, <3>1, <3>4
    <3>6. h = Added(st, X, v)
      BY <2>1, <3>1, <3>2
    <3>7. QED
      BY <1>5, <3>1, <3>2, <3>4, <3>5, <3>6
  <2>3. h \in Seq(Nat)
    BY <2>2 DEF Lined
  <2>4. (st \o LineEnd) \o first = h \o LineEnd
    <3>1. LineEnd \in Seq(Nat) /\ ContentLength \in Seq(Nat)
      BY HeaderEndIs DEF ContentLength
    <3>2. Moves(st, LineEnd, ContentLength, D)
      BY <1>3, <1>5, <3>1, LineMoves
    <3>3. h = st \o ((LineEnd \o ContentLength) \o D)
      BY <2>1, NamesAre DEF Added
    <3>4. QED
      BY <1>8, <3>2, <3>3 DEF Moves
  <2> HIDE DEF D, first
  <2>5. CASE a.value = << >>
    <3>1. Assembled(a) = (((h \o LineEnd) \o << >>) \o LineEnd) \o a.payload
      BY <1>1, <2>4, <2>5
    <3>2. Assembled(a) = (h \o HeaderEnd) \o a.payload
      BY <1>2, <2>3, <3>1, PlainComposed
    <3>3. Composed(Assembled(a), a, h, a.payload)
      BY <1>2, <1>8, <2>2, <2>5, <3>2 DEF Composed, D
    <3>4. QED
      BY <3>3
  <2>6. CASE a.value # << >>
    <3>1. a.payload = << >> /\ GivenOut(a.value)
      BY <2>6 DEF Sane
    <3>2. PICK f \in Tellings : a.value = Stripped(f) \o HeaderEnd
      BY <3>1 DEF GivenOut, Stripped
    <3>3. PICK c : c = Stripped(f) /\ c \in Seq(Plain) /\ c \in Seq(Nat) /\ c # << >>
      BY <3>2, StrippedIs, TellingsAre
    <3>4. Assembled(a) = (((h \o LineEnd) \o ((SetCookie \o (c \o HeaderEnd)) \o LineEnd))
                            \o LineEnd) \o << >>
      BY <1>1, <2>4, <2>6, <3>1, <3>2, <3>3
    <3>5. Assembled(a) = (Added(h, 84, c) \o HeaderEnd) \o HeaderEnd
      BY <2>3, <3>3, <3>4, CookieComposed
    <3>6. PICK g : g = Added(h, 84, c)
      OBVIOUS
    <3>7. Lined(g) /\ g # << >> /\ g[1] = h[1] /\ HasLine(g, 84, c) /\ HasLine(g, 76, D)
      <4>1. PICK X \in {76, 84} : X = 84
        OBVIOUS
      <4>2. Lacks(h, X)
        BY <2>2, <4>1
      <4>3. /\ Lined(Added(h, X, c)) /\ Added(h, X, c) # << >> /\ Added(h, X, c)[1] = h[1]
            /\ HasLine(Added(h, X, c), X, c)
            /\ \A Y, u : u \in Seq(Nat) /\ HasLine(h, Y, u) => HasLine(Added(h, X, c), Y, u)
        BY <2>2, <3>3, <4>2, AddedIs
      <4>4. HasLine(Added(h, X, c), 76, D)
        BY <1>3, <2>2, <4>3
      <4>5. QED
        BY <3>6, <4>1, <4>3, <4>4
    <3>8. HeaderEnd \in Seq(Nat)
      BY HeaderEndIs
    <3>9. \E e \in Tellings : HasLine(g, 84, Stripped(e))
      BY <3>2, <3>3, <3>7
    <3>10. g[1] = a.status /\ HasLine(g, 76, Decimal(a.length))
      BY <2>2, <3>7 DEF D
    <3>11. Composed(Assembled(a), a, g, HeaderEnd)
      BY <1>8, <2>6, <3>5, <3>6, <3>7, <3>8, <3>9, <3>10 DEF Composed
    <3>12. QED
      BY <3>11
  <2>7. QED
    BY <2>5, <2>6
<1>9. QED
  BY <1>7, <1>8
-----------------------------------------------------------------------------
(* What the client understands *)

\* What comes after line ends.
TextOf(characters) ==
  LET lead == {i \in 1..Len(characters) : characters[i] \notin {13, 10}} IN
  SubSeq(characters, Min(lead \cup {Len(characters) + 1}), Len(characters))

Ends == {13, 10}

LEMMA MinIs ==
  ASSUME NEW T, T \subseteq Int, NEW x \in T, \A y \in T : x <= y
  PROVE  Min(T) = x
<1>1. PICK z : z = Min(T) /\ z \in T /\ \A y \in T : z <= y
  BY DEF Min
<1>2. z <= x /\ x <= z /\ z \in Int /\ x \in Int
  BY <1>1
<1>3. QED
  BY <1>1, <1>2

LEMMA LineEndsAreNumbers ==
  ASSUME NEW s, s \in Seq(Ends)
  PROVE  s \in Seq(Nat) /\ Len(s) \in Nat /\ \A i \in 1..Len(s) : s[i] \in {13, 10}
<1>1. Ends \subseteq Nat
  BY DEF Ends
<1>2. s \in Seq(Nat)
  BY <1>1, SeqMonotonic
<1>3. \A i \in 1..Len(s) : s[i] \in Ends
  BY ElementOfSeq
<1>4. QED
  BY <1>2, <1>3, LenProperties DEF Ends

\* Line ends before a text are left out.
LEMMA LineEndsLeftOut ==
  ASSUME NEW s, s \in Seq(Ends), NEW t, t \in Seq(Nat), t # << >>, t[1] \notin {13, 10}
  PROVE  TextOf(s \o t) = t
<1> DEFINE c == s \o t
           a == Len(s)
           b == Len(t)
           lead == {i \in 1..Len(c) : c[i] \notin {13, 10}}
           T == lead \cup {Len(c) + 1}
<1>1. s \in Seq(Nat) /\ a \in Nat /\ \A i \in 1..a : s[i] \in {13, 10}
  BY LineEndsAreNumbers
<1>2. Joint(c, s, t, a, b)
  BY <1>1, JointIs
<1>3. TextOf(s \o t) = SubSeq(c, Min(T), Len(c))
  BY DEF TextOf
<1> HIDE DEF c, a, b
<1>4. /\ c \in Seq(Nat) /\ b \in Nat /\ Len(c) = a + b
      /\ \A i \in 1..a : c[i] = s[i]
      /\ \A i \in 1..b : c[a + i] = t[i]
  BY <1>2 DEF Joint
<1>5. b > 0
  BY <1>4, EmptySeq DEF b
<1>6. PICK x \in Int : x = a + 1
  BY <1>1
<1>7. x \in 1..Len(c) /\ c[x] \notin {13, 10}
  <2>1. 1 \in 1..b /\ x \in 1..Len(c)
    BY <1>1, <1>4, <1>5, <1>6
  <2>2. c[a + 1] = t[1]
    BY <1>4, <2>1
  <2>3. QED
    BY <1>6, <2>1, <2>2
<1>8. T \subseteq Int /\ x \in T
  BY <1>1, <1>4, <1>7
<1>9. \A y \in T : x <= y
  <2> SUFFICES ASSUME NEW y \in T, y < x PROVE FALSE
    BY <1>8
  <2>1. y \in lead
    BY <1>1, <1>4, <1>5, <1>6
  <2>2. y \in 1..a
    BY <1>1, <1>4, <1>6, <2>1
  <2>3. c[y] \in {13, 10}
    BY <1>1, <1>4, <2>2
  <2>4. QED
    BY <2>1, <2>3
<1> HIDE DEF T
<1>10. Min(T) = x
  BY <1>8, <1>9, MinIs
<1> DEFINE u == SubSeq(c, x, Len(c))
<1>11. u \in Seq(Nat) /\ Len(u) = b /\ \A i \in 1..b : u[i] = c[x + i - 1]
  <2>1. PICK n \in Int : n = Len(c)
    BY <1>1, <1>4
  <2>2. \A i \in x..n : c[i] \in Nat
    <3>1. \A i \in x..n : i \in 1..Len(c)
      BY <1>7, <2>1
    <3>2. QED
      BY <1>4, <3>1, ElementOfSeq
  <2>3. /\ SubSeq(c, x, n) \in Seq(Nat)
        /\ Len(SubSeq(c, x, n)) = IF x <= n THEN n - x + 1 ELSE 0
        /\ \A i \in 1..(n - x + 1) : SubSeq(c, x, n)[i] = c[x + i - 1]
    BY <2>2, SubSeqProperties
  <2>4. n - x + 1 = b /\ x <= n
    BY <1>1, <1>4, <1>5, <1>6, <2>1
  <2>5. QED
    BY <2>1, <2>3, <2>4
<1> HIDE DEF u
<1>12. \A i \in 1..b : u[i] = t[i]
  <2> SUFFICES ASSUME NEW i \in 1..b PROVE u[i] = t[i]
    OBVIOUS
  <2>1. x + i - 1 = a + i
    BY <1>1, <1>4, <1>6
  <2>2. QED
    BY <1>4, <1>11, <2>1, ZenonT(60)
<1>13. u = [i \in 1..b |-> u[i]] /\ t = [i \in 1..b |-> t[i]]
  BY <1>11, SeqDef DEF b
<1>14. u = t
  BY <1>12, <1>13
<1>15. QED
  BY <1>3, <1>10, <1>14 DEF u

\* Nothing else is left.
LEMMA NothingLeft ==
  ASSUME NEW s, s \in Seq(Ends)
  PROVE  TextOf(s) = << >>
<1> DEFINE lead == {i \in 1..Len(s) : s[i] \notin {13, 10}}
<1>1. Len(s) \in Nat /\ \A i \in 1..Len(s) : s[i] \in {13, 10}
  BY LineEndsAreNumbers
<1>2. PICK x \in Int : x = Len(s) + 1
  BY <1>1
<1>3. lead \cup {Len(s) + 1} = {x}
  BY <1>1, <1>2
<1>4. Min({x}) = x
  BY MinOfOne
<1>5. TextOf(s) = SubSeq(s, x, Len(s))
  BY <1>3, <1>4 DEF TextOf
<1>6. PICK n \in Int : n = Len(s) /\ n < x
  BY <1>1, <1>2
<1>7. SubSeq(s, x, n) = << >>
  BY <1>6, SubSeqEmpty
<1>8. QED
  BY <1>5, <1>6, <1>7
\* What the client finds in a text.
EndIn(said) == Find(said, All(said), HeaderEnd)
LengthIn(said) == Number(said, ValueOf(said, EndIn(said).before, 76))
CookieIn(said) ==
  Find(said, Find(said, EndIn(said).before, SetCookie).after, <<Semicolon>>).before

\* And what it makes of that.
UnderstoodFrom(u, said, f, n) ==
  /\ u.whole <=> f.found.len > 0 /\ n \in 0..f.after.len
  /\ u.whole =>
       /\ u.answer.status = said[1]
       /\ u.answer.value = Chars(said, CookieIn(said))
       /\ u.answer.payload = Chars(said, [f.after EXCEPT !.len = n])
       /\ u.rest = SubSeq(said, f.after.at + n, Len(said))

LEMMA UnderstoodIs ==
  ASSUME NEW s, s \in Seq(Nat), NEW said, said = TextOf(s)
  PROVE  UnderstoodFrom(Understood[s], said, EndIn(said), LengthIn(said))
<1>1. PICK f, n, c : f = EndIn(said) /\ n = LengthIn(said) /\ c = CookieIn(said)
  OBVIOUS
<1>2. PICK u : u = Understood[s]
  OBVIOUS
<1>3. PICK a, r : /\ a = Answer(said[1], Chars(said, c), Chars(said, [f.after EXCEPT !.len = n]))
                  /\ r = SubSeq(said, f.after.at + n, Len(said))
  OBVIOUS
<1>4. u = IF ~(f.found.len > 0 /\ n \in 0..f.after.len) THEN [whole |-> FALSE]
          ELSE [whole |-> TRUE, answer |-> a, rest |-> r]
  <2>1. ContentLength = <<76, 58, 32>>
    BY NamesAre
  <2>2. Understood[s] =
          LET t == TextOf(s)
              e == Find(t, All(t), HeaderEnd)
              number == Find(t, Find(t, e.before, ContentLength).after, LineEnd).before
              length == Number(t, number)
              value == Find(t, Find(t, e.before, SetCookie).after, <<Semicolon>>).before
              whole == e.found.len > 0 /\ length \in 0..e.after.len IN
          IF ~whole THEN [whole |-> FALSE]
          ELSE [whole |-> TRUE,
                answer |-> Answer(t[1], Chars(t, value), Chars(t, [e.after EXCEPT !.len = length])),
                rest |-> SubSeq(t, e.after.at + length, Len(t))]
    BY DEF Understood, TextOf
  <2>3. n = Number(said, Find(said, Find(said, f.before, ContentLength).after, LineEnd).before)
    BY <1>1, <2>1 DEF LengthIn, ValueOf
  <2>4. f = Find(said, All(said), HeaderEnd)
    BY <1>1 DEF EndIn
  <2>5. c = Find(said, Find(said, f.before, SetCookie).after, <<Semicolon>>).before
    BY <1>1 DEF CookieIn
  <2>6. QED
    BY <1>2, <1>3, <2>2, <2>3, <2>4, <2>5
<1>5. a.status = said[1] /\ a.value = Chars(said, c)
      /\ a.payload = Chars(said, [f.after EXCEPT !.len = n])
  BY <1>3 DEF Answer
<1>6. CASE f.found.len > 0 /\ n \in 0..f.after.len
  <2>1. u = [whole |-> TRUE, answer |-> a, rest |-> r]
    BY <1>4, <1>6
  <2>2. u.whole /\ u.answer = a /\ u.rest = r
    BY <2>1
  <2>3. QED
    BY <1>1, <1>2, <1>3, <1>5, <1>6, <2>2 DEF UnderstoodFrom
<1>7. CASE ~(f.found.len > 0 /\ n \in 0..f.after.len)
  <2>1. u = [whole |-> FALSE]
    BY <1>4, <1>7
  <2>2. ~u.whole
    BY <2>1
  <2>3. QED
    BY <1>1, <1>2, <1>7, <2>2 DEF UnderstoodFrom
<1>8. QED
  BY <1>6, <1>7

\* In line ends alone there is no answer.
LEMMA NothingUnderstood ==
  ASSUME NEW s, s \in Seq(Ends)
  PROVE  ~Understood[s].whole
<1>1. PICK said : said = TextOf(s) /\ said = << >>
  BY NothingLeft
<1>2. s \in Seq(Nat)
  BY LineEndsAreNumbers
<1>3. EndIn(said).found.len = 0
  <2>1. PICK n \in Nat : n = Len(said) /\ n = 0
    BY <1>1
  <2>2. PICK in : in = All(said) /\ in \in Strings /\ in.at = 1 /\ in.len = n
    BY <2>1, AllIs
  <2>3. \A i \in 0..(in.len - 1) : said[in.at + i] # HeaderEnd[1]
    BY <2>1, <2>2
  <2>4. PICK m \in Nat : m = Len(HeaderEnd) /\ m > 0
    BY HeaderEndIs
  <2>5. Find(said, in, HeaderEnd) = NotFound(in)
    BY <2>2, <2>3, <2>4, FindsNone
  <2>6. QED
    BY <2>2, <2>5, NotFoundIs, VoidIs DEF EndIn
<1>4. UnderstoodFrom(Understood[s], said, EndIn(said), LengthIn(said))
  BY <1>1, <1>2, UnderstoodIs
<1>5. QED
  BY <1>3, <1>4 DEF UnderstoodFrom

\* An answer as its bytes stand in memory.
Spoken(t, n, a, h, H, tail, L) ==
  /\ Sane(a) /\ Composed(t, a, h, tail)
  /\ Sent(t, h, H, tail, L) /\ H > 0 /\ n \in Nat /\ n = Len(t)
  /\ Stands(t, h, HeaderPart(H))
  /\ EndIn(t).before = HeaderPart(H)
  /\ EndIn(t).found.len = 4
  /\ EndIn(t).after = BodyPart(H, n)
  /\ BodyPart(H, n).at = H + 5 /\ BodyPart(H, n).len = L

LEMMA SpokenIs ==
  ASSUME NEW a, Sane(a), NEW t, t = Assembled(a)
  PROVE  \E n, h, H, tail, L : Spoken(t, n, a, h, H, tail, L)
<1>1. PICK h, tail : Composed(t, a, h, tail)
  BY ComposedIs
<1> DEFINE H == Len(h)
           L == Len(tail)
           n == Len(t)
<1>2. Lined(h) /\ h # << >> /\ h \in Seq(Nat) /\ tail \in Seq(Nat) /\ t = (h \o HeaderEnd) \o tail
  BY <1>1 DEF Composed, Lined
<1>3. Sent(t, h, H, tail, L)
  BY <1>2, SentIs
<1>4. H \in Nat /\ L \in Nat /\ H > 0
  BY <1>2, LenProperties, EmptySeq
<1> HIDE DEF H, L
<1>5. t \in Seq(Nat) /\ n = H + 4 + L
  BY <1>3 DEF Sent
<1>6. n \in Nat
  BY <1>5, LenProperties
<1>7. Came(t, n, t)
  BY <1>5, <1>6 DEF Came
<1> HIDE DEF n
<1>8. n >= H + 4
  BY <1>4, <1>5
<1>9. /\ EndIn(t).before = HeaderPart(H) /\ EndIn(t).found.len = 4
      /\ EndIn(t).after = BodyPart(H, n) /\ Stands(t, h, HeaderPart(H))
  <2>1. Parted(EndIn(t), t, n, h, H)
    BY <1>2, <1>3, <1>4, <1>7, PartsFound DEF EndIn
  <2>2. QED
    BY <1>8, <2>1 DEF Parted
<1>10. BodyPart(H, n).at = H + 5 /\ BodyPart(H, n).len = n - (H + 4)
  BY <1>4, <1>6, PartsAre
<1>11. n - (H + 4) = L
  BY <1>4, <1>5
<1>12. Spoken(t, n, a, h, H, tail, L)
  BY <1>1, <1>3, <1>4, <1>6, <1>9, <1>10, <1>11 DEF Spoken, n
<1>13. QED
  BY <1>12

\* The length that is sent is read.
LEMMA LengthSpoken ==
  ASSUME NEW t, NEW n, NEW a, NEW h, NEW H, NEW tail, NEW L, Spoken(t, n, a, h, H, tail, L)
  PROVE  LengthIn(t) = IF a = Unread THEN -1 ELSE Len(a.payload)
<1>1. Sane(a) /\ Composed(t, a, h, tail)
  BY DEF Spoken
<1>2. PICK b : b = HeaderPart(H) /\ b = EndIn(t).before /\ Stands(t, h, b)
  BY DEF Spoken
<1>3. PICK l \in (-Half)..(Half - 1) :
        l = a.length /\ l = IF a = Unread THEN -1 ELSE Len(a.payload)
  <2>1. Len(a.payload) \in Nat /\ Len(a.payload) < Half
    BY <1>1, LenProperties DEF Sane
  <2>2. QED
    BY <1>1, <2>1, HalfIs DEF Sane
<1>4. LengthIn(t) = Number(t, ValueOf(t, b, 76))
  BY <1>2 DEF LengthIn
<1>5. PICK X : X = 76
  OBVIOUS
<1>6. CASE a.status = 101
  <2>1. Lacks(h, X)
    BY <1>1, <1>5, <1>6 DEF Composed
  <2>2. ValueOf(t, b, X) = Void /\ Number(t, Void) = 0
    BY <1>2, <2>1, ValueMissing
  <2>3. a # Unread /\ Len(a.payload) = 0
    BY <1>1, <1>6, UnreadIs DEF Sane
  <2>4. QED
    BY <1>4, <1>5, <2>2, <2>3
<1>7. CASE a.status # 101
  <2>1. PICK v : v = Decimal(l) /\ v \in Seq(Plain) /\ v # << >>
    <3>1. l \in Int
      BY HalfIs
    <3>2. QED
      BY <3>1, DecimalIsFigures
  <2>2. HasLine(h, X, v)
    BY <1>1, <1>3, <1>5, <1>7, <2>1 DEF Composed
  <2>3. Reads(t, b, X, v)
    BY <1>2, <2>1, <2>2, ValueRead
  <2>4. ToNumber(v) = l
    BY <2>1, ReadsDecimal
  <2>5. Number(t, ValueOf(t, b, X)) = ToNumber(v)
    BY <2>3 DEF Reads
  <2>6. QED
    BY <1>3, <1>4, <1>5, <2>4, <2>5
<1>8. QED
  BY <1>6, <1>7

\* A semicolon that v ends with, after s that has none, in a part of memory.
Marked(t, c, v, s, n) ==
  /\ c \in Strings /\ s \in Seq(Nat) /\ n \in Nat /\ n = Len(s)
  /\ v[n + 1] = 59 /\ \A i \in 1..n : v[i] = s[i] /\ s[i] # 59
  /\ n + 1 <= c.len /\ \A i \in 1..(n + 1) : t[c.at + i - 1] = v[i]

LEMMA BeforeMark ==
  ASSUME NEW t, NEW c, NEW v, NEW s, NEW n, Marked(t, c, v, s, n)
  PROVE  Chars(t, Find(t, c, <<Semicolon>>).before) = s
<1> USE DEF Marked
<1> DEFINE what == <<Semicolon>>
<1>1. PICK one \in Nat : one = 1 /\ one = Len(what)
  OBVIOUS
<1>2. what[1] = 59
  BY DEF Semicolon
<1> HIDE DEF what
<1>3. c.at \in Nat /\ c.len \in Nat
  BY DEF Strings
<1>4. \A i \in 0..(n - 1) : t[c.at + i] # what[1]
  <2> SUFFICES ASSUME NEW i \in 0..(n - 1) PROVE t[c.at + i] # 59
    BY <1>2
  <2>1. PICK k \in 1..n : k = i + 1
    OBVIOUS
  <2>2. k \in 1..(n + 1) /\ c.at + i = c.at + k - 1
    BY <1>3, <2>1
  <2>3. t[c.at + i] = v[k]
    BY <2>2
  <2>4. QED
    BY <2>1, <2>3
<1>5. \A j \in 1..one : t[c.at + n + j - 1] = what[j]
  <2> SUFFICES ASSUME NEW j \in 1..one PROVE t[c.at + n + j - 1] = what[j]
    OBVIOUS
  <2>1. j = 1 /\ c.at + n + j - 1 = c.at + (n + 1) - 1 /\ n + 1 \in 1..(n + 1)
    BY <1>1, <1>3
  <2>2. t[c.at + (n + 1) - 1] = v[n + 1]
    BY <2>1
  <2>3. QED
    BY <1>2, <2>1, <2>2
<1>6. Comes(t, c, what, n, one)
  BY <1>1, <1>4, <1>5 DEF Comes
<1>7. Find(t, c, what) = FoundAfter(c, n, one)
  BY <1>6, FindsAfter
<1>8. PICK b : b = FoundAfter(c, n, one).before
  OBVIOUS
<1>13. b.at = c.at /\ b.len = n
  BY <1>8 DEF FoundAfter
<1>9. \A i \in 1..Len(s) : t[b.at + i - 1] = s[i]
  <2> SUFFICES ASSUME NEW i \in 1..n PROVE t[c.at + i - 1] = s[i]
    BY <1>13
  <2>1. i \in 1..(n + 1)
    OBVIOUS
  <2>2. QED
    BY <2>1
<1>10. b.at \in Nat /\ b.len = Len(s)
  BY <1>3, <1>13
<1>11. Chars(t, b) = s
  BY <1>9, <1>10, CharsAre
<1>12. QED
  BY <1>7, <1>8, <1>11 DEF what

\* What the client finds of a cookie is one.
LEMMA CookieSpoken ==
  ASSUME NEW t, NEW n, NEW a, NEW h, NEW H, NEW tail, NEW L, Spoken(t, n, a, h, H, tail, L)
  PROVE  Baked(Chars(t, CookieIn(t)))
<1>1. Composed(t, a, h, tail) /\ h \in Seq(Nat)
  BY DEF Spoken, Sent
<1>2. PICK b : b = HeaderPart(H) /\ b = EndIn(t).before /\ Stands(t, h, b)
  BY DEF Spoken
<1>3. PICK X : X = 84
  OBVIOUS
<1>4. CookieIn(t) = Find(t, Find(t, b, <<X, 58, 32>>).after, <<Semicolon>>).before
  BY <1>2, <1>3, NamesAre DEF CookieIn
<1>5. CASE a.value = << >>
  <2>1. Lacks(h, X)
    BY <1>1, <1>3, <1>5 DEF Composed
  <2>2. Find(t, b, <<X, 58, 32>>) = NotFound(b)
    BY <1>2, <2>1, ValueMissing, ZenonT(60)
  <2>3. Find(t, Void, <<Semicolon>>).before = Void
    <3> DEFINE what == <<Semicolon>>
    <3>1. PICK k \in Nat : k = Len(what) /\ k > 0
      OBVIOUS
    <3> HIDE DEF what
    <3>2. Find(t, Void, what).before = Void
      BY <3>1, NothingInVoid, NotFoundIs
    <3>3. QED
      BY <3>2 DEF what
  <2>4. CookieIn(t) = Void
    BY <1>4, <2>2, <2>3, NotFoundIs
  <2>5. QED
    BY <2>4, CharsOfVoid DEF Baked
<1>6. CASE a.value # << >>
  <2>1. PICK f \in Tellings : HasLine(h, X, Stripped(f)) /\ f \in Seq(Figures)
    BY <1>1, <1>3, <1>6, TellingsAre DEF Composed
  <2>2. PICK v, s : v = Stripped(f) /\ s = SessionIs \o f
    OBVIOUS
  <2>3. /\ v \in Seq(Nat) /\ v # << >> /\ s \in Seq(Plain) /\ s \in Seq(Nat)
        /\ Len(v) = Len(s) + 1 /\ v[Len(s) + 1] = 59
        /\ \A i \in 1..Len(s) : v[i] = s[i]
    BY <2>1, <2>2, StrippedIs
  <2>4. PICK k : LineAt(h, X, v, k)
    BY <2>1, <2>2 DEF HasLine
  <2>5. PICK c : c = Rest(h, k)
    OBVIOUS
  <2>6. Find(t, b, <<X, 58, 32>>).after = c
    <3>1. v \in Seq(Nat) /\ v # << >>
      BY <2>3
    <3>2. NameRead(t, h, b, X, k)
      BY <1>2, <2>4, <3>1, AfterName
    <3>3. QED
      BY <2>5, <3>2 DEF NameRead
  <2>7. /\ c \in Strings /\ c.at = k + 4 /\ k \in Nat /\ Len(v) <= c.len
        /\ Len(v) \in Nat /\ Len(h) \in Nat
    <3>1. Len(h) \in Nat /\ Len(v) \in Nat
      BY <1>1, <2>3, LenProperties
    <3>2. k \in Nat /\ k + 3 + Len(v) <= Len(h)
      BY <2>4 DEF LineAt
    <3>3. Len(h) - (k + 3) \in Nat /\ k + 4 \in Nat /\ Len(v) <= Len(h) - (k + 3)
      BY <3>1, <3>2
    <3>4. QED
      BY <2>5, <3>1, <3>2, <3>3 DEF Rest, Strings
  <2>8. PICK m \in Nat : m = Len(s)
    BY <2>3, LenProperties
  <2>9. k + 3 + Len(v) <= Len(h) /\ \A i \in 1..Len(v) : h[k + 3 + i] = v[i]
    BY <2>4 DEF LineAt
  <2>10. \A i \in 1..Len(h) : t[i] = h[i]
    BY <1>2 DEF Stands
  <2>11. \A i \in 1..(m + 1) : t[c.at + i - 1] = v[i]
    <3> SUFFICES ASSUME NEW i \in 1..(m + 1) PROVE t[c.at + i - 1] = v[i]
      OBVIOUS
    <3>1. i \in 1..Len(v) /\ c.at + i - 1 = k + 3 + i
      BY <2>3, <2>7, <2>8
    <3>2. k + 3 + i \in 1..Len(h)
      BY <2>7, <2>9, <3>1
    <3>3. QED
      BY <2>9, <2>10, <3>1, <3>2
  <2>12. \A i \in 1..m : v[i] = s[i] /\ s[i] # 59
    <3> SUFFICES ASSUME NEW i \in 1..m PROVE v[i] = s[i] /\ s[i] # 59
      OBVIOUS
    <3>1. Cookies(s, f, Len(f))
      BY <2>1, <2>2, CookieParts
    <3>2. PICK l \in Nat : l = Len(f) /\ m = 2 + l /\ s[1] = 83 /\ s[2] = 61
      BY <2>8, <3>1 DEF Cookies
    <3>3. \A j \in 1..l : s[2 + j] = f[j]
      BY <3>1, <3>2 DEF Cookies
    <3>4. \A j \in 1..l : f[j] # 59
      <4>1. \A j \in 1..Len(f) : f[j] \in Figures
        BY <2>1, ElementOfSeq
      <4>2. \A x \in Figures : x # 59
        BY DEF Figures, Minus, Zero
      <4>3. QED
        BY <3>2, <4>1, <4>2
    <3>5. i = 1 \/ i = 2 \/ (i - 2 \in 1..l /\ i = 2 + (i - 2))
      BY <3>2
    <3>6. CASE i - 2 \in 1..l /\ i = 2 + (i - 2)
      <4>1. PICK j \in 1..l : i = 2 + j
        BY <3>6
      <4>2. s[i] # 59
        BY <3>3, <3>4, <4>1
      <4>3. QED
        BY <2>3, <2>8, <4>2
    <3>7. QED
      BY <2>3, <2>8, <3>2, <3>5, <3>6
  <2>13. Chars(t, Find(t, c, <<Semicolon>>).before) = s
    <3>1. Len(v) = m + 1 /\ v[m + 1] = 59 /\ m + 1 <= c.len
      BY <2>3, <2>7, <2>8
    <3>2. Marked(t, c, v, s, m)
      BY <2>3, <2>7, <2>8, <2>11, <2>12, <3>1 DEF Marked
    <3>3. QED
      BY <3>2, BeforeMark
  <2>14. Chars(t, CookieIn(t)) = s
    BY <1>4, <2>6, <2>13
  <2>15. QED
    BY <2>2, <2>14 DEF Baked
<1>7. QED
  BY <1>5, <1>6
\* What is understood is the answer, and line ends are left.
Heeds(u, a) ==
  /\ u.whole /\ u.answer.status = a.status /\ u.answer.payload = a.payload
  /\ Baked(u.answer.value) /\ u.rest \in Seq(Ends)

LEMMA HeaderEndInEnds == \A i \in 1..4 : HeaderEnd[i] \in Ends
BY HeaderEndIs DEF Ends

\* The first character of an answer is its status.
LEMMA FirstSpoken ==
  ASSUME NEW t, NEW n, NEW a, NEW h, NEW H, NEW tail, NEW L, Spoken(t, n, a, h, H, tail, L)
  PROVE  t \in Seq(Nat) /\ t # << >> /\ t[1] = a.status /\ t[1] \notin {13, 10}
<1>1. Sane(a) /\ Composed(t, a, h, tail) /\ Sent(t, h, H, tail, L) /\ H > 0
  BY DEF Spoken
<1>2. /\ t \in Seq(Nat) /\ H \in Nat /\ L \in Nat /\ Len(t) = H + 4 + L
      /\ \A i \in 1..H : t[i] = h[i]
  BY <1>1 DEF Sent
<1>3. h[1] = a.status
  BY <1>1 DEF Composed
<1>4. 1 \in 1..H
  BY <1>1, <1>2
<1>5. t[1] = a.status
  BY <1>2, <1>3, <1>4
<1>6. Len(t) > 0
  BY <1>1, <1>2
<1>7. t # << >>
  BY <1>6, EmptySeq
<1>8. a.status \notin {13, 10}
  <2>1. a.status \in {101, 200, 400, 404}
    BY <1>1 DEF Sane
  <2>2. QED
    BY <2>1
<1>9. QED
  BY <1>2, <1>5, <1>7, <1>8

\* The payload stands after the header's end, at its length.
LEMMA PayloadSpoken ==
  ASSUME NEW t, NEW n, NEW a, NEW h, NEW H, NEW tail, NEW L, Spoken(t, n, a, h, H, tail, L),
         NEW p, p = Len(a.payload), NEW b, b = EndIn(t).after
  PROVE  p \in Nat /\ p <= b.len /\ Chars(t, [b EXCEPT !.len = p]) = a.payload
<1>1. Sane(a) /\ Composed(t, a, h, tail) /\ Sent(t, h, H, tail, L)
  BY DEF Spoken
<1>2. /\ H \in Nat /\ L \in Nat /\ L = Len(tail)
      /\ \A i \in 1..L : t[H + 4 + i] = tail[i]
  BY <1>1 DEF Sent
<1>3. b = BodyPart(H, n) /\ b.at = H + 5 /\ b.len = L
  BY DEF Spoken
<1>4. PICK v : v = a.payload /\ v \in Seq(Nat) /\ p = Len(v)
  BY <1>1 DEF Sane
<1>5. p \in Nat
  BY <1>4, LenProperties
<1>6. p <= L /\ \A i \in 1..p : tail[i] = v[i]
  <2>1. CASE a.value = << >>
    <3>1. tail = v
      BY <1>1, <1>4, <2>1 DEF Composed
    <3>2. p = L
      BY <1>2, <1>4, <3>1
    <3>3. QED
      BY <1>2, <3>1, <3>2
  <2>2. CASE a.value # << >>
    <3>1. p = 0
      BY <1>1, <1>4, <2>2 DEF Sane
    <3>2. QED
      BY <1>2, <3>1
  <2>3. QED
    BY <2>1, <2>2
<1>7. PICK c : c = [b EXCEPT !.len = p] /\ c.at = H + 5 /\ c.len = p
  <2>1. PICK x, y : b = [at |-> x, len |-> y] /\ x = H + 5
    BY <1>3 DEF BodyPart
  <2>2. [b EXCEPT !.len = p] = [at |-> x, len |-> p]
    BY <2>1
  <2>3. QED
    BY <2>1, <2>2
<1>8. \A i \in 1..Len(v) : t[c.at + i - 1] = v[i]
  <2> SUFFICES ASSUME NEW i \in 1..p PROVE t[c.at + i - 1] = v[i]
    BY <1>4
  <2>1. i \in 1..L
    BY <1>2, <1>5, <1>6
  <2>4. c.at + i - 1 = H + 4 + i
    <3>1. c.at = H + 5 /\ H \in Nat /\ i \in Nat
      BY <1>2, <1>5, <1>7
    <3>2. QED
      BY <3>1
  <2>2. t[H + 4 + i] = tail[i]
    BY <1>2, <2>1
  <2>3. QED
    BY <1>6, <2>2, <2>4
<1>9. c.at \in Nat /\ c.len = Len(v)
  BY <1>2, <1>4, <1>7
<1>10. Chars(t, c) = v
  BY <1>4, <1>8, <1>9, CharsAre, SMTT(30)
<1>11. QED
  BY <1>3, <1>4, <1>5, <1>6, <1>7, <1>10

\* After it there are line ends.
LEMMA RestSpoken ==
  ASSUME NEW t, NEW n, NEW a, NEW h, NEW H, NEW tail, NEW L, Spoken(t, n, a, h, H, tail, L),
         NEW p, p = Len(a.payload), NEW b, b = EndIn(t).after
  PROVE  SubSeq(t, b.at + p, Len(t)) \in Seq(Ends)
<1>1. Sane(a) /\ Composed(t, a, h, tail) /\ Sent(t, h, H, tail, L)
  BY DEF Spoken
<1>2. /\ H \in Nat /\ L \in Nat /\ L = Len(tail) /\ Len(t) = H + 4 + L
      /\ \A i \in 1..L : t[H + 4 + i] = tail[i]
  BY <1>1 DEF Sent
<1>3. b.at = H + 5
  BY DEF Spoken
<1>4. PICK z : z = Len(t) /\ z = H + 4 + L
  BY <1>2
<1>5. z \in Int
  BY <1>2, <1>4
<1>6. CASE a.value = << >>
  <2>1. tail = a.payload
    BY <1>1, <1>6 DEF Composed
  <2>2. p = L
    BY <1>2, <2>1
  <2>3. PICK x : x = b.at + p /\ x = H + 5 + L
    BY <1>3, <2>2
  <2>4. x \in Int /\ z < x
    BY <1>2, <1>4, <2>3
  <2>5. SubSeq(t, x, z) = << >>
    BY <1>5, <2>4, SubSeqEmpty
  <2>6. << >> \in Seq(Ends)
    BY EmptySeq
  <2>7. QED
    BY <1>4, <2>3, <2>5, <2>6
<1>7. CASE a.value # << >>
  <2>1. tail = HeaderEnd
    BY <1>1, <1>7 DEF Composed
  <2>2. L = 4
    BY <1>2, <2>1, HeaderEndIs
  <2>3. p = 0
    <3>1. a.payload = << >>
      BY <1>1, <1>7 DEF Sane
    <3>2. QED
      BY <3>1
  <2>4. PICK x : x = b.at + p /\ x = H + 5
    BY <1>2, <1>3, <2>3
  <2>5. x \in Int
    BY <1>2, <2>4
  <2>6. \A i \in x..z : t[i] \in Ends
    <3> SUFFICES ASSUME NEW i \in x..z PROVE t[i] \in Ends
      OBVIOUS
    <3>1. PICK j \in 1..4 : i = H + 4 + j
      <4>1. i - (H + 4) \in 1..4 /\ i = H + 4 + (i - (H + 4))
        BY <1>2, <1>4, <2>2, <2>4
      <4>2. QED
        BY <4>1
    <3>2. t[H + 4 + j] = tail[j]
      BY <1>2, <2>2
    <3>3. QED
      BY <2>1, <3>1, <3>2, HeaderEndInEnds
  <2>7. SubSeq(t, x, z) \in Seq(Ends)
    BY <1>5, <2>5, <2>6, SubSeqProperties
  <2>8. QED
    BY <1>4, <2>4, <2>7
<1>8. QED
  BY <1>6, <1>7

LEMMA AnswerUnderstood ==
  ASSUME NEW a, Sane(a), NEW lead, lead \in Seq(Ends)
  PROVE  IF a = Unread THEN ~Understood[lead \o Assembled(a)].whole
         ELSE Heeds(Understood[lead \o Assembled(a)], a)
<1>1. PICK t : t = Assembled(a)
  OBVIOUS
<1>2. PICK n, h, H, tail, L : Spoken(t, n, a, h, H, tail, L)
  BY <1>1, SpokenIs
<1>3. t \in Seq(Nat) /\ t # << >> /\ t[1] = a.status /\ t[1] \notin {13, 10}
  BY <1>2, FirstSpoken
<1>4. PICK s : s = lead \o t
  OBVIOUS
<1>5. s \in Seq(Nat)
  BY <1>3, <1>4, LineEndsAreNumbers, ConcatProperties
<1>6. t = TextOf(s)
  BY <1>3, <1>4, LineEndsLeftOut
<1>7. PICK u : u = Understood[s]
  OBVIOUS
<1>8. PICK f, p : f = EndIn(t) /\ p = LengthIn(t)
  OBVIOUS
<1>9. UnderstoodFrom(u, t, f, p)
  BY <1>5, <1>6, <1>7, <1>8, UnderstoodIs
<1>10. p = IF a = Unread THEN -1 ELSE Len(a.payload)
  BY <1>2, <1>8, LengthSpoken
<1>11. CASE a = Unread
  <2>1. ~(p \in 0..f.after.len)
    BY <1>10, <1>11
  <2>2. ~u.whole
    BY <1>9, <2>1 DEF UnderstoodFrom
  <2>3. QED
    BY <1>1, <1>4, <1>7, <1>11, <2>2
<1>12. CASE a # Unread
  <2>1. p = Len(a.payload)
    BY <1>10, <1>12
  <2>2. PICK b : b = f.after
    OBVIOUS
  <2>3. p \in Nat /\ p <= b.len /\ Chars(t, [b EXCEPT !.len = p]) = a.payload
    BY <1>2, <1>8, <2>1, <2>2, PayloadSpoken
  <2>4. SubSeq(t, b.at + p, Len(t)) \in Seq(Ends)
    BY <1>2, <1>8, <2>1, <2>2, RestSpoken
  <2>5. Baked(Chars(t, CookieIn(t)))
    BY <1>2, CookieSpoken
  <2>6. f.found.len > 0 /\ p \in 0..f.after.len
    <3>1. f.found.len = 4 /\ b.len = L /\ L \in Nat
      BY <1>2, <1>8, <2>2 DEF Spoken, Sent
    <3>2. QED
      BY <2>2, <2>3, <3>1
  <2>7. u.whole
    BY <1>9, <2>6 DEF UnderstoodFrom
  <2>8. /\ u.answer.status = t[1]
        /\ u.answer.value = Chars(t, CookieIn(t))
        /\ u.answer.payload = Chars(t, [f.after EXCEPT !.len = p])
        /\ u.rest = SubSeq(t, f.after.at + p, Len(t))
    BY <1>9, <2>7 DEF UnderstoodFrom
  <2>9. Heeds(u, a)
    BY <1>3, <2>2, <2>3, <2>4, <2>5, <2>7, <2>8 DEF Heeds
  <2>10. QED
    BY <1>1, <1>4, <1>7, <1>12, <2>9
<1>13. QED
  BY <1>11, <1>12
-----------------------------------------------------------------------------
(* The connection *)

\* A text cut in two.
Cut(s, a, b, n, l) ==
  /\ a \in Seq(Nat) /\ b \in Seq(Nat) /\ a \o b = s
  /\ Len(a) = n /\ l \in Nat /\ l = Len(s)
  /\ n < l => b # << >>
  /\ n = l => a = s /\ b = << >>

LEMMA CutIs ==
  ASSUME NEW s, s \in Seq(Nat), NEW n \in 1..Len(s)
  PROVE  Cut(s, SubSeq(s, 1, n), SubSeq(s, n + 1, Len(s)), n, Len(s))
<1>1. PICK l \in Nat : l = Len(s)
  BY LenProperties
<1>2. n \in Nat /\ n <= l /\ n + 1 \in Int /\ l \in Int /\ 1 \in Int
  BY <1>1
<1> DEFINE a == SubSeq(s, 1, n)
           b == SubSeq(s, n + 1, l)
<1>3. \A i \in 1..l : s[i] \in Nat
  BY <1>1, ElementOfSeq
<1>4. a \in Seq(Nat) /\ Len(a) = n /\ \A i \in 1..n : a[i] = s[i]
  <2>1. \A i \in 1..n : s[i] \in Nat
    BY <1>2, <1>3
  <2>2. /\ a \in Seq(Nat) /\ Len(a) = IF 1 <= n THEN n - 1 + 1 ELSE 0
        /\ \A i \in 1..(n - 1 + 1) : a[i] = s[1 + i - 1]
    BY <1>2, <2>1, SubSeqProperties
  <2>3. QED
    BY <1>2, <2>2
<1>5. b \in Seq(Nat) /\ Len(b) = l - n /\ \A i \in 1..(l - n) : b[i] = s[n + i]
  <2>1. \A i \in (n + 1)..l : s[i] \in Nat
    BY <1>2, <1>3
  <2>2. PICK x \in Int : x = n + 1
    BY <1>2
  <2>3. /\ SubSeq(s, x, l) \in Seq(Nat)
        /\ Len(SubSeq(s, x, l)) = IF x <= l THEN l - x + 1 ELSE 0
        /\ \A i \in 1..(l - x + 1) : SubSeq(s, x, l)[i] = s[x + i - 1]
    BY <1>2, <2>1, <2>2, SubSeqProperties
  <2>4. /\ l - x + 1 = l - n /\ (IF x <= l THEN l - x + 1 ELSE 0) = l - n
        /\ \A i \in 1..(l - n) : x + i - 1 = n + i
    BY <1>2, <2>2
  <2>5. QED
    BY <2>2, <2>3, <2>4
<1> HIDE DEF a, b
<1>6. a \o b = s
  <2> DEFINE t == a \o b
  <2>1. Joint(t, a, b, n, l - n)
    BY <1>4, <1>5, JointIs
  <2> HIDE DEF t
  <2>2. /\ t \in Seq(Nat) /\ Len(t) = n + (l - n) /\ l - n \in Nat
        /\ \A i \in 1..n : t[i] = a[i]
        /\ \A i \in 1..(l - n) : t[n + i] = b[i]
    BY <2>1 DEF Joint
  <2>3. \A i \in 1..l : t[i] = s[i]
    <3> SUFFICES ASSUME NEW i \in 1..l PROVE t[i] = s[i]
      OBVIOUS
    <3>1. CASE i <= n
      <4>1. i \in 1..n
        BY <1>2, <3>1
      <4>2. QED
        BY <1>4, <2>2, <4>1
    <3>2. CASE i > n
      <4>1. PICK j \in 1..(l - n) : i = n + j
        <5>1. i - n \in 1..(l - n) /\ i = n + (i - n)
          BY <1>2, <3>2
        <5>2. QED
          BY <5>1
      <4>2. QED
        BY <1>5, <2>2, <4>1
    <3>3. QED
      BY <1>2, <3>1, <3>2
  <2>4. Len(t) = l
    BY <1>2, <2>2
  <2>5. t = [i \in 1..l |-> t[i]] /\ s = [i \in 1..l |-> s[i]]
    BY <1>1, <2>2, <2>4, SeqDef
  <2>6. t = s
    BY <2>3, <2>5
  <2>7. QED
    BY <2>6 DEF t
<1>7. ASSUME n < l PROVE b # << >>
  <2>1. Len(b) > 0
    BY <1>2, <1>5, <1>7
  <2>2. QED
    BY <2>1
<1>8. ASSUME n = l PROVE a = s /\ b = << >>
  <2>1. a = s
    BY <1>1, <1>8, SubSeqFull DEF a
  <2>2. Len(b) = 0
    BY <1>2, <1>5, <1>8
  <2>3. b = << >>
    BY <1>5, <2>2, EmptySeq
  <2>4. QED
    BY <2>1, <2>3
<1>9. Cut(s, a, b, n, l)
  BY <1>1, <1>4, <1>5, <1>6, <1>7, <1>8 DEF Cut
<1>10. QED
  BY <1>1, <1>9 DEF a, b

\* What is left and what came of it: all of it, once nothing is left.
Arrives(r, s, b, a, c) ==
  /\ b \o a \in Seq(Nat) /\ (b \o a) \o c = r
  /\ c # << >> => Came(b \o a, Len(b \o a), r) /\ Len(b \o a) < Len(r)
  /\ c = << >> => b \o a = r

LEMMA ArrivesIs ==
  ASSUME NEW r, NEW s, s \in Seq(Nat), NEW b, b \in Seq(Nat), b \o s = r,
         NEW a, NEW c, NEW n, NEW l, Cut(s, a, c, n, l)
  PROVE  Arrives(r, s, b, a, c)
<1>1. a \in Seq(Nat) /\ c \in Seq(Nat) /\ a \o c = s
  BY DEF Cut
<1>2. PICK t : t = b \o a /\ t \in Seq(Nat)
  <2>1. b \o a \in Seq(Nat)
    BY <1>1, ConcatProperties
  <2>2. QED
    BY <2>1
<1>3. t \o c = r
  <2>1. Regroups(b, a, c)
    BY <1>1, AlwaysRegroups
  <2>2. QED
    BY <1>1, <1>2, <2>1 DEF Regroups
<1>4. PICK x, y : x = Len(t) /\ y = Len(c)
  OBVIOUS
<1>5. Joint(t \o c, t, c, x, y)
  BY <1>1, <1>2, <1>4, JointIs
<1>6. /\ r \in Seq(Nat) /\ x \in Nat /\ y \in Nat /\ Len(r) = x + y
      /\ \A i \in 1..x : r[i] = t[i]
  BY <1>3, <1>5 DEF Joint
<1>7. ASSUME c # << >> PROVE Came(t, x, r) /\ x < Len(r)
  <2>1. y > 0
    BY <1>1, <1>4, <1>6, <1>7, EmptySeq
  <2>2. x < Len(r) /\ x <= Len(r)
    BY <1>6, <2>1
  <2>3. QED
    BY <1>2, <1>4, <1>6, <2>2 DEF Came
<1>8. ASSUME c = << >> PROVE t = r
  BY <1>2, <1>3, <1>8, ConcatEmptySeq
<1>9. QED
  BY <1>2, <1>3, <1>4, <1>7, <1>8 DEF Arrives
-----------------------------------------------------------------------------
(* The invariant *)

\* One request at a time.
Counted ==
  /\ asked \in Nat /\ carried \in Nat /\ answered \in Nat
  /\ answered <= carried /\ carried <= asked /\ asked <= answered + 1

\* A request comes, or nothing does.
Coming ==
  /\ carried < asked =>
       /\ message \in Messages /\ outcome = Unknown
       /\ unsent \in Seq(Nat) /\ unsent # << >> /\ buffer \in Seq(Nat)
       /\ buffer \o unsent = Rendered(message)
  /\ carried = asked => unsent = << >> /\ buffer = << >>

\* What was carried out is what was asked for.
CarriedOut ==
  outcome # Unknown =>
    /\ outcome.payload = message.body /\ Dispatched(message, outcome.fun)
    /\ answered < asked => outcome.session = Own(message)

\* The answer is on its way, behind line ends, or only line ends are.
Spoke(s, a) == Sane(a) /\ \E lead \in Seq(Ends) : s = lead \o Assembled(a)

Outgoing ==
  /\ carried = answered => stream \in Seq(Ends)
  /\ carried > answered => Spoke(stream, outcome.answer)

\* What was heard is what was answered.
HeardRight ==
  answered = asked /\ heard # Nothing =>
    /\ heard.status = outcome.answer.status
    /\ heard.payload = outcome.answer.payload

RInv ==
  Counted /\ Coming /\ Baked(jar) /\ CarriedOut /\ Outgoing /\ HeardRight

LEMMA RInit == Init => RInv
<1> SUFFICES ASSUME Init PROVE RInv
  OBVIOUS
<1> USE DEF Init
<1>1. Counted
  BY DEF Counted
<1>2. Coming
  BY DEF Coming
<1>3. Baked(jar)
  BY DEF Baked
<1>4. CarriedOut
  BY DEF CarriedOut
<1>5. Outgoing
  <2>1. stream \in Seq(Ends)
    BY EmptySeq
  <2>2. QED
    BY <2>1 DEF Outgoing
<1>6. HeardRight
  BY DEF HeardRight
<1>7. QED
  BY <1>1, <1>2, <1>3, <1>4, <1>5, <1>6 DEF RInv

\* What is rendered, and whose session it is, change with the request and the jar.
LEMMA StillRendered ==
  ASSUME UNCHANGED jar
  PROVE  Rendered(message)' = Rendered(message')
BY DEF Rendered, HeaderLine

LEMMA StillOwn ==
  ASSUME UNCHANGED <<jar, message>>
  PROVE  Own(message)' = Own(message)
BY DEF Own

\* Asking begins a request on a connection that holds none.
LEMMA AskKeeps ==
  ASSUME NEW m \in Messages, RInv, Ask(m)
  PROVE  RInv'
<1>1. /\ answered = asked /\ message' = m /\ unsent' = Rendered(m)
      /\ outcome' = Unknown /\ heard' = Nothing /\ asked' = asked + 1
      /\ UNCHANGED <<buffer, stream, jar, carried, answered>>
  BY DEF Ask
<1>2. Counted /\ Coming /\ Baked(jar) /\ Outgoing
  BY DEF RInv
<1>3. /\ asked \in Nat /\ carried \in Nat /\ answered \in Nat
      /\ carried = asked /\ answered = carried
  BY <1>1, <1>2 DEF Counted
<1>4. buffer = << >> /\ stream \in Seq(Ends)
  BY <1>2, <1>3 DEF Coming, Outgoing
<1>5. Counted'
  BY <1>1, <1>3 DEF Counted
<1>6. Rendered(m) \in Seq(Nat) /\ Rendered(m) # << >>
  <2>1. Proper(m)
    BY MessagesAreProper
  <2>2. PICK h, H, B : Request(m, h, H, B)
    BY <1>2, <2>1, RequestIs
  <2>3. PICK r : r = Rendered(m)
    OBVIOUS
  <2>4. r \in Seq(Nat) /\ H \in Nat /\ B \in Nat /\ Len(r) = H + 4 + B
    BY <2>2, <2>3 DEF Request, Sent
  <2>5. Len(r) > 0
    BY <2>4
  <2>6. QED
    BY <2>3, <2>4, <2>5
<1>7. Coming'
  <2>1. PICK r : r = Rendered(m) /\ r \in Seq(Nat) /\ r # << >>
    BY <1>6
  <2>2. Rendered(message)' = r
    BY <1>1, <2>1, StillRendered
  <2>3. unsent' = r /\ buffer' = << >> /\ << >> \o r = r /\ << >> \in Seq(Nat)
    BY <1>1, <1>4, <2>1, ConcatEmptySeq
  <2>4. message' \in Messages /\ outcome' = Unknown
    BY <1>1
  <2>5. (buffer \o unsent)' = Rendered(message)'
    BY <2>2, <2>3
  <2>6. ~(carried' = asked')
    BY <1>1, <1>3
  <2>7. QED
    BY <2>1, <2>3, <2>4, <2>5, <2>6 DEF Coming
<1>8. CarriedOut'
  BY <1>1 DEF CarriedOut, Unknown
<1>9. Outgoing'
  <2>1. carried' = answered' /\ ~(carried' > answered') /\ stream' \in Seq(Ends)
    BY <1>1, <1>3, <1>4
  <2>2. QED
    BY <2>1 DEF Outgoing
<1>10. HeardRight'
  BY <1>1 DEF HeardRight, Nothing
<1>11. Baked(jar)'
  BY <1>1, <1>2 DEF Baked
<1>12. QED
  BY <1>5, <1>7, <1>8, <1>9, <1>10, <1>11 DEF RInv

\* What comes before the last character of a request.
LEMMA PartKeeps ==
  ASSUME RInv, carried < asked,
         NEW mem, mem \in Seq(Nat), buffer' = mem, unsent' # << >>, unsent' \in Seq(Nat),
         mem \o unsent' = Rendered(message),
         UNCHANGED <<outcome, stream, carried, message, heard, jar, asked, answered>>
  PROVE  RInv'
<1>1. Counted /\ Coming /\ Baked(jar) /\ CarriedOut /\ Outgoing /\ HeardRight
  BY DEF RInv
<1>2. Counted'
  BY <1>1 DEF Counted
<1>3. Coming'
  <2>1. asked \in Nat /\ carried \in Nat
    BY <1>1 DEF Counted
  <2>2. message' \in Messages /\ outcome' = Unknown
    BY <1>1 DEF Coming
  <2>3. Rendered(message)' = Rendered(message)
    BY StillRendered
  <2>4. (buffer \o unsent)' = Rendered(message)'
    BY <2>3
  <2>5. ~(carried' = asked') /\ buffer' \in Seq(Nat)
    BY <2>1
  <2>6. QED
    BY <2>2, <2>4, <2>5 DEF Coming
<1>4. CarriedOut'
  <2>1. outcome' = Unknown
    BY <1>1 DEF Coming
  <2>2. QED
    BY <2>1 DEF CarriedOut, Unknown
<1>5. Outgoing'
  BY <1>1 DEF Outgoing
<1>6. HeardRight'
  BY <1>1 DEF HeardRight
<1>7. Baked(jar)'
  BY <1>1 DEF Baked
<1>8. QED
  BY <1>2, <1>3, <1>4, <1>5, <1>6, <1>7 DEF RInv

\* The last character: the request is carried out.
LEMMA WholeKeeps ==
  ASSUME RInv, carried < asked, NEW u, FoundIn(u, message), NEW a \in Answers(u.fun),
         outcome' = [fun |-> u.fun, payload |-> u.payload,
                     session |-> u.session, answer |-> a],
         stream' = stream \o Assembled(a), buffer' = << >>, unsent' = << >>,
         carried' = carried + 1,
         UNCHANGED <<message, heard, jar, asked, answered>>
  PROVE  RInv'
<1>1. Counted /\ Coming /\ Baked(jar) /\ Outgoing
  BY DEF RInv
<1>2. /\ asked \in Nat /\ carried \in Nat /\ answered \in Nat
      /\ answered = carried /\ asked = carried + 1
  BY <1>1 DEF Counted
<1>3. Counted'
  BY <1>2 DEF Counted
<1>4. Coming'
  BY <1>2 DEF Coming
<1>5. /\ outcome'.fun = u.fun /\ outcome'.payload = u.payload
      /\ outcome'.session = u.session /\ outcome'.answer = a
  OBVIOUS
<1>6. /\ u.payload = message.body /\ u.session = Own(message)
      /\ Dispatched(message, u.fun) /\ u.fun \in Handlers
  BY DEF FoundIn, Dispatched
<1>7. CarriedOut'
  <2>1. outcome'.payload = message'.body /\ outcome'.session = Own(message)'
    BY <1>5, <1>6, StillOwn
  <2>2. Dispatched(message', outcome'.fun)
    BY <1>5, <1>6
  <2>3. QED
    BY <2>1, <2>2 DEF CarriedOut
<1>8. Outgoing'
  <2>1. Sane(a)
    BY <1>6, AnswersAreSane
  <2>2. stream \in Seq(Ends)
    BY <1>1, <1>2 DEF Outgoing
  <2>3. Spoke(stream', a)
    BY <2>1, <2>2 DEF Spoke
  <2>4. Spoke(stream', outcome'.answer)
    BY <1>5, <2>3
  <2>5. ~(carried' = answered')
    BY <1>2
  <2>6. QED
    BY <2>4, <2>5 DEF Outgoing
<1>9. HeardRight'
  <2>1. ~(answered' = asked')
    BY <1>2
  <2>2. QED
    BY <2>1 DEF HeardRight
<1>10. Baked(jar)'
  BY <1>1 DEF Baked
<1>11. QED
  BY <1>3, <1>4, <1>7, <1>8, <1>9, <1>10 DEF RInv
\* What a piece of a request makes of the buffer.
Piece(n) == buffer \o SubSeq(unsent, 1, n)
Remains(n) == SubSeq(unsent, n + 1, Len(unsent))

LEMMA PieceArrives ==
  ASSUME RInv, NEW n \in 1..Len(unsent)
  PROVE  /\ carried < asked /\ Proper(message) /\ Baked(jar) /\ Remains(n) \in Seq(Nat)
         /\ Arrives(Rendered(message), unsent, buffer, SubSeq(unsent, 1, n), Remains(n))
<1>1. Counted /\ Coming /\ Baked(jar)
  BY DEF RInv
<1>2. carried < asked
  <2>1. unsent # << >>
    <3> SUFFICES ASSUME unsent = << >> PROVE FALSE
      OBVIOUS
    <3>1. Len(unsent) = 0
      OBVIOUS
    <3>2. n \in 1..0
      BY <3>1
    <3>3. QED
      BY <3>2
  <2>2. ~(carried = asked)
    BY <1>1, <2>1 DEF Coming
  <2>3. QED
    BY <1>1, <2>2 DEF Counted
<1>3. /\ message \in Messages /\ unsent \in Seq(Nat) /\ buffer \in Seq(Nat)
      /\ buffer \o unsent = Rendered(message)
  BY <1>1, <1>2 DEF Coming
<1>4. PICK r, a, c, l : /\ r = Rendered(message) /\ a = SubSeq(unsent, 1, n)
                        /\ c = Remains(n) /\ l = Len(unsent)
  OBVIOUS
<1>5. Cut(unsent, a, c, n, l)
  BY <1>3, <1>4, CutIs DEF Remains
<1>6. Arrives(r, unsent, buffer, a, c)
  BY <1>3, <1>4, <1>5, ArrivesIs
<1>7. c \in Seq(Nat)
  BY <1>5 DEF Cut
<1>8. QED
  BY <1>1, <1>2, <1>3, <1>4, <1>6, <1>7, MessagesAreProper

\* Only the last piece of a request makes it whole.
LEMMA PieceFound ==
  ASSUME RInv, NEW n \in 1..Len(unsent)
  PROVE  /\ Piece(n) \in Seq(Nat) /\ Piece(n) \o Remains(n) = Rendered(message)
         /\ Crunched[Piece(n)].whole => Remains(n) = << >> /\ FoundIn(Crunched[Piece(n)], message)
         /\ ~Crunched[Piece(n)].whole => Remains(n) # << >>
<1>1. /\ Proper(message) /\ Baked(jar)
      /\ Arrives(Rendered(message), unsent, buffer, SubSeq(unsent, 1, n), Remains(n))
  BY PieceArrives
<1>2. PICK m, r, x, c, k : /\ m = message /\ r = Rendered(m) /\ x = Piece(n)
                           /\ c = Remains(n) /\ k = Len(x)
  OBVIOUS
<1>3. /\ x \in Seq(Nat) /\ x \o c = r
      /\ c # << >> => Came(x, k, r) /\ k < Len(r)
      /\ c = << >> => x = r
  BY <1>1, <1>2 DEF Arrives, Piece
<1>4. ASSUME c # << >> PROVE ~Crunched[x].whole
  <2>1. Came(x, k, Rendered(m)) /\ k < Len(Rendered(m))
    BY <1>2, <1>3, <1>4
  <2>2. QED
    BY <1>1, <1>2, <2>1, CrunchedShort
<1>5. ASSUME c = << >> PROVE FoundIn(Crunched[x], m)
  <2>1. x = Rendered(m)
    BY <1>2, <1>3, <1>5
  <2>2. QED
    BY <1>1, <1>2, <2>1, CrunchedWhole
<1>6. FoundIn(Crunched[x], m) => Crunched[x].whole
  BY DEF FoundIn
<1>7. QED
  BY <1>2, <1>3, <1>4, <1>5, <1>6

LEMMA OnDataKeeps ==
  ASSUME RInv, NEW n \in 1..Len(unsent), OnData(n)
  PROVE  RInv'
<1>1. PICK x, c, u : x = Piece(n) /\ c = Remains(n) /\ u = Crunched[x]
  OBVIOUS
<1>2. carried < asked /\ c \in Seq(Nat)
  BY <1>1, PieceArrives
<1>3. /\ x \in Seq(Nat) /\ x \o c = Rendered(message)
      /\ u.whole => c = << >> /\ FoundIn(u, message)
      /\ ~u.whole => c # << >>
  BY <1>1, PieceFound
<1>4. /\ unsent' = c /\ UNCHANGED <<message, heard, jar, asked, answered>>
      /\ \/ /\ ~u.whole
            /\ buffer' = x
            /\ UNCHANGED <<outcome, stream, carried>>
         \/ /\ u.whole
            /\ \E a \in Answers(u.fun) :
                 /\ outcome' = [fun |-> u.fun, payload |-> u.payload,
                                session |-> u.session, answer |-> a]
                 /\ stream' = stream \o Assembled(a)
            /\ buffer' = << >>
            /\ carried' = carried + 1
  BY <1>1 DEF OnData, Piece, Remains
<1>5. CASE ~u.whole
  <2>1. unsent' # << >> /\ unsent' \in Seq(Nat) /\ x \o unsent' = Rendered(message)
    BY <1>2, <1>3, <1>4, <1>5
  <2>2. buffer' = x /\ UNCHANGED <<outcome, stream, carried, message, heard, jar, asked, answered>>
    BY <1>4, <1>5
  <2>3. QED
    BY <1>2, <1>3, <2>1, <2>2, PartKeeps
<1>6. CASE u.whole
  <2>1. FoundIn(u, message) /\ unsent' = << >> /\ buffer' = << >> /\ carried' = carried + 1
    BY <1>3, <1>4, <1>6
  <2>2. PICK a \in Answers(u.fun) :
          /\ outcome' = [fun |-> u.fun, payload |-> u.payload,
                         session |-> u.session, answer |-> a]
          /\ stream' = stream \o Assembled(a)
    BY <1>4, <1>6
  <2>3. UNCHANGED <<message, heard, jar, asked, answered>>
    BY <1>4
  <2>4. QED
    BY <1>2, <2>1, <2>2, <2>3, WholeKeeps
<1>7. QED
  BY <1>5, <1>6

\* There is an answer to understand when one is on its way, and only then.
LEMMA UnderstoodWhenServed ==
  ASSUME RInv
  PROVE  /\ carried > answered =>
              IF outcome.answer = Unread THEN ~Understood[stream].whole
              ELSE Heeds(Understood[stream], outcome.answer)
         /\ Understood[stream].whole => carried > answered
<1>1. Counted /\ Outgoing
  BY DEF RInv
<1>2. ASSUME carried > answered
      PROVE  IF outcome.answer = Unread THEN ~Understood[stream].whole
             ELSE Heeds(Understood[stream], outcome.answer)
  <2>1. PICK a, s : a = outcome.answer /\ s = stream
    OBVIOUS
  <2>2. Sane(a) /\ \E lead \in Seq(Ends) : s = lead \o Assembled(a)
    BY <1>1, <1>2, <2>1 DEF Outgoing, Spoke
  <2>3. IF a = Unread THEN ~Understood[s].whole ELSE Heeds(Understood[s], a)
    BY <2>2, AnswerUnderstood
  <2>4. QED
    BY <2>1, <2>3
<1>3. ASSUME Understood[stream].whole PROVE carried > answered
  <2>1. carried # answered
    <3> SUFFICES ASSUME carried = answered PROVE FALSE
      OBVIOUS
    <3>1. PICK s : s = stream /\ s \in Seq(Ends)
      BY <1>1 DEF Outgoing
    <3>2. QED
      BY <1>3, <3>1, NothingUnderstood
  <2>2. QED
    BY <1>1, <2>1 DEF Counted
<1>4. QED
  BY <1>2, <1>3

LEMMA HearKeeps ==
  ASSUME RInv, Hear
  PROVE  RInv'
<1>1. Counted /\ Coming /\ Baked(jar) /\ CarriedOut
  BY DEF RInv
<1>2. PICK u : u = Understood[stream]
  OBVIOUS
<1>3. /\ answered < asked /\ u.whole /\ heard' = u.answer
      /\ jar' = IF u.answer.value = << >> THEN jar ELSE u.answer.value
      /\ stream' = u.rest /\ answered' = answered + 1
      /\ UNCHANGED <<message, unsent, buffer, outcome, carried, asked>>
  BY <1>2 DEF Hear, server
<1>4. carried > answered /\ Heeds(u, outcome.answer)
  BY <1>2, <1>3, UnderstoodWhenServed
<1>5. /\ u.answer.status = outcome.answer.status
      /\ u.answer.payload = outcome.answer.payload
      /\ Baked(u.answer.value) /\ u.rest \in Seq(Ends)
  BY <1>4 DEF Heeds
<1>6. /\ asked \in Nat /\ carried \in Nat /\ answered \in Nat
      /\ carried = asked /\ asked = answered + 1
  BY <1>1, <1>4 DEF Counted
<1>7. /\ asked' = asked /\ carried' = asked /\ answered' = asked
  BY <1>3, <1>6
<1>8. Counted'
  BY <1>6, <1>7 DEF Counted
<1>9. Coming'
  <2>1. unsent = << >> /\ buffer = << >>
    BY <1>1, <1>6 DEF Coming
  <2>2. unsent' = << >> /\ buffer' = << >>
    BY <1>3, <2>1
  <2>3. ~(carried' < asked')
    BY <1>6, <1>7
  <2>4. QED
    BY <2>2, <2>3 DEF Coming
<1>10. Baked(jar)'
  <2>1. PICK v : v = u.answer.value /\ Baked(v)
    BY <1>5
  <2>2. jar' = v \/ jar' = jar
    BY <1>3, <2>1
  <2>3. Baked(jar')
    BY <1>1, <2>1, <2>2
  <2>4. QED
    BY <2>3
<1>11. CarriedOut'
  <2>1. outcome # Unknown => outcome.payload = message.body /\ Dispatched(message, outcome.fun)
    BY <1>1 DEF CarriedOut
  <2>2. outcome' = outcome /\ message' = message
    BY <1>3
  <2>3. ~(answered' < asked')
    BY <1>6, <1>7
  <2>4. QED
    BY <2>1, <2>2, <2>3 DEF CarriedOut
<1>12. Outgoing'
  <2>1. stream' \in Seq(Ends)
    BY <1>3, <1>5
  <2>2. ~(carried' > answered')
    BY <1>6, <1>7
  <2>3. QED
    BY <2>1, <2>2 DEF Outgoing
<1>13. HeardRight'
  BY <1>3, <1>5 DEF HeardRight
<1>14. QED
  BY <1>8, <1>9, <1>10, <1>11, <1>12, <1>13 DEF RInv

LEMMA ReconnectKeeps ==
  ASSUME RInv, Reconnect
  PROVE  RInv'
<1>1. Counted /\ Coming /\ Baked(jar) /\ CarriedOut /\ HeardRight
  BY DEF RInv
<1>2. /\ answered = asked /\ stream' = << >> /\ buffer' = << >>
      /\ UNCHANGED <<message, unsent, outcome, carried, heard, jar, asked, answered>>
  BY DEF Reconnect
<1>3. /\ asked \in Nat /\ carried \in Nat /\ answered \in Nat
      /\ carried = asked /\ answered = carried
  BY <1>1, <1>2 DEF Counted
<1>4. Counted'
  BY <1>1, <1>2 DEF Counted
<1>5. Coming'
  <2>1. unsent' = << >>
    BY <1>1, <1>2, <1>3 DEF Coming
  <2>2. ~(carried' < asked')
    BY <1>2, <1>3
  <2>3. QED
    BY <1>2, <2>1, <2>2 DEF Coming
<1>6. CarriedOut'
  <2>1. outcome # Unknown => outcome.payload = message.body /\ Dispatched(message, outcome.fun)
    BY <1>1 DEF CarriedOut
  <2>2. ~(answered' < asked')
    BY <1>2, <1>3
  <2>3. QED
    BY <1>2, <2>1, <2>2 DEF CarriedOut
<1>7. Outgoing'
  <2>1. stream' \in Seq(Ends) /\ ~(carried' > answered')
    BY <1>2, <1>3, EmptySeq
  <2>2. QED
    BY <2>1 DEF Outgoing
<1>8. HeardRight'
  BY <1>1, <1>2 DEF HeardRight
<1>9. Baked(jar)'
  BY <1>1, <1>2 DEF Baked
<1>10. QED
  BY <1>4, <1>5, <1>6, <1>7, <1>8, <1>9 DEF RInv

LEMMA LogoutKeeps ==
  ASSUME RInv, Logout
  PROVE  RInv'
<1>1. Counted /\ Coming /\ CarriedOut /\ Outgoing /\ HeardRight
  BY DEF RInv
<1>2. /\ answered = asked /\ jar' = SessionIs \o <<Zero>>
      /\ UNCHANGED <<message, unsent, buffer, outcome, carried, stream, heard, asked, answered>>
  BY DEF Logout, server
<1>3. /\ asked \in Nat /\ carried \in Nat /\ answered \in Nat /\ carried = asked
  BY <1>1, <1>2 DEF Counted
<1>4. Counted'
  BY <1>1, <1>2 DEF Counted
<1>5. Coming'
  <2>1. unsent' = << >> /\ buffer' = << >>
    BY <1>1, <1>2, <1>3 DEF Coming
  <2>2. ~(carried' < asked')
    BY <1>2, <1>3
  <2>3. QED
    BY <2>1, <2>2 DEF Coming
<1>6. CarriedOut'
  <2>1. outcome # Unknown => outcome.payload = message.body /\ Dispatched(message, outcome.fun)
    BY <1>1 DEF CarriedOut
  <2>2. ~(answered' < asked')
    BY <1>2, <1>3
  <2>3. QED
    BY <1>2, <2>1, <2>2 DEF CarriedOut
<1>7. Outgoing'
  BY <1>1, <1>2 DEF Outgoing
<1>8. HeardRight'
  BY <1>1, <1>2 DEF HeardRight
<1>9. Baked(jar)'
  <2>1. PICK f \in Tellings : f = <<Zero>>
    <3>1. Decimal(0) = <<Zero>>
      BY ZeroIsDecimal
    <3>2. QED
      BY <3>1 DEF Tellings
  <2>2. Baked(jar')
    BY <1>2, <2>1 DEF Baked
  <2>3. QED
    BY <2>2
<1>10. QED
  BY <1>4, <1>5, <1>6, <1>7, <1>8, <1>9 DEF RInv
LEMMA RStep == RInv /\ [Next]_vars => RInv'
<1> SUFFICES ASSUME RInv, [Next]_vars PROVE RInv'
  OBVIOUS
<1>1. ASSUME NEW m \in Messages, Ask(m) PROVE RInv'
  BY <1>1, AskKeeps
<1>2. ASSUME NEW n \in 1..Len(unsent), OnData(n) PROVE RInv'
  BY <1>2, OnDataKeeps
<1>3. CASE Hear
  BY <1>3, HearKeeps
<1>4. CASE Reconnect
  BY <1>4, ReconnectKeeps
<1>5. CASE Logout
  BY <1>5, LogoutKeeps
<1>6. CASE UNCHANGED vars
  <2>1. UNCHANGED <<message, unsent, buffer, outcome, carried, stream, heard, jar, asked, answered>>
    BY <1>6 DEF vars, server
  <2>2. Rendered(message)' = Rendered(message) /\ Own(message)' = Own(message)
    BY <2>1, StillRendered, StillOwn
  <2>3. Counted' /\ Baked(jar)' /\ HeardRight'
    BY <2>1 DEF RInv, Counted, Baked, HeardRight
  <2>4. Coming'
    BY <2>1, <2>2 DEF RInv, Coming
  <2>5. CarriedOut'
    BY <2>1, <2>2 DEF RInv, CarriedOut
  <2>6. Outgoing'
    BY <2>1 DEF RInv, Outgoing
  <2>7. QED
    BY <2>3, <2>4, <2>5, <2>6 DEF RInv
<1>7. QED
  BY <1>1, <1>2, <1>3, <1>4, <1>5, <1>6 DEF Next

LEMMA WholeFromR == RInv => CarriedOutWhole
<1> SUFFICES ASSUME RInv PROVE CarriedOutWhole
  OBVIOUS
<1>1. Counted /\ Coming /\ CarriedOut
  BY DEF RInv
<1>2. carried < asked \/ carried = asked
  BY <1>1 DEF Counted
<1>3. asked \in Nat /\ carried \in Nat
  BY <1>1 DEF Counted
<1>4. CASE carried < asked
  <2>1. unsent # << >> /\ buffer \o unsent = Rendered(message) /\ carried # asked
    BY <1>1, <1>3, <1>4 DEF Coming
  <2>2. outcome # Unknown => outcome.payload = message.body
    BY <1>1 DEF CarriedOut
  <2>3. QED
    BY <2>1, <2>2 DEF CarriedOutWhole
<1>5. CASE carried = asked
  <2>1. unsent = << >> /\ buffer = << >> /\ ~(carried < asked)
    BY <1>1, <1>3, <1>5 DEF Coming
  <2>2. outcome # Unknown => outcome.payload = message.body
    BY <1>1 DEF CarriedOut
  <2>3. QED
    BY <1>5, <2>1, <2>2 DEF CarriedOutWhole
<1>6. QED
  BY <1>2, <1>4, <1>5

LEMMA RightFromR == RInv => DispatchedRight
<1> SUFFICES ASSUME RInv, outcome # Unknown PROVE DispatchedRight
  BY DEF DispatchedRight
<1>1. Dispatched(message, outcome.fun)
  BY DEF RInv, CarriedOut
<1>2. QED
  BY <1>1 DEF DispatchedRight, Dispatched, Wants, Upgrade

LEMMA OwnFromR == RInv => OwnSession
<1> DEFINE sent == \E i \in 1..Len(message.headers) : message.headers[i] = "cookie"
           own == outcome.session
<1> SUFFICES ASSUME RInv, outcome # Unknown, answered < asked
             PROVE  IF sent /\ jar # << >>
                    THEN own \in Sessions \cup {0} /\ jar = SessionIs \o Decimal(own)
                    ELSE own = 0
  BY DEF OwnSession
<1>1. own = Own(message) /\ Baked(jar)
  BY DEF RInv, CarriedOut
<1>2. CASE sent /\ jar # << >>
  <2>1. PICK f \in Tellings : jar = SessionIs \o f
    BY <1>1, <1>2 DEF Baked
  <2>2. f \in Seq(Figures) /\ ToNumber(f) \in Sessions \cup {0} /\ f = Decimal(ToNumber(f))
    BY TellingsAre
  <2>3. PICK j : j = jar /\ j = SessionIs \o f
    BY <2>1
  <2>4. SubSeq(j, Len(SessionIs) + 1, Len(j)) = f
    BY <2>2, <2>3, CookieParts
  <2>5. own = ToNumber(f)
    BY <1>1, <1>2, <2>3, <2>4 DEF Own
  <2>6. QED
    BY <1>2, <2>1, <2>2, <2>5
<1>3. CASE ~(sent /\ jar # << >>)
  BY <1>1, <1>3 DEF Own
<1>4. QED
  BY <1>2, <1>3

LEMMA InStepFromR == RInv => InStep
<1> SUFFICES ASSUME RInv PROVE InStep
  OBVIOUS
<1>1. carried > answered => (Understood[stream].whole <=> outcome.answer # Unread)
  BY UnderstoodWhenServed DEF Heeds
<1>2. HeardRight
  BY DEF RInv
<1>3. QED
  BY <1>1, <1>2 DEF InStep, HeardRight

\* However requests and answers are cut into pieces, each request is carried
\* out with its last character, once, with the body it was sent with.
THEOREM RequestsWhole == Spec => []CarriedOutWhole
<1>1. QED
  BY RInit, RStep, WholeFromR, PTL DEF Spec

\* Each request comes to the one handler that its address, or its wish for a
\* web socket, asks for.
THEOREM RequestsDispatched == Spec => []DispatchedRight
<1>1. QED
  BY RInit, RStep, RightFromR, PTL DEF Spec

\* The session a handler finds is the number of the one that the client was
\* given last, also when it is negative, and 0 without one.
THEOREM RequestsOwned == Spec => []OwnSession
<1>1. QED
  BY RInit, RStep, OwnFromR, PTL DEF Spec

\* The client reads the answer to its own request, whole, and can do so as
\* soon as the request is carried out, unless the handler could not read the
\* page and has answered with length -1.
THEOREM RequestsAnswered == Spec => []InStep
<1>1. QED
  BY RInit, RStep, InStepFromR, PTL DEF Spec

LEMMA RequestStep ==
  RInv /\ [Next]_vars =>
    [Exchanges!Next]_<<[c \in {"connection"} |-> asked], [c \in {"connection"} |-> carried],
                       [c \in {"connection"} |-> answered]>>
<1> DEFINE one == {"connection"}
           A == [c \in one |-> asked]
           S == [c \in one |-> carried]
           G == [c \in one |-> answered]
<1> SUFFICES ASSUME RInv, [Next]_vars PROVE [Exchanges!Next]_<<A, S, G>>
  OBVIOUS
<1>1. PICK c : c = "connection" /\ c \in one
  OBVIOUS
<1>2. A[c] = asked /\ S[c] = carried /\ G[c] = answered
  BY <1>1
<1>3. ASSUME NEW m \in Messages, Ask(m) PROVE Exchanges!Next
  <2>1. answered = asked /\ asked < MaxAsked /\ asked' = asked + 1
        /\ UNCHANGED <<carried, answered>>
    BY <1>3 DEF Ask
  <2>2. A' = [A EXCEPT ![c] = @ + 1] /\ UNCHANGED <<S, G>>
    BY <1>1, <2>1
  <2>3. Exchanges!Ask(c)
    BY <1>2, <2>1, <2>2 DEF Exchanges!Ask
  <2>4. QED
    BY <1>1, <2>3 DEF Exchanges!Next
<1>4. ASSUME NEW n \in 1..Len(unsent), OnData(n)
      PROVE  Exchanges!Next \/ UNCHANGED <<A, S, G>>
  <2>1. carried < asked
    BY PieceArrives
  <2>2. /\ UNCHANGED <<asked, answered>>
        /\ carried' = carried \/ carried' = carried + 1
    BY <1>4 DEF OnData
  <2>3. CASE carried' = carried
    BY <2>2, <2>3
  <2>4. CASE carried' = carried + 1
    <3>1. S' = [S EXCEPT ![c] = @ + 1] /\ UNCHANGED <<A, G>>
      BY <1>1, <2>2, <2>4
    <3>2. Exchanges!Serve(c)
      BY <1>2, <2>1, <3>1 DEF Exchanges!Serve
    <3>3. QED
      BY <1>1, <3>2 DEF Exchanges!Next
  <2>5. QED
    BY <2>2, <2>3, <2>4
<1>5. CASE Hear
  <2>1. Understood[stream].whole /\ answered' = answered + 1 /\ UNCHANGED <<asked, carried>>
    BY <1>5 DEF Hear, server
  <2>2. carried > answered
    BY <2>1, UnderstoodWhenServed
  <2>3. answered < carried
    BY <2>2 DEF RInv, Counted
  <2>4. G' = [G EXCEPT ![c] = @ + 1] /\ UNCHANGED <<A, S>>
    BY <1>1, <2>1
  <2>5. Exchanges!Get(c)
    BY <1>2, <2>3, <2>4 DEF Exchanges!Get
  <2>6. QED
    BY <1>1, <2>5 DEF Exchanges!Next
<1>6. CASE Reconnect \/ Logout \/ UNCHANGED vars
  <2>1. UNCHANGED <<asked, carried, answered>>
    BY <1>6 DEF Reconnect, Logout, vars, server
  <2>2. QED
    BY <2>1
<1>7. QED
  BY <1>3, <1>4, <1>5, <1>6 DEF Next

\* On the level of characters, too, the connection is an exchange of whole
\* requests and whole answers.
THEOREM RequestsImplement == Spec => IsExchange
<1>1. Init => Exchanges!Init
  BY DEF Init, Exchanges!Init
<1>2. QED
  BY <1>1, RInit, RStep, RequestStep, PTL DEF Spec, IsExchange, Exchanges!Spec, Exchanges!vars
=============================================================================
