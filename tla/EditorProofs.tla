---------------------------- MODULE EditorProofs ----------------------------
(***************************************************************************)
(* Proofs about branches and the page that edits them, for any number of   *)
(* branches, any texts and any way of typing, forking and moving between   *)
(* views.                                                                  *)
(***************************************************************************)
EXTENDS Editor, SequenceTheorems, TLAPS

\* The facts about numbers and recursion that the proofs about byte strings
\* need are needed here too; the width of integers does not matter for them.
Numbers == INSTANCE BytesProofs WITH Int64 <- 2, Int32 <- 2

-----------------------------------------------------------------------------
\* The greatest of a set of numbers up to m is one of them.
LEMMA MaxIsGreatest ==
  ASSUME NEW m \in Nat, NEW T \in SUBSET (0..m), T # {}
  PROVE  Max(T) \in T /\ \A y \in T : y <= Max(T)
<1>1. 2 \in Nat \ {0} /\ 2 % 2 = 0 /\ 2 <= 2
  OBVIOUS
<1>2. PICK x \in T : \A y \in T : y <= x
  BY <1>1, Numbers!GreatestExists
<1>3. \A y \in T : x >= y
  BY <1>2
<1>4. QED
  BY <1>2, <1>3 DEF Max

-----------------------------------------------------------------------------
(* Changes: what oninput records leads from the old text to the new one    *)
(* and back, for texts of every length over every alphabet.                *)

\* The two numbers that oninput's loops end with: the texts agree on the first
\* i and on the last j characters, and the two parts do not overlap.
Agree(old, text, i, j) ==
  /\ i \in Nat /\ j \in Nat
  /\ i + j <= Len(old) /\ i + j <= Len(text)
  /\ \A k \in 1..i : old[k] = text[k]
  /\ \A k \in 0..(j - 1) : old[Len(old) - k] = text[Len(text) - k]

LEMMA LoopsAgree ==
  ASSUME NEW C, NEW old \in Seq(C), NEW text \in Seq(C)
  PROVE  LET i == Prefix(old, text)
             j == Suffix(old, text, i) IN Agree(old, text, i, j)
<1> DEFINE min == Least(Len(old), Len(text))
           i == Prefix(old, text)
           I == {n \in 0..min : \A k \in 1..n : old[k] = text[k]}
           j == Suffix(old, text, i)
           J == {n \in 0..(min - i) :
                  \A k \in 0..(n - 1) : old[Len(old) - k] = text[Len(text) - k]}
<1>1. min \in Nat /\ min <= Len(old) /\ min <= Len(text)
  BY LenProperties DEF Least
<1>2. i \in I
  <2>1. 0 \in I /\ I \in SUBSET (0..min)
    BY <1>1
  <2>2. Max(I) \in I
    BY <1>1, <2>1, MaxIsGreatest
  <2>3. QED
    BY <2>2 DEF Prefix
<1>3. j \in J
  <2>1. min - i \in Nat
    BY <1>1, <1>2
  <2>2. 0 \in J /\ J \in SUBSET (0..(min - i))
    BY <2>1
  <2>3. Max(J) \in J
    BY <2>1, <2>2, MaxIsGreatest
  <2>4. QED
    BY <2>3 DEF Suffix
<1>4. i \in Nat /\ j \in Nat /\ i + j <= min
  BY <1>1, <1>2, <1>3
<1>5. QED
  BY <1>1, <1>2, <1>3, <1>4, LenProperties DEF Agree

\* Cutting a text after i characters and before its last j ones, and putting
\* the three parts together again, gives the text.
LEMMA ThreeParts ==
  ASSUME NEW C, NEW text \in Seq(C), NEW i \in Nat, NEW n \in Nat,
         i <= n, n <= Len(text)
  PROVE  SubSeq(text, 1, i) \o SubSeq(text, i + 1, n)
           \o SubSeq(text, n + 1, Len(text)) = text
<1>1. Len(text) \in Nat
  BY LenProperties
<1>2. SubSeq(text, 1, i) \o SubSeq(text, i + 1, n) = SubSeq(text, 1, n)
  <2>1. 1 \in 1..Len(text) + 1 /\ i \in 1 - 1..Len(text) /\ n \in i..Len(text)
    BY <1>1
  <2>2. QED
    BY <2>1, ConcatAdjacentSubSeq
<1>3. SubSeq(text, 1, n) \o SubSeq(text, n + 1, Len(text))
        = SubSeq(text, 1, Len(text))
  <2>1. /\ 1 \in 1..Len(text) + 1 /\ n \in 1 - 1..Len(text)
        /\ Len(text) \in n..Len(text)
    BY <1>1
  <2>2. QED
    BY <2>1, ConcatAdjacentSubSeq
<1>4. QED
  BY <1>2, <1>3, SubSeqFull

\* Replacing the middle of one text by the middle of another that agrees with
\* it outside gives the other one.
LEMMA Replaced ==
  ASSUME NEW C, NEW a \in Seq(C), NEW b \in Seq(C), NEW i, NEW j,
         Agree(a, b, i, j)
  PROVE  Left(a, i) \o SubSeq(b, i + 1, Len(b) - j)
           \o From(a, i + Len(SubSeq(a, i + 1, Len(a) - j))) = b
<1>1. Len(a) \in Nat /\ Len(b) \in Nat /\ i \in Nat /\ j \in Nat
      /\ i + j <= Len(a) /\ i + j <= Len(b)
  BY LenProperties DEF Agree
<1>2. \A k \in 1..Len(a) : a[k] \in C
  BY ElementOfSeq
<1>3. \A k \in 1..Len(b) : b[k] \in C
  BY ElementOfSeq
<1>4. Len(SubSeq(a, i + 1, Len(a) - j)) = Len(a) - j - i
  <2>1. \A k \in (i + 1)..(Len(a) - j) : a[k] \in C
    BY <1>1, <1>2
  <2>2. Len(SubSeq(a, i + 1, Len(a) - j))
          = IF i + 1 <= Len(a) - j THEN Len(a) - j - (i + 1) + 1 ELSE 0
    BY <1>1, <2>1, SubSeqProperties
  <2>3. QED
    BY <1>1, <2>2
<1>5. Left(a, i) = SubSeq(b, 1, i)
  <2>1. Left(a, i) = SubSeq(a, 1, i)
    BY <1>1 DEF Left, Least
  <2>2. \A k \in 1..i : a[k] \in C /\ b[k] \in C /\ a[k] = b[k]
    BY <1>1, <1>2, <1>3 DEF Agree
  <2>3. /\ SubSeq(a, 1, i) \in Seq(C)
        /\ Len(SubSeq(a, 1, i)) = i
        /\ \A k \in 1..i : SubSeq(a, 1, i)[k] = a[k]
    BY <1>1, <2>2, SubSeqProperties
  <2>4. /\ SubSeq(b, 1, i) \in Seq(C)
        /\ Len(SubSeq(b, 1, i)) = i
        /\ \A k \in 1..i : SubSeq(b, 1, i)[k] = b[k]
    BY <1>1, <2>2, SubSeqProperties
  <2>5. QED
    BY <2>1, <2>2, <2>3, <2>4, SeqEqual
<1>6. From(a, i + (Len(a) - j - i)) = SubSeq(b, Len(b) - j + 1, Len(b))
  <2> DEFINE s == SubSeq(a, Len(a) - j + 1, Len(a))
             t == SubSeq(b, Len(b) - j + 1, Len(b))
  <2>1. From(a, i + (Len(a) - j - i)) = s
    <3>1. i + (Len(a) - j - i) = Len(a) - j
      BY <1>1
    <3>2. QED
      BY <3>1 DEF From
  <2>2. /\ \A k \in (Len(a) - j + 1)..Len(a) : a[k] \in C
        /\ \A k \in (Len(b) - j + 1)..Len(b) : b[k] \in C
    BY <1>1, <1>2, <1>3
  <2>3. /\ s \in Seq(C) /\ Len(s) = j
        /\ \A k \in 1..j : s[k] = a[Len(a) - j + k]
    <3>1. /\ s \in Seq(C)
          /\ Len(s) = IF Len(a) - j + 1 <= Len(a)
                      THEN Len(a) - (Len(a) - j + 1) + 1 ELSE 0
          /\ \A k \in 1..(Len(a) - (Len(a) - j + 1) + 1) :
               s[k] = a[(Len(a) - j + 1) + k - 1]
      BY <1>1, <2>2, SubSeqProperties
    <3>2. Len(a) - (Len(a) - j + 1) + 1 = j
      BY <1>1
    <3>3. \A k \in 1..j : (Len(a) - j + 1) + k - 1 = Len(a) - j + k
      BY <1>1
    <3>4. QED
      BY <1>1, <3>1, <3>2, <3>3
  <2>4. /\ t \in Seq(C) /\ Len(t) = j
        /\ \A k \in 1..j : t[k] = b[Len(b) - j + k]
    <3>1. /\ t \in Seq(C)
          /\ Len(t) = IF Len(b) - j + 1 <= Len(b)
                      THEN Len(b) - (Len(b) - j + 1) + 1 ELSE 0
          /\ \A k \in 1..(Len(b) - (Len(b) - j + 1) + 1) :
               t[k] = b[(Len(b) - j + 1) + k - 1]
      BY <1>1, <2>2, SubSeqProperties
    <3>2. Len(b) - (Len(b) - j + 1) + 1 = j
      BY <1>1
    <3>3. \A k \in 1..j : (Len(b) - j + 1) + k - 1 = Len(b) - j + k
      BY <1>1
    <3>4. QED
      BY <1>1, <3>1, <3>2, <3>3
  <2>5. ASSUME NEW k \in 1..j
        PROVE  a[Len(a) - j + k] = b[Len(b) - j + k]
    <3>1. j - k \in 0..(j - 1)
      BY <1>1
    <3>2. a[Len(a) - (j - k)] = b[Len(b) - (j - k)]
      BY <3>1 DEF Agree
    <3>3. Len(a) - (j - k) = Len(a) - j + k /\ Len(b) - (j - k) = Len(b) - j + k
      BY <1>1
    <3>4. QED
      BY <3>2, <3>3
  <2>6. s = t
    BY <2>3, <2>4, <2>5, SeqEqual
  <2>7. QED
    BY <2>1, <2>6
<1>7. SubSeq(b, 1, i) \o SubSeq(b, i + 1, Len(b) - j)
        \o SubSeq(b, Len(b) - j + 1, Len(b)) = b
  <2>1. Len(b) - j \in Nat /\ i <= Len(b) - j /\ Len(b) - j <= Len(b)
    BY <1>1
  <2>2. QED
    BY <1>1, <2>1, ThreeParts
<1>8. QED
  BY <1>4, <1>5, <1>6, <1>7

\* Agreement does not depend on which text is the old one.
LEMMA AgreeSymmetric ==
  ASSUME NEW a, NEW b, NEW i, NEW j, Agree(a, b, i, j)
  PROVE  Agree(b, a, i, j)
BY DEF Agree

-----------------------------------------------------------------------------
\* Redoing the change that oninput recorded gives the text that was typed,
\* also where letters repeat and prefix and suffix compete for them.
THEOREM DiffRedoes ==
  ASSUME NEW C, NEW old \in Seq(C), NEW text \in Seq(C)
  PROVE  Redo(old, Diff(old, text)) = text
<1> DEFINE i == Prefix(old, text)
           j == Suffix(old, text, i)
<1>1. Agree(old, text, i, j)
  BY LoopsAgree
<1>2. Redo(old, Diff(old, text)) =
        Left(old, i) \o SubSeq(text, i + 1, Len(text) - j)
          \o From(old, i + Len(SubSeq(old, i + 1, Len(old) - j)))
  BY DEF Redo, Diff, Change
<1>3. QED
  BY <1>1, <1>2, Replaced

\* Undoing it gives back the text before, so the slider can go both ways.
THEOREM DiffUndoes ==
  ASSUME NEW C, NEW old \in Seq(C), NEW text \in Seq(C)
  PROVE  Undo(text, Diff(old, text)) = old
<1> DEFINE i == Prefix(old, text)
           j == Suffix(old, text, i)
<1>1. Agree(text, old, i, j)
  BY LoopsAgree, AgreeSymmetric
<1>2. Undo(text, Diff(old, text)) =
        Left(text, i) \o SubSeq(old, i + 1, Len(old) - j)
          \o From(text, i + Len(SubSeq(text, i + 1, Len(text) - j)))
  BY DEF Undo, Diff, Change
<1>3. QED
  BY <1>1, <1>2, Replaced
-----------------------------------------------------------------------------
ChangesOver(C) == [pos : Nat, last : Seq(C), now : Seq(C)]

ChangesUpto(C, list, n) ==
  n \in Nat /\ \A k \in 1..n : list[k] \in ChangesOver(C)

\* The parts of a text that a change leaves are texts, and so is what redoing
\* or undoing it gives, whether the change fits the text or not.
LEMMA PartsAreTexts ==
  ASSUME NEW C, NEW text \in Seq(C), NEW n \in Nat
  PROVE  Left(text, n) \in Seq(C) /\ From(text, n) \in Seq(C)
<1>1. PICK m \in Nat : m = Len(text)
  BY LenProperties
<1>2. \A k \in 1..m : text[k] \in C
  BY <1>1, ElementOfSeq
<1>3. Left(text, n) \in Seq(C)
  <2>1. \A k \in 1..Least(n, m) : text[k] \in C
    BY <1>2 DEF Least
  <2>2. Least(n, m) \in Int
    BY <1>1 DEF Least
  <2>3. QED
    BY <1>1, <2>1, <2>2, SubSeqProperties DEF Left
<1>4. From(text, n) \in Seq(C)
  <2>1. \A k \in (n + 1)..m : text[k] \in C
    BY <1>2
  <2>2. QED
    BY <1>1, <2>1, SubSeqProperties DEF From
<1>5. QED
  BY <1>3, <1>4

LEMMA RedoneIsText ==
  ASSUME NEW C, NEW text \in Seq(C), NEW change \in ChangesOver(C)
  PROVE  Redo(text, change) \in Seq(C) /\ Undo(text, change) \in Seq(C)
<1>1. change.pos \in Nat /\ change.last \in Seq(C) /\ change.now \in Seq(C)
  BY DEF ChangesOver
<1>2. PICK a \in Nat : a = Len(change.last)
  BY <1>1, LenProperties
<1>3. PICK b \in Nat : b = Len(change.now)
  BY <1>1, LenProperties
<1>4. Left(text, change.pos) \in Seq(C)
  BY <1>1, PartsAreTexts
<1>5. From(text, change.pos + a) \in Seq(C) /\ From(text, change.pos + b) \in Seq(C)
  <2>1. change.pos + a \in Nat /\ change.pos + b \in Nat
    BY <1>1
  <2>2. QED
    BY <2>1, PartsAreTexts
<1>6. Redo(text, change) \in Seq(C)
  BY <1>1, <1>2, <1>4, <1>5, ConcatProperties DEF Redo
<1>7. Undo(text, change) \in Seq(C)
  BY <1>1, <1>3, <1>4, <1>5, ConcatProperties DEF Undo
<1>8. QED
  BY <1>6, <1>7

\* What oninput records is a change.
LEMMA DiffIsChange ==
  ASSUME NEW C, NEW old \in Seq(C), NEW text \in Seq(C)
  PROVE  Diff(old, text) \in ChangesOver(C)
<1> DEFINE i == Prefix(old, text)
           j == Suffix(old, text, i)
<1>1. Agree(old, text, i, j)
  BY LoopsAgree
<1>2. PICK m \in Nat : m = Len(old)
  BY LenProperties
<1>3. PICK n \in Nat : n = Len(text)
  BY LenProperties
<1>4. i \in Nat /\ j \in Nat
  BY <1>1 DEF Agree
<1> HIDE DEF i, j
<1>5. SubSeq(old, i + 1, m - j) \in Seq(C)
  <2>1. \A k \in (i + 1)..(m - j) : old[k] \in C
    BY <1>2, <1>4, ElementOfSeq
  <2>2. QED
    BY <1>4, <2>1, SubSeqProperties
<1>6. SubSeq(text, i + 1, n - j) \in Seq(C)
  <2>1. \A k \in (i + 1)..(n - j) : text[k] \in C
    BY <1>3, <1>4, ElementOfSeq
  <2>2. QED
    BY <1>4, <2>1, SubSeqProperties
<1>7. Diff(old, text) = [pos |-> i, last |-> SubSeq(old, i + 1, m - j),
                         now |-> SubSeq(text, i + 1, n - j)]
  BY <1>2, <1>3 DEF Diff, Change, i, j
<1>8. QED
  BY <1>4, <1>5, <1>6, <1>7 DEF ChangesOver

-----------------------------------------------------------------------------
\* Replay is one function for all positions: each text is got from the one
\* before by redoing a change.
Replays(text, C, list, n) ==
  /\ text \in [0..n -> Seq(C)]
  /\ text[0] = << >>
  /\ \A k \in 1..n : text[k] = Redo(text[k - 1], list[k])
  /\ \A m \in 0..n : Replay(list, m) = text[m]

LEMMA ReplayFollows ==
  ASSUME NEW C, NEW n, NEW list, ChangesUpto(C, list, n)
  PROVE  \E text : Replays(text, C, list, n)
<1> USE DEF ChangesUpto
<1> DEFINE step == [k \in 1..n |-> [t \in Seq(C) |-> Redo(t, list[k])]]
<1>1. Numbers!Course(n, Seq(C), << >>, step)
  <2>1. << >> \in Seq(C)
    BY EmptySeq
  <2>2. \A k \in 1..n : \A t \in Seq(C) : Redo(t, list[k]) \in Seq(C)
    BY RedoneIsText
  <2>3. QED
    BY <2>1, <2>2 DEF Numbers!Course
<1>2. PICK text : Numbers!Follows(text, n, Seq(C), << >>, step)
  <2> HIDE DEF step
  <2>1. QED
    BY <1>1, Numbers!SequenceRecursion
<1>3. text \in [0..n -> Seq(C)] /\ text[0] = << >>
  BY <1>2 DEF Numbers!Follows
<1>4. \A k \in 1..n : text[k] = Redo(text[k - 1], list[k])
  <2>1. \A k \in 1..n : text[k] = step[k][text[k - 1]]
    <3> HIDE DEF step
    <3>1. QED
      BY <1>2 DEF Numbers!Follows
  <2>2. \A k \in 1..n : text[k - 1] \in Seq(C)
    BY <1>3
  <2>3. QED
    BY <2>1, <2>2
<1>5. ASSUME NEW m \in 0..n
      PROVE  Replay(list, m) = text[m]
  <2> DEFINE F(g) == [k \in 0..m |-> IF k = 0 THEN << >>
                                     ELSE Redo(g[k - 1], list[k])]
             g == CHOOSE g : g = F(g)
             T == {k \in 0..m : g[k] = text[k]}
  <2>1. Replay(list, m) = g[m]
    BY DEF Replay
  <2>2. \E f : f = F(f)
    <3> DEFINE f == [k \in 0..m |-> text[k]]
    <3>1. f = F(f)
      BY <1>3, <1>4
    <3>2. QED
      BY <3>1
  <2>3. g = F(g)
    <3> HIDE DEF F
    <3>1. QED
      BY <2>2
  <2> HIDE DEF g
  <2>4. g[0] = << >>
    BY <2>3
  <2>5. \A k \in 1..m : g[k] = Redo(g[k - 1], list[k])
    BY <2>3
  <2> HIDE DEF F
  <2>6. 0 \in T
    BY <1>3, <2>4
  <2>7. \A k \in 0..(m - 1) : k \in T => k + 1 \in T
    <3> SUFFICES ASSUME NEW k \in 0..(m - 1), k \in T
                 PROVE  k + 1 \in T
      OBVIOUS
    <3>1. k + 1 \in 1..n /\ k + 1 \in 1..m /\ k + 1 \in 0..m /\ (k + 1) - 1 = k
      OBVIOUS
    <3>2. g[k + 1] = Redo(g[k], list[k + 1])
      BY <2>5, <3>1
    <3>3. text[k + 1] = Redo(text[k], list[k + 1])
      BY <1>4, <3>1
    <3>4. QED
      BY <3>1, <3>2, <3>3
  <2>8. 0..m \subseteq T
    <3> HIDE DEF T
    <3>1. QED
      BY <2>6, <2>7, Numbers!Induction
  <2>9. QED
    BY <2>1, <2>8
<1>6. Replays(text, C, list, n)
  <2> HIDE DEF step
  <2>1. QED
    BY <1>3, <1>4, <1>5 DEF Replays
<1>7. QED
  BY <1>6

\* The text at each position of a history.
LEMMA ReplaySteps ==
  ASSUME NEW C, NEW n, NEW list, ChangesUpto(C, list, n)
  PROVE  /\ Replay(list, 0) = << >>
         /\ \A k \in 0..n : Replay(list, k) \in Seq(C)
         /\ \A k \in 1..n :
              Replay(list, k) = Redo(Replay(list, k - 1), list[k])
<1>1. PICK text : Replays(text, C, list, n)
  BY ReplayFollows
<1>2. n \in Nat /\ \A k \in 1..n : k \in 0..n /\ k - 1 \in 0..n
  BY DEF ChangesUpto
<1>3. QED
  BY <1>1, <1>2 DEF Replays

\* The text depends on the changes up to it only.
LEMMA ReplaySame ==
  ASSUME NEW C, NEW n, NEW a, NEW b, ChangesUpto(C, a, n),
         \A k \in 1..n : a[k] = b[k]
  PROVE  \A k \in 0..n : Replay(a, k) = Replay(b, k)
<1> DEFINE T == {k \in 0..n : Replay(a, k) = Replay(b, k)}
<1>1. /\ Replay(a, 0) = << >>
      /\ \A k \in 1..n : Replay(a, k) = Redo(Replay(a, k - 1), a[k])
  BY ReplaySteps
<1>2. /\ Replay(b, 0) = << >>
      /\ \A k \in 1..n : Replay(b, k) = Redo(Replay(b, k - 1), b[k])
  <2>1. ChangesUpto(C, b, n)
    BY DEF ChangesUpto
  <2>2. QED
    BY <2>1, ReplaySteps
<1>3. n \in Nat /\ 0 \in T
  BY <1>1, <1>2 DEF ChangesUpto
<1>4. \A k \in 0..(n - 1) : k \in T => k + 1 \in T
  <2> SUFFICES ASSUME NEW k \in 0..(n - 1), k \in T
               PROVE  k + 1 \in T
    OBVIOUS
  <2>1. k + 1 \in 1..n /\ k + 1 \in 0..n /\ (k + 1) - 1 = k
    BY <1>3
  <2>2. QED
    BY <1>1, <1>2, <2>1
<1>5. 0..n \subseteq T
  <2> HIDE DEF T
  <2>1. QED
    BY <1>3, <1>4, Numbers!Induction
<1>6. QED
  BY <1>5
-----------------------------------------------------------------------------
\* Every change up to n can be taken back.
ReversibleUpto(list, n) ==
  \A k \in 1..n : Undo(Replay(list, k), list[k]) = Replay(list, k - 1)

\* The slider, moved forward from a text that its position leads to, shows the
\* text that the new position leads to.
LEMMA GoForward ==
  ASSUME NEW C, NEW n, NEW list, ChangesUpto(C, list, n),
         NEW from \in 0..n, NEW to \in 0..n, from <= to
  PROVE  Go(list, Replay(list, from), from, to) = Replay(list, to)
<1> DEFINE start == Replay(list, from)
           F(g) == [k \in from..to |-> IF k = from THEN start
                                       ELSE Redo(g[k - 1], list[k])]
           g == CHOOSE g : g = F(g)
           T == {i \in 0..(to - from) : g[from + i] = Replay(list, from + i)}
<1>1. n \in Nat
  BY DEF ChangesUpto
<1>2. \A k \in 1..n : Replay(list, k) = Redo(Replay(list, k - 1), list[k])
  BY ReplaySteps
<1>3. Go(list, start, from, to) = g[to]
  BY DEF Go
<1>4. \E f : f = F(f)
  <2> DEFINE f == [k \in from..to |-> Replay(list, k)]
  <2>1. \A k \in from..to : k # from => k \in 1..n /\ k - 1 \in from..to
    BY <1>1
  <2>2. f = F(f)
    BY <1>2, <2>1
  <2>3. QED
    BY <2>2
<1>5. g = F(g)
  <2> HIDE DEF F
  <2>1. QED
    BY <1>4
<1> HIDE DEF g
<1>6. g[from] = start
  BY <1>1, <1>5
<1>7. \A k \in (from + 1)..to : g[k] = Redo(g[k - 1], list[k])
  BY <1>1, <1>5
<1> HIDE DEF F
<1>8. 0 \in T /\ to - from \in Nat
  BY <1>1, <1>6
<1>9. \A i \in 0..((to - from) - 1) : i \in T => i + 1 \in T
  <2> SUFFICES ASSUME NEW i \in 0..((to - from) - 1), i \in T
               PROVE  i + 1 \in T
    OBVIOUS
  <2> DEFINE k == from + (i + 1)
  <2>1. /\ k \in (from + 1)..to /\ k \in 1..n /\ k - 1 = from + i
        /\ i + 1 \in 0..(to - from)
    BY <1>1
  <2>2. g[k] = Redo(g[k - 1], list[k])
    BY <1>7, <2>1
  <2>3. Replay(list, k) = Redo(Replay(list, k - 1), list[k])
    BY <1>2, <2>1
  <2>4. QED
    BY <2>1, <2>2, <2>3
<1>10. 0..(to - from) \subseteq T
  <2> HIDE DEF T
  <2>1. QED
    BY <1>8, <1>9, Numbers!Induction
<1>11. to - from \in T /\ from + (to - from) = to
  BY <1>1, <1>8, <1>10
<1>12. QED
  BY <1>3, <1>11

\* The same backwards, if the changes can be taken back.
LEMMA GoBack ==
  ASSUME NEW C, NEW n, NEW list, ChangesUpto(C, list, n),
         ReversibleUpto(list, n),
         NEW from \in 0..n, NEW to \in 0..n, to < from
  PROVE  Go(list, Replay(list, from), from, to) = Replay(list, to)
<1> DEFINE start == Replay(list, from)
           F(g) == [k \in to..from |-> IF k = from THEN start
                                       ELSE Undo(g[k + 1], list[k + 1])]
           g == CHOOSE g : g = F(g)
           T == {i \in 0..(from - to) : g[from - i] = Replay(list, from - i)}
<1>1. n \in Nat
  BY DEF ChangesUpto
<1>2. \A k \in 1..n : Undo(Replay(list, k), list[k]) = Replay(list, k - 1)
  BY DEF ReversibleUpto
<1>3. Go(list, start, from, to) = g[to]
  BY <1>1 DEF Go
<1>4. \E f : f = F(f)
  <2> DEFINE f == [k \in to..from |-> Replay(list, k)]
  <2>1. \A k \in to..from : k # from =>
          k + 1 \in 1..n /\ k + 1 \in to..from /\ (k + 1) - 1 = k
    BY <1>1
  <2>2. f = F(f)
    BY <1>2, <2>1
  <2>3. QED
    BY <2>2
<1>5. g = F(g)
  <2> HIDE DEF F
  <2>1. QED
    BY <1>4
<1> HIDE DEF g
<1>6. g[from] = start
  BY <1>1, <1>5
<1>7. \A k \in to..(from - 1) : g[k] = Undo(g[k + 1], list[k + 1])
  BY <1>1, <1>5
<1> HIDE DEF F
<1>8. 0 \in T /\ from - to \in Nat
  BY <1>1, <1>6
<1>9. \A i \in 0..((from - to) - 1) : i \in T => i + 1 \in T
  <2> SUFFICES ASSUME NEW i \in 0..((from - to) - 1), i \in T
               PROVE  i + 1 \in T
    OBVIOUS
  <2> DEFINE k == from - (i + 1)
  <2>1. /\ k \in to..(from - 1) /\ k + 1 \in 1..n /\ k + 1 = from - i
        /\ (k + 1) - 1 = k /\ i + 1 \in 0..(from - to)
    BY <1>1
  <2>2. g[k] = Undo(g[k + 1], list[k + 1])
    BY <1>7, <2>1
  <2>3. Undo(Replay(list, k + 1), list[k + 1]) = Replay(list, k)
    BY <1>2, <2>1
  <2>4. QED
    BY <2>1, <2>2, <2>3
<1>10. 0..(from - to) \subseteq T
  <2> HIDE DEF T
  <2>1. QED
    BY <1>8, <1>9, Numbers!Induction
<1>11. from - to \in T /\ from - (from - to) = to
  BY <1>1, <1>8, <1>10
<1>12. QED
  BY <1>3, <1>11

\* The slider shows a text wherever it is moved, and from whatever text.
LEMMA GoTyped ==
  ASSUME NEW C, NEW list \in Seq(ChangesOver(C)), NEW start \in Seq(C),
         NEW from \in 0..Len(list), NEW to \in 0..Len(list)
  PROVE  Go(list, start, from, to) \in Seq(C)
<1>1. PICK n \in Nat : n = Len(list)
  BY LenProperties
<1>2. \A k \in 1..n : list[k] \in ChangesOver(C)
  BY <1>1, ElementOfSeq
<1>3. CASE from <= to
  <2> DEFINE S == Seq(C)
             D == from..to
             rank == [k \in D |-> k - from]
             up == [k \in D |-> k - 1]
             base == [k \in D |-> start]
             step == [k \in D |-> [t \in S |->
                        IF k = from THEN start ELSE Redo(t, list[k])]]
             F(g) == [k \in D |-> IF k = from THEN start
                                  ELSE Redo(g[k - 1], list[k])]
             g == CHOOSE g : g = F(g)
  <2>1. \A k \in D : k # from => k \in 1..n /\ k - 1 \in D
    BY <1>1, <1>3
  <2>2. ASSUME NEW k \in D, k # from, NEW t \in S
        PROVE  Redo(t, list[k]) \in S
    BY <1>2, <2>1, <2>2, RedoneIsText
  <2>3. Numbers!Scheme(n, D, S, rank, up, base, step)
    <3>1. rank \in [D -> 0..n]
      BY <1>1, <1>3
    <3>2. \A k \in D : rank[k] # 0 => up[k] \in D /\ rank[up[k]] < rank[k]
      BY <1>1, <1>3
    <3>3. base \in [D -> S]
      OBVIOUS
    <3>4. step \in [D -> [S -> S]]
      <4> HIDE DEF S, D
      <4>1. start \in S
        BY DEF S
      <4>2. QED
        BY <2>2, <4>1
    <3> HIDE DEF D, S, rank, up, base, step
    <3>5. QED
      BY <3>1, <3>2, <3>3, <3>4 DEF Numbers!Scheme
  <2>4. PICK f : Numbers!Solution(f, D, S, rank, up, base, step)
    <3> HIDE DEF D, S, rank, up, base, step
    <3>1. QED
      BY <2>3, Numbers!RecursionExists
  <2>5. f = F(f)
    <3>1. /\ f \in [D -> S]
          /\ \A k \in D : f[k] = IF rank[k] = 0 THEN base[k] ELSE step[k][f[up[k]]]
      <4> HIDE DEF D, S, rank, up, base, step
      <4>1. QED
        BY <2>4 DEF Numbers!Solution
    <3> HIDE DEF S
    <3>2. ASSUME NEW k \in D
          PROVE  f[k] = IF k = from THEN start ELSE Redo(f[k - 1], list[k])
      <4>1. CASE k = from
        <5>1. rank[k] = 0 /\ base[k] = start
          BY <1>1, <4>1
        <5>2. QED
          BY <3>1, <4>1, <5>1
      <4>2. CASE k # from
        <5>1. rank[k] # 0 /\ up[k] = k - 1 /\ f[k - 1] \in S
          BY <1>1, <2>1, <3>1, <4>2
        <5>2. f[k] = step[k][f[k - 1]]
          BY <3>1, <5>1
        <5>3. QED
          BY <4>2, <5>1, <5>2
      <4>3. QED
        BY <4>1, <4>2
    <3>3. QED
      BY <3>1, <3>2
  <2>6. g = F(g)
    <3> HIDE DEF F
    <3>1. QED
      BY <2>5
  <2>7. Go(list, start, from, to) = g[to]
    BY <1>1, <1>3 DEF Go
  <2> HIDE DEF g
  <2>8. \A k \in D : g[k] = IF k = from THEN start ELSE Redo(g[k - 1], list[k])
    BY <2>6
  <2> HIDE DEF F
  <2> DEFINE Good == {k \in D : g[k] \in S}
  <2>9. ASSUME NEW k \in D, \A j \in D : rank[j] < rank[k] => j \in Good
        PROVE  k \in Good
    <3>1. CASE k = from
      BY <2>8, <3>1
    <3>2. CASE k # from
      <4>1. k - 1 \in D /\ rank[k - 1] < rank[k]
        BY <1>1, <2>1, <3>2
      <4>2. g[k - 1] \in S
        BY <2>9, <4>1
      <4>3. Redo(g[k - 1], list[k]) \in S
        <5> HIDE DEF S
        <5>1. QED
          BY <2>2, <3>2, <4>2
      <4>4. QED
        BY <2>8, <3>2, <4>3
    <3>3. QED
      BY <3>1, <3>2
  <2>10. rank \in [D -> 0..n]
    BY <1>1, <1>3
  <2>11. D \subseteq Good
    <3> HIDE DEF D, rank, Good
    <3>1. QED
      BY <1>1, <2>9, <2>10, Numbers!RankInduction
  <2>12. to \in D
    BY <1>1, <1>3
  <2>13. QED
    BY <2>7, <2>11, <2>12
<1>4. CASE to < from
  <2> DEFINE S == Seq(C)
             D == to..from
             rank == [k \in D |-> from - k]
             up == [k \in D |-> k + 1]
             base == [k \in D |-> start]
             step == [k \in D |-> [t \in S |->
                        IF k = from THEN start ELSE Undo(t, list[k + 1])]]
             F(g) == [k \in D |-> IF k = from THEN start
                                  ELSE Undo(g[k + 1], list[k + 1])]
             g == CHOOSE g : g = F(g)
  <2>1. \A k \in D : k # from => k + 1 \in 1..n /\ k + 1 \in D
    BY <1>1, <1>4
  <2>2. ASSUME NEW k \in D, k # from, NEW t \in S
        PROVE  Undo(t, list[k + 1]) \in S
    BY <1>2, <2>1, <2>2, RedoneIsText
  <2>3. Numbers!Scheme(n, D, S, rank, up, base, step)
    <3>1. rank \in [D -> 0..n]
      BY <1>1, <1>4
    <3>2. \A k \in D : rank[k] # 0 => up[k] \in D /\ rank[up[k]] < rank[k]
      BY <1>1, <1>4
    <3>3. base \in [D -> S]
      OBVIOUS
    <3>4. step \in [D -> [S -> S]]
      <4> HIDE DEF S, D
      <4>1. start \in S
        BY DEF S
      <4>2. QED
        BY <2>2, <4>1
    <3> HIDE DEF D, S, rank, up, base, step
    <3>5. QED
      BY <3>1, <3>2, <3>3, <3>4 DEF Numbers!Scheme
  <2>4. PICK f : Numbers!Solution(f, D, S, rank, up, base, step)
    <3> HIDE DEF D, S, rank, up, base, step
    <3>1. QED
      BY <2>3, Numbers!RecursionExists
  <2>5. f = F(f)
    <3>1. /\ f \in [D -> S]
          /\ \A k \in D : f[k] = IF rank[k] = 0 THEN base[k] ELSE step[k][f[up[k]]]
      <4> HIDE DEF D, S, rank, up, base, step
      <4>1. QED
        BY <2>4 DEF Numbers!Solution
    <3> HIDE DEF S
    <3>2. ASSUME NEW k \in D
          PROVE  f[k] = IF k = from THEN start ELSE Undo(f[k + 1], list[k + 1])
      <4>1. CASE k = from
        <5>1. rank[k] = 0 /\ base[k] = start
          BY <1>1, <4>1
        <5>2. QED
          BY <3>1, <4>1, <5>1
      <4>2. CASE k # from
        <5>1. rank[k] # 0 /\ up[k] = k + 1 /\ f[k + 1] \in S
          BY <1>1, <2>1, <3>1, <4>2
        <5>2. f[k] = step[k][f[k + 1]]
          BY <3>1, <5>1
        <5>3. QED
          BY <4>2, <5>1, <5>2
      <4>3. QED
        BY <4>1, <4>2
    <3>3. QED
      BY <3>1, <3>2
  <2>6. g = F(g)
    <3> HIDE DEF F
    <3>1. QED
      BY <2>5
  <2>7. Go(list, start, from, to) = g[to]
    BY <1>1, <1>4 DEF Go
  <2> HIDE DEF g
  <2>8. \A k \in D : g[k] = IF k = from THEN start ELSE Undo(g[k + 1], list[k + 1])
    BY <2>6
  <2> HIDE DEF F
  <2> DEFINE Good == {k \in D : g[k] \in S}
  <2>9. ASSUME NEW k \in D, \A j \in D : rank[j] < rank[k] => j \in Good
        PROVE  k \in Good
    <3>1. CASE k = from
      BY <2>8, <3>1
    <3>2. CASE k # from
      <4>1. k + 1 \in D /\ rank[k + 1] < rank[k]
        BY <1>1, <2>1, <3>2
      <4>2. g[k + 1] \in S
        BY <2>9, <4>1
      <4>3. Undo(g[k + 1], list[k + 1]) \in S
        <5> HIDE DEF S
        <5>1. QED
          BY <2>2, <3>2, <4>2
      <4>4. QED
        BY <2>8, <3>2, <4>3
    <3>3. QED
      BY <3>1, <3>2
  <2>10. rank \in [D -> 0..n]
    BY <1>1, <1>4
  <2>11. D \subseteq Good
    <3> HIDE DEF D, rank, Good
    <3>1. QED
      BY <1>1, <2>9, <2>10, Numbers!RankInduction
  <2>12. to \in D
    BY <1>1, <1>4
  <2>13. QED
    BY <2>7, <2>11, <2>12
<1>5. QED
  BY <1>1, <1>3, <1>4

\* The slider shows, wherever it is moved, what the history leads to, if it
\* showed that before and the changes can be taken back.
THEOREM GoReplays ==
  ASSUME NEW C, NEW n, NEW list, ChangesUpto(C, list, n),
         ReversibleUpto(list, n), NEW from \in 0..n, NEW to \in 0..n
  PROVE  Go(list, Replay(list, from), from, to) = Replay(list, to)
<1>1. n \in Nat
  BY DEF ChangesUpto
<1>2. CASE from <= to
  BY <1>2, GoForward
<1>3. CASE to < from
  BY <1>3, GoBack
<1>4. QED
  BY <1>1, <1>2, <1>3

\* Typing: a history that can be taken back, with the recorded change after it,
\* can be taken back too, and leads to the text that was typed.
THEOREM RecordedReplays ==
  ASSUME NEW C, NEW n, NEW list, ChangesUpto(C, list, n),
         ReversibleUpto(list, n), NEW text \in Seq(C), NEW more,
         \A k \in 1..n : more[k] = list[k],
         more[n + 1] = Diff(Replay(list, n), text)
  PROVE  /\ ReversibleUpto(more, n + 1)
         /\ Replay(more, n + 1) = text
<1>1. n \in Nat
  BY DEF ChangesUpto
<1> DEFINE old == Replay(list, n)
<1>2. old \in Seq(C)
  BY <1>1, ReplaySteps
<1>3. ChangesUpto(C, more, n + 1)
  <2>1. more[n + 1] \in ChangesOver(C)
    BY <1>2, DiffIsChange
  <2>2. \A k \in 1..(n + 1) : k \in 1..n \/ k = n + 1
    BY <1>1
  <2>3. QED
    BY <1>1, <2>1, <2>2 DEF ChangesUpto
<1>4. \A k \in 0..n : Replay(more, k) = Replay(list, k)
  BY ReplaySame
<1>5. Replay(more, n + 1) = text
  <2>1. n + 1 \in 1..(n + 1) /\ (n + 1) - 1 = n /\ n \in 0..n
    BY <1>1
  <2>2. Replay(more, n + 1) = Redo(Replay(more, n), more[n + 1])
    BY <1>3, <2>1, ReplaySteps
  <2>3. Replay(more, n + 1) = Redo(old, Diff(old, text))
    BY <1>4, <2>1, <2>2
  <2>4. QED
    BY <1>2, <2>3, DiffRedoes
<1>6. ASSUME NEW k \in 1..(n + 1)
      PROVE  Undo(Replay(more, k), more[k]) = Replay(more, k - 1)
  <2>1. CASE k = n + 1
    <3>1. Undo(text, Diff(old, text)) = old
      BY <1>2, DiffUndoes
    <3>2. Replay(more, k - 1) = old
      BY <1>1, <1>4, <2>1
    <3>3. QED
      BY <1>5, <2>1, <3>1, <3>2
  <2>2. CASE k # n + 1
    <3>1. k \in 1..n /\ k \in 0..n /\ k - 1 \in 0..n
      BY <1>1, <2>2
    <3>2. QED
      BY <1>4, <3>1 DEF ReversibleUpto
  <2>3. QED
    BY <2>1, <2>2
<1>7. QED
  BY <1>5, <1>6 DEF ReversibleUpto

-----------------------------------------------------------------------------
(* Branches, and the page that edits them *)


\* How the global `branches` grows: an id is at most the number of its branch,
\* and a parent is an id that is in use, smaller than the child's.
Grown(h) ==
  /\ h \in Seq(Branches)
  /\ \A b \in 1..Len(h) :
       /\ h[b].id <= b
       /\ h[b].parent # 0 =>
            /\ h[b].parent < h[b].id
            /\ \E c \in 1..Len(h) : h[c].id = h[b].parent

\* What a branch is made of.
LEMMA BranchTyped ==
  ASSUME NEW h, Grown(h)
  PROVE  /\ Len(h) \in Nat
         /\ \A b \in 1..Len(h) :
              /\ h[b] \in Branches
              /\ h[b].id \in Nat /\ h[b].id # 0
              /\ h[b].parent \in Nat /\ h[b].pos \in Nat
              /\ h[b].data \in Seq(Changes) /\ h[b].render \in Seq(Chars)
<1>1. h \in Seq(Branches)
  BY DEF Grown
<1>2. Len(h) \in Nat /\ \A b \in 1..Len(h) : h[b] \in Branches
  BY <1>1, LenProperties, ElementOfSeq
<1>3. MaxBranches \in Nat
  BY EditorAssumption
<1>4. QED
  BY <1>2, <1>3 DEF Branches

\* Looking up an id that is in use finds the last branch that has it.
LEMMA BranchFound ==
  ASSUME NEW h, Grown(h), NEW b \in 1..Len(h)
  PROVE  /\ Branch(h, h[b].id) \in 1..Len(h)
         /\ h[Branch(h, h[b].id)].id = h[b].id
         /\ b <= Branch(h, h[b].id)
<1>1. PICK n \in Nat : n = Len(h)
  BY BranchTyped
<1> DEFINE T == {c \in 1..n : h[c].id = h[b].id}
<1>2. T \in SUBSET (0..n) /\ b \in T
  BY <1>1
<1>3. Max(T) \in T /\ \A y \in T : y <= Max(T)
  <2> HIDE DEF T
  <2>1. QED
    BY <1>2, MaxIsGreatest
<1>4. Branch(h, h[b].id) = Max(T)
  BY <1>1 DEF Branch
<1>5. QED
  BY <1>1, <1>2, <1>3, <1>4

\* The parent of a branch is one, with a smaller id.
LEMMA ParentFound ==
  ASSUME NEW h, Grown(h), NEW b \in 1..Len(h), h[b].parent # 0
  PROVE  /\ Parent(h, b) \in 1..Len(h)
         /\ h[Parent(h, b)].id = h[b].parent
         /\ h[Parent(h, b)].id < h[b].id
<1>1. PICK c \in 1..Len(h) : h[c].id = h[b].parent
  BY DEF Grown
<1>2. Parent(h, b) = Branch(h, h[c].id)
  BY <1>1 DEF Parent
<1>3. h[b].parent < h[b].id
  BY DEF Grown
<1>4. QED
  BY <1>1, <1>2, <1>3, BranchFound

\* A slice of a list is made of its elements, and if it is as long as asked
\* for, the list was at least that long.
LEMMA Sliced ==
  ASSUME NEW S, NEW s \in Seq(S), NEW n \in Int
  PROVE  /\ Slice(s, n) \in Seq(S)
         /\ n \in 0..Len(s) => Slice(s, n) = SubSeq(s, 1, n) /\ Len(Slice(s, n)) = n
         /\ Len(Slice(s, n)) = n => n \in 0..Len(s)
<1>1. PICK m \in Nat : m = Len(s)
  BY LenProperties
<1> DEFINE k == IF n < 0 THEN m + n ELSE Least(n, m)
<1>2. k \in Int /\ k <= m
  BY <1>1 DEF Least
<1>3. Slice(s, n) = SubSeq(s, 1, k)
  BY <1>1 DEF Slice
<1>4. n \in 0..m => k = n
  BY <1>1 DEF Least
<1>5. n > m => k = m
  BY <1>1 DEF Least
<1> HIDE DEF k
<1>6. \A i \in 1..k : s[i] \in S
  BY <1>1, <1>2, ElementOfSeq
<1>7. /\ SubSeq(s, 1, k) \in Seq(S)
      /\ Len(SubSeq(s, 1, k)) = IF 1 <= k THEN k - 1 + 1 ELSE 0
  BY <1>2, <1>6, SubSeqProperties
<1>8. Len(SubSeq(s, 1, k)) = n => n \in 0..m
  BY <1>1, <1>2, <1>5, <1>7
<1>9. n \in 0..m => Len(SubSeq(s, 1, k)) = n
  BY <1>1, <1>4, <1>7
<1>10. QED
  BY <1>1, <1>3, <1>4, <1>7, <1>8, <1>9

\* An element more at the end of a list is in no slice that the list could fill.
LEMMA SliceOfAppend ==
  ASSUME NEW S, NEW s \in Seq(S), NEW x \in S, NEW n \in 0..Len(s)
  PROVE  Slice(Append(s, x), n) = Slice(s, n)
<1>1. PICK m \in Nat : m = Len(s)
  BY LenProperties
<1> DEFINE t == Append(s, x)
<1>2. t \in Seq(S) /\ Len(t) = m + 1 /\ \A i \in 1..m : t[i] = s[i]
  BY <1>1, AppendProperties
<1> HIDE DEF t
<1>3. n \in Int /\ n \in 0..Len(t)
  BY <1>1, <1>2
<1>4. Slice(t, n) = SubSeq(t, 1, n) /\ Slice(s, n) = SubSeq(s, 1, n)
  BY <1>2, <1>3, Sliced
<1>5. \A i \in 1..n : s[i] \in S /\ t[i] \in S /\ t[i] = s[i]
  BY <1>1, <1>2, ElementOfSeq
<1>6. /\ SubSeq(t, 1, n) \in Seq(S) /\ Len(SubSeq(t, 1, n)) = n
      /\ \A i \in 1..n : SubSeq(t, 1, n)[i] = t[i]
  BY <1>3, <1>5, SubSeqProperties
<1>7. /\ SubSeq(s, 1, n) \in Seq(S) /\ Len(SubSeq(s, 1, n)) = n
      /\ \A i \in 1..n : SubSeq(s, 1, n)[i] = s[i]
  BY <1>3, <1>5, SubSeqProperties
<1>8. SubSeq(t, 1, n) = SubSeq(s, 1, n)
  BY <1>5, <1>6, <1>7, SeqEqual
<1>9. QED
  BY <1>4, <1>8 DEF t

-----------------------------------------------------------------------------
\* The past of a branch, and the part of its parent's own changes in it.
Own(h, b) ==
  Slice(h[Parent(h, b)].data, h[b].pos - Len(Preceding(h, Parent(h, b))))

\* getprecedinghistory comes to an end, ids falling from child to parent: the
\* past of a branch is made from its parent's.
LEMMA PrecedingFollows ==
  ASSUME NEW h, Grown(h)
  PROVE  \A b \in 1..Len(h) :
           /\ Preceding(h, b) \in Seq(Changes)
           /\ h[b].parent = 0 => Preceding(h, b) = << >>
           /\ h[b].parent # 0 =>
                Preceding(h, b) = Preceding(h, Parent(h, b)) \o Own(h, b)
<1>1. PICK n \in Nat : n = Len(h)
  BY BranchTyped
<1> DEFINE D == 1..n
           S == Seq(Changes)
           rank == [a \in D |-> IF h[a].parent = 0 THEN 0 ELSE h[a].id]
           up == [a \in D |-> Parent(h, a)]
           base == [a \in D |-> << >>]
           Next1(a, s) == s \o Slice(h[Parent(h, a)].data, h[a].pos - Len(s))
           step == [a \in D |-> [s \in S |->
                      IF h[a].parent = 0 THEN << >> ELSE Next1(a, s)]]
           F(g) == [a \in D |-> IF h[a].parent = 0 THEN << >>
                                ELSE Next1(a, g[Parent(h, a)])]
           g == CHOOSE g : g = F(g)
<1>2. /\ \A a \in D : h[a].id \in Nat /\ h[a].id # 0 /\ h[a].id <= n
      /\ \A a \in D : h[a].pos \in Nat /\ h[a].data \in S
  <2>1. \A a \in D : h[a].id <= a
    BY <1>1 DEF Grown
  <2>2. QED
    BY <1>1, <2>1, BranchTyped
<1>3. \A a \in D : h[a].parent # 0 =>
        Parent(h, a) \in D /\ h[Parent(h, a)].id < h[a].id
  BY <1>1, ParentFound
<1>4. rank \in [D -> 0..n]
  BY <1>2
<1>5. \A a \in D : rank[a] # 0 => up[a] \in D /\ rank[up[a]] < rank[a]
  <2> SUFFICES ASSUME NEW a \in D, rank[a] # 0
               PROVE  up[a] \in D /\ rank[up[a]] < rank[a]
    OBVIOUS
  <2>1. h[a].parent # 0 /\ rank[a] = h[a].id /\ up[a] = Parent(h, a)
    OBVIOUS
  <2>2. up[a] \in D /\ h[up[a]].id < h[a].id
    BY <1>3, <2>1
  <2>3. rank[up[a]] \in {0, h[up[a]].id}
    BY <2>2
  <2>4. QED
    BY <1>2, <2>1, <2>2, <2>3
<1>6. ASSUME NEW a \in D, h[a].parent # 0, NEW s \in S
      PROVE  Next1(a, s) \in S
  <2>1. Len(s) \in Nat
    BY LenProperties
  <2>2. PICK k \in Int : k = h[a].pos - Len(s)
    BY <1>2, <2>1
  <2>3. h[Parent(h, a)].data \in S
    BY <1>2, <1>3, <1>6
  <2>4. Slice(h[Parent(h, a)].data, k) \in S
    BY <2>3, Sliced
  <2>5. QED
    BY <2>2, <2>4, ConcatProperties
<1>7. << >> \in S
  BY EmptySeq
<1>8. Numbers!Scheme(n, D, S, rank, up, base, step)
  <2>1. base \in [D -> S]
    BY <1>7
  <2>2. step \in [D -> [S -> S]]
    <3> HIDE DEF S, Next1
    <3>1. QED
      BY <1>6, <1>7
  <2>3. QED
    <3> HIDE DEF D, S, rank, up, base, step
    <3>1. QED
      BY <1>4, <1>5, <2>1, <2>2 DEF Numbers!Scheme
<1>9. PICK f : Numbers!Solution(f, D, S, rank, up, base, step)
  <2> HIDE DEF D, S, rank, up, base, step
  <2>1. QED
    BY <1>8, Numbers!RecursionExists
<1>10. f = F(f)
  <2>1. f \in [D -> S]
    BY <1>9 DEF Numbers!Solution
  <2>2. \A a \in D : f[a] = IF rank[a] = 0 THEN base[a] ELSE step[a][f[up[a]]]
    <3> HIDE DEF D, S, rank, up, base, step
    <3>1. QED
      BY <1>9 DEF Numbers!Solution
  <2> HIDE DEF Next1, S
  <2>3. ASSUME NEW a \in D
        PROVE  f[a] = F(f)[a]
    <3>1. CASE h[a].parent = 0
      BY <2>2, <3>1
    <3>2. CASE h[a].parent # 0
      <4>1. Parent(h, a) \in D /\ f[Parent(h, a)] \in S
        BY <1>3, <2>1, <3>2
      <4>2. rank[a] # 0
        BY <1>2, <3>2
      <4>3. f[a] = step[a][f[Parent(h, a)]]
        BY <2>2, <4>2
      <4>4. QED
        BY <3>2, <4>1, <4>3
    <3>3. QED
      BY <3>1, <3>2
  <2>4. QED
    BY <2>1, <2>3
<1>11. g = F(g)
  <2> HIDE DEF F
  <2>1. QED
    BY <1>10
<1>12. \A b \in D : Preceding(h, b) = g[b]
  BY <1>1 DEF Preceding
<1> HIDE DEF g
<1>13. \A a \in D : g[a] = IF h[a].parent = 0 THEN << >>
                           ELSE Next1(a, g[Parent(h, a)])
  <2> HIDE DEF Next1
  <2>1. QED
    BY <1>11
<1> HIDE DEF F
<1> DEFINE Good == {a \in D : g[a] \in S}
<1>14. ASSUME NEW a \in D, \A b \in D : rank[b] < rank[a] => b \in Good
       PROVE  a \in Good
  <2>1. CASE h[a].parent = 0
    BY <1>7, <1>13, <2>1
  <2>2. CASE h[a].parent # 0
    <3>1. rank[a] # 0
      BY <1>2, <2>2
    <3>2. up[a] \in D /\ rank[up[a]] < rank[a]
      BY <1>5, <3>1
    <3>3. Parent(h, a) \in Good
      BY <1>14, <3>2
    <3>4. g[a] = Next1(a, g[Parent(h, a)])
      BY <1>13, <2>2
    <3>5. QED
      <4> HIDE DEF Next1
      <4>1. QED
        BY <1>6, <2>2, <3>3, <3>4
  <2>3. QED
    BY <2>1, <2>2
<1>15. D \subseteq Good
  <2> HIDE DEF D, rank, Good
  <2>1. QED
    BY <1>4, <1>14, Numbers!RankInduction
<1>16. ASSUME NEW b \in D
       PROVE  /\ Preceding(h, b) \in Seq(Changes)
              /\ h[b].parent = 0 => Preceding(h, b) = << >>
              /\ h[b].parent # 0 =>
                   Preceding(h, b) = Preceding(h, Parent(h, b)) \o Own(h, b)
  <2>1. g[b] \in S
    BY <1>15
  <2>2. h[b].parent # 0 => g[Parent(h, b)] = Preceding(h, Parent(h, b))
    BY <1>3, <1>12
  <2>3. QED
    BY <1>12, <1>13, <2>1, <2>2 DEF Own
<1>17. QED
  BY <1>1, <1>16

\* Two heaps of the same branches, apart from what is typed in them and cached.
SameTree(g, h) ==
  /\ Len(g) = Len(h)
  /\ \A b \in 1..Len(h) :
       g[b].id = h[b].id /\ g[b].parent = h[b].parent /\ g[b].pos = h[b].pos

LEMMA SameParents ==
  ASSUME NEW g, NEW h, Grown(g), Grown(h), SameTree(g, h)
  PROVE  \A b \in 1..Len(h) : Parent(g, b) = Parent(h, b)
<1>1. ASSUME NEW id
      PROVE  Branch(g, id) = Branch(h, id)
  <2>1. {b \in 1..Len(g) : g[b].id = id} = {b \in 1..Len(h) : h[b].id = id}
    BY DEF SameTree
  <2>2. QED
    BY <2>1 DEF Branch
<1>2. QED
  BY <1>1 DEF Parent, SameTree

\* What is typed in a branch is not part of its own past, nor of the past of a
\* branch with the same or a smaller id.
LEMMA PastOfOthers ==
  ASSUME NEW g, NEW h, Grown(g), Grown(h), SameTree(g, h), NEW c \in 1..Len(h),
         \A b \in 1..Len(h) : b # c => g[b].data = h[b].data
  PROVE  \A b \in 1..Len(h) :
           h[b].id <= h[c].id => Preceding(g, b) = Preceding(h, b)
<1>1. PICK n \in Nat : n = Len(h) /\ n = Len(g)
  BY BranchTyped DEF SameTree
<1> DEFINE D == 1..n
           rank == [a \in D |-> h[a].id]
           Good == {a \in D : h[a].id <= h[c].id =>
                                Preceding(g, a) = Preceding(h, a)}
<1>2. rank \in [D -> 0..n]
  <2>1. \A a \in D : h[a].id <= a /\ h[a].id \in Nat
    BY <1>1, BranchTyped DEF Grown
  <2>2. QED
    BY <2>1
<1>3. ASSUME NEW a \in D, \A b \in D : rank[b] < rank[a] => b \in Good
      PROVE  a \in Good
  <2> SUFFICES ASSUME h[a].id <= h[c].id
               PROVE  Preceding(g, a) = Preceding(h, a)
    OBVIOUS
  <2>1. a \in 1..Len(h) /\ a \in 1..Len(g)
    BY <1>1
  <2>2. CASE h[a].parent = 0
    <3>1. g[a].parent = 0
      BY <2>1, <2>2 DEF SameTree
    <3>2. QED
      BY <2>1, <2>2, <3>1, PrecedingFollows
  <2>3. CASE h[a].parent # 0
    <3> DEFINE q == Parent(h, a)
    <3>1. q \in 1..Len(h) /\ q \in D /\ h[q].id < h[a].id
      BY <1>1, <2>1, <2>3, ParentFound
    <3>2. Parent(g, a) = q
      BY <2>1, SameParents
    <3>3. h[q].id \in Nat /\ h[a].id \in Nat /\ h[c].id \in Nat
      BY <2>1, <3>1, BranchTyped
    <3>4. Preceding(g, q) = Preceding(h, q)
      <4>1. q \in Good
        BY <1>3, <3>1
      <4>2. h[q].id <= h[c].id
        BY <3>1, <3>3
      <4>3. QED
        BY <4>1, <4>2
    <3>5. q # c
      BY <3>1, <3>3
    <3>6. g[q].data = h[q].data /\ g[a].pos = h[a].pos /\ g[a].parent # 0
      BY <2>1, <2>3, <3>1, <3>5 DEF SameTree
    <3> HIDE DEF q
    <3>7. Own(g, a) = Own(h, a)
      BY <3>2, <3>4, <3>6 DEF Own, q
    <3>8. Preceding(g, a) = Preceding(g, q) \o Own(g, a)
      BY <2>1, <3>2, <3>6, PrecedingFollows
    <3>9. Preceding(h, a) = Preceding(h, q) \o Own(h, a)
      BY <2>1, <2>3, PrecedingFollows DEF q
    <3>10. QED
      BY <3>4, <3>7, <3>8, <3>9
  <2>4. QED
    BY <2>2, <2>3
<1>4. D \subseteq Good
  <2> HIDE DEF D, rank, Good
  <2>1. QED
    BY <1>2, <1>3, Numbers!RankInduction
<1>5. QED
  BY <1>1, <1>4

\* A branch that is whole has all of the past it was forked from, and so has
\* its parent.
LEMMA WholeFollows ==
  ASSUME NEW h, Grown(h), NEW b \in 1..Len(h), Whole(h, b), h[b].parent # 0
  PROVE  Len(Preceding(h, b)) = h[b].pos /\ Whole(h, Parent(h, b))
<1>1. PICK n \in Nat : n = Len(h)
  BY BranchTyped
<1> DEFINE D == 1..n
           rank == [a \in D |-> IF h[a].parent = 0 THEN 0 ELSE h[a].id]
           up == [a \in D |-> Parent(h, a)]
           base == [a \in D |-> TRUE]
           Kept(a) == Len(Preceding(h, a)) = h[a].pos
           step == [a \in D |-> [s \in BOOLEAN |->
                      h[a].parent # 0 => (Kept(a) /\ s)]]
           F(g) == [a \in D |->
                      h[a].parent # 0 => (Kept(a) /\ g[Parent(h, a)])]
           g == CHOOSE g : g = F(g)
<1>2. \A a \in D : h[a].id \in Nat /\ h[a].id # 0 /\ h[a].id <= n
  <2>1. \A a \in D : h[a].id <= a
    BY <1>1 DEF Grown
  <2>2. QED
    BY <1>1, <2>1, BranchTyped
<1>3. \A a \in D : h[a].parent # 0 =>
        Parent(h, a) \in D /\ h[Parent(h, a)].id < h[a].id
  BY <1>1, ParentFound
<1>4. rank \in [D -> 0..n]
  BY <1>2
<1>5. \A a \in D : rank[a] # 0 => up[a] \in D /\ rank[up[a]] < rank[a]
  <2> SUFFICES ASSUME NEW a \in D, rank[a] # 0
               PROVE  up[a] \in D /\ rank[up[a]] < rank[a]
    OBVIOUS
  <2>1. h[a].parent # 0 /\ rank[a] = h[a].id /\ up[a] = Parent(h, a)
    OBVIOUS
  <2>2. up[a] \in D /\ h[up[a]].id < h[a].id
    BY <1>3, <2>1
  <2>3. rank[up[a]] \in {0, h[up[a]].id}
    BY <2>2
  <2>4. QED
    BY <1>2, <2>1, <2>2, <2>3
<1>6. Numbers!Scheme(n, D, BOOLEAN, rank, up, base, step)
  <2>1. base \in [D -> BOOLEAN]
    OBVIOUS
  <2>2. step \in [D -> [BOOLEAN -> BOOLEAN]]
    OBVIOUS
  <2>3. QED
    <3> HIDE DEF D, rank, up, base, step
    <3>1. QED
      BY <1>4, <1>5, <2>1, <2>2 DEF Numbers!Scheme
<1>7. PICK f : Numbers!Solution(f, D, BOOLEAN, rank, up, base, step)
  <2> HIDE DEF D, rank, up, base, step
  <2>1. QED
    BY <1>6, Numbers!RecursionExists
<1>8. f = F(f)
  <2>1. f \in [D -> BOOLEAN]
    BY <1>7 DEF Numbers!Solution
  <2>2. \A a \in D : f[a] = IF rank[a] = 0 THEN base[a] ELSE step[a][f[up[a]]]
    <3> HIDE DEF D, rank, up, base, step
    <3>1. QED
      BY <1>7 DEF Numbers!Solution
  <2>3. ASSUME NEW a \in D
        PROVE  f[a] = F(f)[a]
    <3>1. CASE h[a].parent = 0
      BY <2>2, <3>1
    <3>2. CASE h[a].parent # 0
      <4>1. Parent(h, a) \in D /\ f[Parent(h, a)] \in BOOLEAN
        BY <1>3, <2>1, <3>2
      <4>2. rank[a] # 0
        BY <1>2, <3>2
      <4>3. f[a] = step[a][f[Parent(h, a)]]
        BY <2>2, <4>2
      <4>4. step[a][f[Parent(h, a)]]
              = (h[a].parent # 0 => (Kept(a) /\ f[Parent(h, a)]))
        <5> HIDE DEF Kept
        <5>1. QED
          BY <4>1
      <4>5. F(f)[a] = (h[a].parent # 0 => (Kept(a) /\ f[Parent(h, a)]))
        OBVIOUS
      <4>6. QED
        BY <4>3, <4>4, <4>5
    <3>3. QED
      BY <3>1, <3>2
  <2>4. QED
    <3>1. F(f) = [a \in D |-> F(f)[a]]
      OBVIOUS
    <3> HIDE DEF F
    <3>2. QED
      BY <2>1, <2>3, <3>1
<1>9. g = F(g)
  <2> HIDE DEF F
  <2>1. QED
    BY <1>8
<1>10. \A a \in D : Whole(h, a) = g[a]
  BY <1>1 DEF Whole
<1> HIDE DEF g
<1>11. g[b] = (h[b].parent # 0 => (Kept(b) /\ g[Parent(h, b)]))
  <2> HIDE DEF Kept
  <2>1. QED
    BY <1>1, <1>9
<1>12. QED
  <2> HIDE DEF F
  <2>1. Whole(h, b) = g[b] /\ Whole(h, Parent(h, b)) = g[Parent(h, b)]
    BY <1>1, <1>3, <1>10
  <2>2. QED
    BY <1>11, <2>1

\* What is typed in any branch is not part of the past of a branch that is
\* whole: it was forked where the data now ends, or before.
LEMMA PastAfterTyping ==
  ASSUME NEW g, NEW h, Grown(g), Grown(h), SameTree(g, h), NEW c \in 1..Len(h),
         \A b \in 1..Len(h) : b # c => g[b].data = h[b].data,
         NEW change \in Changes, g[c].data = Append(h[c].data, change)
  PROVE  \A b \in 1..Len(h) : Whole(h, b) => Preceding(g, b) = Preceding(h, b)
<1>1. PICK n \in Nat : n = Len(h) /\ n = Len(g)
  BY BranchTyped DEF SameTree
<1> DEFINE D == 1..n
           rank == [a \in D |-> h[a].id]
           Good == {a \in D : Whole(h, a) => Preceding(g, a) = Preceding(h, a)}
<1>2. rank \in [D -> 0..n]
  <2>1. \A a \in D : h[a].id <= a /\ h[a].id \in Nat
    BY <1>1, BranchTyped DEF Grown
  <2>2. QED
    BY <2>1
<1>3. ASSUME NEW a \in D, \A b \in D : rank[b] < rank[a] => b \in Good
      PROVE  a \in Good
  <2> SUFFICES ASSUME Whole(h, a)
               PROVE  Preceding(g, a) = Preceding(h, a)
    OBVIOUS
  <2>1. a \in 1..Len(h) /\ a \in 1..Len(g)
    BY <1>1
  <2>2. CASE h[a].parent = 0
    <3>1. g[a].parent = 0
      BY <2>1, <2>2 DEF SameTree
    <3>2. QED
      BY <2>1, <2>2, <3>1, PrecedingFollows
  <2>3. CASE h[a].parent # 0
    <3>1. PICK q \in D : q = Parent(h, a) /\ h[q].id < h[a].id
      BY <1>1, <2>1, <2>3, ParentFound
    <3>2. Parent(g, a) = q /\ g[a].pos = h[a].pos /\ g[a].parent # 0
      BY <2>1, <2>3, <3>1, SameParents DEF SameTree
    <3>3. Len(Preceding(h, a)) = h[a].pos /\ Whole(h, q)
      BY <2>1, <2>3, <3>1, WholeFollows
    <3>4. Preceding(g, q) = Preceding(h, q)
      BY <1>3, <3>1, <3>3
    <3>5. q \in 1..Len(h) /\ q \in 1..Len(g)
      BY <1>1
    <3>6. Preceding(h, q) \in Seq(Changes) /\ h[q].data \in Seq(Changes)
      BY <3>5, PrecedingFollows, BranchTyped
    <3>7. PICK m \in Nat : m = Len(Preceding(h, q))
      BY <3>6, LenProperties
    <3>8. PICK k \in Int : k = h[a].pos - m
      BY <2>1, BranchTyped, SMTT(30)
    <3>9. Own(h, a) = Slice(h[q].data, k) /\ Own(g, a) = Slice(g[q].data, k)
      BY <3>1, <3>2, <3>4, <3>7, <3>8 DEF Own
    <3>10. Preceding(h, a) = Preceding(h, q) \o Slice(h[q].data, k)
      BY <2>1, <2>3, <3>1, <3>9, PrecedingFollows
    <3>11. Slice(h[q].data, k) \in Seq(Changes)
      BY <3>6, Sliced
    <3>12. PICK j \in Nat : j = Len(Slice(h[q].data, k))
      BY <3>11, LenProperties
    <3>13. h[a].pos = m + j
      BY <3>3, <3>6, <3>7, <3>10, <3>11, <3>12, ConcatProperties
    <3>14. j = k
      <4>1. h[a].pos \in Nat
        BY <2>1, BranchTyped
      <4>2. QED
        BY <3>8, <3>13, <4>1
    <3>15. k \in 0..Len(h[q].data)
      BY <3>6, <3>12, <3>14, Sliced
    <3>16. Slice(g[q].data, k) = Slice(h[q].data, k)
      <4>1. CASE q # c
        BY <3>5, <4>1
      <4>2. CASE q = c
        <5>1. g[q].data = Append(h[q].data, change)
          BY <4>2
        <5>2. QED
          BY <3>6, <3>15, <5>1, SliceOfAppend
      <4>3. QED
        BY <4>1, <4>2
    <3>17. Preceding(g, a) = Preceding(g, q) \o Slice(g[q].data, k)
      BY <2>1, <3>2, <3>9, PrecedingFollows
    <3>18. QED
      BY <3>4, <3>10, <3>16, <3>17
  <2>4. QED
    BY <2>2, <2>3
<1>4. D \subseteq Good
  <2> HIDE DEF D, rank, Good
  <2>1. QED
    BY <1>2, <1>3, Numbers!RankInduction
<1>5. QED
  BY <1>1, <1>4

\* The branches of h are the first ones of g, and the only other one has an id
\* of its own: what forking, and typing in the fork, makes of h.
Forked(g, h) ==
  /\ Len(g) = Len(h) + 1
  /\ \A b \in 1..Len(h) : g[b] = h[b]
  /\ g[Len(h) + 1].id = Len(h) + 1

\* A fork changes the past of no other branch.
LEMMA PastAfterFork ==
  ASSUME NEW g, NEW h, Grown(g), Grown(h), Forked(g, h)
  PROVE  /\ \A b \in 1..Len(h) : Branch(g, h[b].id) = Branch(h, h[b].id)
         /\ \A b \in 1..Len(h) : Preceding(g, b) = Preceding(h, b)
<1>1. PICK n \in Nat : n = Len(h)
  BY BranchTyped
<1> DEFINE D == 1..n
           rank == [a \in D |-> h[a].id]
           Good == {a \in D : Preceding(g, a) = Preceding(h, a)}
<1>2. \A a \in D : h[a].id <= a /\ h[a].id \in Nat
  BY <1>1, BranchTyped DEF Grown
<1>3. rank \in [D -> 0..n]
  BY <1>2
<1>4. ASSUME NEW b \in D
      PROVE  Branch(g, h[b].id) = Branch(h, h[b].id)
  <2>1. h[b].id # n + 1
    BY <1>2
  <2>2. \A c \in 1..Len(g) : c \in D \/ c = n + 1
    BY <1>1 DEF Forked
  <2>3. D \subseteq 1..Len(g)
    BY <1>1 DEF Forked
  <2>4. {c \in 1..Len(g) : g[c].id = h[b].id} = {c \in 1..Len(h) : h[c].id = h[b].id}
    BY <1>1, <2>1, <2>2, <2>3 DEF Forked
  <2>5. QED
    BY <2>4 DEF Branch
<1>5. ASSUME NEW a \in D, \A b \in D : rank[b] < rank[a] => b \in Good
      PROVE  a \in Good
  <2>1. a \in 1..Len(h) /\ a \in 1..Len(g) /\ g[a] = h[a]
    BY <1>1 DEF Forked
  <2>2. CASE h[a].parent = 0
    BY <2>1, <2>2, PrecedingFollows
  <2>3. CASE h[a].parent # 0
    <3>1. PICK q \in D : q = Parent(h, a) /\ h[q].id < h[a].id
                         /\ h[q].id = h[a].parent
      BY <1>1, <2>1, <2>3, ParentFound
    <3>2. Parent(g, a) = q
      BY <1>4, <2>1, <3>1 DEF Parent
    <3>3. Preceding(g, q) = Preceding(h, q)
      BY <1>5, <3>1
    <3>4. g[q] = h[q]
      BY <1>1 DEF Forked
    <3>5. Own(g, a) = Own(h, a)
      BY <2>1, <3>1, <3>2, <3>3, <3>4 DEF Own
    <3>6. Preceding(g, a) = Preceding(g, q) \o Own(g, a)
      BY <2>1, <2>3, <3>2, PrecedingFollows
    <3>7. Preceding(h, a) = Preceding(h, q) \o Own(h, a)
      BY <2>1, <2>3, <3>1, PrecedingFollows
    <3>8. QED
      BY <3>3, <3>5, <3>6, <3>7
  <2>4. QED
    BY <2>2, <2>3
<1>6. D \subseteq Good
  <2> HIDE DEF D, rank, Good
  <2>1. QED
    BY <1>3, <1>5, Numbers!RankInduction
<1>7. QED
  BY <1>1, <1>4, <1>6

-----------------------------------------------------------------------------
\* A branch's history is a list of changes.
LEMMA HistoryTyped ==
  ASSUME NEW h, Grown(h), NEW b \in 1..Len(h)
  PROVE  HistoryOf(h, b) \in Seq(Changes)
<1>1. Preceding(h, b) \in Seq(Changes) /\ h[b].data \in Seq(Changes)
  BY PrecedingFollows, BranchTyped
<1>2. QED
  BY <1>1, ConcatProperties DEF HistoryOf

\* A new branch at the end of the heap.
LEMMA MadeGrown ==
  ASSUME NEW h, Grown(h), Len(h) < MaxBranches,
         NEW id \in 1..(Len(h) + 1), NEW pos \in Nat, NEW parent \in Nat,
         parent # 0 => (parent < id /\ \E c \in 1..Len(h) : h[c].id = parent)
  PROVE  LET g == Append(h, NewBranch(id, parent, pos)) IN
         /\ Grown(g)
         /\ Len(g) = Len(h) + 1 /\ Len(g) <= MaxBranches
         /\ \A b \in 1..Len(h) : g[b] = h[b]
         /\ g[Len(h) + 1] = NewBranch(id, parent, pos)
<1> DEFINE new == NewBranch(id, parent, pos)
           g == Append(h, new)
<1>1. PICK n \in Nat : n = Len(h)
  BY BranchTyped
<1>2. n + 1 <= MaxBranches /\ MaxBranches \in Nat
  BY <1>1, EditorAssumption
<1>3. new \in Branches
  <2>1. id \in 1..MaxBranches /\ parent \in 0..MaxBranches
    BY <1>1, <1>2
  <2>2. << >> \in Seq(Changes) /\ << >> \in Seq(Chars)
    BY EmptySeq
  <2>3. QED
    BY <2>1, <2>2 DEF NewBranch, Branches
<1>4. new.id = id /\ new.parent = parent
  BY DEF NewBranch
<1> HIDE DEF new
<1>5. h \in Seq(Branches)
  BY DEF Grown
<1>6. /\ g \in Seq(Branches) /\ Len(g) = n + 1
      /\ \A b \in 1..n : g[b] = h[b]
      /\ g[n + 1] = new
  BY <1>1, <1>3, <1>5, AppendProperties
<1> HIDE DEF g
<1>7. ASSUME NEW b \in 1..Len(g)
      PROVE  /\ g[b].id <= b
             /\ g[b].parent # 0 =>
                  /\ g[b].parent < g[b].id
                  /\ \E c \in 1..Len(g) : g[c].id = g[b].parent
  <2>1. 1..n \subseteq 1..Len(g)
    BY <1>6
  <2>2. CASE b \in 1..n
    <3>1. g[b] = h[b]
      BY <1>6, <2>2
    <3>2. /\ h[b].id <= b
          /\ h[b].parent # 0 =>
                  /\ h[b].parent < h[b].id
                  /\ \E c \in 1..Len(h) : h[c].id = h[b].parent
      BY <1>1, <2>2 DEF Grown
    <3>3. QED
      BY <1>1, <1>6, <2>1, <3>1, <3>2
  <2>3. CASE b = n + 1
    <3>1. g[b] = new
      BY <1>6, <2>3
    <3>2. id <= n + 1
      BY <1>1
    <3>3. QED
      BY <1>1, <1>4, <1>6, <2>1, <2>3, <3>1, <3>2
  <2>4. QED
    BY <1>6, <2>2, <2>3
<1>8. Grown(g)
  BY <1>6, <1>7 DEF Grown
<1>9. QED
  BY <1>1, <1>2, <1>6, <1>8 DEF g, new

\* What Record makes of the heap.
Recorded(h, b, change, text) ==
  [h EXCEPT ![b].data = Append(@, change), ![b].render = text]

LEMMA RecordedGrown ==
  ASSUME NEW h, Grown(h), NEW b \in 1..Len(h), NEW change \in Changes,
         NEW text \in Seq(Chars)
  PROVE  LET g == Recorded(h, b, change, text) IN
         /\ Grown(g) /\ SameTree(g, h)
         /\ \A c \in 1..Len(h) : c # b => g[c] = h[c]
         /\ g[b].data = Append(h[b].data, change) /\ g[b].render = text
<1> DEFINE new == [h[b] EXCEPT !.data = Append(@, change), !.render = text]
           g == Recorded(h, b, change, text)
<1>1. PICK n \in Nat : n = Len(h)
  BY BranchTyped
<1>2. h[b] \in Branches /\ h[b].data \in Seq(Changes)
  BY BranchTyped
<1>3. Append(h[b].data, change) \in Seq(Changes)
  BY <1>2, AppendProperties
<1>4. /\ new \in Branches
      /\ new.id = h[b].id /\ new.parent = h[b].parent /\ new.pos = h[b].pos
      /\ new.data = Append(h[b].data, change) /\ new.render = text
  BY <1>2, <1>3 DEF Branches
<1>5. g = [h EXCEPT ![b] = new]
  <2>1. h = [c \in 1..n |-> h[c]]
    BY <1>1 DEF Grown
  <2>2. QED
    BY <1>1, <2>1 DEF Recorded
<1> HIDE DEF g, new
<1>6. h \in Seq(Branches)
  BY DEF Grown
<1>7. /\ g \in Seq(Branches) /\ Len(g) = n
      /\ g[b] = new
      /\ \A c \in 1..n : c # b => g[c] = h[c]
  BY <1>1, <1>4, <1>5, <1>6, ExceptSeq
<1>8. SameTree(g, h)
  BY <1>1, <1>4, <1>7 DEF SameTree
<1>9. Grown(g)
  <2> SUFFICES ASSUME NEW a \in 1..Len(g)
               PROVE  /\ g[a].id <= a
                      /\ g[a].parent # 0 =>
                           /\ g[a].parent < g[a].id
                           /\ \E c \in 1..Len(g) : g[c].id = g[a].parent
    BY <1>7 DEF Grown
  <2>1. a \in 1..Len(h)
    BY <1>1, <1>7
  <2>2. /\ h[a].id <= a
        /\ h[a].parent # 0 =>
                  /\ h[a].parent < h[a].id
                  /\ \E c \in 1..Len(h) : h[c].id = h[a].parent
    BY <2>1 DEF Grown
  <2>3. \A c \in 1..Len(h) : g[c].id = h[c].id /\ g[c].parent = h[c].parent
    BY <1>8 DEF SameTree
  <2>4. QED
    BY <1>1, <1>7, <2>1, <2>2, <2>3
<1>10. QED
  BY <1>1, <1>4, <1>7, <1>8, <1>9 DEF g

\* The history of the branch that is typed in grows by the change.
LEMMA RecordedHistory ==
  ASSUME NEW h, Grown(h), NEW b \in 1..Len(h), NEW change \in Changes,
         NEW text \in Seq(Chars)
  PROVE  HistoryOf(Recorded(h, b, change, text), b)
           = Append(HistoryOf(h, b), change)
<1> DEFINE g == Recorded(h, b, change, text)
<1>1. /\ Grown(g) /\ SameTree(g, h)
      /\ \A c \in 1..Len(h) : c # b => g[c].data = h[c].data
      /\ g[b].data = Append(h[b].data, change)
  BY RecordedGrown
<1> HIDE DEF g
<1>2. h[b].id <= h[b].id
  BY BranchTyped
<1>3. Preceding(g, b) = Preceding(h, b)
  BY <1>1, <1>2, PastOfOthers
<1> DEFINE p == Preceding(h, b)
           d == h[b].data
<1>4. p \in Seq(Changes) /\ d \in Seq(Changes) /\ p \o d \in Seq(Changes)
  <2>1. p \in Seq(Changes) /\ d \in Seq(Changes)
    BY PrecedingFollows, BranchTyped
  <2>2. QED
    BY <2>1, ConcatProperties
<1> HIDE DEF p, d
<1>5. <<change>> \in Seq(Changes)
  OBVIOUS
<1>6. p \o Append(d, change) = (p \o d) \o <<change>>
  <2>1. Append(d, change) = d \o <<change>>
    BY <1>4, AppendIsConcat
  <2>2. QED
    BY <1>4, <1>5, <2>1, ConcatAssociative
<1>7. (p \o d) \o <<change>> = Append(p \o d, change)
  BY <1>4, AppendIsConcat
<1>8. QED
  BY <1>1, <1>3, <1>6, <1>7 DEF HistoryOf, p, d, g

-----------------------------------------------------------------------------
\* The branch on the page is the one that its id stands for.
Latest == view = "editor" => current = Branch(heap, heap[current].id)

\* The inductive invariant: a history is looked up by ids, so what the page
\* shows stays the history of its branch only if ids find it.
EditorInv == TypeOK /\ Grown(heap) /\ Latest /\ HistoryInView

\* A text that is typed.
LEMMA TypedIsText ==
  ASSUME NEW text \in Texts
  PROVE  text \in Seq(Chars)
<1>1. PICK n \in 0..MaxText : text \in [1..n -> Chars]
  BY DEF Texts
<1>2. n \in Nat
  BY EditorAssumption
<1>3. QED
  BY <1>1, <1>2, SeqDef

\* The page's variables in the editor.
LEMMA OpenTyped ==
  ASSUME NEW h, Grown(h), NEW b \in 1..Len(h), Len(h) <= MaxBranches,
         b = Branch(h, h[b].id),
         heap' = h, view' = "editor", current' = b, steps' = HistoryOf(h, b),
         position' \in 0..Len(HistoryOf(h, b)),
         render' \in Seq(Chars), last' \in Seq(Chars), typed' \in 0..MaxChanges
  PROVE  EditorInv'
<1>1. b \in 0..Len(h) /\ b # 0
  BY BranchTyped
<1>2. HistoryOf(h, b) \in Seq(Changes)
  BY HistoryTyped
<1>3. h \in Seq(Branches)
  BY DEF Grown
<1>4. TypeOK'
  BY <1>1, <1>2, <1>3 DEF TypeOK, IsText
<1>5. Grown(heap)' /\ Latest'
  BY DEF Latest, Grown
<1>6. HistoryInView'
  BY DEF HistoryInView
<1>7. QED
  BY <1>4, <1>5, <1>6 DEF EditorInv

LEMMA EnterKeeps ==
  ASSUME NEW h, Grown(h), NEW b \in 1..Len(h), Len(h) <= MaxBranches,
         b = Branch(h, h[b].id), typed \in 0..MaxChanges, Enter(h, b)
  PROVE  EditorInv'
<1>1. /\ heap' = h /\ view' = "editor" /\ current' = b
      /\ steps' = HistoryOf(h, b) /\ position' = Len(HistoryOf(h, b))
      /\ render' = h[b].render /\ last' = h[b].render /\ typed' = typed
  BY DEF Enter
<1>2. h[b].render \in Seq(Chars)
  BY BranchTyped
<1>3. Len(HistoryOf(h, b)) \in Nat
  BY HistoryTyped, LenProperties
<1>4. QED
  BY <1>1, <1>2, <1>3, OpenTyped

\* oninput, once it has chosen the branch: `past` is that branch's history.
LEMMA RecordKeeps ==
  ASSUME NEW h, Grown(h), NEW b \in 1..Len(h), Len(h) <= MaxBranches,
         b = Branch(h, h[b].id), NEW text \in Texts, last \in Seq(Chars),
         Record(h, b, HistoryOf(h, b), text),
         view' = "editor", typed' \in 0..MaxChanges
  PROVE  EditorInv'
<1> DEFINE change == Diff(last, text)
           past == HistoryOf(h, b)
           g == Recorded(h, b, change, text)
<1>1. text \in Seq(Chars)
  BY TypedIsText
<1>2. change \in Changes
  BY <1>1, DiffIsChange DEF Changes, ChangesOver
<1>3. /\ heap' = g /\ current' = b
      /\ steps' = Append(past, change) /\ position' = Len(past) + 1
      /\ render' = text /\ last' = text
  BY DEF Record, Recorded
<1> HIDE DEF change
<1>4. Grown(g) /\ SameTree(g, h)
  BY <1>1, <1>2, RecordedGrown
<1>5. HistoryOf(g, b) = Append(past, change)
  BY <1>1, <1>2, RecordedHistory
<1>6. past \in Seq(Changes)
  BY HistoryTyped
<1> HIDE DEF past, g
<1>7. Len(Append(past, change)) = Len(past) + 1 /\ Len(past) \in Nat
  BY <1>2, <1>6, AppendProperties, LenProperties
<1>8. b \in 1..Len(g) /\ Len(g) <= MaxBranches
  BY <1>4 DEF SameTree
<1>9. b = Branch(g, g[b].id)
  <2>1. \A id : {c \in 1..Len(g) : g[c].id = id} = {c \in 1..Len(h) : h[c].id = id}
    BY <1>4 DEF SameTree
  <2>2. g[b].id = h[b].id
    BY <1>4 DEF SameTree
  <2>3. Branch(g, h[b].id) = Branch(h, h[b].id)
    BY <2>1 DEF Branch
  <2>4. QED
    BY <2>2, <2>3
<1>10. position' \in 0..Len(HistoryOf(g, b)) /\ steps' = HistoryOf(g, b)
  BY <1>3, <1>5, <1>7
<1>11. QED
  BY <1>1, <1>3, <1>4, <1>8, <1>9, <1>10, OpenTyped

\* The heap after branchout().
LEMMA BranchedGrown ==
  ASSUME EditorInv, view = "editor", Len(heap) < MaxBranches
  PROVE  LET h == Branched(heap) IN
         /\ Grown(h) /\ Forked(h, heap)
         /\ Len(h) \in 1..Len(h) /\ Len(h) <= MaxBranches
         /\ Len(h) = Branch(h, h[Len(h)].id)
         /\ h[Len(h)] = NewBranch(Len(heap) + 1, heap[current].id, position)
<1>1. PICK n \in Nat : n = Len(heap)
  BY BranchTyped DEF EditorInv
<1> DEFINE id == heap[current].id
           h == Branched(heap)
           new == NewBranch(n + 1, id, position)
<1>2. Grown(heap) /\ current \in 1..n /\ position \in Nat
  <2>1. current \in 0..n /\ current # 0
    BY <1>1 DEF EditorInv, TypeOK
  <2>2. Len(steps) \in Nat
    BY LenProperties DEF EditorInv, TypeOK
  <2>3. QED
    BY <2>1, <2>2 DEF EditorInv, TypeOK
<1>3. id \in Nat /\ id < n + 1 /\ \E c \in 1..Len(heap) : heap[c].id = id
  <2>1. id \in Nat /\ id <= current
    BY <1>1, <1>2, BranchTyped DEF Grown
  <2>2. QED
    BY <1>1, <1>2, <2>1
<1>4. h = Append(heap, new)
  BY <1>1 DEF Branched
<1> HIDE DEF id, h
<1>5. n + 1 \in 1..(Len(heap) + 1)
  BY <1>1
<1>6. /\ Grown(h) /\ Len(h) = n + 1 /\ Len(h) <= MaxBranches
      /\ \A b \in 1..n : h[b] = heap[b]
      /\ h[n + 1] = new
  BY <1>1, <1>2, <1>3, <1>4, <1>5, MadeGrown
<1>7. new.id = n + 1
  BY DEF NewBranch
<1>8. Forked(h, heap)
  BY <1>1, <1>6, <1>7 DEF Forked
<1>9. n + 1 = Branch(h, h[n + 1].id)
  <2>1. n + 1 \in 1..Len(h)
    BY <1>6
  <2>2. Branch(h, h[n + 1].id) \in 1..(n + 1) /\ n + 1 <= Branch(h, h[n + 1].id)
    BY <1>6, <2>1, BranchFound
  <2>3. QED
    BY <2>2
<1>10. QED
  BY <1>1, <1>6, <1>8, <1>9 DEF h, id

LEMMA EditorInvInit ==
  Init => EditorInv
<1> SUFFICES ASSUME Init
             PROVE  EditorInv
  OBVIOUS
<1>1. << >> \in Seq(Branches) /\ << >> \in Seq(Changes) /\ << >> \in Seq(Chars)
  BY EmptySeq
<1>2. Len(heap) = 0 /\ Len(steps) = 0
  BY DEF Init
<1>3. TypeOK
  BY <1>1, <1>2, EditorAssumption DEF Init, TypeOK, IsText
<1>4. Grown(heap)
  BY <1>1, <1>2 DEF Init, Grown
<1>5. Latest /\ HistoryInView
  BY DEF Init, Latest, HistoryInView
<1>6. QED
  BY <1>3, <1>4, <1>5 DEF EditorInv

LEMMA EditorInvNext ==
  EditorInv /\ [Next]_vars => EditorInv'
<1> SUFFICES ASSUME EditorInv, [Next]_vars
             PROVE  EditorInv'
  OBVIOUS
<1>1. PICK n \in Nat : n = Len(heap) /\ n <= MaxBranches
  BY BranchTyped DEF EditorInv, TypeOK
<1>2. Grown(heap) /\ typed \in 0..MaxChanges /\ last \in Seq(Chars)
      /\ heap \in Seq(Branches)
  BY DEF EditorInv, TypeOK, IsText
<1>3. ASSUME view = "editor"
      PROVE  /\ current \in 1..Len(heap)
             /\ current = Branch(heap, heap[current].id)
             /\ steps = HistoryOf(heap, current)
  BY <1>1, <1>3 DEF EditorInv, TypeOK, Latest, HistoryInView
<1>4. ASSUME Login
      PROVE  EditorInv'
  <2> DEFINE h == Append(heap, NewBranch(1, 0, 0))
  <2>1. Len(heap) < MaxBranches /\ Enter(h, n + 1)
    BY <1>1, <1>4 DEF Login
  <2>2. 1 \in 1..(Len(heap) + 1) /\ 0 \in Nat
    BY <1>1
  <2>3. /\ Grown(h) /\ Len(h) = n + 1 /\ Len(h) <= MaxBranches
        /\ h[n + 1] = NewBranch(1, 0, 0)
    BY <1>1, <1>2, <2>1, <2>2, MadeGrown
  <2> HIDE DEF h
  <2>4. n + 1 = Branch(h, h[n + 1].id)
    <3>1. n + 1 \in 1..Len(h)
      BY <2>3
    <3>2. PICK c \in 1..(n + 1) : c = Branch(h, h[n + 1].id) /\ n + 1 <= c
      BY <2>3, <3>1, BranchFound
    <3>3. QED
      BY <3>2
  <2>5. n + 1 \in 1..Len(h)
    BY <2>3
  <2>6. QED
    BY <1>2, <2>1, <2>3, <2>4, <2>5, EnterKeeps
<1>5. ASSUME Leave
      PROVE  EditorInv'
  <2>1. << >> \in Seq(Changes) /\ << >> \in Seq(Chars) /\ Len(<< >>) = 0
    BY EmptySeq
  <2>2. TypeOK'
    BY <1>1, <1>2, <1>5, <2>1 DEF Leave, TypeOK, IsText
  <2>3. Grown(heap)' /\ Latest' /\ HistoryInView'
    BY <1>2, <1>5 DEF Leave, Latest, HistoryInView, Grown
  <2>4. QED
    BY <2>2, <2>3 DEF EditorInv
<1>6. ASSUME OpenGraph
      PROVE  EditorInv'
  <2>1. TypeOK'
    BY <1>6 DEF OpenGraph, editor, EditorInv, TypeOK, IsText
  <2>2. Grown(heap)' /\ Latest' /\ HistoryInView'
    BY <1>2, <1>6 DEF OpenGraph, editor, Latest, HistoryInView, Grown
  <2>3. QED
    BY <2>1, <2>2 DEF EditorInv
<1>7. ASSUME NEW b \in 1..Len(heap), ClickVertex(b)
      PROVE  EditorInv'
  <2>1. b = Branch(heap, heap[b].id) /\ Enter(heap, b)
    BY <1>7 DEF ClickVertex
  <2>2. QED
    BY <1>1, <1>2, <2>1, EnterKeeps
<1>8. ASSUME BranchButton
      PROVE  EditorInv'
  <2> DEFINE h == Branched(heap)
  <2>1. view = "editor" /\ Len(heap) < MaxBranches
    BY <1>8 DEF BranchButton
  <2>2. /\ Grown(h) /\ Len(h) \in 1..Len(h) /\ Len(h) <= MaxBranches
        /\ Len(h) = Branch(h, h[Len(h)].id)
    BY <2>1, BranchedGrown
  <2>3. /\ heap' = h /\ view' = "editor" /\ current' = Len(h)
        /\ steps' = HistoryOf(h, Len(h))
        /\ position' = Len(HistoryOf(h, Len(h)))
        /\ render' = << >> /\ last' = last /\ typed' = typed
    BY <1>8, <2>1 DEF BranchButton
  <2> HIDE DEF h
  <2>4. Len(HistoryOf(h, Len(h))) \in Nat
    BY <2>2, HistoryTyped, LenProperties
  <2>5. << >> \in Seq(Chars)
    BY EmptySeq
  <2>6. QED
    BY <1>2, <2>2, <2>3, <2>4, <2>5, OpenTyped
<1>9. ASSUME NEW text \in Texts, Input(text)
      PROVE  EditorInv'
  <2>1. view = "editor" /\ view' = "editor" /\ typed' \in 0..MaxChanges
    BY <1>2, <1>9, EditorAssumption DEF Input
  <2>2. ASSUME Record(heap, current, steps, text)
        PROVE  EditorInv'
    <3>1. Record(heap, current, HistoryOf(heap, current), text)
      BY <1>3, <2>1, <2>2
    <3>2. QED
      BY <1>1, <1>2, <1>3, <2>1, <3>1, RecordKeeps
  <2>3. ASSUME Len(heap) < MaxBranches,
               LET h == Branched(heap) IN
                 Record(h, Len(h), HistoryOf(h, Len(h)), text)
        PROVE  EditorInv'
    <3> DEFINE h == Branched(heap)
    <3>1. /\ Grown(h) /\ Len(h) \in 1..Len(h) /\ Len(h) <= MaxBranches
          /\ Len(h) = Branch(h, h[Len(h)].id)
      BY <2>1, <2>3, BranchedGrown
    <3>2. Record(h, Len(h), HistoryOf(h, Len(h)), text)
      BY <2>3
    <3> HIDE DEF h
    <3>3. QED
      BY <1>2, <2>1, <3>1, <3>2, RecordKeeps
  <2>4. QED
    BY <1>9, <2>2, <2>3 DEF Input
<1>10. ASSUME NEW p \in 0..Len(steps), Slide(p)
       PROVE  EditorInv'
  <2>1. /\ view = "editor" /\ position' = p /\ last' = render'
        /\ render' = Go(steps, render, position, p)
        /\ heap' = heap /\ view' = view /\ current' = current
        /\ steps' = steps /\ typed' = typed
    BY <1>10 DEF Slide
  <2>2. render' \in Seq(Chars)
    BY <1>10, <2>1, GoTyped DEF EditorInv, TypeOK, IsText, Changes, ChangesOver
  <2>3. QED
    BY <1>1, <1>2, <1>3, <1>10, <2>1, <2>2, OpenTyped
<1>11. ASSUME UNCHANGED vars
       PROVE  EditorInv'
  <2>1. TypeOK'
    BY <1>11 DEF vars, editor, EditorInv, TypeOK, IsText
  <2>2. Grown(heap)' /\ Latest' /\ HistoryInView'
    BY <1>11 DEF vars, editor, EditorInv, Latest, HistoryInView, Grown
  <2>3. QED
    BY <2>1, <2>2 DEF EditorInv
<1>12. QED
  BY <1>4, <1>5, <1>6, <1>7, <1>8, <1>9, <1>10, <1>11 DEF Next

\* However users type, fork, slide and move between views, every variable of
\* the page keeps its type: the slider is on its scale, the branch exists, and
\* texts are texts.
THEOREM EditorTyped == Spec => []TypeOK
<1>1. EditorInv => TypeOK
  BY DEF EditorInv
<1>2. QED
  BY <1>1, EditorInvInit, EditorInvNext, PTL DEF Spec

\* The copy of the history that the page keeps is at all times the history of
\* its branch, as looked up through the parents' ids.
THEOREM HistoryStaysInView == Spec => []HistoryInView
<1>1. EditorInv => HistoryInView
  BY DEF EditorInv
<1>2. QED
  BY <1>1, EditorInvInit, EditorInvNext, PTL DEF Spec

-----------------------------------------------------------------------------
\* What a step may do to the heap outside the user view: fork, with or without
\* typing in the fork, or type in the branch on the page.
TypedHere ==
  /\ view = "editor" /\ position = Len(steps)
  /\ \E text \in Texts :
       heap' = Recorded(heap, current, Diff(last, text), text)

LEMMA HeapSteps ==
  ASSUME EditorInv, Next, heap' # heap, view # "account"
  PROVE  Grown(heap') /\ (Forked(heap', heap) \/ TypedHere)
<1>1. Grown(heap')
  <2>1. EditorInv'
    BY EditorInvNext
  <2>2. QED
    BY <2>1 DEF EditorInv, Grown
<1>2. ASSUME BranchButton
      PROVE  Forked(heap', heap)
  BY <1>2, BranchedGrown DEF BranchButton
<1>3. ASSUME NEW text \in Texts, Input(text)
      PROVE  Forked(heap', heap) \/ TypedHere
  <2>1. CASE position = Len(steps)
    BY <1>3, <2>1 DEF Input, Record, Recorded, TypedHere
  <2>2. CASE position # Len(steps)
    <3> DEFINE h == Branched(heap)
               m == Len(h)
               change == Diff(last, text)
    <3>1. /\ view = "editor" /\ Len(heap) < MaxBranches
          /\ heap' = Recorded(h, m, change, text)
      BY <1>3, <2>2 DEF Input, Record, Recorded
    <3>2. Grown(h) /\ Forked(h, heap) /\ m \in 1..m
      BY <3>1, BranchedGrown
    <3>3. text \in Seq(Chars) /\ last \in Seq(Chars)
      BY TypedIsText DEF EditorInv, TypeOK, IsText
    <3>4. change \in Changes
      BY <3>3, DiffIsChange DEF Changes, ChangesOver
    <3> HIDE DEF h, change
    <3>5. /\ SameTree(heap', h)
          /\ \A c \in 1..m : c # m => heap'[c] = h[c]
      BY <3>1, <3>2, <3>3, <3>4, RecordedGrown
    <3>6. Len(heap) \in Nat
      BY BranchTyped DEF EditorInv
    <3>7. Forked(heap', heap)
      <4>1. m = Len(heap) + 1 /\ Len(heap') = m
        BY <3>2, <3>5 DEF Forked, SameTree
      <4>2. heap'[m].id = m
        BY <3>2, <3>5, <4>1 DEF Forked, SameTree
      <4>3. \A b \in 1..Len(heap) : b \in 1..m /\ b # m
        BY <3>6, <4>1
      <4>4. \A b \in 1..Len(heap) : heap'[b] = heap[b]
        BY <3>2, <3>5, <4>3 DEF Forked
      <4>5. QED
        BY <4>1, <4>2, <4>4 DEF Forked
    <3>8. QED
      BY <3>7
  <2>3. QED
    BY <2>1, <2>2
<1>4. \/ BranchButton
      \/ \E text \in Texts : Input(text)
  BY DEF Next, Login, Leave, OpenGraph, ClickVertex, Enter, Slide
<1>5. QED
  BY <1>1, <1>2, <1>3, <1>4

\* The facts about typing in the branch on the page.
LEMMA HereFacts ==
  ASSUME EditorInv, TypedHere
  PROVE  /\ current \in 1..Len(heap)
         /\ steps = HistoryOf(heap, current)
         /\ \E text \in Texts :
              /\ Diff(last, text) \in Changes
              /\ Grown(heap') /\ SameTree(heap', heap)
              /\ \A c \in 1..Len(heap) : c # current => heap'[c] = heap[c]
              /\ heap'[current].data = Append(heap[current].data, Diff(last, text))
              /\ heap'[current].render = text
              /\ HistoryOf(heap', current) = Append(steps, Diff(last, text))
<1>1. view = "editor"
  BY DEF TypedHere
<1>2. Grown(heap) /\ current \in 1..Len(heap)
  <2>1. Len(heap) \in Nat
    BY BranchTyped DEF EditorInv
  <2>2. QED
    BY <1>1, <2>1 DEF EditorInv, TypeOK
<1>3. steps = HistoryOf(heap, current)
  BY <1>1 DEF EditorInv, HistoryInView
<1>4. PICK text \in Texts :
        heap' = Recorded(heap, current, Diff(last, text), text)
  BY DEF TypedHere
<1>5. text \in Seq(Chars) /\ last \in Seq(Chars)
  BY TypedIsText DEF EditorInv, TypeOK, IsText
<1>6. Diff(last, text) \in Changes
  BY <1>5, DiffIsChange DEF Changes, ChangesOver
<1>7. /\ Grown(heap') /\ SameTree(heap', heap)
      /\ \A c \in 1..Len(heap) : c # current => heap'[c] = heap[c]
      /\ heap'[current].data = Append(heap[current].data, Diff(last, text))
      /\ heap'[current].render = text
  BY <1>2, <1>4, <1>5, <1>6, RecordedGrown, SMTT(30)
<1>8. HistoryOf(heap', current) = Append(steps, Diff(last, text))
  BY <1>2, <1>3, <1>4, <1>5, <1>6, RecordedHistory
<1>9. QED
  BY <1>2, <1>3, <1>6, <1>7, <1>8

LEMMA PastFixedStep ==
  ASSUME EditorInv, [Next]_vars, heap' # heap, view # "account",
         NEW b \in 1..Len(heap), Whole(heap, b)
  PROVE  Preceding(heap', b) = Preceding(heap, b)
<1>1. Next
  BY DEF vars
<1>2. Grown(heap) /\ Grown(heap') /\ (Forked(heap', heap) \/ TypedHere)
  BY <1>1, HeapSteps DEF EditorInv
<1>3. CASE Forked(heap', heap)
  BY <1>2, <1>3, PastAfterFork
<1>4. CASE TypedHere
  <2>1. PICK text \in Texts :
          /\ Diff(last, text) \in Changes
          /\ SameTree(heap', heap)
          /\ \A c \in 1..Len(heap) : c # current => heap'[c] = heap[c]
          /\ heap'[current].data = Append(heap[current].data, Diff(last, text))
    BY <1>4, HereFacts
  <2>2. current \in 1..Len(heap)
    BY <1>4, HereFacts
  <2>3. QED
    BY <1>2, <2>1, <2>2, PastAfterTyping
<1>5. QED
  BY <1>2, <1>3, <1>4

\* The past of a branch is fixed: a step outside the user view changes the
\* past of no branch that has all the past it was forked from.
THEOREM PastStaysFixed == Spec => PastIsFixed
<1>1. EditorInv /\ [Next]_vars =>
        (heap' # heap => \A b \in 1..Len(heap) :
           view # "account" /\ Whole(heap, b) =>
             Preceding(heap', b) = Preceding(heap, b))
  BY PastFixedStep
<1>2. QED
  BY <1>1, EditorInvInit, EditorInvNext, PTL DEF Spec, PastIsFixed

-----------------------------------------------------------------------------
\* A page that shows the end of its history shows the end of the longer one
\* after a change.
LEMMA ShowsRecorded ==
  ASSUME NEW history \in Seq(Changes), NEW old \in Seq(Chars),
         NEW text \in Seq(Chars), Shows(history, Len(history), old)
  PROVE  LET more == Append(history, Diff(old, text)) IN
         /\ Shows(more, Len(history) + 1, text)
         /\ Shows(more, Len(more), text)
<1> DEFINE more == Append(history, Diff(old, text))
<1>1. PICK n \in Nat : n = Len(history)
  BY LenProperties
<1>2. Diff(old, text) \in Changes
  BY DiffIsChange DEF Changes, ChangesOver
<1>3. /\ Len(more) = n + 1 /\ more[n + 1] = Diff(old, text)
      /\ \A k \in 1..n : more[k] = history[k]
  BY <1>1, <1>2, AppendProperties
<1> HIDE DEF more
<1>4. ChangesUpto(Chars, history, n)
  BY <1>1, ElementOfSeq DEF ChangesUpto, Changes, ChangesOver
<1>5. ReversibleUpto(history, n) /\ old = Replay(history, n)
  BY <1>1 DEF Shows, Reversible, ReversibleUpto
<1>6. ReversibleUpto(more, n + 1) /\ Replay(more, n + 1) = text
  BY <1>3, <1>4, <1>5, RecordedReplays
<1>7. QED
  BY <1>1, <1>3, <1>6 DEF Shows, Reversible, ReversibleUpto, more

\* Cut where the page stands, its history still leads to the same text.
LEMMA ShowsCut ==
  ASSUME NEW history \in Seq(Changes), NEW p \in 0..Len(history), NEW text,
         Shows(history, p, text)
  PROVE  LET cut == SubSeq(history, 1, p) IN
         cut \in Seq(Changes) /\ Len(cut) = p /\ Shows(cut, p, text)
<1> DEFINE cut == SubSeq(history, 1, p)
<1>1. PICK n \in Nat : n = Len(history)
  BY LenProperties
<1>2. \A k \in 1..p : history[k] \in Changes
  BY <1>1, ElementOfSeq
<1>3. /\ cut \in Seq(Changes) /\ Len(cut) = p
      /\ \A k \in 1..p : cut[k] = history[k]
  BY <1>1, <1>2, SubSeqProperties
<1> HIDE DEF cut
<1>4. ChangesUpto(Chars, history, p)
  BY <1>1, <1>2 DEF ChangesUpto, Changes, ChangesOver
<1>5. \A k \in 0..p : Replay(cut, k) = Replay(history, k)
  BY <1>3, <1>4, ReplaySame
<1>6. Reversible(cut)
  <2> SUFFICES ASSUME NEW k \in 1..p
               PROVE  Undo(Replay(cut, k), cut[k]) = Replay(cut, k - 1)
    BY <1>3 DEF Reversible
  <2>1. k \in 1..n /\ k \in 0..p /\ k - 1 \in 0..p
    BY <1>1
  <2>2. Undo(Replay(history, k), history[k]) = Replay(history, k - 1)
    BY <1>1, <2>1 DEF Shows, Reversible
  <2>3. QED
    BY <1>3, <1>5, <2>1, <2>2
<1>7. text = Replay(cut, p)
  BY <1>1, <1>5 DEF Shows
<1>8. QED
  BY <1>3, <1>6, <1>7 DEF Shows, cut

\* Typing at the end of a history, on a page that shows what it leads to,
\* leaves the branch with the text that its history leads to.
LEMMA TypedSound ==
  ASSUME EditorInv, TypedHere, Faithful
  PROVE  Sound(heap', current)
<1>1. PICK text \in Texts :
        /\ heap'[current].render = text
        /\ HistoryOf(heap', current) = Append(steps, Diff(last, text))
  BY HereFacts
<1>2. /\ steps \in Seq(Changes) /\ last \in Seq(Chars)
      /\ text \in Seq(Chars)
  BY TypedIsText DEF EditorInv, TypeOK, IsText
<1>3. Shows(steps, Len(steps), last)
  BY DEF TypedHere, Faithful
<1> DEFINE more == Append(steps, Diff(last, text))
<1>4. Shows(more, Len(more), text)
  BY <1>2, <1>3, ShowsRecorded
<1> HIDE DEF more
<1>5. HistoryOf(heap', current) = more
  BY <1>1 DEF more
<1>6. QED
  BY <1>1, <1>4, <1>5 DEF Sound

LEMMA SoundStep ==
  ASSUME EditorInv, [Next]_vars, heap' # heap, view # "account",
         NEW b \in 1..Len(heap), Whole(heap, b), Sound(heap, b)
  PROVE  Sound(heap', b) \/ (b = current /\ ~Faithful)
<1>1. Next /\ Grown(heap)
  BY DEF vars, EditorInv
<1>2. Grown(heap') /\ (Forked(heap', heap) \/ TypedHere)
  BY <1>1, HeapSteps
<1>3. Preceding(heap', b) = Preceding(heap, b)
  BY PastFixedStep
<1>4. ASSUME heap'[b] = heap[b]
      PROVE  Sound(heap', b)
  BY <1>3, <1>4 DEF Sound, HistoryOf
<1>5. CASE Forked(heap', heap)
  BY <1>4, <1>5 DEF Forked
<1>6. CASE TypedHere
  <2>1. CASE b # current
    BY <1>4, <1>6, <2>1, HereFacts
  <2>2. ASSUME b = current, Faithful
        PROVE  Sound(heap', b)
    BY <1>6, <2>2, TypedSound
  <2>3. QED
    BY <2>1, <2>2
<1>7. QED
  BY <1>2, <1>5, <1>6

\* The text that a branch has cached is what its history leads to, and stays
\* so through every step outside the user view, except for typing in it on a
\* page that does not show what its own history leads to.
THEOREM SoundnessStays == Spec => SoundStays
<1>1. EditorInv /\ [Next]_vars =>
        (heap' # heap => \A b \in 1..Len(heap) :
           view # "account" /\ Whole(heap, b) /\ Sound(heap, b) =>
             Sound(heap', b) \/ (b = current /\ ~Faithful))
  BY SoundStep
<1>2. QED
  BY <1>1, EditorInvInit, EditorInvNext, PTL DEF Spec, SoundStays

-----------------------------------------------------------------------------
\* The first elements of two lists one after the other.
LEMMA FirstOfTwo ==
  ASSUME NEW S, NEW s \in Seq(S), NEW t \in Seq(S), NEW k \in 0..Len(t)
  PROVE  s \o SubSeq(t, 1, k) = SubSeq(s \o t, 1, Len(s) + k)
<1>1. PICK m \in Nat : m = Len(s)
  BY LenProperties
<1>2. PICK n \in Nat : n = Len(t)
  BY LenProperties
<1> DEFINE u == s \o t
           c == SubSeq(t, 1, k)
           a == s \o c
           d == SubSeq(u, 1, m + k)
<1>3. \A i \in 1..n : t[i] \in S
  BY <1>2, ElementOfSeq
<1>4. c \in Seq(S) /\ Len(c) = k /\ \A i \in 1..k : c[i] = t[i]
  BY <1>2, <1>3, SubSeqProperties
<1>5. /\ u \in Seq(S) /\ Len(u) = m + n
      /\ \A i \in 1..(m + n) : u[i] = IF i <= m THEN s[i] ELSE t[i - m]
  BY <1>1, <1>2, ConcatProperties
<1> HIDE DEF c, u
<1>6. /\ a \in Seq(S) /\ Len(a) = m + k
      /\ \A i \in 1..(m + k) : a[i] = IF i <= m THEN s[i] ELSE c[i - m]
  BY <1>1, <1>4, ConcatProperties
<1>7. \A i \in 1..(m + k) : u[i] \in S
  BY <1>1, <1>2, <1>5, ElementOfSeq
<1>8. /\ d \in Seq(S) /\ Len(d) = m + k
      /\ \A i \in 1..(m + k) : d[i] = u[i]
  BY <1>1, <1>7, SubSeqProperties
<1> HIDE DEF a, d
<1>9. \A i \in 1..(m + k) : a[i] = d[i]
  <2> SUFFICES ASSUME NEW i \in 1..(m + k)
               PROVE  a[i] = d[i]
    OBVIOUS
  <2>1. i \in 1..(m + n) /\ (~(i <= m) => i - m \in 1..k)
    BY <1>1, <1>2
  <2>2. QED
    BY <1>4, <1>5, <1>6, <1>8, <2>1
<1>10. a = d
  BY <1>6, <1>8, <1>9, SeqEqual
<1>11. QED
  BY <1>1, <1>10 DEF a, d, c, u

\* A fork at or after the fork of its own branch has the history of the page up
\* to the slider.
LEMMA BranchedHistory ==
  ASSUME EditorInv, view = "editor", Len(heap) < MaxBranches, ~BeforeFork
  PROVE  LET h == Branched(heap) IN
         HistoryOf(h, Len(h)) = SubSeq(steps, 1, position)
<1> DEFINE h == Branched(heap)
           new == Len(h)
           id == heap[current].id
<1>1. PICK n \in Nat : n = Len(heap)
  BY BranchTyped DEF EditorInv
<1>2. Grown(heap) /\ current \in 1..Len(heap) /\ current \in 1..n
  <2>1. current \in 0..n /\ current # 0
    BY <1>1 DEF EditorInv, TypeOK
  <2>2. QED
    BY <1>1, <2>1 DEF EditorInv
<1>3. current = Branch(heap, id) /\ steps = HistoryOf(heap, current)
  BY DEF EditorInv, Latest, HistoryInView
<1>4. /\ Grown(h) /\ Forked(h, heap) /\ new \in 1..Len(h)
      /\ h[new] = NewBranch(n + 1, id, position)
  BY <1>1, BranchedGrown
<1> HIDE DEF h, new
<1>5. /\ h[new].parent = id /\ h[new].pos = position /\ h[new].data = << >>
  BY <1>4 DEF NewBranch
<1>6. id # 0
  BY <1>2, BranchTyped
<1>7. Parent(h, new) = current
  BY <1>2, <1>3, <1>4, <1>5, PastAfterFork DEF Parent
<1> DEFINE past == Preceding(heap, current)
           data == heap[current].data
<1>8. Preceding(h, current) = past /\ h[current].data = data
  BY <1>2, <1>4, PastAfterFork DEF Forked
<1>9. past \in Seq(Changes) /\ data \in Seq(Changes)
  BY <1>2, PrecedingFollows, BranchTyped
<1>10. steps = past \o data
  BY <1>3 DEF HistoryOf
<1>11. PICK m \in Nat : m = Len(past)
  BY <1>9, LenProperties
<1>12. PICK l \in Nat : l = Len(data)
  BY <1>9, LenProperties
<1>13. position \in 0..Len(steps) /\ ~(position < m)
  BY <1>11 DEF EditorInv, TypeOK, BeforeFork
<1> HIDE DEF past, data
<1>14. Len(steps) = m + l
  BY <1>9, <1>10, <1>11, <1>12, ConcatProperties
<1>15. PICK k \in 0..l : k = position - m /\ position = m + k
  <2>1. PICK p \in 0..(m + l) : p = position /\ ~(p < m)
    BY <1>13, <1>14
  <2>2. p - m \in 0..l /\ p = m + (p - m)
    BY <2>1
  <2>3. QED
    BY <2>1, <2>2
<1>16. Own(h, new) = SubSeq(data, 1, k)
  <2>1. Own(h, new) = Slice(data, k)
    BY <1>5, <1>7, <1>8, <1>11, <1>15 DEF Own
  <2>2. k \in Int /\ k \in 0..Len(data)
    BY <1>12, <1>15
  <2>3. QED
    BY <1>9, <2>1, <2>2, Sliced
<1>17. Preceding(h, new) = past \o SubSeq(data, 1, k)
  BY <1>4, <1>5, <1>6, <1>7, <1>8, <1>16, PrecedingFollows
<1>18. Preceding(h, new) = SubSeq(steps, 1, position)
  BY <1>9, <1>10, <1>11, <1>12, <1>15, <1>17, FirstOfTwo
<1>19. HistoryOf(h, new) = Preceding(h, new)
  <2>1. Preceding(h, new) \in Seq(Changes)
    BY <1>4, PrecedingFollows
  <2>2. QED
    BY <1>5, <2>1, ConcatEmptySeq DEF HistoryOf
<1>20. QED
  BY <1>18, <1>19 DEF h, new

\* What a step of a page that shows its history may lead to.
Kept ==
  \/ view' = "editor" => Shows(steps', position', last')
  \/ view = "editor" /\ current' # current /\ BeforeFork
  \/ view = "editor" /\ heap' = heap /\ render # last
  \/ view # "editor" /\ ~Sound(heap', current')

LEMMA EnterFaithful ==
  ASSUME NEW h, NEW b, view # "editor", Enter(h, b)
  PROVE  Kept
<1>1. CASE Sound(h, b)
  BY <1>1 DEF Enter, Sound, Kept
<1>2. CASE ~Sound(h, b)
  BY <1>2 DEF Enter, Kept
<1>3. QED
  BY <1>1, <1>2

LEMMA FaithfulStep ==
  ASSUME EditorInv, [Next]_vars, Faithful
  PROVE  Kept
<1>1. /\ steps \in Seq(Changes) /\ last \in Seq(Chars)
      /\ position \in 0..Len(steps)
  BY DEF EditorInv, TypeOK, IsText
<1>2. PICK n \in Nat : n = Len(steps)
  BY <1>1, LenProperties
<1>3. ASSUME Login
      PROVE  Kept
  BY <1>3, EnterFaithful DEF Login
<1>4. ASSUME Leave \/ OpenGraph
      PROVE  Kept
  BY <1>4 DEF Leave, OpenGraph, Kept
<1>5. ASSUME NEW b \in 1..Len(heap), ClickVertex(b)
      PROVE  Kept
  BY <1>5, EnterFaithful DEF ClickVertex
<1>6. ASSUME view = "editor", current' # current, BeforeFork
      PROVE  Kept
  BY <1>6 DEF Kept
<1> DEFINE h == Branched(heap)
           cut == SubSeq(steps, 1, position)
<1>7. ASSUME view = "editor", Len(heap) < MaxBranches, current' = Len(h)
      PROVE  \/ current' # current /\ BeforeFork
             \/ /\ HistoryOf(h, Len(h)) = cut
                /\ cut \in Seq(Changes) /\ Len(cut) = position
                /\ Shows(cut, position, last)
  <2>1. current' # current
    <3>1. Forked(h, heap)
      BY <1>7, BranchedGrown
    <3>2. PICK m \in Nat : m = Len(heap)
      BY BranchTyped DEF EditorInv
    <3>3. current \in 0..m
      BY <3>2 DEF EditorInv, TypeOK
    <3>4. Len(h) = m + 1
      BY <3>1, <3>2 DEF Forked
    <3>5. QED
      BY <1>7, <3>3, <3>4
  <2>2. Shows(steps, position, last)
    BY <1>7 DEF Faithful
  <2>3. ASSUME ~BeforeFork
        PROVE  HistoryOf(h, Len(h)) = cut
    BY <1>7, <2>3, BranchedHistory
  <2>4. /\ cut \in Seq(Changes) /\ Len(cut) = position
        /\ Shows(cut, position, last)
    BY <1>1, <2>2, ShowsCut
  <2>5. QED
    BY <2>1, <2>3, <2>4
<1>8. ASSUME BranchButton
      PROVE  Kept
  <2>1. /\ view = "editor" /\ Len(heap) < MaxBranches /\ current' = Len(h)
        /\ steps' = HistoryOf(h, Len(h)) /\ position' = Len(HistoryOf(h, Len(h)))
        /\ last' = last
    BY <1>8 DEF BranchButton
  <2> HIDE DEF h, cut
  <2>2. QED
    BY <1>7, <2>1 DEF Kept
<1>9. ASSUME NEW text \in Texts, Input(text)
      PROVE  Kept
  <2>1. text \in Seq(Chars) /\ view = "editor"
    BY <1>9, TypedIsText DEF Input
  <2>2. CASE position = Len(steps)
    <3>1. /\ steps' = Append(steps, Diff(last, text))
          /\ position' = Len(steps) + 1 /\ last' = text
      BY <1>9, <2>2 DEF Input, Record
    <3>2. Shows(steps, Len(steps), last)
      BY <2>1, <2>2 DEF Faithful
    <3>3. Shows(Append(steps, Diff(last, text)), Len(steps) + 1, text)
      BY <1>1, <2>1, <3>2, ShowsRecorded
    <3>4. QED
      BY <3>1, <3>3 DEF Kept
  <2>3. CASE position # Len(steps)
    <3> DEFINE past == HistoryOf(h, Len(h))
    <3>1. /\ Len(heap) < MaxBranches /\ current' = Len(h)
          /\ steps' = Append(past, Diff(last, text))
          /\ position' = Len(past) + 1 /\ last' = text
      BY <1>9, <2>3 DEF Input, Record
    <3>2. CASE current' # current /\ BeforeFork
      BY <2>1, <3>2 DEF Kept
    <3>3. ASSUME past = cut, cut \in Seq(Changes), Len(cut) = position,
                 Shows(cut, position, last)
          PROVE  Kept
      <4> HIDE DEF h, cut, past
      <4>1. Shows(cut, Len(cut), last)
        BY <3>3
      <4>2. Shows(Append(cut, Diff(last, text)), Len(cut) + 1, text)
        BY <1>1, <2>1, <3>3, <4>1, ShowsRecorded
      <4>3. QED
        BY <3>1, <3>3, <4>2 DEF Kept
    <3>4. QED
      BY <1>7, <2>1, <3>1, <3>2, <3>3
  <2>4. QED
    BY <2>2, <2>3
<1>10. ASSUME NEW p \in 0..Len(steps), Slide(p)
       PROVE  Kept
  <2>1. /\ view = "editor" /\ position' = p /\ last' = render'
        /\ render' = Go(steps, render, position, p)
        /\ heap' = heap /\ steps' = steps
    BY <1>10 DEF Slide
  <2>2. CASE render # last
    BY <2>1, <2>2 DEF Kept
  <2>3. CASE render = last
    <3>1. Reversible(steps) /\ last = Replay(steps, position)
      BY <2>1 DEF Faithful, Shows
    <3>2. ReversibleUpto(steps, n) /\ ChangesUpto(Chars, steps, n)
      BY <1>1, <1>2, <3>1, ElementOfSeq
         DEF Reversible, ReversibleUpto, ChangesUpto, Changes, ChangesOver
    <3>3. position \in 0..n /\ p \in 0..n
      BY <1>1, <1>2
    <3>4. Go(steps, Replay(steps, position), position, p) = Replay(steps, p)
      BY <3>2, <3>3, GoReplays
    <3>5. Shows(steps', position', last')
      BY <2>1, <2>3, <3>1, <3>4 DEF Shows
    <3>6. QED
      BY <3>5 DEF Kept
  <2>4. QED
    BY <2>2, <2>3
<1>11. ASSUME UNCHANGED vars
       PROVE  Kept
  BY <1>11 DEF vars, editor, Faithful, Kept
<1>12. QED
  BY <1>3, <1>4, <1>5, <1>8, <1>9, <1>10, <1>11 DEF Next

\* The page keeps showing what its history leads to, and the way back, however
\* the user types, slides, forks and moves between views, with the three
\* exceptions that the property names.
THEOREM FaithfulnessStays == Spec => FaithfulStays
<1>1. EditorInv /\ [Next]_vars =>
        (Faithful =>
           \/ view' = "editor" => Shows(steps', position', last')
           \/ view = "editor" /\ current' # current /\ BeforeFork
           \/ view = "editor" /\ heap' = heap /\ render # last
           \/ view # "editor" /\ ~Sound(heap', current'))
  BY FaithfulStep DEF Kept
<1>2. QED
  BY <1>1, EditorInvInit, EditorInvNext, PTL DEF Spec, FaithfulStays

-----------------------------------------------------------------------------
(* What a branch holds, and a page with one branch.  A program that joins  *)
(* the editor with the transfer of what is typed rests on these.           *)

\* The changes of branch c; none if it has not been made yet.
DataOf(h, c) == IF c \in 1..Len(h) THEN h[c].data ELSE << >>

\* A heap that got a new branch with nothing in it.
LEMMA NewIsEmpty ==
  ASSUME NEW h, NEW g, NEW n \in Nat, Len(h) = n, Len(g) = n + 1,
         \A b \in 1..n : g[b] = h[b], g[n + 1].data = << >>
  PROVE  \A c : DataOf(g, c) = DataOf(h, c)
<1> SUFFICES ASSUME NEW c
             PROVE  DataOf(g, c) = DataOf(h, c)
  OBVIOUS
<1>1. CASE c \in 1..n
  BY <1>1 DEF DataOf
<1>2. CASE c = n + 1
  BY <1>2 DEF DataOf
<1>3. CASE c \notin 1..(n + 1)
  BY <1>3 DEF DataOf
<1>4. QED
  BY <1>1, <1>2, <1>3

\* What Record does to the changes of the branches.
LEMMA RecordedData ==
  ASSUME NEW h, Grown(h), NEW b \in 1..Len(h), NEW change \in Changes,
         NEW text \in Seq(Chars)
  PROVE  LET g == Recorded(h, b, change, text) IN
         /\ Len(g) = Len(h)
         /\ \A c : DataOf(g, c) = IF c = b
                                  THEN Append(DataOf(h, c), change)
                                  ELSE DataOf(h, c)
<1> DEFINE g == Recorded(h, b, change, text)
<1>1. /\ SameTree(g, h)
      /\ \A c \in 1..Len(h) : c # b => g[c] = h[c]
      /\ g[b].data = Append(h[b].data, change)
  BY RecordedGrown
<1> HIDE DEF g
<1>2. Len(g) = Len(h)
  BY <1>1 DEF SameTree
<1>3. ASSUME NEW c
      PROVE  DataOf(g, c) = IF c = b
                            THEN Append(DataOf(h, c), change)
                            ELSE DataOf(h, c)
  <2>1. CASE c \in 1..Len(h) /\ c # b
    BY <1>1, <1>2, <2>1 DEF DataOf
  <2>2. CASE c = b
    BY <1>1, <1>2, <2>2 DEF DataOf
  <2>3. CASE c \notin 1..Len(h)
    BY <1>2, <2>3 DEF DataOf
  <2>4. QED
    BY <2>1, <2>2, <2>3
<1>4. QED
  BY <1>2, <1>3 DEF g

\* Typing puts the change in one branch, at the end, and in no other.
LEMMA InputAdds ==
  ASSUME EditorInv, NEW text \in Texts, Input(text)
  PROVE  /\ Diff(last, text) \in Changes
         /\ Len(heap') \in Nat /\ Len(heap) \in 1..Len(heap')
         /\ \E b \in 1..Len(heap') : \A c :
              DataOf(heap', c) = IF c = b
                                 THEN Append(DataOf(heap, c), Diff(last, text))
                                 ELSE DataOf(heap, c)
<1> DEFINE change == Diff(last, text)
<1>1. text \in Seq(Chars) /\ last \in Seq(Chars)
  BY TypedIsText DEF EditorInv, TypeOK, IsText
<1>2. change \in Changes
  BY <1>1, DiffIsChange DEF Changes, ChangesOver
<1> HIDE DEF change
<1>3. PICK n \in Nat : n = Len(heap) /\ current \in 1..n /\ view = "editor"
  <2>1. Len(heap) \in Nat
    BY BranchTyped DEF EditorInv
  <2>2. QED
    BY <2>1 DEF Input, EditorInv, TypeOK
<1>4. CASE position = Len(steps)
  <2>1. heap' = Recorded(heap, current, change, text)
    BY <1>4 DEF Input, Record, Recorded, change
  <2>2. Grown(heap) /\ current \in 1..Len(heap)
    BY <1>3 DEF EditorInv
  <2> DEFINE g == Recorded(heap, current, change, text)
  <2>3. /\ Len(g) = Len(heap)
        /\ \A c : DataOf(g, c) = IF c = current
                                 THEN Append(DataOf(heap, c), change)
                                 ELSE DataOf(heap, c)
    BY <1>1, <1>2, <2>2, RecordedData
  <2> HIDE DEF g
  <2>4. heap' = g
    BY <2>1 DEF g
  <2>5. QED
    BY <1>2, <1>3, <2>3, <2>4 DEF change
<1>5. CASE position # Len(steps)
  <2> DEFINE h == Branched(heap)
  <2>1. Len(heap) < MaxBranches /\ heap' = Recorded(h, Len(h), change, text)
    BY <1>5 DEF Input, Record, Recorded, change
  <2>2. /\ Grown(h) /\ Forked(h, heap) /\ Len(h) \in 1..Len(h)
        /\ h[Len(h)] = NewBranch(Len(heap) + 1, heap[current].id, position)
    BY <1>3, <2>1, BranchedGrown
  <2> HIDE DEF h
  <2>3. Len(h) = n + 1 /\ \A b \in 1..n : h[b] = heap[b]
    BY <1>3, <2>2 DEF Forked
  <2>4. h[n + 1].data = << >>
    BY <2>2, <2>3 DEF NewBranch
  <2>5. \A c : DataOf(h, c) = DataOf(heap, c)
    BY <1>3, <2>3, <2>4, NewIsEmpty
  <2> DEFINE g == Recorded(h, Len(h), change, text)
  <2>6. /\ Len(g) = Len(h)
        /\ \A c : DataOf(g, c) = IF c = Len(h)
                                 THEN Append(DataOf(h, c), change)
                                 ELSE DataOf(h, c)
    BY <1>1, <1>2, <2>2, RecordedData
  <2> HIDE DEF g
  <2>7. heap' = g
    BY <2>1 DEF g
  <2>8. QED
    BY <1>2, <1>3, <2>3, <2>5, <2>6, <2>7, SMTT(30) DEF change
<1>6. QED
  BY <1>4, <1>5

\* Nothing else puts a change in a branch or takes one out.
LEMMA OthersAddNothing ==
  ASSUME EditorInv,
         \/ Login \/ Leave \/ OpenGraph \/ BranchButton
         \/ \E b \in 1..Len(heap) : ClickVertex(b)
         \/ \E p \in 0..Len(steps) : Slide(p)
         \/ UNCHANGED vars
  PROVE  /\ Len(heap') \in Nat /\ Len(heap) \in 0..Len(heap')
         /\ \A c : DataOf(heap', c) = DataOf(heap, c)
<1>1. PICK n \in Nat : n = Len(heap)
  BY BranchTyped DEF EditorInv
<1>2. ASSUME heap' = heap
      PROVE  /\ Len(heap') \in Nat /\ Len(heap) \in 0..Len(heap')
             /\ \A c : DataOf(heap', c) = DataOf(heap, c)
  BY <1>1, <1>2 DEF DataOf
<1>3. CASE Login
  <2> DEFINE h == Append(heap, NewBranch(1, 0, 0))
  <2>1. Len(heap) < MaxBranches /\ heap' = h /\ Grown(heap)
    BY <1>3 DEF Login, Enter, EditorInv
  <2>2. 1 \in 1..(Len(heap) + 1) /\ 0 \in Nat
    BY <1>1
  <2>3. /\ Len(h) = n + 1 /\ \A b \in 1..n : h[b] = heap[b]
        /\ h[n + 1] = NewBranch(1, 0, 0)
    BY <1>1, <2>1, <2>2, MadeGrown
  <2> HIDE DEF h
  <2>4. h[n + 1].data = << >>
    BY <2>3 DEF NewBranch
  <2>5. \A c : DataOf(h, c) = DataOf(heap, c)
    BY <1>1, <2>3, <2>4, NewIsEmpty
  <2>6. QED
    BY <1>1, <2>1, <2>3, <2>5
<1>4. CASE BranchButton
  <2> DEFINE h == Branched(heap)
  <2>1. view = "editor" /\ Len(heap) < MaxBranches /\ heap' = h
    BY <1>4 DEF BranchButton
  <2>2. /\ Forked(h, heap)
        /\ h[Len(h)] = NewBranch(Len(heap) + 1, heap[current].id, position)
    BY <2>1, BranchedGrown
  <2> HIDE DEF h
  <2>3. Len(h) = n + 1 /\ \A b \in 1..n : h[b] = heap[b]
    BY <1>1, <2>2 DEF Forked
  <2>4. h[n + 1].data = << >>
    BY <2>2, <2>3 DEF NewBranch
  <2>5. \A c : DataOf(h, c) = DataOf(heap, c)
    BY <1>1, <2>3, <2>4, NewIsEmpty
  <2>6. QED
    BY <1>1, <2>1, <2>3, <2>5
<1>5. CASE \/ Leave \/ OpenGraph
           \/ \E b \in 1..Len(heap) : ClickVertex(b)
           \/ \E p \in 0..Len(steps) : Slide(p)
           \/ UNCHANGED vars
  <2>1. heap' = heap
    BY <1>5 DEF Leave, OpenGraph, ClickVertex, Enter, Slide, vars
  <2>2. QED
    BY <1>2, <2>1
<1>6. QED
  BY <1>3, <1>4, <1>5

\* A page with one branch shows what the branch holds, and the way back.
Alone ==
  Len(heap) = 1 =>
    /\ Sound(heap, 1)
    /\ Faithful
    /\ view = "editor" => render = last

\* The history of the first branch, if it is the only one.
LEMMA FirstHistory ==
  ASSUME NEW h, Grown(h), Len(h) = 1
  PROVE  /\ 1 \in 1..Len(h) /\ h[1].parent = 0
         /\ Preceding(h, 1) = << >>
         /\ HistoryOf(h, 1) = h[1].data
<1>1. 1 \in 1..Len(h) /\ \A c \in 1..Len(h) : c = 1
  OBVIOUS
<1>2. h[1].parent = 0
  <2> SUFFICES ASSUME h[1].parent # 0
               PROVE  FALSE
    OBVIOUS
  <2>1. h[1].parent < h[1].id /\ h[1].id = h[1].parent
    BY <1>1 DEF Grown
  <2>2. h[1].id \in Nat
    BY <1>1, BranchTyped
  <2>3. QED
    BY <2>1, <2>2
<1>3. Preceding(h, 1) = << >>
  BY <1>1, <1>2, PrecedingFollows
<1>4. h[1].data \in Seq(Changes)
  BY <1>1, BranchTyped
<1>5. HistoryOf(h, 1) = h[1].data
  BY <1>3, <1>4, ConcatEmptySeq DEF HistoryOf
<1>6. QED
  BY <1>1, <1>2, <1>3, <1>5

LEMMA AloneInit ==
  Init => Alone
<1>1. Init => Len(heap) = 0
  BY EmptySeq DEF Init
<1>2. QED
  BY <1>1 DEF Alone

LEMMA AloneNext ==
  EditorInv /\ Alone /\ [Next]_vars => Alone'
<1> SUFFICES ASSUME EditorInv, Alone, [Next]_vars, Len(heap') = 1
             PROVE  /\ Sound(heap', 1) /\ Faithful'
                    /\ view' = "editor" => render' = last'
  BY DEF Alone
<1>1. PICK n \in Nat : n = Len(heap)
  BY BranchTyped DEF EditorInv
<1>2. Grown(heap) /\ Grown(heap')
  <2>1. EditorInv'
    BY EditorInvNext
  <2>2. QED
    BY <2>1 DEF EditorInv, Grown
<1>3. ASSUME n = 1
      PROVE  /\ current # 0 => current = 1
             /\ Sound(heap, 1) /\ Faithful
             /\ view = "editor" => render = last
             /\ Preceding(heap, 1) = << >>
  <2>1. current \in 0..1
    BY <1>1, <1>3 DEF EditorInv, TypeOK
  <2>2. Sound(heap, 1) /\ Faithful /\ (view = "editor" => render = last)
    BY <1>1, <1>3 DEF Alone
  <2>3. Preceding(heap, 1) = << >>
    BY <1>1, <1>2, <1>3, FirstHistory
  <2>4. QED
    BY <2>1, <2>2, <2>3
<1>4. ASSUME heap' = heap
      PROVE  n = 1 /\ Sound(heap', 1)
  BY <1>1, <1>3, <1>4
<1>5. ASSUME Login
      PROVE  /\ Sound(heap', 1) /\ Faithful'
             /\ view' = "editor" => render' = last'
  <2>1. /\ heap' = Append(heap, NewBranch(1, 0, 0))
        /\ steps' = HistoryOf(heap', n + 1)
        /\ position' = Len(HistoryOf(heap', n + 1))
        /\ render' = heap'[n + 1].render /\ last' = heap'[n + 1].render
    BY <1>1, <1>5 DEF Login, Enter
  <2>2. n = 0 /\ heap'[1] = NewBranch(1, 0, 0)
    <3>1. /\ 1 \in 1..(Len(heap) + 1) /\ 0 \in Nat /\ Len(heap) < MaxBranches
          /\ Grown(heap)
      BY <1>1, <1>2, <1>5 DEF Login
    <3> DEFINE h == Append(heap, NewBranch(1, 0, 0))
    <3>2. Len(h) = Len(heap) + 1 /\ h[Len(heap) + 1] = NewBranch(1, 0, 0)
      BY <3>1, MadeGrown
    <3> HIDE DEF h
    <3>3. heap' = h
      BY <2>1 DEF h
    <3>4. QED
      BY <1>1, <3>2, <3>3
  <2>3. heap'[1].data = << >> /\ heap'[1].render = << >>
    BY <2>2 DEF NewBranch
  <2>4. HistoryOf(heap', 1) = << >>
    BY <1>2, <2>3, FirstHistory
  <2>5. Shows(<< >>, Len(<< >>), << >>)
    <3>1. Len(<< >>) = 0
      BY EmptySeq
    <3>2. ChangesUpto(Chars, << >>, 0)
      BY DEF ChangesUpto
    <3>3. Replay(<< >>, 0) = << >>
      BY <3>2, ReplaySteps
    <3>4. QED
      BY <3>1, <3>3 DEF Shows, Reversible
  <2>6. Sound(heap', 1)
    BY <2>3, <2>4, <2>5 DEF Sound
  <2>7. Faithful'
    BY <2>1, <2>2, <2>3, <2>4, <2>5 DEF Faithful
  <2>8. QED
    BY <2>1, <2>6, <2>7
<1>6. ASSUME n = 1, view = "editor", view' = "editor", render' = last',
             Sound(heap', 1), current' = current
      PROVE  /\ Sound(heap', 1) /\ Faithful'
             /\ view' = "editor" => render' = last'
  <2>1. Kept
    BY <1>3, <1>6, FaithfulStep
  <2>2. Faithful'
    BY <1>3, <1>6, <2>1 DEF Kept, Faithful
  <2>3. QED
    BY <1>6, <2>2
<1>7. ASSUME Leave \/ OpenGraph
      PROVE  /\ Sound(heap', 1) /\ Faithful'
             /\ view' = "editor" => render' = last'
  <2>1. heap' = heap /\ view' # "editor"
    BY <1>7 DEF Leave, OpenGraph
  <2>2. QED
    BY <1>4, <2>1 DEF Faithful
<1>8. ASSUME NEW b \in 1..Len(heap), ClickVertex(b)
      PROVE  /\ Sound(heap', 1) /\ Faithful'
             /\ view' = "editor" => render' = last'
  <2>1. heap' = heap /\ Enter(heap, b)
    BY <1>8 DEF ClickVertex, Enter
  <2>2. b = 1 /\ Sound(heap, 1)
    BY <1>1, <1>3, <1>4, <2>1
  <2>3. Faithful' /\ render' = last'
    BY <2>1, <2>2 DEF Enter, Sound, Faithful
  <2>4. QED
    BY <2>1, <2>2, <2>3
<1>9. ASSUME BranchButton
      PROVE  FALSE
  <2> DEFINE h == Branched(heap)
  <2>1. view = "editor" /\ Len(heap) < MaxBranches /\ heap' = h
    BY <1>9 DEF BranchButton
  <2>2. Forked(h, heap)
    BY <2>1, BranchedGrown
  <2> HIDE DEF h
  <2>3. n + 1 = 1
    BY <1>1, <2>1, <2>2 DEF Forked
  <2>4. current = 0
    BY <1>1, <2>3 DEF EditorInv, TypeOK
  <2>5. QED
    BY <2>1, <2>4 DEF EditorInv, TypeOK
<1>10. ASSUME NEW text \in Texts, Input(text)
       PROVE  /\ Sound(heap', 1) /\ Faithful'
              /\ view' = "editor" => render' = last'
  <2>1. n = 1 /\ view = "editor" /\ view' = "editor" /\ render' = last'
    <3>1. Len(heap) \in 1..Len(heap')
      BY <1>10, InputAdds
    <3>2. QED
      BY <1>1, <1>10, <3>1 DEF Input, Record
  <2>2. current = 1
    BY <1>3, <2>1 DEF EditorInv, TypeOK
  <2>3. position = Len(steps)
    <3> SUFFICES ASSUME position # Len(steps)
                 PROVE  FALSE
      OBVIOUS
    <3> DEFINE h == Branched(heap)
               g == Recorded(h, Len(h), Diff(last, text), text)
    <3>1. Len(heap) < MaxBranches /\ heap' = g
      BY <1>10 DEF Input, Record, Recorded
    <3>2. Grown(h) /\ Forked(h, heap) /\ Len(h) \in 1..Len(h)
      BY <2>1, <3>1, BranchedGrown
    <3>3. text \in Seq(Chars) /\ Diff(last, text) \in Changes
      BY <1>10, InputAdds, TypedIsText
    <3> HIDE DEF h
    <3>4. Len(g) = Len(h)
      BY <3>2, <3>3, RecordedData
    <3> HIDE DEF g
    <3>5. Len(h) = 2
      <4>1. Len(h) = Len(heap) + 1
        BY <3>2 DEF Forked
      <4>2. Len(heap) = 1
        BY <1>1, <2>1
      <4>3. QED
        BY <4>1, <4>2
    <3>6. Len(heap') = 2
      BY <3>1, <3>4, <3>5
    <3>7. QED
      BY <3>6
  <2>4. TypedHere /\ current' = 1
    BY <1>10, <2>1, <2>2, <2>3 DEF Input, Record, Recorded, TypedHere
  <2>5. Sound(heap', 1)
    BY <1>3, <2>1, <2>2, <2>4, TypedSound
  <2>6. QED
    BY <1>6, <2>1, <2>2, <2>4, <2>5
<1>11. ASSUME NEW p \in 0..Len(steps), Slide(p)
       PROVE  /\ Sound(heap', 1) /\ Faithful'
              /\ view' = "editor" => render' = last'
  <2>1. /\ heap' = heap /\ view = "editor" /\ view' = "editor"
        /\ render' = last' /\ current' = current
    BY <1>11 DEF Slide
  <2>2. QED
    BY <1>4, <1>6, <2>1
<1>12. ASSUME UNCHANGED vars
       PROVE  /\ Sound(heap', 1) /\ Faithful'
              /\ view' = "editor" => render' = last'
  <2>1. UNCHANGED <<heap, view, current, steps, position, render, last>>
    BY <1>12 DEF vars, editor
  <2>2. n = 1 /\ Sound(heap', 1)
    BY <1>4, <2>1
  <2>3. Faithful'
    BY <1>3, <2>1, <2>2 DEF Faithful
  <2>4. QED
    BY <1>3, <2>1, <2>2, <2>3
<1>13. QED
  BY <1>5, <1>7, <1>8, <1>9, <1>10, <1>11, <1>12 DEF Next
=============================================================================
