---------------------------- MODULE BytesProofs ----------------------------
(***************************************************************************)
(* Lemmas about byte strings: what the functions of bytes.c return, for    *)
(* texts of every length.                                                  *)
(***************************************************************************)
EXTENDS Bytes, FiniteSetTheorems, SequenceTheorems, WellFoundedInduction, TLAPS

-----------------------------------------------------------------------------
(* Recursion *)

\* A set of numbers up to m has a greatest one: the x with the fewest numbers
\* above it, strict inclusion being well-founded on the subsets of 0..m.
LEMMA GreatestExists ==
  ASSUME NEW m \in Nat, NEW T \in SUBSET (0..m), T # {}
  PROVE  \E x \in T : \A y \in T : y <= x
<1> DEFINE Above == {(x + 1)..m : x \in T}
           Fewer == StrictSubsetOrdering(0..m)
<1>1. IsFiniteSet(0..m)
  BY FS_Interval
<1>2. IsWellFoundedOn(Fewer, FiniteSubsetsOf(0..m))
  BY FS_StrictSubsetOrderingWellFounded
<1>3. Above \subseteq FiniteSubsetsOf(0..m) /\ Above # {}
  <2>1. ASSUME NEW x \in T
        PROVE  (x + 1)..m \in FiniteSubsetsOf(0..m)
    BY <1>1, FS_Subset DEF FiniteSubsetsOf
  <2>2. QED
    BY <2>1
<1>4. PICK A \in Above : \A B \in Above : <<B, A>> \notin Fewer
  BY <1>2, <1>3, WFMin
<1>5. PICK x \in T : A = (x + 1)..m
  BY <1>4
<1>6. ASSUME NEW y \in T
      PROVE  x >= y
  <2> SUFFICES ASSUME x < y
               PROVE  FALSE
    OBVIOUS
  <2> DEFINE B == (y + 1)..m
  <2>1. B \in SUBSET (0..m) /\ A \in SUBSET (0..m) /\ B \subseteq A
    BY <1>5
  <2>2. y \in A /\ y \notin B
    BY <1>5
  <2>3. <<B, A>> \in Fewer
    BY <2>1, <2>2 DEF StrictSubsetOrdering
  <2>4. QED
    BY <1>4, <2>3
<1>7. QED
  BY <1>6

\* A set of natural numbers that is not empty has a least one.
LEMMA LeastExists ==
  ASSUME NEW T \in SUBSET Nat, T # {}
  PROVE  \E x \in T : \A y \in T : x <= y
<1>1. PICK m \in T : TRUE
  OBVIOUS
<1> DEFINE R == {m - x : x \in {y \in T : y <= m}}
<1>2. R \in SUBSET (0..m) /\ R # {} /\ m \in Nat
  <2>1. m \in Nat /\ m \in {y \in T : y <= m}
    BY <1>1
  <2>2. m - m \in R
    BY <2>1
  <2>3. \A x \in {y \in T : y <= m} : m - x \in 0..m
    BY <2>1
  <2>4. QED
    BY <2>1, <2>2, <2>3
<1>3. PICK d \in R : \A r \in R : r <= d
  <2> HIDE DEF R
  <2>1. QED
    BY <1>2, GreatestExists
<1>4. PICK x \in T : x <= m /\ d = m - x
  BY <1>3
<1>5. ASSUME NEW y \in T
      PROVE  x <= y
  <2>1. CASE y <= m
    <3>1. m - y \in R
      BY <2>1
    <3>2. m - y <= m - x
      BY <1>3, <1>4, <3>1
    <3>3. m \in Nat /\ x \in Nat /\ y \in Nat
      OBVIOUS
    <3>4. QED
      BY <3>2, <3>3
  <2>2. CASE ~(y <= m)
    <3>1. m \in Nat /\ x \in Nat /\ y \in Nat
      OBVIOUS
    <3>2. QED
      BY <1>4, <2>2, <3>1
  <2>3. QED
    BY <2>1, <2>2
<1>6. QED
  BY <1>5

\* Induction on numbers up to n.
LEMMA Induction ==
  ASSUME NEW n \in Nat, NEW T, 0 \in T,
         \A i \in 0..(n - 1) : i \in T => i + 1 \in T
  PROVE  0..n \subseteq T
<1> SUFFICES ASSUME 0..n \ T # {}
             PROVE  FALSE
  OBVIOUS
<1>1. PICK x \in 0..n \ T : \A y \in 0..n \ T : x <= y
  <2>1. 0..n \ T \in SUBSET Nat
    OBVIOUS
  <2>2. QED
    BY <2>1, LeastExists
<1>2. x # 0 /\ x - 1 \in 0..(n - 1)
  BY <1>1
<1>3. x - 1 \in T
  BY <1>1, <1>2
<1>4. QED
  BY <1>1, <1>2, <1>3

\* Induction along a rank.
LEMMA RankInduction ==
  ASSUME NEW M \in Nat, NEW D, NEW rank \in [D -> 0..M], NEW Good,
         \A a \in D :
           (\A b \in D : rank[b] < rank[a] => b \in Good) => a \in Good
  PROVE  D \subseteq Good
<1> SUFFICES ASSUME D \ Good # {}
             PROVE  FALSE
  OBVIOUS
<1> DEFINE T == {rank[a] : a \in D \ Good}
<1>1. T \in SUBSET Nat /\ T # {}
  OBVIOUS
<1>2. PICK x \in T : \A y \in T : x <= y
  <2> HIDE DEF T
  <2>1. QED
    BY <1>1, LeastExists
<1>3. PICK a \in D \ Good : x = rank[a]
  BY <1>2
<1>4. ASSUME NEW b \in D, rank[b] < rank[a]
      PROVE  b \in Good
  <2>1. CASE b \notin Good
    <3>1. rank[b] \in T
      BY <2>1
    <3>2. QED
      BY <1>2, <1>3, <1>4, <3>1, SMTT(30)
  <2>2. QED
    BY <2>1
<1>5. QED
  BY <1>3, <1>4

\* Recursion along a rank: a function has the value base[a] where the rank is
\* 0, and elsewhere is got by step[a] from its value at up[a], of lower rank.
Scheme(m, D, S, rank, up, base, step) ==
  /\ m \in Nat /\ rank \in [D -> 0..m]
  /\ \A a \in D : rank[a] # 0 => up[a] \in D /\ rank[up[a]] < rank[a]
  /\ base \in [D -> S] /\ step \in [D -> [S -> S]]

Solution(f, D, S, rank, up, base, step) ==
  /\ f \in [D -> S]
  /\ \A a \in D : f[a] = IF rank[a] = 0 THEN base[a] ELSE step[a][f[up[a]]]

\* There is such a function.
LEMMA RecursionExists ==
  ASSUME NEW M, NEW D, NEW S, NEW rank, NEW up, NEW base, NEW step,
         Scheme(M, D, S, rank, up, base, step)
  PROVE  \E f : Solution(f, D, S, rank, up, base, step)
<1> USE DEF Scheme
<1> DEFINE Upto(n) == {a \in D : rank[a] <= n}
           Solves(f, n) ==
             /\ f \in [Upto(n) -> S]
             /\ \A a \in Upto(n) :
                  f[a] = IF rank[a] = 0 THEN base[a] ELSE step[a][f[up[a]]]
           T == {n \in 0..M : \E f \in [Upto(n) -> S] : Solves(f, n)}
<1>1. 0 \in T
  <2> DEFINE f == [a \in Upto(0) |-> base[a]]
  <2>1. f \in [Upto(0) -> S]
    OBVIOUS
  <2>2. Solves(f, 0)
    <3>1. \A a \in Upto(0) : rank[a] = 0
      OBVIOUS
    <3>2. QED
      BY <2>1, <3>1
  <2>3. 0 \in 0..M
    OBVIOUS
  <2>4. QED
    <3> HIDE DEF f, Solves
    <3>1. QED
      BY <2>1, <2>2, <2>3
<1>2. ASSUME NEW n \in 0..(M - 1), n \in T
      PROVE  n + 1 \in T
  <2>1. PICK f \in [Upto(n) -> S] : Solves(f, n)
    BY <1>2
  <2> DEFINE g == [a \in Upto(n + 1) |->
                     IF a \in Upto(n) THEN f[a] ELSE step[a][f[up[a]]]]
  <2>2. \A a \in Upto(n + 1) : rank[a] # 0 => up[a] \in Upto(n)
    BY <1>2
  <2>3. \A a \in Upto(n + 1) : a \notin Upto(n) => rank[a] # 0
    BY <1>2
  <2>4. g \in [Upto(n + 1) -> S]
    <3>1. ASSUME NEW a \in Upto(n + 1), a \notin Upto(n)
          PROVE  step[a][f[up[a]]] \in S
      BY <2>1, <2>2, <2>3, <3>1
    <3>2. QED
      BY <2>1, <3>1
  <2>5. ASSUME NEW a \in Upto(n + 1)
        PROVE  g[a] = IF rank[a] = 0 THEN base[a] ELSE step[a][g[up[a]]]
    <3>1. rank[a] # 0 => g[up[a]] = f[up[a]]
      <4>1. SUFFICES ASSUME rank[a] # 0
                     PROVE  g[up[a]] = f[up[a]]
        OBVIOUS
      <4>2. up[a] \in Upto(n) /\ up[a] \in Upto(n + 1)
        BY <1>2, <2>2, <4>1
      <4>3. QED
        BY <4>2
    <3>2. CASE a \in Upto(n)
      BY <2>1, <3>1, <3>2
    <3>3. CASE a \notin Upto(n)
      BY <2>3, <3>1, <3>3
    <3>4. QED
      BY <3>2, <3>3
  <2>6. Solves(g, n + 1)
    BY <2>4, <2>5
  <2>7. n + 1 \in 0..M
    OBVIOUS
  <2>8. QED
    <3> HIDE DEF g, Solves
    <3>1. QED
      BY <2>4, <2>6, <2>7
<1>3. 0..M \subseteq T
  <2> HIDE DEF T
  <2>1. \A i \in 0..(M - 1) : i \in T => i + 1 \in T
    BY <1>2
  <2>2. QED
    BY <1>1, <2>1, Induction
<1>4. M \in T
  <2> HIDE DEF T
  <2>1. QED
    BY <1>3
<1>5. PICK f \in [Upto(M) -> S] : Solves(f, M)
  BY <1>4
<1>6. Upto(M) = D
  OBVIOUS
<1>7. Solution(f, D, S, rank, up, base, step)
  BY <1>5, <1>6 DEF Solution
<1>8. QED
  BY <1>7

\* Recursion on numbers up to n, from the value before.
Course(n, S, first, step) ==
  n \in Nat /\ first \in S /\ step \in [1..n -> [S -> S]]

Follows(f, n, S, first, step) ==
  /\ f \in [0..n -> S]
  /\ f[0] = first
  /\ \A k \in 1..n : f[k] = step[k][f[k - 1]]

LEMMA SequenceRecursion ==
  ASSUME NEW n, NEW S, NEW first, NEW step, Course(n, S, first, step)
  PROVE  \E f : Follows(f, n, S, first, step)
<1> USE DEF Course
<1> DEFINE D == 0..n
           rank == [k \in D |-> k]
           up == [k \in D |-> k - 1]
           base == [k \in D |-> first]
           next == [k \in D |-> IF k = 0 THEN [s \in S |-> s] ELSE step[k]]
<1>1. base \in [D -> S] /\ next \in [D -> [S -> S]]
  OBVIOUS
<1>2. rank \in [D -> 0..n]
  OBVIOUS
<1>3. \A k \in D : rank[k] # 0 => up[k] \in D /\ rank[up[k]] < rank[k]
  OBVIOUS
<1>4. PICK f : Solution(f, D, S, rank, up, base, next)
  <2> HIDE DEF D, rank, up, base, next
  <2>1. Scheme(n, D, S, rank, up, base, next)
    BY <1>1, <1>2, <1>3 DEF Scheme
  <2>2. QED
    BY <2>1, RecursionExists
<1>5. f \in [0..n -> S] /\ f[0] = first
  BY <1>4 DEF Solution
<1>6. \A k \in 1..n : f[k] = step[k][f[k - 1]]
  BY <1>4 DEF Solution
<1>7. Follows(f, n, S, first, step)
  BY <1>5, <1>6 DEF Follows
<1>8. QED
  BY <1>7

-----------------------------------------------------------------------------
(* Numbers *)

LEMMA ProductGrows ==
  ASSUME NEW a \in Nat, NEW b \in Nat, NEW d \in Nat, a <= b
  PROVE  a * d <= b * d
OBVIOUS

LEMMA ProductInNat ==
  ASSUME NEW a \in Nat, NEW b \in Nat
  PROVE  a * b \in Nat /\ (a > 0 /\ b > 0 => a * b > 0)
OBVIOUS

\* Division with a remainder.
LEMMA Division ==
  ASSUME NEW x \in Nat, NEW d \in Nat, d > 0
  PROVE  \E q \in Nat, r \in 0..(d - 1) :
           q = x \div d /\ r = x % d /\ x = q * d + r
OBVIOUS

LEMMA QuotientUnique ==
  ASSUME NEW q \in Nat, NEW d \in Nat, d > 0, NEW r \in 0..(d - 1)
  PROVE  (q * d + r) \div d = q /\ (q * d + r) % d = r
OBVIOUS

LEMMA RemainderSmall ==
  ASSUME NEW x \in Nat, NEW d \in Nat, x < d
  PROVE  x % d = x
OBVIOUS

\* Dividing by a product is dividing twice.
LEMMA DivideTwice ==
  ASSUME NEW x \in Nat, NEW a \in Nat, a > 0, NEW b \in Nat, b > 0
  PROVE  x \div (a * b) = (x \div a) \div b
<1>1. PICK q \in Nat, r \in 0..(a - 1) : q = x \div a /\ x = q * a + r
  BY Division
<1>2. PICK s \in Nat, t \in 0..(b - 1) : s = q \div b /\ q = s * b + t
  BY Division
<1>3. x = s * (a * b) + (t * a + r)
  <2>1. (s * b + t) * a = s * (a * b) + t * a
    OBVIOUS
  <2>2. t * a \in Nat /\ s * (a * b) \in Nat /\ r \in Nat
    BY ProductInNat
  <2>3. QED
    BY <1>1, <1>2, <2>1, <2>2
<1>4. t * a + r \in 0..(a * b - 1)
  <2>1. t * a <= (b - 1) * a
    BY ProductGrows
  <2>2. (b - 1) * a = a * b - a
    OBVIOUS
  <2>3. t * a \in Nat /\ a * b \in Nat
    BY ProductInNat
  <2>4. QED
    BY <2>1, <2>2, <2>3
<1>5. a * b \in Nat /\ a * b > 0
  BY ProductInNat
<1>6. x \div (a * b) = s
  BY <1>3, <1>4, <1>5, QuotientUnique
<1>7. QED
  BY <1>1, <1>2, <1>6

\* A power, step by step.
LEMMA PowerFollows ==
  ASSUME NEW b \in Nat \ {0}, NEW n \in Nat
  PROVE  \E f \in [0..n -> Nat \ {0}] :
           /\ \A k \in 0..n : f[k] = Power(b, k)
           /\ f[0] = 1
           /\ \A k \in 1..n : f[k] = f[k - 1] * b
<1> DEFINE step == [k \in 1..n |-> [x \in Nat \ {0} |-> x * b]]
<1>1. Course(n, Nat \ {0}, 1, step)
  <2>1. \A x \in Nat \ {0} : x * b \in Nat \ {0}
    BY ProductInNat
  <2>2. QED
    BY <2>1 DEF Course
<1>2. PICK f : Follows(f, n, Nat \ {0}, 1, step)
  <2> HIDE DEF step
  <2>1. QED
    BY <1>1, SequenceRecursion
<1>3. f \in [0..n -> Nat \ {0}] /\ f[0] = 1
  BY <1>2 DEF Follows
<1>4. \A k \in 1..n : f[k] = f[k - 1] * b
  <2>1. \A k \in 1..n : f[k] = step[k][f[k - 1]]
    <3> HIDE DEF step
    <3>1. QED
      BY <1>2 DEF Follows
  <2>2. \A k \in 1..n : f[k - 1] \in Nat \ {0}
    BY <1>3
  <2>3. QED
    BY <2>1, <2>2
<1>5. ASSUME NEW m \in 0..n
      PROVE  f[m] = Power(b, m)
  <2> DEFINE F(g) == [k \in 0..m |-> IF k = 0 THEN 1 ELSE g[k - 1] * b]
             g == CHOOSE g : g = F(g)
             T == {k \in 0..m : g[k] = f[k]}
  <2>1. Power(b, m) = g[m]
    BY DEF Power
  <2>2. \E h : h = F(h)
    <3> DEFINE h == [k \in 0..m |-> f[k]]
    <3>1. h = F(h)
      BY <1>3, <1>4
    <3>2. QED
      BY <3>1
  <2>3. g = F(g)
    <3> HIDE DEF F
    <3>1. QED
      BY <2>2
  <2> HIDE DEF g
  <2>4. g[0] = 1
    BY <2>3
  <2>5. \A k \in 1..m : g[k] = g[k - 1] * b
    BY <2>3
  <2> HIDE DEF F
  <2>6. 0 \in T
    BY <1>3, <2>4
  <2>7. \A k \in 0..(m - 1) : k \in T => k + 1 \in T
    <3> SUFFICES ASSUME NEW k \in 0..(m - 1), k \in T
                 PROVE  k + 1 \in T
      OBVIOUS
    <3>1. k + 1 \in 1..n /\ k + 1 \in 1..m /\ k + 1 \in 0..m /\ (k + 1) - 1 = k
      OBVIOUS
    <3>2. QED
      BY <1>4, <2>5, <3>1
  <2>8. 0..m \subseteq T
    <3> HIDE DEF T
    <3>1. QED
      BY <2>6, <2>7, Induction
  <2>9. QED
    BY <2>1, <2>8
<1>6. QED
  BY <1>3, <1>4, <1>5

LEMMA PowerSteps ==
  ASSUME NEW b \in Nat \ {0}
  PROVE  /\ Power(b, 0) = 1
         /\ \A n \in Nat : Power(b, n) \in Nat /\ Power(b, n) > 0
         /\ \A n \in Nat : Power(b, n + 1) = Power(b, n) * b
<1>1. ASSUME NEW n \in Nat
      PROVE  /\ Power(b, 0) = 1
             /\ Power(b, n) \in Nat /\ Power(b, n) > 0
             /\ Power(b, n + 1) = Power(b, n) * b
  <2>1. PICK f \in [0..(n + 1) -> Nat \ {0}] :
               /\ \A k \in 0..(n + 1) : f[k] = Power(b, k)
               /\ f[0] = 1
               /\ \A k \in 1..(n + 1) : f[k] = f[k - 1] * b
    <3>1. n + 1 \in Nat
      OBVIOUS
    <3>2. QED
      BY <3>1, PowerFollows
  <2>2. 0 \in 0..(n + 1) /\ n \in 0..(n + 1) /\ n + 1 \in 1..(n + 1)
        /\ n + 1 \in 0..(n + 1) /\ (n + 1) - 1 = n
    OBVIOUS
  <2>3. f[n] \in Nat /\ f[n] > 0
    BY <2>2
  <2>4. QED
    BY <2>1, <2>2, <2>3
<1>2. QED
  BY <1>1

-----------------------------------------------------------------------------
(* Parts of strings *)

LEMMA StringParts ==
  ASSUME NEW b \in [at : Nat, len : Nat]
  PROVE  b.at \in Nat /\ b.len \in Nat /\ b = [at |-> b.at, len |-> b.len]
OBVIOUS

LEMMA SliceRest ==
  ASSUME NEW b \in [at : Nat, len : Nat], NEW n \in Nat
  PROVE  /\ n >= b.len => Slice(b, n, 0) = [at |-> b.at, len |-> 0]
         /\ n < b.len => Slice(b, n, 0) = [at |-> b.at + n, len |-> b.len - n]
         /\ Slice(b, n, 0) \in [at : Nat, len : Nat]
<1>1. b.at \in Nat /\ b.len \in Nat /\ b = [at |-> b.at, len |-> b.len]
  BY StringParts
<1>2. CASE n >= b.len
  <2>1. Slice(b, n, 0) = [at |-> b.at, len |-> 0]
    BY <1>1, <1>2 DEF Slice
  <2>2. QED
    BY <1>1, <1>2, <2>1
<1>3. CASE n < b.len
  <2>1. Slice(b, n, 0) = [at |-> b.at + n, len |-> b.len - n]
    BY <1>1, <1>3 DEF Slice
  <2>2. b.at + n \in Nat /\ b.len - n \in Nat
    BY <1>1, <1>3
  <2>3. QED
    BY <1>1, <1>3, <2>1, <2>2
<1>4. QED
  BY <1>1, <1>2, <1>3

-----------------------------------------------------------------------------
(* Looking for a text *)

\* The number of characters after which a match that has come to j after i
\* characters is complete, step by step.
Matching(end, mem, in, what, n, m) ==
  /\ end \in [0..n -> [0..m -> 0..n]]
  /\ \A i \in 0..n : end[i][m] = i
  /\ \A j \in 0..(m - 1) : end[n][j] = 0
  /\ \A i \in 0..(n - 1) : \A j \in 0..(m - 1) :
       end[i][j] = IF mem[in.at + i] = what[j + 1] THEN end[i + 1][j + 1]
                   ELSE end[i + 1][0]
  /\ EndOfMatch(mem, in, what) = end[0][0]

LEMMA MatchFollows ==
  ASSUME NEW mem, NEW in \in Strings, NEW what,
         NEW n \in Nat, n = in.len, NEW m \in Nat, m = Len(what)
  PROVE  \E end : Matching(end, mem, in, what, n, m)
<1> DEFINE next == [i \in 0..n |-> [j \in 0..m |->
                      IF mem[in.at + i] = what[j + 1] THEN j + 1 ELSE 0]]
           S == [0..m -> 0..n]
           first == [j \in 0..m |-> IF j = m THEN n ELSE 0]
           step == [k \in 1..n |-> [g \in S |->
                      [j \in 0..m |-> IF j = m THEN n - k ELSE g[next[n - k][j]]]]]
           F(g) == [i \in 0..n |-> [j \in 0..m |->
                      IF j = m THEN i
                      ELSE IF i = n THEN 0
                      ELSE g[i + 1][IF mem[in.at + i] = what[j + 1] THEN j + 1 ELSE 0]]]
           G(g) == [i \in 0..n |-> [j \in 0..m |->
                      IF j = m THEN i ELSE IF i = n THEN 0 ELSE g[i + 1][next[i][j]]]]
           end == CHOOSE g : g = F(g)
<1>1. EndOfMatch(mem, in, what) = end[0][0]
  BY DEF EndOfMatch
<1>2. \A g : F(g) = G(g)
  OBVIOUS
<1>3. \A i \in 0..n : \A j \in 0..(m - 1) : next[i][j] \in 0..m
  OBVIOUS
<1>4. \A i \in 0..n : \A j \in 0..(m - 1) :
        next[i][j] = IF mem[in.at + i] = what[j + 1] THEN j + 1 ELSE 0
  OBVIOUS
<1> HIDE DEF next
<1>5. Course(n, S, first, step)
  <2>1. first \in S
    OBVIOUS
  <2>2. ASSUME NEW k \in 1..n, NEW g \in S
        PROVE  [j \in 0..m |-> IF j = m THEN n - k ELSE g[next[n - k][j]]] \in S
    <3>1. n - k \in 0..n
      OBVIOUS
    <3>2. \A j \in 0..m : j # m => next[n - k][j] \in 0..m
      BY <1>3, <3>1
    <3>3. QED
      BY <3>1, <3>2
  <2> HIDE DEF first, S
  <2>3. step \in [1..n -> [S -> S]]
    BY <2>2
  <2>4. QED
    BY <2>1, <2>3 DEF Course
<1>6. PICK f : Follows(f, n, S, first, step)
  <2> HIDE DEF S, first, step
  <2>1. QED
    BY <1>5, SequenceRecursion
<1>7. f \in [0..n -> S] /\ f[0] = first
  BY <1>6 DEF Follows
<1>8. ASSUME NEW k \in 1..n
      PROVE  f[k] = [j \in 0..m |-> IF j = m THEN n - k ELSE f[k - 1][next[n - k][j]]]
  <2>1. f[k] = step[k][f[k - 1]] /\ f[k - 1] \in S
    <3> HIDE DEF S, first, step
    <3>1. k - 1 \in 0..n
      OBVIOUS
    <3>2. QED
      BY <1>6, <1>7, <3>1 DEF Follows
  <2> HIDE DEF S
  <2>2. QED
    BY <2>1
<1>9. \E g : g = F(g)
  <2> DEFINE g == [i \in 0..n |-> f[n - i]]
  <2>1. ASSUME NEW i \in 0..n
        PROVE  g[i] = [j \in 0..m |-> IF j = m THEN i ELSE IF i = n THEN 0
                                      ELSE g[i + 1][next[i][j]]]
    <3>1. CASE i = n
      <4>1. n - i = 0
        BY <3>1
      <4>2. g[i] = f[n - i]
        OBVIOUS
      <4>3. g[i] = f[0]
        BY <4>1, <4>2
      <4> HIDE DEF g
      <4>4. QED
        BY <1>7, <3>1, <4>3
    <3>2. CASE i # n
      <4>1. n - i \in 1..n /\ i + 1 \in 0..n /\ (n - i) - 1 = n - (i + 1) /\ n - (n - i) = i
        BY <3>2
      <4>2. g[i] = f[n - i] /\ g[i + 1] = f[(n - i) - 1]
        BY <4>1
      <4>3. f[n - i] = [j \in 0..m |-> IF j = m THEN i ELSE f[(n - i) - 1][next[i][j]]]
        BY <1>8, <4>1
      <4>4. f[n - i] = [j \in 0..m |-> IF j = m THEN i
                                      ELSE IF i = n THEN 0
                                      ELSE f[(n - i) - 1][next[i][j]]]
        BY <3>2, <4>3
      <4> HIDE DEF g
      <4>5. QED
        BY <4>2, <4>4
    <3>3. QED
      BY <3>1, <3>2
  <2>2. g = [i \in 0..n |-> g[i]]
    OBVIOUS
  <2> HIDE DEF g
  <2>3. g = G(g)
    BY <2>1, <2>2
  <2>4. QED
    <3> HIDE DEF F, G
    <3>1. QED
      BY <1>2, <2>3
<1>10. end = F(end)
  <2> HIDE DEF F
  <2>1. QED
    BY <1>9
<1>11. end = G(end)
  <2> HIDE DEF F, G, end
  <2>1. QED
    BY <1>2, <1>10
<1> HIDE DEF end, F
<1>12. ASSUME NEW i \in 0..n
       PROVE  end[i] = [j \in 0..m |-> IF j = m THEN i ELSE IF i = n THEN 0
                                       ELSE end[i + 1][next[i][j]]]
  <2> DEFINE row == [j \in 0..m |-> IF j = m THEN i ELSE IF i = n THEN 0
                                    ELSE end[i + 1][next[i][j]]]
  <2>1. G(end)[i] = row
    OBVIOUS
  <2> HIDE DEF G, row
  <2>2. end[i] = row
    BY <1>11, <2>1
  <2>3. QED
    BY <2>2 DEF row
<1>13. \A i \in 0..n : end[i] \in S
  <2> DEFINE T == {k \in 0..n : end[n - k] \in S}
  <2>1. 0 \in T
    <3>1. n \in 0..n /\ n - 0 = n
      OBVIOUS
    <3>2. end[n] = [j \in 0..m |-> IF j = m THEN n ELSE IF n = n THEN 0
                                    ELSE end[n + 1][next[n][j]]]
      BY <1>12, <3>1
    <3>3. \A j \in 0..m : (IF j = m THEN n ELSE 0) \in 0..n
      OBVIOUS
    <3>4. QED
      BY <3>1, <3>2, <3>3
  <2>2. \A k \in 0..(n - 1) : k \in T => k + 1 \in T
    <3> SUFFICES ASSUME NEW k \in 0..(n - 1), k \in T
                 PROVE  k + 1 \in T
      OBVIOUS
    <3>1. PICK i \in 0..(n - 1) : i = n - (k + 1)
      OBVIOUS
    <3>2. i + 1 = n - k /\ i # n /\ i \in 0..n
      BY <3>1
    <3>3. end[i] = [j \in 0..m |-> IF j = m THEN i ELSE IF i = n THEN 0
                                    ELSE end[i + 1][next[i][j]]]
      BY <1>12, <3>2
    <3>4. end[i + 1] \in S
      BY <3>2
    <3>5. \A j \in 0..m : j # m => next[i][j] \in 0..m
      BY <1>3, <3>2
    <3>6. end[i] \in S
      BY <3>2, <3>3, <3>4, <3>5
    <3>7. QED
      BY <3>1, <3>6
  <2>3. 0..n \subseteq T
    <3> HIDE DEF T
    <3>1. QED
      BY <2>1, <2>2, Induction
  <2>4. ASSUME NEW i \in 0..n
        PROVE  end[i] \in S
    <3>1. n - i \in T /\ n - (n - i) = i
      BY <2>3
    <3>2. QED
      BY <3>1
  <2>5. QED
    BY <2>4
<1>14. end \in [0..n -> S]
  <2>1. end = [i \in 0..n |-> end[i]]
    BY <1>11
  <2> HIDE DEF S
  <2>2. QED
    BY <1>13, <2>1
<1>15. \A i \in 0..(n - 1) : \A j \in 0..(m - 1) :
         end[i][j] = IF mem[in.at + i] = what[j + 1] THEN end[i + 1][j + 1]
                     ELSE end[i + 1][0]
  <2> SUFFICES ASSUME NEW i \in 0..(n - 1), NEW j \in 0..(m - 1)
               PROVE  end[i][j] = IF mem[in.at + i] = what[j + 1] THEN end[i + 1][j + 1]
                                  ELSE end[i + 1][0]
    OBVIOUS
  <2>1. i \in 0..n /\ i # n /\ j \in 0..m /\ j # m
    OBVIOUS
  <2>2. end[i] = [x \in 0..m |-> IF x = m THEN i ELSE IF i = n THEN 0
                                 ELSE end[i + 1][next[i][x]]]
    BY <1>12, <2>1
  <2>3. end[i][j] = end[i + 1][next[i][j]]
    BY <2>1, <2>2
  <2>4. QED
    BY <1>4, <2>1, <2>3
<1>16. ASSUME NEW i \in 0..n
       PROVE  end[i][m] = i
  <2>1. end[i] = [j \in 0..m |-> IF j = m THEN i ELSE IF i = n THEN 0
                                 ELSE end[i + 1][next[i][j]]]
    BY <1>12
  <2>2. QED
    BY <2>1
<1>17. ASSUME NEW j \in 0..(m - 1)
       PROVE  end[n][j] = 0
  <2>1. n \in 0..n /\ j \in 0..m /\ j # m
    OBVIOUS
  <2>2. end[n] = [x \in 0..m |-> IF x = m THEN n ELSE IF n = n THEN 0
                                 ELSE end[n + 1][next[n][x]]]
    BY <1>12, <2>1
  <2>3. QED
    BY <2>1, <2>2
<1>18. QED
  BY <1>1, <1>14, <1>15, <1>16, <1>17 DEF Matching

\* The last j of the first i characters from `at` on are the first of `what`.
Matched(mem, at, what, i, j) ==
  j <= i /\ \A k \in 1..j : mem[at + (i - j) + k - 1] = what[k]

\* Going on with a match.
LEMMA MatchGoesOn ==
  ASSUME NEW mem, NEW at \in Nat, NEW what, NEW i \in Nat, NEW j \in Nat,
         Matched(mem, at, what, i, j), mem[at + i] = what[j + 1]
  PROVE  Matched(mem, at, what, i + 1, j + 1)
<1> SUFFICES ASSUME NEW k \in 1..(j + 1)
             PROVE  mem[at + ((i + 1) - (j + 1)) + k - 1] = what[k]
  BY DEF Matched
<1>1. j <= i /\ \A x \in 1..j : mem[at + (i - j) + x - 1] = what[x]
  BY DEF Matched
<1>2. at + ((i + 1) - (j + 1)) + k - 1 = at + (i - j) + k - 1
  OBVIOUS
<1>3. CASE k = j + 1
  <2>1. at + (i - j) + k - 1 = at + i
    BY <1>3
  <2>2. QED
    BY <1>2, <1>3, <2>1
<1>4. CASE k # j + 1
  <2>1. k \in 1..j
    BY <1>4
  <2>2. QED
    BY <1>1, <1>2, <2>1
<1>5. QED
  BY <1>3, <1>4

LEMMA MatchStarts ==
  ASSUME NEW mem, NEW at \in Nat, NEW what, NEW i \in Nat
  PROVE  Matched(mem, at, what, i, 0)
BY DEF Matched

\* What has been found is what was looked for.
LEMMA MatchIsFound ==
  ASSUME NEW mem, NEW in \in Strings, NEW what,
         NEW n \in Nat, n = in.len, NEW m \in Nat, m = Len(what), m > 0
  PROVE  /\ EndOfMatch(mem, in, what) \in 0..n
         /\ EndOfMatch(mem, in, what) # 0 =>
              Matched(mem, in.at, what, EndOfMatch(mem, in, what), m)
<1>1. PICK end : Matching(end, mem, in, what, n, m)
  BY MatchFollows
<1>2. end \in [0..n -> [0..m -> 0..n]]
  BY <1>1 DEF Matching
<1>3. \A i \in 0..n : end[i][m] = i
  BY <1>1 DEF Matching
<1>4. \A j \in 0..(m - 1) : end[n][j] = 0
  BY <1>1 DEF Matching
<1>5. \A i \in 0..(n - 1) : \A j \in 0..(m - 1) :
        end[i][j] = IF mem[in.at + i] = what[j + 1] THEN end[i + 1][j + 1]
                    ELSE end[i + 1][0]
  BY <1>1 DEF Matching
<1>6. in.at \in Nat
  BY DEF Strings
<1> DEFINE Right(e) == e # 0 => Matched(mem, in.at, what, e, m)
           T == {d \in 0..n : \A j \in 0..m :
                   Matched(mem, in.at, what, n - d, j) => Right(end[n - d][j])}
<1>7. 0 \in T
  <2>1. ASSUME NEW j \in 0..m, Matched(mem, in.at, what, n - 0, j)
        PROVE  Right(end[n - 0][j])
    <3>1. n - 0 = n /\ n \in 0..n
      OBVIOUS
    <3>2. CASE j = m
      BY <1>3, <2>1, <3>1, <3>2
    <3>3. CASE j # m
      <4>1. j \in 0..(m - 1)
        BY <3>3
      <4>2. QED
        BY <1>4, <3>1, <4>1
    <3>4. QED
      BY <3>2, <3>3
  <2> HIDE DEF Right
  <2>2. QED
    BY <2>1
<1>8. \A d \in 0..(n - 1) : d \in T => d + 1 \in T
  <2> SUFFICES ASSUME NEW d \in 0..(n - 1), d \in T
               PROVE  d + 1 \in T
    OBVIOUS
  <2>1. PICK i \in 0..(n - 1) : i = n - (d + 1) /\ i + 1 = n - d
    OBVIOUS
  <2>2. i \in Nat /\ i \in 0..n
    OBVIOUS
  <2>3. \A j \in 0..m : Matched(mem, in.at, what, i + 1, j) => Right(end[i + 1][j])
    <3> HIDE DEF Right
    <3>1. QED
      BY <2>1
  <2>4. ASSUME NEW j \in 0..m, Matched(mem, in.at, what, i, j)
        PROVE  Right(end[i][j])
    <3>1. CASE j = m
      BY <1>3, <2>2, <2>4, <3>1
    <3>2. CASE j # m
      <4>1. j \in 0..(m - 1) /\ j + 1 \in 0..m /\ 0 \in 0..m /\ j \in Nat
        BY <3>2
      <4>2. CASE mem[in.at + i] = what[j + 1]
        <5>1. Matched(mem, in.at, what, i + 1, j + 1)
          BY <1>6, <2>2, <2>4, <4>1, <4>2, MatchGoesOn
        <5>2. end[i][j] = end[i + 1][j + 1]
          BY <1>5, <4>1, <4>2
        <5> HIDE DEF Right
        <5>3. QED
          BY <2>3, <4>1, <5>1, <5>2
      <4>3. CASE mem[in.at + i] # what[j + 1]
        <5>1. Matched(mem, in.at, what, i + 1, 0)
          <6>1. i + 1 \in Nat
            BY <2>2
          <6>2. QED
            BY <1>6, <6>1, MatchStarts
        <5>2. end[i][j] = end[i + 1][0]
          BY <1>5, <4>1, <4>3
        <5> HIDE DEF Right
        <5>3. QED
          BY <2>3, <4>1, <5>1, <5>2
      <4>4. QED
        BY <4>2, <4>3
    <3>3. QED
      BY <3>1, <3>2
  <2>5. d + 1 \in 0..n
    OBVIOUS
  <2> HIDE DEF Right
  <2>6. QED
    BY <2>1, <2>4, <2>5
<1>9. 0..n \subseteq T
  <2> HIDE DEF T
  <2>1. QED
    BY <1>7, <1>8, Induction
<1>10. n \in T /\ n - n = 0 /\ 0 \in 0..m
  BY <1>9
<1>11. Matched(mem, in.at, what, 0, 0)
  BY <1>6, MatchStarts
<1>12. Right(end[0][0])
  <2> HIDE DEF Right
  <2>1. QED
    BY <1>10, <1>11
<1>13. end[0][0] \in 0..n
  BY <1>2
<1>14. EndOfMatch(mem, in, what) = end[0][0]
  BY <1>1 DEF Matching
<1>15. QED
  BY <1>12, <1>13, <1>14

\* A match that breaks off with a character that another match of s characters
\* ends with.
BreaksAt(mem, at, what, i, j, s) ==
  /\ Matched(mem, at, what, i, j) /\ mem[at + i] # what[j + 1]
  /\ Matched(mem, at, what, i + 1, s)

\* What stands after the first k0 characters is seen while the match that is
\* gone on with has begun before.
LEMMA BreakOverlaps ==
  ASSUME NEW mem, NEW at \in Nat, NEW what, NEW m \in Nat, NEW k0 \in Nat,
         Matched(mem, at, what, k0 + m, m),
         NEW i \in Nat, NEW j \in 0..(m - 1), Matched(mem, at, what, i, j),
         i - j <= k0, mem[at + i] # what[j + 1], k0 <= i
  PROVE  \E s \in 1..j : BreaksAt(mem, at, what, i, j, s)
<1>1. \A k \in 1..m : mem[at + ((k0 + m) - m) + k - 1] = what[k]
  BY DEF Matched
<1>2. \A k \in 1..m : mem[at + k0 + k - 1] = what[k]
  <2>1. (k0 + m) - m = k0
    OBVIOUS
  <2>2. QED
    BY <1>1, <2>1
<1>3. i - j # k0
  <2> SUFFICES ASSUME i - j = k0
               PROVE  FALSE
    OBVIOUS
  <2>1. j + 1 \in 1..m /\ at + k0 + (j + 1) - 1 = at + i
    OBVIOUS
  <2>2. QED
    BY <1>2, <2>1
<1>4. PICK s \in Nat : s = (i + 1) - k0
  OBVIOUS
<1>5. s \in 1..j
  BY <1>3, <1>4
<1>6. \A k \in 1..s : mem[at + ((i + 1) - s) + k - 1] = what[k]
  <2> SUFFICES ASSUME NEW k \in 1..s
               PROVE  mem[at + ((i + 1) - s) + k - 1] = what[k]
    OBVIOUS
  <2>1. (i + 1) - s = k0 /\ k \in 1..m
    BY <1>4, <1>5
  <2>2. QED
    BY <1>2, <2>1
<1>7. s <= i + 1
  BY <1>4
<1>8. Matched(mem, at, what, i + 1, s)
  BY <1>6, <1>7 DEF Matched
<1>9. QED
  BY <1>5, <1>8 DEF BreaksAt

\* The first place where all of `what` stands is after k0 characters.
StandsFirst(mem, at, what, k0, m) ==
  /\ Matched(mem, at, what, k0 + m, m)
  /\ \A k \in 0..(k0 - 1) : ~Matched(mem, at, what, k + m, m)

Unbroken(mem, at, what, n, m) ==
  \A i \in 0..(n - 1) : \A j \in 1..(m - 1) : \A s \in 1..j :
    ~BreaksAt(mem, at, what, i, j, s)

\* The first match is found, if none breaks off so.
LEMMA MatchIsFirst ==
  ASSUME NEW mem, NEW in \in Strings, NEW what,
         NEW n \in Nat, n = in.len, NEW m \in Nat, m = Len(what), m > 0,
         NEW k0 \in 0..(n - m), StandsFirst(mem, in.at, what, k0, m),
         Unbroken(mem, in.at, what, n, m)
  PROVE  EndOfMatch(mem, in, what) = k0 + m
<1>1. PICK end : Matching(end, mem, in, what, n, m)
  BY MatchFollows
<1>2. end \in [0..n -> [0..m -> 0..n]]
  BY <1>1 DEF Matching
<1>3. \A i \in 0..n : end[i][m] = i
  BY <1>1 DEF Matching
<1>4. \A j \in 0..(m - 1) : end[n][j] = 0
  BY <1>1 DEF Matching
<1>5. \A i \in 0..(n - 1) : \A j \in 0..(m - 1) :
        end[i][j] = IF mem[in.at + i] = what[j + 1] THEN end[i + 1][j + 1]
                    ELSE end[i + 1][0]
  BY <1>1 DEF Matching
<1>6. in.at \in Nat /\ k0 \in Nat
  BY DEF Strings
<1> DEFINE On(i, j) == Matched(mem, in.at, what, i, j) /\ i - j <= k0
           T == {d \in 0..n : \A j \in 0..m : On(n - d, j) => end[n - d][j] = k0 + m}
<1>7. ASSUME NEW i \in 0..n, On(i, m)
      PROVE  end[i][m] = k0 + m
  <2>1. i >= m
    BY <1>7 DEF Matched
  <2>2. PICK k \in 0..k0 : i = k + m
    BY <1>7, <2>1
  <2>3. ~(k \in 0..(k0 - 1))
    BY <1>7, <2>2 DEF StandsFirst
  <2>4. i = k0 + m
    BY <2>2, <2>3
  <2>5. end[i][m] = i
    BY <1>3
  <2>6. QED
    BY <2>4, <2>5
<1>8. 0 \in T
  <2>1. ASSUME NEW j \in 0..m, On(n - 0, j)
        PROVE  end[n - 0][j] = k0 + m
    <3>1. n - 0 = n /\ n \in 0..n
      OBVIOUS
    <3>2. j = m
      BY <2>1, <3>1
    <3>3. QED
      BY <1>7, <2>1, <3>1, <3>2
  <2> HIDE DEF On
  <2>2. QED
    BY <2>1
<1>9. \A d \in 0..(n - 1) : d \in T => d + 1 \in T
  <2> SUFFICES ASSUME NEW d \in 0..(n - 1), d \in T
               PROVE  d + 1 \in T
    OBVIOUS
  <2>1. PICK i \in 0..(n - 1) : i = n - (d + 1) /\ i + 1 = n - d
    OBVIOUS
  <2>2. i \in Nat /\ i \in 0..n
    OBVIOUS
  <2>3. \A j \in 0..m : On(i + 1, j) => end[i + 1][j] = k0 + m
    <3> HIDE DEF On
    <3>1. QED
      BY <2>1
  <2>4. ASSUME NEW j \in 0..m, On(i, j)
        PROVE  end[i][j] = k0 + m
    <3>1. CASE j = m
      BY <1>7, <2>2, <2>4, <3>1
    <3>2. CASE j # m
      <4>1. j \in 0..(m - 1) /\ j + 1 \in 0..m /\ 0 \in 0..m /\ j \in Nat
        BY <3>2
      <4>2. CASE mem[in.at + i] = what[j + 1]
        <5>1. Matched(mem, in.at, what, i + 1, j + 1)
          BY <1>6, <2>2, <2>4, <4>1, <4>2, MatchGoesOn
        <5>2. On(i + 1, j + 1)
          BY <2>4, <5>1
        <5>3. end[i][j] = end[i + 1][j + 1]
          BY <1>5, <4>1, <4>2
        <5> HIDE DEF On
        <5>4. QED
          BY <2>3, <4>1, <5>2, <5>3
      <4>3. CASE mem[in.at + i] # what[j + 1]
        <5>1. i + 1 <= k0
          <6> SUFFICES ASSUME k0 <= i
                       PROVE  FALSE
            BY <1>6, <2>2
          <6>1. Matched(mem, in.at, what, k0 + m, m)
            BY DEF StandsFirst
          <6>2. PICK s \in 1..j : BreaksAt(mem, in.at, what, i, j, s)
            BY <1>6, <2>2, <2>4, <4>1, <4>3, <6>1, BreakOverlaps
          <6>3. j \in 1..(m - 1)
            BY <4>1
          <6>4. QED
            BY <6>2, <6>3 DEF Unbroken
        <5>2. On(i + 1, 0)
          <6>1. i + 1 \in Nat
            BY <2>2
          <6>2. Matched(mem, in.at, what, i + 1, 0)
            BY <1>6, <6>1, MatchStarts
          <6>3. (i + 1) - 0 <= k0
            BY <5>1
          <6>4. QED
            BY <6>2, <6>3
        <5>3. end[i][j] = end[i + 1][0]
          BY <1>5, <4>1, <4>3
        <5> HIDE DEF On
        <5>4. QED
          BY <2>3, <4>1, <5>2, <5>3
      <4>4. QED
        BY <4>2, <4>3
    <3>3. QED
      BY <3>1, <3>2
  <2>5. d + 1 \in 0..n
    OBVIOUS
  <2> HIDE DEF On
  <2>6. QED
    BY <2>1, <2>4, <2>5
<1>10. 0..n \subseteq T
  <2> HIDE DEF T
  <2>1. QED
    BY <1>8, <1>9, Induction
<1>11. n \in T /\ n - n = 0 /\ 0 \in 0..m
  BY <1>10
<1>12. On(0, 0)
  <2>1. Matched(mem, in.at, what, 0, 0)
    BY <1>6, MatchStarts
  <2>2. QED
    BY <1>6, <2>1
<1>13. end[0][0] = k0 + m
  <2> HIDE DEF On
  <2>1. QED
    BY <1>11, <1>12
<1>14. QED
  BY <1>1, <1>13 DEF Matching

-----------------------------------------------------------------------------
(* Numbers as an int64_t holds them *)

\* The least number too great for an int64_t.
Half == Int64 \div 2

LEMMA HalfIs == Half \in Nat /\ Half > 0 /\ Int64 = 2 * Half /\ Int64 \in Nat
<1>1. Int64 \in Nat /\ Int64 > 0 /\ Int64 % 2 = 0
  BY BytesAssumption
<1>2. PICK q \in Nat, r \in 0..1 : q = Int64 \div 2 /\ r = Int64 % 2 /\ Int64 = q * 2 + r
  BY <1>1, Division
<1>3. QED
  BY <1>1, <1>2 DEF Half

\* Division with a remainder, of negative numbers too.
LEMMA DivisionOfInt ==
  ASSUME NEW x \in Int, NEW d \in Nat, d > 0
  PROVE  \E q \in Int, r \in 0..(d - 1) : r = x % d /\ x = q * d + r
OBVIOUS

\* Two remainders that differ by a multiple are the same.
LEMMA RemainderUnique ==
  ASSUME NEW d \in Nat, d > 0, NEW r \in 0..(d - 1), NEW s \in 0..(d - 1),
         NEW q \in Int, r = q * d + s
  PROVE  r = s
<1>1. CASE q = 0
  BY <1>1
<1>2. CASE q > 0
  <2>1. 1 * d <= q * d
    BY <1>2, ProductGrows
  <2> DEFINE y == q * d
  <2> HIDE DEF y
  <2>2. r = y + s /\ 1 * d <= y
    BY <2>1 DEF y
  <2>3. y \in Int
    BY DEF y
  <2>4. QED
    BY <2>2, <2>3
<1>3. CASE q < 0
  <2>1. PICK p \in Nat : p = -q /\ 1 <= p
    BY <1>3
  <2>2. 1 * d <= p * d
    BY <2>1, ProductGrows
  <2>3. q * d = -(p * d)
    BY <2>1
  <2> DEFINE y == p * d
  <2>4. y \in Nat
    BY ProductInNat
  <2>5. r = s - y /\ 1 * d <= y
    BY <2>2, <2>3, <2>4
  <2> HIDE DEF y
  <2>6. QED
    BY <2>4, <2>5
<1>4. QED
  BY <1>1, <1>2, <1>3

\* Wrapping changes a number by a multiple of Int64, and leaves it in range.
LEMMA WrappedIs ==
  ASSUME NEW x \in Int
  PROVE  /\ Wrapped(x) \in (-Half)..(Half - 1)
         /\ \E q \in Int : Wrapped(x) = x + q * Int64
<1>1. x + Half \in Int /\ Int64 > 0
  BY HalfIs
<1>2. PICK q \in Int, r \in 0..(Int64 - 1) :
           r = (x + Half) % Int64 /\ x + Half = q * Int64 + r
  BY <1>1, HalfIs, DivisionOfInt
<1>3. Wrapped(x) = r - Half
  BY <1>2 DEF Wrapped, Half
<1>4. r - Half \in (-Half)..(Half - 1)
  BY HalfIs
<1>5. PICK p \in Int : p = -q
  OBVIOUS
<1>6. p * Int64 = -(q * Int64)
  BY <1>5, HalfIs
<1>7. r - Half = x + p * Int64
  <2> DEFINE y == q * Int64
             z == p * Int64
  <2>1. y \in Int /\ z \in Int /\ z = -y /\ x + Half = y + r
    BY <1>2, <1>6, HalfIs
  <2> HIDE DEF y, z
  <2>2. r - Half = x + z
    BY <2>1, HalfIs
  <2>3. QED
    BY <2>2 DEF z
<1>8. QED
  BY <1>3, <1>4, <1>7

LEMMA WrappedParts ==
  ASSUME NEW x \in Int
  PROVE  \E q \in Int, y \in Int : y = Wrapped(x) /\ y = x + q * Int64
<1>1. Wrapped(x) \in Int
  <2>1. Wrapped(x) \in (-Half)..(Half - 1)
    BY WrappedIs
  <2>2. QED
    BY <2>1, HalfIs
<1>2. PICK q \in Int : Wrapped(x) = x + q * Int64
  BY WrappedIs
<1>3. QED
  BY <1>1, <1>2

\* Numbers that differ by a multiple of Int64 are held as the same.
LEMMA WrappedUnique ==
  ASSUME NEW x \in Int, NEW y \in (-Half)..(Half - 1), NEW q \in Int,
         y = x + q * Int64
  PROVE  Wrapped(x) = y
<1>1. PICK p \in Int : Wrapped(x) = x + p * Int64
  BY WrappedIs
<1>2. PICK r \in 0..(Int64 - 1) : r = Wrapped(x) + Half
  BY WrappedIs, HalfIs
<1>3. PICK s \in 0..(Int64 - 1) : s = y + Half
  BY HalfIs
<1>4. PICK k \in Int : k = p - q
  OBVIOUS
<1>5. k * Int64 = p * Int64 - q * Int64
  BY <1>4, HalfIs
<1>6. r = k * Int64 + s
  <2> DEFINE a == p * Int64
             b == q * Int64
             c == k * Int64
  <2>1. a \in Int /\ b \in Int /\ c \in Int /\ c = a - b
    BY <1>5, HalfIs
  <2>2. Wrapped(x) = x + a /\ y = x + b
    BY <1>1
  <2> HIDE DEF a, b, c
  <2>3. r = c + s
    BY <1>2, <1>3, <2>1, <2>2, HalfIs
  <2>4. QED
    BY <2>3 DEF c
<1>7. r = s
  BY <1>6, HalfIs, RemainderUnique
<1>8. QED
  <2>1. PICK w \in Int : w = Wrapped(x)
    BY WrappedParts
  <2>2. QED
    BY <1>2, <1>3, <1>7, <2>1, HalfIs

LEMMA WrappedSmall ==
  ASSUME NEW x \in (-Half)..(Half - 1)
  PROVE  Wrapped(x) = x
<1>1. x \in Int /\ x = x + 0 * Int64
  BY HalfIs
<1>2. QED
  BY <1>1, WrappedUnique

LEMMA WrappedSame ==
  ASSUME NEW x \in Int, NEW y \in Int, NEW q \in Int, y = x + q * Int64
  PROVE  Wrapped(y) = Wrapped(x)
<1>1. PICK p \in Int : Wrapped(y) = y + p * Int64
  BY WrappedIs
<1>2. PICK z \in (-Half)..(Half - 1) : z = Wrapped(y)
  BY WrappedIs
<1>3. PICK k \in Int : k = p + q
  OBVIOUS
<1>4. k * Int64 = p * Int64 + q * Int64
  BY <1>3, HalfIs
<1>5. z = x + k * Int64
  <2> DEFINE a == p * Int64
             b == q * Int64
             c == k * Int64
  <2>1. a \in Int /\ b \in Int /\ c \in Int /\ c = a + b
    BY <1>4, HalfIs
  <2>2. z = y + a /\ y = x + b
    BY <1>1, <1>2
  <2> HIDE DEF a, b, c
  <2>3. z = x + c
    BY <2>1, <2>2
  <2>4. QED
    BY <2>3 DEF c
<1>6. QED
  BY <1>2, <1>5, WrappedUnique

\* Wrapping on the way to a number does not matter.
LEMMA WrappedDigit ==
  ASSUME NEW x \in Int, NEW d \in Int
  PROVE  Wrapped(Wrapped(x) * 10 + d) = Wrapped(x * 10 + d)
<1>1. PICK q \in Int, y \in Int : y = Wrapped(x) /\ y = x + q * Int64
  BY WrappedParts
<1>2. PICK p \in Int : p = 10 * q
  OBVIOUS
<1>3. p * Int64 = 10 * (q * Int64)
  BY <1>2, HalfIs
<1>4. y * 10 + d = (x * 10 + d) + p * Int64
  <2> DEFINE a == q * Int64
             b == p * Int64
  <2>1. a \in Int /\ b = 10 * a /\ y = x + a
    BY <1>1, <1>3, HalfIs
  <2> HIDE DEF a, b
  <2>2. y * 10 + d = (x * 10 + d) + b
    BY <2>1
  <2>3. QED
    BY <2>2 DEF b
<1>5. QED
  BY <1>1, <1>4, WrappedSame

LEMMA WrappedTwice ==
  ASSUME NEW x \in Int
  PROVE  /\ Wrapped(Wrapped(x)) = Wrapped(x)
         /\ Wrapped(-Wrapped(x)) = Wrapped(-x)
<1>1. PICK q \in Int, y \in Int : y = Wrapped(x) /\ y = x + q * Int64
  BY WrappedParts
<1>2. PICK p \in Int : p = -q
  OBVIOUS
<1>3. p * Int64 = -(q * Int64)
  BY <1>2, HalfIs
<1>4. -y = (-x) + p * Int64
  <2> DEFINE a == q * Int64
             b == p * Int64
  <2>1. a \in Int /\ b = -a /\ y = x + a
    BY <1>1, <1>3, HalfIs
  <2> HIDE DEF a, b
  <2>2. -y = (-x) + b
    BY <2>1
  <2>3. QED
    BY <2>2 DEF b
<1>5. Wrapped(-y) = Wrapped(-x)
  BY <1>4, WrappedSame
<1>6. Wrapped(y) = Wrapped(x)
  BY <1>1, WrappedSame
<1>7. QED
  BY <1>1, <1>5, <1>6

-----------------------------------------------------------------------------
(* Reading and writing numbers *)

AllDigits(digits) == \A i \in 1..Len(digits) : IsDigit(digits[i])

\* The value of n digits, digit by digit.
Horner(v, digits, n) ==
  /\ v \in [0..n -> Nat]
  /\ v[0] = 0
  /\ \A k \in 1..n : v[k] = v[k - 1] * 10 + (digits[k] - Zero)

LEMMA DigitValue ==
  ASSUME NEW digits, AllDigits(digits), NEW i \in 1..Len(digits)
  PROVE  digits[i] \in Nat /\ digits[i] - Zero \in 0..9
<1>1. digits[i] \in 48..57
  BY DEF AllDigits, IsDigit, Zero
<1>2. QED
  BY <1>1 DEF Zero

LEMMA HornerExists ==
  ASSUME NEW digits, AllDigits(digits), NEW n \in Nat, n = Len(digits)
  PROVE  \E v : Horner(v, digits, n)
<1> DEFINE step == [k \in 1..n |-> [x \in Nat |-> x * 10 + (digits[k] - Zero)]]
<1>1. Course(n, Nat, 0, step)
  <2>1. ASSUME NEW x \in Nat, NEW k \in 1..n
        PROVE  x * 10 + (digits[k] - Zero) \in Nat
    <3>1. digits[k] - Zero \in 0..9
      BY DigitValue
    <3>2. QED
      BY <3>1
  <2>2. QED
    BY <2>1 DEF Course
<1>2. PICK v : Follows(v, n, Nat, 0, step)
  <2> HIDE DEF step
  <2>1. QED
    BY <1>1, SequenceRecursion
<1>3. v \in [0..n -> Nat] /\ v[0] = 0
  BY <1>2 DEF Follows
<1>4. ASSUME NEW k \in 1..n
      PROVE  v[k] = v[k - 1] * 10 + (digits[k] - Zero)
  <2>1. v[k] = step[k][v[k - 1]]
    <3> HIDE DEF step
    <3>1. QED
      BY <1>2 DEF Follows
  <2>2. v[k - 1] \in Nat
    BY <1>3
  <2>3. QED
    BY <2>1, <2>2
<1>5. QED
  BY <1>3, <1>4 DEF Horner

\* What the loop of btoi64 makes of digits.
Accumulated(digits) ==
  LET acc[i \in 0..Len(digits)] ==
        IF i = 0 THEN 0 ELSE Wrapped(acc[i - 1] * 10 + digits[i] - Zero) IN
  acc[Len(digits)]

LEMMA AccumulatedIs ==
  ASSUME NEW digits, AllDigits(digits), NEW n \in Nat, n = Len(digits),
         NEW v, Horner(v, digits, n)
  PROVE  Accumulated(digits) = Wrapped(v[n])
<1> DEFINE F(g) == [i \in 0..n |->
                      IF i = 0 THEN 0 ELSE Wrapped(g[i - 1] * 10 + digits[i] - Zero)]
           g == CHOOSE g : g = F(g)
           T == {i \in 0..n : g[i] = Wrapped(v[i])}
<1>1. Accumulated(digits) = g[n]
  BY DEF Accumulated
<1>2. v \in [0..n -> Nat] /\ v[0] = 0
  BY DEF Horner
<1>3. \A k \in 1..n : v[k] = v[k - 1] * 10 + (digits[k] - Zero)
  BY DEF Horner
<1>4. Wrapped(0) = 0
  BY HalfIs, WrappedSmall
<1>5. ASSUME NEW k \in 1..n
      PROVE  Wrapped(v[k]) = Wrapped(Wrapped(v[k - 1]) * 10 + digits[k] - Zero)
  <2>1. PICK x \in Int : x = v[k - 1]
    BY <1>2
  <2>2. PICK d \in Int, e \in Int : d = digits[k] - Zero /\ e = digits[k]
    BY DigitValue
  <2>3. PICK y \in Int : y = Wrapped(x)
    BY WrappedParts
  <2>4. y * 10 + e - Zero = y * 10 + d
    BY <2>2 DEF Zero
  <2>5. Wrapped(y * 10 + d) = Wrapped(x * 10 + d)
    BY <2>3, WrappedDigit
  <2>6. v[k] = x * 10 + d
    BY <1>3, <2>1, <2>2
  <2>7. QED
    BY <2>1, <2>2, <2>3, <2>4, <2>5, <2>6
<1>6. \E h : h = F(h)
  <2> DEFINE h == [i \in 0..n |-> Wrapped(v[i])]
  <2>1. ASSUME NEW i \in 0..n
        PROVE  h[i] = IF i = 0 THEN 0 ELSE Wrapped(h[i - 1] * 10 + digits[i] - Zero)
    <3>1. CASE i = 0
      BY <1>2, <1>4, <3>1
    <3>2. CASE i # 0
      <4>1. i \in 1..n /\ i - 1 \in 0..n
        BY <3>2
      <4>2. h[i] = Wrapped(v[i]) /\ h[i - 1] = Wrapped(v[i - 1])
        BY <4>1
      <4> HIDE DEF h
      <4>3. QED
        BY <1>5, <3>2, <4>1, <4>2
    <3>3. QED
      BY <3>1, <3>2
  <2>2. h = [i \in 0..n |-> h[i]]
    OBVIOUS
  <2> HIDE DEF h
  <2>3. h = F(h)
    BY <2>1, <2>2
  <2>4. QED
    BY <2>3
<1>7. g = F(g)
  <2> HIDE DEF F
  <2>1. QED
    BY <1>6
<1> HIDE DEF g
<1>8. g[0] = 0
  BY <1>7
<1>9. \A k \in 1..n : g[k] = Wrapped(g[k - 1] * 10 + digits[k] - Zero)
  BY <1>7
<1> HIDE DEF F
<1>10. 0 \in T
  BY <1>2, <1>4, <1>8
<1>11. \A i \in 0..(n - 1) : i \in T => i + 1 \in T
  <2> SUFFICES ASSUME NEW i \in 0..(n - 1), i \in T
               PROVE  i + 1 \in T
    OBVIOUS
  <2>1. i + 1 \in 1..n /\ i + 1 \in 0..n /\ (i + 1) - 1 = i
    OBVIOUS
  <2>2. g[i + 1] = Wrapped(g[i] * 10 + digits[i + 1] - Zero)
    BY <1>9, <2>1
  <2>3. Wrapped(v[i + 1]) = Wrapped(Wrapped(v[i]) * 10 + digits[i + 1] - Zero)
    BY <1>5, <2>1
  <2>4. QED
    BY <2>1, <2>2, <2>3
<1>12. 0..n \subseteq T
  <2> HIDE DEF T
  <2>1. QED
    BY <1>10, <1>11, Induction
<1>13. QED
  BY <1>1, <1>12

\* The digits of a text, after a sign: s tells if there is one.
Signed(text, s, digits) ==
  /\ s = 1 <=> text # << >> /\ text[1] = Minus
  /\ digits = SubSeq(text, s + 1, Len(text))

\* What btoi64 reads.
LEMMA ReadIs ==
  ASSUME NEW text, NEW s \in {0, 1}, NEW digits, Signed(text, s, digits),
         NEW m \in Nat, m = Len(digits)
  PROVE  /\ ~AllDigits(digits) => ToNumber(text) = 0
         /\ AllDigits(digits) => \A v :
              Horner(v, digits, m) =>
                ToNumber(text) = Wrapped(IF s = 1 THEN -v[m] ELSE v[m])
<1> DEFINE negative == text # << >> /\ text[1] = Minus
<1>1. digits = SubSeq(text, IF negative THEN 2 ELSE 1, Len(text))
  <2>1. s + 1 = IF negative THEN 2 ELSE 1
    <3>1. s = 1 <=> negative
      BY DEF Signed
    <3> HIDE DEF negative
    <3>2. QED
      BY <3>1
  <2> HIDE DEF negative
  <2>2. QED
    BY <2>1 DEF Signed
<1>2. ToNumber(text) =
        IF \E i \in 1..Len(digits) : ~IsDigit(digits[i]) THEN 0
        ELSE Wrapped(IF negative THEN -Accumulated(digits) ELSE Accumulated(digits))
  <2>1. ASSUME NEW d, d = SubSeq(text, IF negative THEN 2 ELSE 1, Len(text))
        PROVE  ToNumber(text) =
                 IF \E i \in 1..Len(d) : ~IsDigit(d[i]) THEN 0
                 ELSE Wrapped(IF negative THEN -Accumulated(d) ELSE Accumulated(d))
    BY <2>1 DEF ToNumber, Accumulated
  <2>2. QED
    BY <1>1, <2>1
<1>3. ~AllDigits(digits) => ToNumber(text) = 0
  BY <1>2 DEF AllDigits
<1>4. ASSUME AllDigits(digits), NEW v, Horner(v, digits, m)
      PROVE  ToNumber(text) = Wrapped(IF s = 1 THEN -v[m] ELSE v[m])
  <2>1. Horner(v, digits, m)
    BY <1>4
  <2>2. Accumulated(digits) = Wrapped(v[m])
    BY <1>4, <2>1, AccumulatedIs
  <2>3. v[m] \in Int
    BY <2>1 DEF Horner
  <2>4. ToNumber(text) = Wrapped(IF negative THEN -Wrapped(v[m]) ELSE Wrapped(v[m]))
    BY <1>2, <1>4, <2>2 DEF AllDigits
  <2>5. ToNumber(text) = Wrapped(IF s = 1 THEN -v[m] ELSE v[m])
    BY <2>3, <2>4, WrappedTwice DEF Signed
  <2>6. QED
    BY <2>5
<1>5. QED
  BY <1>3, <1>4

\* The digits that itob writes: as many as the number has, from the greatest
\* place to the least.
Written10(digits, n, c) ==
  /\ c \in Nat /\ c > 0 /\ Len(digits) = c
  /\ n < Power(10, c)
  /\ c > 1 => Power(10, c - 1) <= n
  /\ digits \in Seq(Nat)
  /\ \A i \in 1..c : digits[i] = Zero + ((n \div Power(10, c - i)) % 10)

LEMMA TenPower ==
  /\ Power(10, 0) = 1
  /\ \A k \in Nat : Power(10, k) \in Nat /\ Power(10, k) > 0
  /\ \A k \in Nat : Power(10, k + 1) = 10 * Power(10, k)
<1>1. 10 \in Nat \ {0}
  OBVIOUS
<1>2. \A k \in Nat : Power(10, k) \in Nat /\ Power(10, k) > 0
  BY <1>1, PowerSteps
<1>3. ASSUME NEW k \in Nat
      PROVE  Power(10, k + 1) = 10 * Power(10, k)
  <2>1. Power(10, k + 1) = Power(10, k) * 10
    BY <1>1, PowerSteps
  <2>2. QED
    BY <1>2, <2>1
<1>4. Power(10, 0) = 1
  BY <1>1, PowerSteps
<1>5. QED
  BY <1>2, <1>3, <1>4

\* How many digits: one more than without the last.
Count(n) ==
  LET rest[k \in 0..n] == IF k < 10 THEN 1 ELSE 1 + rest[k \div 10] IN rest[n]

LEMMA CountIs ==
  ASSUME NEW n \in Nat
  PROVE  /\ Count(n) \in Nat /\ Count(n) > 0
         /\ n < Power(10, Count(n))
         /\ Count(n) > 1 => Power(10, Count(n) - 1) <= n
<1> DEFINE D == 0..n
           rank == [k \in D |-> IF k < 10 THEN 0 ELSE k]
           up == [k \in D |-> k \div 10]
           base == [k \in D |-> 1]
           step == [k \in D |-> [x \in Nat \ {0} |-> 1 + x]]
           F(g) == [k \in 0..n |-> IF k < 10 THEN 1 ELSE 1 + g[k \div 10]]
           rest == CHOOSE g : g = F(g)
<1>1. ASSUME NEW k \in D, ~(k < 10)
      PROVE  k \div 10 \in D /\ k \div 10 < k /\ 10 * (k \div 10) <= k
             /\ k < 10 * (k \div 10) + 10 /\ k \div 10 > 0
  BY <1>1
<1>2. Scheme(n, D, Nat \ {0}, rank, up, base, step)
  <2>1. rank \in [D -> 0..n]
    OBVIOUS
  <2>2. ASSUME NEW k \in D, rank[k] # 0
        PROVE  up[k] \in D /\ rank[up[k]] < rank[k]
    <3>1. ~(k < 10) /\ rank[k] = k
      BY <2>2
    <3>2. up[k] \in D /\ up[k] < k
      BY <1>1, <3>1
    <3>3. rank[up[k]] = 0 \/ rank[up[k]] = up[k]
      BY <3>2
    <3> HIDE DEF rank, up
    <3>4. QED
      BY <3>1, <3>2, <3>3
  <2>3. base \in [D -> Nat \ {0}] /\ step \in [D -> [Nat \ {0} -> Nat \ {0}]]
    OBVIOUS
  <2> HIDE DEF D, rank, up, base, step
  <2>4. QED
    BY <2>1, <2>2, <2>3 DEF Scheme
<1>3. PICK f : Solution(f, D, Nat \ {0}, rank, up, base, step)
  <2> HIDE DEF D, rank, up, base, step
  <2>1. QED
    BY <1>2, RecursionExists
<1>4. f \in [D -> Nat \ {0}]
  BY <1>3 DEF Solution
<1>5. ASSUME NEW k \in D
      PROVE  f[k] = IF k < 10 THEN 1 ELSE 1 + f[k \div 10]
  <2>1. f[k] = IF rank[k] = 0 THEN base[k] ELSE step[k][f[up[k]]]
    <3> HIDE DEF D, rank, up, base, step
    <3>1. QED
      BY <1>3 DEF Solution
  <2>2. CASE k < 10
    BY <2>1, <2>2
  <2>3. CASE ~(k < 10)
    <3>1. rank[k] # 0 /\ base[k] = 1 /\ up[k] = k \div 10
      BY <2>3
    <3>2. f[k \div 10] \in Nat \ {0}
      BY <1>1, <1>4, <2>3
    <3>3. step[k][f[k \div 10]] = 1 + f[k \div 10]
      BY <3>2
    <3> HIDE DEF rank, base, up, step
    <3>4. QED
      BY <2>1, <2>3, <3>1, <3>3
  <2>4. QED
    BY <2>2, <2>3
<1>6. f = F(f)
  <2>1. f = [k \in D |-> f[k]]
    BY <1>4
  <2>2. QED
    BY <1>5, <2>1
<1>7. Count(n) = rest[n]
  BY DEF Count
<1>8. rest = F(rest)
  <2> HIDE DEF F
  <2>1. QED
    BY <1>6
<1> HIDE DEF rest
<1>9. \A k \in D : rest[k] = IF k < 10 THEN 1 ELSE 1 + rest[k \div 10]
  BY <1>8
<1> HIDE DEF F
<1> DEFINE Good == {k \in D : /\ rest[k] \in Nat /\ rest[k] > 0
                              /\ k < Power(10, rest[k])
                              /\ rest[k] > 1 => Power(10, rest[k] - 1) <= k}
           order == [k \in D |-> k]
<1>10. ASSUME NEW k \in D, \A j \in D : j < k => j \in Good
      PROVE  k \in Good
  <2>1. CASE k < 10
    <3>1. rest[k] = 1
      BY <1>9, <2>1
    <3>2. Power(10, 1) = 10
      <4>1. Power(10, 0 + 1) = 10 * Power(10, 0) /\ 0 + 1 = 1
        BY TenPower
      <4>2. QED
        BY <4>1, TenPower
    <3>3. QED
      BY <2>1, <3>1, <3>2
  <2>2. CASE ~(k < 10)
    <3>1. PICK q \in D : /\ q = k \div 10 /\ q < k /\ 10 * q <= k
                         /\ k < 10 * q + 10 /\ q > 0
      BY <1>1, <2>2
    <3>2. q \in Good
      BY <1>10, <3>1
    <3>3. PICK r \in Nat : /\ r = rest[q] /\ r > 0 /\ q < Power(10, r)
                           /\ r > 1 => Power(10, r - 1) <= q
      BY <3>2
    <3>4. rest[k] = 1 + r
      BY <1>9, <2>2, <3>1, <3>3
    <3>5. PICK a \in Nat : a = Power(10, r) /\ Power(10, r + 1) = 10 * a
      BY <3>3, TenPower
    <3>6. q + 1 <= a
      BY <3>1, <3>3, <3>5
    <3>7. k < Power(10, 1 + r)
      <4>1. r + 1 = 1 + r
        OBVIOUS
      <4>2. k < 10 * a
        BY <3>1, <3>6
      <4>3. QED
        BY <3>5, <4>1, <4>2
    <3>8. a <= k
      <4>1. CASE r = 1
        <5>1. Power(10, 0 + 1) = 10 * Power(10, 0) /\ 0 + 1 = 1
          BY TenPower
        <5>2. a = 10
          BY <3>5, <4>1, <5>1, TenPower
        <5>3. QED
          BY <2>2, <5>2
      <4>2. CASE r # 1
        <5>1. PICK t \in Nat : r = t + 1
          <6>1. r - 1 \in Nat /\ r = (r - 1) + 1
            BY <3>3
          <6>2. QED
            BY <6>1
        <5>2. PICK b \in Nat : b = Power(10, t) /\ a = 10 * b
          BY <3>5, <5>1, TenPower
        <5>3. r - 1 = t /\ r > 1
          BY <3>3, <4>2, <5>1
        <5>4. b <= q
          BY <3>3, <5>2, <5>3
        <5>5. QED
          BY <3>1, <5>2, <5>4
      <4>3. QED
        BY <4>1, <4>2
    <3>9. (1 + r) - 1 = r /\ 1 + r \in Nat /\ 1 + r > 0
      OBVIOUS
    <3>10. QED
      BY <3>4, <3>5, <3>7, <3>8, <3>9
  <2>3. QED
    BY <2>1, <2>2
<1>11. D \subseteq Good
  <2>1. order \in [D -> 0..n]
    OBVIOUS
  <2>2. ASSUME NEW a \in D, \A b \in D : order[b] < order[a] => b \in Good
        PROVE  a \in Good
    <3> HIDE DEF Good
    <3>1. \A b \in D : b < a => b \in Good
      BY <2>2
    <3>2. QED
      BY <1>10, <3>1
  <2> HIDE DEF D, Good, order
  <2>3. QED
    BY <2>1, <2>2, RankInduction
<1>12. n \in Good
  BY <1>11
<1>13. QED
  BY <1>12, <1>7

LEMMA DigitsWritten ==
  ASSUME NEW n \in Nat
  PROVE  \E c \in Nat : Written10(Digits(n), n, c)
<1>1. PICK c \in Nat : c = Count(n)
  BY CountIs
<1> DEFINE digits == [i \in 1..c |-> Zero + ((n \div Power(10, c - i)) % 10)]
<1>2. Digits(n) = digits
  <2>1. ~(n < 0)
    OBVIOUS
  <2>2. QED
    BY <1>1, <2>1 DEF Digits, Count
<1>3. ASSUME NEW i \in 1..c
      PROVE  Zero + ((n \div Power(10, c - i)) % 10) \in Nat
  <2>1. PICK d \in Nat : d = Power(10, c - i) /\ d > 0
    BY TenPower
  <2>2. PICK q \in Nat : q = n \div d
    BY <2>1, Division
  <2>3. q % 10 \in Nat
    OBVIOUS
  <2>4. QED
    BY <2>1, <2>2, <2>3 DEF Zero
<1>4. digits \in [1..c -> Nat]
  BY <1>3
<1>5. digits \in Seq(Nat) /\ Len(digits) = c
  <2> HIDE DEF digits
  <2>1. QED
    BY <1>4, SeqDef, LenProperties
<1>6. \A i \in 1..c : digits[i] = Zero + ((n \div Power(10, c - i)) % 10)
  OBVIOUS
<1>7. c > 0 /\ n < Power(10, c) /\ (c > 1 => Power(10, c - 1) <= n)
  BY <1>1, CountIs
<1> HIDE DEF digits
<1>8. Written10(digits, n, c)
  BY <1>5, <1>6, <1>7 DEF Written10
<1>9. QED
  BY <1>2, <1>8

\* The digits that are written have the value of the number.
LEMMA DigitsValue ==
  ASSUME NEW n \in Nat
  PROVE  \E c \in Nat : \E v :
           /\ Written10(Digits(n), n, c)
           /\ AllDigits(Digits(n)) /\ Horner(v, Digits(n), c) /\ v[c] = n
           /\ Digits(n)[1] # Minus
           /\ Digits(n)[1] = Zero => n = 0
<1>1. PICK c \in Nat : Written10(Digits(n), n, c)
  BY DigitsWritten
<1> DEFINE d == Digits(n)
<1>2. /\ c > 0 /\ Len(d) = c /\ n < Power(10, c)
      /\ c > 1 => Power(10, c - 1) <= n
  BY <1>1 DEF Written10
<1>3. \A i \in 1..c : d[i] = Zero + ((n \div Power(10, c - i)) % 10)
  BY <1>1 DEF Written10
<1> HIDE DEF d
<1>4. ASSUME NEW i \in 0..c
      PROVE  n \div Power(10, c - i) \in Nat
  <2>1. PICK a \in Nat : a = Power(10, c - i) /\ a > 0
    BY TenPower
  <2>2. QED
    BY <2>1, Division
<1>5. AllDigits(d)
  <2> SUFFICES ASSUME NEW i \in 1..c
               PROVE  IsDigit(d[i])
    BY <1>2 DEF AllDigits
  <2>1. PICK q \in Nat : q = n \div Power(10, c - i)
    BY <1>4
  <2>2. PICK r \in 0..9 : r = q % 10
    OBVIOUS
  <2>3. d[i] = 48 + r
    BY <1>3, <2>1, <2>2 DEF Zero
  <2>4. QED
    BY <2>3 DEF IsDigit, Zero
<1> DEFINE v == [i \in 0..c |-> n \div Power(10, c - i)]
<1>6. v \in [0..c -> Nat]
  BY <1>4
<1>7. v[0] = 0
  <2>1. v[0] = n \div Power(10, c)
    <3>1. 0 \in 0..c /\ c - 0 = c
      OBVIOUS
    <3>2. QED
      BY <3>1
  <2>2. PICK a \in Nat : a = Power(10, c) /\ n < a
    BY <1>2, TenPower
  <2>3. n \div a = 0
    BY <2>2
  <2>4. QED
    BY <2>1, <2>2, <2>3
<1>8. v[c] = n
  <2>1. v[c] = n \div Power(10, 0)
    <3>1. c \in 0..c /\ c - c = 0
      OBVIOUS
    <3>2. QED
      BY <3>1
  <2>2. n \div 1 = n
    OBVIOUS
  <2>3. QED
    BY <2>1, <2>2, TenPower
<1>9. ASSUME NEW k \in 1..c
      PROVE  v[k] = v[k - 1] * 10 + (d[k] - Zero)
  <2>1. PICK e \in Nat : e = c - k
    OBVIOUS
  <2>2. k \in 0..c /\ k - 1 \in 0..c /\ c - (k - 1) = e + 1
    BY <2>1
  <2>3. PICK a \in Nat : a = Power(10, e) /\ a > 0 /\ Power(10, e + 1) = 10 * a
    BY TenPower
  <2>4. PICK q \in Nat : q = n \div a
    BY <2>3, Division
  <2>5. v[k] = q
    BY <2>1, <2>2, <2>3, <2>4
  <2>6. n \div (a * 10) = q \div 10
    BY <2>3, <2>4, DivideTwice
  <2>7. v[k - 1] = q \div 10
    <3>1. v[k - 1] = n \div Power(10, e + 1)
      BY <2>2
    <3>2. 10 * a = a * 10
      OBVIOUS
    <3>3. QED
      BY <2>3, <2>6, <3>1, <3>2
  <2>8. PICK r \in 0..9 : r = q % 10 /\ q = (q \div 10) * 10 + r
    OBVIOUS
  <2>9. d[k] - Zero = r
    <3>1. d[k] = 48 + r
      BY <1>3, <2>1, <2>3, <2>4, <2>8 DEF Zero
    <3>2. QED
      BY <3>1 DEF Zero
  <2> HIDE DEF v
  <2>10. QED
    BY <2>5, <2>7, <2>8, <2>9
<1>10. Horner(v, d, c)
  <2> HIDE DEF v
  <2>1. QED
    BY <1>6, <1>7, <1>9 DEF Horner
<1>11. d[1] # Minus
  <2>1. d[1] \in 48..57
    BY <1>2, <1>5 DEF AllDigits, IsDigit, Zero
  <2>2. QED
    BY <2>1 DEF Minus
<1>12. ASSUME d[1] = Zero
       PROVE  n = 0
  <2>1. PICK e \in Nat : c = e + 1 /\ c - 1 = e
    <3>1. c - 1 \in Nat /\ c = (c - 1) + 1
      BY <1>2
    <3>2. QED
      BY <3>1
  <2>2. PICK a \in Nat : a = Power(10, e) /\ a > 0 /\ Power(10, c) = 10 * a
    BY <2>1, TenPower
  <2>3. PICK q \in Nat, r \in 0..(a - 1) : q = n \div a /\ n = q * a + r
    <3>1. a > 0
      BY <2>2
    <3>2. QED
      BY <3>1, Division
  <2>4. q % 10 = 0
    <3>1. 1 \in 1..c
      BY <1>2
    <3>2. d[1] = 48 + (q % 10) /\ d[1] = 48
      BY <1>3, <1>12, <2>1, <2>2, <2>3, <3>1 DEF Zero
    <3>3. q % 10 \in Int
      OBVIOUS
    <3>4. QED
      BY <3>2, <3>3
  <2>5. q < 10
    <3> SUFFICES ASSUME 10 <= q
                 PROVE  FALSE
      OBVIOUS
    <3>1. 10 * a <= q * a
      BY ProductGrows
    <3>2. PICK y \in Nat : y = q * a
      BY ProductInNat
    <3>3. n < 10 * a /\ n = y + r /\ 10 * a <= y
      BY <1>2, <2>2, <2>3, <3>1, <3>2
    <3>4. QED
      BY <3>3
  <2>6. q = 0
    BY <2>4, <2>5
  <2>7. n = r /\ n < a
    BY <2>3, <2>6
  <2>8. ~(c > 1)
    BY <1>2, <2>1, <2>2, <2>7
  <2>9. e = 0
    BY <2>1, <2>8
  <2>10. a = 1
    BY <2>2, <2>9, TenPower
  <2>11. QED
    BY <2>7, <2>10
<1>13. QED
  <2> HIDE DEF v
  <2>1. QED
    BY <1>1, <1>5, <1>8, <1>10, <1>11, <1>12 DEF d

\* A part of a sequence.
LEMMA Part ==
  ASSUME NEW S, NEW seq \in Seq(S), NEW n \in Nat, n = Len(seq),
         NEW a \in 1..(n + 1), NEW b \in (a - 1)..n
  PROVE  \E len \in Nat :
           /\ len = (b + 1) - a
           /\ SubSeq(seq, a, b) \in Seq(S) /\ Len(SubSeq(seq, a, b)) = len
           /\ \A i \in 1..len : SubSeq(seq, a, b)[i] = seq[a + i - 1]
<1>1. a \in Int /\ b \in Int
  OBVIOUS
<1>2. \A i \in a..b : seq[i] \in S
  <2> SUFFICES ASSUME NEW i \in a..b
               PROVE  seq[i] \in S
    OBVIOUS
  <2>1. i \in 1..n
    OBVIOUS
  <2>2. QED
    BY <2>1, ElementOfSeq
<1>3. /\ SubSeq(seq, a, b) \in Seq(S)
      /\ Len(SubSeq(seq, a, b)) = IF a <= b THEN b - a + 1 ELSE 0
      /\ \A i \in 1..(b - a + 1) : SubSeq(seq, a, b)[i] = seq[a + i - 1]
  BY <1>1, <1>2, SubSeqProperties, SMTT(30)
<1> DEFINE sub == SubSeq(seq, a, b)
<1> HIDE DEF sub
<1>4. PICK len \in Nat : len = (b + 1) - a
  OBVIOUS
<1>5. b - a + 1 = len /\ (IF a <= b THEN b - a + 1 ELSE 0) = len
  BY <1>4
<1>6. /\ sub \in Seq(S) /\ Len(sub) = len
      /\ \A i \in 1..len : sub[i] = seq[a + i - 1]
  BY <1>3, <1>5 DEF sub
<1>7. QED
  BY <1>4, <1>6 DEF sub

\* btoi64 reads what itob writes.
LEMMA ReadsBack ==
  ASSUME NEW n \in 0..(Half - 1)
  PROVE  /\ ToNumber(Digits(n)) = n
         /\ Digits(n)[1] = Zero => n = 0
<1>1. n \in Nat
  OBVIOUS
<1>2. PICK c \in Nat : \E v :
           /\ Written10(Digits(n), n, c)
           /\ AllDigits(Digits(n)) /\ Horner(v, Digits(n), c) /\ v[c] = n
           /\ Digits(n)[1] # Minus
           /\ Digits(n)[1] = Zero => n = 0
  BY <1>1, DigitsValue
<1> DEFINE d == Digits(n)
<1>3. d \in Seq(Nat) /\ Len(d) = c
  BY <1>2 DEF Written10
<1>4. ToNumber(d) = Wrapped(Accumulated(d))
  <2> HIDE DEF d
  <2>1. ~(d # << >> /\ d[1] = Minus)
    BY <1>2 DEF d
  <2>2. SubSeq(d, 1, Len(d)) = d
    BY <1>3, SubSeqFull
  <2>3. ~(\E i \in 1..Len(d) : ~IsDigit(d[i]))
    BY <1>2 DEF AllDigits, d
  <2>4. QED
    BY <2>1, <2>2, <2>3 DEF ToNumber, Accumulated
<1>5. Accumulated(d) = Wrapped(n)
  <2>1. PICK v : AllDigits(d) /\ Horner(v, d, c) /\ v[c] = n
    BY <1>2
  <2>2. QED
    BY <1>3, <2>1, AccumulatedIs
<1>6. Wrapped(n) = n
  BY HalfIs, WrappedSmall
<1>7. QED
  BY <1>2, <1>4, <1>5, <1>6

\* The least number too great for an int.
HalfInt == Int32 \div 2

LEMMA HalfIntIs ==
  /\ HalfInt \in Nat /\ HalfInt > 0 /\ Int32 = 2 * HalfInt /\ Int32 \in Nat
  /\ HalfInt <= Half
<1>1. Int32 \in Nat /\ Int32 > 0 /\ Int32 % 2 = 0 /\ Int32 <= Int64
  BY BytesAssumption
<1>2. PICK q \in Nat, r \in 0..1 : q = Int32 \div 2 /\ r = Int32 % 2 /\ Int32 = q * 2 + r
  BY <1>1, Division
<1>3. HalfInt = q /\ Int32 = 2 * q /\ q > 0
  BY <1>1, <1>2 DEF HalfInt
<1>4. q <= Half
  BY <1>1, <1>2, <1>3, HalfIs
<1>5. QED
  BY <1>1, <1>2, <1>3, <1>4

\* btoi makes an int of a number, and of an int itself.
LEMMA TruncatedIs ==
  ASSUME NEW x \in Int
  PROVE  /\ Truncated(x) \in (-HalfInt)..(HalfInt - 1)
         /\ x \in (-HalfInt)..(HalfInt - 1) => Truncated(x) = x
<1>1. x + HalfInt \in Int /\ Int32 > 0 /\ Int32 \in Nat
  BY HalfIntIs
<1>2. PICK q \in Int, r \in 0..(Int32 - 1) :
           r = (x + HalfInt) % Int32 /\ x + HalfInt = q * Int32 + r
  BY <1>1, DivisionOfInt
<1>3. Truncated(x) = r - HalfInt
  BY <1>2 DEF Truncated, HalfInt
<1>4. r - HalfInt \in (-HalfInt)..(HalfInt - 1)
  BY HalfIntIs
<1>5. ASSUME x \in (-HalfInt)..(HalfInt - 1)
      PROVE  Truncated(x) = x
  <2>1. PICK y \in 0..(Int32 - 1) : y = x + HalfInt
    BY <1>5, HalfIntIs
  <2>2. y = q * Int32 + r
    BY <1>2, <2>1
  <2>3. y = r
    BY <1>1, <2>2, RemainderUnique
  <2>4. QED
    BY <1>3, <2>1, <2>3, HalfIntIs
<1>6. QED
  BY <1>3, <1>4, <1>5

\* btoi64 reads what bprintf prints of any number.
LEMMA ReadsDecimal ==
  ASSUME NEW n \in (-Half)..(Half - 1)
  PROVE  ToNumber(Decimal(n)) = n
<1>1. Half \in Nat /\ n \in Int
  BY HalfIs
<1>2. CASE n >= 0
  <2>1. PICK x \in 0..(Half - 1) : x = n
    BY <1>1, <1>2
  <2>2. Decimal(n) = Digits(x)
    <3>1. ~(n < 0)
      BY <1>1, <1>2
    <3>2. QED
      BY <2>1, <3>1 DEF Decimal
  <2>3. QED
    BY <2>1, <2>2, ReadsBack
<1>3. CASE n < 0
  <2>1. PICK m \in Nat : m = -n
    BY <1>1, <1>3
  <2>2. PICK c \in Nat : \E v :
           /\ Written10(Digits(m), m, c)
           /\ AllDigits(Digits(m)) /\ Horner(v, Digits(m), c) /\ v[c] = m
           /\ Digits(m)[1] # Minus
           /\ Digits(m)[1] = Zero => m = 0
    BY DigitsValue
  <2> DEFINE d == Digits(m)
             text == <<Minus>> \o d
  <2>3. d \in Seq(Nat) /\ Len(d) = c
    BY <2>2 DEF Written10
  <2>4. Decimal(n) = text
    BY <1>3, <2>1 DEF Decimal
  <2> HIDE DEF d
  <2>5. text \in Seq(Nat) /\ Len(text) = c + 1 /\ text[1] = Minus
        /\ \A i \in 1..c : text[i + 1] = d[i]
    BY <2>3, SMTT(30) DEF Minus
  <2> HIDE DEF text
  <2>6. SubSeq(text, 2, Len(text)) = d
    <3>1. PICK a \in 1..((c + 1) + 1) : a = 2
      BY <2>3
    <3>2. PICK b \in (a - 1)..(c + 1) : b = c + 1
      BY <3>1
    <3>3. PICK len \in Nat :
           /\ len = (b + 1) - a
           /\ SubSeq(text, a, b) \in Seq(Nat) /\ Len(SubSeq(text, a, b)) = len
           /\ \A i \in 1..len : SubSeq(text, a, b)[i] = text[a + i - 1]
      <4>1. c + 1 \in Nat
        OBVIOUS
      <4>2. QED
        BY <2>5, <4>1, Part
    <3> DEFINE sub == SubSeq(text, a, b)
    <3>4. sub \in Seq(Nat) /\ Len(sub) = c
      BY <3>1, <3>2, <3>3
    <3>5. \A i \in 1..c : sub[i] = d[i]
      <4> SUFFICES ASSUME NEW i \in 1..c
                   PROVE  sub[i] = d[i]
        OBVIOUS
      <4>1. len = c /\ a + i - 1 = i + 1
        BY <3>1, <3>2, <3>3
      <4> HIDE DEF sub
      <4>2. QED
        BY <2>5, <3>3, <4>1 DEF sub
    <3>6. sub = d
      <4> HIDE DEF sub
      <4>1. QED
        BY <2>3, <3>4, <3>5, SeqEqual
    <3>7. QED
      BY <2>5, <3>1, <3>2, <3>6
  <2>7. Signed(text, 1, d)
    <3>1. text # << >>
      BY <2>5
    <3>2. QED
      BY <2>5, <2>6, <3>1 DEF Signed
  <2>8. PICK v : AllDigits(d) /\ Horner(v, d, c) /\ v[c] = m
    BY <2>2 DEF d
  <2>9. ToNumber(text) = Wrapped(-v[c])
    <3>1. 1 \in {0, 1} /\ c = Len(d)
      BY <2>3
    <3>2. /\ AllDigits(d) => \A w :
              Horner(w, d, c) =>
                ToNumber(text) = Wrapped(IF 1 = 1 THEN -w[c] ELSE w[c])
      BY <2>7, <3>1, ReadIs
    <3>3. QED
      BY <2>8, <3>2
  <2>10. -v[c] = n
    BY <1>1, <2>1, <2>8
  <2>11. QED
    BY <2>4, <2>9, <2>10, WrappedSmall
<1>4. QED
  BY <1>1, <1>2, <1>3
=============================================================================
