----------------------------- MODULE SiteProofs -----------------------------
(***************************************************************************)
(* Proofs about a page with its editor and its transfers: what the branch  *)
(* file tells of the text, from what is known of each of the two.          *)
(***************************************************************************)
EXTENDS Site, SequenceTheorems, TLAPS

EP == INSTANCE EditorProofs WITH typed <- typed[Page]
SP == INSTANCE SynchProofs WITH Clients <- {Page}
B == INSTANCE BytesProofs WITH Int64 <- 2, Int32 <- 2

-----------------------------------------------------------------------------
(* Lists whose elements stand, in the same order, in another list. *)

Places(q, m, n) ==
  /\ q \in [1..m -> 1..n]
  /\ \A i, j \in 1..m : i < j => q[i] < q[j]

Woven(s, t) ==
  \E q : Places(q, Len(s), Len(t)) /\ \A i \in 1..Len(s) : s[i] = t[q[i]]

LEMMA NothingWoven ==
  ASSUME NEW t
  PROVE  Woven(<< >>, t)
<1>1. Len(<< >>) = 0
  BY EmptySeq
<1>2. Places(<< >>, 0, Len(t))
  BY DEF Places
<1>3. QED
  BY <1>1, <1>2 DEF Woven

\* The longer list may get longer.
LEMMA WovenInLonger ==
  ASSUME NEW Elem, NEW s \in Seq(Elem), NEW t \in Seq(Elem), NEW x \in Elem, Woven(s, t)
  PROVE  Woven(s, Append(t, x))
<1>1. PICK m \in Nat : m = Len(s)
  BY LenProperties
<1>2. PICK n \in Nat : n = Len(t)
  BY LenProperties
<1>3. PICK q : Places(q, m, n) /\ \A i \in 1..m : s[i] = t[q[i]]
  BY <1>1, <1>2 DEF Woven
<1> DEFINE more == Append(t, x)
<1>4. Len(more) = n + 1 /\ \A i \in 1..n : more[i] = t[i]
  BY <1>2, AppendProperties
<1> HIDE DEF more
<1>5. Places(q, m, n + 1)
  BY <1>3 DEF Places
<1>6. \A i \in 1..m : s[i] = more[q[i]]
  BY <1>3, <1>4 DEF Places
<1>7. Woven(s, more)
  BY <1>1, <1>4, <1>5, <1>6 DEF Woven
<1>8. QED
  BY <1>7 DEF more

\* Both may get the same element at the end.
LEMMA WovenWithBoth ==
  ASSUME NEW Elem, NEW s \in Seq(Elem), NEW t \in Seq(Elem), NEW x \in Elem, Woven(s, t)
  PROVE  Woven(Append(s, x), Append(t, x))
<1>1. PICK m \in Nat : m = Len(s)
  BY LenProperties
<1>2. PICK n \in Nat : n = Len(t)
  BY LenProperties
<1>3. PICK q : Places(q, m, n) /\ \A i \in 1..m : s[i] = t[q[i]]
  BY <1>1, <1>2 DEF Woven
<1> DEFINE less == Append(s, x)
           more == Append(t, x)
           p == [i \in 1..(m + 1) |-> IF i = m + 1 THEN n + 1 ELSE q[i]]
<1>4. /\ Len(less) = m + 1 /\ less[m + 1] = x
      /\ \A i \in 1..m : less[i] = s[i]
  BY <1>1, AppendProperties
<1>5. /\ Len(more) = n + 1 /\ more[n + 1] = x
      /\ \A i \in 1..n : more[i] = t[i]
  BY <1>2, AppendProperties
<1> HIDE DEF less, more
<1>6. \A i \in 1..m : q[i] \in 1..n
  BY <1>3 DEF Places
<1>7. \A i, j \in 1..m : i < j => q[i] < q[j]
  BY <1>3 DEF Places
<1>8. p \in [1..(m + 1) -> 1..(n + 1)]
  BY <1>6
<1>9. \A i, j \in 1..(m + 1) : i < j => p[i] < p[j]
  <2> SUFFICES ASSUME NEW i \in 1..(m + 1), NEW j \in 1..(m + 1), i < j
               PROVE  p[i] < p[j]
    OBVIOUS
  <2>1. i \in 1..m
    OBVIOUS
  <2>2. CASE j = m + 1
    BY <1>6, <2>1, <2>2
  <2>3. CASE j # m + 1
    BY <1>7, <2>1, <2>3
  <2>4. QED
    BY <2>2, <2>3
<1>10. \A i \in 1..(m + 1) : less[i] = more[p[i]]
  <2> SUFFICES ASSUME NEW i \in 1..(m + 1)
               PROVE  less[i] = more[p[i]]
    OBVIOUS
  <2>1. CASE i = m + 1
    BY <1>4, <1>5, <2>1
  <2>2. CASE i # m + 1
    <3>1. i \in 1..m
      BY <2>2
    <3>2. QED
      BY <1>3, <1>4, <1>5, <1>6, <2>2, <3>1
  <2>3. QED
    BY <2>1, <2>2
<1>11. Woven(less, more)
  <2> HIDE DEF p
  <2>1. Places(p, m + 1, n + 1)
    BY <1>8, <1>9 DEF Places
  <2>2. QED
    BY <1>4, <1>5, <1>10, <2>1 DEF Woven
<1>12. QED
  BY <1>11 DEF less, more

LEMMA WovenTwice ==
  ASSUME NEW r, NEW s, NEW t, Len(r) \in Nat, Len(s) \in Nat, Len(t) \in Nat,
         Woven(r, s), Woven(s, t)
  PROVE  Woven(r, t)
<1>1. PICK l \in Nat : l = Len(r)
  OBVIOUS
<1>2. PICK m \in Nat : m = Len(s)
  OBVIOUS
<1>3. PICK n \in Nat : n = Len(t)
  OBVIOUS
<1>4. PICK p : Places(p, l, m) /\ \A i \in 1..l : r[i] = s[p[i]]
  BY <1>1, <1>2 DEF Woven
<1>5. PICK q : Places(q, m, n) /\ \A i \in 1..m : s[i] = t[q[i]]
  BY <1>2, <1>3 DEF Woven
<1> DEFINE both == [i \in 1..l |-> q[p[i]]]
<1>6. \A i \in 1..l : p[i] \in 1..m
  BY <1>4 DEF Places
<1>7. \A i, j \in 1..l : i < j => q[p[i]] < q[p[j]]
  BY <1>4, <1>5, <1>6 DEF Places
<1>8. \A i \in 1..l : q[p[i]] \in 1..n
  BY <1>5, <1>6 DEF Places
<1>9. Places(both, l, n)
  BY <1>7, <1>8 DEF Places
<1>10. \A i \in 1..l : r[i] = t[both[i]]
  BY <1>4, <1>5, <1>6
<1>11. QED
  <2> HIDE DEF both
  <2>1. QED
    BY <1>1, <1>3, <1>9, <1>10 DEF Woven

\* Within, going through the longer list once, finds out just that.
LEMMA WovenIsWithin ==
  ASSUME NEW s, NEW t, Len(s) \in Nat, Len(t) \in Nat, Woven(s, t)
  PROVE  Within(s, t)
<1>1. PICK m \in Nat : m = Len(s)
  OBVIOUS
<1>2. PICK n \in Nat : n = Len(t)
  OBVIOUS
<1>3. PICK q : Places(q, m, n) /\ \A i \in 1..m : s[i] = t[q[i]]
  BY <1>1, <1>2 DEF Woven
<1> DEFINE Step(i, k) == IF k < m /\ t[i] = s[k + 1] THEN k + 1 ELSE k
           F(g) == [i \in 0..n |-> IF i = 0 THEN 0 ELSE Step(i, g[i - 1])]
           g == CHOOSE g : g = F(g)
           step == [i \in 1..n |-> [k \in 0..m |-> Step(i, k)]]
<1>4. Within(s, t) <=> g[n] = m
  BY <1>1, <1>2 DEF Within
<1>5. \A i \in 1..n : \A k \in 0..m : Step(i, k) \in 0..m
  OBVIOUS
<1>6. PICK f : B!Follows(f, n, 0..m, 0, step)
  <2>1. B!Course(n, 0..m, 0, step)
    BY <1>5 DEF B!Course
  <2> HIDE DEF step
  <2>2. QED
    BY <2>1, B!SequenceRecursion
<1>7. f \in [0..n -> 0..m] /\ f[0] = 0
  BY <1>6 DEF B!Follows
<1>8. \A i \in 1..n : f[i] = Step(i, f[i - 1])
  <2>1. \A i \in 1..n : f[i] = step[i][f[i - 1]]
    <3> HIDE DEF step
    <3>1. QED
      BY <1>6 DEF B!Follows
  <2>2. \A i \in 1..n : f[i - 1] \in 0..m
    BY <1>7
  <2>3. QED
    BY <2>1, <2>2
<1> HIDE DEF step
<1>9. f = F(f)
  <2> HIDE DEF Step
  <2>1. \A i \in 0..n : i = 0 \/ i \in 1..n
    OBVIOUS
  <2>2. \A i \in 0..n : f[i] = IF i = 0 THEN 0 ELSE Step(i, f[i - 1])
    BY <1>7, <1>8, <2>1
  <2>3. QED
    BY <1>7, <2>2
<1>10. g = F(g)
  <2> HIDE DEF F
  <2>1. QED
    BY <1>9
<1> HIDE DEF g
<1>11. g[0] = 0 /\ \A i \in 1..n : g[i] = Step(i, g[i - 1])
  <2> HIDE DEF Step
  <2>1. QED
    BY <1>10
<1> HIDE DEF F
<1> DEFINE T == {i \in 0..n : g[i] \in 0..m /\ \A k \in 1..m : q[k] <= i => g[i] >= k}
<1>12. 0 \in T
  <2>1. \A k \in 1..m : q[k] \in 1..n
    BY <1>3 DEF Places
  <2>2. QED
    BY <1>11, <2>1
<1>13. ASSUME NEW i \in 0..(n - 1), i \in T
       PROVE  i + 1 \in T
  <2>1. i + 1 \in 1..n /\ (i + 1) - 1 = i /\ i + 1 \in 0..n
    OBVIOUS
  <2>2. g[i + 1] = Step(i + 1, g[i]) /\ g[i] \in 0..m
    BY <1>11, <1>13, <2>1
  <2>3. g[i + 1] \in 0..m
    BY <1>5, <2>1, <2>2
  <2>4. g[i + 1] >= g[i]
    BY <2>2
  <2>5. ASSUME NEW k \in 1..m, q[k] <= i + 1
        PROVE  g[i + 1] >= k
    <3>1. q[k] \in 1..n /\ s[k] = t[q[k]]
      BY <1>3 DEF Places
    <3>2. CASE q[k] <= i
      <4>1. g[i] >= k
        BY <1>13, <3>2
      <4>2. QED
        BY <2>2, <2>3, <2>4, <4>1
    <3>3. CASE ~(q[k] <= i)
      <4>1. q[k] = i + 1
        BY <2>5, <3>1, <3>3
      <4>2. g[i] >= k - 1
        <5>1. CASE k = 1
          BY <2>2, <5>1
        <5>2. CASE k # 1
          <6>1. k - 1 \in 1..m /\ k - 1 < k
            BY <5>2
          <6>2. q[k - 1] < q[k] /\ q[k - 1] \in 1..n
            BY <1>3, <6>1 DEF Places
          <6>3. q[k - 1] <= i
            BY <4>1, <6>2
          <6>4. QED
            BY <1>13, <6>1, <6>3
        <5>3. QED
          BY <5>1, <5>2
      <4>3. CASE g[i] >= k
        BY <2>2, <2>3, <2>4, <4>3
      <4>4. CASE ~(g[i] >= k)
        <5>1. g[i] = k - 1 /\ g[i] < m /\ g[i] + 1 = k
          BY <2>2, <4>2, <4>4
        <5>2. t[i + 1] = s[g[i] + 1]
          BY <3>1, <4>1, <5>1
        <5>3. g[i + 1] = g[i] + 1
          BY <2>2, <5>1, <5>2
        <5>4. QED
          BY <5>1, <5>3
      <4>5. QED
        BY <4>3, <4>4
    <3>4. QED
      BY <3>2, <3>3
  <2>6. QED
    BY <2>1, <2>3, <2>5
<1>14. 0..n \subseteq T
  <2> HIDE DEF T
  <2>1. QED
    BY <1>12, <1>13, B!Induction
<1>15. g[n] = m
  <2>1. g[n] \in 0..m /\ \A k \in 1..m : q[k] <= n => g[n] >= k
    BY <1>14
  <2>2. CASE m = 0
    BY <2>1, <2>2
  <2>3. CASE m # 0
    <3>1. m \in 1..m /\ q[m] <= n
      BY <1>3, <2>3 DEF Places
    <3>2. QED
      BY <2>1, <3>1
  <2>4. QED
    BY <2>2, <2>3
<1>16. QED
  BY <1>4, <1>15

-----------------------------------------------------------------------------
(* Lists of numbers in which each comes after the one before it. *)

InOrder(a, t) ==
  /\ a \in Seq(1..t)
  /\ \A j \in 1..Len(a) : a[j] # 1 => \E i \in 1..(j - 1) : a[i] = a[j] - 1
  /\ \A n \in 1..t : \E j \in 1..Len(a) : a[j] = n

Distinct(a, n) == \A i, j \in 1..n : a[i] = a[j] => i = j

\* The numbers stand in such a list in their order, where each comes first.
LEMMA FirstTimes ==
  ASSUME NEW t \in Nat, NEW a, InOrder(a, t)
  PROVE  \E e : Places(e, t, Len(a)) /\ \A n \in 1..t : a[e[n]] = n
<1>1. PICK l \in Nat : l = Len(a)
  BY LenProperties DEF InOrder
<1> DEFINE First(n, j) ==
             /\ j \in 1..l /\ a[j] = n
             /\ \A i \in 1..l : a[i] = n => j <= i
           e == [n \in 1..t |-> CHOOSE j \in 1..l : First(n, j)]
<1>2. \A j \in 1..l : a[j] \in 1..t
  BY <1>1, ElementOfSeq DEF InOrder
<1>3. ASSUME NEW n \in 1..t
      PROVE  First(n, e[n])
  <2> DEFINE T == {j \in 1..l : a[j] = n}
  <2>0. PICK k \in 1..l : a[k] = n
    BY <1>1 DEF InOrder
  <2>1. T \in SUBSET Nat /\ T # {}
    BY <2>0
  <2>2. PICK j \in T : \A i \in T : j <= i
    <3> HIDE DEF T
    <3>1. QED
      BY <2>1, B!LeastExists
  <2>3. First(n, j) /\ j \in 1..l
    BY <2>2
  <2> HIDE DEF First
  <2>4. QED
    BY <2>3
<1> HIDE DEF e
<1>4. ASSUME NEW n \in 1..t, n # 1
      PROVE  e[n - 1] < e[n]
  <2>1. n - 1 \in 1..t
    BY <1>4
  <2>2. First(n, e[n]) /\ First(n - 1, e[n - 1])
    BY <1>3, <2>1
  <2>3. PICK i \in 1..(e[n] - 1) : a[i] = n - 1
    BY <1>1, <1>4, <2>2, ZenonT(30) DEF InOrder
  <2>4. i \in 1..l /\ i < e[n]
    BY <2>2, <2>3
  <2>5. e[n - 1] <= i
    BY <2>2, <2>3, <2>4
  <2>6. QED
    BY <2>2, <2>4, <2>5
<1>5. \A n \in 1..t : e[n] \in 1..l /\ a[e[n]] = n
  BY <1>3
<1> DEFINE U == {d \in 0..t : \A i, j \in 1..t : i < j /\ j - i <= d => e[i] < e[j]}
<1>6. 0 \in U
  OBVIOUS
<1>7. ASSUME NEW d \in 0..(t - 1), d \in U
      PROVE  d + 1 \in U
  <2> SUFFICES ASSUME NEW i \in 1..t, NEW j \in 1..t, i < j, j - i <= d + 1
               PROVE  e[i] < e[j]
    OBVIOUS
  <2>1. j # 1 /\ j - 1 \in 1..t /\ e[j - 1] < e[j]
    BY <1>4
  <2>2. CASE i = j - 1
    BY <2>1, <2>2
  <2>3. CASE i # j - 1
    <3>1. i < j - 1 /\ (j - 1) - i <= d
      BY <2>3
    <3>2. e[i] < e[j - 1]
      BY <1>7, <2>1, <3>1
    <3>3. QED
      BY <1>5, <2>1, <3>2
  <2>4. QED
    BY <2>2, <2>3
<1>8. 0..t \subseteq U
  <2> HIDE DEF U
  <2>1. QED
    BY <1>6, <1>7, B!Induction
<1>9. \A i, j \in 1..t : i < j => e[i] < e[j]
  BY <1>8
<1>10. e \in [1..t -> 1..l]
  BY <1>5 DEF e
<1>11. Places(e, t, l)
  BY <1>9, <1>10 DEF Places
<1>12. QED
  BY <1>1, <1>5, <1>11

\* If none is there twice, the list has just them.
LEMMA OnceInOrder ==
  ASSUME NEW t \in Nat, NEW a, InOrder(a, t), Distinct(a, Len(a))
  PROVE  Len(a) = t /\ \A i \in 1..t : a[i] = i
<1>1. PICK l \in Nat : l = Len(a)
  BY LenProperties DEF InOrder
<1>2. /\ \A j \in 1..l : a[j] \in 1..t
      /\ \A i, j \in 1..l : a[i] = a[j] => i = j
  BY <1>1, ElementOfSeq DEF InOrder, Distinct
<1> DEFINE T == {k \in 0..l : \A i \in 1..k : a[i] = i}
<1>3. 0 \in T
  OBVIOUS
<1>4. ASSUME NEW k \in 0..(l - 1), k \in T
      PROVE  k + 1 \in T
  <2>1. k + 1 \in 1..l /\ a[k + 1] \in 1..t
    BY <1>2
  <2>2. \A i \in 1..k : a[i] = i /\ a[i] # a[k + 1]
    BY <1>2, <1>4, <2>1
  <2>3. CASE a[k + 1] = 1
    <3>1. 1 \notin 1..k
      BY <2>2, <2>3
    <3>2. k = 0
      BY <3>1
    <3>3. QED
      BY <2>1, <2>3, <3>2
  <2>4. CASE a[k + 1] # 1
    <3>1. PICK i \in 1..((k + 1) - 1) : a[i] = a[k + 1] - 1
      BY <1>1, <2>1, <2>4 DEF InOrder
    <3>2. i \in 1..k /\ i = a[k + 1] - 1
      BY <2>2, <3>1
    <3>3. a[k + 1] \notin 1..k
      BY <2>2
    <3>4. a[k + 1] = k + 1
      BY <2>1, <3>2, <3>3
    <3>5. \A j \in 1..(k + 1) : j \in 1..k \/ j = k + 1
      OBVIOUS
    <3>6. QED
      BY <2>1, <2>2, <3>4, <3>5
  <2>5. QED
    BY <2>3, <2>4
<1>5. 0..l \subseteq T
  <2> HIDE DEF T
  <2>1. QED
    BY <1>3, <1>4, B!Induction
<1>6. \A i \in 1..l : a[i] = i
  <2>1. l \in T
    <3> HIDE DEF T
    <3>1. QED
      BY <1>5
  <2>2. QED
    BY <2>1
<1>7. l <= t
  <2>1. CASE l = 0
    BY <2>1
  <2>2. CASE l # 0
    <3>1. l \in 1..l
      BY <2>2
    <3>2. QED
      BY <1>2, <1>6, <3>1
  <2>3. QED
    BY <2>1, <2>2
<1>8. t <= l
  <2>1. CASE t = 0
    BY <2>1
  <2>2. CASE t # 0
    <3>1. t \in 1..t
      BY <2>2
    <3>2. PICK j \in 1..l : a[j] = t
      BY <1>1, <3>1 DEF InOrder
    <3>3. QED
      BY <1>6, <3>2
  <2>3. QED
    BY <2>1, <2>2
<1>9. QED
  BY <1>1, <1>6, <1>7, <1>8

-----------------------------------------------------------------------------
(* What is not in the file yet. *)

\* u has, in their order, the numbers after g, up to g + l, that are not in D.
Rests(u, g, l, D) ==
  /\ u \in Seq((g + 1)..(g + l))
  /\ \A i \in 1..Len(u) : u[i] \notin D
  /\ \A i, j \in 1..Len(u) : i < j => u[i] < u[j]
  /\ \A n \in (g + 1)..(g + l) : n \notin D => \E i \in 1..Len(u) : u[i] = n

LEMMA RestsNone ==
  ASSUME NEW g \in Nat, NEW D
  PROVE  Rests(<< >>, g, 0, D)
<1>1. Len(<< >>) = 0 /\ << >> \in Seq((g + 1)..(g + 0))
  BY EmptySeq
<1>2. \A n \in (g + 1)..(g + 0) : FALSE
  OBVIOUS
<1>3. QED
  BY <1>1, <1>2 DEF Rests

LEMMA RestsMore ==
  ASSUME NEW g \in Nat, NEW k \in Nat, NEW D, NEW u, Rests(u, g, k, D)
  PROVE  LET n == g + k + 1 IN
         Rests(IF n \in D THEN u ELSE Append(u, n), g, k + 1, D)
<1> DEFINE n == g + k + 1
<1>1. PICK m \in Nat : m = Len(u)
  BY LenProperties DEF Rests
<1>2. /\ u \in Seq((g + 1)..(g + k))
      /\ \A i \in 1..m : u[i] \in (g + 1)..(g + k) /\ u[i] \notin D
      /\ \A i, j \in 1..m : i < j => u[i] < u[j]
  BY <1>1, ElementOfSeq DEF Rests
<1>3. \A x \in (g + 1)..(g + (k + 1)) : x \in (g + 1)..(g + k) \/ x = n
  OBVIOUS
<1>4. u \in Seq((g + 1)..(g + (k + 1)))
  <2>1. \A i \in 1..m : u[i] \in (g + 1)..(g + (k + 1))
    BY <1>2
  <2>2. u = [i \in 1..m |-> u[i]]
    BY <1>1, <1>2
  <2>3. QED
    BY <2>1, <2>2, SeqDef
<1>5. CASE n \in D
  <2>1. \A x \in (g + 1)..(g + (k + 1)) : x \notin D => \E i \in 1..m : u[i] = x
    BY <1>1, <1>3, <1>5 DEF Rests
  <2>2. Rests(u, g, k + 1, D)
    BY <1>1, <1>2, <1>4, <2>1 DEF Rests
  <2>3. QED
    BY <1>5, <2>2
<1>6. CASE n \notin D
  <2> DEFINE v == Append(u, n)
  <2>1. n \in (g + 1)..(g + (k + 1))
    OBVIOUS
  <2>2. /\ v \in Seq((g + 1)..(g + (k + 1))) /\ Len(v) = m + 1 /\ v[m + 1] = n
        /\ \A i \in 1..m : v[i] = u[i]
    <3> HIDE DEF n
    <3>1. QED
      BY <1>1, <1>4, <2>1, AppendProperties
  <2> HIDE DEF v
  <2>3. \A i \in 1..(m + 1) : i \in 1..m \/ i = m + 1
    OBVIOUS
  <2>4. \A i \in 1..(m + 1) : v[i] \notin D
    BY <1>2, <1>6, <2>2, <2>3
  <2>5. \A i, j \in 1..(m + 1) : i < j => v[i] < v[j]
    <3> SUFFICES ASSUME NEW i \in 1..(m + 1), NEW j \in 1..(m + 1), i < j
                 PROVE  v[i] < v[j]
      OBVIOUS
    <3>1. i \in 1..m /\ v[i] = u[i]
      BY <2>2
    <3>2. CASE j = m + 1
      BY <1>2, <2>2, <3>1, <3>2
    <3>3. CASE j # m + 1
      BY <1>2, <2>2, <3>1, <3>3
    <3>4. QED
      BY <3>2, <3>3
  <2>6. ASSUME NEW x \in (g + 1)..(g + (k + 1)), x \notin D
        PROVE  \E i \in 1..(m + 1) : v[i] = x
    <3>1. CASE x = n
      BY <2>2, <3>1
    <3>2. CASE x # n
      <4>1. PICK i \in 1..m : u[i] = x
        BY <1>1, <1>3, <2>6, <3>2 DEF Rests
      <4>2. i \in 1..(m + 1) /\ v[i] = x
        BY <2>2, <4>1
      <4>3. QED
        BY <4>2
    <3>3. QED
      BY <3>1, <3>2
  <2>7. Rests(v, g, k + 1, D)
    BY <2>2, <2>4, <2>5, <2>6 DEF Rests
  <2>8. QED
    BY <1>6, <2>7 DEF v
<1>7. QED
  BY <1>5, <1>6

\* Unsaved finds them, in a list of consecutive numbers.
LEMMA UnsavedRests ==
  ASSUME NEW P, NEW g \in Nat, NEW l \in Nat, Len(P) = l,
         \A i \in 1..l : P[i] = g + i
  PROVE  Rests(Unsaved(P), g, l, {n \in Nat : S!Saved(Page, n)})
<1> DEFINE D == {n \in Nat : S!Saved(Page, n)}
           Step(i, u) == IF P[i] \in D THEN u ELSE Append(u, P[i])
           F(f) == [i \in 0..l |-> IF i = 0 THEN << >>
                                   ELSE IF S!Saved(Page, P[i]) THEN f[i - 1]
                                   ELSE Append(f[i - 1], P[i])]
           left == CHOOSE f : f = F(f)
           step == [i \in 1..l |-> [u \in Seq(Nat) |-> Step(i, u)]]
<1>1. Unsaved(P) = left[l]
  BY DEF Unsaved
<1>2. \A i \in 1..l : P[i] \in Nat /\ (P[i] \in D <=> S!Saved(Page, P[i]))
  OBVIOUS
<1>3. \A i \in 1..l : \A u \in Seq(Nat) : Step(i, u) \in Seq(Nat)
  <2> HIDE DEF D
  <2>1. QED
    BY <1>2, AppendProperties
<1> HIDE DEF D
<1>4. PICK f : B!Follows(f, l, Seq(Nat), << >>, step)
  <2>1. << >> \in Seq(Nat)
    BY EmptySeq
  <2> HIDE DEF Step
  <2>2. B!Course(l, Seq(Nat), << >>, step)
    BY <1>3, <2>1 DEF B!Course
  <2> HIDE DEF step
  <2>3. QED
    BY <2>2, B!SequenceRecursion
<1>5. f \in [0..l -> Seq(Nat)] /\ f[0] = << >>
  BY <1>4 DEF B!Follows
<1>6. \A i \in 1..l : f[i] = Step(i, f[i - 1])
  <2> HIDE DEF Step
  <2>1. \A i \in 1..l : f[i] = step[i][f[i - 1]]
    <3> HIDE DEF step
    <3>1. QED
      BY <1>4 DEF B!Follows
  <2>2. \A i \in 1..l : f[i - 1] \in Seq(Nat)
    BY <1>5
  <2>3. QED
    BY <2>1, <2>2
<1> HIDE DEF step
<1>7. f = F(f)
  <2>1. \A i \in 0..l : i = 0 \/ i \in 1..l
    OBVIOUS
  <2>2. \A i \in 0..l : f[i] = IF i = 0 THEN << >>
                               ELSE IF S!Saved(Page, P[i]) THEN f[i - 1]
                               ELSE Append(f[i - 1], P[i])
    BY <1>2, <1>5, <1>6, <2>1
  <2>3. QED
    BY <1>5, <2>2
<1>8. left = F(left)
  <2> HIDE DEF F
  <2>1. QED
    BY <1>7
<1> HIDE DEF left
<1>9. /\ left[0] = << >>
      /\ \A i \in 1..l : left[i] = Step(i, left[i - 1])
  <2>1. left[0] = << >>
    BY <1>8
  <2>2. \A i \in 1..l : left[i] = IF S!Saved(Page, P[i]) THEN left[i - 1]
                                  ELSE Append(left[i - 1], P[i])
    <3> SUFFICES ASSUME NEW i \in 1..l
                 PROVE  left[i] = IF S!Saved(Page, P[i]) THEN left[i - 1]
                                  ELSE Append(left[i - 1], P[i])
      OBVIOUS
    <3>1. left[i] = F(left)[i]
      BY <1>8
    <3>2. i \in 0..l /\ i # 0
      OBVIOUS
    <3>3. QED
      BY <3>1, <3>2
  <2> HIDE DEF F
  <2>3. QED
    BY <1>2, <2>1, <2>2
<1> HIDE DEF F
<1> DEFINE T == {k \in 0..l : Rests(left[k], g, k, D)}
<1>10. 0 \in T
  BY <1>9, RestsNone
<1>11. ASSUME NEW k \in 0..(l - 1), k \in T
       PROVE  k + 1 \in T
  <2>1. k + 1 \in 1..l /\ (k + 1) - 1 = k /\ k \in Nat /\ P[k + 1] = g + k + 1
    OBVIOUS
  <2>2. left[k + 1] = IF g + k + 1 \in D THEN left[k] ELSE Append(left[k], g + k + 1)
    BY <1>9, <2>1
  <2>3. Rests(left[k], g, k, D)
    BY <1>11
  <2>4. Rests(left[k + 1], g, k + 1, D)
    BY <2>1, <2>2, <2>3, RestsMore
  <2>5. QED
    BY <2>1, <2>4
<1>12. 0..l \subseteq T
  <2> HIDE DEF T
  <2>1. \A k \in 0..(l - 1) : k \in T => k + 1 \in T
    BY <1>11
  <2>2. 2 \in Nat \ {0} /\ 2 % 2 = 0 /\ 2 <= 2
    OBVIOUS
  <2>3. QED
    BY <1>10, <2>1, <2>2, B!Induction
<1>13. Rests(left[l], g, l, D)
  BY <1>12
<1>14. QED
  BY <1>1, <1>13 DEF D

LEMMA Joined ==
  ASSUME NEW Elem, NEW a \in Seq(Elem), NEW b \in Seq(Elem)
  PROVE  LET all == a \o b IN
         /\ all \in Seq(Elem) /\ Len(all) = Len(a) + Len(b)
         /\ \A i \in 1..(Len(a) + Len(b)) :
              all[i] = IF i <= Len(a) THEN a[i] ELSE b[i - Len(a)]
BY ConcatProperties

\* The file has the numbers in D, the first g among them, and none of them
\* before the one that precedes it.
FileHas(file, m, t, g, D) ==
  /\ file \in [1..m -> 1..t]
  /\ \A j \in 1..m : file[j] # 1 => \E i \in 1..(j - 1) : file[i] = file[j] - 1
  /\ \A n \in 1..t : n \in D <=> \E i \in 1..m : file[i] = n
  /\ 1..g \subseteq D

\* A file in which changes are in order, and what is not in it yet.
LEMMA JoinedInOrder ==
  ASSUME NEW g \in Nat, NEW l \in Nat, NEW m \in Nat, NEW D, NEW u, NEW file,
         FileHas(file, m, g + l, g, D), Rests(u, g, l, D)
  PROVE  /\ InOrder(file \o u, g + l)
         /\ Distinct(file, m) => Distinct(file \o u, Len(file \o u))
<1> DEFINE t == g + l
           all == file \o u
<1>1. PICK k \in Nat : k = Len(u)
  BY LenProperties DEF Rests
<1>2. t \in Nat
  OBVIOUS
<1>3. /\ u \in Seq(1..t)
      /\ \A i \in 1..k : u[i] \in (g + 1)..t /\ u[i] \notin D
      /\ \A i, j \in 1..k : i < j => u[i] < u[j]
  <2>1. u \in Seq((g + 1)..t)
    BY DEF Rests
  <2>2. \A i \in 1..k : u[i] \in (g + 1)..t
    <3> HIDE DEF t
    <3>1. QED
      BY <1>1, <2>1, ElementOfSeq
  <2>3. \A i \in 1..k : u[i] \in 1..t
    BY <2>2
  <2>4. u = [i \in 1..k |-> u[i]]
    BY <1>1, <2>1
  <2>5. u \in Seq(1..t)
    BY <2>3, <2>4, SeqDef
  <2>6. QED
    BY <1>1, <2>2, <2>5 DEF Rests
<1>4. file \in Seq(1..t) /\ Len(file) = m
  BY SeqDef, LenProperties DEF FileHas
<1>5. \A n \in (g + 1)..t : n \notin D => \E i \in 1..k : u[i] = n
  BY <1>1 DEF Rests
<1> HIDE DEF t
<1>6. /\ all \in Seq(1..t) /\ Len(all) = m + k
      /\ \A i \in 1..m : all[i] = file[i]
      /\ \A i \in (m + 1)..(m + k) : all[i] = u[i - m]
  <2>1. /\ all \in Seq(1..t) /\ Len(all) = m + k
        /\ \A i \in 1..(m + k) : all[i] = IF i <= m THEN file[i] ELSE u[i - m]
    <3>1. /\ all \in Seq(1..t) /\ Len(all) = Len(file) + Len(u)
          /\ \A i \in 1..(Len(file) + Len(u)) :
               all[i] = IF i <= Len(file) THEN file[i] ELSE u[i - Len(file)]
      <4>1. file \in Seq(1..t) /\ u \in Seq(1..t)
        BY <1>3, <1>4
      <4>2. QED
        BY <4>1, Joined, Zenon
    <3> HIDE DEF all
    <3>2. QED
      BY <1>1, <1>4, <3>1
  <2> HIDE DEF all
  <2>2. \A i \in 1..m : i \in 1..(m + k) /\ i <= m
    OBVIOUS
  <2>3. \A i \in (m + 1)..(m + k) : i \in 1..(m + k) /\ ~(i <= m)
    OBVIOUS
  <2>4. QED
    BY <2>1, <2>2, <2>3
<1> HIDE DEF all
<1>7. ASSUME NEW n \in 1..t
      PROVE  n \in D \/ \E i \in 1..k : u[i] = n
  <2>1. CASE n <= g
    BY <2>1 DEF FileHas
  <2>2. CASE ~(n <= g)
    <3>1. n \in (g + 1)..t
      BY <2>2
    <3>2. QED
      BY <1>5, <3>1
  <2>3. QED
    BY <2>1, <2>2
<1>8. ASSUME NEW n \in 1..t
      PROVE  n \in D => \E i \in 1..m : all[i] = n
  BY <1>6 DEF t, FileHas
<1>9. ASSUME NEW n \in 1..t
      PROVE  \E j \in 1..(m + k) : all[j] = n
  <2>1. CASE n \in D
    <3>1. PICK i \in 1..m : all[i] = n
      BY <1>8, <2>1
    <3>2. i \in 1..(m + k)
      BY <3>1
    <3>3. QED
      BY <3>1, <3>2
  <2>2. CASE n \notin D
    <3>1. PICK i \in 1..k : u[i] = n
      BY <1>7, <2>2
    <3>2. m + i \in (m + 1)..(m + k) /\ m + i \in 1..(m + k) /\ (m + i) - m = i
      OBVIOUS
    <3>3. all[m + i] = n
      BY <1>6, <3>1, <3>2
    <3>4. QED
      BY <3>2, <3>3
  <2>3. QED
    BY <2>1, <2>2
<1>10. ASSUME NEW j \in 1..(m + k), all[j] # 1
       PROVE  \E i \in 1..(j - 1) : all[i] = all[j] - 1
  <2>1. CASE j \in 1..m
    <3>1. PICK i \in 1..(j - 1) : file[i] = file[j] - 1
      BY <1>6, <1>10, <2>1 DEF FileHas
    <3>2. i \in 1..m
      BY <2>1
    <3>3. QED
      BY <1>6, <2>1, <3>1, <3>2
  <2>2. CASE j \notin 1..m
    <3>1. PICK h \in 1..k : h = j - m
      BY <2>2
    <3>2. all[j] = u[h] /\ u[h] \in (g + 1)..t
      BY <1>3, <1>6, <2>2, <3>1
    <3>3. PICK n \in 1..t : n = u[h] - 1
      BY <1>2, <1>10, <3>2
    <3>4. CASE n \in D
      <4>1. PICK i \in 1..m : all[i] = n
        BY <1>8, <3>4
      <4>2. i \in 1..(j - 1)
        BY <2>2
      <4>3. QED
        BY <3>2, <3>3, <4>1, <4>2
    <3>5. CASE n \notin D
      <4>1. PICK i \in 1..k : u[i] = n
        BY <1>7, <3>5
      <4>2. i < h
        <5>1. ~(h < i) /\ h # i
          BY <1>3, <3>2, <3>3, <4>1, SMTT(30)
        <5>2. QED
          BY <5>1
      <4>3. m + i \in (m + 1)..(m + k) /\ m + i \in 1..(j - 1) /\ (m + i) - m = i
        BY <3>1, <4>2
      <4>4. all[m + i] = n
        BY <1>6, <4>1, <4>3
      <4>5. QED
        BY <3>2, <3>3, <4>3, <4>4
    <3>6. QED
      BY <3>4, <3>5
  <2>3. QED
    BY <2>1, <2>2
<1>11. InOrder(all, t)
  BY <1>6, <1>9, <1>10 DEF InOrder
<1>12. ASSUME \A i, j \in 1..m : file[i] = file[j] => i = j,
              NEW i \in 1..(m + k), NEW j \in 1..(m + k), i < j, all[i] = all[j]
       PROVE  FALSE
  <2>1. CASE j \in 1..m
    BY <1>6, <1>12, <2>1
  <2>2. CASE j \notin 1..m
    <3>1. PICK h \in 1..k : h = j - m
      BY <2>2
    <3>2. all[j] = u[h] /\ u[h] \in (g + 1)..t /\ u[h] \notin D
      BY <1>3, <1>6, <2>2, <3>1
    <3>3. CASE i \in 1..m
      <4>1. file[i] = u[h]
        BY <1>6, <1>12, <3>2, <3>3
      <4>2. u[h] \in 1..(g + l)
        BY <3>2 DEF t
      <4>3. QED
        BY <3>2, <3>3, <4>1, <4>2 DEF FileHas
    <3>4. CASE i \notin 1..m
      <4>1. PICK e \in 1..k : e = i - m
        BY <3>4
      <4>2. all[i] = u[e] /\ e < h
        BY <1>6, <1>12, <3>1, <3>4, <4>1
      <4>3. u[e] < u[h] /\ u[e] \in Int /\ u[h] \in Int
        BY <1>3, <4>2
      <4>4. QED
        BY <1>12, <3>2, <4>2, <4>3
    <3>5. QED
      BY <3>3, <3>4
  <2>3. QED
    BY <2>1, <2>2
<1>13. (\A i, j \in 1..m : file[i] = file[j] => i = j)
         => \A i, j \in 1..(m + k) : all[i] = all[j] => i = j
  <2> SUFFICES ASSUME \A i, j \in 1..m : file[i] = file[j] => i = j,
                      NEW i \in 1..(m + k), NEW j \in 1..(m + k),
                      all[i] = all[j], i # j
               PROVE  FALSE
    OBVIOUS
  <2>1. i < j \/ j < i
    OBVIOUS
  <2>2. QED
    BY <1>12, <2>1
<1>14. Distinct(file, m) => Distinct(all, Len(all))
  BY <1>6, <1>13 DEF Distinct
<1>15. QED
  BY <1>11, <1>14 DEF all, t

-----------------------------------------------------------------------------
(* The file, and then what is not in it yet, have all that was typed. *)

NoRepeats == \A i, j \in 1..Len(log) : i # j => log[i] # log[j]

LEMMA NumbersInOrder ==
  ASSUME SP!OInv, open[Page], cut = {}
  PROVE  /\ typed[Page] \in Nat
         /\ InOrder(Numbers, typed[Page])
         /\ NoRepeats => Distinct(Numbers, Len(Numbers))
<1> DEFINE P == S!Pending(Page)
           D == {n \in Nat : S!Saved(Page, n)}
           file == [i \in 1..Len(log) |-> log[i][2]]
<1>1. /\ SP!IInv /\ SP!TypeOK /\ SP!OrderKept /\ SP!LogIsTyped
      /\ Page \in {Page}
  BY DEF SP!OInv, SP!IInv
<1>2. log \in Seq({Page} \X (1..MaxChanges))
  BY <1>1 DEF SP!TypeOK
<1>3. PICK m \in Nat : m = Len(log)
  BY <1>2, LenProperties
<1>4. \A i \in 1..m : log[i] \in {Page} \X (1..MaxChanges)
  BY <1>2, <1>3, ElementOfSeq
<1>5. \A i \in 1..m : log[i] = <<Page, log[i][2]>> /\ log[i][1] = Page
                      /\ log[i][2] \in Nat /\ log[i][2] # 0
  BY <1>4
<1>6. PICK g \in Nat, l \in Nat : g = SP!Gone(Page) /\ l = Len(SP!Pending(Page))
  BY <1>1, SiteAssumption, SP!MemoryRun
<1>7. /\ typed[Page] = g + l
      /\ \A i \in 1..l : SP!Pending(Page)[i] = g + i
      /\ \A n \in 1..g : SP!Settled(Page, n)
  BY <1>1, <1>6, SiteAssumption, SP!MemoryRun
<1>8. SP!Pending(Page) = P
  BY DEF SP!Pending, S!Pending
<1>9. \A n \in Nat : n \in D <=> \E i \in 1..m : file[i] = n
  <2>1. \A n : S!Saved(Page, n) <=> \E i \in 1..m : log[i] = <<Page, n>>
    BY <1>3 DEF S!Saved
  <2>2. \A n : \A i \in 1..m : log[i] = <<Page, n>> <=> file[i] = n
    BY <1>3, <1>5
  <2> HIDE DEF file
  <2>3. QED
    BY <2>1, <2>2
<1>10. 1..g \subseteq D
  <2>1. \A n \in 1..g : SP!Saved(Page, n)
    BY <1>7 DEF SP!Settled
  <2>2. \A n : SP!Saved(Page, n) <=> S!Saved(Page, n)
    BY DEF SP!Saved, S!Saved
  <2>3. QED
    BY <2>1, <2>2
<1>11. file \in [1..m -> 1..(g + l)]
  <2>1. \A i \in 1..m : log[i][2] <= g + l
    BY <1>1, <1>3, <1>5, <1>7 DEF SP!LogIsTyped
  <2>2. \A i \in 1..m : log[i][2] \in 1..(g + l)
    BY <1>5, <2>1
  <2>3. QED
    BY <1>3, <2>2
<1>12. ASSUME NEW j \in 1..m, file[j] # 1
       PROVE  \E i \in 1..(j - 1) : file[i] = file[j] - 1
  <2>1. log[j][1] = Page /\ log[j][2] > 1 /\ file[j] = log[j][2]
    BY <1>3, <1>5, <1>12
  <2>2. PICK i \in 1..(j - 1) : log[i] = <<Page, log[j][2] - 1>>
    BY <1>1, <1>3, <2>1 DEF SP!OrderKept
  <2>3. i \in 1..m /\ log[i][2] = log[j][2] - 1
    BY <2>2
  <2>4. file[i] = file[j] - 1
    BY <1>3, <2>1, <2>3
  <2>5. QED
    BY <2>4
<1>13. NoRepeats => Distinct(file, m)
  <2> SUFFICES ASSUME NoRepeats, NEW i \in 1..m, NEW j \in 1..m,
                      file[i] = file[j]
               PROVE  i = j
    BY DEF Distinct
  <2>1. log[i] = log[j]
    BY <1>3, <1>5
  <2>2. QED
    BY <1>3, <2>1 DEF NoRepeats
<1> DEFINE u == Unsaved(P)
<1>14. Numbers = file \o u
  BY DEF Numbers
<1> HIDE DEF P
<1>15. Rests(u, g, l, D)
  BY <1>6, <1>7, <1>8, UnsavedRests
<1> HIDE DEF file, u, D
<1>16. /\ InOrder(file \o u, g + l)
       /\ Distinct(file, m) => Distinct(file \o u, Len(file \o u))
  <2>1. FileHas(file, m, g + l, g, D)
    BY <1>9, <1>10, <1>11, <1>12 DEF FileHas
  <2>2. QED
    BY <1>15, <2>1, JoinedInOrder
<1>17. typed[Page] \in Nat
  BY <1>7
<1>18. QED
  BY <1>7, <1>13, <1>14, <1>16, <1>17

-----------------------------------------------------------------------------
(* The page is an editor and a client of the server. *)

\* Every behaviour of the page is one of its editor and one of its transfers:
\* what is proved of each of them by itself holds of the page.
THEOREM PageIsBoth == Spec => E!Spec /\ S!Spec
<1>1. Init => E!Init /\ S!Init
  BY DEF Init
<1>2. ASSUME NEW text \in E!Texts, Input(text)
      PROVE  E!Next /\ S!Next
  BY <1>2 DEF Input, E!Next, S!Next
<1>3. ASSUME Edit
      PROVE  E!Next /\ UNCHANGED S!vars
  BY <1>3 DEF Edit, E!Next, transfer, S!vars, S!page, S!server
<1>4. ASSUME Carry
      PROVE  S!Next /\ UNCHANGED E!vars
  <2>1. S!Next
    BY <1>4 DEF Carry, S!Next
  <2>2. typed' = typed
    BY <1>4 DEF Carry, S!Tick, S!Answer, S!GiveUp, S!Close, S!Serve,
                S!ServeShortWrite, S!LoseRequest, S!Stop, S!ServeTooLong,
                S!ServeNoFile, S!ServeFeed, S!Write, S!page
  <2>3. UNCHANGED <<heap, view, current, steps, position, render, last>>
    BY <1>4 DEF Carry, editor
  <2>4. QED
    BY <2>1, <2>2, <2>3 DEF E!vars, E!editor
<1>5. ASSUME UNCHANGED vars
      PROVE  UNCHANGED E!vars /\ UNCHANGED S!vars
  BY <1>5 DEF vars, editor, transfer, E!vars, E!editor, S!vars, S!page, S!server
<1>6. [Next]_vars => [E!Next]_(E!vars) /\ [S!Next]_(S!vars)
  BY <1>2, <1>3, <1>4, <1>5 DEF Next
<1>7. QED
  BY <1>1, <1>6, PTL DEF Spec, E!Spec, S!Spec

-----------------------------------------------------------------------------
(* The invariant of both together. *)

TransferFixed == UNCHANGED <<transfer, made>>

\* Whatever is typed gets the next number.
Spelled ==
  /\ made \in Seq(EP!Changes)
  /\ Len(made) = typed[Page]
  /\ Len(heap) <= 1 => EP!DataOf(heap, 1) = made
  /\ \A c \in 1..Len(heap) : Woven(EP!DataOf(heap, c), made)

SiteInv == EP!EditorInv /\ EP!Alone /\ SP!OInv /\ Spelled

\* A step of the page is a step of the editor and one of the transfers.
LEMMA InputParts ==
  ASSUME NEW text \in E!Texts, Input(text)
  PROVE  /\ text \in EP!Texts /\ EP!Input(text) /\ SP!Type(Page)
         /\ made' = Append(made, EP!Diff(last, text))
<1>1. text \in EP!Texts
  BY DEF E!Texts, EP!Texts
<1>2. EP!Input(text)
  BY DEF Input, E!Input, E!Record, E!Branched, E!HistoryOf, E!Preceding,
         E!Parent, E!Branch, E!NewBranch, E!Max, E!Diff, E!Slice, E!Least,
         E!Change, E!Prefix, E!Suffix,
         EP!Input, EP!Record, EP!Branched, EP!HistoryOf, EP!Preceding,
         EP!Parent, EP!Branch, EP!NewBranch, EP!Max, EP!Diff, EP!Slice,
         EP!Least, EP!Change, EP!Prefix, EP!Suffix
<1>3. SP!Type(Page)
  BY DEF Input, S!Type, SP!Type, S!server, SP!server
<1>4. made' = Append(made, EP!Diff(last, text))
  BY DEF Input, Diff, Least, Change, Prefix, Suffix, Max,
         EP!Diff, EP!Least, EP!Change, EP!Prefix, EP!Suffix, EP!Max
<1>5. QED
  BY <1>1, <1>2, <1>3, <1>4

LEMMA EditParts ==
  ASSUME Edit
  PROVE  /\ \/ EP!Login \/ EP!Leave \/ EP!OpenGraph \/ EP!BranchButton
            \/ \E b \in 1..Len(heap) : EP!ClickVertex(b)
            \/ \E p \in 0..Len(steps) : EP!Slide(p)
         /\ TransferFixed
<1>1. TransferFixed
  BY DEF Edit, TransferFixed
<1>2. E!Login => EP!Login
  BY DEF E!Login, E!Enter, E!HistoryOf, E!Preceding, E!Parent, E!Branch,
         E!NewBranch, E!Max, E!Slice, E!Least,
         EP!Login, EP!Enter, EP!HistoryOf, EP!Preceding, EP!Parent, EP!Branch,
         EP!NewBranch, EP!Max, EP!Slice, EP!Least
<1>3. E!Leave => EP!Leave
  BY DEF E!Leave, EP!Leave
<1>4. E!OpenGraph => EP!OpenGraph
  BY DEF E!OpenGraph, EP!OpenGraph, E!editor, EP!editor
<1>5. E!BranchButton => EP!BranchButton
  BY DEF E!BranchButton, E!Branched, E!HistoryOf, E!Preceding, E!Parent,
         E!Branch, E!NewBranch, E!Max, E!Slice, E!Least,
         EP!BranchButton, EP!Branched, EP!HistoryOf, EP!Preceding, EP!Parent,
         EP!Branch, EP!NewBranch, EP!Max, EP!Slice, EP!Least
<1>6. ASSUME NEW b \in 1..Len(heap), E!ClickVertex(b)
      PROVE  EP!ClickVertex(b)
  BY <1>6 DEF E!ClickVertex, E!Enter, E!HistoryOf, E!Preceding, E!Parent,
         E!Branch, E!Max, E!Slice, E!Least,
         EP!ClickVertex, EP!Enter, EP!HistoryOf, EP!Preceding, EP!Parent,
         EP!Branch, EP!Max, EP!Slice, EP!Least
<1>7. ASSUME NEW p \in 0..Len(steps), E!Slide(p)
      PROVE  EP!Slide(p)
  BY <1>7 DEF E!Slide, E!Go, E!Redo, E!Undo, E!Left, E!From, E!Least,
         EP!Slide, EP!Go, EP!Redo, EP!Undo, EP!Left, EP!From, EP!Least
<1>8. QED
  BY <1>1, <1>2, <1>3, <1>4, <1>5, <1>6, <1>7 DEF Edit

LEMMA CarryParts ==
  ASSUME Carry
  PROVE  /\ SP!Next
         /\ UNCHANGED EP!vars
         /\ made' = made /\ typed' = typed /\ heap' = heap
<1>1. UNCHANGED <<heap, view, current, steps, position, render, last>>
      /\ made' = made
  BY DEF Carry, editor
<1>2. S!Tick(Page) => SP!Tick(Page) /\ typed' = typed
  BY DEF S!Tick, SP!Tick
<1>3. S!Answer(Page) => SP!Answer(Page) /\ typed' = typed
  BY DEF S!Answer, S!Requeue, S!Idle, SP!Answer, SP!Requeue, SP!Idle
<1>4. S!GiveUp(Page) => SP!GiveUp(Page) /\ typed' = typed
  BY DEF S!GiveUp, S!Fault, S!Abandon, S!Requeue, S!Idle,
         SP!GiveUp, SP!Fault, SP!Abandon, SP!Requeue, SP!Idle
<1>5. S!Close(Page) => SP!Close(Page) /\ typed' = typed
  BY DEF S!Close, S!Abandon, S!Idle, SP!Close, SP!Abandon, SP!Idle
<1>6. ASSUME NEW k \in Conns, S!Serve(k)
      PROVE  SP!Serve(k) /\ typed' = typed
  BY <1>6 DEF S!Serve, S!ServeTooLong, S!ServeNoFile, S!ServeFeed, S!Write,
         S!Reply, S!Awaited, S!Idle, S!Entries, S!page,
         SP!Serve, SP!ServeTooLong, SP!ServeNoFile, SP!ServeFeed, SP!Write,
         SP!Reply, SP!Awaited, SP!Idle, SP!Entries, SP!page
<1>7. ASSUME NEW k \in Conns, S!ServeShortWrite(k)
      PROVE  SP!ServeShortWrite(k) /\ typed' = typed
  BY <1>7 DEF S!ServeShortWrite, S!Fault, S!Write,
         S!Reply, S!Awaited, S!Idle, S!Entries, S!page,
         SP!ServeShortWrite, SP!Fault, SP!Write,
         SP!Reply, SP!Awaited, SP!Idle, SP!Entries, SP!page
<1>8. ASSUME NEW k \in Conns, S!LoseRequest(k)
      PROVE  SP!LoseRequest(k) /\ typed' = typed
  BY <1>8 DEF S!LoseRequest, S!Fault, S!Reply, S!Awaited, S!Idle, S!page,
         SP!LoseRequest, SP!Fault, SP!Reply, SP!Awaited, SP!Idle, SP!page
<1>9. S!Stop => SP!Stop /\ typed' = typed
  BY DEF S!Stop, S!Fault, S!Awaited, S!Idle, S!page,
         SP!Stop, SP!Fault, SP!Awaited, SP!Idle, SP!page
<1>10. SP!Next /\ typed' = typed
  BY <1>2, <1>3, <1>4, <1>5, <1>6, <1>7, <1>8, <1>9 DEF Carry, SP!Next
<1>11. QED
  BY <1>1, <1>10 DEF EP!vars, EP!editor

\* The numbers count what is typed.
LEMMA TypeCounts ==
  ASSUME SP!OInv, SP!Type(Page)
  PROVE  typed[Page] \in Nat /\ typed'[Page] = typed[Page] + 1
<1>1. typed \in [{Page} -> 0..MaxChanges]
  BY DEF SP!OInv, SP!IInv, SP!TypeOK
<1>2. typed' = [typed EXCEPT ![Page] = @ + 1]
  BY DEF SP!Type
<1>3. QED
  BY <1>1, <1>2

LEMMA SiteInvInit ==
  Init => SiteInv
<1> SUFFICES ASSUME Init
             PROVE  SiteInv
  OBVIOUS
<1>1. SP!Init
  BY DEF Init, S!Init, SP!Init, S!Idle, SP!Idle
<1>2. EP!Init
  BY DEF Init, E!Init, EP!Init
<1>3. heap = << >> /\ made = << >> /\ typed[Page] = 0
  BY DEF Init, E!Init
<1>4. Len(heap) = 0 /\ made \in Seq(EP!Changes) /\ Len(made) = 0
  BY <1>3, EmptySeq
<1>5. EP!DataOf(heap, 1) = made
  BY <1>3, <1>4 DEF EP!DataOf
<1>6. Spelled
  BY <1>3, <1>4, <1>5 DEF Spelled
<1>7. EP!EditorInv /\ EP!Alone
  BY <1>2, SiteAssumption, EP!EditorInvInit, EP!AloneInit
<1>8. SP!OInv
  BY <1>1, SiteAssumption, SP!OnceInit
<1>9. QED
  BY <1>6, <1>7, <1>8 DEF SiteInv

LEMMA DataTyped ==
  ASSUME EP!EditorInv, NEW c
  PROVE  EP!DataOf(heap, c) \in Seq(EP!Changes)
<1>1. heap \in Seq(EP!Branches)
  BY DEF EP!EditorInv, EP!TypeOK
<1>2. CASE c \in 1..Len(heap)
  <2>1. heap[c] \in EP!Branches
    BY <1>1, <1>2, ElementOfSeq
  <2>2. heap[c].data \in Seq(EP!Changes)
    BY <2>1 DEF EP!Branches
  <2>3. QED
    BY <1>2, <2>2 DEF EP!DataOf
<1>3. CASE c \notin 1..Len(heap)
  BY <1>3, EmptySeq DEF EP!DataOf
<1>4. QED
  BY <1>2, <1>3

\* What is typed goes at the end of all that was typed, and of one branch.
LEMMA SpelledInput ==
  ASSUME SiteInv, NEW text \in E!Texts, Input(text)
  PROVE  Spelled'
<1> DEFINE change == EP!Diff(last, text)
<1>1. /\ text \in EP!Texts /\ EP!Input(text) /\ SP!Type(Page)
      /\ made' = Append(made, change)
  BY InputParts
<1>2. /\ change \in EP!Changes
      /\ Len(heap') \in Nat /\ Len(heap) \in 1..Len(heap')
      /\ \E b \in 1..Len(heap') : \A c :
           EP!DataOf(heap', c) = IF c = b
                                 THEN Append(EP!DataOf(heap, c), change)
                                 ELSE EP!DataOf(heap, c)
  BY <1>1, SiteAssumption, EP!InputAdds DEF SiteInv
<1> HIDE DEF change
<1>3. PICK n \in Nat : n = Len(heap')
  BY <1>2
<1>4. PICK m \in 1..n : m = Len(heap)
  BY <1>2, <1>3
<1>5. PICK b \in 1..n : \A c :
        EP!DataOf(heap', c) = IF c = b
                              THEN Append(EP!DataOf(heap, c), change)
                              ELSE EP!DataOf(heap, c)
  BY <1>2, <1>3
<1>6. /\ made \in Seq(EP!Changes) /\ Len(made) = typed[Page]
      /\ Len(heap) <= 1 => EP!DataOf(heap, 1) = made
      /\ \A c \in 1..m : Woven(EP!DataOf(heap, c), made)
  BY <1>4 DEF SiteInv, Spelled
<1>7. made' \in Seq(EP!Changes) /\ Len(made') = Len(made) + 1
  BY <1>1, <1>2, <1>6, AppendProperties
<1>8. Len(made') = typed'[Page]
  BY <1>1, <1>6, <1>7, TypeCounts DEF SiteInv
<1>9. Len(heap') <= 1 => EP!DataOf(heap', 1) = made'
  <2> SUFFICES ASSUME n <= 1
               PROVE  EP!DataOf(heap', 1) = made'
    BY <1>3
  <2>1. b = 1 /\ m <= 1
    OBVIOUS
  <2>2. EP!DataOf(heap', 1) = Append(EP!DataOf(heap, 1), change)
    BY <1>5, <2>1
  <2>3. EP!DataOf(heap, 1) = made
    BY <1>4, <1>6, <2>1
  <2>4. QED
    BY <1>1, <2>2, <2>3
<1>10. ASSUME NEW c \in 1..n
       PROVE  Woven(EP!DataOf(heap', c), made')
  <2>1. EP!DataOf(heap, c) \in Seq(EP!Changes)
    BY DataTyped DEF SiteInv
  <2>2. Woven(EP!DataOf(heap, c), made)
    <3>1. CASE c \in 1..m
      BY <1>6, <3>1
    <3>2. CASE c \notin 1..m
      <4>1. EP!DataOf(heap, c) = << >>
        BY <1>4, <3>2 DEF EP!DataOf
      <4>2. QED
        BY <4>1, NothingWoven
    <3>3. QED
      BY <3>1, <3>2
  <2>3. Woven(EP!DataOf(heap, c), Append(made, change))
    BY <1>2, <1>6, <2>1, <2>2, WovenInLonger
  <2>4. Woven(Append(EP!DataOf(heap, c), change), Append(made, change))
    BY <1>2, <1>6, <2>1, <2>2, WovenWithBoth
  <2>5. QED
    BY <1>1, <1>5, <2>3, <2>4
<1>11. QED
  BY <1>3, <1>7, <1>8, <1>9, <1>10 DEF Spelled

\* Nothing else adds to a branch.
LEMMA SpelledSame ==
  ASSUME SiteInv, made' = made, typed' = typed,
         Len(heap') \in Nat, Len(heap) \in 0..Len(heap'),
         \A c : EP!DataOf(heap', c) = EP!DataOf(heap, c)
  PROVE  Spelled'
<1>1. PICK n \in Nat : n = Len(heap')
  OBVIOUS
<1>2. PICK m \in 0..n : m = Len(heap)
  BY <1>1
<1>3. /\ made \in Seq(EP!Changes) /\ Len(made) = typed[Page]
      /\ m <= 1 => EP!DataOf(heap, 1) = made
      /\ \A c \in 1..m : Woven(EP!DataOf(heap, c), made)
  BY <1>2 DEF SiteInv, Spelled
<1>4. ASSUME NEW c \in 1..n
      PROVE  Woven(EP!DataOf(heap', c), made')
  <2>1. CASE c \in 1..m
    BY <1>3, <2>1
  <2>2. CASE c \notin 1..m
    <3>1. EP!DataOf(heap', c) = << >>
      BY <1>2, <2>2 DEF EP!DataOf
    <3>2. QED
      BY <3>1, NothingWoven
  <2>3. QED
    BY <2>1, <2>2
<1>5. n <= 1 => EP!DataOf(heap', 1) = made'
  BY <1>3
<1>6. made' \in Seq(EP!Changes) /\ Len(made') = typed'[Page]
  BY <1>3
<1>7. QED
  BY <1>1, <1>4, <1>5, <1>6 DEF Spelled

\* The parts of the invariant that are about one of the two alone.
LEMMA PartsStay ==
  ASSUME SiteInv, [EP!Next]_(EP!vars), [SP!Next]_(SP!vars)
  PROVE  EP!EditorInv' /\ EP!Alone' /\ SP!OInv'
<1>1. EP!EditorInv /\ EP!Alone /\ SP!OInv
  BY DEF SiteInv
<1>2. EP!EditorInv'
  BY <1>1, SiteAssumption, EP!EditorInvNext
<1>3. EP!Alone'
  BY <1>1, SiteAssumption, EP!AloneNext
<1>4. SP!OInv'
  BY <1>1, SiteAssumption, SP!OnceStep
<1>5. QED
  BY <1>2, <1>3, <1>4

LEMMA SiteInvNext ==
  SiteInv /\ [Next]_vars => SiteInv'
<1> SUFFICES ASSUME SiteInv, [Next]_vars
             PROVE  SiteInv'
  OBVIOUS
<1>1. ASSUME NEW text \in E!Texts, Input(text)
      PROVE  [EP!Next]_(EP!vars) /\ [SP!Next]_(SP!vars) /\ Spelled'
  <2>1. text \in EP!Texts /\ EP!Input(text) /\ SP!Type(Page)
    BY <1>1, InputParts
  <2>2. Spelled'
    BY <1>1, SpelledInput
  <2>3. QED
    BY <2>1, <2>2 DEF EP!Next, SP!Next
<1>2. ASSUME Edit
      PROVE  [EP!Next]_(EP!vars) /\ [SP!Next]_(SP!vars) /\ Spelled'
  <2>1. /\ \/ EP!Login \/ EP!Leave \/ EP!OpenGraph \/ EP!BranchButton
           \/ \E b \in 1..Len(heap) : EP!ClickVertex(b)
           \/ \E p \in 0..Len(steps) : EP!Slide(p)
        /\ TransferFixed
    BY <1>2, EditParts
  <2>2. EP!Next
    BY <2>1 DEF EP!Next
  <2>3. UNCHANGED SP!vars /\ made' = made /\ typed' = typed
    BY <2>1 DEF TransferFixed, transfer, SP!vars, SP!page, SP!server
  <2>4. /\ Len(heap') \in Nat /\ Len(heap) \in 0..Len(heap')
        /\ \A c : EP!DataOf(heap', c) = EP!DataOf(heap, c)
    BY <2>1, SiteAssumption, EP!OthersAddNothing DEF SiteInv
  <2>5. Spelled'
    BY <2>3, <2>4, SpelledSame
  <2>6. QED
    BY <2>2, <2>3, <2>5
<1>3. ASSUME Carry
      PROVE  [EP!Next]_(EP!vars) /\ [SP!Next]_(SP!vars) /\ Spelled'
  <2>1. /\ SP!Next
        /\ UNCHANGED EP!vars
        /\ made' = made /\ typed' = typed /\ heap' = heap
    BY <1>3, CarryParts
  <2>2. /\ Len(heap') \in Nat /\ Len(heap) \in 0..Len(heap')
        /\ \A c : EP!DataOf(heap', c) = EP!DataOf(heap, c)
    BY <2>1, SiteAssumption, EP!OthersAddNothing DEF SiteInv
  <2>3. Spelled'
    BY <2>1, <2>2, SpelledSame
  <2>4. QED
    BY <2>1, <2>3
<1>4. ASSUME UNCHANGED vars
      PROVE  [EP!Next]_(EP!vars) /\ [SP!Next]_(SP!vars) /\ Spelled'
  <2>1. /\ UNCHANGED EP!vars /\ UNCHANGED SP!vars
        /\ made' = made /\ typed' = typed /\ heap' = heap
    BY <1>4 DEF vars, editor, transfer, EP!vars, EP!editor,
                SP!vars, SP!page, SP!server
  <2>2. /\ Len(heap') \in Nat /\ Len(heap) \in 0..Len(heap')
        /\ \A c : EP!DataOf(heap', c) = EP!DataOf(heap, c)
    BY <2>1, SiteAssumption, EP!OthersAddNothing DEF SiteInv
  <2>3. Spelled'
    BY <2>1, <2>2, SpelledSame
  <2>4. QED
    BY <2>1, <2>3
<1>5. [EP!Next]_(EP!vars) /\ [SP!Next]_(SP!vars) /\ Spelled'
  BY <1>1, <1>2, <1>3, <1>4 DEF Next
<1>6. EP!EditorInv' /\ EP!Alone' /\ SP!OInv'
  BY <1>5, PartsStay
<1>7. QED
  BY <1>5, <1>6 DEF SiteInv

LEMMA SiteInvStays ==
  Spec => []SiteInv
BY SiteInvInit, SiteInvNext, PTL DEF Spec

-----------------------------------------------------------------------------
(* What the file tells. *)

\* Where nothing is there twice, the file and what is to come are all that
\* was typed.
LEMMA ToldIsMade ==
  ASSUME SiteInv, open[Page], cut = {}, NoRepeats
  PROVE  Told = made
<1>1. /\ typed[Page] \in Nat
      /\ InOrder(Numbers, typed[Page])
      /\ Distinct(Numbers, Len(Numbers))
  BY NumbersInOrder DEF SiteInv
<1>2. /\ Len(Numbers) = typed[Page]
      /\ \A i \in 1..typed[Page] : Numbers[i] = i
  BY <1>1, OnceInOrder
<1>3. made \in Seq(EP!Changes) /\ Len(made) = typed[Page]
  BY DEF SiteInv, Spelled
<1>4. made = [i \in 1..typed[Page] |-> made[i]]
  BY <1>3, LenProperties
<1>5. Told = [i \in 1..typed[Page] |-> made[Numbers[i]]]
  BY <1>2 DEF Told
<1>6. QED
  BY <1>2, <1>4, <1>5

\* And whatever is there twice, all that was typed is there in its order.
LEMMA MadeInTold ==
  ASSUME SiteInv, open[Page], cut = {}
  PROVE  Woven(made, Told) /\ Len(made) \in Nat /\ Len(Told) \in Nat
<1>1. typed[Page] \in Nat /\ InOrder(Numbers, typed[Page])
  BY NumbersInOrder DEF SiteInv
<1>2. PICK t \in Nat : t = typed[Page]
  BY <1>1
<1>3. Len(made) = t
  BY <1>2 DEF SiteInv, Spelled
<1>4. PICK l \in Nat : l = Len(Numbers)
  BY <1>1, LenProperties DEF InOrder
<1>5. PICK e : Places(e, t, l) /\ \A n \in 1..t : Numbers[e[n]] = n
  BY <1>1, <1>2, <1>4, FirstTimes
<1>6. Len(Told) = l /\ \A i \in 1..l : Told[i] = made[Numbers[i]]
  BY <1>4 DEF Told
<1>7. \A n \in 1..t : made[n] = Told[e[n]]
  BY <1>5, <1>6 DEF Places
<1>8. Woven(made, Told)
  BY <1>3, <1>5, <1>6, <1>7 DEF Woven
<1>9. QED
  BY <1>3, <1>6, <1>8

\* With one branch, no short write() and no change in the file twice, the file
\* and what is on its way to it are the history the page shows, and replaying
\* them gives the text at its end (oninput, synch, feed).
THEOREM FileTells == Spec => []FileTellsText
<1>1. SiteInv => FileTellsText
  <2> SUFFICES ASSUME SiteInv, open[Page], view = "editor", Len(heap) = 1,
                      cut = {}, NoRepeats
               PROVE  /\ Told = steps
                      /\ position = Len(steps) => Replay(Told, Len(Told)) = last
    BY DEF FileTellsText, NoRepeats
  <2>1. Told = made
    BY ToldIsMade
  <2>2. /\ EP!Grown(heap) /\ current = 1
        /\ steps = EP!HistoryOf(heap, current)
    BY DEF SiteInv, EP!EditorInv, EP!TypeOK, EP!HistoryInView
  <2>3. 1 \in 1..Len(heap) /\ EP!HistoryOf(heap, 1) = heap[1].data
    BY <2>2, SiteAssumption, EP!FirstHistory
  <2>4. made = heap[1].data
    BY <2>3 DEF SiteInv, Spelled, EP!DataOf
  <2>5. Told = steps
    BY <2>1, <2>2, <2>3, <2>4
  <2>6. last = EP!Replay(steps, position)
    BY DEF SiteInv, EP!Alone, EP!Faithful, EP!Shows
  <2>7. Replay(steps, position) = EP!Replay(steps, position)
    BY DEF Replay, Redo, Left, From, Least,
           EP!Replay, EP!Redo, EP!Left, EP!From, EP!Least
  <2>8. QED
    BY <2>5, <2>6, <2>7
<1>2. QED
  BY <1>1, SiteInvStays, PTL

\* Whatever failed and was sent again, the changes of every branch stand in
\* the file, and then in what is on its way to it, in the order in which they
\* were typed, as long as no write() was cut short (synch, feed).
THEOREM BranchesAreTold == Spec => []BranchesTold
<1>1. SiteInv => BranchesTold
  <2> SUFFICES ASSUME SiteInv, open[Page], cut = {}, NEW b \in 1..Len(heap)
               PROVE  Within(heap[b].data, Told)
    BY DEF BranchesTold
  <2>1. Woven(made, Told) /\ Len(made) \in Nat /\ Len(Told) \in Nat
    BY MadeInTold
  <2>2. EP!DataOf(heap, b) = heap[b].data
    BY DEF EP!DataOf
  <2>3. Woven(heap[b].data, made)
    BY <2>2 DEF SiteInv, Spelled
  <2>4. Len(heap[b].data) \in Nat
    BY <2>2, DataTyped, LenProperties DEF SiteInv
  <2>5. Woven(heap[b].data, Told)
    BY <2>1, <2>3, <2>4, WovenTwice
  <2>6. QED
    BY <2>1, <2>4, <2>5, WovenIsWithin
<1>2. QED
  BY <1>1, SiteInvStays, PTL
=============================================================================
