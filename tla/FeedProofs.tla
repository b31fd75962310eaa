----------------------------- MODULE FeedProofs -----------------------------
(***************************************************************************)
(* The transfer of changes, for bytes and integers of every width, lists   *)
(* of every length and requests of every size: what is read lies inside    *)
(* the request, what a page sends is stored as it sent it, and a refused   *)
(* request leaves no change.                                               *)
(***************************************************************************)
EXTENDS Feed, BytesProofs

-----------------------------------------------------------------------------
(* Numbers *)

LEMMA FeedNumbers ==
  /\ Base \in Nat \ {0} /\ Width \in Nat /\ Width > 0
  /\ Header \in Nat /\ Header = 1 + 3 * Width /\ Header < Base
  /\ Word \in Nat /\ Word > 0
  /\ Width < Int64 /\ Int64 \in Nat
  /\ OpBranch \in Byte /\ OpInsert \in Byte /\ OpBranch # OpInsert
  /\ Byte \subseteq Nat /\ 0 \in Byte /\ Header \in Byte
<1>1. Base \in Nat /\ Width \in Nat /\ Width > 0 /\ Width < Int64
  BY FeedAssumption
<1>2. Header \in Nat /\ Header = 1 + 3 * Width /\ Header < Base
  BY <1>1, FeedAssumption DEF Header
<1>3. Base \in Nat \ {0}
  BY <1>1, <1>2
<1>4. Word \in Nat /\ Word > 0
  BY <1>1, <1>3, PowerSteps DEF Word
<1>5. /\ Int64 \in Nat /\ OpBranch \in Byte /\ OpInsert \in Byte
      /\ OpBranch # OpInsert
  BY BytesAssumption, FeedAssumption
<1>6. Byte \subseteq Nat /\ 0 \in Byte /\ Header \in Byte
  BY <1>2, <1>3 DEF Byte
<1>7. QED
  BY <1>1, <1>2, <1>3, <1>4, <1>5, <1>6

-----------------------------------------------------------------------------
(* Integers as bytes *)

\* The value of a word, digit by digit.
Valued(v, word) ==
  /\ v \in [0..Len(word) -> Nat]
  /\ v[0] = 0
  /\ \A k \in 1..Len(word) : v[k] = v[k - 1] * Base + word[k]
  /\ Value(word) = v[Len(word)]

LEMMA ValueFollows ==
  ASSUME NEW word \in Seq(Byte)
  PROVE  \E v : Valued(v, word)
<1>1. PICK n \in Nat : n = Len(word)
  BY LenProperties
<1>2. /\ \A k \in 1..n : word[k] \in Nat
      /\ Base \in Nat
  BY <1>1, ElementOfSeq, FeedNumbers
<1> DEFINE step == [k \in 1..n |-> [x \in Nat |-> x * Base + word[k]]]
<1>3. Course(n, Nat, 0, step)
  <2>1. ASSUME NEW x \in Nat, NEW k \in 1..n
        PROVE  x * Base + word[k] \in Nat
    BY <1>2, ProductInNat
  <2>2. QED
    BY <2>1 DEF Course
<1>4. PICK f : Follows(f, n, Nat, 0, step)
  <2> HIDE DEF step
  <2>1. QED
    BY <1>3, SequenceRecursion
<1>5. f \in [0..n -> Nat] /\ f[0] = 0
  BY <1>4 DEF Follows
<1>6. \A k \in 1..n : f[k] = f[k - 1] * Base + word[k]
  <2>1. \A k \in 1..n : f[k] = step[k][f[k - 1]]
    <3> HIDE DEF step
    <3>1. QED
      BY <1>4 DEF Follows
  <2>2. \A k \in 1..n : f[k - 1] \in Nat
    BY <1>5
  <2>3. QED
    BY <2>1, <2>2
<1> DEFINE F(g) == [k \in 0..n |-> IF k = 0 THEN 0 ELSE g[k - 1] * Base + word[k]]
           g == CHOOSE g : g = F(g)
<1>7. Value(word) = g[n]
  BY <1>1 DEF Value
<1>8. \E h : h = F(h)
  <2> DEFINE h == [k \in 0..n |-> f[k]]
  <2>1. h = F(h)
    BY <1>5, <1>6
  <2>2. QED
    BY <2>1
<1>9. g = F(g)
  <2> HIDE DEF F
  <2>1. QED
    BY <1>8
<1> HIDE DEF g
<1> DEFINE T == {k \in 0..n : g[k] = f[k]}
<1>10. g[0] = 0
  BY <1>9
<1>11. \A k \in 1..n : g[k] = g[k - 1] * Base + word[k]
  BY <1>9
<1> HIDE DEF F
<1>12. 0 \in T
  BY <1>5, <1>10
<1>13. \A k \in 0..(n - 1) : k \in T => k + 1 \in T
  <2> SUFFICES ASSUME NEW k \in 0..(n - 1), k \in T
               PROVE  k + 1 \in T
    OBVIOUS
  <2>1. k + 1 \in 1..n /\ k + 1 \in 0..n /\ (k + 1) - 1 = k
    OBVIOUS
  <2>2. QED
    BY <1>6, <1>11, <2>1
<1>14. 0..n \subseteq T
  <2> HIDE DEF T
  <2>1. QED
    BY <1>12, <1>13, Induction
<1>15. Value(word) = f[n]
  BY <1>7, <1>14
<1>16. Valued(f, word)
  BY <1>1, <1>5, <1>6, <1>15 DEF Valued
<1>17. QED
  BY <1>16

\* As many bytes, as many numbers.
LEMMA ValueBound ==
  ASSUME NEW word \in Seq(Byte)
  PROVE  Value(word) \in 0..(Power(Base, Len(word)) - 1)
<1>1. PICK n \in Nat : n = Len(word)
  BY LenProperties
<1>2. \A k \in 1..n : word[k] \in 0..(Base - 1)
  BY <1>1, ElementOfSeq DEF Byte
<1>3. PICK v : Valued(v, word)
  BY ValueFollows
<1>4. /\ v \in [0..n -> Nat] /\ v[0] = 0 /\ Value(word) = v[n]
      /\ \A k \in 1..n : v[k] = v[k - 1] * Base + word[k]
  BY <1>1, <1>3 DEF Valued
<1>5. /\ Base \in Nat \ {0} /\ Power(Base, 0) = 1
      /\ \A k \in Nat : Power(Base, k) \in Nat
      /\ \A k \in Nat : Power(Base, k + 1) = Power(Base, k) * Base
  BY FeedNumbers, PowerSteps
<1> DEFINE T == {k \in 0..n : v[k] < Power(Base, k)}
<1>6. 0 \in T
  BY <1>4, <1>5
<1>7. \A k \in 0..(n - 1) : k \in T => k + 1 \in T
  <2> SUFFICES ASSUME NEW k \in 0..(n - 1), k \in T
               PROVE  k + 1 \in T
    OBVIOUS
  <2>1. k + 1 \in 1..n /\ k + 1 \in 0..n /\ (k + 1) - 1 = k /\ k \in Nat /\ k \in 0..n
    OBVIOUS
  <2>2. PICK x \in Nat : x = v[k]
    BY <1>4, <2>1
  <2>3. PICK a \in Nat : a = Power(Base, k)
    BY <1>5, <2>1
  <2>4. PICK d \in 0..(Base - 1) : d = word[k + 1]
    BY <1>2, <2>1
  <2>5. x + 1 <= a
    BY <2>2, <2>3, <2>4
  <2>6. (x + 1) * Base <= a * Base
    BY <1>5, <2>5, ProductGrows
  <2>7. x * Base + d < a * Base
    <3> DEFINE y == x * Base
               z == a * Base
    <3>1. (x + 1) * Base = y + Base
      BY <1>5
    <3>2. y \in Nat /\ z \in Nat
      BY <1>5, ProductInNat
    <3>3. y + Base <= z
      BY <2>6, <3>1
    <3> HIDE DEF y, z
    <3>4. y + d < z
      BY <1>5, <3>2, <3>3
    <3>5. QED
      BY <3>4 DEF y, z
  <2>8. v[k + 1] < Power(Base, k + 1)
    BY <1>4, <1>5, <2>1, <2>2, <2>3, <2>4, <2>7
  <2>9. QED
    BY <2>1, <2>8
<1>8. 0..n \subseteq T
  <2> HIDE DEF T
  <2>1. QED
    BY <1>6, <1>7, Induction
<1>9. v[n] \in Nat /\ v[n] < Power(Base, n) /\ Power(Base, n) \in Nat
  BY <1>4, <1>5, <1>8
<1>10. QED
  BY <1>1, <1>4, <1>9

LEMMA EncodedIsWord ==
  ASSUME NEW n \in Nat
  PROVE  /\ Encoded(n) \in Seq(Byte)
         /\ Len(Encoded(n)) = Width
         /\ \A i \in 1..Width :
              Encoded(n)[i] = (n \div Power(Base, Width - i)) % Base
<1>1. Base \in Nat /\ Base > 0 /\ Width \in Nat
  BY FeedNumbers
<1>2. ASSUME NEW i \in 1..Width
      PROVE  (n \div Power(Base, Width - i)) % Base \in Byte
  <2>1. Width - i \in Nat
    BY <1>1
  <2>2. Power(Base, Width - i) \in Nat /\ Power(Base, Width - i) > 0
    BY <2>1, FeedNumbers, PowerSteps
  <2>3. n \div Power(Base, Width - i) \in Nat
    BY <2>2, Division
  <2>4. (n \div Power(Base, Width - i)) % Base \in 0..(Base - 1)
    BY <1>1, <2>3, Division
  <2>5. QED
    BY <2>4 DEF Byte
<1>3. Encoded(n) \in [1..Width -> Byte]
  BY <1>2 DEF Encoded
<1>4. Encoded(n) \in Seq(Byte)
  BY <1>1, <1>3, SeqDef
<1>5. Len(Encoded(n)) = Width
  <2>1. DOMAIN Encoded(n) = 1..Width
    BY <1>3
  <2>2. QED
    BY <1>1, <1>4, <2>1
<1>6. QED
  BY <1>4, <1>5 DEF Encoded

\* ntohl reads what htonl has written, for every number that an integer holds.
LEMMA EncodedValue ==
  ASSUME NEW n \in 0..(Word - 1)
  PROVE  Value(Encoded(n)) = n
<1> DEFINE w == Encoded(n)
           P(k) == Power(Base, k)
<1>1. n \in Nat /\ n < Word
  BY FeedNumbers
<1>2. /\ w \in Seq(Byte) /\ Len(w) = Width
      /\ \A i \in 1..Width : w[i] = (n \div P(Width - i)) % Base
  BY <1>1, EncodedIsWord
<1>3. PICK v : Valued(v, w)
  BY <1>2, ValueFollows
<1> HIDE DEF w
<1>4. /\ v \in [0..Width -> Nat] /\ v[0] = 0 /\ Value(w) = v[Width]
      /\ \A k \in 1..Width : v[k] = v[k - 1] * Base + w[k]
  BY <1>2, <1>3 DEF Valued
<1>5. /\ Base \in Nat \ {0} /\ Width \in Nat
      /\ P(0) = 1 /\ P(Width) = Word
      /\ \A k \in Nat : P(k) \in Nat /\ P(k) > 0
      /\ \A k \in Nat : P(k + 1) = P(k) * Base
  BY FeedNumbers, PowerSteps DEF Word
<1> HIDE DEF P
<1> DEFINE T == {k \in 0..Width : v[k] = n \div P(Width - k)}
<1>6. 0 \in T
  <2>1. n \div Word = 0
    <3>1. 0 * Word + n = n /\ n \in 0..(Word - 1) /\ Word \in Nat /\ Word > 0
      BY <1>1, FeedNumbers
    <3>2. QED
      BY <3>1, QuotientUnique
  <2>2. Width - 0 = Width
    BY <1>5
  <2>3. QED
    BY <1>4, <1>5, <2>1, <2>2
<1>7. \A k \in 0..(Width - 1) : k \in T => k + 1 \in T
  <2> SUFFICES ASSUME NEW k \in 0..(Width - 1), k \in T
               PROVE  k + 1 \in T
    OBVIOUS
  <2>1. k + 1 \in 1..Width /\ k + 1 \in 0..Width /\ (k + 1) - 1 = k
    BY <1>5
  <2>2. PICK e \in Nat : e = Width - (k + 1) /\ e + 1 = Width - k
    BY <1>5
  <2>3. P(e) \in Nat /\ P(e) > 0 /\ P(e + 1) = P(e) * Base
    BY <1>5, <2>2
  <2>4. n \div P(e + 1) = (n \div P(e)) \div Base
    <3>1. Base \in Nat /\ Base > 0
      BY <1>5
    <3>2. n \div (P(e) * Base) = (n \div P(e)) \div Base
      BY <1>1, <2>3, <3>1, DivideTwice
    <3>3. QED
      BY <2>3, <3>2
  <2>5. PICK q \in Nat : q = n \div P(e)
    BY <1>1, <2>3, Division
  <2>6. PICK h \in Nat, r \in 0..(Base - 1) :
               h = q \div Base /\ r = q % Base /\ q = h * Base + r
    <3>1. Base \in Nat /\ Base > 0
      BY <1>5
    <3>2. QED
      BY <3>1, Division
  <2>7. v[k] = h /\ w[k + 1] = r
    <3>1. v[k] = n \div P(e + 1)
      BY <2>2
    <3>2. w[k + 1] = (n \div P(e)) % Base
      BY <1>2, <2>1, <2>2
    <3>3. QED
      BY <2>4, <2>5, <2>6, <3>1, <3>2
  <2>8. v[k + 1] = v[k] * Base + w[k + 1]
    BY <1>4, <2>1
  <2>9. v[k + 1] = n \div P(Width - (k + 1))
    <3>1. v[k + 1] = h * Base + r
      BY <2>7, <2>8
    <3>2. QED
      BY <2>2, <2>5, <2>6, <3>1
  <2>10. QED
    BY <2>1, <2>9
<1>8. 0..Width \subseteq T
  <2> HIDE DEF T
  <2>1. QED
    BY <1>5, <1>6, <1>7, Induction
<1>9. v[Width] = n \div 1
  <2>1. Width - Width = 0 /\ Width \in 0..Width
    BY <1>5
  <2>2. QED
    BY <1>5, <1>8, <2>1
<1>10. n \div 1 = n
  BY <1>1
<1>11. QED
  BY <1>4, <1>9, <1>10 DEF w

-----------------------------------------------------------------------------
(* Changes as bytes *)

ChangeRecords == [pos : 0..(Word - 1), last : Seq(Byte), now : Seq(Byte)]

LEMMA SizeIsWord ==
  ASSUME NEW str \in Seq(Byte), NEW local \in BOOLEAN
  PROVE  /\ Size(str, local) \in Seq(Byte) /\ Len(Size(str, local)) = Width
         /\ Size(str, FALSE) = Encoded(Len(str))
         /\ \A i \in 1..Width : Size(str, TRUE)[i] = Encoded(Len(str))[Width + 1 - i]
<1>1. PICK n \in Nat : n = Len(str)
  BY LenProperties
<1> DEFINE e == Encoded(n)
           r == Reversed(e)
<1>2. Width \in Nat /\ e \in Seq(Byte) /\ Len(e) = Width
  BY FeedNumbers, EncodedIsWord
<1>3. \A i \in 1..Width : e[Width + 1 - i] \in Byte
  <2> HIDE DEF e
  <2>1. \A i \in 1..Width : e[i] \in Byte
    BY <1>2, ElementOfSeq
  <2>2. \A i \in 1..Width : Width + 1 - i \in 1..Width
    BY <1>2
  <2>3. QED
    BY <2>1, <2>2
<1> HIDE DEF e
<1>4. r \in [1..Width -> Byte] /\ \A i \in 1..Width : r[i] = e[Width + 1 - i]
  BY <1>2, <1>3 DEF Reversed
<1>5. r \in Seq(Byte)
  <2> HIDE DEF r
  <2>1. QED
    BY <1>2, <1>4, SeqDef
<1>6. Len(r) = Width
  <2> HIDE DEF r
  <2>1. DOMAIN r = 1..Width
    BY <1>4
  <2>2. QED
    BY <1>2, <1>5, <2>1
<1>7. Size(str, TRUE) = r /\ Size(str, FALSE) = e
  BY <1>1 DEF Size, e
<1>8. QED
  BY <1>1, <1>2, <1>4, <1>5, <1>6, <1>7 DEF e

\* Where the parts of a change are in its bytes.
Layout(bytes, change, local) ==
  /\ bytes \in Seq(Byte)
  /\ Len(bytes) = Header + Len(change.last) + Len(change.now)
  /\ bytes[1] = OpInsert
  /\ \A i \in 1..Width :
       /\ bytes[1 + i] = Encoded(change.pos)[i]
       /\ bytes[1 + Width + i] = Size(change.last, local)[i]
       /\ bytes[1 + 2 * Width + i] = Size(change.now, local)[i]
  /\ \A i \in 1..Len(change.last) : bytes[Header + i] = change.last[i]
  /\ \A i \in 1..Len(change.now) :
       bytes[Header + Len(change.last) + i] = change.now[i]

\* A text of length m, then one of length n.
Join(z, x, m, y, n) ==
  /\ z \in Seq(Byte) /\ Len(z) = m + n
  /\ \A i \in 1..(m + n) : z[i] = IF i <= m THEN x[i] ELSE y[i - m]

LEMMA Joins ==
  ASSUME NEW x \in Seq(Byte), NEW m \in Nat, Len(x) = m,
         NEW y \in Seq(Byte), NEW n \in Nat, Len(y) = n
  PROVE  Join(x \o y, x, m, y, n)
BY ConcatProperties DEF Join

LEMMA ChangeLayout ==
  ASSUME NEW change \in ChangeRecords, NEW local \in BOOLEAN
  PROVE  Layout(ChangeBytes(change, local), change, local)
<1> DEFINE o == <<OpInsert>>
           e == Encoded(change.pos)
           s == Size(change.last, local)
           t == Size(change.now, local)
           u == change.last
           v == change.now
           a == o \o e
           b == a \o s
           c == b \o t
           d == c \o u
           f == d \o v
<1>1. u \in Seq(Byte) /\ v \in Seq(Byte) /\ change.pos \in Nat
  BY FeedNumbers DEF ChangeRecords
<1>2. PICK m \in Nat : m = Len(u)
  BY <1>1, LenProperties
<1>3. PICK n \in Nat : n = Len(v)
  BY <1>1, LenProperties
<1>4. PICK w \in Nat : w = Width /\ Header = 1 + 3 * w
  BY FeedNumbers
<1>5. o \in Seq(Byte) /\ Len(o) = 1 /\ o[1] = OpInsert
  BY FeedNumbers
<1>6. e \in Seq(Byte) /\ Len(e) = w
  BY <1>1, <1>4, EncodedIsWord
<1>7. s \in Seq(Byte) /\ Len(s) = w
  BY <1>1, <1>4, SizeIsWord
<1>8. t \in Seq(Byte) /\ Len(t) = w
  BY <1>1, <1>4, SizeIsWord
<1>9. ChangeBytes(change, local) = f
  BY DEF ChangeBytes
<1> HIDE DEF o, e, s, t, u, v
<1>10. /\ a \in Seq(Byte) /\ Len(a) = 1 + w
       /\ \A i \in 1..(1 + w) : a[i] = IF i <= 1 THEN o[i] ELSE e[i - (1)]
  <2>1. 1 \in Nat
    OBVIOUS
  <2>2. Join(a, o, 1, e, w)
    BY <1>5, <1>6, <2>1, Joins
  <2> HIDE DEF a
  <2>3. QED
    BY <2>2 DEF Join
<1> HIDE DEF a
<1>11. /\ b \in Seq(Byte) /\ Len(b) = 1 + w + w
       /\ \A i \in 1..(1 + w + w) : b[i] = IF i <= 1 + w THEN a[i] ELSE s[i - (1 + w)]
  <2>1. 1 + w \in Nat
    OBVIOUS
  <2>2. Join(b, a, 1 + w, s, w)
    BY <1>7, <1>10, <2>1, Joins
  <2> HIDE DEF b
  <2>3. QED
    BY <2>2 DEF Join
<1> HIDE DEF b
<1>12. /\ c \in Seq(Byte) /\ Len(c) = 1 + w + w + w
       /\ \A i \in 1..(1 + w + w + w) : c[i] = IF i <= 1 + w + w THEN b[i] ELSE t[i - (1 + w + w)]
  <2>1. 1 + w + w \in Nat
    OBVIOUS
  <2>2. Join(c, b, 1 + w + w, t, w)
    BY <1>8, <1>11, <2>1, Joins
  <2> HIDE DEF c
  <2>3. QED
    BY <2>2 DEF Join
<1> HIDE DEF c
<1>13. /\ d \in Seq(Byte) /\ Len(d) = 1 + w + w + w + m
       /\ \A i \in 1..(1 + w + w + w + m) : d[i] = IF i <= 1 + w + w + w THEN c[i] ELSE u[i - (1 + w + w + w)]
  <2>1. 1 + w + w + w \in Nat
    OBVIOUS
  <2>2. Join(d, c, 1 + w + w + w, u, m)
    BY <1>1, <1>2, <1>12, <2>1, Joins DEF u
  <2> HIDE DEF d
  <2>3. QED
    BY <2>2 DEF Join
<1> HIDE DEF d
<1>14. /\ f \in Seq(Byte) /\ Len(f) = 1 + w + w + w + m + n
       /\ \A i \in 1..(1 + w + w + w + m + n) : f[i] = IF i <= 1 + w + w + w + m THEN d[i] ELSE v[i - (1 + w + w + w + m)]
  <2>1. 1 + w + w + w + m \in Nat
    OBVIOUS
  <2>2. Join(f, d, 1 + w + w + w + m, v, n)
    BY <1>1, <1>3, <1>13, <2>1, Joins DEF v
  <2> HIDE DEF f
  <2>3. QED
    BY <2>2 DEF Join
<1> HIDE DEF f
<1>15. \A i \in 1..(1 + 3 * w) : f[i] = c[i]
  BY <1>13, <1>14
<1>16. f[1] = OpInsert
  BY <1>5, <1>10, <1>11, <1>12, <1>15
<1>17. ASSUME NEW i \in 1..w
       PROVE  f[1 + i] = e[i] /\ f[1 + w + i] = s[i] /\ f[1 + 2 * w + i] = t[i]
  <2>1. f[1 + i] = e[i]
    <3>1. f[1 + i] = a[1 + i]
      <4>1. f[1 + i] = c[1 + i]
        BY <1>15
      <4>2. c[1 + i] = b[1 + i]
        BY <1>12
      <4>3. b[1 + i] = a[1 + i]
        BY <1>11
      <4>4. QED
        BY <4>1, <4>2, <4>3
    <3>2. QED
      BY <1>10, <3>1
  <2>2. f[1 + w + i] = s[i]
    <3>1. f[1 + w + i] = b[1 + w + i]
      BY <1>12, <1>15
    <3>2. b[1 + w + i] = s[(1 + w + i) - (1 + w)]
      BY <1>11
    <3>3. (1 + w + i) - (1 + w) = i
      OBVIOUS
    <3>4. QED
      BY <3>1, <3>2, <3>3
  <2>3. f[1 + 2 * w + i] = t[i]
    <3>1. f[1 + 2 * w + i] = c[1 + 2 * w + i]
      BY <1>15
    <3>2. c[1 + 2 * w + i] = t[(1 + 2 * w + i) - (1 + 2 * w)]
      BY <1>12
    <3>3. (1 + 2 * w + i) - (1 + 2 * w) = i
      OBVIOUS
    <3>4. QED
      BY <3>1, <3>2, <3>3
  <2>4. QED
    BY <2>1, <2>2, <2>3
<1>18. ASSUME NEW i \in 1..m
       PROVE  f[1 + 3 * w + i] = u[i]
  <2>1. f[1 + 3 * w + i] = d[1 + 3 * w + i]
    BY <1>14
  <2>2. d[1 + 3 * w + i] = u[(1 + 3 * w + i) - (1 + 3 * w)]
    BY <1>13
  <2>3. (1 + 3 * w + i) - (1 + 3 * w) = i
    OBVIOUS
  <2>4. QED
    BY <2>1, <2>2, <2>3
<1>19. ASSUME NEW i \in 1..n
       PROVE  f[1 + 3 * w + m + i] = v[i]
  <2>1. f[1 + 3 * w + m + i] = v[(1 + 3 * w + m + i) - (1 + 3 * w + m)]
    BY <1>14
  <2>2. (1 + 3 * w + m + i) - (1 + 3 * w + m) = i
    OBVIOUS
  <2>3. QED
    BY <2>1, <2>2
<1>20. Len(f) = Header + Len(u) + Len(v)
  BY <1>2, <1>3, <1>4, <1>14
<1>21. Layout(f, change, local)
  <2>1. \A i \in 1..Width :
          f[1 + i] = e[i] /\ f[1 + Width + i] = s[i] /\ f[1 + 2 * Width + i] = t[i]
    BY <1>4, <1>17
  <2>2. \A i \in 1..Len(u) : f[Header + i] = u[i]
    BY <1>2, <1>4, <1>18
  <2>3. \A i \in 1..Len(v) : f[Header + Len(u) + i] = v[i]
    BY <1>2, <1>3, <1>4, <1>19
  <2>4. QED
    BY <1>14, <1>16, <1>20, <2>1, <2>2, <2>3 DEF Layout, e, s, t, u, v
<1>22. QED
  BY <1>9, <1>21

\* The changes of a list as bytes, one after the other.
Flattened(f, changes, local) ==
  /\ f \in [0..Len(changes) -> Seq(Byte)]
  /\ f[0] = << >>
  /\ \A k \in 1..Len(changes) : f[k] = f[k - 1] \o ChangeBytes(changes[k], local)

LEMMA FlatIsValue ==
  ASSUME NEW changes, NEW local, NEW f, NEW n \in Nat, n = Len(changes),
         Flattened(f, changes, local)
  PROVE  Flat(changes, local) = f[n]
<1>1. /\ f \in [0..n -> Seq(Byte)] /\ f[0] = << >>
      /\ \A k \in 1..n : f[k] = f[k - 1] \o ChangeBytes(changes[k], local)
  BY DEF Flattened
<1> DEFINE F(g) == [k \in 0..n |-> IF k = 0 THEN << >>
                                   ELSE g[k - 1] \o ChangeBytes(changes[k], local)]
           g == CHOOSE g : g = F(g)
<1>2. Flat(changes, local) = g[n]
  BY DEF Flat
<1>3. \E h : h = F(h)
  <2>1. \A k \in 0..n : f[k] = IF k = 0 THEN << >>
                              ELSE f[k - 1] \o ChangeBytes(changes[k], local)
    BY <1>1
  <2>2. f = [k \in 0..n |-> f[k]]
    BY <1>1
  <2>3. f = F(f)
    BY <2>1, <2>2
  <2>4. QED
    BY <2>3
<1>4. g = F(g)
  <2> HIDE DEF F
  <2>1. QED
    BY <1>3
<1> HIDE DEF g
<1> DEFINE T == {k \in 0..n : g[k] = f[k]}
<1>5. g[0] = << >>
  BY <1>4
<1>6. \A k \in 1..n : g[k] = g[k - 1] \o ChangeBytes(changes[k], local)
  BY <1>4
<1> HIDE DEF F
<1>7. 0 \in T
  BY <1>1, <1>5
<1>8. \A k \in 0..(n - 1) : k \in T => k + 1 \in T
  <2> SUFFICES ASSUME NEW k \in 0..(n - 1), k \in T
               PROVE  k + 1 \in T
    OBVIOUS
  <2>1. k + 1 \in 1..n /\ k + 1 \in 0..n /\ (k + 1) - 1 = k
    OBVIOUS
  <2>2. QED
    BY <1>1, <1>6, <2>1
<1>9. 0..n \subseteq T
  <2> HIDE DEF T
  <2>1. QED
    BY <1>7, <1>8, Induction
<1>10. QED
  BY <1>2, <1>9

LEMMA FlatFollows ==
  ASSUME NEW changes \in Seq(ChangeRecords), NEW local \in BOOLEAN
  PROVE  \E f : Flattened(f, changes, local)
<1>1. PICK n \in Nat : n = Len(changes)
  BY LenProperties
<1>2. \A k \in 1..n : changes[k] \in ChangeRecords
  BY <1>1, ElementOfSeq
<1> DEFINE step == [k \in 1..n |-> [x \in Seq(Byte) |-> x \o ChangeBytes(changes[k], local)]]
<1>3. Course(n, Seq(Byte), << >>, step)
  <2>1. \A k \in 1..n : ChangeBytes(changes[k], local) \in Seq(Byte)
    BY <1>2, ChangeLayout DEF Layout
  <2>2. \A k \in 1..n : \A x \in Seq(Byte) :
          x \o ChangeBytes(changes[k], local) \in Seq(Byte)
    BY <2>1, ConcatProperties
  <2>3. << >> \in Seq(Byte)
    BY EmptySeq
  <2>4. QED
    BY <2>2, <2>3 DEF Course
<1>4. PICK f : Follows(f, n, Seq(Byte), << >>, step)
  <2> HIDE DEF step
  <2>1. QED
    BY <1>3, SequenceRecursion
<1>5. f \in [0..n -> Seq(Byte)] /\ f[0] = << >>
  BY <1>4 DEF Follows
<1>6. \A k \in 1..n : f[k] = f[k - 1] \o ChangeBytes(changes[k], local)
  <2>1. \A k \in 1..n : f[k] = step[k][f[k - 1]]
    <3> HIDE DEF step
    <3>1. QED
      BY <1>4 DEF Follows
  <2>2. \A k \in 1..n : f[k - 1] \in Seq(Byte)
    BY <1>5
  <2>3. QED
    BY <2>1, <2>2
<1>7. Flattened(f, changes, local)
  BY <1>1, <1>5, <1>6 DEF Flattened
<1>8. QED
  BY <1>7

\* The first k changes of a list.
First(changes, k) == SubSeq(changes, 1, k)

LEMMA FlatSteps ==
  ASSUME NEW changes \in Seq(ChangeRecords), NEW local \in BOOLEAN,
         NEW n \in Nat, n = Len(changes)
  PROVE  /\ Flat(First(changes, n), local) = Flat(changes, local)
         /\ Flat(First(changes, 0), local) = << >>
         /\ \A k \in 0..n : Flat(First(changes, k), local) \in Seq(Byte)
         /\ \A k \in 1..n : Flat(First(changes, k), local) =
              Flat(First(changes, k - 1), local) \o ChangeBytes(changes[k], local)
<1>1. PICK f : Flattened(f, changes, local)
  BY FlatFollows
<1>2. /\ f \in [0..n -> Seq(Byte)] /\ f[0] = << >>
      /\ \A k \in 1..n : f[k] = f[k - 1] \o ChangeBytes(changes[k], local)
  BY <1>1 DEF Flattened
<1>3. \A k \in 1..n : changes[k] \in ChangeRecords
  BY ElementOfSeq
<1>4. ASSUME NEW m \in 0..n
      PROVE  Flat(First(changes, m), local) = f[m]
  <2> DEFINE part == First(changes, m)
             h == [k \in 0..m |-> f[k]]
  <2>1. m \in Nat /\ \A k \in 1..m : changes[k] \in ChangeRecords
    BY <1>3
  <2>2. Len(part) = m /\ \A k \in 1..m : part[k] = changes[k]
    <3>1. /\ Len(part) = IF 1 <= m THEN m - 1 + 1 ELSE 0
          /\ \A k \in 1..(m - 1 + 1) : part[k] = changes[1 + k - 1]
      BY <2>1, SubSeqProperties DEF First
    <3> HIDE DEF part
    <3>2. QED
      BY <2>1, <3>1
  <2> HIDE DEF part
  <2>3. h \in [0..m -> Seq(Byte)] /\ h[0] = << >> /\ h[m] = f[m]
    BY <1>2, <2>1
  <2>4. \A k \in 1..m : h[k] = h[k - 1] \o ChangeBytes(part[k], local)
    <3> SUFFICES ASSUME NEW k \in 1..m
                 PROVE  h[k] = h[k - 1] \o ChangeBytes(part[k], local)
      OBVIOUS
    <3>1. k \in 1..n /\ k \in 0..m /\ k - 1 \in 0..m /\ part[k] = changes[k]
      BY <2>1, <2>2
    <3>2. h[k] = f[k] /\ h[k - 1] = f[k - 1]
      BY <3>1
    <3> HIDE DEF h
    <3>3. QED
      BY <1>2, <3>1, <3>2
  <2> HIDE DEF h
  <2>5. Flattened(h, part, local)
    BY <2>2, <2>3, <2>4 DEF Flattened
  <2>6. Flat(part, local) = h[m]
    <3>1. m = Len(part) /\ m \in Nat
      BY <2>1, <2>2
    <3>2. QED
      BY <2>5, <3>1, FlatIsValue, ZenonT(30)
  <2>7. QED
    BY <2>3, <2>6 DEF part
<1>5. First(changes, n) = changes
  BY SubSeqFull DEF First
<1>6. QED
  <2>1. n \in 0..n /\ 0 \in 0..n /\ \A k \in 1..n : k \in 0..n /\ k - 1 \in 0..n
    OBVIOUS
  <2>2. Flat(First(changes, 0), local) = << >>
    BY <1>2, <1>4, <2>1
  <2>3. \A k \in 0..n : Flat(First(changes, k), local) \in Seq(Byte)
    BY <1>2, <1>4
  <2>4. \A k \in 1..n : Flat(First(changes, k), local) =
              Flat(First(changes, k - 1), local) \o ChangeBytes(changes[k], local)
    BY <1>2, <1>4, <2>1
  <2>5. QED
    BY <1>5, <2>2, <2>3, <2>4

LEMMA ListTyped ==
  ASSUME NEW l \in Lists
  PROVE  /\ l.id \in 0..(Word - 1) /\ l.changes \in Seq(ChangeRecords)
         /\ TransferEncode(l) \in Seq(Byte)
<1>1. l.id \in 0..(Word - 1) /\ l.changes \in Seq(ChangeRecords)
  BY FeedAssumption DEF ChangeRecords
<1>2. PICK n \in Nat : n = Len(l.changes)
  BY <1>1, LenProperties
<1>3. Flat(l.changes, FALSE) \in Seq(Byte)
  <2>1. n \in 0..n /\ FALSE \in BOOLEAN
    OBVIOUS
  <2>2. QED
    BY <1>1, <1>2, <2>1, FlatSteps
<1>4. <<OpBranch>> \in Seq(Byte)
  BY FeedNumbers
<1>5. Encoded(l.id) \in Seq(Byte)
  <2>1. l.id \in Nat
    BY <1>1, FeedNumbers
  <2>2. QED
    BY <2>1, EncodedIsWord
<1>6. TransferEncode(l) \in Seq(Byte)
  <2>1. <<OpBranch>> \o Encoded(l.id) \in Seq(Byte)
    BY <1>4, <1>5, ConcatProperties
  <2>2. QED
    BY <1>3, <2>1, ConcatProperties DEF TransferEncode
<1>7. QED
  BY <1>1, <1>6

-----------------------------------------------------------------------------
(* What is read lies inside the request *)

\* Types alone are not inductive: what is written to a file are bytes only
\* because it lies inside the request.
ReadInv == TypeOK /\ CommitInside

\* The id of a branch is cut out of what is left, which it may outreach.
LEMMA SliceId ==
  ASSUME NEW b \in [at : Nat, len : Nat]
  PROVE  /\ b.len > 1 => Slice(b, 1, 1 + Width) = [at |-> b.at + 1, len |-> Width]
         /\ b.len <= 1 => Slice(b, 1, 1 + Width).len # Width
<1>1. b.at \in Nat /\ b.len \in Nat /\ b = [at |-> b.at, len |-> b.len]
  BY StringParts
<1>2. Width \in Nat /\ Width > 0 /\ Width < Int64 /\ Int64 \in Nat
  BY FeedNumbers
<1>3. CASE b.len > 1
  <2>1. ((1 + Width) - 1) % Int64 = Width
    <3>1. (1 + Width) - 1 = Width
      BY <1>2
    <3>2. QED
      BY <1>2, <3>1, RemainderSmall
  <2>2. Slice(b, 1, 1 + Width) = [at |-> b.at + 1, len |-> ((1 + Width) - 1) % Int64]
    BY <1>1, <1>2, <1>3 DEF Slice
  <2>3. QED
    BY <1>3, <2>1, <2>2
<1>4. CASE b.len <= 1
  <2>1. Slice(b, 1, 1 + Width) = [at |-> b.at, len |-> 0]
    BY <1>1, <1>4 DEF Slice
  <2>2. QED
    BY <1>1, <1>2, <1>4, <2>1
<1>5. QED
  BY <1>1, <1>3, <1>4

LEMMA IdsTyped ==
  ASSUME TypeOK, NEW a \in Nat, 1 <= a, a <= Len(buf), NEW id \in IdsAt(a)
  PROVE  id \in 0..(Word - 1)
<1> DEFINE m == Smaller(a + Width - 1, Len(buf))
           inside == SubSeq(buf, a, m)
<1>1. PICK n \in Nat : n = Len(buf)
  BY LenProperties DEF TypeOK
<1>2. Width \in Nat /\ Width > 0
  BY FeedNumbers
<1>3. m \in Nat /\ a <= m /\ m <= n /\ m <= a + Width - 1
  BY <1>1, <1>2 DEF Smaller
<1>4. \A i \in a..m : buf[i] \in Byte
  BY <1>1, <1>3, ElementOfSeq DEF TypeOK
<1>5. inside \in Seq(Byte) /\ Len(inside) = m - a + 1
  <2> HIDE DEF m
  <2>1. m \in Int /\ a \in Int
    BY <1>3
  <2>2. QED
    BY <1>3, <1>4, <2>1, SubSeqProperties
<1>6. PICK left \in [1..(Width - Len(inside)) -> Byte] : id = Value(inside \o left)
  BY DEF IdsAt
<1> HIDE DEF inside, m
<1>7. PICK d \in Nat : d = Width - Len(inside)
  BY <1>2, <1>3, <1>5
<1>8. left \in Seq(Byte) /\ Len(left) = d
  <2>1. left \in [1..d -> Byte]
    BY <1>7
  <2>2. left \in Seq(Byte)
    BY <2>1, SeqDef
  <2>3. DOMAIN left = 1..d
    BY <2>1
  <2>4. QED
    BY <2>2, <2>3
<1>9. inside \o left \in Seq(Byte) /\ Len(inside \o left) = Len(inside) + d
  BY <1>5, <1>8, ConcatProperties
<1>10. Len(inside) + d = Width
  BY <1>2, <1>3, <1>5, <1>7
<1>11. QED
  BY <1>6, <1>9, <1>10, ValueBound DEF Word

\* What is written is appended to the file that is open, and is bytes.
LEMMA WrittenIs ==
  ASSUME TypeOK, commit.at >= 1, commit.at + commit.len <= Len(buf) + 1
  PROVE  /\ DOMAIN Written = DOMAIN disk
         /\ \A f \in DOMAIN disk : Written[f] \in Seq(Byte)
         /\ file = -1 => Written = disk
         /\ \A f \in DOMAIN disk : f # file => Written[f] = disk[f]
         /\ file \in DOMAIN disk => Written[file] = disk[file] \o Chars(buf, commit)
         /\ Chars(buf, commit) \in Seq(Byte)
         /\ Len(Chars(buf, commit)) = commit.len
<1> DEFINE new == Chars(buf, commit)
<1>1. commit.at \in Nat /\ commit.len \in Nat
  BY StringParts DEF TypeOK
<1>2. PICK n \in Nat : n = Len(buf)
  BY LenProperties DEF TypeOK
<1>3. \A i \in 1..n : buf[i] \in Byte
  BY <1>2, ElementOfSeq DEF TypeOK
<1>4. new \in [1..commit.len -> Byte]
  <2>1. \A i \in 1..commit.len : commit.at + i - 1 \in 1..n
    BY <1>1, <1>2
  <2>2. QED
    BY <1>3, <2>1 DEF Chars
<1>5. new \in Seq(Byte) /\ Len(new) = commit.len
  <2> HIDE DEF new
  <2>1. new \in Seq(Byte)
    BY <1>1, <1>4, SeqDef
  <2>2. DOMAIN new = 1..commit.len
    BY <1>4
  <2>3. QED
    BY <1>1, <2>1, <2>2
<1> HIDE DEF new
<1>6. /\ file \in {-1} \cup DOMAIN disk
      /\ -1 \notin DOMAIN disk
      /\ \A f \in DOMAIN disk : disk[f] \in Seq(Byte)
  <2>1. DOMAIN disk \subseteq Nat
    BY FeedNumbers DEF TypeOK
  <2>2. QED
    BY <2>1 DEF TypeOK
<1>7. CASE file = -1
  BY <1>5, <1>6, <1>7 DEF Written, new
<1>8. CASE file # -1
  <2>1. file \in DOMAIN disk /\ Written = [disk EXCEPT ![file] = @ \o new]
    BY <1>6, <1>8 DEF Written, new
  <2>2. disk[file] \o new \in Seq(Byte)
    BY <1>5, <1>6, <2>1, ConcatProperties
  <2>3. DOMAIN Written = DOMAIN disk
    BY <2>1
  <2>4. Written[file] = disk[file] \o new
    BY <2>1
  <2>5. \A f \in DOMAIN disk : f # file => Written[f] = disk[f]
    BY <2>1
  <2>6. \A f \in DOMAIN disk : Written[f] \in Seq(Byte)
    BY <1>6, <2>2, <2>4, <2>5
  <2>7. QED
    BY <1>5, <1>8, <2>3, <2>4, <2>5, <2>6 DEF new
<1>9. QED
  BY <1>7, <1>8

\* An insert opcode that is read: where its lengths are, and what they are.
LEMMA InsertLengths ==
  ASSUME ReadInv, result = "running", p.len >= Header
  PROVE  /\ p.at \in Nat /\ p.at >= 1 /\ p.len \in Nat
         /\ LastLen = p.at + 1 + Width /\ NewLen = p.at + 1 + 2 * Width
         /\ NewLen + Width <= Len(buf) + 1
         /\ At(LastLen) \in 0..(Word - 1) /\ At(NewLen) \in 0..(Word - 1)
         /\ ChangeLen \in 0..(Word - 1)
<1>1. p.at \in Nat /\ p.len \in Nat
  BY StringParts DEF ReadInv, TypeOK
<1>2. PICK w \in Nat : w = Width /\ w > 0 /\ Header = 1 + 3 * w
  BY FeedNumbers
<1>3. PICK n \in Nat : n = Len(buf)
  BY LenProperties DEF ReadInv, TypeOK
<1>4. p.at >= 1 /\ p.at + p.len = n + 1
  BY <1>1, <1>2, <1>3 DEF ReadInv, CommitInside
<1>5. LastLen = p.at + 1 + w /\ NewLen = p.at + 1 + 2 * w
  BY <1>2 DEF LastLen, NewLen
<1>6. LastLen + w <= n + 1 /\ NewLen + w <= n + 1
  BY <1>1, <1>2, <1>4, <1>5
<1>7. ASSUME NEW a \in Nat, a >= 1, a + w <= n + 1
      PROVE  At(a) \in 0..(Word - 1)
  <2> DEFINE word == SubSeq(buf, a, a + w - 1)
  <2>1. a + w - 1 \in Int /\ a \in Int
    BY <1>7
  <2>2. \A i \in a..(a + w - 1) : buf[i] \in Byte
    BY <1>3, <1>7, ElementOfSeq DEF ReadInv, TypeOK
  <2>3. /\ word \in Seq(Byte)
        /\ Len(word) = IF a <= a + w - 1 THEN (a + w - 1) - a + 1 ELSE 0
    BY <2>1, <2>2, SubSeqProperties
  <2> HIDE DEF word
  <2>4. Len(word) = w
    BY <1>2, <2>3
  <2>5. Value(word) \in 0..(Word - 1)
    BY <1>2, <2>3, <2>4, ValueBound DEF Word
  <2>6. QED
    BY <1>2, <2>5 DEF At, word
<1>8. At(LastLen) \in 0..(Word - 1) /\ At(NewLen) \in 0..(Word - 1)
  <2>1. LastLen \in Nat /\ LastLen >= 1 /\ NewLen \in Nat /\ NewLen >= 1
    BY <1>1, <1>2, <1>4, <1>5
  <2>2. QED
    BY <1>6, <1>7, <2>1
<1>9. ChangeLen \in 0..(Word - 1)
  <2>1. Word \in Nat /\ Word > 0 /\ Header \in Nat
    BY FeedNumbers
  <2>2. Header + At(LastLen) + At(NewLen) \in Nat
    BY <1>8, <2>1
  <2>3. QED
    BY <2>1, <2>2, Division DEF ChangeLen
<1>10. QED
  BY <1>1, <1>2, <1>3, <1>4, <1>5, <1>6, <1>8, <1>9

\* Turning the lengths round changes no other byte and no length.
LEMMA ConvertIs ==
  ASSUME ReadInv, result = "running", p.len >= Header, Convert
  PROVE  /\ buf' \in Seq(Byte) /\ Len(buf') = Len(buf)
         /\ \A a \in 1..Len(buf) : buf'[a] =
              IF a \in LastLen..(NewLen - 1) THEN buf[LastLen + NewLen - 1 - a]
              ELSE IF a \in NewLen..(NewLen + Width - 1)
              THEN buf[2 * NewLen + Width - 1 - a]
              ELSE buf[a]
<1>1. /\ p.at \in Nat /\ p.at >= 1
      /\ LastLen = p.at + 1 + Width /\ NewLen = p.at + 1 + 2 * Width
      /\ NewLen + Width <= Len(buf) + 1
  BY InsertLengths
<1>2. PICK w \in Nat : w = Width
  BY FeedNumbers
<1>3. PICK n \in Nat : n = Len(buf) /\ buf \in [1..n -> Byte]
  BY LenProperties DEF ReadInv, TypeOK
<1>4. DOMAIN buf = 1..n /\ \A a \in 1..n : buf[a] \in Byte
  BY <1>3
<1> DEFINE new == [a \in 1..n |->
               IF a \in LastLen..(NewLen - 1) THEN buf[LastLen + NewLen - 1 - a]
               ELSE IF a \in NewLen..(NewLen + Width - 1)
               THEN buf[2 * NewLen + Width - 1 - a]
               ELSE buf[a]]
<1>5. buf' = new
  BY <1>4 DEF Convert
<1> DEFINE l == LastLen
           m == NewLen
<1>6. l \in Nat /\ m \in Nat /\ l >= 1 /\ m = l + w /\ m + w <= n + 1
  <2>1. PICK x \in Nat : x = p.at
    BY <1>1
  <2>2. x >= 1 /\ l = x + 1 + w /\ m = x + 1 + 2 * w
    BY <1>1, <1>2, <2>1
  <2>3. m + w <= n + 1
    BY <1>1, <1>2, <1>3
  <2> HIDE DEF l, m
  <2>4. QED
    BY <2>2, <2>3
<1> HIDE DEF l, m
<1>7. /\ \A a \in l..(m - 1) : l + m - 1 - a \in 1..n
      /\ \A a \in m..(m + w - 1) : 2 * m + w - 1 - a \in 1..n
  BY <1>3, <1>6
<1>8. new \in [1..n -> Byte]
  BY <1>2, <1>4, <1>7 DEF l, m
<1>9. new \in Seq(Byte) /\ Len(new) = n
  <2> HIDE DEF new
  <2>1. new \in Seq(Byte)
    BY <1>8, SeqDef
  <2>2. DOMAIN new = 1..n
    BY <1>8
  <2>3. QED
    BY <2>1, <2>2
<1>10. QED
  BY <1>3, <1>5, <1>9

LEMMA BranchFlags ==
  ASSUME TypeOK, BranchOp
  PROVE  stale' \in BOOLEAN /\ refusal' \in BOOLEAN /\ wrapped' \in BOOLEAN
<1>1. stale \in BOOLEAN /\ refusal \in BOOLEAN /\ wrapped \in BOOLEAN
  BY DEF TypeOK
<1>2. wrapped' \in BOOLEAN
  BY <1>1 DEF BranchOp
<1>3. stale' \in BOOLEAN
  BY <1>1, Zenon DEF BranchOp
<1>4. refusal' \in BOOLEAN
  BY <1>1, Zenon DEF BranchOp
<1>5. QED
  BY <1>2, <1>3, <1>4

\* What has to be shown of a step of the handler for its types.
LEMMA TypesNext ==
  ASSUME TypeOK, UNCHANGED request,
         buf' \in Seq(Byte),
         p' \in [at : Nat, len : Nat], commit' \in [at : Nat, len : Nat],
         file' \in {-1} \cup DOMAIN disk',
         DOMAIN disk' \subseteq 0..(Word - 1),
         \A f \in DOMAIN disk' : disk'[f] \in Seq(Byte),
         result' \in {"running", "200", "400"},
         branches' \in Nat,
         refusal' \in BOOLEAN, wrapped' \in BOOLEAN, stale' \in BOOLEAN
  PROVE  TypeOK'
BY DEF TypeOK, request

\* The string that a branch opcode leaves to be read, and where it starts to
\* gather changes.
LEMMA BranchRest ==
  ASSUME ReadInv, Opcode(OpBranch)
  PROVE  /\ p.at \in Nat /\ p.len \in Nat /\ p.at >= 1
         /\ p.at + p.len = Len(buf) + 1
         /\ commit.at >= 1 /\ commit.at + commit.len <= Len(buf) + 1
         /\ Slice(p, 1 + Width, 0) =
              IF p.len <= 1 + Width THEN [at |-> p.at, len |-> 0]
              ELSE [at |-> p.at + 1 + Width, len |-> p.len - (1 + Width)]
         /\ Slice(p, 1, 1 + Width).len = Width =>
              /\ Slice(p, 1, 1 + Width).at = p.at + 1
              /\ p.at + 1 <= Len(buf)
<1>1. p \in [at : Nat, len : Nat] /\ result = "running" /\ p.len > 0
  BY DEF ReadInv, TypeOK, Opcode
<1>2. p.at \in Nat /\ p.len \in Nat
  BY <1>1, StringParts
<1>3. /\ p.at >= 1 /\ p.at + p.len = Len(buf) + 1
      /\ commit.at >= 1 /\ commit.at + commit.len <= Len(buf) + 1
  BY <1>1, <1>2 DEF ReadInv, CommitInside
<1>4. PICK w \in Nat : w = Width
  BY FeedNumbers
<1>5. Slice(p, 1 + Width, 0) =
              IF p.len <= 1 + Width THEN [at |-> p.at, len |-> 0]
              ELSE [at |-> p.at + 1 + Width, len |-> p.len - (1 + Width)]
  <2>1. 1 + w \in Nat
    OBVIOUS
  <2>2. /\ 1 + w >= p.len => Slice(p, 1 + w, 0) = [at |-> p.at, len |-> 0]
        /\ 1 + w < p.len =>
             Slice(p, 1 + w, 0) = [at |-> p.at + (1 + w), len |-> p.len - (1 + w)]
    BY <1>1, <2>1, SliceRest
  <2>3. p.at + (1 + w) = p.at + 1 + w
    BY <1>2
  <2>4. CASE p.len <= 1 + w
    BY <1>2, <1>4, <2>2, <2>4
  <2>5. CASE p.len > 1 + w
    BY <1>2, <1>4, <2>2, <2>3, <2>5
  <2>6. QED
    BY <1>2, <2>4, <2>5
<1>6. ASSUME Slice(p, 1, 1 + Width).len = Width
      PROVE  Slice(p, 1, 1 + Width).at = p.at + 1 /\ p.at + 1 <= Len(buf)
  <2>1. p.len > 1
    <3>1. p.len <= 1 => Slice(p, 1, 1 + Width).len # Width
      BY <1>1, SliceId
    <3>2. QED
      BY <1>2, <1>6, <3>1
  <2> DEFINE id == Slice(p, 1, 1 + Width)
  <2>2. id = [at |-> p.at + 1, len |-> Width]
    <3>1. p.len > 1 => id = [at |-> p.at + 1, len |-> Width]
      BY <1>1, SliceId
    <3>2. QED
      BY <2>1, <3>1
  <2> HIDE DEF id
  <2>3. id.at = p.at + 1
    BY <2>2
  <2>4. PICK n \in Nat : n = Len(buf)
    BY LenProperties DEF ReadInv, TypeOK
  <2>5. p.at + 1 <= n
    BY <1>2, <1>3, <2>1, <2>4
  <2>6. QED
    BY <2>3, <2>4, <2>5 DEF id
<1>7. QED
  BY <1>2, <1>3, <1>5, <1>6

LEMMA BranchKeepsRead ==
  ASSUME ReadInv, BranchOp
  PROVE  ReadInv'
<1> DEFINE bid == Slice(p, 1, 1 + Width)
           rest == Slice(p, 1 + Width, 0)
<1>1. TypeOK /\ Opcode(OpBranch) /\ branches' = branches + 1
  BY DEF ReadInv, BranchOp
<1>2. /\ p.at \in Nat /\ p.len \in Nat /\ p.at >= 1
      /\ p.at + p.len = Len(buf) + 1
      /\ commit.at >= 1 /\ commit.at + commit.len <= Len(buf) + 1
      /\ rest = IF p.len <= 1 + Width THEN [at |-> p.at, len |-> 0]
                ELSE [at |-> p.at + 1 + Width, len |-> p.len - (1 + Width)]
      /\ bid.len = Width => bid.at = p.at + 1 /\ p.at + 1 <= Len(buf)
  BY <1>1, BranchRest
<1>3. /\ DOMAIN Written = DOMAIN disk
      /\ \A f \in DOMAIN disk : Written[f] \in Seq(Byte)
  BY <1>1, <1>2, WrittenIs
<1>4. stale' \in BOOLEAN /\ refusal' \in BOOLEAN /\ wrapped' \in BOOLEAN
  BY <1>1, BranchFlags
<1>5. /\ DOMAIN disk \subseteq 0..(Word - 1) /\ file \in {-1} \cup DOMAIN disk
      /\ branches \in Nat /\ buf \in Seq(Byte) /\ p \in [at : Nat, len : Nat]
      /\ commit \in [at : Nat, len : Nat]
      /\ \A f \in DOMAIN disk : disk[f] \in Seq(Byte)
  BY <1>1 DEF TypeOK
<1>6. branches' \in Nat
  BY <1>1, <1>5
<1>7. ASSUME disk' = Written, file' = file \/ file' = -1, Refuse
      PROVE  ReadInv'
  <2>1. /\ buf' = buf /\ p' = p /\ commit' = commit /\ UNCHANGED request
        /\ result' = "400"
    BY <1>7 DEF Refuse
  <2>2. DOMAIN disk' = DOMAIN disk /\ \A f \in DOMAIN disk' : disk'[f] \in Seq(Byte)
    BY <1>3, <1>7
  <2>3. file' \in {-1} \cup DOMAIN disk' /\ DOMAIN disk' \subseteq 0..(Word - 1)
    BY <1>5, <1>7, <2>2
  <2>4. TypeOK'
    BY <1>1, <1>4, <1>5, <1>6, <2>1, <2>2, <2>3, TypesNext
  <2>5. CommitInside'
    BY <2>1 DEF CommitInside
  <2>6. QED
    BY <2>4, <2>5 DEF ReadInv
<1>8. ASSUME bid.len = Width, NEW id \in IdsAt(bid.at),
             disk' = [f \in DOMAIN disk \cup {id} |->
                        IF f \in DOMAIN disk THEN Written[f] ELSE << >>],
             file' = id, p' = rest, commit' = [at |-> rest.at, len |-> 0],
             UNCHANGED <<buf, result, refusal, request>>
      PROVE  ReadInv'
  <2>1. id \in 0..(Word - 1)
    <3>1. p.at + 1 \in Nat /\ 1 <= p.at + 1 /\ p.at + 1 <= Len(buf)
      BY <1>2, <1>8
    <3>2. id \in IdsAt(p.at + 1)
      BY <1>2, <1>8
    <3>3. QED
      BY <1>1, <3>1, <3>2, IdsTyped
  <2>2. /\ DOMAIN disk' = DOMAIN disk \cup {id}
        /\ \A f \in DOMAIN disk' : disk'[f] \in Seq(Byte)
    <3>1. << >> \in Seq(Byte)
      BY EmptySeq
    <3>2. QED
      BY <1>3, <1>8, <3>1
  <2>3. file' \in {-1} \cup DOMAIN disk' /\ DOMAIN disk' \subseteq 0..(Word - 1)
    BY <1>5, <1>8, <2>1, <2>2
  <2>4. PICK w \in Nat : w = Width
    BY FeedNumbers
  <2>5. PICK n \in Nat : n = Len(buf)
    BY <1>5, LenProperties
  <2>6. rest.at \in Nat /\ rest.len \in Nat /\ rest = [at |-> rest.at, len |-> rest.len]
    <3>1. CASE p.len <= 1 + w
      BY <1>2, <2>4, <3>1
    <3>2. CASE p.len > 1 + w
      BY <1>2, <2>4, <3>2
    <3>3. QED
      BY <1>2, <2>4, <3>1, <3>2
  <2>7. /\ rest.at >= 1 /\ rest.at <= n + 1
        /\ rest.len > 0 => rest.at + rest.len = n + 1
    <3>1. CASE p.len <= 1 + w
      BY <1>2, <1>8, <2>4, <2>5, <3>1
    <3>2. CASE p.len > 1 + w
      <4>1. rest.at = p.at + 1 + w /\ rest.len = p.len - (1 + w)
        BY <1>2, <2>4, <3>2
      <4> HIDE DEF rest
      <4>2. PICK x \in Nat, y \in Nat : x = p.at /\ y = p.len
        BY <1>2
      <4>3. x + y = n + 1 /\ x >= 1 /\ y > 1 + w
        BY <1>2, <2>5, <3>2, <4>2
      <4>4. QED
        BY <4>1, <4>2, <4>3
    <3>3. QED
      BY <1>2, <2>4, <3>1, <3>2
  <2> HIDE DEF rest
  <2>8. p' \in [at : Nat, len : Nat] /\ commit' \in [at : Nat, len : Nat]
    BY <1>8, <2>6
  <2>9. result' = "running" /\ buf' = buf /\ UNCHANGED request
    BY <1>1, <1>8 DEF Opcode
  <2>10. TypeOK'
    BY <1>1, <1>4, <1>5, <1>6, <2>2, <2>3, <2>8, <2>9, TypesNext
  <2>11. CommitInside'
    <3>1. p'.at = rest.at /\ p'.len = rest.len /\ commit'.at = rest.at /\ commit'.len = 0
      BY <1>8
    <3>2. QED
      BY <2>5, <2>6, <2>7, <2>9, <3>1 DEF CommitInside
  <2>12. QED
    BY <2>10, <2>11 DEF ReadInv
<1>9. \/ /\ bid.len # Width /\ disk' = Written /\ Refuse /\ file' = file
      \/ /\ bid.len = Width
         /\ \/ disk' = Written /\ file' = -1 /\ Refuse
            \/ \E id \in IdsAt(bid.at) :
                 /\ disk' = [f \in DOMAIN disk \cup {id} |->
                               IF f \in DOMAIN disk THEN Written[f] ELSE << >>]
                 /\ file' = id /\ p' = rest /\ commit' = [at |-> rest.at, len |-> 0]
                 /\ UNCHANGED <<buf, result, refusal, request>>
  BY DEF BranchOp
<1> HIDE DEF bid, rest
<1>10. QED
  BY <1>7, <1>8, <1>9

\* What an insert opcode that fits leaves to be read and to be written.
LEMMA InsertRest ==
  ASSUME ReadInv, InsertOp, p.len >= ChangeLen
  PROVE  LET rest == Slice(p, ChangeLen, 0)
             more == [commit EXCEPT !.len = @ + ChangeLen] IN
         /\ rest \in [at : Nat, len : Nat] /\ more \in [at : Nat, len : Nat]
         /\ rest.at >= 1 /\ more.at = commit.at
         /\ more.len = commit.len + ChangeLen
         /\ rest.len = p.len - ChangeLen
         /\ rest.len > 0 => rest.at = p.at + ChangeLen
         /\ rest.len > 0 => rest.at + rest.len = Len(buf) + 1
         /\ more.at + more.len <= Len(buf) + 1
         /\ rest.len > 0 => more.at + more.len = rest.at
<1> DEFINE rest == Slice(p, ChangeLen, 0)
           more == [commit EXCEPT !.len = @ + ChangeLen]
<1>1. /\ p \in [at : Nat, len : Nat] /\ commit \in [at : Nat, len : Nat]
      /\ result = "running" /\ p.len > 0 /\ file # -1 /\ p.len >= Header
  BY DEF ReadInv, TypeOK, InsertOp, Opcode
<1>2. PICK n \in Nat : n = Len(buf)
  BY LenProperties DEF ReadInv, TypeOK
<1>3. PICK x \in Nat, y \in Nat : x = p.at /\ y = p.len
  BY <1>1, StringParts
<1>4. PICK u \in Nat, v \in Nat : u = commit.at /\ v = commit.len
  BY <1>1, StringParts
<1>5. x >= 1 /\ x + y = n + 1 /\ u >= 1 /\ u + v = x
  BY <1>1, <1>2, <1>3, <1>4 DEF ReadInv, CommitInside
<1>6. PICK c \in Nat : c = ChangeLen
  <2>1. ChangeLen \in 0..(Word - 1) /\ Word \in Nat
    BY <1>1, InsertLengths, FeedNumbers
  <2>2. QED
    BY <2>1
<1>7. c <= y
  BY <1>3, <1>6
<1>8. /\ more \in [at : Nat, len : Nat]
      /\ more.at = u /\ more.len = v + c
  <2>1. commit = [at |-> u, len |-> v]
    BY <1>1, <1>4, StringParts
  <2>2. more = [at |-> u, len |-> v + c]
    BY <1>6, <2>1
  <2>3. v + c \in Nat
    OBVIOUS
  <2> HIDE DEF more
  <2>4. QED
    BY <2>2, <2>3
<1>9. /\ c >= y => Slice(p, c, 0) = [at |-> x, len |-> 0]
      /\ c < y => Slice(p, c, 0) = [at |-> x + c, len |-> y - c]
      /\ Slice(p, c, 0) \in [at : Nat, len : Nat]
  BY <1>1, <1>3, SliceRest
<1>10. /\ rest \in [at : Nat, len : Nat]
       /\ c = y => rest.at = x /\ rest.len = 0
       /\ c < y => rest.at = x + c /\ rest.len = y - c
  <2>1. rest = Slice(p, c, 0)
    BY <1>6
  <2> HIDE DEF rest
  <2>2. QED
    BY <1>7, <1>9, <2>1
<1> HIDE DEF rest, more
<1>11. /\ rest.at >= 1 /\ rest.len = y - c
       /\ rest.len > 0 => rest.at = x + c
  <2>1. CASE c = y
    BY <1>5, <1>10, <2>1
  <2>2. CASE c < y
    BY <1>5, <1>10, <2>2
  <2>3. QED
    BY <1>7, <2>1, <2>2
<1>12. /\ rest.len > 0 => rest.at + rest.len = n + 1
       /\ more.at + more.len <= n + 1
       /\ rest.len > 0 => more.at + more.len = rest.at
  BY <1>5, <1>7, <1>8, <1>11
<1>13. QED
  BY <1>2, <1>3, <1>4, <1>6, <1>8, <1>10, <1>11, <1>12 DEF rest, more

LEMMA InsertKeepsRead ==
  ASSUME ReadInv, InsertOp
  PROVE  ReadInv'
<1> DEFINE rest == Slice(p, ChangeLen, 0)
           more == [commit EXCEPT !.len = @ + ChangeLen]
<1>1. /\ TypeOK /\ result = "running" /\ file # -1 /\ p.len >= Header /\ Convert
      /\ UNCHANGED <<file, disk, branches, refusal, stale, request>>
  BY DEF ReadInv, InsertOp, Opcode
<1>2. buf' \in Seq(Byte) /\ Len(buf') = Len(buf)
  BY <1>1, ConvertIs
<1>3. wrapped' \in BOOLEAN
  <2>1. wrapped \in BOOLEAN
    BY <1>1 DEF TypeOK
  <2>2. QED
    BY <1>1, <2>1, Zenon DEF Convert
<1>4. /\ refusal' \in BOOLEAN /\ stale' \in BOOLEAN /\ branches' \in Nat
      /\ file' \in {-1} \cup DOMAIN disk' /\ DOMAIN disk' \subseteq 0..(Word - 1)
      /\ \A f \in DOMAIN disk' : disk'[f] \in Seq(Byte)
  BY <1>1 DEF TypeOK
<1>5. ASSUME p.len < ChangeLen, result' = "400", UNCHANGED <<p, commit>>
      PROVE  ReadInv'
  <2>1. p' \in [at : Nat, len : Nat] /\ commit' \in [at : Nat, len : Nat]
    BY <1>1, <1>5 DEF TypeOK
  <2>2. TypeOK'
    BY <1>1, <1>2, <1>3, <1>4, <1>5, <2>1, TypesNext
  <2>3. CommitInside'
    BY <1>5 DEF CommitInside
  <2>4. QED
    BY <2>2, <2>3 DEF ReadInv
<1>6. ASSUME p.len >= ChangeLen, commit' = more, p' = rest, result' = result
      PROVE  ReadInv'
  <2>1. /\ rest \in [at : Nat, len : Nat] /\ more \in [at : Nat, len : Nat]
        /\ rest.at >= 1 /\ more.at = commit.at
        /\ rest.len > 0 => rest.at + rest.len = Len(buf) + 1
        /\ more.at + more.len <= Len(buf) + 1
        /\ rest.len > 0 => more.at + more.len = rest.at
    BY <1>6, InsertRest
  <2> HIDE DEF rest, more
  <2>2. TypeOK'
    BY <1>1, <1>2, <1>3, <1>4, <1>6, <2>1, TypesNext
  <2>3. more.at >= 1
    BY <1>1, <2>1 DEF ReadInv, CommitInside
  <2>4. CommitInside'
    BY <1>1, <1>2, <1>6, <2>1, <2>3 DEF CommitInside
  <2>5. QED
    BY <2>2, <2>4 DEF ReadInv
<1>7. \/ p.len < ChangeLen /\ result' = "400" /\ UNCHANGED <<p, commit>>
      \/ p.len >= ChangeLen /\ commit' = more /\ p' = rest /\ result' = result
  BY DEF InsertOp
<1> HIDE DEF rest, more
<1>8. QED
  BY <1>5, <1>6, <1>7

LEMMA ReceiveKeepsRead ==
  ASSUME TypeOK, NEW body \in Seq(Byte), NEW l \in Lists \cup {None},
         feeds < MaxFeeds, Receive(body, l)
  PROVE  ReadInv'
<1>1. /\ buf' \in Seq(Byte) /\ text' \in Seq(Byte) /\ list' \in Lists \cup {None}
      /\ result' = "running" /\ file' = -1 /\ branches' \in Nat
      /\ disk' = disk
  BY DEF Receive
<1>2. PICK n \in Nat : n = Len(body)
  BY LenProperties
<1>3. p' = [at |-> 1, len |-> n] /\ buf' = body
  BY <1>2 DEF Receive, All
<1>4. commit' = [at |-> 1, len |-> 0]
  <2>1. Len(<< >>) = 0
    BY EmptySeq
  <2>2. QED
    BY <2>1 DEF Receive, All
<1>5. feeds' \in 0..MaxFeeds
  BY FeedAssumption DEF Receive, TypeOK
<1>6. refusal' \in BOOLEAN /\ wrapped' \in BOOLEAN /\ stale' \in BOOLEAN
  BY Zenon DEF Receive
<1>7. TypeOK'
  BY <1>1, <1>3, <1>4, <1>5, <1>6 DEF TypeOK
<1>8. CommitInside'
  BY <1>1, <1>2, <1>3, <1>4 DEF CommitInside
<1>9. QED
  BY <1>7, <1>8 DEF ReadInv

\* The two ways a request comes in.
LEMMA CallReceives ==
  ASSUME Call
  PROVE  \E body \in Seq(Byte), l \in Lists \cup {None} :
           /\ feeds < MaxFeeds /\ Receive(body, l)
           /\ l # None => body = TransferEncode(l)
<1>1. ASSUME NEW l \in Lists, Receive(TransferEncode(l), l)
      PROVE  TransferEncode(l) \in Seq(Byte) /\ l \in Lists \cup {None}
  BY ListTyped
<1>2. ASSUME NEW t \in Texts, Receive(t, None)
      PROVE  t \in Seq(Byte)
  BY FeedAssumption
<1>3. QED
  BY <1>1, <1>2 DEF Call

LEMMA RefuseKeepsRead ==
  ASSUME ReadInv, result = "running", Refuse,
         UNCHANGED <<file, disk, branches, refusal, wrapped, stale>>
  PROVE  ReadInv'
<1>1. TypeOK
  BY DEF ReadInv
<1>2. UNCHANGED <<buf, p, commit, request>> /\ result' = "400"
  BY DEF Refuse
<1>3. TypeOK'
  BY <1>1, <1>2 DEF TypeOK, request
<1>4. CommitInside'
  BY <1>2 DEF CommitInside
<1>5. QED
  BY <1>3, <1>4 DEF ReadInv

LEMMA FinishKeepsRead ==
  ASSUME ReadInv, Finish
  PROVE  ReadInv'
<1>1. /\ TypeOK /\ commit.at >= 1 /\ commit.at + commit.len <= Len(buf) + 1
  BY DEF ReadInv, CommitInside, Finish
<1>2. /\ DOMAIN Written = DOMAIN disk
      /\ \A f \in DOMAIN disk : Written[f] \in Seq(Byte)
  BY <1>1, WrittenIs
<1>3. /\ disk' = Written /\ result' = "200"
      /\ UNCHANGED <<buf, p, commit, file, branches, refusal, wrapped, stale, request>>
  BY DEF Finish
<1>4. TypeOK'
  BY <1>1, <1>2, <1>3 DEF TypeOK, request
<1>5. CommitInside'
  BY <1>3 DEF CommitInside
<1>6. QED
  BY <1>4, <1>5 DEF ReadInv

LEMMA ReadInit == Init => ReadInv
<1> SUFFICES ASSUME Init
             PROVE  ReadInv
  OBVIOUS
<1>1. PICK ids \in SUBSET (0..(Word - 1)) : disk \in [ids -> Seq(Byte)]
  BY FeedAssumption DEF Init
<1>2. << >> \in Seq(Byte) /\ Void \in [at : Nat, len : Nat]
  BY EmptySeq DEF Void
<1>3. refusal \in BOOLEAN /\ wrapped \in BOOLEAN /\ stale \in BOOLEAN
  BY Zenon DEF Init
<1>4. TypeOK
  BY <1>1, <1>2, <1>3, FeedAssumption DEF Init, TypeOK
<1>5. CommitInside
  BY DEF Init, CommitInside
<1>6. QED
  BY <1>4, <1>5 DEF ReadInv

LEMMA ReadNext == ReadInv /\ [Next]_vars => ReadInv'
<1> SUFFICES ASSUME ReadInv, [Next]_vars
             PROVE  ReadInv'
  OBVIOUS
<1>1. CASE Call
  <2>1. PICK body \in Seq(Byte), l \in Lists \cup {None} :
               feeds < MaxFeeds /\ Receive(body, l)
    BY <1>1, CallReceives
  <2>2. QED
    BY <2>1, ReceiveKeepsRead DEF ReadInv
<1>2. CASE BranchOp
  BY <1>2, BranchKeepsRead
<1>3. CASE InsertOp
  BY <1>3, InsertKeepsRead
<1>4. CASE BadInsert
  BY <1>4, RefuseKeepsRead DEF BadInsert, Opcode
<1>5. CASE UnknownOp
  BY <1>5, RefuseKeepsRead DEF UnknownOp
<1>6. CASE Finish
  BY <1>6, FinishKeepsRead
<1>7. CASE UNCHANGED vars
  BY <1>7 DEF vars, handler, request, ReadInv, TypeOK, CommitInside
<1>8. QED
  BY <1>1, <1>2, <1>3, <1>4, <1>5, <1>6, <1>7 DEF Next, Step

LEMMA ReadStays == Spec => []ReadInv
BY ReadInit, ReadNext, PTL DEF Spec

\* The handler's variables keep their types: files hold bytes, and branch ids
\* that stand past the end of a request are numbers of four bytes all the same.
THEOREM FeedTyped == Spec => []TypeOK
<1>1. ReadInv => TypeOK
  BY DEF ReadInv
<1>2. QED
  BY <1>1, ReadStays, PTL

\* Whatever lengths a request claims, the handler reads and writes inside it.
THEOREM ReadingStaysInside == Spec => []CommitInside
<1>1. ReadInv => CommitInside
  BY DEF ReadInv
<1>2. QED
  BY <1>1, ReadStays, PTL

-----------------------------------------------------------------------------
(* A refused request leaves no change *)

\* The files are as they were, but for new ones that are empty.
Kept ==
  \A f \in DOMAIN disk :
    disk[f] = IF f \in DOMAIN before THEN before[f] ELSE << >>

\* Until the second branch opcode nothing is written: before the first there is
\* no file to write to, and with the first there is nothing to write yet.
RefusedInv ==
  /\ result = "running" /\ branches = 0 => file = -1 /\ disk = before
  /\ result = "running" /\ branches = 1 => Kept
  /\ RefusedLeavesFiles

LEMMA RefusedInit == Init => RefusedInv
BY DEF Init, RefusedInv, RefusedLeavesFiles

LEMMA BranchKeepsRefused ==
  ASSUME ReadInv, RefusedInv, BranchOp
  PROVE  RefusedInv'
<1>1. /\ result = "running" /\ branches' = branches + 1 /\ branches \in Nat
      /\ UNCHANGED request
  BY DEF BranchOp, Refuse, Opcode, ReadInv, TypeOK
<1>2. CASE branches # 0
  <2>1. branches' # 0 /\ branches' # 1 /\ ~(branches' <= 1)
    BY <1>1, <1>2
  <2>2. QED
    BY <2>1 DEF RefusedInv, RefusedLeavesFiles
<1>3. CASE branches = 0
  <2>1. file = -1 /\ disk = before
    BY <1>1, <1>3 DEF RefusedInv
  <2>2. Written = disk /\ branches' = 1 /\ before' = before
    BY <1>1, <1>3, <2>1 DEF Written, request
  <2>3. \/ disk' = Written
        \/ \E id \in Nat : disk' = [f \in DOMAIN disk \cup {id} |->
                              IF f \in DOMAIN disk THEN Written[f] ELSE << >>]
    <3>1. Opcode(OpBranch)
      BY DEF BranchOp
    <3>2. ASSUME Slice(p, 1, 1 + Width).len = Width,
                 NEW id \in IdsAt(Slice(p, 1, 1 + Width).at)
          PROVE  id \in Nat
      <4>1. /\ p.at \in Nat /\ p.at + 1 <= Len(buf)
            /\ Slice(p, 1, 1 + Width).at = p.at + 1
        BY <3>1, <3>2, BranchRest
      <4>2. p.at + 1 \in Nat /\ 1 <= p.at + 1 /\ id \in IdsAt(p.at + 1)
        BY <3>2, <4>1
      <4>3. id \in 0..(Word - 1)
        BY <4>1, <4>2, IdsTyped DEF ReadInv
      <4>4. QED
        BY <4>3, FeedNumbers
    <3>3. QED
      BY <3>2 DEF BranchOp
  <2>4. Kept'
    BY <2>1, <2>2, <2>3 DEF Kept
  <2>5. QED
    BY <2>2, <2>4 DEF RefusedInv, RefusedLeavesFiles, Kept
<1>4. QED
  BY <1>2, <1>3

\* A step that writes nothing and meets no branch.
LEMMA QuietKeepsRefused ==
  ASSUME ReadInv, RefusedInv, result = "running", UNCHANGED <<disk, before, branches, file>>
  PROVE  RefusedInv'
<1>1. branches \in Nat /\ (branches <= 1 => branches = 0 \/ branches = 1)
  BY DEF ReadInv, TypeOK
<1>2. branches <= 1 => Kept
  <2>1. CASE branches = 0
    BY <2>1 DEF RefusedInv, Kept
  <2>2. CASE branches = 1
    BY <2>2 DEF RefusedInv
  <2>3. QED
    BY <1>1, <2>1, <2>2
<1>3. branches <= 1 => Kept'
  BY <1>2 DEF Kept
<1>4. RefusedLeavesFiles'
  BY <1>3 DEF RefusedLeavesFiles, Kept
<1>5. branches' = 1 => branches' <= 1
  OBVIOUS
<1>6. QED
  BY <1>3, <1>4, <1>5 DEF RefusedInv

LEMMA RefusedNext == ReadInv /\ RefusedInv /\ [Next]_vars => RefusedInv'
<1> SUFFICES ASSUME ReadInv, RefusedInv, [Next]_vars
             PROVE  RefusedInv'
  OBVIOUS
<1>1. CASE Call
  <2>1. PICK body \in Seq(Byte), l \in Lists \cup {None} : Receive(body, l)
    BY <1>1, CallReceives
  <2>2. QED
    BY <2>1 DEF Receive, RefusedInv, RefusedLeavesFiles
<1>2. CASE BranchOp
  BY <1>2, BranchKeepsRefused
<1>3. CASE InsertOp
  BY <1>3, QuietKeepsRefused DEF InsertOp, Opcode, request
<1>4. CASE BadInsert
  BY <1>4, QuietKeepsRefused DEF BadInsert, Refuse, Opcode, request
<1>5. CASE UnknownOp
  BY <1>5, QuietKeepsRefused DEF UnknownOp, Refuse, request
<1>6. CASE Finish
  BY <1>6 DEF Finish, RefusedInv, RefusedLeavesFiles
<1>7. CASE UNCHANGED vars
  BY <1>7 DEF vars, handler, request, RefusedInv, Kept, RefusedLeavesFiles
<1>8. QED
  BY <1>1, <1>2, <1>3, <1>4, <1>5, <1>6, <1>7 DEF Next, Step

\* A request that the handler refuses leaves no change in any file, unless it
\* is for more than one branch.
THEOREM RefusalLeavesFiles == Spec => []RefusedLeavesFiles
<1>1. RefusedInv => RefusedLeavesFiles
  BY DEF RefusedInv
<1>2. QED
  BY <1>1, ReadStays, RefusedInit, RefusedNext, PTL DEF Spec

-----------------------------------------------------------------------------
(* What a page sends is stored as it sent it *)

\* The first k changes of a list, as they are sent and as they are stored.
Sent(l, k) == Flat(First(l.changes, k), FALSE)
Stored(l, k) == Flat(First(l.changes, k), TRUE)

\* The length of the k-th change, and of the first k.
Long(l, k) == Header + Len(l.changes[k].last) + Len(l.changes[k].now)
Sum(l, k) == Len(Sent(l, k))

LEMMA SentSteps ==
  ASSUME NEW l \in Lists, NEW n \in Nat, n = Len(l.changes)
  PROVE  /\ Sent(l, 0) = << >> /\ Stored(l, 0) = << >> /\ Sum(l, 0) = 0
         /\ Sent(l, n) = Flat(l.changes, FALSE) /\ Stored(l, n) = Flat(l.changes, TRUE)
         /\ \A k \in 0..n : Sum(l, k) \in Nat /\ Sent(l, k) \in Seq(Byte)
                            /\ Stored(l, k) \in Seq(Byte)
         /\ \A k \in 1..n : l.changes[k] \in ChangeRecords /\ Long(l, k) \in Nat
                            /\ Long(l, k) >= Header
         /\ \A k \in 1..n :
              Join(Sent(l, k), Sent(l, k - 1), Sum(l, k - 1),
                   ChangeBytes(l.changes[k], FALSE), Long(l, k))
<1>1. l.changes \in Seq(ChangeRecords) /\ FALSE \in BOOLEAN /\ TRUE \in BOOLEAN
  BY ListTyped
<1>2. /\ Sent(l, n) = Flat(l.changes, FALSE) /\ Sent(l, 0) = << >>
      /\ \A k \in 0..n : Sent(l, k) \in Seq(Byte)
      /\ \A k \in 1..n :
           Sent(l, k) = Sent(l, k - 1) \o ChangeBytes(l.changes[k], FALSE)
  BY <1>1, FlatSteps DEF Sent
<1>3. /\ Stored(l, n) = Flat(l.changes, TRUE) /\ Stored(l, 0) = << >>
      /\ \A k \in 0..n : Stored(l, k) \in Seq(Byte)
  BY <1>1, FlatSteps DEF Stored
<1>4. \A k \in 1..n : l.changes[k] \in ChangeRecords
  BY <1>1, ElementOfSeq
<1>5. ASSUME NEW k \in 1..n
      PROVE  Long(l, k) \in Nat /\ Long(l, k) >= Header
  <2>1. l.changes[k].last \in Seq(Byte) /\ l.changes[k].now \in Seq(Byte)
    BY <1>4 DEF ChangeRecords
  <2>2. PICK a \in Nat, b \in Nat :
               a = Len(l.changes[k].last) /\ b = Len(l.changes[k].now)
    BY <2>1, LenProperties
  <2>3. Long(l, k) = Header + a + b
    BY <2>2 DEF Long
  <2>4. Header \in Nat
    BY FeedNumbers
  <2>5. QED
    BY <2>3, <2>4
<1>6. \A k \in 0..n : Sum(l, k) \in Nat
  BY <1>2, LenProperties DEF Sum
<1>7. Sum(l, 0) = 0
  BY <1>2, EmptySeq DEF Sum
<1>8. ASSUME NEW k \in 1..n
      PROVE  Join(Sent(l, k), Sent(l, k - 1), Sum(l, k - 1),
                  ChangeBytes(l.changes[k], FALSE), Long(l, k))
  <2> DEFINE b == ChangeBytes(l.changes[k], FALSE)
  <2>1. b \in Seq(Byte) /\ Len(b) = Long(l, k)
    BY <1>1, <1>4, ChangeLayout DEF Layout, Long
  <2>2. k - 1 \in 0..n
    OBVIOUS
  <2>3. Sent(l, k - 1) \in Seq(Byte) /\ Sum(l, k - 1) \in Nat
        /\ Len(Sent(l, k - 1)) = Sum(l, k - 1)
    BY <1>2, <1>6, <2>2 DEF Sum
  <2> HIDE DEF b
  <2>4. Join(Sent(l, k - 1) \o b, Sent(l, k - 1), Sum(l, k - 1), b, Long(l, k))
    BY <1>5, <2>1, <2>3, Joins
  <2>5. QED
    BY <1>2, <2>4 DEF b
<1>9. QED
  BY <1>2, <1>3, <1>4, <1>5, <1>6, <1>7, <1>8

\* As many bytes are stored as were sent.
LEMMA StoredSteps ==
  ASSUME NEW l \in Lists, NEW n \in Nat, n = Len(l.changes)
  PROVE  /\ \A k \in 0..n : Len(Stored(l, k)) = Sum(l, k)
         /\ \A k \in 1..n :
              Join(Stored(l, k), Stored(l, k - 1), Sum(l, k - 1),
                   ChangeBytes(l.changes[k], TRUE), Long(l, k))
<1>1. /\ Sum(l, 0) = 0 /\ Stored(l, 0) = << >>
      /\ \A k \in 0..n : Sum(l, k) \in Nat /\ Stored(l, k) \in Seq(Byte)
      /\ \A k \in 1..n : l.changes[k] \in ChangeRecords /\ Long(l, k) \in Nat
      /\ \A k \in 1..n :
           Join(Sent(l, k), Sent(l, k - 1), Sum(l, k - 1),
                ChangeBytes(l.changes[k], FALSE), Long(l, k))
  BY SentSteps
<1>2. l.changes \in Seq(ChangeRecords) /\ TRUE \in BOOLEAN
  BY ListTyped
<1>3. \A k \in 1..n :
        Stored(l, k) = Stored(l, k - 1) \o ChangeBytes(l.changes[k], TRUE)
  BY <1>2, FlatSteps DEF Stored
<1>4. ASSUME NEW k \in 1..n, Len(Stored(l, k - 1)) = Sum(l, k - 1)
      PROVE  Join(Stored(l, k), Stored(l, k - 1), Sum(l, k - 1),
                  ChangeBytes(l.changes[k], TRUE), Long(l, k))
  <2> DEFINE b == ChangeBytes(l.changes[k], TRUE)
  <2>1. b \in Seq(Byte) /\ Len(b) = Long(l, k)
    BY <1>1, <1>2, ChangeLayout DEF Layout, Long
  <2>2. k - 1 \in 0..n
    OBVIOUS
  <2>3. Stored(l, k - 1) \in Seq(Byte) /\ Sum(l, k - 1) \in Nat
    BY <1>1, <2>2
  <2> HIDE DEF b
  <2>4. Join(Stored(l, k - 1) \o b, Stored(l, k - 1), Sum(l, k - 1), b, Long(l, k))
    BY <1>1, <1>4, <2>1, <2>3, Joins
  <2>5. QED
    BY <1>3, <2>4 DEF b
<1> DEFINE T == {k \in 0..n : Len(Stored(l, k)) = Sum(l, k)}
<1>5. 0 \in T
  BY <1>1, EmptySeq
<1>6. \A k \in 0..(n - 1) : k \in T => k + 1 \in T
  <2> SUFFICES ASSUME NEW k \in 0..(n - 1), k \in T
               PROVE  k + 1 \in T
    OBVIOUS
  <2>1. k + 1 \in 1..n /\ k + 1 \in 0..n /\ (k + 1) - 1 = k
    OBVIOUS
  <2>2. Join(Stored(l, k + 1), Stored(l, k), Sum(l, k),
             ChangeBytes(l.changes[k + 1], TRUE), Long(l, k + 1))
    BY <1>4, <2>1
  <2>3. Join(Sent(l, k + 1), Sent(l, k), Sum(l, k),
             ChangeBytes(l.changes[k + 1], FALSE), Long(l, k + 1))
    BY <1>1, <2>1
  <2>4. Len(Stored(l, k + 1)) = Sum(l, k + 1)
    BY <2>2, <2>3 DEF Join, Sum
  <2>5. QED
    BY <2>1, <2>4
<1>7. 0..n \subseteq T
  <2> HIDE DEF T
  <2>1. QED
    BY <1>5, <1>6, Induction
<1>8. \A k \in 1..n : k - 1 \in 0..n
  OBVIOUS
<1>9. QED
  BY <1>4, <1>7, <1>8

\* The k-th change is where those before it end, and those after it follow.
LEMMA SentParts ==
  ASSUME NEW l \in Lists, NEW n \in Nat, n = Len(l.changes), NEW k \in 0..n
  PROVE  /\ Sum(l, k) <= Sum(l, n)
         /\ \A i \in 1..Sum(l, k) : Sent(l, n)[i] = Sent(l, k)[i]
<1>1. /\ \A j \in 0..n : Sum(l, j) \in Nat
      /\ \A j \in 1..n : Long(l, j) \in Nat
      /\ \A j \in 1..n :
           Join(Sent(l, j), Sent(l, j - 1), Sum(l, j - 1),
                ChangeBytes(l.changes[j], FALSE), Long(l, j))
  BY SentSteps
<1> DEFINE T == {j \in 0..(n - k) :
                  /\ Sum(l, k) <= Sum(l, k + j)
                  /\ \A i \in 1..Sum(l, k) : Sent(l, k + j)[i] = Sent(l, k)[i]}
<1>2. 0 \in T /\ n - k \in Nat
  <2>1. k + 0 = k
    OBVIOUS
  <2>2. QED
    BY <1>1, <2>1
<1>3. \A j \in 0..((n - k) - 1) : j \in T => j + 1 \in T
  <2> SUFFICES ASSUME NEW j \in 0..((n - k) - 1), j \in T
               PROVE  j + 1 \in T
    OBVIOUS
  <2>1. PICK m \in 0..n : m = k + j /\ m + 1 = k + (j + 1) /\ m + 1 \in 1..n
        /\ m + 1 \in 0..n /\ (m + 1) - 1 = m
    OBVIOUS
  <2>2. /\ Sum(l, k) <= Sum(l, m)
        /\ \A i \in 1..Sum(l, k) : Sent(l, m)[i] = Sent(l, k)[i]
    BY <2>1
  <2>3. Join(Sent(l, m + 1), Sent(l, m), Sum(l, m),
             ChangeBytes(l.changes[m + 1], FALSE), Long(l, m + 1))
    BY <1>1, <2>1
  <2>4. PICK a \in Nat, b \in Nat, c \in Nat :
             a = Sum(l, k) /\ b = Sum(l, m) /\ c = Long(l, m + 1)
    BY <1>1, <2>1
  <2>5. Sum(l, m + 1) = b + c
    BY <2>3, <2>4 DEF Join, Sum
  <2>6. \A i \in 1..b : Sent(l, m + 1)[i] = Sent(l, m)[i]
    <3>1. \A i \in 1..(b + c) : Sent(l, m + 1)[i] =
            IF i <= b THEN Sent(l, m)[i]
            ELSE ChangeBytes(l.changes[m + 1], FALSE)[i - b]
      BY <2>3, <2>4, Zenon DEF Join
    <3>2. \A i \in 1..b : i \in 1..(b + c) /\ i <= b
      OBVIOUS
    <3>3. QED
      BY <3>1, <3>2, Zenon
  <2>7. \A i \in 1..a : Sent(l, m + 1)[i] = Sent(l, k)[i]
    BY <2>2, <2>4, <2>6
  <2>8. a <= b + c
    BY <2>2, <2>4
  <2>9. Sum(l, k) <= Sum(l, k + (j + 1))
    BY <2>1, <2>4, <2>5, <2>8
  <2>10. \A i \in 1..Sum(l, k) : Sent(l, k + (j + 1))[i] = Sent(l, k)[i]
    BY <2>1, <2>4, <2>7
  <2>11. j + 1 \in 0..(n - k)
    OBVIOUS
  <2>12. QED
    BY <2>9, <2>10, <2>11
<1>4. 0..(n - k) \subseteq T
  <2> HIDE DEF T
  <2>1. QED
    BY <1>2, <1>3, Induction
<1>5. k + (n - k) = n /\ n - k \in 0..(n - k)
  OBVIOUS
<1>6. QED
  BY <1>4, <1>5

\* A transfer: the opcode, the id, and the changes.
LEMMA TransferLayout ==
  ASSUME NEW l \in Lists, NEW n \in Nat, n = Len(l.changes)
  PROVE  LET t == TransferEncode(l) IN
         /\ t \in Seq(Byte) /\ Len(t) = 1 + Width + Sum(l, n) /\ Len(t) < Word
         /\ t[1] = OpBranch
         /\ \A i \in 1..Width : t[1 + i] = Encoded(l.id)[i]
         /\ \A i \in 1..Sum(l, n) : t[1 + Width + i] = Sent(l, n)[i]
<1> DEFINE o == <<OpBranch>>
           e == Encoded(l.id)
           a == o \o e
           b == Sent(l, n)
           t == a \o b
<1>1. PICK w \in Nat : w = Width
  BY FeedNumbers
<1>2. PICK m \in Nat : m = Sum(l, n)
  <2>1. n \in 0..n
    OBVIOUS
  <2>2. QED
    BY <2>1, SentSteps
<1>3. o \in Seq(Byte) /\ Len(o) = 1 /\ o[1] = OpBranch
  BY FeedNumbers
<1>4. e \in Seq(Byte) /\ Len(e) = w
  <2>1. l.id \in Nat
    BY ListTyped, FeedNumbers
  <2>2. QED
    BY <1>1, <2>1, EncodedIsWord
<1>5. b \in Seq(Byte) /\ Len(b) = m /\ b = Flat(l.changes, FALSE)
  <2>1. n \in 0..n
    OBVIOUS
  <2>2. QED
    BY <1>2, <2>1, SentSteps DEF Sum
<1>6. TransferEncode(l) = t
  BY <1>5 DEF TransferEncode
<1> HIDE DEF o, e, b
<1>7. Join(a, o, 1, e, w)
  <2>1. 1 \in Nat
    OBVIOUS
  <2>2. QED
    BY <1>3, <1>4, <2>1, Joins
<1> HIDE DEF a
<1>8. a \in Seq(Byte) /\ Len(a) = 1 + w /\ 1 + w \in Nat
  BY <1>7 DEF Join
<1>9. Join(t, a, 1 + w, b, m)
  BY <1>5, <1>8, Joins
<1> HIDE DEF t
<1>10. \A i \in 1..(1 + w) : t[i] = a[i]
  BY <1>9 DEF Join
<1>11. t[1] = OpBranch
  <2>1. a[1] = o[1]
    BY <1>7 DEF Join
  <2>2. QED
    BY <1>3, <1>10, <2>1
<1>12. ASSUME NEW i \in 1..w
       PROVE  t[1 + i] = e[i]
  <2>1. t[1 + i] = a[1 + i] /\ (1 + i) - 1 = i
    BY <1>10
  <2>2. a[1 + i] = e[(1 + i) - 1]
    BY <1>7 DEF Join
  <2>3. QED
    BY <2>1, <2>2
<1>13. ASSUME NEW i \in 1..m
       PROVE  t[1 + w + i] = b[i]
  <2>1. (1 + w + i) - (1 + w) = i
    OBVIOUS
  <2>2. t[1 + w + i] = b[(1 + w + i) - (1 + w)]
    BY <1>9 DEF Join
  <2>3. QED
    BY <2>1, <2>2
<1>14. t \in Seq(Byte) /\ Len(t) = 1 + w + m
  BY <1>9 DEF Join
<1>15. Len(t) < Word
  BY <1>6, TransferAssumption
<1>16. QED
  BY <1>1, <1>2, <1>6, <1>11, <1>12, <1>13, <1>14, <1>15 DEF e, b

\* A change is stored as it was sent, but for its lengths, which are turned
\* round.
LEMMA TurnedRound ==
  ASSUME NEW change \in ChangeRecords, NEW n \in Nat,
         n = Header + Len(change.last) + Len(change.now), NEW j \in 1..n
  PROVE  ChangeBytes(change, TRUE)[j] =
           ChangeBytes(change, FALSE)[
             IF j \in (2 + Width)..(1 + 2 * Width) THEN 3 + 3 * Width - j
             ELSE IF j \in (2 + 2 * Width)..(1 + 3 * Width) THEN 3 + 5 * Width - j
             ELSE j]
<1> DEFINE T == ChangeBytes(change, TRUE)
           F == ChangeBytes(change, FALSE)
           e == Encoded(change.pos)
           u == change.last
           v == change.now
           su == Encoded(Len(u))
           sv == Encoded(Len(v))
<1>1. PICK w \in Nat : w = Width /\ Header = 1 + 3 * w
  BY FeedNumbers
<1>2. u \in Seq(Byte) /\ v \in Seq(Byte)
  BY DEF ChangeRecords
<1>3. PICK a \in Nat, b \in Nat : a = Len(u) /\ b = Len(v)
  BY <1>2, LenProperties
<1>4. Layout(T, change, TRUE) /\ Layout(F, change, FALSE)
  BY ChangeLayout
<1>5. /\ \A i \in 1..w : Size(u, TRUE)[i] = su[w + 1 - i] /\ Size(u, FALSE)[i] = su[i]
      /\ \A i \in 1..w : Size(v, TRUE)[i] = sv[w + 1 - i] /\ Size(v, FALSE)[i] = sv[i]
  BY <1>1, <1>2, SizeIsWord
<1> HIDE DEF T, F, e, su, sv
<1>6. /\ T[1] = OpInsert /\ F[1] = OpInsert
      /\ \A i \in 1..w : T[1 + i] = e[i] /\ F[1 + i] = e[i]
      /\ \A i \in 1..w : T[1 + w + i] = Size(u, TRUE)[i]
                         /\ F[1 + w + i] = Size(u, FALSE)[i]
      /\ \A i \in 1..w : T[1 + 2 * w + i] = Size(v, TRUE)[i]
                         /\ F[1 + 2 * w + i] = Size(v, FALSE)[i]
      /\ \A i \in 1..a : T[1 + 3 * w + i] = u[i] /\ F[1 + 3 * w + i] = u[i]
      /\ \A i \in 1..b : T[1 + 3 * w + a + i] = v[i] /\ F[1 + 3 * w + a + i] = v[i]
  BY <1>1, <1>3, <1>4, Zenon DEF Layout, e
<1> HIDE DEF u, v
<1>7. n = 1 + 3 * w + a + b
  BY <1>1, <1>3 DEF u, v
<1> DEFINE from == IF j \in (2 + w)..(1 + 2 * w) THEN 3 + 3 * w - j
                   ELSE IF j \in (2 + 2 * w)..(1 + 3 * w) THEN 3 + 5 * w - j
                   ELSE j
<1>8. ASSUME j = 1
      PROVE  T[j] = F[from]
  BY <1>6, <1>8
<1>9. ASSUME j \in 2..(1 + w)
      PROVE  T[j] = F[from]
  <2>1. j - 1 \in 1..w /\ 1 + (j - 1) = j /\ from = j
    BY <1>9
  <2>2. T[1 + (j - 1)] = F[1 + (j - 1)]
    BY <1>6, <2>1
  <2>3. QED
    BY <2>1, <2>2
<1>10. ASSUME j \in (2 + w)..(1 + 2 * w)
      PROVE  T[j] = F[from]
  <2>1. PICK i \in 1..w : i = j - (1 + w) /\ 1 + w + i = j
    BY <1>10
  <2>2. PICK h \in 1..w : h = w + 1 - i /\ 1 + w + h = 3 + 3 * w - j
    BY <2>1
  <2>3. from = 1 + w + h
    BY <1>10, <2>2
  <2>4. T[1 + w + i] = su[w + 1 - i] /\ F[1 + w + h] = su[h]
    BY <1>5, <1>6, ZenonT(30)
  <2> HIDE DEF from
  <2>5. T[j] = F[from]
    BY <2>1, <2>2, <2>3, <2>4
  <2>6. QED
    BY <2>5 DEF from
<1>11. ASSUME j \in (2 + 2 * w)..(1 + 3 * w)
      PROVE  T[j] = F[from]
  <2>1. PICK i \in 1..w : i = j - (1 + 2 * w) /\ 1 + 2 * w + i = j
    BY <1>11
  <2>2. PICK h \in 1..w : h = w + 1 - i /\ 1 + 2 * w + h = 3 + 5 * w - j
    BY <2>1
  <2>3. from = 1 + 2 * w + h
    BY <1>11, <2>2
  <2>4. T[1 + 2 * w + i] = sv[w + 1 - i] /\ F[1 + 2 * w + h] = sv[h]
    BY <1>5, <1>6
  <2> HIDE DEF from
  <2>5. T[j] = F[from]
    BY <2>1, <2>2, <2>3, <2>4
  <2>6. QED
    BY <2>5 DEF from
<1>12. ASSUME j \in (2 + 3 * w)..(1 + 3 * w + a)
      PROVE  T[j] = F[from]
  <2>1. PICK i \in 1..a : 1 + 3 * w + i = j
    <3>1. j - (1 + 3 * w) \in 1..a /\ 1 + 3 * w + (j - (1 + 3 * w)) = j
      BY <1>12
    <3>2. QED
      BY <3>1
  <2>2. from = j
    BY <1>12
  <2>3. T[1 + 3 * w + i] = F[1 + 3 * w + i]
    BY <1>6
  <2>4. QED
    BY <2>1, <2>2, <2>3
<1>13. ASSUME j \in (2 + 3 * w + a)..n
      PROVE  T[j] = F[from]
  <2>1. PICK i \in 1..b : 1 + 3 * w + a + i = j
    <3>1. j - (1 + 3 * w + a) \in 1..b /\ 1 + 3 * w + a + (j - (1 + 3 * w + a)) = j
      BY <1>7, <1>13
    <3>2. QED
      BY <3>1
  <2>2. from = j
    BY <1>13
  <2>3. T[1 + 3 * w + a + i] = F[1 + 3 * w + a + i]
    BY <1>6
  <2>4. QED
    BY <2>1, <2>2, <2>3
<1>14. T[j] = F[from]
  BY <1>7, <1>8, <1>9, <1>10, <1>11, <1>12, <1>13
<1>15. QED
  BY <1>1, <1>14 DEF T, F

\* The id that is read is the one that was sent.
LEMMA IdRead ==
  ASSUME NEW l \in Lists, buf = TransferEncode(l), NEW id \in IdsAt(2)
  PROVE  id = l.id
<1> DEFINE m == Smaller(2 + Width - 1, Len(buf))
           inside == SubSeq(buf, 2, m)
           e == Encoded(l.id)
<1>1. PICK n \in Nat : n = Len(l.changes)
  BY ListTyped, LenProperties
<1>2. PICK w \in Nat : w = Width
  BY FeedNumbers
<1>3. PICK s \in Nat : s = Sum(l, n)
  <2>1. n \in 0..n
    OBVIOUS
  <2>2. QED
    BY <1>1, <2>1, SentSteps
<1>4. /\ buf \in Seq(Byte) /\ Len(buf) = 1 + w + s
      /\ \A i \in 1..w : buf[1 + i] = e[i]
  BY <1>1, <1>2, <1>3, TransferLayout
<1>5. m = 1 + w
  BY <1>2, <1>3, <1>4 DEF Smaller
<1>6. e \in Seq(Byte) /\ Len(e) = w /\ Value(e) = l.id
  <2>1. l.id \in 0..(Word - 1) /\ l.id \in Nat
    BY ListTyped, FeedNumbers
  <2>2. QED
    BY <1>2, <2>1, EncodedIsWord, EncodedValue
<1>7. /\ inside \in Seq(Byte) /\ Len(inside) = w
      /\ \A i \in 1..w : inside[i] = buf[1 + i]
  <2>1. \A i \in 2..(1 + w) : buf[i] \in Byte
    <3>1. \A i \in 2..(1 + w) : i \in 1..Len(buf)
      BY <1>3, <1>4
    <3>2. QED
      BY <1>4, <3>1, ElementOfSeq
  <2>2. 2 \in Int /\ 1 + w \in Int
    OBVIOUS
  <2>3. /\ SubSeq(buf, 2, 1 + w) \in Seq(Byte)
        /\ Len(SubSeq(buf, 2, 1 + w)) = IF 2 <= 1 + w THEN (1 + w) - 2 + 1 ELSE 0
        /\ \A i \in 1..((1 + w) - 2 + 1) : SubSeq(buf, 2, 1 + w)[i] = buf[2 + i - 1]
    BY <2>1, <2>2, SubSeqProperties
  <2> DEFINE z == SubSeq(buf, 2, 1 + w)
  <2>4. inside = z
    BY <1>5
  <2> HIDE DEF z, inside
  <2>5. \A i \in 1..w : 2 + i - 1 = 1 + i /\ i \in 1..((1 + w) - 2 + 1)
    OBVIOUS
  <2>6. Len(z) = w
    BY <2>3 DEF z
  <2>7. \A i \in 1..w : z[i] = buf[1 + i]
    BY <2>3, <2>5 DEF z
  <2>8. QED
    BY <2>3, <2>4, <2>6, <2>7 DEF z
<1>8. PICK left \in [1..(Width - Len(inside)) -> Byte] : id = Value(inside \o left)
  BY DEF IdsAt
<1> HIDE DEF inside, m, e
<1>9. left \in Seq(Byte) /\ Len(left) = 0
  <2>1. left \in [1..0 -> Byte]
    BY <1>2, <1>7, <1>8
  <2>2. left \in Seq(Byte)
    BY <2>1, SeqDef
  <2>3. DOMAIN left = 1..0
    BY <2>1
  <2>4. QED
    BY <2>2, <2>3
<1>10. left = << >>
  BY <1>9, EmptySeq
<1>11. inside \o left = inside
  BY <1>7, <1>10, ConcatEmptySeq
<1>12. inside = e
  BY <1>4, <1>6, <1>7, SeqEqual
<1>13. QED
  BY <1>6, <1>8, <1>11, <1>12

AtStart == buf = text /\ p = All(text) /\ file = -1

\* What the loop of the handler has done when it has read k changes of a list:
\* they are in the machine's order, and the rest is as it was sent.
Gathered(k) ==
  LET done == 1 + Width + Sum(list, k) IN
  /\ commit.len = Sum(list, k)
  /\ commit.len > 0 \/ p.len > 0 => commit.at = 2 + Width
  /\ p.len = Len(text) - done
  /\ p.len > 0 => p.at = 1 + done
  /\ Len(buf) = Len(text)
  /\ \A a \in (done + 1)..Len(text) : buf[a] = text[a]
  /\ \A i \in 1..Sum(list, k) : buf[1 + Width + i] = Stored(list, k)[i]

\* The branch is open, and no file has been written to.
Opened ==
  /\ file = list.id
  /\ disk = [f \in DOMAIN before \cup {list.id} |->
               IF f \in DOMAIN before THEN before[f] ELSE << >>]

SendInv ==
  /\ list # None => text = TransferEncode(list)
  /\ list # None /\ ~refusal =>
       /\ result = "running" /\ branches = 0 => AtStart /\ disk = before
       /\ result = "running" /\ branches # 0 =>
            Opened /\ \E k \in 0..Len(list.changes) : Gathered(k)
  /\ StoredAsSent

LEMMA GatheredParts ==
  ASSUME NEW k, Gathered(k)
  PROVE  /\ commit.len = Sum(list, k)
         /\ commit.len > 0 \/ p.len > 0 => commit.at = 2 + Width
         /\ p.len = Len(text) - (1 + Width + Sum(list, k))
         /\ p.len > 0 => p.at = 1 + (1 + Width + Sum(list, k))
         /\ Len(buf) = Len(text)
BY DEF Gathered

\* A list that is being read: its bytes, as numbers.
LEMMA Sending ==
  ASSUME ReadInv, list # None, text = TransferEncode(list)
  PROVE  \E n \in Nat, w \in Nat, s \in Nat :
           /\ list \in Lists /\ n = Len(list.changes) /\ w = Width /\ w > 0
           /\ Header = 1 + 3 * w /\ s = Sum(list, n)
           /\ Len(text) = 1 + w + s /\ 1 + w + s < Word /\ text \in Seq(Byte)
           /\ text[1] = OpBranch
           /\ \A i \in 1..s : text[1 + w + i] = Sent(list, n)[i]
<1>1. list \in Lists
  BY DEF ReadInv, TypeOK
<1>2. PICK n \in Nat : n = Len(list.changes)
  BY <1>1, ListTyped, LenProperties
<1>3. PICK w \in Nat : w = Width /\ w > 0 /\ Header = 1 + 3 * w
  BY FeedNumbers
<1>4. PICK s \in Nat : s = Sum(list, n)
  <2>1. n \in 0..n
    OBVIOUS
  <2>2. QED
    BY <1>1, <1>2, <2>1, SentSteps
<1>5. /\ Len(text) = 1 + w + s /\ 1 + w + s < Word /\ text \in Seq(Byte)
      /\ text[1] = OpBranch
      /\ \A i \in 1..s : text[1 + w + i] = Sent(list, n)[i]
  BY <1>1, <1>2, <1>3, <1>4, TransferLayout
<1>6. QED
  BY <1>1, <1>2, <1>3, <1>4, <1>5, ZenonT(30)

\* The first opcode opens the branch of the list.
LEMMA StartSends ==
  ASSUME ReadInv, list # None, text = TransferEncode(list), ~refusal,
         result = "running", branches = 0, AtStart, disk = before,
         BranchOp, ~refusal'
  PROVE  /\ result' = "running" /\ branches' # 0 /\ UNCHANGED request
         /\ Opened' /\ Gathered(0)'
<1>1. PICK n \in Nat, w \in Nat, s \in Nat :
           /\ list \in Lists /\ n = Len(list.changes) /\ w = Width /\ w > 0
           /\ Len(text) = 1 + w + s
  BY Sending
<1>2. buf = text /\ p = [at |-> 1, len |-> 1 + w + s] /\ file = -1
  BY <1>1 DEF AtStart, All
<1>3. p \in [at : Nat, len : Nat] /\ p.at = 1 /\ p.len = 1 + w + s /\ p.len > 1
  BY <1>1, <1>2
<1>4. Slice(p, 1, 1 + Width) = [at |-> 2, len |-> Width]
  <2>1. Slice(p, 1, 1 + Width) = [at |-> p.at + 1, len |-> Width]
    BY <1>3, SliceId
  <2>2. QED
    BY <1>3, <2>1
<1>5. Slice(p, 1, 1 + Width).len = Width /\ Slice(p, 1, 1 + Width).at = 2
  BY <1>4
<1>6. Written = disk
  BY <1>2 DEF Written
<1> DEFINE rest == Slice(p, 1 + Width, 0)
<1>7. PICK id \in IdsAt(2) :
             /\ disk' = [f \in DOMAIN disk \cup {id} |->
                           IF f \in DOMAIN disk THEN disk[f] ELSE << >>]
             /\ file' = id /\ p' = rest /\ commit' = [at |-> rest.at, len |-> 0]
             /\ UNCHANGED <<buf, result, refusal, request>>
  <2>1. \E id \in IdsAt(Slice(p, 1, 1 + Width).at) :
             /\ disk' = [f \in DOMAIN disk \cup {id} |->
                           IF f \in DOMAIN disk THEN Written[f] ELSE << >>]
             /\ file' = id /\ p' = rest /\ commit' = [at |-> rest.at, len |-> 0]
             /\ UNCHANGED <<buf, result, refusal, request>>
    <3> HIDE DEF rest
    <3>1. QED
      BY <1>5 DEF BranchOp, rest
  <2> HIDE DEF rest
  <2>2. QED
    BY <1>5, <1>6, <2>1
<1>8. id = list.id
  BY <1>1, <1>2, IdRead
<1>9. list' = list /\ before' = before /\ text' = text
  BY <1>7 DEF request
<1>10. Opened'
  BY <1>7, <1>8, <1>9 DEF Opened
<1>11. branches' # 0
  BY DEF BranchOp
<1>12. /\ s = 0 => rest.at = 1 /\ rest.len = 0
       /\ s > 0 => rest.at = 2 + w /\ rest.len = s
  <2>1. 1 + w \in Nat
    OBVIOUS
  <2>2. /\ 1 + w >= p.len => Slice(p, 1 + w, 0) = [at |-> p.at, len |-> 0]
        /\ 1 + w < p.len => Slice(p, 1 + w, 0) = [at |-> p.at + (1 + w), len |-> p.len - (1 + w)]
    BY <1>3, <2>1, SliceRest
  <2>3. rest = Slice(p, 1 + w, 0)
    BY <1>1
  <2> HIDE DEF rest
  <2>4. ASSUME s = 0
        PROVE  rest.at = 1 /\ rest.len = 0
    BY <1>3, <2>2, <2>3, <2>4
  <2>5. ASSUME s > 0
        PROVE  rest.at = 2 + w /\ rest.len = s
    BY <1>3, <2>2, <2>3, <2>5
  <2>6. QED
    BY <2>4, <2>5
<1> HIDE DEF rest
<1>13. Sum(list, 0) = 0
  BY <1>1, SentSteps
<1>14. Gathered(0)'
  <2>1. commit'.len = 0 /\ commit'.at = rest.at /\ p' = rest /\ buf' = text
    BY <1>2, <1>7
  <2>2. rest.len = s
    BY <1>12
  <2>3. rest.len > 0 => rest.at = 2 + w
    BY <1>12, <2>2
  <2>4. Sum(list', 0) = 0
    BY <1>9, <1>13
  <2>5. (Sum(list, 0))' = 0
    BY <2>4
  <2>6. 1 + Width + 0 = 1 + w /\ 2 + Width = 2 + w /\ 1 + (1 + w) = 2 + w
    BY <1>1
  <2>7. Len(text') = 1 + w + s /\ buf' = text' /\ p'.len = s
    BY <1>1, <1>9, <2>1, <2>2
  <2>8. p'.len = Len(text') - (1 + Width + 0)
    BY <2>6, <2>7
  <2>9. p'.len > 0 => p'.at = 1 + (1 + Width + 0)
    BY <2>1, <2>3, <2>6
  <2>10. commit'.len > 0 \/ p'.len > 0 => commit'.at = 2 + Width
    BY <2>1, <2>3, <2>6
  <2>11. commit'.len = 0
    BY <2>1
  <2>12. \A i \in 1..0 : buf'[1 + Width + i] = (Stored(list, 0)[i])'
    OBVIOUS
  <2>13. QED
    BY <2>5, <2>7, <2>8, <2>9, <2>10, <2>11, <2>12 DEF Gathered
<1>15. QED
  BY <1>7, <1>10, <1>11, <1>14

\* While something is left to be read, the next change of the list is ahead, as
\* it was sent.
Ahead(k) ==
  LET bytes == ChangeBytes(list.changes[k + 1], FALSE) IN
  /\ k + 1 \in 1..Len(list.changes)
  /\ p.at = 2 + Width + Sum(list, k)
  /\ Len(bytes) = Long(list, k + 1)
  /\ \A j \in 1..Long(list, k + 1) : buf[p.at - 1 + j] = bytes[j]
  /\ Sum(list, k + 1) = Sum(list, k) + Long(list, k + 1)
  /\ p.len >= Long(list, k + 1)
  /\ Long(list, k + 1) < Word

LEMMA ChangeAhead ==
  ASSUME ReadInv, list # None, text = TransferEncode(list),
         NEW k \in 0..Len(list.changes), Gathered(k), p.len > 0
  PROVE  Ahead(k) /\ buf[p.at] = OpInsert
<1>1. PICK n \in Nat, w \in Nat, s \in Nat :
           /\ list \in Lists /\ n = Len(list.changes) /\ w = Width /\ w > 0
           /\ Header = 1 + 3 * w /\ s = Sum(list, n)
           /\ Len(text) = 1 + w + s /\ 1 + w + s < Word
           /\ \A i \in 1..s : text[1 + w + i] = Sent(list, n)[i]
  BY Sending
<1>2. k \in 0..n /\ k \in Nat
  BY <1>1
<1>3. PICK a \in Nat : a = Sum(list, k)
  BY <1>1, <1>2, SentSteps
<1>4. /\ p.len = 1 + w + s - (1 + w + a) /\ p.at = 1 + (1 + w + a)
      /\ \A i \in (1 + w + a + 1)..(1 + w + s) : buf[i] = text[i]
  BY <1>1, <1>3, SMTT(30) DEF Gathered
<1>5. a < s
  BY <1>4
<1>6. k # n
  BY <1>1, <1>3, <1>5
<1>7. k + 1 \in 1..n /\ k + 1 \in 0..n /\ (k + 1) - 1 = k
  BY <1>2, <1>6
<1>8. /\ list.changes[k + 1] \in ChangeRecords
      /\ Long(list, k + 1) \in Nat /\ Long(list, k + 1) >= Header
      /\ Join(Sent(list, k + 1), Sent(list, k), Sum(list, k),
              ChangeBytes(list.changes[k + 1], FALSE), Long(list, k + 1))
  BY <1>1, <1>7, SentSteps
<1>9. PICK c \in Nat : c = Long(list, k + 1) /\ c >= 1
  BY <1>1, <1>8
<1> DEFINE b == ChangeBytes(list.changes[k + 1], FALSE)
<1>10. Len(b) = c /\ b[1] = OpInsert
  BY <1>8, <1>9, ChangeLayout DEF Layout, Long
<1> HIDE DEF b
<1>11. /\ Len(Sent(list, k + 1)) = a + c
       /\ \A i \in 1..(a + c) : Sent(list, k + 1)[i] =
            IF i <= a THEN Sent(list, k)[i] ELSE b[i - a]
  BY <1>3, <1>8, <1>9, Zenon DEF Join, b
<1>12. Sum(list, k + 1) = a + c
  BY <1>11 DEF Sum
<1>13. /\ a + c <= s
       /\ \A i \in 1..(a + c) : Sent(list, n)[i] = Sent(list, k + 1)[i]
  <2>1. PICK m \in 0..n : m = k + 1
    BY <1>7
  <2>2. /\ Sum(list, m) <= Sum(list, n)
        /\ \A i \in 1..Sum(list, m) : Sent(list, n)[i] = Sent(list, m)[i]
    BY <1>1, SentParts
  <2>3. Sum(list, m) = a + c
    BY <1>12, <2>1
  <2>4. a + c <= s
    BY <1>1, <2>2, <2>3
  <2>5. \A i \in 1..(a + c) : Sent(list, n)[i] = Sent(list, m)[i]
    BY <2>2, <2>3
  <2>6. QED
    BY <2>1, <2>4, <2>5
<1>14. ASSUME NEW j \in 1..c
       PROVE  buf[p.at - 1 + j] = b[j]
  <2>1. /\ a + j \in 1..(a + c) /\ ~(a + j <= a) /\ (a + j) - a = j
        /\ a + j \in 1..s
    BY <1>13
  <2>2. Sent(list, k + 1)[a + j] = b[j]
    BY <1>11, <2>1
  <2>3. text[1 + w + (a + j)] = b[j]
    BY <1>1, <1>13, <2>1, <2>2
  <2>4. /\ p.at - 1 + j = 1 + w + (a + j)
        /\ 1 + w + (a + j) \in (1 + w + a + 1)..(1 + w + s)
    BY <1>4, <2>1
  <2>5. QED
    BY <1>4, <2>3, <2>4
<1>15. buf[p.at] = OpInsert
  <2>1. 1 \in 1..c /\ p.at - 1 + 1 = p.at
    BY <1>4, <1>9
  <2>2. QED
    BY <1>10, <1>14, <2>1
<1>16. p.len >= c /\ c < Word /\ p.at = 2 + w + a
  <2>1. Word \in Nat
    BY FeedNumbers
  <2>2. c < Word
    BY <1>1, <1>13, <2>1
  <2>3. p.len >= c
    BY <1>4, <1>13
  <2>4. p.at = 2 + w + a
    BY <1>4
  <2>5. QED
    BY <2>2, <2>3, <2>4
<1>17. Ahead(k)
  BY <1>1, <1>3, <1>7, <1>9, <1>10, <1>12, <1>14, <1>16 DEF Ahead, b
<1>18. QED
  BY <1>15, <1>17

\* The lengths of the change ahead are read as they were written.
LEMMA AheadLengths ==
  ASSUME ReadInv, result = "running", list \in Lists,
         NEW k \in Nat, Ahead(k)
  PROVE  p.len >= Header /\ ChangeLen = Long(list, k + 1)
<1> DEFINE change == list.changes[k + 1]
           F == ChangeBytes(change, FALSE)
           u == change.last
           v == change.now
<1>1. PICK n \in Nat : n = Len(list.changes)
  BY ListTyped, LenProperties
<1>2. k + 1 \in 1..n
  BY <1>1 DEF Ahead
<1>3. change \in ChangeRecords
  BY <1>1, <1>2, SentSteps
<1>4. u \in Seq(Byte) /\ v \in Seq(Byte)
  BY <1>3 DEF ChangeRecords
<1>5. PICK a \in Nat, b \in Nat : a = Len(u) /\ b = Len(v)
  BY <1>4, LenProperties
<1>6. PICK w \in Nat : w = Width /\ w > 0 /\ Header = 1 + 3 * w
  BY FeedNumbers
<1>7. Long(list, k + 1) = 1 + 3 * w + a + b
  BY <1>5, <1>6 DEF Long
<1>8. PICK x \in Nat : x = p.at
  BY StringParts DEF ReadInv, TypeOK
<1>9. /\ p.len >= Header /\ 1 + 3 * w + a + b < Word
      /\ \A j \in 1..(1 + 3 * w + a + b) : buf[x - 1 + j] = F[j]
  <2>1. /\ p.len >= 1 + 3 * w + a + b /\ 1 + 3 * w + a + b < Word
        /\ \A j \in 1..(1 + 3 * w + a + b) : buf[x - 1 + j] = F[j]
    BY <1>7, <1>8 DEF Ahead
  <2>2. PICK y \in Nat : y = p.len
    BY StringParts DEF ReadInv, TypeOK
  <2>3. y >= 1 + 3 * w + a + b
    BY <2>1, <2>2
  <2>4. y >= 1 + 3 * w
    BY <2>3
  <2>5. QED
    BY <1>6, <2>1, <2>2, <2>4
<1>10. Layout(F, change, FALSE)
  BY <1>3, ChangeLayout
<1>11. Size(u, FALSE) = Encoded(a) /\ Size(v, FALSE) = Encoded(b)
  BY <1>4, <1>5, SizeIsWord
<1> HIDE DEF F, u, v, change
<1>12. /\ \A i \in 1..w : F[1 + w + i] = Encoded(a)[i]
       /\ \A i \in 1..w : F[1 + 2 * w + i] = Encoded(b)[i]
  BY <1>6, <1>10, <1>11, Zenon DEF Layout, u, v
<1>13. /\ LastLen = x + 1 + w /\ NewLen = x + 1 + 2 * w
       /\ NewLen + w <= Len(buf) + 1 /\ x >= 1
  BY <1>6, <1>8, <1>9, InsertLengths
<1>14. ASSUME NEW y \in Nat, y >= 1, y + w <= Len(buf) + 1, NEW z \in 0..(Word - 1),
              \A i \in 1..w : buf[y + i - 1] = Encoded(z)[i]
       PROVE  At(y) = z
  <2> DEFINE word == SubSeq(buf, y, y + w - 1)
             e == Encoded(z)
  <2>1. e \in Seq(Byte) /\ Len(e) = w /\ Value(e) = z
    <3>1. z \in Nat
      BY FeedNumbers
    <3>2. QED
      BY <1>6, <3>1, EncodedIsWord, EncodedValue
  <2>2. PICK m \in Nat : m = Len(buf) /\ \A i \in 1..m : buf[i] \in Byte
    BY LenProperties, ElementOfSeq DEF ReadInv, TypeOK
  <2>3. \A i \in y..(y + w - 1) : buf[i] \in Byte
    BY <1>14, <2>2
  <2>4. y \in Int /\ y + w - 1 \in Int /\ (y + w - 1) - y + 1 = w /\ y <= y + w - 1
    BY <1>6
  <2>5. /\ word \in Seq(Byte)
        /\ Len(word) = IF y <= y + w - 1 THEN (y + w - 1) - y + 1 ELSE 0
        /\ \A i \in 1..((y + w - 1) - y + 1) : word[i] = buf[y + i - 1]
    BY <2>3, <2>4, SubSeqProperties
  <2> HIDE DEF word, e
  <2>6. Len(word) = w /\ \A i \in 1..w : word[i] = e[i]
    BY <1>14, <2>4, <2>5 DEF e
  <2>7. word = e
    BY <2>1, <2>5, <2>6, SeqEqual
  <2>8. QED
    BY <1>6, <2>1, <2>7 DEF At, word
<1>15. At(LastLen) = a
  <2>1. a \in 0..(Word - 1) /\ x + 1 + w \in Nat /\ x + 1 + w >= 1
        /\ x + 1 + w + w <= Len(buf) + 1
    <3>1. Word \in Nat
      BY FeedNumbers
    <3>2. PICK m \in Nat : m = Len(buf)
      BY LenProperties DEF ReadInv, TypeOK
    <3>3. x + 1 + 2 * w + w <= m + 1
      BY <1>13, <3>2
    <3>4. QED
      BY <1>9, <3>1, <3>2, <3>3
  <2>2. ASSUME NEW i \in 1..w
        PROVE  buf[x + 1 + w + i - 1] = Encoded(a)[i]
    <3>1. 1 + w + i \in 1..(1 + 3 * w + a + b) /\ x - 1 + (1 + w + i) = x + 1 + w + i - 1
      OBVIOUS
    <3>2. buf[x - 1 + (1 + w + i)] = F[1 + w + i]
      BY <1>9, <3>1
    <3>3. QED
      BY <1>12, <3>1, <3>2
  <2>3. At(x + 1 + w) = a
    BY <1>14, <2>1, <2>2
  <2>4. QED
    BY <1>13, <2>3
<1>16. At(NewLen) = b
  <2>1. b \in 0..(Word - 1) /\ x + 1 + 2 * w \in Nat /\ x + 1 + 2 * w >= 1
        /\ x + 1 + 2 * w + w <= Len(buf) + 1
    <3>1. Word \in Nat
      BY FeedNumbers
    <3>2. QED
      BY <1>9, <1>13, <3>1
  <2>2. ASSUME NEW i \in 1..w
        PROVE  buf[x + 1 + 2 * w + i - 1] = Encoded(b)[i]
    <3>1. 1 + 2 * w + i \in 1..(1 + 3 * w + a + b) /\ x - 1 + (1 + 2 * w + i) = x + 1 + 2 * w + i - 1
      OBVIOUS
    <3>2. buf[x - 1 + (1 + 2 * w + i)] = F[1 + 2 * w + i]
      BY <1>9, <3>1
    <3>3. QED
      BY <1>12, <3>1, <3>2
  <2>3. At(x + 1 + 2 * w) = b
    BY <1>14, <2>1, <2>2
  <2>4. QED
    BY <1>13, <2>3
<1>17. ChangeLen = 1 + 3 * w + a + b
  <2>1. Header + a + b = 1 + 3 * w + a + b /\ Header + a + b \in Nat /\ Word \in Nat
    BY <1>6, FeedNumbers
  <2>2. (Header + a + b) % Word = Header + a + b
    BY <1>9, <2>1, RemainderSmall
  <2>3. QED
    BY <1>15, <1>16, <2>1, <2>2 DEF ChangeLen
<1>18. QED
  BY <1>7, <1>9, <1>17

\* Reading it turns its lengths round and adds it to what will be written.
LEMMA InsertSends ==
  ASSUME ReadInv, list # None, text = TransferEncode(list),
         NEW k \in 0..Len(list.changes), Gathered(k), p.len > 0, InsertOp
  PROVE  /\ result' = "running" /\ k + 1 \in 0..Len(list.changes)
         /\ Gathered(k + 1)'
<1>1. PICK n \in Nat, w \in Nat, s \in Nat :
           /\ list \in Lists /\ n = Len(list.changes) /\ w = Width /\ w > 0
           /\ Header = 1 + 3 * w /\ Len(text) = 1 + w + s
  BY Sending
<1>2. Ahead(k)
  BY ChangeAhead
<1>3. k \in Nat /\ k + 1 \in 1..n /\ k + 1 \in 0..n /\ (k + 1) - 1 = k
  BY <1>1, <1>2 DEF Ahead
<1>4. result = "running" /\ Convert /\ UNCHANGED request
  BY DEF InsertOp, Opcode
<1>5. p.len >= Header /\ ChangeLen = Long(list, k + 1)
  BY <1>1, <1>2, <1>3, <1>4, AheadLengths
<1>6. PICK a \in Nat, c \in Nat :
             /\ a = Sum(list, k) /\ c = Long(list, k + 1) /\ c >= Header
             /\ list.changes[k + 1] \in ChangeRecords
  BY <1>1, <1>3, SentSteps
<1>7. PICK y \in Nat, x \in Nat : y = p.len /\ x = p.at
  BY StringParts DEF ReadInv, TypeOK
<1>8. c <= y /\ p.len >= ChangeLen /\ ~(p.len < ChangeLen)
  <2>1. c <= y
    BY <1>2, <1>6, <1>7 DEF Ahead
  <2>2. p.len = y /\ ChangeLen = c
    BY <1>5, <1>6, <1>7
  <2>3. QED
    BY <2>1, <2>2
<1> DEFINE rest == Slice(p, ChangeLen, 0)
           more == [commit EXCEPT !.len = @ + ChangeLen]
<1>9. commit' = more /\ p' = rest /\ result' = "running"
  BY <1>4, <1>8 DEF InsertOp
<1>10. /\ more.at = commit.at /\ more.len = commit.len + c
       /\ rest.len = y - c
       /\ rest.len > 0 => rest.at = x + c
  BY <1>5, <1>6, <1>7, <1>8, InsertRest
<1> HIDE DEF rest, more
<1>11. Sum(list, k + 1) = a + c
  BY <1>2, <1>6 DEF Ahead
<1>12. /\ commit.len = a /\ commit.at = 2 + w
       /\ y = 1 + w + s - (1 + w + a)
       /\ x = 2 + w + a
       /\ Len(buf) = 1 + w + s
       /\ \A i \in (1 + w + a + 1)..(1 + w + s) : buf[i] = text[i]
       /\ \A i \in 1..a : buf[1 + w + i] = Stored(list, k)[i]
  <2>1. x = 2 + w + a
    BY <1>1, <1>2, <1>6, <1>7 DEF Ahead
  <2>2. commit.len = a /\ commit.at = 2 + w
    BY <1>1, <1>6 DEF Gathered
  <2>3. y = 1 + w + s - (1 + w + a) /\ Len(buf) = 1 + w + s
    BY <1>1, <1>6, <1>7, GatheredParts
  <2>4. \A i \in (1 + w + a + 1)..(1 + w + s) : buf[i] = text[i]
    BY <1>1, <1>6 DEF Gathered
  <2>5. \A i \in 1..a : buf[1 + w + i] = Stored(list, k)[i]
    BY <1>1, <1>6 DEF Gathered
  <2>6. QED
    BY <2>1, <2>2, <2>3, <2>4, <2>5
<1>13. /\ Len(buf') = Len(buf)
       /\ \A i \in 1..Len(buf) : buf'[i] =
            IF i \in LastLen..(NewLen - 1) THEN buf[LastLen + NewLen - 1 - i]
            ELSE IF i \in NewLen..(NewLen + Width - 1)
            THEN buf[2 * NewLen + Width - 1 - i]
            ELSE buf[i]
  BY <1>4, <1>5, ConvertIs
<1>14. LastLen = x + 1 + w /\ NewLen = x + 1 + 2 * w
  BY <1>1, <1>7 DEF LastLen, NewLen
<1>15. \A i \in 1..(1 + w + s) : buf'[i] =
            IF i \in (x + 1 + w)..(x + 2 * w) THEN buf[2 * x + 1 + 3 * w - i]
            ELSE IF i \in (x + 1 + 2 * w)..(x + 3 * w)
            THEN buf[2 * x + 1 + 5 * w - i]
            ELSE buf[i]
  <2> SUFFICES ASSUME NEW i \in 1..(1 + w + s)
               PROVE  buf'[i] =
            IF i \in (x + 1 + w)..(x + 2 * w) THEN buf[2 * x + 1 + 3 * w - i]
            ELSE IF i \in (x + 1 + 2 * w)..(x + 3 * w)
            THEN buf[2 * x + 1 + 5 * w - i]
            ELSE buf[i]
    OBVIOUS
  <2>1. buf'[i] =
            IF i \in LastLen..(NewLen - 1) THEN buf[LastLen + NewLen - 1 - i]
            ELSE IF i \in NewLen..(NewLen + Width - 1)
            THEN buf[2 * NewLen + Width - 1 - i]
            ELSE buf[i]
    BY <1>12, <1>13
  <2>2. /\ (x + 1 + 2 * w) - 1 = x + 2 * w
        /\ (x + 1 + w) + (x + 1 + 2 * w) - 1 - i = 2 * x + 1 + 3 * w - i
        /\ (x + 1 + 2 * w) + w - 1 = x + 3 * w
        /\ 2 * (x + 1 + 2 * w) + w - 1 - i = 2 * x + 1 + 5 * w - i
    OBVIOUS
  <2>3. QED
    BY <1>1, <1>14, <2>1, <2>2
<1>16. c >= 1 + 3 * w /\ a + c <= s /\ x = 2 + w + a
  <2>1. y = 1 + w + s - (1 + w + a) /\ x = 2 + w + a
    BY <1>12
  <2>2. a + c <= s
    BY <1>8, <2>1
  <2>3. c >= 1 + 3 * w
    BY <1>1, <1>6
  <2>4. QED
    BY <2>1, <2>2, <2>3
<1>17. \A i \in (1 + w + (a + c) + 1)..(1 + w + s) : buf'[i] = text[i]
  <2> SUFFICES ASSUME NEW i \in (1 + w + (a + c) + 1)..(1 + w + s)
               PROVE  buf'[i] = text[i]
    OBVIOUS
  <2>1. /\ i \in 1..(1 + w + s)
        /\ ~(i \in (x + 1 + w)..(x + 2 * w))
        /\ ~(i \in (x + 1 + 2 * w)..(x + 3 * w))
        /\ i \in (1 + w + a + 1)..(1 + w + s)
    BY <1>16
  <2>2. QED
    BY <1>12, <1>15, <2>1
<1>18. PICK m \in Nat : m = Len(list.changes)
  BY <1>1
<1>19. /\ \A i \in 1..a : Stored(list, k + 1)[i] = Stored(list, k)[i]
       /\ \A j \in 1..c : Stored(list, k + 1)[a + j] =
                            ChangeBytes(list.changes[k + 1], TRUE)[j]
  <2> DEFINE b == ChangeBytes(list.changes[k + 1], TRUE)
  <2>1. Join(Stored(list, k + 1), Stored(list, k), a, b, c)
    BY <1>1, <1>3, <1>6, StoredSteps
  <2> HIDE DEF b
  <2>2. \A i \in 1..(a + c) :
          Stored(list, k + 1)[i] = IF i <= a THEN Stored(list, k)[i] ELSE b[i - a]
    BY <2>1, Zenon DEF Join
  <2>3. \A i \in 1..a : i \in 1..(a + c) /\ i <= a
    OBVIOUS
  <2>4. \A i \in 1..a : Stored(list, k + 1)[i] = Stored(list, k)[i]
    BY <2>2, <2>3
  <2>5. \A j \in 1..c : a + j \in 1..(a + c) /\ ~(a + j <= a) /\ (a + j) - a = j
    OBVIOUS
  <2>6. \A j \in 1..c : Stored(list, k + 1)[a + j] = b[j]
    BY <2>2, <2>5
  <2>7. QED
    BY <2>4, <2>6 DEF b
<1>20. ASSUME NEW j \in 1..c
       PROVE  buf'[1 + w + (a + j)] = ChangeBytes(list.changes[k + 1], TRUE)[j]
  <2> DEFINE F == ChangeBytes(list.changes[k + 1], FALSE)
             from == IF j \in (2 + w)..(1 + 2 * w) THEN 3 + 3 * w - j
                     ELSE IF j \in (2 + 2 * w)..(1 + 3 * w) THEN 3 + 5 * w - j
                     ELSE j
             i == 1 + w + (a + j)
  <2>1. ChangeBytes(list.changes[k + 1], TRUE)[j] = F[from]
    BY <1>1, <1>6, TurnedRound DEF Long
  <2>2. \A h \in 1..c : buf[x - 1 + h] = F[h]
    BY <1>2, <1>6, <1>7 DEF Ahead
  <2> HIDE DEF F
  <2>3. i \in 1..(1 + w + s) /\ i = x - 1 + j
    BY <1>12, <1>16
  <2>4. from \in 1..c
    BY <1>16
  <2>5. buf'[i] = buf[x - 1 + from]
    <3>1. ASSUME j \in (2 + w)..(1 + 2 * w)
          PROVE  buf'[i] = buf[x - 1 + from]
      <4>1. i \in (x + 1 + w)..(x + 2 * w) /\ from = 3 + 3 * w - j
        BY <2>3, <3>1
      <4>2. 2 * x + 1 + 3 * w - i = x - 1 + from
        BY <2>3, <4>1
      <4> HIDE DEF from, i
      <4>3. QED
        BY <1>15, <2>3, <4>1, <4>2
    <3>2. ASSUME j \in (2 + 2 * w)..(1 + 3 * w)
          PROVE  buf'[i] = buf[x - 1 + from]
      <4>1. /\ i \in (x + 1 + 2 * w)..(x + 3 * w) /\ from = 3 + 5 * w - j
            /\ ~(i \in (x + 1 + w)..(x + 2 * w))
        BY <2>3, <3>2
      <4>2. 2 * x + 1 + 5 * w - i = x - 1 + from
        BY <2>3, <4>1
      <4> HIDE DEF from, i
      <4>3. QED
        BY <1>15, <2>3, <4>1, <4>2
    <3>3. ASSUME ~(j \in (2 + w)..(1 + 2 * w)), ~(j \in (2 + 2 * w)..(1 + 3 * w))
          PROVE  buf'[i] = buf[x - 1 + from]
      <4>1. /\ ~(i \in (x + 1 + w)..(x + 2 * w)) /\ from = j
            /\ ~(i \in (x + 1 + 2 * w)..(x + 3 * w))
        BY <2>3, <3>3
      <4> HIDE DEF from, i
      <4>2. QED
        BY <1>15, <2>3, <4>1
    <3>4. QED
      BY <3>1, <3>2, <3>3
  <2>6. QED
    <3> HIDE DEF from, i
    <3>1. buf'[i] = F[from]
      BY <2>2, <2>4, <2>5
    <3>2. QED
      BY <2>1, <3>1 DEF i
<1>21. \A i \in 1..(a + c) : buf'[1 + w + i] = Stored(list, k + 1)[i]
  <2> SUFFICES ASSUME NEW i \in 1..(a + c)
               PROVE  buf'[1 + w + i] = Stored(list, k + 1)[i]
    OBVIOUS
  <2>1. CASE i <= a
    <3>1. /\ 1 + w + i \in 1..(1 + w + s) /\ i \in 1..a
          /\ ~(1 + w + i \in (x + 1 + w)..(x + 2 * w))
          /\ ~(1 + w + i \in (x + 1 + 2 * w)..(x + 3 * w))
      BY <1>16, <2>1
    <3>2. buf'[1 + w + i] = buf[1 + w + i]
      BY <1>15, <3>1
    <3>3. QED
      BY <1>12, <1>19, <3>1, <3>2
  <2>2. CASE i > a
    <3>1. PICK j \in 1..c : i = a + j
      <4>1. i - a \in 1..c /\ i = a + (i - a)
        BY <2>2
      <4>2. QED
        BY <4>1
    <3>2. QED
      BY <1>19, <1>20, <3>1
  <2>3. QED
    BY <2>1, <2>2
<1>22. list' = list /\ text' = text
  BY <1>4 DEF request
<1>23. Gathered(k + 1)'
  <2>1. (Sum(list, k + 1))' = a + c /\ (Stored(list, k + 1))' = Stored(list, k + 1)
    BY <1>11, <1>22
  <2>2. commit'.len = a + c /\ commit'.at = 2 + w
    BY <1>9, <1>10, <1>12
  <2>3. p'.len = (1 + w + s) - (1 + w + (a + c))
    BY <1>9, <1>10, <1>12
  <2>4. p'.len > 0 => p'.at = 1 + (1 + w + (a + c))
    <3>1. x + c = 1 + (1 + w + (a + c))
      BY <1>12
    <3>2. QED
      BY <1>9, <1>10, <3>1
  <2>5. Len(buf') = 1 + w + s
    BY <1>12, <1>13
  <2>6. QED
    BY <1>1, <1>17, <1>21, <1>22, <2>1, <2>2, <2>3, <2>4, <2>5, Zenon DEF Gathered
<1>24. QED
  BY <1>1, <1>3, <1>9, <1>23

\* At the end of the request all changes are read, and written to the file.
LEMMA FinishSends ==
  ASSUME ReadInv, list # None, text = TransferEncode(list),
         NEW k \in 0..Len(list.changes), Gathered(k), Opened, Finish
  PROVE  StoredAsSent'
<1>1. PICK n \in Nat, w \in Nat, s \in Nat :
           /\ list \in Lists /\ n = Len(list.changes) /\ w = Width /\ w > 0
           /\ Header = 1 + 3 * w /\ s = Sum(list, n) /\ Len(text) = 1 + w + s
  BY Sending
<1>2. /\ result' = "200" /\ disk' = Written /\ UNCHANGED request
      /\ result = "running" /\ p.len = 0
  BY DEF Finish
<1>3. k \in 0..n /\ k \in Nat
  BY <1>1
<1>4. PICK a \in Nat : a = Sum(list, k)
  BY <1>1, <1>3, SentSteps
<1>5. 0 = 1 + w + s - (1 + w + a)
  BY <1>1, <1>2, <1>4, GatheredParts
<1>6. a = s
  BY <1>5
<1>7. k = n
  <2> SUFFICES ASSUME k # n
               PROVE  FALSE
    OBVIOUS
  <2>1. k + 1 \in 1..n /\ k + 1 \in 0..n /\ (k + 1) - 1 = k
    BY <1>3
  <2>2. /\ Long(list, k + 1) \in Nat /\ Long(list, k + 1) >= Header
        /\ Join(Sent(list, k + 1), Sent(list, k), Sum(list, k),
                ChangeBytes(list.changes[k + 1], FALSE), Long(list, k + 1))
    BY <1>1, <2>1, SentSteps
  <2>3. PICK c \in Nat : c = Long(list, k + 1) /\ c >= 1
    BY <1>1, <2>2
  <2>4. Sum(list, k + 1) = a + c
    BY <1>4, <2>2, <2>3 DEF Join, Sum
  <2>5. PICK m \in 0..n : m = k + 1
    BY <2>1
  <2>6. Sum(list, m) <= Sum(list, n)
    BY <1>1, SentParts
  <2>7. a + c <= s
    BY <1>1, <2>4, <2>5, <2>6
  <2>8. QED
    BY <1>6, <2>3, <2>7
<1>8. commit.at >= 1 /\ commit.at + commit.len <= Len(buf) + 1
  BY <1>2 DEF ReadInv, CommitInside
<1>9. /\ DOMAIN Written = DOMAIN disk
      /\ \A f \in DOMAIN disk : f # file => Written[f] = disk[f]
      /\ file \in DOMAIN disk => Written[file] = disk[file] \o Chars(buf, commit)
      /\ Chars(buf, commit) \in Seq(Byte)
      /\ Len(Chars(buf, commit)) = commit.len
  BY <1>8, WrittenIs DEF ReadInv
<1>10. /\ commit.len = s /\ (s > 0 => commit.at = 2 + w)
       /\ \A i \in 1..s : buf[1 + w + i] = Stored(list, n)[i]
  BY <1>1, <1>4, <1>6, <1>7 DEF Gathered
<1>11. Chars(buf, commit) = Flat(list.changes, TRUE)
  <2> DEFINE b == Chars(buf, commit)
             d == Stored(list, n)
  <2>1. n \in 0..n
    OBVIOUS
  <2>2. d \in Seq(Byte) /\ Len(d) = s /\ d = Flat(list.changes, TRUE)
    BY <1>1, <2>1, SentSteps, StoredSteps
  <2>3. b \in Seq(Byte) /\ Len(b) = s
    BY <1>9, <1>10
  <2>4. ASSUME NEW i \in 1..s
        PROVE  b[i] = d[i]
    <3>1. b[i] = buf[commit.at + i - 1]
      BY <1>10 DEF Chars
    <3>2. s > 0
      OBVIOUS
    <3>3. commit.at + i - 1 = 1 + w + i
      <4>1. commit.at = 2 + w
        BY <1>10, <3>2
      <4>2. QED
        BY <4>1
    <3> HIDE DEF b
    <3>4. QED
      BY <1>10, <3>1, <3>3
  <2> HIDE DEF b, d
  <2>5. b = d
    BY <2>2, <2>3, <2>4, SeqEqual
  <2>6. QED
    BY <2>2, <2>5 DEF b
<1> DEFINE old == IF list.id \in DOMAIN before THEN before[list.id] ELSE << >>
<1>12. /\ file = list.id /\ DOMAIN disk = DOMAIN before \cup {list.id}
       /\ disk[list.id] = old
       /\ \A f \in DOMAIN disk \ {list.id} :
            f \in DOMAIN before /\ disk[f] = before[f]
  BY DEF Opened
<1>13. list' = list /\ before' = before
  BY <1>2 DEF request
<1>14. disk'[list.id] = old \o Flat(list.changes, TRUE)
  BY <1>2, <1>9, <1>11, <1>12
<1>15. \A f \in DOMAIN disk' \ {list.id} :
         f \in DOMAIN before /\ disk'[f] = before[f]
  BY <1>2, <1>9, <1>12
<1>16. QED
  BY <1>2, <1>13, <1>14, <1>15 DEF StoredAsSent

LEMMA SendInit == Init => SendInv
BY DEF Init, SendInv, StoredAsSent

\* Steps that are not the call of the handler, while it runs on a list.
LEMMA StepSends ==
  ASSUME ReadInv, SendInv, Step
  PROVE  SendInv'
<1>1. UNCHANGED request /\ result = "running"
  BY DEF Step, BranchOp, BadInsert, InsertOp, UnknownOp, Finish, Refuse, Opcode
<1>2. list' = list /\ text' = text /\ before' = before
  BY <1>1 DEF request
<1>3. list # None => text = TransferEncode(list)
  BY DEF SendInv
<1>4. CASE list = None \/ refusal'
  BY <1>2, <1>3, <1>4 DEF SendInv, StoredAsSent
<1>5. ASSUME list # None, ~refusal'
      PROVE  SendInv'
  <2>1. ~refusal
    <3>1. refusal' = refusal \/ refusal' = TRUE
      BY DEF Step, BranchOp, BadInsert, InsertOp, UnknownOp, Finish
    <3>2. QED
      BY <1>5, <3>1
  <2>2. PICK n \in Nat, w \in Nat, s \in Nat :
             /\ list \in Lists /\ n = Len(list.changes) /\ w = Width
             /\ Len(text) = 1 + w + s /\ text[1] = OpBranch
    BY <1>3, <1>5, Sending
  <2>3. ASSUME branches = 0
        PROVE  SendInv'
    <3>1. AtStart /\ disk = before
      BY <1>1, <1>5, <2>1, <2>3 DEF SendInv
    <3>2. p = [at |-> 1, len |-> 1 + w + s] /\ buf[1] = OpBranch
      BY <2>2, <3>1 DEF AtStart, All
    <3>3. buf[p.at] = OpBranch /\ p.len # 0
      BY <3>2
    <3>4. BranchOp
      BY <3>3, FeedNumbers DEF Step, BadInsert, InsertOp, UnknownOp, Finish, Opcode
    <3>5. /\ result' = "running" /\ branches' # 0
          /\ Opened' /\ Gathered(0)'
      BY <1>1, <1>3, <1>5, <2>1, <2>3, <3>1, <3>4, StartSends
    <3>6. 0 \in 0..Len(list'.changes)
      BY <1>2, <2>2
    <3>7. \E k \in 0..Len(list'.changes) : Gathered(k)'
      BY <3>5, <3>6
    <3>8. (\E k \in 0..Len(list.changes) : Gathered(k))'
      BY <3>7
    <3>9. QED
      BY <1>2, <1>3, <3>5, <3>8 DEF SendInv, StoredAsSent
  <2>4. ASSUME branches # 0
        PROVE  SendInv'
    <3>1. PICK k \in 0..Len(list.changes) : Opened /\ Gathered(k)
      BY <1>1, <1>5, <2>1, <2>4 DEF SendInv
    <3>2. CASE p.len = 0
      <4>1. Finish
        BY <3>2 DEF Step, BranchOp, BadInsert, InsertOp, UnknownOp, Opcode
      <4>2. StoredAsSent'
        BY <1>3, <1>5, <3>1, <4>1, FinishSends
      <4>3. result' = "200"
        BY <4>1 DEF Finish
      <4>4. QED
        BY <1>2, <1>3, <4>2, <4>3 DEF SendInv
    <3>3. CASE p.len # 0
      <4>1. p.len \in Nat
        BY StringParts DEF ReadInv, TypeOK
      <4>2. p.len > 0
        BY <3>3, <4>1
      <4>3. Ahead(k) /\ buf[p.at] = OpInsert
        BY <1>3, <1>5, <3>1, <4>2, ChangeAhead
      <4>4. k \in Nat
        BY <2>2
      <4>5. p.len >= Header
        BY <1>1, <2>2, <4>3, <4>4, AheadLengths
      <4>6. file # -1 /\ ~(p.len < Header)
        <5>1. list.id \in Nat
          BY <2>2, ListTyped, FeedNumbers
        <5>2. file # -1
          BY <3>1, <5>1 DEF Opened
        <5>3. QED
          BY <4>1, <4>5, <5>2, FeedNumbers
      <4>7. InsertOp
        BY <3>3, <4>3, <4>6, FeedNumbers
           DEF Step, BranchOp, BadInsert, UnknownOp, Finish, Opcode
      <4>8. /\ result' = "running" /\ k + 1 \in 0..Len(list.changes)
            /\ Gathered(k + 1)'
        BY <1>3, <1>5, <3>1, <4>2, <4>7, InsertSends
      <4>9. UNCHANGED <<file, disk>>
        BY <4>7 DEF InsertOp
      <4>10. Opened'
        BY <1>2, <3>1, <4>9 DEF Opened
      <4>11. (\E j \in 0..Len(list.changes) : Gathered(j))'
        BY <1>2, <4>8
      <4>12. branches' # 0
        BY <2>4, <4>7 DEF InsertOp
      <4>13. QED
        BY <1>2, <1>3, <4>8, <4>10, <4>11, <4>12 DEF SendInv, StoredAsSent
    <3>4. QED
      BY <3>2, <3>3
  <2>5. QED
    BY <2>3, <2>4
<1>6. QED
  BY <1>4, <1>5

LEMMA SendNext == ReadInv /\ SendInv /\ [Next]_vars => SendInv'
<1> SUFFICES ASSUME ReadInv, SendInv, [Next]_vars
             PROVE  SendInv'
  OBVIOUS
<1>1. CASE Call
  <2>1. PICK body \in Seq(Byte), l \in Lists \cup {None} :
               Receive(body, l) /\ (l # None => body = TransferEncode(l))
    BY <1>1, CallReceives
  <2>2. /\ list' = l /\ text' = body /\ before' = disk /\ disk' = disk
        /\ result' = "running" /\ branches' = 0 /\ buf' = body /\ p' = All(body)
        /\ file' = -1
    BY <2>1 DEF Receive
  <2>3. AtStart'
    BY <2>2 DEF AtStart, All
  <2>4. QED
    BY <2>1, <2>2, <2>3 DEF SendInv, StoredAsSent
<1>2. CASE Step
  BY <1>2, StepSends
<1>3. CASE UNCHANGED vars
  <2>1. UNCHANGED <<buf, p, commit, file, disk, result, branches, refusal>>
        /\ UNCHANGED <<list, text, before>>
    BY <1>3 DEF vars, handler, request
  <2>2. StoredAsSent'
    BY <2>1 DEF SendInv, StoredAsSent
  <2>3. AtStart' <=> AtStart
    BY <2>1 DEF AtStart, All
  <2>4. Opened' <=> Opened
    BY <2>1 DEF Opened
  <2>5. \A k \in 0..Len(list.changes) : Gathered(k)' <=> Gathered(k)
    BY <2>1 DEF Gathered, Sum, Sent, Stored
  <2>6. (\E k \in 0..Len(list.changes) : Gathered(k)) =>
          (\E k \in 0..Len(list.changes) : Gathered(k))'
    BY <2>1, <2>5
  <2>7. QED
    BY <2>1, <2>2, <2>3, <2>4, <2>6 DEF SendInv
<1>4. QED
  BY <1>1, <1>2, <1>3 DEF Next

\* What a page sends is stored as it sent it, at the end of its branch, for
\* lists of any length of changes of any length, as long as the request fits.
THEOREM ListsAreStored == Spec => []StoredAsSent
<1>1. SendInv => StoredAsSent
  BY DEF SendInv
<1>2. QED
  BY <1>1, ReadStays, SendInit, SendNext, PTL DEF Spec

-----------------------------------------------------------------------------
(* Requests are accepted if they are well formed *)

\* The length that a change at k tells at `from`, and that of all of it.
TellsAt(t, k, from) == Value(SubSeq(t, k + from, k + from + Width - 1))
SpanAt(t, k) == Header + TellsAt(t, k, 1 + Width) + TellsAt(t, k, 1 + 2 * Width)

LEMMA SpanTyped ==
  ASSUME NEW t \in Seq(Byte), NEW k \in Nat, k >= 1, k + Header - 1 <= Len(t)
  PROVE  /\ TellsAt(t, k, 1 + Width) \in Nat /\ TellsAt(t, k, 1 + 2 * Width) \in Nat
         /\ SpanAt(t, k) \in Nat /\ SpanAt(t, k) >= Header
<1>1. PICK n \in Nat : n = Len(t)
  BY LenProperties
<1>2. PICK w \in Nat : w = Width /\ w > 0 /\ Header = 1 + 3 * w
  BY FeedNumbers
<1>3. ASSUME NEW from \in Nat, from + w <= 1 + 3 * w
      PROVE  TellsAt(t, k, from) \in Nat
  <2> DEFINE word == SubSeq(t, k + from, k + from + w - 1)
  <2>1. \A i \in (k + from)..(k + from + w - 1) : t[i] \in Byte
    BY <1>1, <1>2, <1>3, ElementOfSeq
  <2>2. k + from \in Int /\ k + from + w - 1 \in Int
    BY <1>2, <1>3
  <2>3. word \in Seq(Byte)
    BY <2>1, <2>2, SubSeqProperties
  <2> HIDE DEF word
  <2>4. PICK v : Valued(v, word)
    BY <2>3, ValueFollows
  <2>5. Value(word) \in Nat
    <3>1. PICK m \in Nat : m = Len(word)
      BY <2>3, LenProperties
    <3>2. QED
      BY <2>4, <3>1 DEF Valued
  <2>6. QED
    BY <1>2, <2>5 DEF TellsAt, word
<1>4. TellsAt(t, k, 1 + Width) \in Nat /\ TellsAt(t, k, 1 + 2 * Width) \in Nat
  <2>1. 1 + w \in Nat /\ 1 + w + w <= 1 + 3 * w
        /\ 1 + 2 * w \in Nat /\ 1 + 2 * w + w <= 1 + 3 * w
    BY <1>2
  <2>2. TellsAt(t, k, 1 + w) \in Nat /\ TellsAt(t, k, 1 + 2 * w) \in Nat
    BY <1>3, <2>1
  <2>3. QED
    BY <1>2, <2>2
<1>5. QED
  BY <1>2, <1>4 DEF SpanAt

\* What ReadableFrom says of a position, by the opcode that stands there.
LEMMA ReadableSteps ==
  ASSUME NEW t \in Seq(Byte), NEW n \in Nat, n = Len(t)
  PROVE  LET R == ReadableFrom(t) IN
         /\ R[n + 1]
         /\ \A k \in 1..n :
              /\ t[k] = OpBranch => (R[k] <=> k + Width <= n /\ R[k + 1 + Width])
              /\ t[k] = OpInsert => (R[k] <=> /\ k + Header - 1 <= n
                                              /\ k + SpanAt(t, k) <= n + 1
                                              /\ R[k + SpanAt(t, k)])
              /\ t[k] \notin {OpBranch, OpInsert} => ~R[k]
<1>1. PICK w \in Nat : w = Width
  BY FeedNumbers
<1>2. PICK h \in Nat : h = Header /\ h >= 1
  BY FeedNumbers
<1> DEFINE D == 1..(n + 1)
           span == [k \in D |-> SpanAt(t, k)]
           byBranch(k) == t[k] = OpBranch /\ k + w <= n
           byInsert(k) == t[k] = OpInsert /\ k + h - 1 <= n /\ k + span[k] <= n + 1
           goes(k) == k # n + 1 /\ (byBranch(k) \/ byInsert(k))
           rank == [k \in D |-> IF goes(k) THEN n + 2 - k ELSE 0]
           up == [k \in D |-> IF byBranch(k) THEN k + 1 + w ELSE k + span[k]]
           base == [k \in D |-> IF k = n + 1 THEN 1 ELSE 0]
           step == [k \in D |-> [b \in {0, 1} |-> b]]
           F(g) == [k \in 1..(Len(t) + 1) |->
                     \/ k = Len(t) + 1
                     \/ t[k] = OpBranch /\ k + Width <= Len(t) /\ g[k + 1 + Width]
                     \/ /\ t[k] = OpInsert /\ k + Header - 1 <= Len(t)
                        /\ k + SpanAt(t, k) <= Len(t) + 1 /\ g[k + SpanAt(t, k)]]
           G(g) == [k \in D |->
                     \/ k = n + 1
                     \/ t[k] = OpBranch /\ k + w <= n /\ g[k + 1 + w]
                     \/ /\ t[k] = OpInsert /\ k + h - 1 <= n
                        /\ k + span[k] <= n + 1 /\ g[k + span[k]]]
           R == CHOOSE g : g = F(g)
<1>3. \A g : F(g) = G(g)
  <2> SUFFICES ASSUME NEW g
               PROVE  F(g) = G(g)
    OBVIOUS
  <2>1. \A k \in D : span[k] = SpanAt(t, k)
    OBVIOUS
  <2> HIDE DEF span
  <2>2. QED
    BY <1>1, <1>2, <2>1
<1>4. \A k \in D : k + h - 1 <= n => span[k] \in Nat /\ span[k] >= h
  <2> SUFFICES ASSUME NEW k \in D, k + h - 1 <= n
               PROVE  span[k] \in Nat /\ span[k] >= h
    OBVIOUS
  <2>1. k \in Nat /\ k >= 1 /\ k + Header - 1 <= Len(t)
    BY <1>2
  <2>2. SpanAt(t, k) \in Nat /\ SpanAt(t, k) >= Header
    BY <2>1, SpanTyped
  <2>3. QED
    BY <1>2, <2>2
<1> HIDE DEF span
<1>5. \A k \in D : goes(k) => up[k] \in D /\ up[k] > k
  <2> SUFFICES ASSUME NEW k \in D, goes(k)
               PROVE  up[k] \in D /\ up[k] > k
    OBVIOUS
  <2>1. CASE byBranch(k)
    BY <2>1
  <2>2. CASE ~byBranch(k)
    <3>1. byInsert(k) /\ span[k] \in Nat /\ span[k] >= 1
      BY <1>2, <1>4, <2>2
    <3>2. up[k] = k + span[k]
      BY <2>2
    <3>3. QED
      BY <3>1, <3>2
  <2>3. QED
    BY <2>1, <2>2
<1> HIDE DEF up
<1>6. Scheme(n + 1, D, {0, 1}, rank, up, base, step)
  <2>1. rank \in [D -> 0..(n + 1)]
    <3>1. \A k \in D : n + 2 - k \in 0..(n + 1)
      OBVIOUS
    <3> HIDE DEF goes
    <3>2. QED
      BY <3>1
  <2>2. ASSUME NEW k \in D, rank[k] # 0
        PROVE  up[k] \in D /\ rank[up[k]] < rank[k]
    <3>1. goes(k) /\ rank[k] = n + 2 - k
      <4> HIDE DEF goes
      <4>1. QED
        BY <2>2
    <3>2. up[k] \in D /\ up[k] > k
      BY <1>5, <3>1
    <3>3. rank[up[k]] = 0 \/ rank[up[k]] = n + 2 - up[k]
      <4> HIDE DEF goes
      <4>1. QED
        BY <3>2
    <3> HIDE DEF rank
    <3>4. QED
      BY <3>1, <3>2, <3>3
  <2>3. base \in [D -> {0, 1}] /\ step \in [D -> [{0, 1} -> {0, 1}]]
    OBVIOUS
  <2>4. n + 1 \in Nat
    OBVIOUS
  <2> HIDE DEF D, rank, base, step
  <2>5. QED
    BY <2>1, <2>2, <2>3, <2>4 DEF Scheme
<1>7. PICK f : Solution(f, D, {0, 1}, rank, up, base, step)
  <2> HIDE DEF D, rank, base, step
  <2>1. QED
    BY <1>6, RecursionExists
<1>8. /\ f \in [D -> {0, 1}]
      /\ \A k \in D : f[k] = IF rank[k] = 0 THEN base[k] ELSE step[k][f[up[k]]]
  <2> HIDE DEF D, rank, base, step
  <2>1. QED
    BY <1>7 DEF Solution
<1>9. ASSUME NEW k \in D
      PROVE  f[k] = IF goes(k) THEN f[up[k]] ELSE IF k = n + 1 THEN 1 ELSE 0
  <2>1. CASE goes(k)
    <3>1. n + 2 - k # 0
      OBVIOUS
    <3>2. rank[k] # 0 /\ up[k] \in D
      <4>1. up[k] \in D
        BY <1>5, <2>1
      <4> HIDE DEF goes
      <4>2. QED
        BY <2>1, <3>1, <4>1
    <3>3. f[up[k]] \in {0, 1}
      BY <1>8, <3>2
    <3> HIDE DEF rank, goes
    <3>4. QED
      BY <1>8, <2>1, <3>2, <3>3
  <2>2. CASE ~goes(k)
    <3>1. rank[k] = 0
      <4> HIDE DEF goes
      <4>1. QED
        BY <2>2
    <3> HIDE DEF rank, goes
    <3>2. QED
      BY <1>8, <2>2, <3>1
  <2>3. QED
    BY <2>1, <2>2
<1>10. \E g : g = F(g)
  <2> DEFINE g == [k \in D |-> f[k] = 1]
  <2>1. ASSUME NEW k \in D
        PROVE  (f[k] = 1) <=>
                 \/ k = n + 1
                 \/ t[k] = OpBranch /\ k + w <= n /\ f[k + 1 + w] = 1
                 \/ /\ t[k] = OpInsert /\ k + h - 1 <= n
                    /\ k + span[k] <= n + 1 /\ f[k + span[k]] = 1
    <3>1. CASE k = n + 1
      BY <1>9, <3>1
    <3>2. CASE k # n + 1
      <4>1. CASE byBranch(k)
        <5>1. goes(k) /\ up[k] = k + 1 + w /\ t[k] # OpInsert
          BY <3>2, <4>1, FeedNumbers DEF up
        <5>2. f[k] = f[k + 1 + w]
          BY <1>9, <5>1
        <5>3. QED
          BY <3>2, <4>1, <5>1, <5>2
      <4>2. CASE byInsert(k)
        <5>1. goes(k) /\ up[k] = k + span[k] /\ t[k] # OpBranch
          BY <3>2, <4>2, FeedNumbers DEF up
        <5>2. f[k] = f[k + span[k]]
          BY <1>9, <5>1
        <5>3. QED
          BY <3>2, <4>2, <5>1, <5>2
      <4>3. CASE ~byBranch(k) /\ ~byInsert(k)
        <5>1. f[k] = 0
          BY <1>9, <3>2, <4>3
        <5>2. QED
          BY <3>2, <4>3, <5>1
      <4>4. QED
        BY <4>1, <4>2, <4>3
    <3>3. QED
      BY <3>1, <3>2
  <2>2. ASSUME NEW k \in D, k # n + 1
        PROVE  /\ k + w <= n => k + 1 + w \in D
               /\ k + h - 1 <= n /\ k + span[k] <= n + 1 => k + span[k] \in D
    <3>1. k + h - 1 <= n => span[k] \in Nat
      BY <1>4
    <3>2. QED
      BY <3>1
  <2>3. ASSUME NEW k \in D
        PROVE  g[k] = (\/ k = n + 1
                       \/ t[k] = OpBranch /\ k + w <= n /\ g[k + 1 + w]
                       \/ /\ t[k] = OpInsert /\ k + h - 1 <= n
                          /\ k + span[k] <= n + 1 /\ g[k + span[k]])
    BY <2>1, <2>2
  <2>4. g = G(g)
    BY <2>3
  <2> HIDE DEF F, G
  <2>5. g = F(g)
    BY <1>3, <2>4
  <2>6. QED
    BY <2>5
<1>11. R = F(R)
  <2> HIDE DEF F
  <2>1. QED
    BY <1>10
<1>12. ReadableFrom(t) = R
  BY DEF ReadableFrom, TellsAt, SpanAt
<1> HIDE DEF R
<1>13. \A k \in D : R[k] = (\/ k = n + 1
                            \/ t[k] = OpBranch /\ k + w <= n /\ R[k + 1 + w]
                            \/ /\ t[k] = OpInsert /\ k + h - 1 <= n
                               /\ k + span[k] <= n + 1 /\ R[k + span[k]])
  <2>1. R = G(R)
    <3> HIDE DEF F, G
    <3>1. QED
      BY <1>11, <1>3
  <2>2. QED
    BY <2>1
<1> HIDE DEF F, G
<1>14. n + 1 \in D /\ \A k \in 1..n : k \in D /\ k # n + 1 /\ span[k] = SpanAt(t, k)
  BY DEF span
<1>15. R[n + 1]
  BY <1>13, <1>14
<1>16. ASSUME NEW k \in 1..n
       PROVE  /\ t[k] = OpBranch => (R[k] <=> k + w <= n /\ R[k + 1 + w])
              /\ t[k] = OpInsert => (R[k] <=> /\ k + h - 1 <= n
                                              /\ k + SpanAt(t, k) <= n + 1
                                              /\ R[k + SpanAt(t, k)])
              /\ t[k] \notin {OpBranch, OpInsert} => ~R[k]
  BY <1>13, <1>14, FeedNumbers
<1>17. QED
  BY <1>1, <1>2, <1>12, <1>15, <1>16

\* Where reading goes on, and that the request from there on is as it was sent.
NextByte == Len(text) + 1 - p.len

Reading ==
  /\ Len(buf) = Len(text) /\ p.len <= Len(text)
  /\ \A a \in NextByte..Len(text) : buf[a] = text[a]

AcceptInv ==
  ~wrapped /\ ~stale /\ ~refusal =>
    /\ result = "running" /\ branches = 0 => AtStart
    /\ result = "running" /\ branches # 0 =>
         /\ file # -1 /\ text # << >> /\ text[1] = OpBranch
         /\ Reading
         /\ ReadableFrom(text)[1] <=> ReadableFrom(text)[NextByte]
    /\ AcceptsWellFormed

\* The position of the handler, in numbers.
LEMMA ReadingAt ==
  ASSUME ReadInv, result = "running", Reading
  PROVE  \E n \in Nat, k \in Nat, m \in Nat :
           /\ n = Len(text) /\ text \in Seq(Byte) /\ m = p.len /\ k = NextByte
           /\ k = n + 1 - m /\ k >= 1 /\ k <= n + 1 /\ Len(buf) = n
           /\ m > 0 => k \in 1..n /\ p.at = k /\ buf[k] = text[k]
           /\ \A a \in k..n : buf[a] = text[a]
<1>1. PICK n \in Nat : n = Len(text) /\ text \in Seq(Byte)
  BY LenProperties DEF ReadInv, TypeOK
<1>2. PICK m \in Nat, x \in Nat : m = p.len /\ x = p.at
  BY StringParts DEF ReadInv, TypeOK
<1>3. m <= n /\ Len(buf) = n
  BY <1>1, <1>2 DEF Reading
<1>4. PICK k \in Nat : k = n + 1 - m
  BY <1>3
<1>5. k = NextByte
  BY <1>1, <1>2, <1>4 DEF NextByte
<1>6. \A a \in k..n : buf[a] = text[a]
  BY <1>1, <1>5 DEF Reading
<1>7. ASSUME m > 0
      PROVE  k \in 1..n /\ x = k /\ buf[k] = text[k]
  <2>1. x + m = n + 1
    BY <1>2, <1>3, <1>7 DEF ReadInv, CommitInside
  <2>2. k \in 1..n /\ x = k /\ k \in k..n
    BY <1>3, <1>4, <1>7, <2>1
  <2>3. QED
    BY <1>6, <2>2
<1>8. k >= 1 /\ k <= n + 1
  BY <1>3, <1>4
<1>9. QED
  BY <1>1, <1>2, <1>3, <1>4, <1>5, <1>6, <1>7, <1>8

\* A branch opcode, read to its end or refused.
LEMMA BranchReads ==
  ASSUME ReadInv, Reading, BranchOp, ~stale', ~refusal'
  PROVE  LET R == ReadableFrom(text) IN
         /\ text # << >> /\ text[NextByte] = OpBranch /\ UNCHANGED request
         /\ branches' # 0
         /\ \/ result' = "400" /\ ~R[NextByte]
            \/ /\ result' = "running" /\ file' # -1
               /\ Reading'
               /\ R[NextByte] <=> R[NextByte']
<1> DEFINE R == ReadableFrom(text)
           bid == Slice(p, 1, 1 + Width)
           rest == Slice(p, 1 + Width, 0)
<1>1. Opcode(OpBranch) /\ result = "running" /\ p.len > 0 /\ buf[p.at] = OpBranch
  BY DEF BranchOp, Opcode
<1>2. PICK n \in Nat, k \in Nat, m \in Nat :
           /\ n = Len(text) /\ text \in Seq(Byte) /\ m = p.len /\ k = NextByte
           /\ k = n + 1 - m /\ k >= 1 /\ k <= n + 1 /\ Len(buf) = n
           /\ m > 0 => k \in 1..n /\ p.at = k /\ buf[k] = text[k]
           /\ \A a \in k..n : buf[a] = text[a]
  BY <1>1, ReadingAt
<1>3. k \in 1..n /\ p.at = k /\ text[k] = OpBranch /\ m > 0 /\ m = n + 1 - k
  BY <1>1, <1>2
<1>4. PICK w \in Nat : w = Width /\ w > 0
  BY FeedNumbers
<1>5. R[k] <=> k + w <= n /\ R[k + 1 + w]
  BY <1>2, <1>3, <1>4, ReadableSteps
<1>6. text # << >>
  <2>1. n # 0
    BY <1>3
  <2>2. QED
    BY <1>2, <2>1, EmptySeq
<1>7. UNCHANGED request /\ branches' # 0
  <2>1. branches \in Nat /\ branches' = branches + 1
    BY DEF BranchOp, ReadInv, TypeOK
  <2>2. branches' # 0
    BY <2>1
  <2>3. QED
    BY <2>2 DEF BranchOp, Refuse
<1>8. p \in [at : Nat, len : Nat]
  BY DEF ReadInv, TypeOK
<1>9. ASSUME bid.len # Width
      PROVE  ~R[k]
  <2>1. m <= 1
    <3>1. p.len > 1 => Slice(p, 1, 1 + Width) = [at |-> p.at + 1, len |-> Width]
      BY <1>8, SliceId
    <3>2. ~(p.len > 1)
      BY <1>9, <3>1
    <3>3. QED
      BY <1>2, <3>2
  <2>2. ~(k + w <= n)
    BY <1>3, <1>4, <2>1
  <2>3. QED
    BY <1>5, <2>2
<1>10. bid.len # Width => result' = "400"
  <2> HIDE DEF bid
  <2>1. QED
    BY DEF BranchOp, Refuse, bid
<1>11. ASSUME bid.len = Width
       PROVE  /\ result' = "running" /\ file' # -1 /\ Reading'
              /\ R[k] <=> R[NextByte']
  <2>1. stale' = (stale \/ p.len < 1 + Width)
    <3> HIDE DEF bid
    <3>1. QED
      BY <1>11 DEF BranchOp, bid
  <2>2. ~(p.len < 1 + Width)
    BY <2>1
  <2>3. m >= 1 + w
    BY <1>2, <1>4, <2>2
  <2>4. PICK id \in IdsAt(bid.at) :
             file' = id /\ p' = rest /\ UNCHANGED <<buf, result>>
    <3> HIDE DEF bid, rest
    <3>1. QED
      BY <1>11 DEF BranchOp, bid, rest
  <2>5. file' # -1
    <3>1. /\ p.at \in Nat /\ p.at >= 1 /\ bid.at = p.at + 1
          /\ p.at + 1 <= Len(buf)
      BY <1>1, <1>11, BranchRest
    <3>2. p.at + 1 \in Nat /\ 1 <= p.at + 1 /\ id \in IdsAt(p.at + 1)
      BY <2>4, <3>1
    <3>3. id \in 0..(Word - 1)
      BY <3>1, <3>2, IdsTyped DEF ReadInv
    <3>4. QED
      BY <2>4, <3>3, FeedNumbers
  <2>6. rest.len = m - (1 + w)
    <3>1. 1 + w \in Nat
      OBVIOUS
    <3>2. /\ 1 + w >= p.len => Slice(p, 1 + w, 0) = [at |-> p.at, len |-> 0]
          /\ 1 + w < p.len => Slice(p, 1 + w, 0) = [at |-> p.at + (1 + w), len |-> p.len - (1 + w)]
      BY <1>8, <3>1, SliceRest
    <3>3. rest = Slice(p, 1 + w, 0)
      BY <1>4
    <3> HIDE DEF rest
    <3>4. CASE m = 1 + w
      BY <1>2, <3>2, <3>3, <3>4
    <3>5. CASE m > 1 + w
      BY <1>2, <3>2, <3>3, <3>5
    <3>6. QED
      BY <2>3, <3>4, <3>5
  <2> HIDE DEF rest
  <2>7. text' = text /\ p'.len = m - (1 + w) /\ buf' = buf
    BY <1>7, <2>4, <2>6 DEF request
  <2>8. NextByte' = k + 1 + w
    <3>1. NextByte' = n + 1 - (m - (1 + w))
      BY <1>2, <2>7 DEF NextByte
    <3>2. QED
      BY <1>3, <3>1
  <2>9. Reading'
    <3>1. Len(buf') = Len(text') /\ p'.len <= Len(text')
      BY <1>2, <1>3, <2>3, <2>7
    <3>2. \A a \in (k + 1 + w)..n : buf'[a] = text'[a]
      BY <1>2, <2>7, SMTT(30)
    <3>3. QED
      BY <1>2, <2>7, <2>8, <3>1, <3>2 DEF Reading
  <2>10. k + w <= n
    BY <1>3, <2>3
  <2>11. QED
    BY <1>1, <1>5, <2>4, <2>5, <2>8, <2>9, <2>10
<1>12. QED
  BY <1>2, <1>3, <1>6, <1>7, <1>9, <1>10, <1>11

\* An insert opcode, read to its end or refused.
LEMMA InsertReads ==
  ASSUME ReadInv, Reading, InsertOp, ~wrapped'
  PROVE  LET R == ReadableFrom(text) IN
         \/ result' = "400" /\ ~R[NextByte]
         \/ result' = "running" /\ Reading' /\ (R[NextByte] <=> R[NextByte'])
<1> DEFINE R == ReadableFrom(text)
<1>1. /\ result = "running" /\ p.len > 0 /\ buf[p.at] = OpInsert /\ p.len >= Header
      /\ Convert /\ UNCHANGED request
  BY DEF InsertOp, Opcode
<1>2. PICK n \in Nat, k \in Nat, m \in Nat :
           /\ n = Len(text) /\ text \in Seq(Byte) /\ m = p.len /\ k = NextByte
           /\ k = n + 1 - m /\ k >= 1 /\ k <= n + 1 /\ Len(buf) = n
           /\ m > 0 => k \in 1..n /\ p.at = k /\ buf[k] = text[k]
           /\ \A a \in k..n : buf[a] = text[a]
  BY <1>1, ReadingAt
<1>3. k \in 1..n /\ p.at = k /\ text[k] = OpInsert /\ m > 0 /\ m = n + 1 - k
  BY <1>1, <1>2
<1>4. PICK w \in Nat : w = Width /\ w > 0 /\ Header = 1 + 3 * w
  BY FeedNumbers
<1>5. k + Header - 1 <= n /\ m >= Header
  BY <1>1, <1>2, <1>3, <1>4
<1>6. PICK span \in Nat : span = SpanAt(text, k) /\ span >= Header
  BY <1>2, <1>3, <1>5, SpanTyped
<1>7. R[k] <=> k + span <= n + 1 /\ R[k + span]
  BY <1>2, <1>3, <1>5, <1>6, ReadableSteps
<1>8. /\ LastLen = k + 1 + w /\ NewLen = k + 1 + 2 * w
      /\ At(LastLen) \in 0..(Word - 1) /\ At(NewLen) \in 0..(Word - 1)
  BY <1>1, <1>3, <1>4, InsertLengths
<1>9. ASSUME NEW y \in Nat, y >= k, y + w <= n + 1
      PROVE  SubSeq(buf, y, y + w - 1) = SubSeq(text, y, y + w - 1)
  <2> DEFINE a == SubSeq(buf, y, y + w - 1)
             b == SubSeq(text, y, y + w - 1)
  <2>1. \A i \in y..(y + w - 1) : buf[i] = text[i] /\ text[i] \in Byte
    <3> SUFFICES ASSUME NEW i \in y..(y + w - 1)
                 PROVE  buf[i] = text[i] /\ text[i] \in Byte
      OBVIOUS
    <3>1. i \in k..n /\ i \in 1..n
      BY <1>3, <1>9
    <3>2. buf[i] = text[i]
      BY <1>2, <3>1
    <3>3. text[i] \in Byte
      BY <1>2, <3>1, ElementOfSeq
    <3>4. QED
      BY <3>2, <3>3
  <2>2. y \in Int /\ y + w - 1 \in Int
    BY <1>9
  <2>3. \A i \in y..(y + w - 1) : buf[i] \in Byte
    BY <2>1
  <2>4. /\ a \in Seq(Byte)
        /\ Len(a) = IF y <= y + w - 1 THEN (y + w - 1) - y + 1 ELSE 0
        /\ \A i \in 1..((y + w - 1) - y + 1) : a[i] = buf[y + i - 1]
    BY <2>2, <2>3, SubSeqProperties
  <2>5. /\ b \in Seq(Byte)
        /\ Len(b) = IF y <= y + w - 1 THEN (y + w - 1) - y + 1 ELSE 0
        /\ \A i \in 1..((y + w - 1) - y + 1) : b[i] = text[y + i - 1]
    BY <2>1, <2>2, SubSeqProperties
  <2> HIDE DEF a, b
  <2>6. Len(a) = w /\ Len(b) = w /\ (y + w - 1) - y + 1 = w
    BY <1>4, <2>4, <2>5
  <2>7. \A i \in 1..w : y + i - 1 \in y..(y + w - 1)
    OBVIOUS
  <2>8. \A i \in 1..w : a[i] = b[i]
    BY <2>1, <2>4, <2>5, <2>6, <2>7
  <2>9. a = b
    BY <2>4, <2>5, <2>6, <2>8, SeqEqual
  <2>10. QED
    BY <2>9 DEF a, b
<1>10. At(LastLen) = TellsAt(text, k, 1 + Width)
  <2>1. k + 1 + w \in Nat /\ k + 1 + w >= k /\ k + 1 + w + w <= n + 1
    BY <1>4, <1>5
  <2>2. SubSeq(buf, k + 1 + w, k + 1 + w + w - 1) = SubSeq(text, k + 1 + w, k + 1 + w + w - 1)
    BY <1>9, <2>1
  <2>3. k + (1 + w) = k + 1 + w
    OBVIOUS
  <2>4. QED
    BY <1>4, <1>8, <2>2, <2>3 DEF At, TellsAt
<1>11. At(NewLen) = TellsAt(text, k, 1 + 2 * Width)
  <2>1. k + 1 + 2 * w \in Nat /\ k + 1 + 2 * w >= k /\ k + 1 + 2 * w + w <= n + 1
    BY <1>4, <1>5
  <2>2. SubSeq(buf, k + 1 + 2 * w, k + 1 + 2 * w + w - 1)
          = SubSeq(text, k + 1 + 2 * w, k + 1 + 2 * w + w - 1)
    BY <1>9, <2>1
  <2>3. k + (1 + 2 * w) = k + 1 + 2 * w
    OBVIOUS
  <2>4. QED
    BY <1>4, <1>8, <2>2, <2>3 DEF At, TellsAt
<1>12. ChangeLen = span
  <2>1. Header + At(LastLen) + At(NewLen) = span
    BY <1>6, <1>10, <1>11 DEF SpanAt
  <2>2. ~(Header + At(LastLen) + At(NewLen) >= Word)
    BY <1>1 DEF Convert
  <2>3. span < Word /\ Word \in Nat
    BY <2>1, <2>2, FeedNumbers
  <2>4. span % Word = span
    BY <2>3, RemainderSmall
  <2>5. QED
    BY <2>1, <2>4 DEF ChangeLen
<1>13. ASSUME m < span
       PROVE  result' = "400" /\ ~R[k]
  <2>1. p.len < ChangeLen /\ ~(p.len >= ChangeLen)
    BY <1>2, <1>12, <1>13
  <2>2. ~(k + span <= n + 1)
    BY <1>3, <1>13
  <2>3. QED
    BY <1>7, <2>1, <2>2 DEF InsertOp
<1>14. ASSUME m >= span
       PROVE  result' = "running" /\ Reading' /\ (R[k] <=> R[NextByte'])
  <2>1. p.len >= ChangeLen /\ ~(p.len < ChangeLen)
    BY <1>2, <1>12, <1>14
  <2>2. result' = result /\ p' = Slice(p, ChangeLen, 0)
    BY <2>1 DEF InsertOp
  <2>3. p'.len = m - span
    <3> DEFINE rest == Slice(p, ChangeLen, 0)
    <3>1. rest.len = p.len - ChangeLen
      BY <2>1, InsertRest
    <3> HIDE DEF rest
    <3>2. QED
      BY <1>2, <1>12, <2>2, <3>1 DEF rest
  <2>4. text' = text
    BY <1>1 DEF request
  <2>5. NextByte' = k + span
    <3>1. NextByte' = n + 1 - (m - span)
      BY <1>2, <2>3, <2>4 DEF NextByte
    <3>2. QED
      BY <1>3, <3>1
  <2>6. k + span <= n + 1
    BY <1>3, <1>14
  <2>7. /\ Len(buf') = Len(buf)
        /\ \A a \in 1..Len(buf) : buf'[a] =
             IF a \in LastLen..(NewLen - 1) THEN buf[LastLen + NewLen - 1 - a]
             ELSE IF a \in NewLen..(NewLen + Width - 1)
             THEN buf[2 * NewLen + Width - 1 - a]
             ELSE buf[a]
    BY <1>1, ConvertIs
  <2>8. \A a \in (k + span)..n : buf'[a] = text'[a]
    <3> SUFFICES ASSUME NEW a \in (k + span)..n
                 PROVE  buf'[a] = text[a]
      BY <2>4
    <3>1. a >= k + 1 + 3 * w /\ a \in 1..n /\ a \in k..n
      BY <1>3, <1>4, <1>6
    <3>2. ~(a \in (k + 1 + w)..(k + 1 + 2 * w - 1))
          /\ ~(a \in (k + 1 + 2 * w)..(k + 1 + 2 * w + w - 1))
      BY <3>1
    <3>3. buf'[a] = buf[a]
      <4>1. a \in 1..Len(buf)
        BY <1>2, <3>1
      <4>2. /\ LastLen..(NewLen - 1) = (k + 1 + w)..(k + 1 + 2 * w - 1)
            /\ NewLen..(NewLen + Width - 1) = (k + 1 + 2 * w)..(k + 1 + 2 * w + w - 1)
        BY <1>4, <1>8
      <4>3. QED
        BY <2>7, <3>2, <4>1, <4>2
    <3>4. QED
      BY <1>2, <3>1, <3>3
  <2>9. Reading'
    <3>1. Len(buf') = Len(text') /\ p'.len <= Len(text')
      <4>1. Len(buf') = n /\ Len(text') = n
        BY <1>2, <2>4, <2>7
      <4>2. m - span <= n
        BY <1>3
      <4>3. QED
        BY <2>3, <4>1, <4>2
    <3>2. QED
      BY <1>2, <2>4, <2>5, <2>8, <3>1 DEF Reading
  <2>10. QED
    BY <1>1, <1>7, <2>2, <2>5, <2>6, <2>9
<1>15. QED
  <2>1. m < span \/ m >= span
    OBVIOUS
  <2>2. QED
    BY <1>2, <1>13, <1>14, <2>1

\* Where the handler is, in numbers, at the first opcode and later.
LEMMA AtStartReads ==
  ASSUME ReadInv, AtStart
  PROVE  Reading /\ NextByte = 1 /\ file = -1
<1>1. PICK n \in Nat : n = Len(text)
  BY LenProperties DEF ReadInv, TypeOK
<1>2. buf = text /\ p.len = n /\ file = -1
  BY <1>1 DEF AtStart, All
<1>3. NextByte = 1
  BY <1>1, <1>2 DEF NextByte
<1>4. QED
  BY <1>1, <1>2, <1>3 DEF Reading

\* What the steps below know of the request.
Known ==
  LET R == ReadableFrom(text) IN
  /\ Reading
  /\ R[1] <=> R[NextByte]
  /\ branches = 0 => file = -1 /\ NextByte = 1
  /\ branches # 0 => file # -1 /\ text # << >> /\ text[1] = OpBranch

LEMMA RunningKnown ==
  ASSUME ReadInv, AcceptInv, result = "running", ~wrapped, ~stale, ~refusal
  PROVE  Known
<1>1. CASE branches = 0
  <2>1. AtStart
    BY <1>1 DEF AcceptInv
  <2>2. QED
    BY <1>1, <2>1, AtStartReads DEF Known
<1>2. CASE branches # 0
  BY <1>2 DEF AcceptInv, Known
<1>3. QED
  BY <1>1, <1>2

\* An opcode that ends the request: no branch or change can be read at it.
LEMMA RefusedIsMalformed ==
  ASSUME ReadInv, Known, BadInsert \/ UnknownOp
  PROVE  result' = "400" /\ ~WellFormed(text)
<1> DEFINE R == ReadableFrom(text)
<1>1. result = "running" /\ p.len > 0 /\ result' = "400"
  BY DEF BadInsert, UnknownOp, Opcode, Refuse
<1>2. Reading
  BY DEF Known
<1>3. PICK n \in Nat, k \in Nat, m \in Nat :
           /\ n = Len(text) /\ text \in Seq(Byte) /\ m = p.len /\ k = NextByte
           /\ k = n + 1 - m /\ k >= 1 /\ k <= n + 1 /\ Len(buf) = n
           /\ m > 0 => k \in 1..n /\ p.at = k /\ buf[k] = text[k]
           /\ \A a \in k..n : buf[a] = text[a]
  BY <1>1, <1>2, ReadingAt
<1>4. k \in 1..n /\ p.at = k /\ buf[p.at] = text[k] /\ m = n + 1 - k
  BY <1>1, <1>3
<1>5. text # << >>
  <2>1. n # 0
    BY <1>4
  <2>2. QED
    BY <1>3, <2>1, EmptySeq
<1>6. text[k] # OpBranch
  BY <1>4, FeedNumbers DEF BadInsert, UnknownOp, Opcode
<1>7. CASE branches = 0
  BY <1>3, <1>5, <1>6, <1>7, <1>1 DEF Known, WellFormed
<1>8. CASE branches # 0
  <2>1. R[1] <=> R[k]
    BY <1>3 DEF Known
  <2>2. CASE BadInsert
    <3>1. text[k] = OpInsert /\ p.len < Header
      BY <1>4, <1>8, <2>2 DEF BadInsert, Opcode, Known
    <3>2. PICK h \in Nat : h = Header
      BY FeedNumbers
    <3>3. ~(k + h - 1 <= n)
      BY <1>3, <1>4, <3>1, <3>2
    <3>4. ~R[k]
      BY <1>3, <1>4, <3>1, <3>2, <3>3, ReadableSteps
    <3>5. QED
      BY <1>1, <1>5, <2>1, <3>4 DEF WellFormed
  <2>3. CASE UnknownOp
    <3>1. text[k] \notin {OpBranch, OpInsert}
      BY <1>4, <2>3 DEF UnknownOp
    <3>2. ~R[k]
      BY <1>3, <1>4, <3>1, ReadableSteps
    <3>3. QED
      BY <1>1, <1>5, <2>1, <3>2 DEF WellFormed
  <2>4. QED
    BY <2>2, <2>3
<1>9. QED
  BY <1>7, <1>8

\* The end of a request that was read throughout.
LEMMA FinishedIsWellFormed ==
  ASSUME ReadInv, Known, Finish
  PROVE  result' = "200" /\ WellFormed(text)
<1> DEFINE R == ReadableFrom(text)
<1>1. p.len = 0 /\ result' = "200"
  BY DEF Finish
<1>2. PICK n \in Nat : n = Len(text) /\ text \in Seq(Byte)
  BY LenProperties DEF ReadInv, TypeOK
<1>3. NextByte = n + 1
  BY <1>1, <1>2 DEF NextByte
<1>4. CASE branches = 0
  <2>1. n = 0
    BY <1>2, <1>3, <1>4 DEF Known
  <2>2. text = << >>
    BY <1>2, <2>1, EmptySeq
  <2>3. QED
    BY <1>1, <2>2 DEF WellFormed
<1>5. CASE branches # 0
  <2>1. R[n + 1]
    BY <1>2, ReadableSteps
  <2>2. QED
    BY <1>1, <1>3, <1>5, <2>1 DEF Known, WellFormed
<1>6. QED
  BY <1>4, <1>5

LEMMA StepAccepts ==
  ASSUME ReadInv, AcceptInv, Step
  PROVE  AcceptInv'
<1> DEFINE R == ReadableFrom(text)
<1>1. UNCHANGED request /\ result = "running"
  BY DEF Step, BranchOp, BadInsert, InsertOp, UnknownOp, Finish, Refuse, Opcode
<1>2. text' = text
  BY <1>1 DEF request
<1>3. SUFFICES ASSUME ~wrapped', ~stale', ~refusal'
               PROVE  AcceptInv'
  BY DEF AcceptInv, AcceptsWellFormed
<1>4. ~wrapped /\ ~stale /\ ~refusal
  <2>1. ~refusal
    <3>1. refusal' = refusal \/ refusal' = TRUE
      BY DEF Step, BranchOp, BadInsert, InsertOp, UnknownOp, Finish
    <3>2. QED
      BY <1>3, <3>1
  <2>2. ~wrapped
    <3>1. wrapped => wrapped'
      BY Zenon DEF Step, BranchOp, BadInsert, InsertOp, UnknownOp, Finish, Convert
    <3>2. QED
      BY <1>3, <3>1
  <2>3. ~stale
    <3>1. stale => stale'
      BY Zenon DEF Step, BranchOp, BadInsert, InsertOp, UnknownOp, Finish
    <3>2. QED
      BY <1>3, <3>1
  <2>4. QED
    BY <2>1, <2>2, <2>3
<1>5. Known
  BY <1>1, <1>4, RunningKnown
<1>6. R[1] <=> R[NextByte]
  BY <1>5 DEF Known
<1>7. ASSUME result' = "400", ~WellFormed(text)
      PROVE  AcceptInv'
  BY <1>2, <1>7 DEF AcceptInv, AcceptsWellFormed
<1>8. ASSUME result' = "200", WellFormed(text)
      PROVE  AcceptInv'
  BY <1>2, <1>8 DEF AcceptInv, AcceptsWellFormed
<1>9. ASSUME result' = "running", branches' # 0, file' # -1, Reading',
             text # << >>, text[1] = OpBranch, R[NextByte] <=> R[NextByte']
      PROVE  AcceptInv'
  BY <1>2, <1>6, <1>9 DEF AcceptInv, AcceptsWellFormed
<1>10. CASE BranchOp
  <2>1. /\ text # << >> /\ text[NextByte] = OpBranch /\ branches' # 0
        /\ \/ result' = "400" /\ ~R[NextByte]
           \/ /\ result' = "running" /\ file' # -1 /\ Reading'
              /\ R[NextByte] <=> R[NextByte']
    BY <1>3, <1>5, <1>10, BranchReads DEF Known
  <2>2. text[1] = OpBranch
    BY <1>5, <2>1 DEF Known
  <2>3. CASE result' = "400" /\ ~R[NextByte]
    BY <1>6, <1>7, <2>1, <2>3 DEF WellFormed
  <2>4. QED
    BY <1>9, <2>1, <2>2, <2>3
<1>11. CASE InsertOp
  <2>1. \/ result' = "400" /\ ~R[NextByte]
        \/ result' = "running" /\ Reading' /\ (R[NextByte] <=> R[NextByte'])
    BY <1>3, <1>5, <1>11, InsertReads DEF Known
  <2>2. file # -1 /\ file' = file /\ branches' = branches
    BY <1>11 DEF InsertOp
  <2>3. branches # 0 /\ text # << >> /\ text[1] = OpBranch
    BY <1>5, <2>2 DEF Known
  <2>4. CASE result' = "400" /\ ~R[NextByte]
    BY <1>6, <1>7, <2>3, <2>4 DEF WellFormed
  <2>5. QED
    BY <1>9, <2>1, <2>2, <2>3, <2>4
<1>12. CASE BadInsert \/ UnknownOp
  BY <1>5, <1>7, <1>12, RefusedIsMalformed
<1>13. CASE Finish
  BY <1>5, <1>8, <1>13, FinishedIsWellFormed
<1>14. QED
  BY <1>10, <1>11, <1>12, <1>13 DEF Step

LEMMA AcceptInit == Init => AcceptInv
BY DEF Init, AcceptInv, AcceptsWellFormed

LEMMA AcceptNext == ReadInv /\ AcceptInv /\ [Next]_vars => AcceptInv'
<1> SUFFICES ASSUME ReadInv, AcceptInv, [Next]_vars
             PROVE  AcceptInv'
  OBVIOUS
<1>1. CASE Call
  <2>1. PICK body \in Seq(Byte), l \in Lists \cup {None} : Receive(body, l)
    BY <1>1, CallReceives
  <2>2. /\ text' = body /\ result' = "running" /\ branches' = 0 /\ buf' = body
        /\ p' = All(body) /\ file' = -1
    BY <2>1 DEF Receive
  <2>3. AtStart'
    BY <2>2 DEF AtStart, All
  <2>4. QED
    BY <2>2, <2>3 DEF AcceptInv, AcceptsWellFormed
<1>2. CASE Step
  BY <1>2, StepAccepts
<1>3. CASE UNCHANGED vars
  <2>1. /\ UNCHANGED <<buf, p, file, result, branches, refusal, wrapped, stale>>
        /\ UNCHANGED text
    BY <1>3 DEF vars, handler, request
  <2>2. AtStart' <=> AtStart
    BY <2>1 DEF AtStart, All
  <2>3. NextByte' = NextByte
    BY <2>1 DEF NextByte
  <2>4. Reading' <=> Reading
    BY <2>1, <2>3 DEF Reading
  <2>5. AcceptsWellFormed' <=> AcceptsWellFormed
    BY <2>1 DEF AcceptsWellFormed
  <2>6. QED
    BY <2>1, <2>2, <2>3, <2>4, <2>5 DEF AcceptInv
<1>4. QED
  BY <1>1, <1>2, <1>3 DEF Next

\* The requests that are accepted are those that can be read by exact lengths
\* from the first byte to the last, unless a length wraps, an id is read past
\* the end, or a file cannot be opened: nothing else is let through, and
\* nothing that can be read is refused.
THEOREM WellFormedAreAccepted == Spec => []AcceptsWellFormed
<1>1. AcceptInv => AcceptsWellFormed
  BY DEF AcceptInv, AcceptsWellFormed
<1>2. QED
  BY <1>1, ReadStays, AcceptInit, AcceptNext, PTL DEF Spec
=============================================================================
