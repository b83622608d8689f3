---------------------------- MODULE StreamProofs ----------------------------
(***************************************************************************)
(* Facts about numbers, sequences and streams that the proofs about the    *)
(* wire format and about the notify records rest on.  A recursive          *)
(* definition denotes a function that satisfies its equation, and what     *)
(* that function computes follows from the least element of a set of       *)
(* naturals.                                                               *)
(***************************************************************************)
EXTENDS Streams, TLAPS, WellFoundedInduction

\* A set of naturals that is not empty has a least element.
LEMMA Least ==
  ASSUME NEW T, T \subseteq Nat, T # {}
  PROVE  \E x \in T : \A y \in T : x <= y
<1>. DEFINE R == {ss \in Nat \X Nat : ss[1] < ss[2]}
<1>1. IsWellFoundedOn(R, Nat)
  BY NatLessThanWellFounded DEF OpToRel
<1>2. \E x \in T : \A y \in T : ~ (<<y, x>> \in R)
  <2>. HIDE DEF R
  <2>. QED
    BY <1>1, WFMin
<1>3. PICK x \in T : \A y \in T : ~ (<<y, x>> \in R)
  BY <1>2
<1>4. ASSUME NEW y \in T PROVE x <= y
  <2>1. x \in Nat /\ y \in Nat /\ <<y, x>> \in Nat \X Nat
    OBVIOUS
  <2>2. <<y, x>> \notin R
    BY <1>3
  <2>. QED
    BY <2>1, <2>2
<1>. QED
  BY <1>4

\* What holds of 0, and of i whenever of i - 1, holds of every number up to n.
LEMMA Induction ==
  ASSUME NEW n \in Nat, NEW T, 0 \in T, \A i \in 1 .. n : i - 1 \in T => i \in T
  PROVE  \A i \in 0 .. n : i \in T
<1>. DEFINE Bad == {i \in 0 .. n : i \notin T}
<1>1. SUFFICES ASSUME Bad # {} PROVE FALSE
  OBVIOUS
<1>2. PICK i \in Bad : \A y \in Bad : i <= y
  <2>1. Bad \subseteq Nat
    OBVIOUS
  <2>. HIDE DEF Bad
  <2>. QED
    BY <1>1, <2>1, Least
<1>3. i \in 1 .. n /\ i - 1 \in 0 .. n /\ i - 1 \notin Bad
  BY <1>2
<1>. QED
  BY <1>2, <1>3

\* f is c at 0, and each next value is what step makes of the one before and its index.
Unfolds(f, D, n, c, step) ==
    /\ f \in [0 .. n -> D]
    /\ f[0] = c
    /\ \A i \in 1 .. n : f[i] = step[<<f[i - 1], i>>]

\* There is a function that unfolds: a recursive definition denotes one.
LEMMA Recursion ==
  ASSUME NEW D, NEW c \in D, NEW step \in [D \X Nat -> D], NEW n \in Nat
  PROVE  \E f : Unfolds(f, D, n, c, step)
<1>. DEFINE Solves(f, k) == f[0] = c /\ \A i \in 1 .. k : f[i] = step[<<f[i - 1], i>>]
            Bad == {k \in Nat : ~ \E f \in [0 .. k -> D] : Solves(f, k)}
<1>1. SUFFICES ASSUME Bad # {} PROVE FALSE
  BY DEF Unfolds
<1>2. PICK k \in Bad : \A y \in Bad : k <= y
  <2>1. Bad \subseteq Nat
    OBVIOUS
  <2>. HIDE DEF Bad
  <2>. QED
    BY <1>1, <2>1, Least
<1>3. k # 0
  <2>1. [i \in 0 .. 0 |-> c] \in [0 .. 0 -> D] /\ Solves([i \in 0 .. 0 |-> c], 0)
    OBVIOUS
  <2>. QED
    BY <2>1
<1>4. PICK f \in [0 .. k - 1 -> D] : Solves(f, k - 1)
  <2>1. k - 1 \in Nat /\ k - 1 \notin Bad
    BY <1>2, <1>3
  <2>. QED
    BY <2>1
<1>. DEFINE g == [i \in 0 .. k |-> IF i = k THEN step[<<f[k - 1], k>>] ELSE f[i]]
<1>5. k \in Nat /\ k - 1 \in 0 .. k - 1 /\ <<f[k - 1], k>> \in D \X Nat
  BY <1>3
<1>6. g \in [0 .. k -> D]
  <2>1. step[<<f[k - 1], k>>] \in D
    BY <1>5
  <2>2. \A i \in 0 .. k : i # k => i \in 0 .. k - 1
    BY <1>5
  <2>. QED
    BY <2>1, <2>2
<1>7. Solves(g, k)
  <2>1. g[0] = c
    BY <1>3, <1>4, <1>5
  <2>2. ASSUME NEW i \in 1 .. k PROVE g[i] = step[<<g[i - 1], i>>]
    <3>1. CASE i = k
      <4>1. g[i] = step[<<f[k - 1], k>>] /\ g[i - 1] = f[k - 1]
        BY <3>1, <1>5
      <4>. QED
        BY <4>1, <3>1
    <3>2. CASE i # k
      <4>1. i \in 1 .. k - 1 /\ i - 1 \in 0 .. k - 1 /\ i \in 0 .. k /\ i - 1 \in 0 .. k /\ i - 1 # k
        BY <3>2, <1>5
      <4>2. g[i] = f[i] /\ g[i - 1] = f[i - 1]
        BY <4>1, <3>2
      <4>. QED
        BY <4>1, <4>2, <1>4
    <3>. QED
      BY <3>1, <3>2
  <2>. QED
    BY <2>1, <2>2
<1>. QED
  <2>. HIDE DEF g
  <2>. QED
    BY <1>6, <1>7 DEF Unfolds
-----------------------------------------------------------------------------
\* The elements of a concatenation.
LEMMA ConcatIs ==
  ASSUME NEW B, NEW a \in Seq(B), NEW b \in Seq(B)
  PROVE  /\ a \o b \in Seq(B) /\ Len(a \o b) = Len(a) + Len(b)
         /\ Len(a) \in Nat /\ Len(b) \in Nat
         /\ \A i \in 1 .. Len(a) : (a \o b)[i] = a[i]
         /\ \A i \in 1 .. Len(a) + Len(b) : i > Len(a) => (a \o b)[i] = b[i - Len(a)]
OBVIOUS

\* Sequences of the same elements are equal.
LEMMA SameSeq ==
  ASSUME NEW B, NEW a \in Seq(B), NEW b \in Seq(B), Len(a) = Len(b),
         \A i \in 1 .. Len(a) : a[i] = b[i]
  PROVE  a = b
OBVIOUS

\* The elements of the two parts of a sequence cut after n.
LEMMA CutIs ==
  ASSUME NEW B, NEW a \in Seq(B), NEW n \in 0 .. Len(a)
  PROVE  /\ SubSeq(a, n + 1, Len(a)) \in Seq(B) /\ Len(SubSeq(a, n + 1, Len(a))) = Len(a) - n
         /\ \A i \in 1 .. Len(a) - n : SubSeq(a, n + 1, Len(a))[i] = a[n + i]
         /\ SubSeq(a, 1, n) \in Seq(B) /\ Len(SubSeq(a, 1, n)) = n
         /\ \A i \in 1 .. n : SubSeq(a, 1, n)[i] = a[i]
<1>1. /\ SubSeq(a, 1, n) \in Seq(B) /\ Len(SubSeq(a, 1, n)) = n
      /\ \A i \in 1 .. n : SubSeq(a, 1, n)[i] = a[i]
  OBVIOUS
<1>2. /\ SubSeq(a, n + 1, Len(a)) \in Seq(B) /\ Len(SubSeq(a, n + 1, Len(a))) = Len(a) - n
      /\ \A i \in 1 .. Len(a) - n : SubSeq(a, n + 1, Len(a))[i] = a[n + i]
  OBVIOUS
<1>. QED
  BY <1>1, <1>2

\* Concatenation is associative.
LEMMA ConcatAssoc ==
  ASSUME NEW B, NEW a \in Seq(B), NEW b \in Seq(B), NEW c \in Seq(B)
  PROVE  (a \o b) \o c = a \o (b \o c)
<1>. DEFINE d == a \o b
            e == b \o c
            l == d \o c
            r == a \o e
<1>1. /\ d \in Seq(B) /\ Len(d) = Len(a) + Len(b) /\ Len(a) \in Nat /\ Len(b) \in Nat
      /\ \A i \in 1 .. Len(a) : d[i] = a[i]
      /\ \A i \in 1 .. Len(a) + Len(b) : i > Len(a) => d[i] = b[i - Len(a)]
  BY ConcatIs
<1>2. /\ e \in Seq(B) /\ Len(e) = Len(b) + Len(c) /\ Len(c) \in Nat
      /\ \A i \in 1 .. Len(b) : e[i] = b[i]
      /\ \A i \in 1 .. Len(b) + Len(c) : i > Len(b) => e[i] = c[i - Len(b)]
  BY ConcatIs
<1>. HIDE DEF d, e
<1>3. /\ l \in Seq(B) /\ Len(l) = Len(d) + Len(c)
      /\ \A i \in 1 .. Len(d) : l[i] = d[i]
      /\ \A i \in 1 .. Len(d) + Len(c) : i > Len(d) => l[i] = c[i - Len(d)]
  <2>1. d \in Seq(B)
    BY <1>1
  <2>. QED
    BY <2>1, ConcatIs
<1>4. /\ r \in Seq(B) /\ Len(r) = Len(a) + Len(e)
      /\ \A i \in 1 .. Len(a) : r[i] = a[i]
      /\ \A i \in 1 .. Len(a) + Len(e) : i > Len(a) => r[i] = e[i - Len(a)]
  <2>1. e \in Seq(B)
    BY <1>2
  <2>. QED
    BY <2>1, ConcatIs
<1>. HIDE DEF l, r
<1>5. Len(l) = Len(r)
  BY <1>1, <1>2, <1>3, <1>4
<1>6. ASSUME NEW i \in 1 .. Len(l) PROVE l[i] = r[i]
  <2>1. CASE i <= Len(a)
    BY <2>1, <1>1, <1>2, <1>3, <1>4, <1>5
  <2>2. CASE i > Len(a) /\ i <= Len(d)
    <3>1. l[i] = b[i - Len(a)] /\ r[i] = e[i - Len(a)] /\ i - Len(a) \in 1 .. Len(b)
      BY <2>2, <1>1, <1>2, <1>3, <1>4, <1>5
    <3>. QED
      BY <3>1, <1>2
  <2>3. CASE i > Len(d)
    <3>1. l[i] = c[i - Len(d)] /\ r[i] = e[i - Len(a)]
      BY <2>3, <1>1, <1>2, <1>3, <1>4, <1>5
    <3>2. /\ i - Len(a) \in 1 .. Len(b) + Len(c) /\ i - Len(a) > Len(b)
          /\ (i - Len(a)) - Len(b) = i - Len(d)
      BY <2>3, <1>1, <1>2, <1>3, <1>4, <1>5
    <3>. QED
      BY <3>1, <3>2, <1>2
  <2>. QED
    BY <2>1, <2>2, <2>3, <1>1
<1>7. l = r
  BY <1>3, <1>4, <1>5, <1>6, SameSeq
<1>. QED
  BY <1>7 DEF l, r, d, e

\* Bytes that move from the wire to the end of a buffer are the same stream.
LEMMA MoveFront ==
  ASSUME NEW B, NEW front \in Seq(B), NEW back \in Seq(B), NEW n \in 0 .. Len(back)
  PROVE  /\ front \o SubSeq(back, 1, n) \in Seq(B)
         /\ (front \o SubSeq(back, 1, n)) \o SubSeq(back, n + 1, Len(back)) = front \o back
<1>. DEFINE a == SubSeq(back, 1, n)
            b == SubSeq(back, n + 1, Len(back))
            m == front \o a
            l == m \o b
            r == front \o back
<1>1. /\ a \in Seq(B) /\ Len(a) = n /\ \A i \in 1 .. n : a[i] = back[i]
      /\ b \in Seq(B) /\ Len(b) = Len(back) - n /\ \A i \in 1 .. Len(back) - n : b[i] = back[n + i]
      /\ n \in Nat
  BY CutIs
<1>. HIDE DEF a, b
<1>2. /\ m \in Seq(B) /\ Len(m) = Len(front) + n /\ Len(front) \in Nat
      /\ \A i \in 1 .. Len(front) : m[i] = front[i]
      /\ \A i \in 1 .. Len(front) + n : i > Len(front) => m[i] = a[i - Len(front)]
  <2>1. a \in Seq(B)
    BY <1>1
  <2>2. /\ m \in Seq(B) /\ Len(m) = Len(front) + Len(a) /\ Len(front) \in Nat
        /\ \A i \in 1 .. Len(front) : m[i] = front[i]
        /\ \A i \in 1 .. Len(front) + Len(a) : i > Len(front) => m[i] = a[i - Len(front)]
    BY <2>1, ConcatIs
  <2>. QED
    BY <1>1, <2>2
<1>. HIDE DEF m
<1>3. /\ l \in Seq(B) /\ Len(l) = Len(m) + Len(b)
      /\ \A i \in 1 .. Len(m) : l[i] = m[i]
      /\ \A i \in 1 .. Len(m) + Len(b) : i > Len(m) => l[i] = b[i - Len(m)]
  <2>1. m \in Seq(B) /\ b \in Seq(B)
    BY <1>1, <1>2
  <2>. QED
    BY <2>1, ConcatIs
<1>. HIDE DEF l
<1>4. /\ r \in Seq(B) /\ Len(r) = Len(front) + Len(back) /\ Len(back) \in Nat
      /\ \A i \in 1 .. Len(front) : r[i] = front[i]
      /\ \A i \in 1 .. Len(front) + Len(back) : i > Len(front) => r[i] = back[i - Len(front)]
  BY ConcatIs
<1>. HIDE DEF r
<1>5. Len(l) = Len(r)
  BY <1>1, <1>2, <1>3, <1>4
<1>6. ASSUME NEW i \in 1 .. Len(l) PROVE l[i] = r[i]
  <2>1. CASE i <= Len(front)
    BY <2>1, <1>1, <1>2, <1>3, <1>4, <1>5
  <2>2. CASE i > Len(front) /\ i <= Len(m)
    <3>1. l[i] = a[i - Len(front)]
      BY <2>2, <1>1, <1>2, <1>3, <1>4, <1>5
    <3>2. r[i] = back[i - Len(front)]
      BY <2>2, <1>1, <1>2, <1>3, <1>4, <1>5
    <3>3. i - Len(front) \in 1 .. n
      BY <2>2, <1>1, <1>2
    <3>. QED
      BY <3>1, <3>2, <3>3, <1>1
  <2>3. CASE i > Len(m)
    <3>1. l[i] = b[i - Len(m)]
      BY <2>3, <1>1, <1>2, <1>3, <1>4, <1>5
    <3>2. r[i] = back[i - Len(front)]
      BY SMTT(20), <2>3, <1>1, <1>2, <1>3, <1>4, <1>5
    <3>3. i - Len(m) \in 1 .. Len(back) - n /\ n + (i - Len(m)) = i - Len(front)
      BY <2>3, <1>1, <1>2, <1>3, <1>4
    <3>. QED
      BY <3>1, <3>2, <3>3, <1>1
  <2>. QED
    BY <2>1, <2>2, <2>3, <1>2
<1>7. l = r
  BY <1>3, <1>4, <1>5, <1>6, SameSeq
<1>. QED
  BY <1>2, <1>7 DEF a, b, m, l, r

\* Bytes taken off a buffer are taken off the stream.
LEMMA DropFront ==
  ASSUME NEW B, NEW front \in Seq(B), NEW back \in Seq(B), NEW n \in 0 .. Len(front)
  PROVE  SubSeq(front, n + 1, Len(front)) \o back = SubSeq(front \o back, n + 1, Len(front \o back))
<1>. DEFINE a == SubSeq(front, n + 1, Len(front))
            l == a \o back
            m == front \o back
            r == SubSeq(m, n + 1, Len(m))
<1>1. /\ a \in Seq(B) /\ Len(a) = Len(front) - n /\ n \in Nat
      /\ \A i \in 1 .. Len(front) - n : a[i] = front[n + i]
  BY CutIs
<1>. HIDE DEF a
<1>2. /\ l \in Seq(B) /\ Len(l) = Len(a) + Len(back)
      /\ \A i \in 1 .. Len(a) : l[i] = a[i]
      /\ \A i \in 1 .. Len(a) + Len(back) : i > Len(a) => l[i] = back[i - Len(a)]
  BY <1>1, ConcatIs
<1>. HIDE DEF l
<1>3. /\ m \in Seq(B) /\ Len(m) = Len(front) + Len(back)
      /\ Len(front) \in Nat /\ Len(back) \in Nat
      /\ \A i \in 1 .. Len(front) : m[i] = front[i]
      /\ \A i \in 1 .. Len(front) + Len(back) : i > Len(front) => m[i] = back[i - Len(front)]
  BY ConcatIs
<1>. HIDE DEF m
<1>4. /\ r \in Seq(B) /\ Len(r) = Len(m) - n
      /\ \A i \in 1 .. Len(m) - n : r[i] = m[n + i]
  <2>1. n \in 0 .. Len(m)
    BY <1>3
  <2>. QED
    BY <2>1, <1>3, CutIs
<1>. HIDE DEF r
<1>5. Len(l) = Len(r)
  BY <1>1, <1>2, <1>3, <1>4
<1>6. ASSUME NEW i \in 1 .. Len(l) PROVE l[i] = r[i]
  <2>0. r[i] = m[n + i]
    BY <1>1, <1>2, <1>3, <1>4
  <2>1. CASE i <= Len(a)
    <3>1. l[i] = front[n + i] /\ n + i \in 1 .. Len(front)
      BY <2>1, <1>1, <1>2, <1>3
    <3>. QED
      BY <2>0, <3>1, <1>3
  <2>2. CASE i > Len(a)
    <3>1. l[i] = back[i - Len(a)]
      BY <2>2, <1>1, <1>2, <1>3
    <3>2. n + i \in 1 .. Len(front) + Len(back) /\ n + i > Len(front) /\ (n + i) - Len(front) = i - Len(a)
      BY <2>2, <1>1, <1>2, <1>3
    <3>. QED
      BY <2>0, <3>1, <3>2, <1>3
  <2>. QED
    BY <2>1, <2>2, <1>1, <1>2, <1>3
<1>7. l = r
  BY <1>2, <1>4, <1>5, <1>6, SameSeq
<1>. QED
  BY <1>7 DEF a, l, m, r
-----------------------------------------------------------------------------
\* Written unfolds: a piece ends as many bytes after the one before it as it is long.
LEMMA WrittenIs ==
  ASSUME NEW B, NEW s \in Seq(Seq(B))
  PROVE  /\ Written(s) \in [0 .. Len(s) -> Nat]
         /\ Written(s)[0] = 0
         /\ \A k \in 1 .. Len(s) : Written(s)[k] = Written(s)[k - 1] + Len(s[k])
<1>. DEFINE D == Nat
            n == Len(s)
            step == [vi \in D \X Nat |-> IF vi[2] \in 1 .. n THEN vi[1] + Len(s[vi[2]]) ELSE 0]
            Eq(g) == g = [i \in 0 .. n |-> IF i = 0 THEN 0 ELSE g[i - 1] + Len(s[i])]
            value == CHOOSE g : Eq(g)
<1>0. n \in Nat /\ \A i \in 1 .. n : Len(s[i]) \in Nat
  OBVIOUS
<1>1. step \in [D \X Nat -> D]
  <2>1. ASSUME NEW x \in Nat, NEW i \in 1 .. n PROVE x + Len(s[i]) \in Nat
    <3>1. Len(s[i]) \in Nat
      BY <1>0
    <3>2. \A y, l \in Nat : y + l \in Nat
      OBVIOUS
    <3>. QED
      BY <3>1, <3>2
  <2>. HIDE DEF n
  <2>. QED
    BY <2>1
<1>. HIDE DEF n
<1>2. \E f : Unfolds(f, D, n, 0, step)
  <2>1. 0 \in D
    OBVIOUS
  <2>. HIDE DEF step, D
  <2>. QED
    BY <1>0, <1>1, <2>1, Recursion
<1>3. PICK f : f \in [0 .. n -> D] /\ f[0] = 0 /\ \A i \in 1 .. n : f[i] = step[<<f[i - 1], i>>]
  BY <1>2 DEF Unfolds
<1>4. Eq(f)
  <2>1. \A i \in 1 .. n : i - 1 \in 0 .. n /\ f[i - 1] \in D /\ i \in Nat
    <3>1. f \in [0 .. n -> D]
      BY <1>3
    <3>2. \A i \in 1 .. n : i - 1 \in 0 .. n /\ i \in Nat
      BY <1>0
    <3>. HIDE DEF D
    <3>. QED
      BY ONLY <3>1, <3>2
  <2>2. \A i \in 1 .. n : f[i] = f[i - 1] + Len(s[i])
    BY <1>3, <2>1
  <2>3. \A i \in 0 .. n : i # 0 => i \in 1 .. n
    BY <1>0
  <2>. HIDE DEF D, step
  <2>. QED
    BY <1>3, <2>2, <2>3
<1>5. Eq(value)
  <2>. HIDE DEF D, step
  <2>. QED
    BY <1>4
<1>6. value[0] = 0 /\ \A i \in 1 .. n : value[i] = value[i - 1] + Len(s[i])
  <2>1. 0 \in 0 .. n /\ \A i \in 1 .. n : i \in 0 .. n /\ i # 0
    BY <1>0
  <2>. HIDE DEF D, step, value
  <2>. QED
    BY <1>5, <2>1
<1>. DEFINE T == {i \in 0 .. n : value[i] \in Nat}
<1>7. \A i \in 0 .. n : i \in T
  <2>. HIDE DEF value
  <2>1. 0 \in T
    BY <1>0, <1>6
  <2>2. ASSUME NEW i \in 1 .. n, i - 1 \in T PROVE i \in T
    BY <1>0, <1>6, <2>2
  <2>. HIDE DEF T
  <2>. QED
    BY <1>0, <2>1, <2>2, Induction
<1>8. Written(s) = value
  BY DEF Written, n
<1>. QED
  <2>. HIDE DEF step, value
  <2>. QED
    BY <1>5, <1>6, <1>7, <1>8 DEF n

\* Later pieces end later.
LEMMA WrittenGrows ==
  ASSUME NEW B, NEW s \in Seq(Seq(B)), NEW j \in 0 .. Len(s), NEW i \in 0 .. j
  PROVE  Written(s)[i] <= Written(s)[j]
<1>. DEFINE W == Written(s)
            T == {k \in 0 .. Len(s) : i <= k => W[i] <= W[k]}
<1>0. Len(s) \in Nat /\ \A k \in 1 .. Len(s) : Len(s[k]) \in Nat
  OBVIOUS
<1>1. /\ W \in [0 .. Len(s) -> Nat] /\ W[0] = 0
      /\ \A k \in 1 .. Len(s) : W[k] = W[k - 1] + Len(s[k])
  BY WrittenIs
<1>. HIDE DEF W
<1>2. 0 \in T
  BY <1>0, <1>1
<1>3. ASSUME NEW k \in 1 .. Len(s), k - 1 \in T PROVE k \in T
  <2>0. k \in 0 .. Len(s) /\ k - 1 \in 0 .. Len(s) /\ Len(s[k]) \in Nat
    BY <1>0
  <2>1. W[k] = W[k - 1] + Len(s[k]) /\ W[k - 1] \in Nat /\ W[k] \in Nat
    BY <2>0, <1>1
  <2>2. W[k - 1] <= W[k]
    BY ONLY <1>0, <2>0, <2>1
  <2>3. i <= k => W[i] <= W[k]
    <3>1. CASE i = k
      BY <3>1, <2>1
    <3>2. CASE i <= k - 1
      <4>1. W[i] <= W[k - 1]
        BY <1>3, <3>2
      <4>2. W[i] \in Nat
        <5>1. i \in 0 .. Len(s)
          BY <1>0
        <5>. QED
          BY <5>1, <1>1
      <4>. QED
        BY <4>1, <4>2, <2>1, <2>2
    <3>. QED
      BY <3>1, <3>2, <2>0
  <2>. QED
    BY <2>0, <2>3
<1>4. j \in T
  <2>. HIDE DEF T
  <2>1. \A k \in 0 .. Len(s) : k \in T
    BY <1>0, <1>2, <1>3, Induction
  <2>. QED
    BY <2>1
<1>. QED
  BY <1>4 DEF W

\* One more piece moves none of those before it.
LEMMA WrittenAppend ==
  ASSUME NEW B, NEW s \in Seq(Seq(B)), NEW p \in Seq(B)
  PROVE  /\ \A k \in 0 .. Len(s) : Written(Append(s, p))[k] = Written(s)[k]
         /\ Written(Append(s, p))[Len(s) + 1] = Written(s)[Len(s)] + Len(p)
<1>. DEFINE t == Append(s, p)
            V == Written(t)
            W == Written(s)
            T == {k \in 0 .. Len(s) : V[k] = W[k]}
<1>0. t \in Seq(Seq(B)) /\ Len(s) \in Nat /\ Len(t) = Len(s) + 1 /\ t[Len(s) + 1] = p
  OBVIOUS
<1>1. \A k \in 1 .. Len(s) : t[k] = s[k]
  OBVIOUS
<1>. HIDE DEF t
<1>2. /\ W[0] = 0
      /\ \A k \in 1 .. Len(s) : W[k] = W[k - 1] + Len(s[k])
  BY WrittenIs
<1>3. /\ V[0] = 0
      /\ \A k \in 1 .. Len(s) + 1 : V[k] = V[k - 1] + Len(t[k])
  BY <1>0, WrittenIs
<1>. HIDE DEF V, W
<1>4. \A k \in 0 .. Len(s) : k \in T
  <2>1. 0 \in T
    BY <1>0, <1>2, <1>3
  <2>2. ASSUME NEW k \in 1 .. Len(s), k - 1 \in T PROVE k \in T
    <3>1. k \in 1 .. Len(s) + 1 /\ k \in 0 .. Len(s)
      BY <1>0
    <3>. QED
      BY <1>1, <1>2, <1>3, <2>2, <3>1
  <2>. HIDE DEF T
  <2>. QED
    BY <1>0, <2>1, <2>2, Induction
<1>5. V[Len(s) + 1] = W[Len(s)] + Len(p)
  <2>1. Len(s) + 1 \in 1 .. Len(s) + 1 /\ (Len(s) + 1) - 1 = Len(s) /\ Len(s) \in 0 .. Len(s)
    BY <1>0
  <2>2. V[Len(s) + 1] = V[Len(s)] + Len(p)
    BY <2>1, <1>0, <1>3
  <2>. QED
    BY <2>1, <2>2, <1>4
<1>. QED
  BY <1>4, <1>5 DEF V, W, t

\* A piece of the stream ends within it.
LEMMA PieceFits ==
  ASSUME NEW B, NEW s \in Seq(Seq(B)), NEW k \in 1 .. Len(s)
  PROVE  /\ s[k] \in Seq(B) /\ Len(s[k]) \in Nat
         /\ Written(s)[k - 1] \in Nat /\ Written(s)[k] \in Nat /\ Written(s)[Len(s)] \in Nat
         /\ Written(s)[k] = Written(s)[k - 1] + Len(s[k])
         /\ Written(s)[k] <= Written(s)[Len(s)]
<1>1. s[k] \in Seq(B) /\ Len(s[k]) \in Nat /\ Len(s) \in Nat
  OBVIOUS
<1>2. k - 1 \in 0 .. Len(s) /\ k \in 0 .. Len(s) /\ Len(s) \in 0 .. Len(s)
  BY <1>1
<1>3. Written(s)[k - 1] \in Nat /\ Written(s)[k] \in Nat /\ Written(s)[Len(s)] \in Nat
  BY <1>2, WrittenIs
<1>4. Written(s)[k] = Written(s)[k - 1] + Len(s[k])
  BY WrittenIs
<1>5. Written(s)[k] <= Written(s)[Len(s)]
  BY <1>2, WrittenGrows
<1>. QED
  BY <1>1, <1>3, <1>4, <1>5
-----------------------------------------------------------------------------
\* The position on the stream of s at which the bytes left over, rest, begin.
Consumed(s, rest) == Written(s)[Len(s)] - Len(rest)

\* From the position on, rest holds the bytes of the pieces.
Remains(s, rest) ==
    /\ Consumed(s, rest) \in Nat
    /\ \A k \in 1 .. Len(s) : \A j \in 1 .. Len(s[k]) :
         LET i == Written(s)[k - 1] + j - Consumed(s, rest)
         IN i > 0 => rest[i] = s[k][j]

\* Nothing remains of the empty stream.
LEMMA RemainsEmpty ==
  /\ Remains(<<>>, <<>>) /\ Consumed(<<>>, <<>>) = 0
  /\ Written(<<>>)[0] = 0
<1>1. <<>> \in Seq(Seq({})) /\ Len(<<>>) = 0
  OBVIOUS
<1>2. Written(<<>>)[0] = 0
  BY <1>1, WrittenIs
<1>. QED
  BY <1>1, <1>2 DEF Remains, Consumed

\* Writing a piece lengthens what remains, and moves no position.
LEMMA RemainsAppend ==
  ASSUME NEW B, NEW s \in Seq(Seq(B)), NEW rest \in Seq(B), Remains(s, rest), NEW p \in Seq(B)
  PROVE  /\ Remains(Append(s, p), rest \o p)
         /\ Consumed(Append(s, p), rest \o p) = Consumed(s, rest)
<1>. DEFINE t == Append(s, p)
            more == rest \o p
            at == Consumed(s, rest)
<1>0. /\ t \in Seq(Seq(B)) /\ Len(s) \in Nat /\ Len(t) = Len(s) + 1 /\ t[Len(s) + 1] = p
      /\ \A k \in 1 .. Len(s) : t[k] = s[k]
      /\ Len(p) \in Nat
  OBVIOUS
<1>2. /\ Len(more) = Len(rest) + Len(p) /\ Len(rest) \in Nat
      /\ \A i \in 1 .. Len(rest) : more[i] = rest[i]
      /\ \A i \in 1 .. Len(rest) + Len(p) : i > Len(rest) => more[i] = p[i - Len(rest)]
  BY ConcatIs
<1>. HIDE DEF t, more
<1>3. /\ \A k \in 0 .. Len(s) : Written(t)[k] = Written(s)[k]
      /\ Written(t)[Len(s) + 1] = Written(s)[Len(s)] + Len(p)
      /\ Written(s)[Len(s)] \in Nat
  <2>1. Len(s) \in 0 .. Len(s)
    BY <1>0
  <2>. QED
    BY <2>1, WrittenAppend, WrittenIs DEF t
<1>4. Consumed(t, more) = at /\ at \in Nat /\ at = Written(s)[Len(s)] - Len(rest)
  BY <1>0, <1>2, <1>3 DEF Consumed, Remains
<1>. HIDE DEF at
<1>5. ASSUME NEW k \in 1 .. Len(t), NEW j \in 1 .. Len(t[k]),
             Written(t)[k - 1] + j - at > 0
      PROVE  more[Written(t)[k - 1] + j - at] = t[k][j]
  <2>1. CASE k = Len(s) + 1
    <3>1. k - 1 = Len(s) /\ Len(s) \in 0 .. Len(s) /\ t[k] = p
      BY <2>1, <1>0
    <3>. DEFINE i == Written(t)[k - 1] + j - at
    <3>2. i = Len(rest) + j
      <4>. DEFINE total == Written(s)[Len(s)]
      <4>1. Written(t)[k - 1] = total /\ total \in Nat /\ at = total - Len(rest)
        BY <3>1, <1>3, <1>4
      <4>2. total + j - at = Len(rest) + j
        <5>. HIDE DEF total
        <5>. QED
          BY <4>1, <1>2
      <4>. QED
        BY <4>1, <4>2
    <3>3. j \in 1 .. Len(p)
      BY <3>1
    <3>. HIDE DEF i
    <3>4. i \in 1 .. Len(rest) + Len(p) /\ i > Len(rest) /\ i - Len(rest) = j
      BY <3>2, <3>3, <1>0, <1>2
    <3>5. more[i] = p[j]
      BY <3>4, <1>2
    <3>. QED
      BY <3>1, <3>5 DEF i
  <2>2. CASE k # Len(s) + 1
    <3>1. k \in 1 .. Len(s) /\ k - 1 \in 0 .. Len(s)
      BY <2>2, <1>0
    <3>2. t[k] = s[k] /\ Written(t)[k - 1] = Written(s)[k - 1]
      BY <3>1, <1>0, <1>3
    <3>. DEFINE i == Written(s)[k - 1] + j - at
    <3>3. rest[i] = s[k][j]
      BY <3>1, <3>2, <1>5 DEF Remains, at
    <3>4. /\ Len(s[k]) \in Nat /\ Written(s)[k - 1] \in Nat
          /\ Written(s)[k] = Written(s)[k - 1] + Len(s[k])
          /\ Written(s)[k] <= Written(s)[Len(s)]
      BY <3>1, PieceFits
    <3>5. i \in 1 .. Len(rest)
      <4>. DEFINE w == Written(s)[k - 1]
                  l == Len(s[k])
                  total == Written(s)[Len(s)]
      <4>1. l \in Nat /\ w \in Nat /\ total \in Nat /\ w + l <= total /\ Len(rest) \in Nat
        BY <3>4, <1>2, <1>3
      <4>2. j \in 1 .. l /\ w + j - at > 0 /\ at \in Nat /\ at = total - Len(rest)
        BY <3>2, <1>4, <1>5
      <4>3. w + j - at \in 1 .. Len(rest)
        <5>. HIDE DEF w, l, total
        <5>. QED
          BY <4>1, <4>2
      <4>. QED
        BY <4>3
    <3>. QED
      BY <3>2, <3>3, <3>5, <1>2
  <2>. QED
    BY <2>1, <2>2
<1>. QED
  BY <1>4, <1>5 DEF Remains, t, more, at

\* Reading n bytes moves the position by n.
LEMMA RemainsDrop ==
  ASSUME NEW B, NEW s \in Seq(Seq(B)), NEW rest \in Seq(B), Remains(s, rest),
         NEW n \in 0 .. Len(rest)
  PROVE  /\ Remains(s, SubSeq(rest, n + 1, Len(rest)))
         /\ Consumed(s, SubSeq(rest, n + 1, Len(rest))) = Consumed(s, rest) + n
<1>. DEFINE less == SubSeq(rest, n + 1, Len(rest))
            at == Consumed(s, rest)
<1>1. /\ less \in Seq(B) /\ Len(less) = Len(rest) - n /\ Len(rest) \in Nat
      /\ \A i \in 1 .. Len(rest) - n : less[i] = rest[i + n]
  OBVIOUS
<1>. HIDE DEF less
<1>2. Written(s)[Len(s)] \in Nat
  <2>1. Len(s) \in 0 .. Len(s)
    OBVIOUS
  <2>. QED
    BY <2>1, WrittenIs
<1>3. Consumed(s, less) = at + n /\ at \in Nat /\ at = Written(s)[Len(s)] - Len(rest)
  BY <1>1, <1>2 DEF Consumed, Remains
<1>. HIDE DEF at
<1>4. ASSUME NEW k \in 1 .. Len(s), NEW j \in 1 .. Len(s[k]),
             Written(s)[k - 1] + j - (at + n) > 0
      PROVE  less[Written(s)[k - 1] + j - (at + n)] = s[k][j]
  <2>. DEFINE i == Written(s)[k - 1] + j - (at + n)
  <2>1. /\ Len(s[k]) \in Nat /\ Written(s)[k - 1] \in Nat
        /\ Written(s)[k] = Written(s)[k - 1] + Len(s[k])
        /\ Written(s)[k] <= Written(s)[Len(s)]
    BY PieceFits
  <2>2. i \in 1 .. Len(rest) - n /\ Written(s)[k - 1] + j - at > 0 /\ i + n = Written(s)[k - 1] + j - at
    <3>. DEFINE w == Written(s)[k - 1]
                l == Len(s[k])
                total == Written(s)[Len(s)]
    <3>1. l \in Nat /\ w \in Nat /\ total \in Nat /\ w + l <= total /\ Len(rest) \in Nat
      BY <2>1, <1>1, <1>2
    <3>2. j \in 1 .. l /\ w + j - (at + n) > 0 /\ at \in Nat /\ at = total - Len(rest)
      BY <1>3, <1>4
    <3>3. w + j - (at + n) \in 1 .. Len(rest) - n /\ w + j - at > 0 /\ (w + j - (at + n)) + n = w + j - at
      <4>. HIDE DEF w, l, total
      <4>. QED
        BY <3>1, <3>2
    <3>. QED
      BY <3>3
  <2>3. rest[i + n] = s[k][j]
    BY <2>2 DEF Remains, at
  <2>. QED
    BY <2>2, <2>3, <1>1
<1>5. at + n \in Nat
  BY <1>1, <1>3
<1>. QED
  BY <1>1, <1>3, <1>4, <1>5 DEF Remains, less, at

\* Within a piece, what remains begins with the rest of that piece.
LEMMA RemainsNext ==
  ASSUME NEW B, NEW s \in Seq(Seq(B)), NEW rest \in Seq(B), Remains(s, rest),
         NEW k \in 1 .. Len(s), NEW c \in 0 .. Len(s[k]),
         Consumed(s, rest) = Written(s)[k - 1] + c
  PROVE  /\ Len(rest) >= Len(s[k]) - c
         /\ \A i \in 1 .. Len(s[k]) - c : rest[i] = s[k][c + i]
<1>1. /\ Len(s[k]) \in Nat /\ Written(s)[k - 1] \in Nat /\ Written(s)[Len(s)] \in Nat
      /\ Written(s)[k] = Written(s)[k - 1] + Len(s[k])
      /\ Written(s)[k] <= Written(s)[Len(s)]
      /\ Len(rest) \in Nat
  BY PieceFits
<1>2. ASSUME NEW i \in 1 .. Len(s[k]) - c PROVE rest[i] = s[k][c + i]
  <2>1. c + i \in 1 .. Len(s[k]) /\ Written(s)[k - 1] + (c + i) - Consumed(s, rest) = i /\ i > 0
    BY SMTT(20), <1>1
  <2>. QED
    BY <2>1 DEF Remains
<1>3. Len(rest) >= Len(s[k]) - c
  <2>. DEFINE w == Written(s)[k - 1]
              l == Len(s[k])
              total == Written(s)[Len(s)]
  <2>1. /\ l \in Nat /\ w \in Nat /\ total \in Nat /\ w + l <= total
        /\ total - Len(rest) = w + c /\ c \in 0 .. l
    BY <1>1 DEF Consumed
  <2>2. Len(rest) >= l - c
    <3>. HIDE DEF w, l, total
    <3>. QED
      BY <2>1, <1>1
  <2>. QED
    BY <2>2
<1>. QED
  BY <1>2, <1>3

\* As long as bytes remain at the end of the first k pieces, there is a next piece.
LEMMA MoreRemains ==
  ASSUME NEW B, NEW s \in Seq(Seq(B)), NEW rest \in Seq(B), rest # <<>>,
         NEW k \in 0 .. Len(s), Consumed(s, rest) = Written(s)[k]
  PROVE  k + 1 \in 1 .. Len(s)
<1>1. Len(s) \in Nat /\ Len(rest) \in Nat \ {0} /\ Len(s) \in 0 .. Len(s)
  OBVIOUS
<1>. DEFINE total == Written(s)[Len(s)]
<1>2. total \in Nat /\ total - Len(rest) = Written(s)[k]
  BY <1>1, WrittenIs DEF Consumed
<1>3. k # Len(s)
  <2>1. SUFFICES ASSUME total - Len(rest) = total PROVE FALSE
    BY <1>2
  <2>. HIDE DEF total
  <2>. QED
    BY <1>1, <1>2, <2>1
<1>. QED
  BY <1>1, <1>3
=============================================================================
