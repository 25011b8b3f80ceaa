----------------------------- MODULE QueueFacts -----------------------------
(***************************************************************************)
(* What concatenating, filtering and summing sequences gives, for proofs   *)
(* about the queues.  The induction is by a least counterexample.          *)
(***************************************************************************)
EXTENDS Queues, WellFoundedInduction, FiniteSetTheorems, TLAPS

\* Every set of natural numbers that has an element has a least one.
LEMMA LeastNumber ==
  ASSUME NEW S \in SUBSET Nat, S # {}
  PROVE  \E x \in S : \A y \in S : x <= y
<1>1. PICK x \in S : \A y \in S : ~(<<y, x>> \in OpToRel(<, Nat))
  BY WFMin, NatLessThanWellFounded, Zenon
<1>2. ASSUME NEW y \in S
      PROVE  ~(y < x)
  <2>1. <<y, x>> \in Nat \X Nat
    OBVIOUS
  <2>2. ~(<<y, x>> \in OpToRel(<, Nat))
    BY <1>1
  <2> QED BY <2>1, <2>2, Zenon DEF OpToRel
<1> QED BY <1>2

-----------------------------------------------------------------------------
(* FlattenSeq                                                              *)

\* The local recursive function of FlattenSeq exists.
LEMMA FlattenRec ==
  ASSUME NEW n \in Nat \ {0}, NEW ss, DOMAIN ss = 1..n, Len(ss) = n
  PROVE  \E f : /\ f = [i \in 1..n |-> IF i = 1 THEN ss[i] ELSE f[i - 1] \o ss[i]]
                /\ FlattenSeq(ss) = f[n]
<1> DEFINE Upto(m, f) == f = [i \in 1..m |-> IF i = 1 THEN ss[i] ELSE f[i - 1] \o ss[i]]
           Bad == {m \in 1..n : ~\E f : Upto(m, f)}
<1>0. n \in Nat /\ n >= 1
  OBVIOUS
<1>1. Bad = {}
  <2> SUFFICES ASSUME Bad # {} PROVE FALSE
    OBVIOUS
  <2> HIDE DEF Upto
  <2>1. PICK m \in Bad : \A y \in Bad : m <= y
    <3>1. Bad \in SUBSET Nat
      BY <1>0
    <3> HIDE DEF Bad
    <3> QED BY <3>1, LeastNumber
  <2>2. m # 1
    <3>1. Upto(1, [i \in 1..1 |-> ss[i]])
      BY DEF Upto
    <3> QED BY <2>1, <3>1
  <2>3. PICK f : Upto(m - 1, f)
    <3>1. m \in 1..n /\ m - 1 \in 1..n /\ ~(m <= m - 1)
      BY <1>0, <2>1, <2>2
    <3> QED BY <2>1, <3>1
  <2>4. /\ \A i \in 1..(m - 1) : f[i] = IF i = 1 THEN ss[i] ELSE f[i - 1] \o ss[i]
        /\ m \in Nat /\ m > 1
    <3>1. m \in Nat /\ m > 1
      BY <1>0, <2>1, <2>2
    <3> QED BY <2>3, <3>1 DEF Upto
  <2> DEFINE g == [i \in 1..m |-> IF i < m THEN f[i] ELSE f[m - 1] \o ss[m]]
  <2>5. Upto(m, g)
    <3>1. ASSUME NEW i \in 1..m
          PROVE  g[i] = IF i = 1 THEN ss[i] ELSE g[i - 1] \o ss[i]
      <4>1. CASE i = m
        <5>1. g[m] = f[m - 1] \o ss[m] /\ g[m - 1] = f[m - 1]
          BY <2>4
        <5> HIDE DEF g
        <5> QED BY <4>1, <5>1, <2>4
      <4>2. CASE i # m
        <5>1. i \in 1..(m - 1) /\ g[i] = f[i]
          BY <2>4, <4>2
        <5>2. i # 1 => g[i - 1] = f[i - 1]
          BY <2>4, <4>2
        <5> HIDE DEF g
        <5> QED BY <5>1, <5>2, <2>4
      <4> QED BY <4>1, <4>2
    <3>2. g = [i \in 1..m |-> g[i]]
      OBVIOUS
    <3> HIDE DEF g
    <3> QED BY <3>1, <3>2 DEF Upto
  <2> QED BY <2>1, <2>5
<1>3. FlattenSeq(ss) = (CHOOSE f : Upto(n, f))[n]
  BY <1>0 DEF FlattenSeq
<1> HIDE DEF Upto
<1>2. \E f : Upto(n, f)
  BY <1>0, <1>1
<1>4. Upto(n, CHOOSE f : Upto(n, f))
  BY <1>2
<1> QED BY <1>3, <1>4 DEF Upto

\* Where the parts are in the whole: part q begins after position off[q - 1].
Offsets(ss, n, off) ==
  /\ off[0] = 0
  /\ Len(FlattenSeq(ss)) = off[n]
  /\ \A q \in 1..n : off[q] = off[q - 1] + Len(ss[q])
  /\ \A q, p \in 0..n : q <= p => off[q] <= off[p]
  /\ \A q \in 1..n : \A i \in 1..Len(ss[q]) :
       /\ off[q - 1] + i \in 1..off[n]
       /\ FlattenSeq(ss)[off[q - 1] + i] = ss[q][i]
  /\ \A k \in 1..off[n] : \E q \in 1..n : \E i \in 1..Len(ss[q]) : k = off[q - 1] + i

\* FlattenSeq has its parts at these offsets.
LEMMA FlattenPositions ==
  ASSUME NEW A, NEW n \in Nat, NEW ss \in [1..n -> Seq(A)]
  PROVE  /\ FlattenSeq(ss) \in Seq(A)
         /\ \E off \in [0..n -> Nat] : Offsets(ss, n, off)
<1>1. ss \in Seq(Seq(A)) /\ Len(ss) = n
  OBVIOUS
<1>2. CASE n = 0
  <2>1. FlattenSeq(ss) = <<>>
    BY <1>1, <1>2 DEF FlattenSeq
  <2> DEFINE off == [q \in 0..n |-> 0]
  <2>2. off \in [0..n -> Nat] /\ off[0] = 0
    BY <1>2
  <2> HIDE DEF off
  <2>3. 1..n = {} /\ \A q \in 0..n : q = 0
    BY <1>2
  <2>4. Offsets(ss, n, off)
    BY <1>2, <2>1, <2>2, <2>3 DEF Offsets
  <2> QED BY <2>1, <2>2, <2>4
<1>3. CASE n # 0
  <2>1. PICK f : /\ f = [i \in 1..n |-> IF i = 1 THEN ss[i] ELSE f[i - 1] \o ss[i]]
                 /\ FlattenSeq(ss) = f[n]
    BY <1>1, <1>3, FlattenRec
  <2>2. f[1] = ss[1]
    BY <1>3, <2>1
  <2>3. ASSUME NEW i \in 2..n
        PROVE  f[i] = f[i - 1] \o ss[i]
    <3>1. i \in 1..n /\ i # 1
      OBVIOUS
    <3> QED BY <2>1, <3>1
  <2> DEFINE off == [q \in 0..n |-> IF q = 0 THEN 0 ELSE Len(f[q])]
             Good(m) ==
               /\ f[m] \in Seq(A)
               /\ \A q \in 0..m : off[q] \in Nat /\ off[q] <= off[m]
               /\ \A q \in 1..m : off[q] = off[q - 1] + Len(ss[q])
               /\ \A q \in 1..m : \A i \in 1..Len(ss[q]) :
                    /\ off[q - 1] + i \in 1..off[m]
                    /\ f[m][off[q - 1] + i] = ss[q][i]
               /\ \A k \in 1..off[m] : \E q \in 1..m : \E i \in 1..Len(ss[q]) : k = off[q - 1] + i
             Bad == {m \in 1..n : ~Good(m)}
  <2>4. Good(1)
    <3>1. off[0] = 0 /\ off[1] = Len(ss[1])
      BY <1>3, <2>2
    <3>2. ss[1] \in Seq(A) /\ Len(ss[1]) \in Nat
      BY <1>3
    <3> HIDE DEF off
    <3> QED BY <2>2, <3>1, <3>2
  <2>5. ASSUME NEW m \in 2..n, Good(m - 1)
        PROVE  Good(m)
    <3>0. m \in 1..n /\ m - 1 \in 1..n /\ f[m - 1] \in Seq(A)
      BY <2>5
    <3>a. \A q \in 0..(m - 1) : off[q] \in Nat /\ off[q] <= off[m - 1]
      <4> HIDE DEF off
      <4> QED BY <2>5
    <3>b. \A q \in 1..(m - 1) : off[q] = off[q - 1] + Len(ss[q])
      BY <2>5
    <3>c. \A q \in 1..(m - 1) : \A i \in 1..Len(ss[q]) :
               /\ off[q - 1] + i \in 1..off[m - 1]
               /\ f[m - 1][off[q - 1] + i] = ss[q][i]
      BY <2>5
    <3>d. \A k \in 1..off[m - 1] :
             \E q \in 1..(m - 1) : \E i \in 1..Len(ss[q]) : k = off[q - 1] + i
      BY <2>5
    <3>1. f[m] = f[m - 1] \o ss[m] /\ ss[m] \in Seq(A) /\ f[m - 1] \in Seq(A)
      BY <2>3, <3>0
    <3>2. off[m] = Len(f[m]) /\ off[m - 1] = Len(f[m - 1])
      OBVIOUS
    <3>3. PICK a \in Nat, b \in Nat : a = Len(f[m - 1]) /\ b = Len(ss[m])
      BY <3>1
    <3>4. Len(f[m]) = a + b /\ f[m] \in Seq(A)
      BY <3>1, <3>3
    <3>5. ASSUME NEW k \in 1..a PROVE f[m][k] = f[m - 1][k]
      <4>1. k \in 1..(a + b) /\ k <= a
        OBVIOUS
      <4> QED BY <3>1, <3>3, <4>1
    <3>6. ASSUME NEW k \in 1..b PROVE f[m][a + k] = ss[m][k]
      <4>1. a + k \in 1..(a + b) /\ a + k > a /\ (a + k) - a = k
        OBVIOUS
      <4> QED BY <3>1, <3>3, <4>1
    <3>7. off[m] = a + b /\ off[m - 1] = a
      BY <3>2, <3>3, <3>4
    <3> HIDE DEF off
    <3>8. \A q \in 0..m : off[q] \in Nat /\ off[q] <= off[m]
      BY <3>a, <3>7
    <3>9. ASSUME NEW q \in 1..m
          PROVE  off[q] = off[q - 1] + Len(ss[q])
      <4>1. q = m \/ q \in 1..(m - 1)
        OBVIOUS
      <4> QED BY <4>1, <3>b, <3>7, <3>3
    <3>10. ASSUME NEW q \in 1..m, NEW i \in 1..Len(ss[q])
           PROVE  /\ off[q - 1] + i \in 1..off[m]
                  /\ f[m][off[q - 1] + i] = ss[q][i]
      <4>1. CASE q = m
        <5>1. i \in 1..b
          BY <4>1, <3>3
        <5>2. f[m][a + i] = ss[m][i] /\ a + i \in 1..(a + b)
          BY <5>1, <3>6
        <5> QED BY <4>1, <5>2, <3>7
      <4>2. CASE q # m
        <5>1. q \in 1..(m - 1)
          BY <4>2
        <5>2. off[q - 1] + i \in 1..a /\ f[m - 1][off[q - 1] + i] = ss[q][i]
          BY <3>c, <5>1, <3>7
        <5>3. off[q - 1] + i \in 1..(a + b)
          BY <5>2
        <5> QED BY <5>2, <5>3, <3>5, <3>7
      <4> QED BY <4>1, <4>2
    <3>11. ASSUME NEW k \in 1..off[m]
           PROVE  \E q \in 1..m : \E i \in 1..Len(ss[q]) : k = off[q - 1] + i
      <4>0. k \in 1..(a + b)
        BY <3>7
      <4>1. CASE k <= a
        <5>1. PICK q \in 1..(m - 1) : \E i \in 1..Len(ss[q]) : k = off[q - 1] + i
          <6>1. k \in 1..off[m - 1]
            BY <4>0, <4>1, <3>7
          <6> QED BY <6>1, <3>d
        <5>2. q \in 1..m
          OBVIOUS
        <5> QED BY <5>1, <5>2
      <4>2. CASE k > a
        <5>1. k - a \in 1..b /\ k = a + (k - a)
          BY <4>0, <4>2
        <5>2. m \in 1..m /\ k - a \in 1..Len(ss[m]) /\ k = off[m - 1] + (k - a)
          BY <5>1, <3>3, <3>7
        <5> QED BY <5>2
      <4> QED BY <4>0, <4>1, <4>2
    <3> QED BY <3>4, <3>8, <3>9, <3>10, <3>11
  <2>6. Bad = {}
    <3> SUFFICES ASSUME Bad # {} PROVE FALSE
      OBVIOUS
    <3> HIDE DEF Good
    <3>1. PICK m \in Bad : \A y \in Bad : m <= y
      <4>1. Bad \in SUBSET Nat
        OBVIOUS
      <4> HIDE DEF Bad
      <4> QED BY <4>1, LeastNumber
    <3>2. m \in 2..n
      BY <2>4, <3>1
    <3>3. Good(m - 1)
      <4>1. m - 1 \in 1..n /\ ~(m <= m - 1)
        BY <3>2
      <4> QED BY <3>1, <4>1
    <3> QED BY <3>1, <3>2, <3>3, <2>5
  <2>7. ASSUME NEW m \in 1..n PROVE Good(m)
    <3> HIDE DEF Good
    <3> QED BY <2>6
  <2>8. n \in 1..n
    BY <1>3
  <2>9. Good(n)
    BY <2>7, <2>8
  <2>10. off \in [0..n -> Nat] /\ off[0] = 0 /\ Len(f[n]) = off[n]
    <3>1. \A q \in 0..n : off[q] \in Nat
      BY <2>9
    <3> QED BY <3>1, <2>8
  <2>11. ASSUME NEW q \in 0..n, NEW p \in 0..n, q <= p
         PROVE  off[q] <= off[p]
    <3>1. CASE p = 0
      BY <3>1, <2>11, <2>10
    <3>2. CASE p # 0
      <4>1. p \in 1..n /\ q \in 0..p
        BY <3>2, <2>11
      <4>2. Good(p)
        BY <2>7, <4>1
      <4> HIDE DEF off
      <4> QED BY <4>1, <4>2
    <3> QED BY <3>1, <3>2
  <2> HIDE DEF off
  <2>12. f[n] \in Seq(A)
    BY <2>9
  <2>13. /\ \A q \in 1..n : off[q] = off[q - 1] + Len(ss[q])
         /\ \A q \in 1..n : \A i \in 1..Len(ss[q]) :
              /\ off[q - 1] + i \in 1..off[n]
              /\ f[n][off[q - 1] + i] = ss[q][i]
         /\ \A k \in 1..off[n] : \E q \in 1..n : \E i \in 1..Len(ss[q]) : k = off[q - 1] + i
    BY <2>9
  <2>14. \A q, p \in 0..n : q <= p => off[q] <= off[p]
    BY <2>11
  <2> HIDE DEF Good
  <2> HIDE DEF Bad
  <2>15. FlattenSeq(ss) = f[n]
    BY <2>1
  <2>16. Offsets(ss, n, off)
    BY <2>10, <2>13, <2>14, <2>15 DEF Offsets
  <2> QED BY <2>10, <2>12, <2>15, <2>16
<1> QED BY <1>2, <1>3

\* The order of the whole: by part, then by position in the part.
FlattenOrder(ss, n, F) ==
  /\ \A a, b \in 1..Len(F) : a < b =>
       \E p, q \in 1..n : \E i \in 1..Len(ss[p]), j \in 1..Len(ss[q]) :
         /\ F[a] = ss[p][i] /\ F[b] = ss[q][j]
         /\ p < q \/ (p = q /\ i < j)
  /\ \A p, q \in 1..n : \A i \in 1..Len(ss[p]), j \in 1..Len(ss[q]) :
       p < q \/ (p = q /\ i < j) =>
         \E a, b \in 1..Len(F) : a < b /\ F[a] = ss[p][i] /\ F[b] = ss[q][j]

\* FlattenSeq has this order, and the elements of its parts.
LEMMA FlattenAt ==
  ASSUME NEW A, NEW n \in Nat, NEW ss \in [1..n -> Seq(A)]
  PROVE  /\ FlattenSeq(ss) \in Seq(A)
         /\ FlattenOrder(ss, n, FlattenSeq(ss))
         /\ \A x : x \in ToSet(FlattenSeq(ss)) <=> \E q \in 1..n : x \in ToSet(ss[q])
<1> DEFINE F == FlattenSeq(ss)
<1>1. F \in Seq(A)
  BY FlattenPositions
<1>2. PICK off \in [0..n -> Nat] : Offsets(ss, n, off)
  BY FlattenPositions
<1>3. /\ off[0] = 0
      /\ Len(F) = off[n]
      /\ \A q \in 1..n : off[q] = off[q - 1] + Len(ss[q])
      /\ \A q, p \in 0..n : q <= p => off[q] <= off[p]
  BY <1>2 DEF Offsets
<1>4. \A q \in 1..n : \A i \in 1..Len(ss[q]) :
        /\ off[q - 1] + i \in 1..Len(F)
        /\ F[off[q - 1] + i] = ss[q][i]
  BY <1>2, <1>3 DEF Offsets
<1>5. \A k \in 1..Len(F) : \E q \in 1..n : \E i \in 1..Len(ss[q]) : k = off[q - 1] + i
  BY <1>2, <1>3 DEF Offsets
<1> HIDE DEF F
<1>6. ASSUME NEW p \in 1..n, NEW q \in 1..n, NEW i \in 1..Len(ss[p]), NEW j \in 1..Len(ss[q])
      PROVE  off[p - 1] + i < off[q - 1] + j <=> p < q \/ (p = q /\ i < j)
  <2>1. PICK a \in Nat, b \in Nat, c \in Nat, d \in Nat :
          /\ a = off[p - 1] /\ b = off[q - 1] /\ c = Len(ss[p]) /\ d = Len(ss[q])
    <3>1. p - 1 \in 0..n /\ q - 1 \in 0..n
      OBVIOUS
    <3>2. Len(ss[p]) \in Nat /\ Len(ss[q]) \in Nat
      OBVIOUS
    <3> QED BY <3>1, <3>2
  <2>a. i \in 1..c /\ j \in 1..d
    BY <2>1
  <2>2. off[p] = a + c /\ off[q] = b + d
    BY <1>3, <2>1
  <2>3. CASE p < q
    <3>1. p \in 0..n /\ q - 1 \in 0..n /\ p <= q - 1
      BY <2>3
    <3>2. a + c <= b
      BY <3>1, <1>3, <2>1, <2>2
    <3>3. a + i < b + j
      BY <2>a, <3>2
    <3> QED BY <2>1, <2>3, <3>3
  <2>4. CASE q < p
    <3>1. q \in 0..n /\ p - 1 \in 0..n /\ q <= p - 1
      BY <2>4
    <3>2. b + d <= a
      BY <3>1, <1>3, <2>1, <2>2
    <3>3. ~(a + i < b + j)
      BY <2>a, <3>2
    <3> QED BY <2>1, <2>4, <3>3
  <2>5. CASE p = q
    BY SMTT(30), <2>1, <2>5
  <2> QED BY <2>3, <2>4, <2>5
<1>7. ASSUME NEW a \in 1..Len(F), NEW b \in 1..Len(F), a < b
      PROVE  \E p, q \in 1..n : \E i \in 1..Len(ss[p]), j \in 1..Len(ss[q]) :
                /\ F[a] = ss[p][i] /\ F[b] = ss[q][j]
                /\ p < q \/ (p = q /\ i < j)
  <2>a. PICK p \in 1..n : \E i \in 1..Len(ss[p]) : a = off[p - 1] + i
    BY <1>5
  <2>1. PICK i \in 1..Len(ss[p]) : a = off[p - 1] + i
    BY <2>a
  <2>b. PICK q \in 1..n : \E j \in 1..Len(ss[q]) : b = off[q - 1] + j
    BY <1>5
  <2>2. PICK j \in 1..Len(ss[q]) : b = off[q - 1] + j
    BY <2>b
  <2>3. F[a] = ss[p][i] /\ F[b] = ss[q][j]
    BY <1>4, <2>1, <2>2
  <2>4. p < q \/ (p = q /\ i < j)
    BY <1>6, <1>7, <2>1, <2>2
  <2> QED BY <2>3, <2>4
<1>8. ASSUME NEW p \in 1..n, NEW q \in 1..n, NEW i \in 1..Len(ss[p]), NEW j \in 1..Len(ss[q]),
             p < q \/ (p = q /\ i < j)
      PROVE  \E a, b \in 1..Len(F) : a < b /\ F[a] = ss[p][i] /\ F[b] = ss[q][j]
  <2>1. off[p - 1] + i < off[q - 1] + j
    BY <1>6, <1>8
  <2>2. /\ off[p - 1] + i \in 1..Len(F) /\ F[off[p - 1] + i] = ss[p][i]
        /\ off[q - 1] + j \in 1..Len(F) /\ F[off[q - 1] + j] = ss[q][j]
    BY <1>4
  <2> QED BY <2>1, <2>2
<1>9. ASSUME NEW x
      PROVE  x \in ToSet(F) <=> \E q \in 1..n : x \in ToSet(ss[q])
  <2>0. DOMAIN F = 1..Len(F) /\ \A q \in 1..n : DOMAIN ss[q] = 1..Len(ss[q])
    BY <1>1
  <2>1. ASSUME x \in ToSet(F)
        PROVE  \E q \in 1..n : x \in ToSet(ss[q])
    <3>1. PICK k \in 1..Len(F) : x = F[k]
      BY <2>0, <2>1 DEF ToSet
    <3>a. PICK q \in 1..n : \E i \in 1..Len(ss[q]) : k = off[q - 1] + i
      BY <1>5
    <3>2. PICK i \in 1..Len(ss[q]) : k = off[q - 1] + i
      BY <3>a
    <3>3. x = ss[q][i]
      BY <3>1, <3>2, <1>4
    <3> QED BY <2>0, <3>3 DEF ToSet
  <2>2. ASSUME NEW q \in 1..n, x \in ToSet(ss[q])
        PROVE  x \in ToSet(F)
    <3>1. PICK i \in 1..Len(ss[q]) : x = ss[q][i]
      BY <2>0, <2>2 DEF ToSet
    <3>2. off[q - 1] + i \in 1..Len(F) /\ F[off[q - 1] + i] = x
      BY <1>4, <3>1
    <3> QED BY <2>0, <3>2 DEF ToSet
  <2> QED BY <2>1, <2>2
<1>10. FlattenOrder(ss, n, F)
  BY <1>7, <1>8 DEF FlattenOrder
<1> QED BY <1>1, <1>9, <1>10 DEF F

\* No element occurs twice.
Distinct(s) == \A i, j \in DOMAIN s : s[i] = s[j] => i = j

\* Parts without repetitions and without common elements give a whole without repetitions.
LEMMA FlattenDistinct ==
  ASSUME NEW A, NEW n \in Nat, NEW ss \in [1..n -> Seq(A)],
         \A q \in 1..n : Distinct(ss[q]),
         \A p, q \in 1..n : ToSet(ss[p]) \cap ToSet(ss[q]) # {} => p = q
  PROVE  Distinct(FlattenSeq(ss))
<1> DEFINE F == FlattenSeq(ss)
<1>1. DOMAIN F = 1..Len(F) /\ \A q \in 1..n : DOMAIN ss[q] = 1..Len(ss[q])
  BY FlattenAt
<1>2. ASSUME NEW a \in 1..Len(F), NEW b \in 1..Len(F), a < b, F[a] = F[b]
      PROVE  FALSE
  <2>a. PICK p \in 1..n, q \in 1..n : \E i \in 1..Len(ss[p]), j \in 1..Len(ss[q]) :
                /\ F[a] = ss[p][i] /\ F[b] = ss[q][j]
                /\ p < q \/ (p = q /\ i < j)
    <3> HIDE DEF F
    <3>1. \A x, y \in 1..Len(F) : x < y =>
              \E p, q \in 1..n : \E i \in 1..Len(ss[p]), j \in 1..Len(ss[q]) :
                /\ F[x] = ss[p][i] /\ F[y] = ss[q][j]
                /\ p < q \/ (p = q /\ i < j)
      <4>1. FlattenOrder(ss, n, F)
        BY FlattenAt DEF F
      <4> QED BY <4>1 DEF FlattenOrder
    <3> QED BY <1>2, <3>1
  <2>1. PICK i \in 1..Len(ss[p]), j \in 1..Len(ss[q]) :
                /\ F[a] = ss[p][i] /\ F[b] = ss[q][j]
                /\ p < q \/ (p = q /\ i < j)
    BY <2>a
  <2> HIDE DEF F
  <2>2. ss[p][i] \in ToSet(ss[p]) /\ ss[p][i] \in ToSet(ss[q])
    BY <1>1, <1>2, <2>1 DEF ToSet
  <2>3. p = q
    BY <2>2
  <2>4. i = j
    BY <1>1, <1>2, <2>1, <2>3 DEF Distinct
  <2> QED BY <2>1, <2>3, <2>4
<1> HIDE DEF F
<1>3. F \in Seq(A) /\ Len(F) \in Nat
  BY FlattenAt DEF F
<1>4. ASSUME NEW a \in 1..Len(F), NEW b \in 1..Len(F), F[a] = F[b]
      PROVE  a = b
  BY <1>2, <1>3, <1>4
<1> QED BY <1>1, <1>4 DEF Distinct, F

-----------------------------------------------------------------------------
(* InOrder                                                                 *)

\* InOrder concatenates what it keeps at each position.
LEMMA InOrderFlatten ==
  ASSUME NEW A, NEW s \in Seq(A), NEW S, NEW n \in Nat, n = Len(s)
  PROVE  InOrder(s, S) = FlattenSeq([q \in 1..n |-> IF s[q] \in S THEN <<s[q]>> ELSE <<>>])
<1> DEFINE ss == [q \in 1..n |-> IF s[q] \in S THEN <<s[q]>> ELSE <<>>]
           Body(k, m) == IF m = 0 THEN <<>>
                         ELSE IF s[m] \in S THEN Append(k[m - 1], s[m]) ELSE k[m - 1]
           Kept(k) == k = [m \in 0..n |-> Body(k, m)]
<1>1. InOrder(s, S) = (CHOOSE k : Kept(k))[n]
  BY DEF InOrder
<1>2. ss \in [1..n -> Seq(A)] /\ ss \in Seq(Seq(A)) /\ Len(ss) = n
  <2>1. \A q \in 1..n : s[q] \in A
    OBVIOUS
  <2> QED BY <2>1
<1>3. CASE n = 0
  <2> DEFINE k == [m \in 0..n |-> <<>>]
  <2>1. k[0] = <<>>
    OBVIOUS
  <2>2. Kept(k)
    BY <1>3
  <2> HIDE DEF k
  <2>3. Kept(CHOOSE j : Kept(j))
    BY <2>2
  <2>4. ASSUME NEW j, Kept(j) PROVE j[0] = <<>>
    BY <2>4
  <2> HIDE DEF Kept
  <2>5. InOrder(s, S) = <<>>
    BY <1>1, <1>3, <2>3, <2>4
  <2>6. FlattenSeq(ss) = <<>>
    BY <1>2, <1>3 DEF FlattenSeq
  <2> QED BY <2>5, <2>6
<1>4. CASE n # 0
  <2>1. PICK f : /\ f = [i \in 1..n |-> IF i = 1 THEN ss[i] ELSE f[i - 1] \o ss[i]]
                 /\ FlattenSeq(ss) = f[n]
    <3> HIDE DEF ss
    <3> QED BY <1>2, <1>4, FlattenRec
  <2>2. \A i \in 1..n : ss[i] = IF s[i] \in S THEN <<s[i]>> ELSE <<>>
    OBVIOUS
  <2>3. \A i \in 1..n : ss[i] \in Seq(A) /\ s[i] \in A
    BY <1>2
  <2> HIDE DEF ss
  <2>4. /\ f[1] = ss[1]
        /\ \A i \in 2..n : f[i] = f[i - 1] \o ss[i]
    <3>1. 1 \in 1..n /\ \A i \in 2..n : i \in 1..n /\ i # 1
      BY <1>4
    <3> QED BY <2>1, <3>1
  <2>5. \A i \in 1..n : f[i] \in Seq(A)
    <3> DEFINE Bad == {i \in 1..n : f[i] \notin Seq(A)}
    <3> SUFFICES ASSUME Bad # {} PROVE FALSE
      OBVIOUS
    <3>1. PICK i \in Bad : \A y \in Bad : i <= y
      <4>1. Bad \in SUBSET Nat
        OBVIOUS
      <4> HIDE DEF Bad
      <4> QED BY <4>1, LeastNumber
    <3>2. i # 1
      BY <2>3, <2>4, <3>1
    <3>3. i \in 2..n /\ i - 1 \in 1..n /\ ~(i <= i - 1)
      BY <3>1, <3>2
    <3>4. f[i - 1] \in Seq(A)
      BY <3>1, <3>3
    <3>5. f[i] = f[i - 1] \o ss[i] /\ ss[i] \in Seq(A)
      BY <2>3, <2>4, <3>3
    <3>6. f[i] \in Seq(A)
      BY <3>4, <3>5
    <3> QED BY <3>1, <3>6
  <2> DEFINE k == [m \in 0..n |-> IF m = 0 THEN <<>> ELSE f[m]]
  <2>6. ASSUME NEW m \in 0..n
        PROVE  k[m] = Body(k, m)
    <3>1. CASE m = 0
      BY <3>1
    <3>2. CASE m = 1
      <4>1. k[1] = ss[1] /\ k[0] = <<>> /\ 1 \in 1..n /\ m - 1 = 0
        BY <3>2, <2>4
      <4> HIDE DEF k
      <4>2. Body(k, m) = IF s[1] \in S THEN Append(<<>>, s[1]) ELSE <<>>
        <5>1. m # 0 /\ s[m] = s[1] /\ k[m - 1] = <<>>
          BY <3>2, <4>1
        <5> QED BY <5>1
      <4>3. Append(<<>>, s[1]) = <<s[1]>>
        BY <2>3, <4>1
      <4> QED BY <3>2, <4>1, <4>2, <4>3, <2>2
    <3>3. CASE m > 1
      <4>1. m \in 2..n /\ m - 1 \in 1..n /\ m \in 1..n
        BY <3>3
      <4>2. k[m] = f[m] /\ k[m - 1] = f[m - 1]
        BY <4>1
      <4> HIDE DEF k
      <4>3. f[m] = f[m - 1] \o ss[m] /\ f[m - 1] \in Seq(A) /\ s[m] \in A
        BY <4>1, <2>3, <2>4, <2>5
      <4>4. CASE s[m] \in S
        <5>1. ss[m] = <<s[m]>>
          BY <4>1, <4>4, <2>2
        <5>2. f[m - 1] \o <<s[m]>> = Append(f[m - 1], s[m])
          BY <4>3
        <5> QED BY <3>3, <4>2, <4>3, <4>4, <5>1, <5>2
      <4>5. CASE s[m] \notin S
        <5>1. ss[m] = <<>>
          BY <4>1, <4>5, <2>2
        <5>2. f[m - 1] \o <<>> = f[m - 1]
          BY <4>3
        <5> QED BY <3>3, <4>2, <4>3, <4>5, <5>1, <5>2
      <4> QED BY <4>4, <4>5
    <3> QED BY <3>1, <3>2, <3>3
  <2>7. Kept(k)
    <3>1. k = [m \in 0..n |-> k[m]]
      OBVIOUS
    <3> HIDE DEF k
    <3> QED BY <2>6, <3>1
  <2>8. k[n] = f[n]
    BY <1>4
  <2> HIDE DEF k
  <2> DEFINE j == CHOOSE j : Kept(j)
  <2>9. Kept(j)
    BY <2>7
  <2> HIDE DEF j
  <2>10. \A m \in 0..n : j[m] = Body(j, m) /\ k[m] = Body(k, m)
    BY <2>6, <2>9
  <2>11. \A m \in 0..n : j[m] = k[m]
    <3> DEFINE Bad == {m \in 0..n : j[m] # k[m]}
    <3> SUFFICES ASSUME Bad # {} PROVE FALSE
      OBVIOUS
    <3>1. PICK m \in Bad : \A y \in Bad : m <= y
      <4>1. Bad \in SUBSET Nat
        OBVIOUS
      <4> HIDE DEF Bad
      <4> QED BY <4>1, LeastNumber
    <3>2. m # 0
      BY <2>10, <3>1
    <3>3. m - 1 \in 0..n /\ ~(m <= m - 1)
      BY <3>1, <3>2
    <3>4. j[m - 1] = k[m - 1]
      BY <3>1, <3>3
    <3>5. j[m] = k[m]
      BY <2>10, <3>1, <3>4
    <3> QED BY <3>1, <3>5
  <2> HIDE DEF Kept
  <2>12. InOrder(s, S) = j[n]
    BY <1>1 DEF j
  <2>13. FlattenSeq(ss) = f[n] /\ n \in 0..n
    BY <2>1
  <2>14. j[n] = k[n]
    BY <2>11, <2>13
  <2>15. InOrder(s, S) = FlattenSeq(ss)
    BY <2>8, <2>12, <2>13, <2>14
  <2> QED BY <2>15 DEF ss
<1> QED BY <1>3, <1>4

\* InOrder keeps the elements of S, their order and nothing else.
LEMMA InOrderFacts ==
  ASSUME NEW A, NEW s \in Seq(A), NEW S
  PROVE  /\ InOrder(s, S) \in Seq(A)
         /\ \A x : x \in ToSet(InOrder(s, S)) <=> x \in ToSet(s) /\ x \in S
         /\ \A a, b \in 1..Len(InOrder(s, S)) : a < b =>
              \E i, j \in 1..Len(s) : /\ i < j
                                      /\ InOrder(s, S)[a] = s[i] /\ InOrder(s, S)[b] = s[j]
         /\ \A i, j \in 1..Len(s) : i < j /\ s[i] \in S /\ s[j] \in S =>
              \E a, b \in 1..Len(InOrder(s, S)) :
                 a < b /\ InOrder(s, S)[a] = s[i] /\ InOrder(s, S)[b] = s[j]
         /\ Distinct(s) => Distinct(InOrder(s, S))
<1>1. PICK n \in Nat : n = Len(s) /\ DOMAIN s = 1..n
  OBVIOUS
<1> DEFINE ss == [q \in 1..n |-> IF s[q] \in S THEN <<s[q]>> ELSE <<>>]
<1>2. InOrder(s, S) = FlattenSeq(ss)
  BY <1>1, InOrderFlatten
<1>3. ss \in [1..n -> Seq(A)]
  <2>1. \A q \in 1..n : s[q] \in A
    BY <1>1
  <2> QED BY <2>1
<1>4. \A q \in 1..n : IF s[q] \in S THEN ss[q] = <<s[q]>> ELSE ss[q] = <<>>
  OBVIOUS
<1> HIDE DEF ss
<1>5. ASSUME NEW q \in 1..n, NEW i \in 1..Len(ss[q])
      PROVE  s[q] \in S /\ i = 1 /\ ss[q][i] = s[q]
  <2>1. CASE s[q] \in S
    BY <1>4, <2>1
  <2>2. CASE s[q] \notin S
    <3>1. Len(ss[q]) = 0
      BY <1>4, <2>2
    <3> QED BY <3>1
  <2> QED BY <2>1, <2>2
<1>6. \A q \in 1..n : s[q] \in S => 1 \in 1..Len(ss[q]) /\ ss[q][1] = s[q]
  BY <1>4
<1>7. ASSUME NEW x, NEW q \in 1..n
      PROVE  x \in ToSet(ss[q]) <=> x = s[q] /\ s[q] \in S
  <2>1. DOMAIN ss[q] = 1..Len(ss[q])
    BY <1>3
  <2> QED BY <2>1, <1>5, <1>6 DEF ToSet
<1> DEFINE F == FlattenSeq(ss)
<1>8. /\ F \in Seq(A)
      /\ \A x : x \in ToSet(F) <=> \E q \in 1..n : x \in ToSet(ss[q])
  BY <1>3, FlattenAt
<1>a. FlattenOrder(ss, n, F)
  BY <1>3, FlattenAt
<1> HIDE DEF F
<1>9. \A a, b \in 1..Len(F) : a < b =>
        \E p, q \in 1..n : \E i \in 1..Len(ss[p]), j \in 1..Len(ss[q]) :
                /\ F[a] = ss[p][i] /\ F[b] = ss[q][j]
                /\ p < q \/ (p = q /\ i < j)
  BY <1>a DEF FlattenOrder
<1>10. \A p, q \in 1..n : \A i \in 1..Len(ss[p]), j \in 1..Len(ss[q]) :
              p < q \/ (p = q /\ i < j) =>
                \E a, b \in 1..Len(F) : a < b /\ F[a] = ss[p][i] /\ F[b] = ss[q][j]
  BY <1>a DEF FlattenOrder
<1>11. \A x : x \in ToSet(F) <=> x \in ToSet(s) /\ x \in S
  <2> TAKE x
  <2>1. x \in ToSet(s) <=> \E q \in 1..n : x = s[q]
    BY <1>1 DEF ToSet
  <2>2. x \in ToSet(F) <=> \E q \in 1..n : x \in ToSet(ss[q])
    BY <1>8
  <2>3. \A q \in 1..n : x \in ToSet(ss[q]) <=> x = s[q] /\ s[q] \in S
    BY <1>7
  <2> QED BY <2>1, <2>2, <2>3
<1>12. ASSUME NEW a \in 1..Len(F), NEW b \in 1..Len(F), a < b
       PROVE  \E i, j \in 1..n : i < j /\ F[a] = s[i] /\ F[b] = s[j]
  <2>a. PICK p \in 1..n, q \in 1..n : \E i \in 1..Len(ss[p]), j \in 1..Len(ss[q]) :
                /\ F[a] = ss[p][i] /\ F[b] = ss[q][j]
                /\ p < q \/ (p = q /\ i < j)
    BY <1>9, <1>12
  <2>1. PICK i \in 1..Len(ss[p]), j \in 1..Len(ss[q]) :
                /\ F[a] = ss[p][i] /\ F[b] = ss[q][j]
                /\ p < q \/ (p = q /\ i < j)
    BY <2>a
  <2>2. i = 1 /\ ss[p][i] = s[p] /\ j = 1 /\ ss[q][j] = s[q]
    BY <1>5
  <2> QED BY <2>1, <2>2
<1>13. ASSUME NEW i \in 1..n, NEW j \in 1..n, i < j, s[i] \in S, s[j] \in S
       PROVE  \E a, b \in 1..Len(F) : a < b /\ F[a] = s[i] /\ F[b] = s[j]
  BY <1>6, <1>10, <1>13
<1>14. ASSUME Distinct(s)
       PROVE  Distinct(F)
  <2>1. \A q \in 1..n : Distinct(ss[q])
    <3> TAKE q \in 1..n
    <3>1. DOMAIN ss[q] = 1..Len(ss[q])
      BY <1>3
    <3> QED BY <3>1, <1>5 DEF Distinct
  <2>2. \A p, q \in 1..n : ToSet(ss[p]) \cap ToSet(ss[q]) # {} => p = q
    <3> SUFFICES ASSUME NEW p \in 1..n, NEW q \in 1..n, NEW x \in ToSet(ss[p]) \cap ToSet(ss[q])
                 PROVE  p = q
      OBVIOUS
    <3>1. x = s[p] /\ x = s[q]
      BY <1>7
    <3> QED BY <1>1, <3>1, <1>14 DEF Distinct
  <2> QED BY <1>3, <2>1, <2>2, FlattenDistinct DEF F
<1>15. InOrder(s, S) = F
  BY <1>2 DEF F
<1> QED BY <1>1, <1>8, <1>11, <1>12, <1>13, <1>14, <1>15

-----------------------------------------------------------------------------
(* SumFunction                                                             *)

\* Induction over the subsets of a finite set: a counterexample with the fewest elements.
LEMMA SmallestSubset ==
  ASSUME NEW S, IsFiniteSet(S), NEW B \in SUBSET (SUBSET S), B # {}
  PROVE  \E t \in B : \A x \in t : t \ {x} \notin B
<1> DEFINE M == {Cardinality(t) : t \in B}
<1>1. ASSUME NEW t \in B
      PROVE  IsFiniteSet(t) /\ Cardinality(t) \in Nat
  <2>1. t \in SUBSET S
    OBVIOUS
  <2> QED BY <2>1, FS_Subset, FS_CardinalityType
<1>2. M \in SUBSET Nat /\ M # {}
  BY <1>1
<1>3. PICK m \in M : \A k \in M : m <= k
  <2> HIDE DEF M
  <2> QED BY <1>2, LeastNumber
<1>4. PICK t \in B : m = Cardinality(t)
  BY <1>3
<1>5. ASSUME NEW x \in t, t \ {x} \in B
      PROVE  FALSE
  <2>1. Cardinality(t \ {x}) = Cardinality(t) - 1
    BY <1>1, FS_RemoveElement
  <2>2. Cardinality(t) <= Cardinality(t \ {x})
    BY <1>3, <1>4, <1>5
  <2> QED BY <1>1, <2>1, <2>2
<1> QED BY <1>4, <1>5

SumBody(f, g, t) ==
  IF t = {} THEN 0 ELSE f[CHOOSE x \in t : TRUE] + g[t \ {CHOOSE x \in t : TRUE}]
SumGraph(f, s, g) == g = [t \in SUBSET s |-> SumBody(f, g, t)]

\* The local recursive function of SumFunctionOnSet.
LEMMA SumUnfold ==
  ASSUME NEW f, NEW s
  PROVE  SumFunctionOnSet(f, s) = (CHOOSE g : SumGraph(f, s, g))[s]
BY DEF SumFunctionOnSet, FoldFunctionOnSet, MapThenFoldSet, SumGraph, SumBody

\* Two such functions agree where both are defined.
LEMMA SumUnique ==
  ASSUME NEW f, NEW h, NEW S, NEW s \in SUBSET S, IsFiniteSet(S), NEW g, NEW k,
         SumGraph(f, S, g), SumGraph(h, s, k), \A x \in s : f[x] = h[x]
  PROVE  \A t \in SUBSET s : g[t] = k[t]
<1> DEFINE B == {t \in SUBSET s : g[t] # k[t]}
<1> SUFFICES ASSUME B # {} PROVE FALSE
  OBVIOUS
<1>1. B \in SUBSET (SUBSET S)
  OBVIOUS
<1>2. PICK t \in B : \A x \in t : t \ {x} \notin B
  <2> HIDE DEF B
  <2> QED BY <1>1, SmallestSubset
<1>3. t \in SUBSET S /\ t \in SUBSET s
  OBVIOUS
<1>4. g[t] = SumBody(f, g, t) /\ k[t] = SumBody(h, k, t)
  BY <1>3 DEF SumGraph
<1>5. CASE t = {}
  BY <1>4, <1>5 DEF SumBody
<1>6. CASE t # {}
  <2> DEFINE x == CHOOSE x \in t : TRUE
  <2>1. x \in t
    BY <1>6
  <2>2. g[t] = f[x] + g[t \ {x}] /\ k[t] = h[x] + k[t \ {x}]
    BY <1>4, <1>6 DEF SumBody
  <2> HIDE DEF x
  <2>3. g[t \ {x}] = k[t \ {x}]
    BY <1>2, <1>3, <2>1
  <2>4. f[x] = h[x]
    BY <1>3, <2>1
  <2> QED BY <2>2, <2>3, <2>4
<1> QED BY <1>5, <1>6

\* They exist for finite sets.
LEMMA SumExists ==
  ASSUME NEW f, NEW S, IsFiniteSet(S)
  PROVE  \E g : SumGraph(f, S, g)
<1> DEFINE B == {s \in SUBSET S : ~\E g : SumGraph(f, s, g)}
<1> SUFFICES ASSUME B # {} PROVE FALSE
  OBVIOUS
<1>1. PICK s \in B : \A x \in s : s \ {x} \notin B
  <2>1. B \in SUBSET (SUBSET S)
    OBVIOUS
  <2> HIDE DEF B
  <2> QED BY <2>1, SmallestSubset
<1>2. s \in SUBSET S /\ IsFiniteSet(s)
  BY FS_Subset
<1>3. \A x \in s : \E g : SumGraph(f, s \ {x}, g)
  BY <1>1, <1>2
<1> DEFINE G(x) == CHOOSE g : SumGraph(f, s \ {x}, g)
           C(t) == CHOOSE x \in t : TRUE
<1>4. ASSUME NEW x \in s
      PROVE  SumGraph(f, s \ {x}, G(x))
  BY <1>3
<1> HIDE DEF G
<1> DEFINE Pick(t) == CHOOSE x \in s : x \notin t
           h == [t \in SUBSET s |-> IF t # s THEN G(Pick(t))[t]
                                    ELSE IF s = {} THEN 0
                                    ELSE f[C(s)] + G(C(s))[s \ {C(s)}]]
<1>5. ASSUME NEW x \in s, NEW t \in SUBSET (s \ {x})
      PROVE  h[t] = G(x)[t]
  <2> DEFINE y == Pick(t)
  <2>1. y \in s /\ y \notin t
    OBVIOUS
  <2>2. h[t] = G(y)[t]
    OBVIOUS
  <2> HIDE DEF h, y
  <2>3. SumGraph(f, s \ {y}, G(y)) /\ SumGraph(f, s \ {x}, G(x))
    BY <1>4, <2>1
  <2>4. /\ IsFiniteSet(s \ {x}) /\ IsFiniteSet(s \ {y}) /\ IsFiniteSet((s \ {x}) \cap (s \ {y}))
    BY <1>2, FS_Subset
  <2> DEFINE k == [u \in SUBSET t |-> G(x)[u]]
  <2>5. SumGraph(f, t, k)
    <3>1. ASSUME NEW u \in SUBSET t
          PROVE  G(x)[u] = SumBody(f, k, u)
      <4>1. u \in SUBSET (s \ {x})
        OBVIOUS
      <4>2. G(x)[u] = SumBody(f, G(x), u)
        BY <2>3, <4>1 DEF SumGraph
      <4>3. CASE u = {}
        BY <4>2, <4>3 DEF SumBody
      <4>4. CASE u # {}
        <5> DEFINE v == u \ {C(u)}
        <5>1. k[v] = G(x)[v]
          OBVIOUS
        <5> HIDE DEF k
        <5> QED BY <4>2, <4>4, <5>1 DEF SumBody
      <4> QED BY <4>3, <4>4
    <3>2. \A u \in SUBSET t : k[u] = G(x)[u]
      OBVIOUS
    <3>3. k = [u \in SUBSET t |-> k[u]]
      OBVIOUS
    <3> HIDE DEF k
    <3> QED BY <3>1, <3>2, <3>3 DEF SumGraph
  <2>6. t \in SUBSET (s \ {y})
    BY <2>1
  <2>7. \A u \in SUBSET t : G(y)[u] = k[u]
    <3> HIDE DEF k
    <3> QED BY <2>3, <2>4, <2>5, <2>6, SumUnique
  <2>8. G(y)[t] = k[t] /\ k[t] = G(x)[t]
    BY <2>7
  <2> QED BY <2>2, <2>8
<1>6. ASSUME NEW t \in SUBSET s
      PROVE  h[t] = SumBody(f, h, t)
  <2>1. CASE t = {}
    <3>1. CASE s = {}
      BY <2>1, <3>1 DEF SumBody
    <3>2. CASE s # {}
      <4>1. PICK x \in s : TRUE
        BY <3>2
      <4>2. h[t] = G(x)[t]
        BY <1>5, <2>1
      <4>3. G(x)[t] = SumBody(f, G(x), t)
        BY <1>4, <2>1 DEF SumGraph
      <4> HIDE DEF h
      <4> QED BY <2>1, <4>2, <4>3 DEF SumBody
    <3> QED BY <3>1, <3>2
  <2>2. CASE t # {} /\ t = s
    <3> DEFINE c == C(s)
    <3>1. c \in s
      BY <2>2
    <3>2. h[s] = f[c] + G(c)[s \ {c}]
      BY <2>2
    <3>3. h[s \ {c}] = G(c)[s \ {c}]
      BY <1>5, <3>1
    <3>4. h[s] = f[c] + h[s \ {c}]
      BY <3>2, <3>3
    <3> HIDE DEF h
    <3> QED BY <2>2, <3>4 DEF SumBody
  <2>3. CASE t # {} /\ t # s
    <3>1. PICK x \in s : x \notin t
      BY <2>3
    <3>2. t \in SUBSET (s \ {x})
      BY <3>1
    <3> DEFINE c == C(t)
    <3>3. c \in t
      BY <2>3
    <3>4. t \ {c} \in SUBSET (s \ {x})
      BY <3>2
    <3>5. h[t] = G(x)[t] /\ h[t \ {c}] = G(x)[t \ {c}]
      BY <1>5, <3>2, <3>4
    <3>6. G(x)[t] = SumBody(f, G(x), t)
      BY <1>4, <3>2 DEF SumGraph
    <3> HIDE DEF h
    <3>7. G(x)[t] = f[c] + G(x)[t \ {c}]
      BY <2>3, <3>6 DEF SumBody
    <3>8. h[t] = f[c] + h[t \ {c}]
      BY <3>5, <3>7
    <3> QED BY <2>3, <3>8 DEF SumBody
  <2> QED BY <2>1, <2>2, <2>3
<1>7. h = [t \in SUBSET s |-> h[t]]
  OBVIOUS
<1> HIDE DEF h
<1>8. SumGraph(f, s, h)
  BY <1>6, <1>7 DEF SumGraph
<1> QED BY <1>1, <1>8

\* The sum over a set is what one element contributes and the sum over the rest.
LEMMA SumStep ==
  ASSUME NEW f, NEW S, IsFiniteSet(S)
  PROVE  /\ S = {} => SumFunctionOnSet(f, S) = 0
         /\ S # {} => \E x \in S : SumFunctionOnSet(f, S) = f[x] + SumFunctionOnSet(f, S \ {x})
<1> DEFINE G(s) == CHOOSE g : SumGraph(f, s, g)
<1>1. ASSUME NEW s \in SUBSET S
      PROVE  SumGraph(f, s, G(s)) /\ SumFunctionOnSet(f, s) = G(s)[s]
  <2>1. IsFiniteSet(s)
    BY FS_Subset
  <2>2. \E g : SumGraph(f, s, g)
    BY <2>1, SumExists
  <2> QED BY <2>2, SumUnfold
<1> HIDE DEF G
<1>2. G(S)[S] = SumBody(f, G(S), S)
  BY <1>1 DEF SumGraph
<1>3. CASE S = {}
  BY <1>1, <1>2, <1>3 DEF SumBody
<1>4. CASE S # {}
  <2> DEFINE c == CHOOSE x \in S : TRUE
             T == S \ {c}
  <2>1. c \in S
    BY <1>4
  <2>2. G(S)[S] = f[c] + G(S)[T]
    BY <1>2, <1>4 DEF SumBody
  <2>3. T \in SUBSET S /\ S \in SUBSET S /\ IsFiniteSet(T)
    BY FS_Subset
  <2> HIDE DEF c, T
  <2>4. \A t \in SUBSET T : G(S)[t] = G(T)[t]
    BY <1>1, <2>3, SumUnique
  <2>5. G(S)[T] = G(T)[T]
    BY <2>4
  <2>6. SumFunctionOnSet(f, S) = f[c] + SumFunctionOnSet(f, T)
    BY <1>1, <2>2, <2>3, <2>5
  <2> QED BY <1>4, <2>1, <2>6 DEF T
<1> QED BY <1>3, <1>4

\* The sum of natural numbers is one.
LEMMA SumNat ==
  ASSUME NEW f, NEW S, IsFiniteSet(S), \A x \in S : f[x] \in Nat
  PROVE  SumFunctionOnSet(f, S) \in Nat
<1> DEFINE B == {s \in SUBSET S : SumFunctionOnSet(f, s) \notin Nat}
<1> SUFFICES ASSUME B # {} PROVE FALSE
  OBVIOUS
<1>1. PICK s \in B : \A x \in s : s \ {x} \notin B
  <2>1. B \in SUBSET (SUBSET S)
    OBVIOUS
  <2> HIDE DEF B
  <2> QED BY <2>1, SmallestSubset
<1>2. s \in SUBSET S /\ IsFiniteSet(s)
  BY FS_Subset
<1>3. s = {} => SumFunctionOnSet(f, s) = 0
  BY <1>2, SumStep
<1>4. CASE s # {}
  <2>1. PICK c \in s : SumFunctionOnSet(f, s) = f[c] + SumFunctionOnSet(f, s \ {c})
    BY <1>2, <1>4, SumStep
  <2>2. SumFunctionOnSet(f, s \ {c}) \in Nat
    BY <1>1, <1>2
  <2>3. f[c] \in Nat
    BY <1>2
  <2> QED BY <2>1, <2>2, <2>3
<1> QED BY <1>3, <1>4

\* Whichever element of the set is taken first.
LEMMA SumPick ==
  ASSUME NEW f, NEW S, IsFiniteSet(S), \A x \in S : f[x] \in Nat
  PROVE  /\ SumFunctionOnSet(f, S) \in Nat
         /\ \A x \in S : SumFunctionOnSet(f, S) = f[x] + SumFunctionOnSet(f, S \ {x})
<1> DEFINE P(s) == /\ SumFunctionOnSet(f, s) \in Nat
                   /\ \A x \in s : SumFunctionOnSet(f, s) = f[x] + SumFunctionOnSet(f, s \ {x})
           B == {s \in SUBSET S : ~P(s)}
<1> SUFFICES ASSUME B # {} PROVE FALSE
  OBVIOUS
<1> HIDE DEF P
<1>1. PICK s \in B : \A x \in s : s \ {x} \notin B
  <2>1. B \in SUBSET (SUBSET S)
    OBVIOUS
  <2> HIDE DEF B
  <2> QED BY <2>1, SmallestSubset
<1>2. s \in SUBSET S /\ IsFiniteSet(s) /\ ~P(s)
  BY FS_Subset
<1>3. \A x \in s : P(s \ {x})
  BY <1>1, <1>2
<1> HIDE DEF B
<1>4. CASE s = {}
  BY <1>2, <1>4, SumStep DEF P
<1>5. CASE s # {}
  <2>1. PICK c \in s : SumFunctionOnSet(f, s) = f[c] + SumFunctionOnSet(f, s \ {c})
    BY <1>2, <1>5, SumStep
  <2>2. f[c] \in Nat /\ SumFunctionOnSet(f, s \ {c}) \in Nat
    BY <1>2, <1>3 DEF P
  <2>3. SumFunctionOnSet(f, s) \in Nat
    BY <2>1, <2>2
  <2>4. ASSUME NEW x \in s, x # c
        PROVE  SumFunctionOnSet(f, s) = f[x] + SumFunctionOnSet(f, s \ {x})
    <3> DEFINE r == (s \ {c}) \ {x}
    <3>1. SumFunctionOnSet(f, s \ {c}) = f[x] + SumFunctionOnSet(f, r)
      BY <1>3, <2>4 DEF P
    <3>2. SumFunctionOnSet(f, s \ {x}) = f[c] + SumFunctionOnSet(f, (s \ {x}) \ {c})
      BY <1>3, <2>4 DEF P
    <3>3. (s \ {x}) \ {c} = r
      OBVIOUS
    <3>4. r = (s \ {c}) \ {x}
      OBVIOUS
    <3> HIDE DEF r
    <3>5. SumFunctionOnSet(f, s \ {x}) = f[c] + SumFunctionOnSet(f, r)
      BY <3>2, <3>3
    <3>6. SumFunctionOnSet(f, s \ {x}) \in Nat /\ f[x] \in Nat /\ f[c] \in Nat
      BY <1>2, <1>3 DEF P
    <3>7. PICK a \in Nat : a = SumFunctionOnSet(f, s \ {c})
      BY <2>2
    <3>8. IsFiniteSet(r) /\ r \in SUBSET S
      BY <1>2, <3>4, FS_Subset
    <3>9. SumFunctionOnSet(f, r) \in Nat
      <4>1. \A y \in r : f[y] \in Nat
        BY <3>8
      <4> QED BY <3>8, <4>1, SumNat
    <3> QED BY <2>1, <3>1, <3>5, <3>6, <3>9
  <2> QED BY <1>2, <2>1, <2>3, <2>4 DEF P
<1> QED BY <1>4, <1>5

\* A sum of zeros.
LEMMA SumZero ==
  ASSUME NEW f, NEW S, IsFiniteSet(S), \A x \in S : f[x] = 0
  PROVE  SumFunctionOnSet(f, S) = 0
<1> DEFINE B == {s \in SUBSET S : SumFunctionOnSet(f, s) # 0}
<1> SUFFICES ASSUME B # {} PROVE FALSE
  OBVIOUS
<1>1. PICK s \in B : \A x \in s : s \ {x} \notin B
  <2>1. B \in SUBSET (SUBSET S)
    OBVIOUS
  <2> HIDE DEF B
  <2> QED BY <2>1, SmallestSubset
<1>2. s \in SUBSET S /\ IsFiniteSet(s)
  BY FS_Subset
<1>3. s = {} => SumFunctionOnSet(f, s) = 0
  BY <1>2, SumStep
<1>4. CASE s # {}
  <2>1. PICK c \in s : SumFunctionOnSet(f, s) = f[c] + SumFunctionOnSet(f, s \ {c})
    BY <1>2, <1>4, SumStep
  <2>2. SumFunctionOnSet(f, s \ {c}) = 0
    BY <1>1, <1>2
  <2>3. f[c] = 0
    BY <1>2
  <2> QED BY <2>1, <2>2, <2>3
<1> QED BY <1>3, <1>4

\* Functions that agree on the set have the same sum.
LEMMA SumAgree ==
  ASSUME NEW f, NEW h, NEW S, IsFiniteSet(S), \A x \in S : f[x] = h[x]
  PROVE  SumFunctionOnSet(f, S) = SumFunctionOnSet(h, S)
<1> DEFINE g == CHOOSE g : SumGraph(f, S, g)
           k == CHOOSE k : SumGraph(h, S, k)
<1>1. SumGraph(f, S, g) /\ SumGraph(h, S, k)
  BY SumExists
<1>2. SumFunctionOnSet(f, S) = g[S] /\ SumFunctionOnSet(h, S) = k[S]
  BY SumUnfold
<1> HIDE DEF g, k
<1>3. \A t \in SUBSET S : g[t] = k[t]
  BY <1>1, SumUnique
<1> QED BY <1>2, <1>3

\* A sum to which only one element contributes.
LEMMA SumOne ==
  ASSUME NEW f, NEW S, IsFiniteSet(S), NEW c \in S, f[c] \in Nat, \A x \in S \ {c} : f[x] = 0
  PROVE  SumFunctionOnSet(f, S) = f[c]
<1>1. IsFiniteSet(S \ {c})
  BY FS_Subset
<1>2. SumFunctionOnSet(f, S) = f[c] + SumFunctionOnSet(f, S \ {c})
  <2>1. \A x \in S : f[x] \in Nat
    OBVIOUS
  <2> QED BY <2>1, SumPick
<1>3. SumFunctionOnSet(f, S \ {c}) = 0
  BY <1>1, SumZero
<1> QED BY <1>2, <1>3
-----------------------------------------------------------------------------
(* Small facts.                                                            *)

\* A set of naturals with an element and an upper bound has a largest element.
LEMMA MaxFacts ==
  ASSUME NEW n \in Nat, NEW S \in SUBSET (0..n), S # {}
  PROVE  Max(S) \in S /\ \A y \in S : Max(S) >= y
<1> DEFINE B == {m \in Nat : \A y \in S : m >= y}
<1>1. n \in B /\ B \in SUBSET Nat
  OBVIOUS
<1> HIDE DEF B
<1>2. PICK m \in B : \A y \in B : m <= y
  BY <1>1, LeastNumber
<1>3. m \in Nat /\ \A y \in S : m >= y
  BY <1>2 DEF B
<1>4. m \in S
  <2> SUFFICES ASSUME m \notin S PROVE FALSE
    OBVIOUS
  <2>1. PICK y \in S : TRUE
    OBVIOUS
  <2>2. m > 0 /\ m - 1 \in Nat
    BY <1>3, <2>1
  <2>3. m - 1 \in B
    BY <1>3, <2>2 DEF B
  <2> QED BY <1>2, <1>3, <2>2, <2>3
<1>5. \E x \in S : \A y \in S : x >= y
  BY <1>3, <1>4
<1> QED BY <1>5 DEF Max

\* Contains is membership in ToSet.
LEMMA ContainsFacts ==
  ASSUME NEW A, NEW s \in Seq(A), NEW x
  PROVE  Contains(s, x) <=> x \in ToSet(s)
BY DEF Contains, ToSet

\* The elements of a sequence.
LEMMA ToSetFacts ==
  ASSUME NEW A, NEW s \in Seq(A)
  PROVE  /\ ToSet(s) \subseteq A
         /\ \A i \in 1..Len(s) : s[i] \in ToSet(s)
         /\ ToSet(s) = {} <=> s = <<>>
<1>1. PICK n \in Nat : n = Len(s) /\ DOMAIN s = 1..n
  OBVIOUS
<1>2. \A i \in 1..n : s[i] \in A
  BY <1>1
<1>3. ToSet(s) = {s[i] : i \in 1..n}
  BY <1>1 DEF ToSet
<1>4. ToSet(s) \subseteq A /\ \A i \in 1..Len(s) : s[i] \in ToSet(s)
  BY <1>1, <1>2, <1>3
<1>5. ASSUME s # <<>> PROVE ToSet(s) # {}
  <2>1. 1 \in 1..n
    BY <1>1, <1>5
  <2> QED BY <1>3, <2>1
<1>6. ASSUME s = <<>> PROVE ToSet(s) = {}
  <2>1. n = 0
    BY <1>1, <1>6
  <2> QED BY <1>3, <2>1
<1> QED BY <1>4, <1>5, <1>6

\* Appending an element.
LEMMA AppendFacts ==
  ASSUME NEW A, NEW s \in Seq(A), NEW x \in A
  PROVE  /\ Append(s, x) \in Seq(A)
         /\ \A y : y \in ToSet(Append(s, x)) <=> y \in ToSet(s) \/ y = x
         /\ Distinct(s) /\ x \notin ToSet(s) => Distinct(Append(s, x))
<1>1. PICK n \in Nat : n = Len(s) /\ DOMAIN s = 1..n
  OBVIOUS
<1>2. /\ Append(s, x) \in Seq(A) /\ DOMAIN Append(s, x) = 1..(n + 1)
      /\ Append(s, x)[n + 1] = x /\ \A i \in 1..n : Append(s, x)[i] = s[i]
  BY <1>1
<1>3. ASSUME NEW y PROVE y \in ToSet(Append(s, x)) <=> y \in ToSet(s) \/ y = x
  <2>1. y \in ToSet(s) <=> \E i \in 1..n : s[i] = y
    BY <1>1 DEF ToSet
  <2>2. y \in ToSet(Append(s, x)) <=> \E i \in 1..(n + 1) : Append(s, x)[i] = y
    BY <1>2 DEF ToSet
  <2> QED BY <1>1, <1>2, <2>1, <2>2
<1>4. ASSUME Distinct(s), x \notin ToSet(s) PROVE Distinct(Append(s, x))
  <2>1. \A i \in 1..n : s[i] # x
    BY <1>1, <1>4 DEF ToSet
  <2>2. \A i, j \in 1..n : s[i] = s[j] => i = j
    BY <1>1, <1>4 DEF Distinct
  <2> QED BY <1>1, <1>2, <2>1, <2>2 DEF Distinct
<1> QED BY <1>2, <1>3, <1>4

\* Where the elements of a concatenation are.
LEMMA ConcatPositions ==
  ASSUME NEW A, NEW s \in Seq(A), NEW t \in Seq(A), NEW n, n = Len(s), NEW m, m = Len(t)
  PROVE  /\ DOMAIN (s \o t) = 1..(n + m)
         /\ \A i \in 1..n : (s \o t)[i] = s[i]
         /\ \A i \in 1..(n + m) : i > n => (s \o t)[i] = t[i - n] /\ i - n \in 1..m
<1>1. n \in Nat /\ DOMAIN s = 1..n
  OBVIOUS
<1>2. m \in Nat /\ DOMAIN t = 1..m
  OBVIOUS
<1>3. /\ DOMAIN (s \o t) = 1..(n + m)
      /\ \A i \in 1..n : (s \o t)[i] = s[i]
      /\ \A i \in (n + 1)..(n + m) : (s \o t)[i] = t[i - n]
  BY <1>1, <1>2
<1>4. \A i \in 1..(n + m) : i > n => i \in (n + 1)..(n + m) /\ i - n \in 1..m
  BY <1>1, <1>2
<1> QED BY <1>3, <1>4

\* Concatenating two sequences.
LEMMA ConcatFacts ==
  ASSUME NEW A, NEW s \in Seq(A), NEW t \in Seq(A)
  PROVE  /\ s \o t \in Seq(A)
         /\ \A y : y \in ToSet(s \o t) <=> y \in ToSet(s) \/ y \in ToSet(t)
         /\ Distinct(s) /\ Distinct(t) /\ ToSet(s) \cap ToSet(t) = {} => Distinct(s \o t)
<1>1. PICK n \in Nat : n = Len(s) /\ DOMAIN s = 1..n
  OBVIOUS
<1>2. PICK m \in Nat : m = Len(t) /\ DOMAIN t = 1..m
  OBVIOUS
<1>3. /\ s \o t \in Seq(A) /\ DOMAIN (s \o t) = 1..(n + m)
      /\ \A i \in 1..n : (s \o t)[i] = s[i]
      /\ \A i \in (n + 1)..(n + m) : (s \o t)[i] = t[i - n]
  BY <1>1, <1>2
<1>4. \A i \in 1..m : i + n \in (n + 1)..(n + m) /\ (s \o t)[i + n] = t[i]
  BY <1>3
<1>5. ASSUME NEW y PROVE y \in ToSet(s \o t) <=> y \in ToSet(s) \/ y \in ToSet(t)
  <2>1. y \in ToSet(s) <=> \E i \in 1..n : s[i] = y
    BY <1>1 DEF ToSet
  <2>2. y \in ToSet(t) <=> \E i \in 1..m : t[i] = y
    BY <1>2 DEF ToSet
  <2>3. y \in ToSet(s \o t) <=> \E i \in 1..(n + m) : (s \o t)[i] = y
    BY <1>3 DEF ToSet
  <2>4. ASSUME NEW i \in 1..(n + m), (s \o t)[i] = y
        PROVE  (\E j \in 1..n : s[j] = y) \/ (\E j \in 1..m : t[j] = y)
    <3>1. CASE i <= n
      BY <1>3, <2>4, <3>1
    <3>2. CASE i > n
      <4>1. i \in (n + 1)..(n + m) /\ i - n \in 1..m
        BY <3>2
      <4> QED BY <1>3, <2>4, <4>1
    <3> QED BY <3>1, <3>2
  <2>5. ASSUME NEW j \in 1..n, s[j] = y PROVE \E i \in 1..(n + m) : (s \o t)[i] = y
    <3>1. j \in 1..(n + m) /\ (s \o t)[j] = y
      BY <1>3, <2>5
    <3> QED BY <3>1
  <2>6. ASSUME NEW j \in 1..m, t[j] = y PROVE \E i \in 1..(n + m) : (s \o t)[i] = y
    <3>1. j + n \in 1..(n + m)
      OBVIOUS
    <3>2. (s \o t)[j + n] = y
      BY <1>4, <2>6
    <3> QED BY <3>1, <3>2
  <2> QED BY <2>1, <2>2, <2>3, <2>4, <2>5, <2>6
<1>6. ASSUME Distinct(s), Distinct(t), ToSet(s) \cap ToSet(t) = {}
      PROVE  Distinct(s \o t)
  <2>1. \A i \in 1..n : \A j \in 1..m : s[i] # t[j]
    BY <1>1, <1>2, <1>6 DEF ToSet
  <2>2. \A i, j \in 1..n : s[i] = s[j] => i = j
    BY <1>1, <1>6 DEF Distinct
  <2>3. \A i, j \in 1..m : t[i] = t[j] => i = j
    BY <1>2, <1>6 DEF Distinct
  <2>4. \A i \in (n + 1)..(n + m) : i - n \in 1..m
    OBVIOUS
  <2>5. \A i \in 1..(n + m) : i \in 1..n \/ i \in (n + 1)..(n + m)
    OBVIOUS
  <2>6. ASSUME NEW i \in 1..(n + m), NEW j \in 1..(n + m), (s \o t)[i] = (s \o t)[j] PROVE i = j
    <3>1. CASE i \in 1..n /\ j \in 1..n
      BY <1>3, <2>2, <2>6, <3>1
    <3>2. CASE i \in (n + 1)..(n + m) /\ j \in (n + 1)..(n + m)
      <4>1. t[i - n] = t[j - n] /\ i - n \in 1..m /\ j - n \in 1..m
        BY <1>3, <2>4, <2>6, <3>2
      <4>2. i - n = j - n
        BY <2>3, <4>1
      <4> QED BY <4>2
    <3>3. CASE i \in 1..n /\ j \in (n + 1)..(n + m)
      <4>1. s[i] = t[j - n] /\ j - n \in 1..m
        BY <1>3, <2>4, <2>6, <3>3
      <4> QED BY <2>1, <3>3, <4>1
    <3>4. CASE j \in 1..n /\ i \in (n + 1)..(n + m)
      <4>1. s[j] = t[i - n] /\ i - n \in 1..m
        BY <1>3, <2>4, <2>6, <3>4
      <4> QED BY <2>1, <3>4, <4>1
    <3> QED BY <2>5, <3>1, <3>2, <3>3, <3>4
  <2> QED BY <1>3, <2>6 DEF Distinct
<1> QED BY <1>3, <1>5, <1>6

\* A prefix of a sequence.
LEMMA PrefixFacts ==
  ASSUME NEW A, NEW s \in Seq(A), NEW k \in Int, k <= Len(s)
  PROVE  /\ SubSeq(s, 1, k) \in Seq(A)
         /\ Len(SubSeq(s, 1, k)) = IF k >= 1 THEN k ELSE 0
         /\ \A i \in 1..k : SubSeq(s, 1, k)[i] = s[i]
         /\ ToSet(SubSeq(s, 1, k)) \subseteq ToSet(s)
         /\ Distinct(s) => Distinct(SubSeq(s, 1, k))
<1>1. PICK n \in Nat : n = Len(s) /\ DOMAIN s = 1..n
  OBVIOUS
<1>2. /\ SubSeq(s, 1, k) \in Seq(A)
      /\ Len(SubSeq(s, 1, k)) = IF k >= 1 THEN k ELSE 0
      /\ \A i \in 1..k : SubSeq(s, 1, k)[i] = s[i]
  BY <1>1
<1>3. DOMAIN SubSeq(s, 1, k) = 1..k /\ 1..k \subseteq 1..n
  BY <1>1, <1>2
<1>4. ToSet(SubSeq(s, 1, k)) \subseteq ToSet(s)
  BY <1>1, <1>2, <1>3 DEF ToSet
<1>5. Distinct(s) => Distinct(SubSeq(s, 1, k))
  BY <1>1, <1>2, <1>3 DEF Distinct
<1> QED BY <1>2, <1>4, <1>5

\* Front, and the last element.
LEMMA FrontFacts ==
  ASSUME NEW A, NEW s \in Seq(A)
  PROVE  /\ Front(s) \in Seq(A)
         /\ ToSet(Front(s)) \subseteq ToSet(s)
         /\ s # <<>> => /\ Last(s) \in ToSet(s)
                        /\ Last(s) \in A
                        /\ \A x : x \in ToSet(s) => x \in ToSet(Front(s)) \/ x = Last(s)
         /\ Distinct(s) => Distinct(Front(s))
         /\ Distinct(s) /\ s # <<>> => Last(s) \notin ToSet(Front(s))
<1>1. PICK n \in Nat : n = Len(s) /\ DOMAIN s = 1..n
  OBVIOUS
<1>2. n - 1 \in Int /\ n - 1 <= Len(s)
  BY <1>1
<1>3. Front(s) = SubSeq(s, 1, n - 1)
  BY <1>1 DEF Front
<1>4. /\ Front(s) \in Seq(A) /\ ToSet(Front(s)) \subseteq ToSet(s)
      /\ Distinct(s) => Distinct(Front(s))
  BY <1>2, <1>3, PrefixFacts
<1>5. Len(SubSeq(s, 1, n - 1)) = (IF n - 1 >= 1 THEN n - 1 ELSE 0)
      /\ \A i \in 1..(n - 1) : SubSeq(s, 1, n - 1)[i] = s[i]
  BY <1>2, PrefixFacts
<1>6. DOMAIN Front(s) = 1..(n - 1) /\ \A i \in 1..(n - 1) : Front(s)[i] = s[i]
  BY <1>1, <1>3, <1>4, <1>5
<1>7. ASSUME s # <<>>
      PROVE  /\ n >= 1 /\ Last(s) = s[n]
             /\ Last(s) \in ToSet(s) /\ Last(s) \in A
  BY <1>1, <1>7 DEF Last, ToSet
<1>8. ASSUME s # <<>>, NEW x \in ToSet(s) PROVE x \in ToSet(Front(s)) \/ x = Last(s)
  <2>1. PICK i \in 1..n : s[i] = x
    BY <1>1, <1>8 DEF ToSet
  <2>2. i = n \/ i \in 1..(n - 1)
    OBVIOUS
  <2> QED BY <1>6, <1>7, <1>8, <2>1, <2>2 DEF ToSet
<1>9. ASSUME Distinct(s), s # <<>> PROVE Last(s) \notin ToSet(Front(s))
  <2> SUFFICES ASSUME NEW i \in 1..(n - 1), s[n] = s[i] PROVE FALSE
    BY <1>6, <1>7, <1>9 DEF ToSet
  <2>1. i \in 1..n /\ n \in 1..n /\ i # n
    BY <1>7, <1>9
  <2> QED BY <1>1, <1>9, <2>1 DEF Distinct
<1> QED BY <1>4, <1>7, <1>8, <1>9

\* Filters that agree on the elements select the same.
LEMMA InOrderAgree ==
  ASSUME NEW A, NEW s \in Seq(A), NEW S, NEW T, \A x \in ToSet(s) : x \in S <=> x \in T
  PROVE  InOrder(s, S) = InOrder(s, T)
<1>1. PICK n \in Nat : n = Len(s) /\ DOMAIN s = 1..n
  OBVIOUS
<1>2. \A q \in 1..n : s[q] \in S <=> s[q] \in T
  BY <1>1 DEF ToSet
<1>3. [q \in 1..n |-> IF s[q] \in S THEN <<s[q]>> ELSE <<>>] =
      [q \in 1..n |-> IF s[q] \in T THEN <<s[q]>> ELSE <<>>]
  BY <1>2
<1>4. InOrder(s, S) = FlattenSeq([q \in 1..n |-> IF s[q] \in S THEN <<s[q]>> ELSE <<>>])
  BY <1>1, InOrderFlatten
<1>5. InOrder(s, T) = FlattenSeq([q \in 1..n |-> IF s[q] \in T THEN <<s[q]>> ELSE <<>>])
  BY <1>1, InOrderFlatten
<1> QED BY <1>3, <1>4, <1>5

\* A sequence of one-element parts.
LEMMA FlattenSingles ==
  ASSUME NEW A, NEW s \in Seq(A), NEW n \in Nat, n = Len(s)
  PROVE  FlattenSeq([q \in 1..n |-> <<s[q]>>]) = s
<1> DEFINE ss == [q \in 1..n |-> <<s[q]>>]
<1>1. /\ ss \in [1..n -> Seq(A)]
      /\ \A q \in 1..n : Len(ss[q]) = 1 /\ ss[q][1] = s[q]
  OBVIOUS
<1> HIDE DEF ss
<1>2. FlattenSeq(ss) \in Seq(A)
  BY <1>1, FlattenPositions
<1>3. PICK off \in [0..n -> Nat] : Offsets(ss, n, off)
  BY <1>1, FlattenPositions
<1>4. /\ off[0] = 0 /\ Len(FlattenSeq(ss)) = off[n]
      /\ \A q \in 1..n : off[q] = off[q - 1] + 1
      /\ \A q \in 1..n : FlattenSeq(ss)[off[q - 1] + 1] = s[q]
  <2>1. /\ off[0] = 0 /\ Len(FlattenSeq(ss)) = off[n]
        /\ \A q \in 1..n : off[q] = off[q - 1] + Len(ss[q])
    BY <1>3 DEF Offsets
  <2>2. \A q \in 1..n : \A i \in 1..Len(ss[q]) : FlattenSeq(ss)[off[q - 1] + i] = ss[q][i]
    BY <1>3 DEF Offsets
  <2>3. \A q \in 1..n : 1 \in 1..Len(ss[q])
    BY <1>1
  <2>4. \A q \in 1..n : FlattenSeq(ss)[off[q - 1] + 1] = ss[q][1]
    BY <2>2, <2>3
  <2> QED BY <1>1, <2>1, <2>4
<1>5. \A q \in 0..n : off[q] = q
  <2> DEFINE B == {q \in 0..n : off[q] # q}
  <2> SUFFICES ASSUME B # {} PROVE FALSE
    OBVIOUS
  <2>1. B \in SUBSET Nat
    OBVIOUS
  <2> HIDE DEF B
  <2>2. PICK q \in B : \A y \in B : q <= y
    BY <2>1, LeastNumber
  <2>3. q \in 0..n /\ off[q] # q
    BY <2>2 DEF B
  <2>4. q \in 1..n /\ q - 1 \in 0..n
    BY <1>4, <2>3
  <2>5. q - 1 \notin B
    BY <2>2, <2>4
  <2>6. off[q - 1] = q - 1
    BY <2>4, <2>5 DEF B
  <2> QED BY <1>4, <2>3, <2>4, <2>6
<1>6. Len(FlattenSeq(ss)) = n /\ \A q \in 1..n : FlattenSeq(ss)[q] = s[q]
  <2>1. \A q \in 1..n : off[q - 1] + 1 = q
    <3>1. \A q \in 1..n : q - 1 \in 0..n
      OBVIOUS
    <3>2. \A q \in 1..n : off[q - 1] = q - 1
      BY <1>5, <3>1
    <3> QED BY <3>2
  <2>2. off[n] = n
    BY <1>5
  <2> QED BY <1>4, <2>1, <2>2
<1>7. FlattenSeq(ss) = s
  BY <1>2, <1>6
<1> QED BY <1>7 DEF ss

\* A filter that all elements pass.
LEMMA InOrderAll ==
  ASSUME NEW A, NEW s \in Seq(A), NEW S, ToSet(s) \subseteq S
  PROVE  InOrder(s, S) = s
<1>1. PICK n \in Nat : n = Len(s) /\ DOMAIN s = 1..n
  OBVIOUS
<1>2. \A q \in 1..n : s[q] \in S
  BY <1>1 DEF ToSet
<1>3. [q \in 1..n |-> IF s[q] \in S THEN <<s[q]>> ELSE <<>>] = [q \in 1..n |-> <<s[q]>>]
  BY <1>2
<1>4. InOrder(s, S) = FlattenSeq([q \in 1..n |-> IF s[q] \in S THEN <<s[q]>> ELSE <<>>])
  BY <1>1, InOrderFlatten
<1> QED BY <1>1, <1>3, <1>4, FlattenSingles

\* A sequence without repetitions has as many elements as positions.
LEMMA DistinctCardinality ==
  ASSUME NEW A, NEW s \in Seq(A), Distinct(s)
  PROVE  Cardinality(ToSet(s)) = Len(s)
<1>1. PICK n \in Nat : n = Len(s) /\ DOMAIN s = 1..n
  OBVIOUS
<1>2. \A i, j \in 1..n : s[i] = s[j] => i = j
  BY <1>1 DEF Distinct
<1>3. ToSet(s) = {s[i] : i \in 1..n}
  BY <1>1 DEF ToSet
<1> DEFINE f == [i \in 1..n |-> s[i]]
<1>4. f \in Bijection(1..n, ToSet(s))
  <2>1. f \in [1..n -> ToSet(s)]
    BY <1>3
  <2>2. \A i, j \in 1..n : f[i] = f[j] => i = j
    BY <1>2
  <2>3. \A y \in ToSet(s) : \E i \in 1..n : f[i] = y
    BY <1>3
  <2> HIDE DEF f
  <2> QED BY <2>1, <2>2, <2>3 DEF Bijection, Injection, Surjection, IsInjective
<1>5. ExistsBijection(1..n, ToSet(s))
  BY <1>4 DEF ExistsBijection
<1> QED BY <1>1, <1>5, FS_CountingElements

\* The sum over two sets without common elements.
LEMMA SumSplit ==
  ASSUME NEW f, NEW S, IsFiniteSet(S), NEW T, IsFiniteSet(T), S \cap T = {},
         \A x \in S : f[x] \in Nat, \A x \in T : f[x] \in Nat
  PROVE  SumFunctionOnSet(f, S \cup T) = SumFunctionOnSet(f, S) + SumFunctionOnSet(f, T)
<1> DEFINE P(U) == SumFunctionOnSet(f, S \cup U) = SumFunctionOnSet(f, S) + SumFunctionOnSet(f, U)
           B == {U \in SUBSET T : ~P(U)}
<1> SUFFICES ASSUME B # {} PROVE FALSE
  OBVIOUS
<1>1. PICK U \in B : \A x \in U : U \ {x} \notin B
  <2>1. B \in SUBSET (SUBSET T)
    OBVIOUS
  <2> HIDE DEF B
  <2> QED BY <2>1, SmallestSubset
<1>2. U \in SUBSET T /\ IsFiniteSet(U) /\ ~P(U)
  BY FS_Subset
<1>3. PICK a \in Nat : a = SumFunctionOnSet(f, S)
  BY SumNat
<1>4. CASE U = {}
  <2>1. SumFunctionOnSet(f, U) = 0
    BY <1>2, <1>4, SumStep
  <2>2. S \cup U = S
    BY <1>4
  <2> QED BY <1>2, <1>3, <2>1, <2>2
<1>5. CASE U # {}
  <2>1. PICK u \in U : TRUE
    BY <1>5
  <2> DEFINE V == U \ {u}
  <2>2. P(V) /\ V \in SUBSET T /\ IsFiniteSet(V)
    BY <1>1, <1>2, <2>1, FS_Subset
  <2>3. SumFunctionOnSet(f, U) = f[u] + SumFunctionOnSet(f, V)
    <3>1. \A x \in U : f[x] \in Nat
      BY <1>2
    <3> QED BY <1>2, <3>1, SumPick
  <2>4. SumFunctionOnSet(f, S \cup U) = f[u] + SumFunctionOnSet(f, S \cup V)
    <3>1. IsFiniteSet(S \cup U)
      BY <1>2, FS_Union
    <3>2. \A x \in S \cup U : f[x] \in Nat
      BY <1>2
    <3>3. u \in S \cup U /\ (S \cup U) \ {u} = S \cup V
      BY <1>2
    <3> HIDE DEF V
    <3> QED BY <3>1, <3>2, <3>3, SumPick
  <2>5. PICK b \in Nat : b = SumFunctionOnSet(f, V)
    <3>1. \A x \in V : f[x] \in Nat
      BY <2>2
    <3> QED BY <2>2, <3>1, SumNat
  <2>6. PICK c \in Nat : c = f[u]
    BY <1>2
  <2> QED BY <1>2, <1>3, <2>2, <2>3, <2>4, <2>5, <2>6
<1> QED BY <1>4, <1>5

\* The sum over a part of the set.
LEMMA SumPart ==
  ASSUME NEW f, NEW S, IsFiniteSet(S), NEW T \in SUBSET S, \A x \in S : f[x] \in Nat
  PROVE  /\ SumFunctionOnSet(f, T) \in Nat /\ SumFunctionOnSet(f, S) \in Nat
         /\ SumFunctionOnSet(f, T) <= SumFunctionOnSet(f, S)
<1> DEFINE U == S \ T
<1>1. IsFiniteSet(T) /\ IsFiniteSet(U) /\ T \cap U = {} /\ S = T \cup U
  BY FS_Subset
<1>2. (\A x \in T : f[x] \in Nat) /\ \A x \in U : f[x] \in Nat
  OBVIOUS
<1> HIDE DEF U
<1>3. SumFunctionOnSet(f, T) \in Nat /\ SumFunctionOnSet(f, U) \in Nat /\ SumFunctionOnSet(f, S) \in Nat
  BY <1>1, <1>2, SumNat
<1>4. SumFunctionOnSet(f, S) = SumFunctionOnSet(f, T) + SumFunctionOnSet(f, U)
  BY <1>1, <1>2, SumSplit
<1> QED BY <1>3, <1>4

\* A sum of ones and zeros.
LEMMA SumOfOnes ==
  ASSUME NEW f, NEW S, IsFiniteSet(S), \A x \in S : f[x] \in {0, 1}
  PROVE  SumFunctionOnSet(f, S) \in Nat /\ SumFunctionOnSet(f, S) <= Cardinality(S)
<1> DEFINE P(U) == SumFunctionOnSet(f, U) <= Cardinality(U)
           B == {U \in SUBSET S : ~P(U)}
<1>0. \A x \in S : f[x] \in Nat
  OBVIOUS
<1> SUFFICES ASSUME B # {} PROVE FALSE
  BY <1>0, SumNat
<1>1. PICK U \in B : \A x \in U : U \ {x} \notin B
  <2>1. B \in SUBSET (SUBSET S)
    OBVIOUS
  <2> HIDE DEF B
  <2> QED BY <2>1, SmallestSubset
<1>2. U \in SUBSET S /\ IsFiniteSet(U) /\ ~P(U)
  BY FS_Subset
<1>3. CASE U = {}
  BY <1>2, <1>3, SumStep, FS_EmptySet
<1>4. CASE U # {}
  <2>1. PICK u \in U : TRUE
    BY <1>4
  <2> DEFINE V == U \ {u}
  <2>2. P(V) /\ V \in SUBSET S /\ IsFiniteSet(V)
    BY <1>1, <1>2, <2>1, FS_Subset
  <2>3. SumFunctionOnSet(f, U) = f[u] + SumFunctionOnSet(f, V)
    <3>1. \A x \in U : f[x] \in Nat
      BY <1>0, <1>2
    <3> QED BY <1>2, <3>1, SumPick
  <2>4. Cardinality(V) = Cardinality(U) - 1 /\ Cardinality(U) \in Nat
    BY <1>2, <2>1, FS_RemoveElement, FS_CardinalityType
  <2>5. PICK b \in Nat : b = SumFunctionOnSet(f, V)
    BY <1>0, <2>2, SumNat
  <2>6. f[u] \in {0, 1}
    BY <1>2
  <2> QED BY <1>2, <2>2, <2>3, <2>4, <2>5, <2>6
<1> QED BY <1>3, <1>4

\* A table is changed at the places key[k], at each by at most c[k]; its sum grows by at most
\* the sum of the changes.
LEMMA SumGrows ==
  ASSUME NEW f, NEW g, NEW c, NEW key, NEW S, NEW T, NEW K,
         IsFiniteSet(T), IsFiniteSet(K), S \in SUBSET T,
         \A x \in S : f[x] \in Nat, \A x \in T : g[x] \in Nat, \A k \in K : c[k] \in Nat,
         \A j, k \in K : key[j] = key[k] => j = k,
         \A x \in T : \/ x \in S /\ g[x] <= f[x]
                      \/ \E k \in K : key[k] = x /\ g[x] <= (IF x \in S THEN f[x] ELSE 0) + c[k]
  PROVE  SumFunctionOnSet(g, T) <= SumFunctionOnSet(f, S) + SumFunctionOnSet(c, K)
<1> DEFINE KU(U) == {k \in K : key[k] \in U}
           P(U) == SumFunctionOnSet(g, U) <= SumFunctionOnSet(f, U \cap S) + SumFunctionOnSet(c, KU(U))
           B == {U \in SUBSET T : ~P(U)}
<1>0. /\ IsFiniteSet(S)
      /\ \A U \in SUBSET T : IsFiniteSet(U) /\ IsFiniteSet(U \cap S) /\ IsFiniteSet(KU(U))
  <2>1. IsFiniteSet(S)
    BY FS_Subset
  <2>2. \A U : KU(U) \in SUBSET K /\ U \cap S \in SUBSET S
    OBVIOUS
  <2> HIDE DEF KU
  <2> QED BY <2>1, <2>2, FS_Subset
<1>a. ASSUME NEW U \in SUBSET T
      PROVE  /\ SumFunctionOnSet(g, U) \in Nat /\ SumFunctionOnSet(f, U \cap S) \in Nat
             /\ SumFunctionOnSet(c, KU(U)) \in Nat
  <2>1. (\A x \in U : g[x] \in Nat) /\ (\A x \in U \cap S : f[x] \in Nat) /\ \A k \in KU(U) : c[k] \in Nat
    OBVIOUS
  <2> HIDE DEF KU
  <2> QED BY <1>0, <2>1, SumNat
<1>b. B = {}
  <2> SUFFICES ASSUME B # {} PROVE FALSE
    OBVIOUS
  <2>1. PICK U \in B : \A x \in U : U \ {x} \notin B
    <3>1. B \in SUBSET (SUBSET T)
      OBVIOUS
    <3> HIDE DEF B
    <3> QED BY <3>1, SmallestSubset
  <2>2. U \in SUBSET T /\ ~P(U)
    OBVIOUS
  <2>3. CASE U = {}
    <3>1. SumFunctionOnSet(g, U) = 0
      BY <2>3, <2>2, <1>0, SumStep
    <3> QED BY <1>a, <2>2, <3>1
  <2>4. CASE U # {}
    <3>1. PICK u \in U : TRUE
      BY <2>4
    <3>2. PICK V : V = U \ {u}
      OBVIOUS
    <3>3. P(V) /\ V \in SUBSET T /\ u \in T
      BY <2>1, <2>2, <3>1, <3>2
    <3>4. SumFunctionOnSet(g, U) = g[u] + SumFunctionOnSet(g, V)
      BY <1>0, <2>2, <3>1, <3>2, SumPick
    <3>5. SumFunctionOnSet(f, U \cap S) = (IF u \in S THEN f[u] ELSE 0) + SumFunctionOnSet(f, V \cap S)
      <4>1. CASE u \in S
        <5>1. u \in U \cap S /\ (U \cap S) \ {u} = V \cap S /\ \A x \in U \cap S : f[x] \in Nat
          BY <3>1, <3>2, <4>1
        <5> QED BY <1>0, <2>2, <4>1, <5>1, SumPick
      <4>2. CASE u \notin S
        <5>1. U \cap S = V \cap S
          BY <3>2, <4>2
        <5>2. PICK w \in Nat : w = SumFunctionOnSet(f, V \cap S)
          BY <1>a, <3>3
        <5>3. (IF u \in S THEN f[u] ELSE 0) = 0 /\ 0 + w = w
          BY <4>2
        <5> QED BY <5>1, <5>2, <5>3
      <4> QED BY <4>1, <4>2
    <3>6. SumFunctionOnSet(c, KU(V)) <= SumFunctionOnSet(c, KU(U))
      <4>1. KU(V) \in SUBSET KU(U) /\ \A k \in KU(U) : c[k] \in Nat
        BY <3>2
      <4> HIDE DEF KU
      <4> QED BY <1>0, <2>2, <4>1, SumPart
    <3>7. ASSUME NEW k \in K, key[k] = u
          PROVE  SumFunctionOnSet(c, KU(U)) = c[k] + SumFunctionOnSet(c, KU(V))
      <4>1. k \in KU(U) /\ KU(U) \ {k} = KU(V) /\ \A j \in KU(U) : c[j] \in Nat
        BY <3>1, <3>2, <3>7
      <4> HIDE DEF KU
      <4> QED BY <1>0, <2>2, <4>1, SumPick
    <3>8. PICK gu \in Nat, fu \in Nat : gu = g[u] /\ fu = IF u \in S THEN f[u] ELSE 0
      BY <3>3
    <3>9. PICK gV \in Nat, fV \in Nat, cV \in Nat, cU \in Nat :
            /\ gV = SumFunctionOnSet(g, V) /\ fV = SumFunctionOnSet(f, V \cap S)
            /\ cV = SumFunctionOnSet(c, KU(V)) /\ cU = SumFunctionOnSet(c, KU(U))
      BY <1>a, <2>2, <3>3
    <3>10. gV <= fV + cV /\ ~(gu + gV <= fu + fV + cU) /\ cV <= cU
      BY <2>2, <3>3, <3>4, <3>5, <3>6, <3>8, <3>9
    <3>11. CASE u \in S /\ g[u] <= f[u]
      <4>1. gu <= fu
        BY <3>8, <3>11
      <4> QED BY <3>10, <4>1
    <3>12. ASSUME NEW k \in K, key[k] = u, g[u] <= (IF u \in S THEN f[u] ELSE 0) + c[k] PROVE FALSE
      <4>1. PICK ck \in Nat : ck = c[k]
        OBVIOUS
      <4>2. cU = ck + cV /\ gu <= fu + ck
        BY <3>7, <3>8, <3>9, <3>12, <4>1
      <4> QED BY <3>10, <4>2
    <3> QED BY <3>3, <3>11, <3>12
  <2> QED BY <2>3, <2>4
<1>c. P(T)
  BY <1>b
<1>d. T \cap S = S
  OBVIOUS
<1>e. SumFunctionOnSet(c, KU(T)) <= SumFunctionOnSet(c, K)
  <2>1. KU(T) \in SUBSET K
    OBVIOUS
  <2> HIDE DEF KU
  <2> QED BY <2>1, SumPart
<1>f. SumFunctionOnSet(c, K) \in Nat
  BY SumNat
<1> QED BY <1>a, <1>c, <1>d, <1>e, <1>f

\* The first element that passes a filter is the first of the filtered sequence.
LEMMA InOrderHead ==
  ASSUME NEW A, NEW s \in Seq(A), Distinct(s), NEW S, NEW k \in 1..Len(s), s[k] \in S,
         \A j \in 1..Len(s) : j < k => s[j] \notin S
  PROVE  InOrder(s, S) # <<>> /\ Head(InOrder(s, S)) = s[k]
<1>1. PICK n \in Nat : n = Len(s) /\ DOMAIN s = 1..n
  OBVIOUS
<1>2. PICK u \in Seq(A) : u = InOrder(s, S)
  BY InOrderFacts
<1>3. PICK m \in Nat : m = Len(u) /\ DOMAIN u = 1..m
  OBVIOUS
<1>4. /\ \A x : x \in ToSet(u) <=> x \in ToSet(s) /\ x \in S
      /\ \A a, b \in 1..m : a < b => \E i, j \in 1..n : i < j /\ u[a] = s[i] /\ u[b] = s[j]
  BY <1>1, <1>2, <1>3, InOrderFacts
<1>5. PICK a \in 1..m : u[a] = s[k]
  <2>1. s[k] \in ToSet(u)
    BY <1>1, <1>4, ToSetFacts
  <2> QED BY <1>3, <2>1 DEF ToSet
<1>6. a = 1
  <2> SUFFICES ASSUME 1 < a PROVE FALSE
    OBVIOUS
  <2>1. PICK i \in 1..n, j \in 1..n : i < j /\ u[1] = s[i] /\ u[a] = s[j]
    BY <1>4
  <2>2. j = k
    BY <1>1, <1>5, <2>1 DEF Distinct
  <2>3. s[i] \in S
    <3>1. u[1] \in ToSet(u)
      BY <1>3 DEF ToSet
    <3> QED BY <1>4, <2>1, <3>1
  <2> QED BY <1>1, <2>1, <2>2, <2>3
<1> QED BY <1>2, <1>3, <1>5, <1>6

\* The last element that passes a filter is the last of the filtered sequence.
LEMMA InOrderLast ==
  ASSUME NEW A, NEW s \in Seq(A), Distinct(s), NEW S, NEW k \in 1..Len(s), s[k] \in S,
         \A j \in 1..Len(s) : k < j => s[j] \notin S
  PROVE  InOrder(s, S) # <<>> /\ Last(InOrder(s, S)) = s[k]
<1>1. PICK n \in Nat : n = Len(s) /\ DOMAIN s = 1..n
  OBVIOUS
<1>2. PICK u \in Seq(A) : u = InOrder(s, S)
  BY InOrderFacts
<1>3. PICK m \in Nat : m = Len(u) /\ DOMAIN u = 1..m
  OBVIOUS
<1>4. /\ \A x : x \in ToSet(u) <=> x \in ToSet(s) /\ x \in S
      /\ \A a, b \in 1..m : a < b => \E i, j \in 1..n : i < j /\ u[a] = s[i] /\ u[b] = s[j]
  <2>1. \A x : x \in ToSet(u) <=> x \in ToSet(s) /\ x \in S
    BY <1>2, InOrderFacts
  <2>2. \A a, b \in 1..Len(u) : a < b => \E i, j \in 1..Len(s) : i < j /\ u[a] = s[i] /\ u[b] = s[j]
    <3>1. \A a, b \in 1..Len(InOrder(s, S)) : a < b =>
            \E i, j \in 1..Len(s) : i < j /\ InOrder(s, S)[a] = s[i] /\ InOrder(s, S)[b] = s[j]
      BY InOrderFacts
    <3> QED BY <1>2, <3>1
  <2> QED BY <1>1, <1>3, <2>1, <2>2
<1>5. PICK a \in 1..m : u[a] = s[k]
  <2>1. s[k] \in ToSet(u)
    BY <1>1, <1>4, ToSetFacts
  <2> QED BY <1>3, <2>1 DEF ToSet
<1>6. a = m
  <2> SUFFICES ASSUME a < m PROVE FALSE
    OBVIOUS
  <2>0. m \in 1..m
    OBVIOUS
  <2>1. PICK i \in 1..n, j \in 1..n : i < j /\ u[a] = s[i] /\ u[m] = s[j]
    BY <1>4, <2>0
  <2>2. i = k
    BY <1>1, <1>5, <2>1 DEF Distinct
  <2>3. s[j] \in S
    <3>1. u[m] \in ToSet(u)
      BY <1>3, <1>5 DEF ToSet
    <3> QED BY <1>4, <2>1, <3>1
  <2> QED BY <1>1, <2>1, <2>2, <2>3
<1> QED BY <1>2, <1>3, <1>5, <1>6 DEF Last

\* The positions of Front, and a sequence with its last element put back.
LEMMA FrontPositions ==
  ASSUME NEW A, NEW s \in Seq(A), s # <<>>
  PROVE  /\ Front(s) \in Seq(A) /\ Len(s) \in Nat /\ Len(s) >= 1
         /\ Len(Front(s)) = Len(s) - 1
         /\ \A i \in 1..(Len(s) - 1) : Front(s)[i] = s[i]
         /\ Last(s) = s[Len(s)]
<1>1. PICK n \in Nat : n = Len(s) /\ n >= 1
  OBVIOUS
<1>2. Front(s) = SubSeq(s, 1, n - 1) /\ n - 1 \in Int /\ n - 1 <= Len(s)
  BY <1>1 DEF Front
<1>3. /\ SubSeq(s, 1, n - 1) \in Seq(A)
      /\ Len(SubSeq(s, 1, n - 1)) = (IF n - 1 >= 1 THEN n - 1 ELSE 0)
      /\ \A i \in 1..(n - 1) : SubSeq(s, 1, n - 1)[i] = s[i]
  BY <1>2, PrefixFacts
<1> QED BY <1>1, <1>2, <1>3 DEF Last

\* A filter that all elements but the last pass.
LEMMA InOrderFront ==
  ASSUME NEW A, NEW s \in Seq(A), s # <<>>, NEW S, Last(s) \notin S,
         \A i \in 1..(Len(s) - 1) : s[i] \in S
  PROVE  InOrder(s, S) = Front(s)
<1>1. PICK n \in Nat : n = Len(s) /\ DOMAIN s = 1..n /\ n >= 1
  OBVIOUS
<1>2. PICK ss : ss = [q \in 1..n |-> IF s[q] \in S THEN <<s[q]>> ELSE <<>>]
  OBVIOUS
<1>3. InOrder(s, S) = FlattenSeq(ss)
  BY <1>1, <1>2, InOrderFlatten
<1>4. s[n] \notin S
  BY <1>1 DEF Last
<1>5. /\ ss \in [1..n -> Seq(A)]
      /\ \A q \in 1..(n - 1) : ss[q] = <<s[q]>> /\ Len(ss[q]) = 1 /\ ss[q][1] = s[q]
      /\ ss[n] = <<>> /\ Len(ss[n]) = 0
  <2>1. \A q \in 1..n : s[q] \in A
    BY <1>1
  <2>2. \A q \in 1..(n - 1) : q \in 1..n /\ s[q] \in S
    BY <1>1
  <2> QED BY <1>1, <1>2, <1>4, <2>1, <2>2
<1>5a. ss \in [1..n -> Seq(A)]
  BY <1>5
<1>6. FlattenSeq(ss) \in Seq(A) /\ \E off \in [0..n -> Nat] : Offsets(ss, n, off)
  BY <1>5a, FlattenPositions
<1>7. PICK off \in [0..n -> Nat] : Offsets(ss, n, off)
  BY <1>6
<1>8. /\ off[0] = 0 /\ Len(FlattenSeq(ss)) = off[n]
      /\ \A q \in 1..n : off[q] = off[q - 1] + Len(ss[q])
      /\ \A q \in 1..n : \A i \in 1..Len(ss[q]) : FlattenSeq(ss)[off[q - 1] + i] = ss[q][i]
  BY <1>7 DEF Offsets
<1>9. \A q \in 0..(n - 1) : off[q] = q
  <2> DEFINE B == {q \in 0..(n - 1) : off[q] # q}
  <2> SUFFICES ASSUME B # {} PROVE FALSE
    OBVIOUS
  <2>1. B \in SUBSET Nat
    OBVIOUS
  <2> HIDE DEF B
  <2>2. PICK q \in B : \A y \in B : q <= y
    BY <2>1, LeastNumber
  <2>3. q \in 0..(n - 1) /\ off[q] # q
    BY <2>2 DEF B
  <2>4. q \in 1..(n - 1) /\ q \in 1..n /\ q - 1 \in 0..(n - 1)
    BY <1>8, <2>3
  <2>5. q - 1 \notin B
    BY <2>2, <2>4
  <2>6. off[q - 1] = q - 1
    BY <2>4, <2>5 DEF B
  <2>7. off[q] = off[q - 1] + 1
    <3>1. Len(ss[q]) = 1
      BY <1>5, <2>4
    <3>2. off[q] = off[q - 1] + Len(ss[q])
      BY <1>8, <2>4
    <3> QED BY <3>1, <3>2
  <2> QED BY <2>3, <2>4, <2>6, <2>7
<1>10. Len(FlattenSeq(ss)) = n - 1
  <2>1. n \in 1..n /\ n - 1 \in 0..(n - 1)
    BY <1>1
  <2>2. off[n] = off[n - 1] + Len(ss[n])
    BY <1>8, <2>1
  <2>3. off[n - 1] = n - 1
    BY <1>9, <2>1
  <2> QED BY <1>5, <1>8, <2>2, <2>3
<1>11. ASSUME NEW q \in 1..(n - 1) PROVE FlattenSeq(ss)[q] = s[q]
  <2>1. q \in 1..n /\ q - 1 \in 0..(n - 1) /\ 1 \in 1..Len(ss[q])
    BY <1>5
  <2>2. FlattenSeq(ss)[off[q - 1] + 1] = ss[q][1]
    BY <1>8, <2>1
  <2>3. off[q - 1] + 1 = q
    <3>1. off[q - 1] = q - 1
      BY <1>9, <2>1
    <3> QED BY <3>1
  <2> QED BY <1>5, <2>2, <2>3
<1>12. PICK t \in Seq(A) : t = FlattenSeq(ss) /\ Len(t) = n - 1 /\ \A q \in 1..(n - 1) : t[q] = s[q]
  BY <1>6, <1>10, <1>11
<1>13. PICK v \in Seq(A) : v = Front(s) /\ Len(v) = n - 1 /\ \A q \in 1..(n - 1) : v[q] = s[q]
  BY <1>1, FrontPositions
<1>14. t = v
  BY <1>12, <1>13
<1> QED BY <1>3, <1>12, <1>13, <1>14

\* A sequence without repetitions is not longer than one that has its elements.
LEMMA NotLonger ==
  ASSUME NEW A, NEW s \in Seq(A), Distinct(s), NEW t \in Seq(A), ToSet(s) \subseteq ToSet(t)
  PROVE  Len(s) <= Len(t)
<1>1. PICK m \in Nat : m = Len(t) /\ DOMAIN t = 1..m
  OBVIOUS
<1>2. ToSet(t) = {t[i] : i \in 1..m}
  BY <1>1 DEF ToSet
<1> DEFINE f == [i \in 1..m |-> t[i]]
<1>3. f \in Surjection(1..m, ToSet(t))
  <2>1. f \in [1..m -> ToSet(t)]
    BY <1>2
  <2>2. \A y \in ToSet(t) : \E i \in 1..m : f[i] = y
    BY <1>2
  <2> HIDE DEF f
  <2> QED BY <2>1, <2>2 DEF Surjection
<1>4. IsFiniteSet(1..m) /\ Cardinality(1..m) = m
  BY FS_Interval
<1> HIDE DEF f
<1>5. IsFiniteSet(ToSet(t)) /\ Cardinality(ToSet(t)) <= m
  BY <1>3, <1>4, FS_Surjection
<1>6. Cardinality(ToSet(s)) <= Cardinality(ToSet(t)) /\ Cardinality(ToSet(s)) = Len(s)
  BY <1>5, FS_Subset, DistinctCardinality
<1>7. Cardinality(ToSet(t)) \in Nat /\ Len(s) \in Nat
  BY <1>5, FS_CardinalityType
<1> QED BY <1>1, <1>5, <1>6, <1>7

\* The elements of a sequence are finitely many.
LEMMA ToSetFinite ==
  ASSUME NEW A, NEW s \in Seq(A), NEW f
  PROVE  IsFiniteSet({f[x] : x \in ToSet(s)})
<1>1. PICK m \in Nat : m = Len(s) /\ DOMAIN s = 1..m
  OBVIOUS
<1>2. PICK g : g = [i \in 1..m |-> f[s[i]]]
  OBVIOUS
<1>3. g \in Surjection(1..m, {f[x] : x \in ToSet(s)})
  <2>1. ToSet(s) = {s[i] : i \in 1..m}
    BY <1>1 DEF ToSet
  <2>2. g \in [1..m -> {f[x] : x \in ToSet(s)}]
    BY <1>2, <2>1
  <2>3. \A y \in {f[x] : x \in ToSet(s)} : \E i \in 1..m : g[i] = y
    BY <1>2, <2>1
  <2> QED BY <2>2, <2>3 DEF Surjection
<1>4. IsFiniteSet(1..m)
  BY FS_Interval
<1> QED BY <1>3, <1>4, FS_Surjection
=============================================================================
