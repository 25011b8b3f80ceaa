-------------------------- MODULE RadixTreeProofs --------------------------
(***************************************************************************)
(* Facts about the operations of RadixTree, for every page capacity and    *)
(* every set of tokens: each of them keeps a tree a tree, and does to the  *)
(* sequence it is called for, and to no other, what it promises.           *)
(***************************************************************************)
EXTENDS RadixTree, QueueFacts, SequenceTheorems

-----------------------------------------------------------------------------
(* Sequences of tokens.                                                    *)

Texts == Seq(Tokens)
\* The first n tokens, and the tokens between two offsets.
Take(s, n) == SubSeq(s, 1, n)
Slice(s, i, j) == SubSeq(s, i + 1, j)

\* The first n tokens, and the others.
LEMMA TakeFacts ==
  ASSUME NEW s \in Texts, NEW n \in Nat, n <= Len(s)
  PROVE  /\ SubSeq(s, 1, n) \in Texts /\ Len(SubSeq(s, 1, n)) = n
         /\ \A i \in 1..n : SubSeq(s, 1, n)[i] = s[i]
<1>1. PICK l \in Nat : l = Len(s) /\ DOMAIN s = 1..l /\ \A i \in 1..l : s[i] \in Tokens
  BY DEF Texts
<1>2. \A i \in 1..n : s[i] \in Tokens
  BY <1>1
<1>3. /\ SubSeq(s, 1, n) \in Seq(Tokens)
      /\ Len(SubSeq(s, 1, n)) = IF 1 <= n THEN n - 1 + 1 ELSE 0
      /\ \A i \in 1..(n - 1 + 1) : SubSeq(s, 1, n)[i] = s[1 + i - 1]
  BY <1>2, SubSeqProperties
<1>4. \A i \in 1..n : SubSeq(s, 1, n)[i] = s[i]
  BY <1>3
<1> QED BY <1>3, <1>4 DEF Texts

\* The tokens after the first n.
LEMMA DropFacts ==
  ASSUME NEW s \in Texts, NEW n \in Nat, NEW l \in Nat, l = Len(s), n <= l
  PROVE  /\ SubSeq(s, n + 1, l) \in Texts /\ Len(SubSeq(s, n + 1, l)) = l - n
         /\ \A i \in 1..(l - n) : SubSeq(s, n + 1, l)[i] = s[n + i]
<1>1. DOMAIN s = 1..l /\ \A i \in 1..l : s[i] \in Tokens
  BY DEF Texts
<1>2. \A i \in (n + 1)..l : s[i] \in Tokens
  BY <1>1
<1>3. /\ SubSeq(s, n + 1, l) \in Seq(Tokens)
      /\ Len(SubSeq(s, n + 1, l)) = IF n + 1 <= l THEN l - (n + 1) + 1 ELSE 0
      /\ \A i \in 1..(l - (n + 1) + 1) : SubSeq(s, n + 1, l)[i] = s[(n + 1) + i - 1]
  BY <1>2, SubSeqProperties
<1>4. \A i \in 1..(l - n) : SubSeq(s, n + 1, l)[i] = s[n + i]
  <2> SUFFICES ASSUME NEW i \in 1..(l - n) PROVE SubSeq(s, n + 1, l)[i] = s[n + i]
    OBVIOUS
  <2>1. i \in 1..(l - (n + 1) + 1) /\ (n + 1) + i - 1 = n + i
    OBVIOUS
  <2> QED BY <1>3, <2>1
<1>5. Len(SubSeq(s, n + 1, l)) = l - n
  BY <1>3
<1> QED BY <1>3, <1>4, <1>5 DEF Texts

\* Both parts together are the sequence.
LEMMA TakeDrop ==
  ASSUME NEW s \in Texts, NEW n \in Nat, n <= Len(s)
  PROVE  SubSeq(s, 1, n) \o SubSeq(s, n + 1, Len(s)) = s
<1>1. PICK l \in Nat : l = Len(s)
  BY DEF Texts
<1>2. 1 \in 1..(Len(s) + 1) /\ n \in (1 - 1)..Len(s) /\ l \in n..Len(s)
  BY <1>1
<1>3. SubSeq(s, 1, n) \o SubSeq(s, n + 1, l) = SubSeq(s, 1, l)
  BY <1>2, ConcatAdjacentSubSeq DEF Texts
<1> QED BY <1>1, <1>3, SubSeqFull DEF Texts

\* Concatenation.
LEMMA JoinFacts ==
  ASSUME NEW a \in Texts, NEW b \in Texts
  PROVE  /\ a \o b \in Texts /\ Len(a \o b) = Len(a) + Len(b)
         /\ Len(a) \in Nat /\ Len(b) \in Nat
         /\ \A i \in 1..Len(a) : (a \o b)[i] = a[i]
<1>1. Len(a) \in Nat /\ Len(b) \in Nat
  BY DEF Texts
<1>2. /\ a \o b \in Seq(Tokens) /\ Len(a \o b) = Len(a) + Len(b)
      /\ \A i \in 1..(Len(a) + Len(b)) : (a \o b)[i] = IF i <= Len(a) THEN a[i] ELSE b[i - Len(a)]
  BY ConcatProperties DEF Texts
<1>3. \A i \in 1..Len(a) : (a \o b)[i] = a[i]
  BY <1>1, <1>2
<1> QED BY <1>1, <1>2, <1>3 DEF Texts

Associates(a, b, c) == (a \o b) \o c = a \o (b \o c)
\* It is associative.
LEMMA JoinAssociative ==
  ASSUME NEW a \in Texts, NEW b \in Texts, NEW c \in Texts
  PROVE  Associates(a, b, c)
BY ConcatAssociative DEF Texts, Associates

\* The empty sequence is neutral.
LEMMA JoinEmpty ==
  ASSUME NEW a \in Texts
  PROVE  a \o <<>> = a /\ <<>> \o a = a /\ <<>> \in Texts
BY ConcatEmptySeq DEF Texts

\* Two sequences of tokens with the same tokens are the same.
LEMMA SameText ==
  ASSUME NEW a \in Texts, NEW b \in Texts, NEW n \in Nat, n = Len(a), n = Len(b),
         \A i \in 1..n : a[i] = b[i]
  PROVE  a = b
BY SeqEqual DEF Texts

\* The beginning of a concatenation.
LEMMA TakeOfJoin ==
  ASSUME NEW a \in Texts, NEW b \in Texts, NEW n \in Nat, n <= Len(a)
  PROVE  SubSeq(a \o b, 1, n) = SubSeq(a, 1, n)
<1>1. PICK c \in Texts : c = a \o b /\ n <= Len(c) /\ \A i \in 1..Len(a) : c[i] = a[i]
  <2>1. /\ a \o b \in Texts /\ Len(a \o b) = Len(a) + Len(b)
        /\ Len(a) \in Nat /\ Len(b) \in Nat
        /\ \A i \in 1..Len(a) : (a \o b)[i] = a[i]
    BY JoinFacts
  <2>2. n <= Len(a \o b)
    BY <2>1
  <2> QED BY <2>1, <2>2
<1>2. /\ SubSeq(a, 1, n) \in Texts /\ Len(SubSeq(a, 1, n)) = n
      /\ \A i \in 1..n : SubSeq(a, 1, n)[i] = a[i]
  BY TakeFacts
<1>3. /\ SubSeq(c, 1, n) \in Texts /\ Len(SubSeq(c, 1, n)) = n
      /\ \A i \in 1..n : SubSeq(c, 1, n)[i] = c[i]
  BY <1>1, TakeFacts
<1>4. \A i \in 1..n : SubSeq(c, 1, n)[i] = SubSeq(a, 1, n)[i]
  <2>1. Len(a) \in Nat
    BY DEF Texts
  <2> QED BY <1>1, <1>2, <1>3, <2>1
<1>5. SubSeq(c, 1, n) = SubSeq(a, 1, n)
  BY <1>2, <1>3, <1>4, SameText
<1> QED BY <1>1, <1>5

\* The beginning of a beginning.
LEMMA TakeOfTake ==
  ASSUME NEW a \in Texts, NEW n \in Nat, NEW m \in Nat, n <= m, m <= Len(a)
  PROVE  SubSeq(SubSeq(a, 1, m), 1, n) = SubSeq(a, 1, n)
<1>1. Len(a) \in Nat
  BY DEF Texts
<1>2. PICK x \in Texts, y \in Texts : x = SubSeq(a, 1, m) /\ Len(x) = m /\ y = SubSeq(a, m + 1, Len(a))
  <2>1. SubSeq(a, 1, m) \in Texts /\ Len(SubSeq(a, 1, m)) = m
    BY TakeFacts
  <2>2. SubSeq(a, m + 1, Len(a)) \in Texts
    BY <1>1, DropFacts
  <2> QED BY <2>1, <2>2
<1>3. a = x \o y
  BY <1>2, TakeDrop
<1>4. SubSeq(x \o y, 1, n) = SubSeq(x, 1, n)
  BY <1>2, TakeOfJoin, ZenonT(40)
<1> QED BY <1>2, <1>3, <1>4

\* All of it.
LEMMA TakeAll ==
  ASSUME NEW a \in Texts
  PROVE  SubSeq(a, 1, Len(a)) = a
BY SubSeqFull DEF Texts

\* A beginning that goes beyond the first part.
LEMMA TakeBeyond ==
  ASSUME NEW a \in Texts, NEW b \in Texts, NEW n \in Nat, NEW k \in Nat, k <= Len(b), n = Len(a) + k
  PROVE  SubSeq(a \o b, 1, n) = a \o SubSeq(b, 1, k)
<1>1. Len(b) \in Nat /\ Len(a) \in Nat
  BY DEF Texts
<1>2. PICK x \in Texts, y \in Texts : x = SubSeq(b, 1, k) /\ Len(x) = k /\ y = SubSeq(b, k + 1, Len(b))
  <2>1. SubSeq(b, 1, k) \in Texts /\ Len(SubSeq(b, 1, k)) = k
    BY TakeFacts
  <2>2. SubSeq(b, k + 1, Len(b)) \in Texts
    BY <1>1, DropFacts
  <2> QED BY <2>1, <2>2
<1>3. b = x \o y
  BY <1>2, TakeDrop
<1>4. (a \o x) \o y = a \o (x \o y)
  <2>1. Associates(a, x, y)
    BY JoinAssociative
  <2> QED BY <2>1 DEF Associates
<1>5. PICK c \in Texts : c = a \o x /\ Len(c) = n
  <2>1. a \o x \in Texts /\ Len(a \o x) = Len(a) + Len(x)
    BY JoinFacts
  <2> QED BY <1>2, <2>1
<1>6. SubSeq(c \o y, 1, n) = SubSeq(c, 1, n)
  BY <1>5, TakeOfJoin
<1>7. SubSeq(c, 1, n) = c
  BY <1>5, TakeAll
<1> QED BY <1>2, <1>3, <1>4, <1>5, <1>6, <1>7

\* The tokens from i to j and those from j to k.
LEMMA Adjacent ==
  ASSUME NEW s \in Texts, NEW i \in Nat, NEW j \in Nat, NEW k \in Nat, i <= j, j <= k, k <= Len(s)
  PROVE  /\ Slice(s, i, j) \o Slice(s, j, k) = Slice(s, i, k)
         /\ Slice(s, i, j) \in Texts /\ Len(Slice(s, i, j)) = j - i
<1>1. PICK l \in Nat : l = Len(s) /\ \A x \in 1..l : s[x] \in Tokens
  BY DEF Texts
<1>2. i + 1 \in 1..(l + 1) /\ j \in ((i + 1) - 1)..l /\ k \in j..l
  BY <1>1
<1>3. SubSeq(s, i + 1, j) \o SubSeq(s, j + 1, k) = SubSeq(s, i + 1, k)
  BY <1>1, <1>2, ConcatAdjacentSubSeq DEF Texts
<1>4. \A x \in (i + 1)..j : s[x] \in Tokens
  BY <1>1
<1>5. SubSeq(s, i + 1, j) \in Seq(Tokens) /\ Len(SubSeq(s, i + 1, j)) = IF i + 1 <= j THEN j - (i + 1) + 1 ELSE 0
  BY <1>4, SubSeqProperties
<1>6. Len(SubSeq(s, i + 1, j)) = j - i
  BY <1>5
<1> QED BY <1>3, <1>5, <1>6 DEF Texts, Slice

-----------------------------------------------------------------------------
(* Numbers.                                                                *)

\* The smallest of a set of numbers.
LEMMA MinFacts ==
  ASSUME NEW S \in SUBSET Nat, S # {}
  PROVE  Min(S) \in S /\ \A y \in S : Min(S) <= y
<1>1. \E x \in S : \A y \in S : x <= y
  BY LeastNumber
<1> QED BY <1>1, Zenon DEF Min

\* The smaller of two numbers.
LEMMA MinPair ==
  ASSUME NEW a \in Nat, NEW b \in Nat
  PROVE  Min({a, b}) = IF a <= b THEN a ELSE b
<1>1. PICK m \in Nat : m = Min({a, b}) /\ m \in {a, b} /\ \A y \in {a, b} : m <= y
  <2>1. {a, b} \in SUBSET Nat /\ {a, b} # {}
    OBVIOUS
  <2>2. Min({a, b}) \in {a, b} /\ \A y \in {a, b} : Min({a, b}) <= y
    BY <2>1, MinFacts
  <2> QED BY <2>1, <2>2
<1> QED BY <1>1

-----------------------------------------------------------------------------
(* Trees.                                                                  *)

Page == [parent : Nat, tokens : Texts, seq_ids : SUBSET Int]

\* The pages: the root is empty, the others have tokens, not more than fit, and a
\* parent.
PagesOK(t) ==
  /\ IsFiniteSet(DOMAIN t.pages) /\ DOMAIN t.pages \subseteq Nat
  /\ t.pages \in [DOMAIN t.pages -> Page]
  /\ root \in DOMAIN t.pages /\ t.pages[root].tokens = <<>>
  /\ \A q \in DOMAIN t.pages \ {root} :
       t.pages[q].parent \in DOMAIN t.pages /\ Len(t.pages[q].tokens) \in 1..PageCapacity

\* A sequence ends with a page, which lists it.
SeqsOK(t) ==
  /\ t.seq2page \in [DOMAIN t.seq2page -> DOMAIN t.pages] /\ DOMAIN t.seq2page \subseteq Int
  /\ \A q \in DOMAIN t.pages : t.pages[q].seq_ids = {s \in DOMAIN t.seq2page : t.seq2page[s] = q}

\* The tokens on the way to every page.
PathsOK(t, P) ==
  /\ P \in [DOMAIN t.pages -> Texts] /\ P[root] = <<>>
  /\ \A q \in DOMAIN t.pages \ {root} : P[q] = P[t.pages[q].parent] \o t.pages[q].tokens

Tree(t, P) == PagesOK(t) /\ SeqsOK(t) /\ PathsOK(t, P)

\* A page that is allocated is not in use.
LEMMA AllocateFree ==
  ASSUME NEW t, PagesOK(t)
  PROVE  Allocate(t) \in Nat \ {0} /\ Allocate(t) \notin DOMAIN t.pages
<1> DEFINE D == DOMAIN t.pages
           n == Cardinality(D)
<1>1. IsFiniteSet(D) /\ n \in Nat
  BY FS_CardinalityType DEF PagesOK
<1>2. IsFiniteSet(1..(n + 1)) /\ Cardinality(1..(n + 1)) = n + 1
  <2> HIDE DEF n
  <2>1. n + 1 \in Nat
    BY <1>1
  <2>2. PICK k \in Nat : k = n + 1
    BY <2>1
  <2>3. IsFiniteSet(1..k) /\ Cardinality(1..k) = IF 1 > k THEN 0 ELSE k - 1 + 1
    BY FS_Interval
  <2> QED BY <1>1, <2>2, <2>3
<1>3. (1..(n + 1)) \ D # {}
  <2> SUFFICES ASSUME 1..(n + 1) \subseteq D PROVE FALSE
    OBVIOUS
  <2>1. Cardinality(1..(n + 1)) <= n
    BY <1>1, FS_Subset
  <2> QED BY <1>1, <1>2, <2>1
<1>4. (1..(n + 1)) \ D \in SUBSET Nat
  BY <1>1
<1>5. Allocate(t) \in (1..(n + 1)) \ D
  BY <1>3, <1>4, MinFacts DEF Allocate
<1> QED BY <1>1, <1>5

\* The pages of a tree, field by field.
LEMMA PageTypes ==
  ASSUME NEW t, PagesOK(t), NEW q \in DOMAIN t.pages
  PROVE  /\ q \in Nat /\ t.pages[q] \in Page
         /\ t.pages[q].tokens \in Texts /\ t.pages[q].parent \in Nat /\ Length(t, q) \in Nat
         /\ Length(t, q) = Len(t.pages[q].tokens)
         /\ q # root => /\ t.pages[q].parent \in DOMAIN t.pages
                        /\ Length(t, q) \in 1..PageCapacity
         /\ q = root => Length(t, q) = 0
BY DEF PagesOK, Page, Length, Texts

\* The tokens of a page follow those of its parent, and lengthen the way.
LEMMA PathTypes ==
  ASSUME NEW t, NEW P, PagesOK(t), PathsOK(t, P), NEW q \in DOMAIN t.pages \ {root}
  PROVE  /\ P[q] \in Texts /\ P[t.pages[q].parent] \in Texts /\ t.pages[q].tokens \in Texts
         /\ P[q] = P[t.pages[q].parent] \o t.pages[q].tokens
         /\ Len(P[q]) = Len(P[t.pages[q].parent]) + Length(t, q)
         /\ Len(P[q]) \in Nat /\ Len(P[t.pages[q].parent]) \in Nat
         /\ Len(P[t.pages[q].parent]) < Len(P[q])
<1>1. /\ t.pages[q].tokens \in Texts /\ t.pages[q].parent \in DOMAIN t.pages
      /\ Length(t, q) = Len(t.pages[q].tokens) /\ Length(t, q) \in 1..PageCapacity
  BY PageTypes
<1>2. P[q] \in Texts /\ P[t.pages[q].parent] \in Texts
  BY <1>1 DEF PathsOK
<1>3. P[q] = P[t.pages[q].parent] \o t.pages[q].tokens
  BY DEF PathsOK
<1>4. PICK a \in Texts, b \in Texts : a = P[t.pages[q].parent] /\ b = t.pages[q].tokens
  BY <1>1, <1>2, Zenon
<1>5. Len(a \o b) = Len(a) + Len(b) /\ Len(a) \in Nat /\ Len(b) \in Nat
  BY JoinFacts
<1>6. Len(b) >= 1
  BY <1>1, <1>4, CapacityAssumption
<1>7. P[q] = a \o b /\ Length(t, q) = Len(b)
  BY <1>1, <1>3, <1>4
<1>8. Len(P[q]) = Len(a) + Len(b) /\ Len(P[q]) \in Nat
  BY <1>5, <1>7
<1>9. Len(a) < Len(P[q])
  BY <1>5, <1>6, <1>8
<1> QED BY <1>1, <1>2, <1>3, <1>4, <1>5, <1>7, <1>8, <1>9
\* Of any set of pages, one is there without its parent.
LEMMA Topmost ==
  ASSUME NEW t, NEW P, PagesOK(t), PathsOK(t, P), NEW B \in SUBSET DOMAIN t.pages, B # {}
  PROVE  \E x \in B : x # root => t.pages[x].parent \in DOMAIN t.pages \ B
<1> DEFINE L == {Len(P[x]) : x \in B}
<1>1. \A x \in DOMAIN t.pages : Len(P[x]) \in Nat
  BY DEF PathsOK, Texts
<1>2. L \in SUBSET Nat /\ L # {}
  BY <1>1
<1>3. PICK l \in L : \A y \in L : l <= y
  <2> HIDE DEF L
  <2> QED BY <1>2, LeastNumber
<1>4. PICK x \in B : l = Len(P[x])
  BY <1>3
<1>5. \A y \in B : l <= Len(P[y])
  BY <1>3
<1>6. CASE x = root
  BY <1>6
<1>7. CASE x # root
  <2>1. Len(P[t.pages[x].parent]) < Len(P[x]) /\ Len(P[t.pages[x].parent]) \in Nat /\ Len(P[x]) \in Nat
    BY <1>7, PathTypes
  <2>2. t.pages[x].parent \in DOMAIN t.pages
    BY <1>7, PageTypes
  <2>3. t.pages[x].parent \notin B
    <3> SUFFICES ASSUME t.pages[x].parent \in B PROVE FALSE
      OBVIOUS
    <3>1. l <= Len(P[t.pages[x].parent])
      BY <1>5
    <3> QED BY <1>4, <2>1, <3>1
  <2> QED BY <2>2, <2>3
<1> QED BY <1>6, <1>7

\* PathTokens computes the tokens on the way to a page.
LEMMA PathTokensFacts ==
  ASSUME NEW t, NEW P, PagesOK(t), PathsOK(t, P), NEW q \in DOMAIN t.pages
  PROVE  PathTokens(t, q) = P[q]
<1> DEFINE D == DOMAIN t.pages
           Down(f) == f = [x \in D |-> IF x = root THEN <<>> ELSE f[t.pages[x].parent] \o t.pages[x].tokens]
           g == CHOOSE f : Down(f)
<1>1. PathTokens(t, q) = g[q]
  BY Zenon DEF PathTokens
<1>2. Down(P)
  BY DEF PathsOK
<1>3. Down(g)
  BY <1>2, Zenon
<1>4. \A x \in D : g[x] = IF x = root THEN <<>> ELSE g[t.pages[x].parent] \o t.pages[x].tokens
  <2> HIDE DEF g
  <2> QED BY <1>3
<1> HIDE DEF g
<1> DEFINE B == {x \in D : g[x] # P[x]}
<1>5. B = {}
  <2> SUFFICES ASSUME B # {} PROVE FALSE
    OBVIOUS
  <2>1. PICK x \in B : x # root => t.pages[x].parent \in D \ B
    <3>1. B \in SUBSET D
      OBVIOUS
    <3> HIDE DEF B
    <3> QED BY <3>1, Topmost
  <2>2. CASE x = root
    BY <1>4, <2>1, <2>2 DEF PathsOK
  <2>3. CASE x # root
    <3>1. g[t.pages[x].parent] = P[t.pages[x].parent]
      BY <2>1, <2>3
    <3>2. P[x] = P[t.pages[x].parent] \o t.pages[x].tokens
      BY <2>3 DEF PathsOK
    <3> QED BY <1>4, <2>1, <2>3, <3>1, <3>2
  <2> QED BY <2>2, <2>3
<1> QED BY <1>1, <1>5

\* The sequence that is the beginning of another.
Begins(a, b) == Len(a) <= Len(b) /\ SubSeq(b, 1, Len(a)) = a

\* The local recursive function of Ancestors exists.
LEMMA AncestorsRec ==
  ASSUME NEW t, NEW P, PagesOK(t), PathsOK(t, P), NEW q \in DOMAIN t.pages
  PROVE  \E up : /\ up = [x \in DOMAIN t.pages |-> IF x = root THEN <<>> ELSE <<x>> \o up[t.pages[x].parent]]
                 /\ Ancestors(t, q) = up[q]
<1> DEFINE D == DOMAIN t.pages
           Body(f, x) == IF x = root THEN <<>> ELSE <<x>> \o f[t.pages[x].parent]
           Up(f) == f = [x \in D |-> Body(f, x)]
           Upto(k, f) == f \in [D -> {f[x] : x \in D}] /\ \A x \in D : Len(P[x]) <= k => f[x] = Body(f, x)
<1>1. \A x \in D : Len(P[x]) \in Nat
  BY DEF PathsOK, Texts
<1>2. \A x \in D \ {root} : t.pages[x].parent \in D /\ Len(P[t.pages[x].parent]) < Len(P[x])
  BY PathTypes, PageTypes
<1> DEFINE Bad == {k \in Nat : ~\E f : Upto(k, f)}
<1>3. Bad = {}
  <2> SUFFICES ASSUME Bad # {} PROVE FALSE
    OBVIOUS
  <2>1. PICK k \in Bad : \A y \in Bad : k <= y
    <3>1. Bad \in SUBSET Nat
      OBVIOUS
    <3> HIDE DEF Bad
    <3> QED BY <3>1, LeastNumber
  <2>2. \E f : f \in [D -> {f[x] : x \in D}] /\ \A x \in D : Len(P[x]) < k => f[x] = Body(f, x)
    <3>1. CASE k = 0
      <4> DEFINE f == [x \in D |-> <<>>]
      <4>1. f \in [D -> {f[x] : x \in D}]
        OBVIOUS
      <4>2. \A x \in D : ~(Len(P[x]) < k)
        BY <1>1, <3>1
      <4> HIDE DEF f
      <4> QED BY <4>1, <4>2
    <3>2. CASE k # 0
      <4>1. k - 1 \in Nat /\ ~(k <= k - 1)
        BY <3>2
      <4>2. PICK f : Upto(k - 1, f)
        BY <2>1, <4>1
      <4>3. \A x \in D : Len(P[x]) < k => Len(P[x]) <= k - 1
        BY <1>1, <4>1
      <4> QED BY <4>2, <4>3
    <3> QED BY <3>1, <3>2
  <2>3. PICK f : f \in [D -> {f[x] : x \in D}] /\ \A x \in D : Len(P[x]) < k => f[x] = Body(f, x)
    BY <2>2
  <2> DEFINE g == [x \in D |-> Body(f, x)]
  <2>4. \A x \in D : Len(P[x]) < k => g[x] = f[x]
    BY <2>3
  <2>5. \A x \in D : g[x] = Body(f, x)
    OBVIOUS
  <2>6. g \in [D -> {g[x] : x \in D}]
    OBVIOUS
  <2> HIDE DEF g
  <2>7. ASSUME NEW x \in D, Len(P[x]) <= k
        PROVE  g[x] = Body(g, x)
    <3>1. CASE x = root
      BY <2>5, <3>1
    <3>2. CASE x # root
      <4>1. t.pages[x].parent \in D /\ Len(P[t.pages[x].parent]) < k
        BY <1>1, <1>2, <2>7, <3>2
      <4>2. g[t.pages[x].parent] = f[t.pages[x].parent]
        BY <2>4, <4>1
      <4> QED BY <2>5, <3>2, <4>2
    <3> QED BY <3>1, <3>2
  <2> QED BY <2>1, <2>6, <2>7
<1>4. PICK n \in Nat : \A x \in D : Len(P[x]) <= n
  <2> DEFINE Unbounded == {T \in SUBSET D : ~\E n \in Nat : \A x \in T : Len(P[x]) <= n}
  <2>1. Unbounded = {}
    <3> SUFFICES ASSUME Unbounded # {} PROVE FALSE
      OBVIOUS
    <3>1. PICK T \in Unbounded : \A x \in T : T \ {x} \notin Unbounded
      <4>1. Unbounded \in SUBSET (SUBSET D) /\ IsFiniteSet(D)
        BY DEF PagesOK
      <4> HIDE DEF Unbounded, D
      <4> QED BY <4>1, SmallestSubset
    <3>2. T # {}
      <4>1. 0 \in Nat
        OBVIOUS
      <4> QED BY <3>1, <4>1
    <3>3. PICK x \in T : TRUE
      BY <3>2
    <3>4. PICK m \in Nat : \A y \in T \ {x} : Len(P[y]) <= m
      BY <3>1, <3>3
    <3>5. PICK l \in Nat : l = Len(P[x])
      BY <1>1, <3>1, <3>3
    <3>6. \A y \in T : Len(P[y]) <= m + l
      BY <1>1, <3>1, <3>4, <3>5
    <3>7. m + l \in Nat
      OBVIOUS
    <3> QED BY <3>1, <3>6, <3>7
  <2>2. D \notin Unbounded
    BY <2>1
  <2> QED BY <2>2
<1>5. PICK f : Upto(n, f)
  BY <1>3
<1>6. Up(f)
  BY <1>4, <1>5
<1>7. Ancestors(t, q) = (CHOOSE u : Up(u))[q]
  BY Zenon DEF Ancestors
<1>8. Up(CHOOSE u : Up(u))
  BY <1>6, Zenon
<1> QED BY <1>7, <1>8, Zenon

\* A sequence begins with itself, and what begins a sequence begins a longer one.
LEMMA BeginsFacts ==
  ASSUME NEW a \in Texts, NEW b \in Texts
  PROVE  /\ Begins(a, a) /\ Begins(a, a \o b)
         /\ \A c \in Texts : Begins(c, a) => Begins(c, a \o b)
<1>1. Begins(a, a)
  <2>1. Len(a) \in Nat
    BY DEF Texts
  <2> QED BY <2>1, TakeAll DEF Begins
<1>2. ASSUME NEW c \in Texts, Begins(c, a)
      PROVE  Begins(c, a \o b)
  <2>1. Len(a \o b) = Len(a) + Len(b) /\ Len(a) \in Nat /\ Len(b) \in Nat
    BY JoinFacts
  <2>2. PICK n \in Nat : n = Len(c) /\ n <= Len(a)
    <3>1. Len(c) \in Nat
      BY DEF Texts
    <3>2. Len(c) <= Len(a)
      BY <1>2 DEF Begins
    <3> QED BY <3>1, <3>2
  <2>3. SubSeq(a \o b, 1, n) = SubSeq(a, 1, n)
    BY <2>2, TakeOfJoin
  <2>4. n <= Len(a \o b)
    BY <2>1, <2>2
  <2> QED BY <1>2, <2>2, <2>3, <2>4 DEF Begins
<1> QED BY <1>1, <1>2

\* A sequence with an element in front.
LEMMA InFront ==
  ASSUME NEW S, NEW u \in Seq(S), NEW x \in S, NEW n \in Nat, n = Len(u)
  PROVE  /\ <<x>> \o u \in Seq(S) /\ Len(<<x>> \o u) = n + 1
         /\ (<<x>> \o u)[1] = x /\ \A i \in 1..n : (<<x>> \o u)[i + 1] = u[i]
<1>1. <<x>> \in Seq(S) /\ Len(<<x>>) = 1 /\ <<x>>[1] = x
  OBVIOUS
<1>2. PICK v \in Seq(S) : v = <<x>> /\ Len(v) = 1 /\ v[1] = x
  BY <1>1
<1>3. /\ v \o u \in Seq(S) /\ Len(v \o u) = 1 + n
      /\ \A i \in 1..(1 + n) : (v \o u)[i] = IF i <= 1 THEN v[i] ELSE u[i - 1]
  BY <1>2, ConcatProperties
<1>4. (v \o u)[1] = x
  BY <1>2, <1>3
<1>5. ASSUME NEW i \in 1..n
      PROVE  (v \o u)[i + 1] = u[i]
  <2>1. i + 1 \in 1..(1 + n) /\ ~(i + 1 <= 1) /\ (i + 1) - 1 = i
    OBVIOUS
  <2> QED BY <1>3, <2>1
<1> QED BY <1>2, <1>3, <1>4, <1>5

\* The pages on a way: every one begins the way, together they cover it, and
\* they come in the order from its end to its beginning.
Way(t, P, q, chain) ==
  /\ chain \in Seq(DOMAIN t.pages \ {root})
  /\ \A i \in 1..Len(chain) : Begins(P[chain[i]], P[q])
  /\ \A off \in 1..Len(P[q]) : \E i \in 1..Len(chain) :
       Len(P[chain[i]]) - Length(t, chain[i]) < off /\ off <= Len(P[chain[i]])
  /\ \A i, j \in 1..Len(chain) : i < j => Len(P[chain[j]]) < Len(P[chain[i]])

\* The way to a page continues the way to its parent.
LEMMA WayDown ==
  ASSUME NEW t, NEW P, PagesOK(t), PathsOK(t, P), NEW x \in DOMAIN t.pages \ {root}, NEW u,
         Way(t, P, t.pages[x].parent, u)
  PROVE  Way(t, P, x, <<x>> \o u)
<1> DEFINE p == t.pages[x].parent
           S == DOMAIN t.pages \ {root}
           v == <<x>> \o u
<1>1. /\ P[x] \in Texts /\ P[p] \in Texts /\ t.pages[x].tokens \in Texts
      /\ P[x] = P[p] \o t.pages[x].tokens
      /\ Len(P[x]) = Len(P[p]) + Length(t, x)
      /\ Len(P[x]) \in Nat /\ Len(P[p]) \in Nat /\ Len(P[p]) < Len(P[x])
  BY PathTypes
<1>0. /\ Len(P[x]) = Len(P[p]) + Length(t, x)
      /\ Len(P[x]) \in Nat /\ Len(P[p]) \in Nat /\ Len(P[p]) < Len(P[x])
  BY <1>1
<1>2. PICK n \in Nat : n = Len(u) /\ u \in Seq(S)
  BY DEF Way
<1>3. /\ v \in Seq(S) /\ Len(v) = n + 1
      /\ v[1] = x /\ \A i \in 1..n : v[i + 1] = u[i]
  <2>1. x \in S
    OBVIOUS
  <2> HIDE DEF S
  <2> QED BY <1>2, <2>1, InFront
<1>4. ASSUME NEW i \in 1..(n + 1)
      PROVE  i = 1 \/ (i - 1 \in 1..n /\ v[i] = u[i - 1])
  <2> HIDE DEF v
  <2>1. i # 1 => i - 1 \in 1..n /\ (i - 1) + 1 = i
    OBVIOUS
  <2> QED BY <1>3, <2>1
<1>5. \A i \in 1..n : u[i] \in S /\ P[u[i]] \in Texts /\ Len(P[u[i]]) \in Nat
  BY <1>2 DEF PathsOK, Texts
<1> HIDE DEF v
<1>6. ASSUME NEW i \in 1..(n + 1)
      PROVE  Begins(P[v[i]], P[x])
  <2>1. CASE i = 1
    BY <1>1, <1>3, <2>1, BeginsFacts
  <2>2. CASE i # 1
    <3>1. i - 1 \in 1..n /\ v[i] = u[i - 1]
      BY <1>4, <2>2
    <3>2. PICK a : a = u[i - 1] /\ P[a] \in Texts /\ Begins(P[a], P[p])
      BY <1>2, <1>5, <3>1 DEF Way
    <3>3. PICK w \in Texts, b \in Texts, c \in Texts : w = P[p] /\ b = t.pages[x].tokens /\ c = P[a]
      BY <1>1, <3>2, Zenon
    <3>4. Begins(c, w \o b)
      BY <3>2, <3>3, BeginsFacts
    <3> QED BY <1>1, <3>1, <3>2, <3>3, <3>4
  <2> QED BY <2>1, <2>2
<1>7. ASSUME NEW off \in 1..Len(P[x])
      PROVE  \E i \in 1..(n + 1) : Len(P[v[i]]) - Length(t, v[i]) < off /\ off <= Len(P[v[i]])
  <2>1. CASE off <= Len(P[p])
    <3>1. off \in 1..Len(P[p])
      BY <1>0, <2>1
    <3>2. PICK j \in 1..n : Len(P[u[j]]) - Length(t, u[j]) < off /\ off <= Len(P[u[j]])
      BY <1>2, <3>1 DEF Way
    <3>3. j + 1 \in 1..(n + 1) /\ v[j + 1] = u[j]
      BY <1>3
    <3> QED BY <3>2, <3>3
  <2>2. CASE off > Len(P[p])
    <3>1. 1 \in 1..(n + 1)
      OBVIOUS
    <3>2. Length(t, x) \in Nat
      BY PageTypes
    <3>3. Len(P[x]) - Length(t, x) < off /\ off <= Len(P[x])
      BY <1>0, <2>2, <3>2
    <3> QED BY <1>3, <3>1, <3>3
  <2> QED BY <1>0, <2>1, <2>2
<1>8. ASSUME NEW i \in 1..(n + 1), NEW j \in 1..(n + 1), i < j
      PROVE  Len(P[v[j]]) < Len(P[v[i]])
  <2>1. j # 1
    BY <1>8
  <2>2. j - 1 \in 1..n /\ v[j] = u[j - 1]
    BY <1>4, <2>1
  <2>3. CASE i = 1
    <3>1. Begins(P[u[j - 1]], P[p])
      BY <1>2, <2>2 DEF Way
    <3>2. Len(P[u[j - 1]]) <= Len(P[p]) /\ Len(P[u[j - 1]]) \in Nat
      BY <1>5, <2>2, <3>1 DEF Begins
    <3>3. Len(P[u[j - 1]]) < Len(P[x])
      BY <1>0, <3>2
    <3> QED BY <1>3, <2>2, <2>3, <3>3
  <2>4. CASE i # 1
    <3>1. i - 1 \in 1..n /\ v[i] = u[i - 1]
      BY <1>4, <2>4
    <3>2. i - 1 < j - 1
      BY <1>8
    <3> QED BY <1>2, <2>2, <3>1, <3>2 DEF Way
  <2> QED BY <2>3, <2>4
<1>9. Way(t, P, x, v)
  BY <1>3, <1>6, <1>7, <1>8 DEF Way
<1> QED BY <1>9 DEF v

\* Ancestors computes the way to a page.
LEMMA AncestorsFacts ==
  ASSUME NEW t, NEW P, PagesOK(t), PathsOK(t, P), NEW q \in DOMAIN t.pages
  PROVE  Way(t, P, q, Ancestors(t, q))
<1> DEFINE D == DOMAIN t.pages
<1>1. PICK up : /\ up = [x \in D |-> IF x = root THEN <<>> ELSE <<x>> \o up[t.pages[x].parent]]
                /\ Ancestors(t, q) = up[q]
  BY AncestorsRec
<1>2. \A x \in D : up[x] = IF x = root THEN <<>> ELSE <<x>> \o up[t.pages[x].parent]
  BY <1>1
<1> DEFINE B == {x \in D : ~Way(t, P, x, up[x])}
<1>3. B = {}
  <2> SUFFICES ASSUME B # {} PROVE FALSE
    OBVIOUS
  <2>1. PICK x \in B : x # root => t.pages[x].parent \in D \ B
    <3>1. B \in SUBSET D
      OBVIOUS
    <3> HIDE DEF B
    <3> QED BY <3>1, Topmost
  <2>2. CASE x = root
    <3>1. /\ up[x] = <<>> /\ Len(<<>>) = 0 /\ <<>> \in Seq(D \ {root})
          /\ P[x] = <<>>
      <4>1. P[x] = <<>>
        BY <2>2 DEF PathsOK
      <4>2. up[x] = <<>>
        BY <1>2, <2>1, <2>2
      <4> QED BY <4>1, <4>2
    <3>2. 1..0 = {}
      OBVIOUS
    <3>3. Way(t, P, x, <<>>)
      BY <3>1, <3>2 DEF Way
    <3> QED BY <2>1, <3>1, <3>3
  <2>3. CASE x # root
    <3>1. Way(t, P, t.pages[x].parent, up[t.pages[x].parent])
      BY <2>1, <2>3
    <3>2. Way(t, P, x, <<x>> \o up[t.pages[x].parent])
      BY <2>1, <2>3, <3>1, WayDown
    <3> QED BY <1>2, <2>1, <2>3, <3>2
  <2> QED BY <2>2, <2>3
<1> QED BY <1>1, <1>3

-----------------------------------------------------------------------------
(* Sequences come and go at a page.                                        *)

\* Sequence s has the tokens it had before.
SamePath(t, P, u, Q, s) == Q[u.seq2page[s]] = P[t.seq2page[s]]

\* Pages keep parents and tokens.
LEMMA SameShape ==
  ASSUME NEW t, NEW u, NEW P, PagesOK(t), PathsOK(t, P), u.pages \in [DOMAIN t.pages -> Page],
         \A q \in DOMAIN t.pages : u.pages[q].parent = t.pages[q].parent /\ u.pages[q].tokens = t.pages[q].tokens
  PROVE  PagesOK(u) /\ PathsOK(u, P)
<1>1. DOMAIN u.pages = DOMAIN t.pages /\ root \in DOMAIN t.pages
  BY DEF PagesOK
<1>2. PagesOK(u)
  BY <1>1 DEF PagesOK
<1>3. PathsOK(u, P)
  BY <1>1 DEF PathsOK
<1> QED BY <1>2, <1>3

\* The tree u is t with the sequence s at page p.
Joined(t, P, p, s, u) ==
  /\ Tree(u, P) /\ DOMAIN u.pages = DOMAIN t.pages
  /\ DOMAIN u.seq2page = DOMAIN t.seq2page \cup {s} /\ u.seq2page[s] = p
  /\ \A x \in DOMAIN t.seq2page : u.seq2page[x] = t.seq2page[x]

\* A sequence is added to a page.
LEMMA AddToPageTree ==
  ASSUME NEW t, NEW P, Tree(t, P), NEW p \in DOMAIN t.pages, NEW s \in Int, s \notin DOMAIN t.seq2page
  PROVE  Joined(t, P, p, s, AddToPage(t, p, s))
<1>1. PICK u : u = AddToPage(t, p, s)
  OBVIOUS
<1> DEFINE D == DOMAIN t.pages
           S == DOMAIN t.seq2page
<1>2. /\ u.pages = [t.pages EXCEPT ![p].seq_ids = @ \cup {s}]
      /\ u.seq2page = [x \in S \cup {s} |-> IF x = s THEN p ELSE t.seq2page[x]]
  BY <1>1 DEF AddToPage
<1>3. t.pages \in [D -> Page]
  BY DEF Tree, PagesOK
<1>4. /\ u.pages \in [D -> Page]
      /\ \A q \in D : u.pages[q].parent = t.pages[q].parent /\ u.pages[q].tokens = t.pages[q].tokens
      /\ \A q \in D : u.pages[q].seq_ids = IF q = p THEN t.pages[q].seq_ids \cup {s} ELSE t.pages[q].seq_ids
  <2>1. ASSUME NEW q \in D
        PROVE  /\ u.pages[q] \in Page
               /\ u.pages[q].parent = t.pages[q].parent /\ u.pages[q].tokens = t.pages[q].tokens
               /\ u.pages[q].seq_ids = IF q = p THEN t.pages[q].seq_ids \cup {s} ELSE t.pages[q].seq_ids
    <3>1. PICK r \in Page : r = t.pages[q]
      BY <1>3
    <3>2. u.pages[q] = IF q = p THEN [r EXCEPT !.seq_ids = @ \cup {s}] ELSE r
      BY <1>2, <1>3, <3>1
    <3>3. /\ [r EXCEPT !.seq_ids = @ \cup {s}] \in Page
          /\ [r EXCEPT !.seq_ids = @ \cup {s}].parent = r.parent
          /\ [r EXCEPT !.seq_ids = @ \cup {s}].tokens = r.tokens
          /\ [r EXCEPT !.seq_ids = @ \cup {s}].seq_ids = r.seq_ids \cup {s}
      BY DEF Page
    <3> QED BY <3>1, <3>2, <3>3
  <2>2. u.pages = [q \in D |-> u.pages[q]]
    BY <1>2, <1>3
  <2> QED BY <2>1, <2>2
<1>5. PagesOK(u) /\ PathsOK(u, P)
  BY <1>4, SameShape DEF Tree
<1>6. /\ DOMAIN u.seq2page = S \cup {s} /\ u.seq2page[s] = p
      /\ \A x \in S : u.seq2page[x] = t.seq2page[x]
  BY <1>2
<1>7. DOMAIN u.pages = D
  BY <1>4
<1>8. SeqsOK(u)
  <2>1. t.seq2page \in [S -> D] /\ S \subseteq Int
    BY DEF Tree, SeqsOK
  <2>2. u.seq2page \in [S \cup {s} -> D]
    BY <1>2, <2>1
  <2>3. ASSUME NEW q \in D
        PROVE  u.pages[q].seq_ids = {x \in S \cup {s} : u.seq2page[x] = q}
    <3>1. t.pages[q].seq_ids = {x \in S : t.seq2page[x] = q}
      BY DEF Tree, SeqsOK
    <3>2. CASE q = p
      <4>1. u.pages[q].seq_ids = {x \in S : t.seq2page[x] = q} \cup {s}
        BY <1>4, <3>1, <3>2
      <4>2. \A x : x \in {y \in S : t.seq2page[y] = q} \cup {s} <=> x \in {y \in S \cup {s} : u.seq2page[y] = q}
        BY <1>6, <3>2
      <4> QED BY <4>1, <4>2
    <3>3. CASE q # p
      <4>1. u.pages[q].seq_ids = {x \in S : t.seq2page[x] = q}
        BY <1>4, <3>1, <3>3
      <4>2. \A x : x \in {y \in S : t.seq2page[y] = q} <=> x \in {y \in S \cup {s} : u.seq2page[y] = q}
        BY <1>6, <3>3
      <4> QED BY <4>1, <4>2
    <3> QED BY <3>2, <3>3
  <2> QED BY <1>6, <1>7, <2>1, <2>2, <2>3 DEF SeqsOK
<1>9. Tree(u, P)
  BY <1>5, <1>8 DEF Tree
<1> QED BY <1>1, <1>6, <1>7, <1>9 DEF Joined

\* A sequence is taken out of its page.
LEMMA PopSequenceTree ==
  ASSUME NEW t, NEW P, Tree(t, P), NEW s \in DOMAIN t.seq2page
  PROVE  /\ Tree(PopSequence(t, s), P)
         /\ DOMAIN PopSequence(t, s).pages = DOMAIN t.pages
         /\ DOMAIN PopSequence(t, s).seq2page = DOMAIN t.seq2page \ {s}
         /\ \A x \in DOMAIN t.seq2page \ {s} : PopSequence(t, s).seq2page[x] = t.seq2page[x]
         /\ \A q \in DOMAIN t.pages : PopSequence(t, s).pages[q].parent = t.pages[q].parent
                                      /\ PopSequence(t, s).pages[q].tokens = t.pages[q].tokens
<1>1. PICK u : u = PopSequence(t, s)
  OBVIOUS
<1> DEFINE D == DOMAIN t.pages
           S == DOMAIN t.seq2page
<1>2. PICK p \in D : p = t.seq2page[s]
  BY DEF Tree, SeqsOK
<1>3. /\ u.pages = [t.pages EXCEPT ![p].seq_ids = @ \ {s}]
      /\ u.seq2page = [x \in S \ {s} |-> t.seq2page[x]]
  BY <1>1, <1>2 DEF PopSequence, Restricted
<1>4. t.pages \in [D -> Page]
  BY DEF Tree, PagesOK
<1>5. /\ u.pages \in [D -> Page]
      /\ \A q \in D : u.pages[q].parent = t.pages[q].parent /\ u.pages[q].tokens = t.pages[q].tokens
      /\ \A q \in D : u.pages[q].seq_ids = IF q = p THEN t.pages[q].seq_ids \ {s} ELSE t.pages[q].seq_ids
  <2>1. ASSUME NEW q \in D
        PROVE  /\ u.pages[q] \in Page
               /\ u.pages[q].parent = t.pages[q].parent /\ u.pages[q].tokens = t.pages[q].tokens
               /\ u.pages[q].seq_ids = IF q = p THEN t.pages[q].seq_ids \ {s} ELSE t.pages[q].seq_ids
    <3>1. PICK r \in Page : r = t.pages[q]
      BY <1>4
    <3>2. u.pages[q] = IF q = p THEN [r EXCEPT !.seq_ids = @ \ {s}] ELSE r
      BY <1>3, <1>4, <3>1
    <3>3. /\ [r EXCEPT !.seq_ids = @ \ {s}] \in Page
          /\ [r EXCEPT !.seq_ids = @ \ {s}].parent = r.parent
          /\ [r EXCEPT !.seq_ids = @ \ {s}].tokens = r.tokens
          /\ [r EXCEPT !.seq_ids = @ \ {s}].seq_ids = r.seq_ids \ {s}
      BY DEF Page
    <3> QED BY <3>1, <3>2, <3>3
  <2>2. u.pages = [q \in D |-> u.pages[q]]
    BY <1>3, <1>4
  <2> QED BY <2>1, <2>2
<1>6. PagesOK(u) /\ PathsOK(u, P)
  BY <1>5, SameShape DEF Tree
<1>7. DOMAIN u.seq2page = S \ {s} /\ \A x \in S \ {s} : u.seq2page[x] = t.seq2page[x]
  BY <1>3
<1>8. DOMAIN u.pages = D
  BY <1>5
<1>9. SeqsOK(u)
  <2>1. t.seq2page \in [S -> D] /\ S \subseteq Int
    BY DEF Tree, SeqsOK
  <2>2. u.seq2page \in [S \ {s} -> D]
    BY <1>3, <2>1
  <2>3. ASSUME NEW q \in D
        PROVE  u.pages[q].seq_ids = {x \in S \ {s} : u.seq2page[x] = q}
    <3>1. t.pages[q].seq_ids = {x \in S : t.seq2page[x] = q}
      BY DEF Tree, SeqsOK
    <3>2. CASE q = p
      BY <1>5, <1>7, <3>1, <3>2, ZenonT(40)
    <3>3. CASE q # p
      <4>1. u.pages[q].seq_ids = t.pages[q].seq_ids
        BY <1>5, <3>3
      <4>2. \A x \in S : t.seq2page[x] = q => x # s
        BY <1>2, <3>3
      <4>3. \A x : x \in {y \in S : t.seq2page[y] = q} <=> x \in {y \in S \ {s} : u.seq2page[y] = q}
        BY <1>7, <4>2
      <4> QED BY <3>1, <4>1, <4>3
    <3> QED BY <3>2, <3>3
  <2> QED BY <1>7, <1>8, <2>1, <2>2, <2>3 DEF SeqsOK
<1>10. Tree(u, P)
  BY <1>6, <1>9 DEF Tree
<1> QED BY <1>1, <1>5, <1>7, <1>8, <1>10
-----------------------------------------------------------------------------
(* Tokens of a leaf change, and pages are appended.                        *)

\* A page without children is nobody's parent, and one that is not used is nobody's end.
LEMMA UnusedFacts ==
  ASSUME NEW t, NEW P, Tree(t, P), NEW p \in DOMAIN t.pages, Unused(t, p)
  PROVE  /\ \A q \in DOMAIN t.pages \ {root} : t.pages[q].parent # p
         /\ \A s \in DOMAIN t.seq2page : t.seq2page[s] # p
<1>1. \A q \in DOMAIN t.pages \ {root} : t.pages[q].parent # p
  BY DEF Unused, Children
<1>2. {s \in DOMAIN t.seq2page : t.seq2page[s] = p} = {}
  BY DEF Unused, Tree, SeqsOK
<1> QED BY <1>1, <1>2

\* The tokens of a leaf that ends no sequence are changed.
LEMMA RetokenTree ==
  ASSUME NEW t, NEW P, Tree(t, P), NEW p \in DOMAIN t.pages \ {root}, Unused(t, p),
         NEW X \in Texts, Len(X) \in 1..PageCapacity
  PROVE  LET u == WithPages(t, [t.pages EXCEPT ![p].tokens = X])
         IN  /\ Tree(u, [P EXCEPT ![p] = P[t.pages[p].parent] \o X])
             /\ DOMAIN u.pages = DOMAIN t.pages /\ u.seq2page = t.seq2page
<1>1. PICK u : u = WithPages(t, [t.pages EXCEPT ![p].tokens = X])
  OBVIOUS
<1>2. PICK Q : Q = [P EXCEPT ![p] = P[t.pages[p].parent] \o X]
  OBVIOUS
<1> DEFINE D == DOMAIN t.pages
<1>3. u.pages = [t.pages EXCEPT ![p].tokens = X] /\ u.seq2page = t.seq2page
  BY <1>1 DEF WithPages
<1>4. t.pages \in [D -> Page] /\ root \in D
  BY DEF Tree, PagesOK
<1>5. /\ u.pages \in [D -> Page]
      /\ \A q \in D : u.pages[q].parent = t.pages[q].parent /\ u.pages[q].seq_ids = t.pages[q].seq_ids
      /\ \A q \in D : u.pages[q].tokens = IF q = p THEN X ELSE t.pages[q].tokens
  <2>1. ASSUME NEW q \in D
        PROVE  /\ u.pages[q] \in Page
               /\ u.pages[q].parent = t.pages[q].parent /\ u.pages[q].seq_ids = t.pages[q].seq_ids
               /\ u.pages[q].tokens = IF q = p THEN X ELSE t.pages[q].tokens
    <3>1. PICK r \in Page : r = t.pages[q]
      BY <1>4
    <3>2. u.pages[q] = IF q = p THEN [r EXCEPT !.tokens = X] ELSE r
      BY <1>3, <1>4, <3>1
    <3>3. /\ [r EXCEPT !.tokens = X] \in Page /\ [r EXCEPT !.tokens = X].tokens = X
          /\ [r EXCEPT !.tokens = X].parent = r.parent /\ [r EXCEPT !.tokens = X].seq_ids = r.seq_ids
      BY DEF Page
    <3> QED BY <3>1, <3>2, <3>3
  <2>2. u.pages = [q \in D |-> u.pages[q]]
    BY <1>3, <1>4
  <2> QED BY <2>1, <2>2
<1>6. DOMAIN u.pages = D
  BY <1>5
<1>7. PagesOK(u)
  BY <1>5, <1>6 DEF Tree, PagesOK
<1>8. SeqsOK(u)
  BY <1>3, <1>5, <1>6 DEF Tree, SeqsOK
<1>9. PathsOK(u, Q)
  <2>1. P \in [D -> Texts] /\ P[root] = <<>> /\ t.pages[p].parent \in D
    BY DEF Tree, PathsOK, PagesOK
  <2>2. P[t.pages[p].parent] \o X \in Texts
    <3>1. PICK a \in Texts : a = P[t.pages[p].parent]
      BY <2>1
    <3>2. a \o X \in Texts
      BY JoinFacts
    <3> QED BY <3>1, <3>2
  <2>3. Q \in [D -> Texts] /\ \A q \in D : Q[q] = IF q = p THEN P[t.pages[p].parent] \o X ELSE P[q]
    BY <1>2, <2>1, <2>2
  <2>4. ASSUME NEW q \in D \ {root}
        PROVE  Q[q] = Q[u.pages[q].parent] \o u.pages[q].tokens
    <3>1. u.pages[q].parent = t.pages[q].parent /\ t.pages[q].parent # p /\ t.pages[q].parent \in D
      <4>1. u.pages[q].parent = t.pages[q].parent
        BY <1>5
      <4>2. t.pages[q].parent # p
        BY UnusedFacts
      <4>3. t.pages[q].parent \in D
        BY DEF Tree, PagesOK
      <4> QED BY <4>1, <4>2, <4>3
    <3>2. Q[u.pages[q].parent] = P[t.pages[q].parent]
      BY <2>3, <3>1
    <3>3. P[q] = P[t.pages[q].parent] \o t.pages[q].tokens
      BY DEF Tree, PathsOK
    <3> QED BY <1>5, <2>3, <3>1, <3>2, <3>3, ZenonT(40)
  <2>5. Q[root] = <<>>
    BY <1>4, <2>1, <2>3
  <2> QED BY <1>6, <2>3, <2>4, <2>5 DEF PathsOK
<1>10. Tree(u, Q)
  BY <1>7, <1>8, <1>9 DEF Tree
<1> QED BY <1>1, <1>2, <1>3, <1>6, <1>10

\* The tree is t with more pages, and the way to a page of it is w.
Grown(t, P, w, at, Q) ==
  /\ at.page \in DOMAIN at.tree.pages /\ DOMAIN t.pages \subseteq DOMAIN at.tree.pages
  /\ at.tree.seq2page = t.seq2page
  /\ Tree(at.tree, Q) /\ Q[at.page] = w
  /\ \A q \in DOMAIN t.pages : Q[q] = P[q]

\* A page gets a new child.
LEMMA InsertChildTree ==
  ASSUME NEW t, NEW P, Tree(t, P), NEW p \in DOMAIN t.pages, NEW X \in Texts, Len(X) \in 1..PageCapacity
  PROVE  \E Q : Grown(t, P, P[p] \o X, InsertChild(t, p, X), Q)
<1>1. PICK at : at = InsertChild(t, p, X)
  OBVIOUS
<1>2. PICK c : c = Allocate(t)
  OBVIOUS
<1>3. c \in Nat \ {0} /\ c \notin DOMAIN t.pages
  BY <1>2, AllocateFree DEF Tree
<1>4. PICK u : u = at.tree
  OBVIOUS
<1> DEFINE D == DOMAIN t.pages
           child == [parent |-> p, tokens |-> X, seq_ids |-> {}]
           Q == [q \in D \cup {c} |-> IF q = c THEN P[p] \o X ELSE P[q]]
<1>5. /\ at.page = c /\ u.seq2page = t.seq2page
      /\ u.pages = [q \in D \cup {c} |-> IF q = c THEN child ELSE t.pages[q]]
  BY <1>1, <1>2, <1>4 DEF InsertChild, WithPages
<1>6. t.pages \in [D -> Page] /\ root \in D /\ IsFiniteSet(D) /\ D \subseteq Nat
  BY DEF Tree, PagesOK
<1>7. child \in Page /\ child.parent = p /\ child.tokens = X /\ child.seq_ids = {}
  BY <1>6 DEF Page
<1>8. u.pages \in [D \cup {c} -> Page] /\ u.pages[c] = child /\ \A q \in D : u.pages[q] = t.pages[q]
  <2> HIDE DEF child
  <2> QED BY <1>3, <1>5, <1>6, <1>7
<1>9. DOMAIN u.pages = D \cup {c}
  BY <1>8
<1> HIDE DEF child
<1>10. PagesOK(u)
  <2>1. IsFiniteSet(D \cup {c}) /\ D \cup {c} \subseteq Nat
    BY <1>3, <1>6, FS_AddElement
  <2>2. root \in D \cup {c} /\ u.pages[root].tokens = <<>>
    BY <1>6, <1>8 DEF Tree, PagesOK
  <2>3. ASSUME NEW q \in (D \cup {c}) \ {root}
        PROVE  u.pages[q].parent \in D \cup {c} /\ Len(u.pages[q].tokens) \in 1..PageCapacity
    <3>1. CASE q = c
      BY <1>7, <1>8, <3>1
    <3>2. CASE q # c
      BY <1>8, <3>2 DEF Tree, PagesOK
    <3> QED BY <3>1, <3>2
  <2> QED BY <1>8, <1>9, <2>1, <2>2, <2>3 DEF PagesOK
<1>11. SeqsOK(u)
  <2>1. t.seq2page \in [DOMAIN t.seq2page -> D] /\ DOMAIN t.seq2page \subseteq Int
    BY DEF Tree, SeqsOK
  <2>2. u.seq2page \in [DOMAIN u.seq2page -> D \cup {c}]
    BY <1>5, <2>1
  <2>3. ASSUME NEW q \in D \cup {c}
        PROVE  u.pages[q].seq_ids = {s \in DOMAIN t.seq2page : t.seq2page[s] = q}
    <3>1. CASE q = c
      <4>1. u.pages[q].seq_ids = {}
        BY <1>7, <1>8, <3>1
      <4>2. \A s \in DOMAIN t.seq2page : t.seq2page[s] # q
        BY <1>3, <2>1, <3>1
      <4> QED BY <4>1, <4>2
    <3>2. CASE q # c
      BY <1>8, <3>2 DEF Tree, SeqsOK
    <3> QED BY <3>1, <3>2
  <2>4. u.seq2page = t.seq2page
    BY <1>5
  <2>5. \A q \in DOMAIN u.pages : u.pages[q].seq_ids = {s \in DOMAIN u.seq2page : u.seq2page[s] = q}
    BY <1>9, <2>3, <2>4
  <2>6. u.seq2page \in [DOMAIN u.seq2page -> DOMAIN u.pages] /\ DOMAIN u.seq2page \subseteq Int
    BY <1>9, <2>1, <2>2, <2>4
  <2> QED BY <2>5, <2>6 DEF SeqsOK
<1>12. PICK a \in Texts : a = P[p]
  BY DEF Tree, PathsOK
<1>13. a \o X \in Texts
  BY JoinFacts
<1>14. /\ Q \in [D \cup {c} -> Texts]
       /\ Q[c] = P[p] \o X /\ \A q \in D : Q[q] = P[q]
  <2>1. P \in [D -> Texts]
    BY DEF Tree, PathsOK
  <2> QED BY <1>3, <1>12, <1>13, <2>1
<1> HIDE DEF Q
<1>15. PathsOK(u, Q)
  <2>1. Q[root] = <<>>
    BY <1>6, <1>14 DEF Tree, PathsOK
  <2>2. ASSUME NEW q \in (D \cup {c}) \ {root}
        PROVE  Q[q] = Q[u.pages[q].parent] \o u.pages[q].tokens
    <3>1. CASE q = c
      BY <1>7, <1>8, <1>14, <3>1
    <3>2. CASE q # c
      <4>1. u.pages[q] = t.pages[q] /\ t.pages[q].parent \in D
        BY <1>8, <3>2 DEF Tree, PagesOK
      <4>2. P[q] = P[t.pages[q].parent] \o t.pages[q].tokens
        BY <3>2 DEF Tree, PathsOK
      <4> QED BY <1>14, <3>2, <4>1, <4>2
    <3> QED BY <3>1, <3>2
  <2> QED BY <1>9, <1>14, <2>1, <2>2 DEF PathsOK
<1>16. Tree(u, Q)
  BY <1>10, <1>11, <1>15 DEF Tree
<1>17. Grown(t, P, P[p] \o X, at, Q)
  BY <1>4, <1>5, <1>9, <1>14, <1>16 DEF Grown
<1> QED BY <1>1, <1>17
-----------------------------------------------------------------------------
(* A page is merged with its only child.                                   *)

\* The tree u is t, with the only child c of p merged into p.
Merged(t, p, c, u) ==
  /\ c \in DOMAIN t.pages \ {root} /\ t.pages[c].parent = p /\ c # p /\ p # root
  /\ \A q \in DOMAIN t.pages \ {root} : t.pages[q].parent = p => q = c
  /\ t.pages[p].seq_ids = {} /\ t.pages[p].parent \in DOMAIN t.pages \ {c, p}
  /\ Length(t, p) + Length(t, c) <= PageCapacity
  /\ u.pages \in [DOMAIN t.pages \ {c} -> Page]
  /\ u.pages[p].parent = t.pages[p].parent
  /\ u.pages[p].tokens = t.pages[p].tokens \o t.pages[c].tokens
  /\ u.pages[p].seq_ids = t.pages[c].seq_ids
  /\ \A q \in DOMAIN t.pages \ {c, p} :
       /\ u.pages[q].tokens = t.pages[q].tokens /\ u.pages[q].seq_ids = t.pages[q].seq_ids
       /\ u.pages[q].parent = IF t.pages[q].parent = c THEN p ELSE t.pages[q].parent
  /\ u.seq2page = [s \in DOMAIN t.seq2page |-> IF t.seq2page[s] = c THEN p ELSE t.seq2page[s]]

\* What MergePage does to the pages.
LEMMA MergePagePages ==
  ASSUME NEW t, NEW P, Tree(t, P), NEW p \in DOMAIN t.pages, Mergeable(t, p)
  PROVE  \E c : Merged(t, p, c, MergePage(t, p))
<1>1. PICK u : u = MergePage(t, p)
  OBVIOUS
<1> DEFINE D == DOMAIN t.pages
<1>2. PICK c \in Children(t, p) : Children(t, p) = {c} /\ Length(t, p) + Length(t, c) <= Capacity(p)
  BY DEF Mergeable
<1>3. (CHOOSE x \in Children(t, p) : TRUE) = c
  BY <1>2
<1>4. c \in D \ {root} /\ t.pages[c].parent = p
  BY <1>2 DEF Children
<1>5. \A q \in D \ {root} : t.pages[q].parent = p => q = c
  BY <1>2 DEF Children
<1>6. Length(t, p) \in Nat /\ Length(t, c) \in 1..PageCapacity
  BY <1>4, PageTypes DEF Tree
<1>7. p # root
  BY <1>2, <1>6, CapacityAssumption DEF Capacity
<1>8. Length(t, p) + Length(t, c) <= PageCapacity
  BY <1>2, <1>7 DEF Capacity
<1>9. Len(P[p]) < Len(P[c]) /\ Len(P[t.pages[p].parent]) < Len(P[p]) /\ t.pages[p].parent \in D
      /\ Len(P[c]) \in Nat /\ Len(P[p]) \in Nat /\ Len(P[t.pages[p].parent]) \in Nat
  BY <1>4, <1>7, PathTypes, PageTypes DEF Tree
<1>10. c # p /\ t.pages[p].parent # c /\ t.pages[p].parent # p
  BY <1>9
<1>11. t.pages \in [D -> Page]
  BY DEF Tree, PagesOK
<1> DEFINE merged == [t.pages[p] EXCEPT !.tokens = @ \o t.pages[c].tokens, !.seq_ids = t.pages[c].seq_ids]
           page(q) == CASE q = p -> merged
                        [] t.pages[q].parent = c -> [t.pages[q] EXCEPT !.parent = p]
                        [] OTHER -> t.pages[q]
<1>12. /\ u.pages = [q \in D \ {c} |-> page(q)]
       /\ u.seq2page = [s \in DOMAIN t.seq2page |-> IF t.seq2page[s] = c THEN p ELSE t.seq2page[s]]
  <2> DEFINE k == CHOOSE x \in Children(t, p) : TRUE
             merge == [t.pages[p] EXCEPT !.tokens = @ \o t.pages[k].tokens, !.seq_ids = t.pages[k].seq_ids]
  <2>1. u = [pages |-> [q \in D \ {k} |->
                         CASE q = p -> merge
                           [] t.pages[q].parent = k -> [t.pages[q] EXCEPT !.parent = p]
                           [] OTHER -> t.pages[q]],
             seq2page |-> [s \in DOMAIN t.seq2page |-> IF t.seq2page[s] = k THEN p ELSE t.seq2page[s]]]
    BY <1>1, Zenon DEF MergePage
  <2>2. k = c
    BY <1>3
  <2> HIDE DEF k
  <2>3. merge = merged
    BY <2>2
  <2> HIDE DEF merge, merged
  <2> QED BY <2>1, <2>2, <2>3
<1>13. /\ merged \in Page /\ merged.parent = t.pages[p].parent /\ merged.seq_ids = t.pages[c].seq_ids
       /\ merged.tokens = t.pages[p].tokens \o t.pages[c].tokens
  <2>1. PICK a \in Page, b \in Page : a = t.pages[p] /\ b = t.pages[c]
    BY <1>4, <1>11
  <2>2. a.tokens \o b.tokens \in Texts
    <3>1. PICK x \in Texts, y \in Texts : x = a.tokens /\ y = b.tokens
      BY DEF Page
    <3>2. x \o y \in Texts
      BY JoinFacts
    <3> QED BY <3>1, <3>2
  <2>3. merged = [a EXCEPT !.tokens = @ \o b.tokens, !.seq_ids = b.seq_ids]
    BY <2>1
  <2> HIDE DEF merged
  <2> QED BY <2>1, <2>2, <2>3 DEF Page
<1> HIDE DEF merged
<1>14. ASSUME NEW q \in D \ {c, p}
       PROVE  /\ page(q) \in Page
              /\ page(q).tokens = t.pages[q].tokens /\ page(q).seq_ids = t.pages[q].seq_ids
              /\ page(q).parent = IF t.pages[q].parent = c THEN p ELSE t.pages[q].parent
  <2>1. PICK r \in Page : r = t.pages[q]
    BY <1>11
  <2>2. page(q) = IF r.parent = c THEN [r EXCEPT !.parent = p] ELSE r
    BY <2>1
  <2>3. /\ [r EXCEPT !.parent = p] \in Page /\ [r EXCEPT !.parent = p].parent = p
        /\ [r EXCEPT !.parent = p].tokens = r.tokens /\ [r EXCEPT !.parent = p].seq_ids = r.seq_ids
    BY PageTypes DEF Page, Tree
  <2> HIDE DEF page
  <2> QED BY <2>1, <2>2, <2>3
<1>15. page(p) = merged
  BY <1>10
<1> HIDE DEF page
<1>16. u.pages \in [D \ {c} -> Page] /\ \A q \in D \ {c} : u.pages[q] = page(q)
  BY <1>12, <1>13, <1>14, <1>15
<1>17. Merged(t, p, c, u)
  <2>1. t.pages[p].seq_ids = {}
    BY DEF Mergeable
  <2>2. u.pages[p] = merged
    BY <1>10, <1>15, <1>16
  <2>3. \A q \in D \ {c, p} :
          /\ u.pages[q].tokens = t.pages[q].tokens /\ u.pages[q].seq_ids = t.pages[q].seq_ids
          /\ u.pages[q].parent = IF t.pages[q].parent = c THEN p ELSE t.pages[q].parent
    BY <1>14, <1>16
  <2>4. u.seq2page = [s \in DOMAIN t.seq2page |-> IF t.seq2page[s] = c THEN p ELSE t.seq2page[s]]
    BY <1>12
  <2> QED BY <1>4, <1>5, <1>7, <1>8, <1>9, <1>10, <1>13, <1>16, <2>1, <2>2, <2>3, <2>4 DEF Merged
<1> QED BY <1>1, <1>17

\* Merging keeps a tree a tree, and all its ways but the one to the child.
LEMMA MergedTree ==
  ASSUME NEW t, NEW P, Tree(t, P), NEW p \in DOMAIN t.pages, NEW c, NEW u, Merged(t, p, c, u)
  PROVE  \E Q : /\ Tree(u, Q) /\ Q[p] = P[c]
                /\ \A q \in DOMAIN t.pages \ {c, p} : Q[q] = P[q]
                /\ DOMAIN u.seq2page = DOMAIN t.seq2page
                /\ \A s \in DOMAIN t.seq2page : SamePath(t, P, u, Q, s)
<1> DEFINE D == DOMAIN t.pages
           E == D \ {c}
           Q == [q \in E |-> IF q = p THEN P[c] ELSE P[q]]
<1>1. /\ c \in D \ {root} /\ t.pages[c].parent = p /\ c # p /\ p # root
      /\ \A q \in D \ {root} : t.pages[q].parent = p => q = c
      /\ t.pages[p].seq_ids = {} /\ t.pages[p].parent \in D \ {c, p}
      /\ Length(t, p) + Length(t, c) <= PageCapacity
  BY DEF Merged
<1>2. /\ u.pages \in [E -> Page] /\ u.pages[p].parent = t.pages[p].parent
      /\ u.pages[p].tokens = t.pages[p].tokens \o t.pages[c].tokens
      /\ u.pages[p].seq_ids = t.pages[c].seq_ids
  BY DEF Merged
<1>3. \A q \in D \ {c, p} :
       /\ u.pages[q].tokens = t.pages[q].tokens /\ u.pages[q].seq_ids = t.pages[q].seq_ids
       /\ u.pages[q].parent = IF t.pages[q].parent = c THEN p ELSE t.pages[q].parent
  BY DEF Merged
<1>4. u.seq2page = [s \in DOMAIN t.seq2page |-> IF t.seq2page[s] = c THEN p ELSE t.seq2page[s]]
  BY DEF Merged
<1>5. DOMAIN u.pages = E
  BY <1>2
<1>6. root \in E
  BY <1>1 DEF Tree, PagesOK
<1>7. /\ t.pages[p].tokens \in Texts /\ Length(t, p) = Len(t.pages[p].tokens) /\ Length(t, p) \in 1..PageCapacity
      /\ t.pages[c].tokens \in Texts /\ Length(t, c) = Len(t.pages[c].tokens) /\ Length(t, c) \in 1..PageCapacity
  BY <1>1, PageTypes DEF Tree
<1>8. PICK x \in Texts, y \in Texts : x = t.pages[p].tokens /\ y = t.pages[c].tokens
  BY <1>7
<1>9. x \o y \in Texts /\ Len(x \o y) = Len(x) + Len(y) /\ Len(x) \in Nat /\ Len(y) \in Nat
  BY JoinFacts
<1>10. PagesOK(u)
  <2>1. IsFiniteSet(E) /\ E \subseteq Nat
    BY FS_Subset DEF Tree, PagesOK
  <2>2. u.pages[root].tokens = <<>>
    BY <1>1, <1>3, <1>6 DEF Tree, PagesOK
  <2>3. ASSUME NEW q \in E \ {root}
        PROVE  u.pages[q].parent \in E /\ Len(u.pages[q].tokens) \in 1..PageCapacity
    <3>1. CASE q = p
      <4>1. Len(x \o y) \in 1..PageCapacity
        <5>1. PICK a \in Nat, b \in Nat : a = Length(t, p) /\ b = Length(t, c) /\ a >= 1 /\ a + b <= PageCapacity
          <6>1. Length(t, p) \in Nat /\ Length(t, c) \in Nat /\ Length(t, p) >= 1
            BY <1>7
          <6>2. Length(t, p) + Length(t, c) <= PageCapacity
            BY <1>1
          <6> QED BY <6>1, <6>2
        <5>2. Len(x \o y) = a + b
          BY <1>7, <1>8, <1>9, <5>1
        <5> QED BY <5>1, <5>2, CapacityAssumption
      <4> QED BY <1>1, <1>2, <1>8, <3>1, <4>1
    <3>2. CASE q # p
      <4>1. t.pages[q].parent \in D /\ Len(t.pages[q].tokens) \in 1..PageCapacity
        BY DEF Tree, PagesOK
      <4> QED BY <1>1, <1>3, <3>2, <4>1
    <3> QED BY <3>1, <3>2
  <2> QED BY <1>2, <1>5, <1>6, <2>1, <2>2, <2>3 DEF PagesOK
<1>11. SeqsOK(u)
  <2>1. t.seq2page \in [DOMAIN t.seq2page -> D] /\ DOMAIN t.seq2page \subseteq Int
    BY DEF Tree, SeqsOK
  <2>2. DOMAIN u.seq2page = DOMAIN t.seq2page
        /\ \A s \in DOMAIN t.seq2page : u.seq2page[s] = IF t.seq2page[s] = c THEN p ELSE t.seq2page[s]
    BY <1>4
  <2>3. u.seq2page \in [DOMAIN u.seq2page -> E]
    BY <1>1, <1>4, <2>1
  <2>4. \A q \in D : t.pages[q].seq_ids = {s \in DOMAIN t.seq2page : t.seq2page[s] = q}
    BY DEF Tree, SeqsOK
  <2>5. \A s \in DOMAIN t.seq2page : t.seq2page[s] # p
    BY <1>1, <2>4
  <2>6. ASSUME NEW q \in E
        PROVE  u.pages[q].seq_ids = {s \in DOMAIN u.seq2page : u.seq2page[s] = q}
    <3>1. CASE q = p
      <4>1. u.pages[q].seq_ids = {s \in DOMAIN t.seq2page : t.seq2page[s] = c}
        BY <1>1, <1>2, <2>4, <3>1
      <4>2. \A s \in DOMAIN t.seq2page : u.seq2page[s] = q <=> t.seq2page[s] = c
        BY <2>2, <2>5, <3>1
      <4> QED BY <2>2, <4>1, <4>2
    <3>2. CASE q # p
      <4>1. u.pages[q].seq_ids = {s \in DOMAIN t.seq2page : t.seq2page[s] = q}
        BY <1>3, <2>4, <3>2
      <4>2. \A s \in DOMAIN t.seq2page : u.seq2page[s] = q <=> t.seq2page[s] = q
        BY <2>2, <3>2
      <4> QED BY <2>2, <4>1, <4>2
    <3> QED BY <3>1, <3>2
  <2> QED BY <1>5, <2>1, <2>2, <2>3, <2>6 DEF SeqsOK
<1>12. P \in [D -> Texts] /\ P[root] = <<>>
       /\ \A q \in D \ {root} : P[q] = P[t.pages[q].parent] \o t.pages[q].tokens
  BY DEF Tree, PathsOK
<1>13. /\ Q \in [E -> Texts] /\ Q[p] = P[c] /\ Q[root] = <<>>
       /\ \A q \in D \ {c, p} : Q[q] = P[q]
  BY <1>1, <1>6, <1>12
<1> HIDE DEF Q
<1>14. PathsOK(u, Q)
  <2>1. ASSUME NEW q \in E \ {root}
        PROVE  Q[q] = Q[u.pages[q].parent] \o u.pages[q].tokens
    <3>1. CASE q = p
      <4>1. PICK w \in Texts : w = P[t.pages[p].parent]
        BY <1>1, <1>12
      <4>2. P[c] = (w \o x) \o y
        BY <1>1, <1>8, <1>12, <4>1
      <4>3. (w \o x) \o y = w \o (x \o y)
        <5>1. Associates(w, x, y)
          BY JoinAssociative
        <5> QED BY <5>1 DEF Associates
      <4>4. Q[u.pages[p].parent] = w
        BY <1>1, <1>2, <1>13, <4>1
      <4> QED BY <1>2, <1>8, <1>13, <3>1, <4>2, <4>3, <4>4
    <3>2. CASE q # p
      <4>1. Q[q] = P[q] /\ u.pages[q].tokens = t.pages[q].tokens /\ t.pages[q].parent \in D
        BY <1>3, <1>13, <3>2 DEF Tree, PagesOK
      <4>2. Q[u.pages[q].parent] = P[t.pages[q].parent]
        <5>1. CASE t.pages[q].parent = c
          BY <1>3, <1>13, <3>2, <5>1
        <5>2. CASE t.pages[q].parent # c
          <6>1. t.pages[q].parent # p
            BY <1>1
          <6> QED BY <1>3, <1>13, <3>2, <4>1, <5>2, <6>1
        <5> QED BY <5>1, <5>2
      <4> QED BY <1>12, <4>1, <4>2
    <3> QED BY <3>1, <3>2
  <2> QED BY <1>5, <1>13, <2>1 DEF PathsOK
<1>15. \A s \in DOMAIN t.seq2page : SamePath(t, P, u, Q, s)
  <2> SUFFICES ASSUME NEW s \in DOMAIN t.seq2page PROVE Q[u.seq2page[s]] = P[t.seq2page[s]]
    BY DEF SamePath
  <2>1. t.seq2page[s] \in D /\ t.seq2page[s] # p
    <3>1. t.seq2page[s] \in D
      BY DEF Tree, SeqsOK
    <3>2. {z \in DOMAIN t.seq2page : t.seq2page[z] = p} = {}
      BY <1>1 DEF Tree, SeqsOK
    <3> QED BY <3>1, <3>2
  <2>2. u.seq2page[s] = IF t.seq2page[s] = c THEN p ELSE t.seq2page[s]
    BY <1>4
  <2> QED BY <1>13, <2>1, <2>2
<1>16. DOMAIN u.seq2page = DOMAIN t.seq2page
  BY <1>4
<1>17. Tree(u, Q)
  BY <1>10, <1>11, <1>14 DEF Tree
<1> QED BY <1>13, <1>15, <1>16, <1>17
\* A page is merged if that is possible.
LEMMA MergeIfPossibleTree ==
  ASSUME NEW t, NEW P, Tree(t, P), NEW p \in DOMAIN t.pages
  PROVE  LET u == MergeIfPossible(t, p)
         IN  \E Q : /\ Tree(u, Q) /\ DOMAIN u.seq2page = DOMAIN t.seq2page
                    /\ \A s \in DOMAIN t.seq2page : SamePath(t, P, u, Q, s)
                    /\ \A q \in DOMAIN t.pages : Len(P[q]) <= Len(P[p]) => q \in DOMAIN u.pages
                    /\ \A q \in DOMAIN t.pages \ {p} : q \in DOMAIN u.pages => Q[q] = P[q]
                    /\ \A q \in DOMAIN t.pages \ {root} :
                         Len(P[q]) <= Len(P[p]) => u.pages[q].parent = t.pages[q].parent
<1>1. PICK u : u = MergeIfPossible(t, p)
  OBVIOUS
<1>2. CASE ~Mergeable(t, p)
  <2>1. u = t
    BY <1>1, <1>2 DEF MergeIfPossible
  <2> QED BY <1>1, <2>1 DEF SamePath
<1>3. CASE Mergeable(t, p)
  <2>1. u = MergePage(t, p)
    BY <1>1, <1>3 DEF MergeIfPossible
  <2>2. PICK c : Merged(t, p, c, u)
    BY <1>3, <2>1, MergePagePages
  <2>3. PICK Q : /\ Tree(u, Q) /\ Q[p] = P[c]
                 /\ \A q \in DOMAIN t.pages \ {c, p} : Q[q] = P[q]
                 /\ DOMAIN u.seq2page = DOMAIN t.seq2page
                 /\ \A s \in DOMAIN t.seq2page : SamePath(t, P, u, Q, s)
    BY <2>2, MergedTree
  <2>4. /\ c \in DOMAIN t.pages \ {root} /\ t.pages[c].parent = p
        /\ DOMAIN u.pages = DOMAIN t.pages \ {c}
    BY <2>2 DEF Merged
  <2>5. Len(P[p]) < Len(P[c]) /\ Len(P[p]) \in Nat /\ Len(P[c]) \in Nat
    BY <2>4, PathTypes DEF Tree
  <2>6. \A q \in DOMAIN t.pages : Len(P[q]) <= Len(P[p]) => q \in DOMAIN u.pages
    BY <2>4, <2>5
  <2>7. \A q \in DOMAIN t.pages \ {p} : q \in DOMAIN u.pages => Q[q] = P[q]
    BY <2>3, <2>4
  <2>8. ASSUME NEW q \in DOMAIN t.pages \ {root}, Len(P[q]) <= Len(P[p])
        PROVE  u.pages[q].parent = t.pages[q].parent
    <3>1. Len(P[t.pages[q].parent]) < Len(P[q]) /\ Len(P[t.pages[q].parent]) \in Nat /\ Len(P[q]) \in Nat
      BY PathTypes DEF Tree
    <3>2. t.pages[q].parent # c /\ q # c
      BY <2>5, <2>8, <3>1
    <3> QED BY <2>2, <3>2 DEF Merged
  <2> QED BY <1>1, <2>3, <2>6, <2>7, <2>8
<1> QED BY <1>2, <1>3

\* A page is merged into its parent if that is possible.
LEMMA MergeUpTree ==
  ASSUME NEW t, NEW P, Tree(t, P), NEW p \in DOMAIN t.pages \ {root}, NEW parent, parent = t.pages[p].parent
  PROVE  LET at == MergeUp(t, p, parent)
         IN  \E Q : /\ Tree(at.tree, Q) /\ DOMAIN at.tree.seq2page = DOMAIN t.seq2page
                    /\ \A s \in DOMAIN t.seq2page : SamePath(t, P, at.tree, Q, s)
                    /\ at.page \in DOMAIN at.tree.pages /\ Q[at.page] = P[p]
                    /\ \A q \in DOMAIN t.pages \ {p} : q \in DOMAIN at.tree.pages
<1>1. PICK at : at = MergeUp(t, p, parent)
  OBVIOUS
<1>2. PICK u : u = at.tree
  OBVIOUS
<1>3. u = MergeIfPossible(t, parent) /\ at.page = IF Mergeable(t, parent) THEN parent ELSE p
  BY <1>1, <1>2 DEF MergeUp
<1>4. parent \in DOMAIN t.pages
  BY PageTypes DEF Tree
<1>5. CASE ~Mergeable(t, parent)
  <2>1. u = t /\ at.page = p
    BY <1>3, <1>5 DEF MergeIfPossible
  <2> QED BY <1>1, <1>2, <2>1 DEF SamePath
<1>6. CASE Mergeable(t, parent)
  <2>1. u = MergePage(t, parent) /\ at.page = parent
    BY <1>3, <1>6 DEF MergeIfPossible
  <2>2. PICK c : Merged(t, parent, c, u)
    BY <1>4, <1>6, <2>1, MergePagePages
  <2>3. PICK Q : /\ Tree(u, Q) /\ Q[parent] = P[c]
                 /\ DOMAIN u.seq2page = DOMAIN t.seq2page
                 /\ \A s \in DOMAIN t.seq2page : SamePath(t, P, u, Q, s)
    BY <1>4, <2>2, MergedTree
  <2>4. c = p /\ c # parent /\ DOMAIN u.pages = DOMAIN t.pages \ {c}
    BY <2>2 DEF Merged
  <2>5. parent \in DOMAIN u.pages
    BY <1>4, <2>4
  <2> QED BY <1>1, <1>2, <2>1, <2>3, <2>4, <2>5
<1> QED BY <1>5, <1>6

-----------------------------------------------------------------------------
(* A page is split.                                                        *)

\* The tokens on the way to the offset in a page.
PartPath(t, P, p, offset) == P[t.pages[p].parent] \o Take(t.pages[p].tokens, offset)

\* The tree u is t, with page p cut at the offset and a new child c of it with
\* the rest.
Cut(t, p, offset, c, u) ==
  /\ p \in DOMAIN t.pages \ {root} /\ offset \in Nat /\ 0 < offset /\ offset < Length(t, p)
  /\ c \in Nat \ {0} /\ c \notin DOMAIN t.pages
  /\ u.pages \in [DOMAIN t.pages \cup {c} -> Page]
  /\ u.pages[p].parent = t.pages[p].parent /\ u.pages[p].seq_ids = {}
  /\ u.pages[p].tokens = SubSeq(t.pages[p].tokens, 1, offset)
  /\ u.pages[c].parent = p /\ u.pages[c].seq_ids = t.pages[p].seq_ids
  /\ u.pages[c].tokens = SubSeq(t.pages[p].tokens, offset + 1, Length(t, p))
  /\ \A q \in DOMAIN t.pages \ {p} :
       /\ u.pages[q].tokens = t.pages[q].tokens /\ u.pages[q].seq_ids = t.pages[q].seq_ids
       /\ u.pages[q].parent = IF q # root /\ t.pages[q].parent = p THEN c ELSE t.pages[q].parent
  /\ u.seq2page = [s \in DOMAIN t.seq2page |-> IF t.seq2page[s] = p THEN c ELSE t.seq2page[s]]

\* What Halved does to the pages.
LEMMA HalvedPages ==
  ASSUME NEW t, NEW P, Tree(t, P), NEW p \in DOMAIN t.pages, NEW offset \in Nat, 0 < offset, offset < Length(t, p)
  PROVE  Cut(t, p, offset, Allocate(t), Halved(t, p, offset))
<1>1. PICK u : u = Halved(t, p, offset)
  OBVIOUS
<1>2. PICK c : c = Allocate(t)
  OBVIOUS
<1> DEFINE D == DOMAIN t.pages
           l == Length(t, p)
           first == [t.pages[p] EXCEPT !.tokens = SubSeq(@, 1, offset), !.seq_ids = {}]
           second == [parent |-> p, tokens |-> SubSeq(t.pages[p].tokens, offset + 1, l), seq_ids |-> t.pages[p].seq_ids]
           page(q) == CASE q = p -> first
                        [] q = c -> second
                        [] q \in Children(t, p) -> [t.pages[q] EXCEPT !.parent = c]
                        [] OTHER -> t.pages[q]
<1>3. c \in Nat \ {0} /\ c \notin D
  BY <1>2, AllocateFree DEF Tree
<1>4. /\ u.pages = [q \in D \cup {c} |-> page(q)]
      /\ u.seq2page = [s \in DOMAIN t.seq2page |-> IF t.seq2page[s] = p THEN c ELSE t.seq2page[s]]
  <2> DEFINE k == Allocate(t)
  <2>1. u = [pages |-> [q \in D \cup {k} |->
                         CASE q = p -> first
                           [] q = k -> second
                           [] q \in Children(t, p) -> [t.pages[q] EXCEPT !.parent = k]
                           [] OTHER -> t.pages[q]],
             seq2page |-> [s \in DOMAIN t.seq2page |-> IF t.seq2page[s] = p THEN k ELSE t.seq2page[s]]]
    BY <1>1, Zenon DEF Halved
  <2>2. k = c
    BY <1>2
  <2> HIDE DEF k, first, second
  <2> QED BY <2>1, <2>2
<1>5. t.pages \in [D -> Page] /\ D \subseteq Nat
  BY DEF Tree, PagesOK
<1>6. p # root /\ t.pages[p].parent # p /\ l \in Nat
  <2>1. p # root /\ l \in Nat
    BY PageTypes DEF Tree
  <2>2. Len(P[t.pages[p].parent]) < Len(P[p]) /\ Len(P[p]) \in Nat
    BY <2>1, PathTypes DEF Tree
  <2> QED BY <2>1, <2>2
<1>7. PICK a \in Page : a = t.pages[p] /\ a.tokens \in Texts /\ Len(a.tokens) = l
  BY <1>5 DEF Page, Length
<1>8. /\ SubSeq(a.tokens, 1, offset) \in Texts
      /\ SubSeq(a.tokens, offset + 1, l) \in Texts
  <2>1. PICK x \in Texts : x = a.tokens
    BY <1>7
  <2>2. SubSeq(x, 1, offset) \in Texts
    BY <1>6, <1>7, <2>1, TakeFacts
  <2>3. SubSeq(x, offset + 1, l) \in Texts
    <3>1. PICK n \in Nat : n = l /\ n = Len(x)
      BY <1>6, <1>7, <2>1
    <3>2. SubSeq(x, offset + 1, n) \in Texts
      BY <3>1, DropFacts
    <3> QED BY <3>1, <3>2
  <2> QED BY <2>1, <2>2, <2>3
<1>9. /\ first \in Page /\ first.parent = t.pages[p].parent /\ first.seq_ids = {}
      /\ first.tokens = SubSeq(t.pages[p].tokens, 1, offset)
  <2>1. first = [a EXCEPT !.tokens = SubSeq(a.tokens, 1, offset), !.seq_ids = {}]
    BY <1>7
  <2> HIDE DEF first
  <2> QED BY <1>7, <1>8, <2>1 DEF Page
<1>10. /\ second \in Page /\ second.parent = p /\ second.seq_ids = t.pages[p].seq_ids
       /\ second.tokens = SubSeq(t.pages[p].tokens, offset + 1, l)
  BY <1>5, <1>7, <1>8 DEF Page
<1>11. page(p) = first
  BY <1>3, <1>6 DEF Children
<1>12. page(c) = second
  BY <1>3 DEF Children
<1> HIDE DEF first, second
<1>13. ASSUME NEW q \in D \ {p}
       PROVE  /\ page(q) \in Page
              /\ page(q).tokens = t.pages[q].tokens /\ page(q).seq_ids = t.pages[q].seq_ids
              /\ page(q).parent = IF q # root /\ t.pages[q].parent = p THEN c ELSE t.pages[q].parent
  <2>1. PICK r \in Page : r = t.pages[q]
    BY <1>5
  <2>2. page(q) = IF q # root /\ r.parent = p THEN [r EXCEPT !.parent = c] ELSE r
    BY <1>3, <2>1 DEF Children
  <2>3. /\ [r EXCEPT !.parent = c] \in Page /\ [r EXCEPT !.parent = c].parent = c
        /\ [r EXCEPT !.parent = c].tokens = r.tokens /\ [r EXCEPT !.parent = c].seq_ids = r.seq_ids
    BY <1>3 DEF Page
  <2> HIDE DEF page
  <2> QED BY <2>1, <2>2, <2>3
<1> HIDE DEF page
<1>14. u.pages \in [D \cup {c} -> Page] /\ \A q \in D \cup {c} : u.pages[q] = page(q)
  BY <1>4, <1>9, <1>10, <1>11, <1>12, <1>13
<1>15. u.pages[p] = first /\ u.pages[c] = second
  BY <1>11, <1>12, <1>14
<1>16. \A q \in D \ {p} :
         /\ u.pages[q].tokens = t.pages[q].tokens /\ u.pages[q].seq_ids = t.pages[q].seq_ids
         /\ u.pages[q].parent = IF q # root /\ t.pages[q].parent = p THEN c ELSE t.pages[q].parent
  BY <1>13, <1>14
<1>17. u.seq2page = [s \in DOMAIN t.seq2page |-> IF t.seq2page[s] = p THEN c ELSE t.seq2page[s]]
  BY <1>4
<1>18. Cut(t, p, offset, c, u)
  BY <1>3, <1>6, <1>9, <1>10, <1>14, <1>15, <1>16, <1>17 DEF Cut
<1> QED BY <1>1, <1>2, <1>18

\* A page cut in two: the ways to the pages change only at the cut.
LEMMA CutTree ==
  ASSUME NEW t, NEW P, Tree(t, P), NEW p, NEW offset, NEW c, NEW u, Cut(t, p, offset, c, u)
  PROVE  \E Q : /\ Tree(u, Q) /\ Q[c] = P[p]
                /\ Q[p] = PartPath(t, P, p, offset)
                /\ \A q \in DOMAIN t.pages \ {p} : Q[q] = P[q]
                /\ DOMAIN u.seq2page = DOMAIN t.seq2page
                /\ \A s \in DOMAIN t.seq2page : SamePath(t, P, u, Q, s)
<1> DEFINE D == DOMAIN t.pages
           E == D \cup {c}
           l == Length(t, p)
           r == t.pages[p].parent
<1> p \in DOMAIN t.pages \ {root} /\ offset \in Nat /\ 0 < offset /\ offset < Length(t, p)
  BY DEF Cut
<1>1. /\ c \in Nat \ {0} /\ c \notin D
      /\ u.pages \in [E -> Page]
      /\ u.pages[p].parent = r /\ u.pages[p].seq_ids = {}
      /\ u.pages[c].parent = p /\ u.pages[c].seq_ids = t.pages[p].seq_ids
  BY DEF Cut
<1>2. \A q \in D \ {p} :
       /\ u.pages[q].tokens = t.pages[q].tokens /\ u.pages[q].seq_ids = t.pages[q].seq_ids
       /\ u.pages[q].parent = IF q # root /\ t.pages[q].parent = p THEN c ELSE t.pages[q].parent
  BY DEF Cut
<1>3. u.seq2page = [s \in DOMAIN t.seq2page |-> IF t.seq2page[s] = p THEN c ELSE t.seq2page[s]]
  BY DEF Cut
<1>4. DOMAIN u.pages = E
  BY <1>1
<1>5. root \in D /\ c # root /\ p # root /\ c # p
  BY <1>1 DEF Tree, PagesOK, root
<1>6. /\ t.pages[p].tokens \in Texts /\ l = Len(t.pages[p].tokens) /\ l \in 1..PageCapacity /\ l \in Nat
      /\ r \in D
  BY PageTypes DEF Tree
<1>7. Len(P[r]) < Len(P[p]) /\ Len(P[r]) \in Nat /\ Len(P[p]) \in Nat /\ P[r] \in Texts /\ P[p] \in Texts
      /\ P[p] = P[r] \o t.pages[p].tokens
  BY PathTypes DEF Tree
<1> HIDE DEF l, r
<1>8. r # p
  <2>1. PICK a \in Nat, b \in Nat : a = Len(P[r]) /\ b = Len(P[p]) /\ a < b
    BY <1>7
  <2>2. a # b
    BY <2>1
  <2> QED BY <2>1, <2>2
<1>9. PICK x \in Texts, y \in Texts : /\ x = SubSeq(t.pages[p].tokens, 1, offset)
                                      /\ y = SubSeq(t.pages[p].tokens, offset + 1, l)
                                      /\ Len(x) = offset /\ Len(y) = l - offset
                                      /\ x \o y = t.pages[p].tokens
  <2>1. PICK w \in Texts, n \in Nat : w = t.pages[p].tokens /\ n = l /\ n = Len(w) /\ offset < n
    BY <1>6 DEF l
  <2>2. SubSeq(w, 1, offset) \in Texts /\ Len(SubSeq(w, 1, offset)) = offset
    BY <2>1, TakeFacts
  <2>3. SubSeq(w, offset + 1, n) \in Texts /\ Len(SubSeq(w, offset + 1, n)) = n - offset
    BY <2>1, DropFacts
  <2>4. SubSeq(w, 1, offset) \o SubSeq(w, offset + 1, n) = w
    <3>1. offset <= Len(w)
      BY <2>1
    <3>2. SubSeq(w, 1, offset) \o SubSeq(w, offset + 1, Len(w)) = w
      BY <3>1, TakeDrop
    <3> QED BY <2>1, <3>2
  <2> QED BY <2>1, <2>2, <2>3, <2>4
<1>10. u.pages[p].tokens = x /\ u.pages[c].tokens = y
  BY <1>9 DEF Cut, l
<1>11. Len(x) \in 1..PageCapacity /\ Len(y) \in 1..PageCapacity
  <2>1. offset < l
    BY DEF l
  <2>2. PICK i \in Nat, j \in Nat, k \in Nat : i = offset /\ j = l /\ k = PageCapacity /\ i < j /\ j <= k /\ 0 < i
    <3>1. l \in Nat /\ PageCapacity \in Nat /\ l <= PageCapacity
      BY <1>6, CapacityAssumption
    <3> QED BY <2>1, <3>1
  <2>3. i \in 1..k /\ j - i \in 1..k
    BY <2>2
  <2> QED BY <1>9, <2>2, <2>3
<1> DEFINE Q == [q \in E |-> IF q = c THEN P[p] ELSE IF q = p THEN P[r] \o x ELSE P[q]]
<1>12. PagesOK(u)
  <2>1. IsFiniteSet(E) /\ E \subseteq Nat
    BY <1>1, FS_AddElement DEF Tree, PagesOK
  <2>2. u.pages[root].tokens = <<>>
    BY <1>2, <1>5 DEF Tree, PagesOK
  <2>3. ASSUME NEW q \in E \ {root}
        PROVE  u.pages[q].parent \in E /\ Len(u.pages[q].tokens) \in 1..PageCapacity
    <3>1. CASE q = p
      BY <1>1, <1>6, <1>10, <1>11, <3>1
    <3>2. CASE q = c
      BY <1>1, <1>10, <1>11, <3>2
    <3>3. CASE q # p /\ q # c
      <4>1. q \in D \ {p} /\ t.pages[q].parent \in D /\ Len(t.pages[q].tokens) \in 1..PageCapacity
        BY <3>3 DEF Tree, PagesOK
      <4> QED BY <1>2, <4>1
    <3> QED BY <3>1, <3>2, <3>3
  <2> QED BY <1>1, <1>4, <1>5, <2>1, <2>2, <2>3 DEF PagesOK
<1>13. SeqsOK(u)
  <2>1. t.seq2page \in [DOMAIN t.seq2page -> D] /\ DOMAIN t.seq2page \subseteq Int
    BY DEF Tree, SeqsOK
  <2>2. DOMAIN u.seq2page = DOMAIN t.seq2page
        /\ \A s \in DOMAIN t.seq2page : u.seq2page[s] = IF t.seq2page[s] = p THEN c ELSE t.seq2page[s]
    BY <1>3
  <2>3. u.seq2page \in [DOMAIN u.seq2page -> E]
    BY <1>3, <2>1
  <2>4. \A q \in D : t.pages[q].seq_ids = {s \in DOMAIN t.seq2page : t.seq2page[s] = q}
    BY DEF Tree, SeqsOK
  <2>5. \A s \in DOMAIN t.seq2page : t.seq2page[s] # c
    BY <1>1, <2>1
  <2>6. ASSUME NEW q \in E
        PROVE  u.pages[q].seq_ids = {s \in DOMAIN u.seq2page : u.seq2page[s] = q}
    <3>1. CASE q = p
      <4>1. \A s \in DOMAIN t.seq2page : u.seq2page[s] # p
        BY <1>5, <2>2
      <4> QED BY <1>1, <2>2, <3>1, <4>1
    <3>2. CASE q = c
      <4>1. u.pages[q].seq_ids = {s \in DOMAIN t.seq2page : t.seq2page[s] = p}
        BY <1>1, <2>4, <3>2
      <4>2. \A s \in DOMAIN t.seq2page : u.seq2page[s] = q <=> t.seq2page[s] = p
        BY <2>2, <2>5, <3>2
      <4> QED BY <2>2, <4>1, <4>2
    <3>3. CASE q # p /\ q # c
      <4>1. u.pages[q].seq_ids = {s \in DOMAIN t.seq2page : t.seq2page[s] = q}
        BY <1>2, <2>4, <3>3
      <4>2. \A s \in DOMAIN t.seq2page : u.seq2page[s] = q <=> t.seq2page[s] = q
        BY <2>2, <3>3
      <4> QED BY <2>2, <4>1, <4>2
    <3> QED BY <3>1, <3>2, <3>3
  <2> QED BY <1>4, <2>1, <2>2, <2>3, <2>6 DEF SeqsOK
<1>14. P \in [D -> Texts] /\ P[root] = <<>>
       /\ \A q \in D \ {root} : P[q] = P[t.pages[q].parent] \o t.pages[q].tokens
  BY DEF Tree, PathsOK
<1>15. P[r] \o x \in Texts /\ (P[r] \o x) \o y = P[p]
  <2>1. PICK w \in Texts : w = P[r]
    BY <1>7
  <2>2. w \o x \in Texts /\ (w \o x) \o y = w \o (x \o y)
    <3>1. Associates(w, x, y)
      BY JoinAssociative
    <3> QED BY <3>1, JoinFacts DEF Associates
  <2> QED BY <1>7, <1>9, <2>1, <2>2
<1>16. /\ Q \in [E -> Texts] /\ Q[c] = P[p] /\ Q[p] = P[r] \o x /\ Q[root] = <<>>
       /\ \A q \in D \ {p} : Q[q] = P[q]
  BY <1>1, <1>5, <1>7, <1>14, <1>15
<1> HIDE DEF Q
<1>17. PathsOK(u, Q)
  <2>1. ASSUME NEW q \in E \ {root}
        PROVE  Q[q] = Q[u.pages[q].parent] \o u.pages[q].tokens
    <3>1. CASE q = p
      BY <1>1, <1>6, <1>8, <1>10, <1>16, <3>1
    <3>2. CASE q = c
      BY <1>1, <1>10, <1>15, <1>16, <3>2
    <3>3. CASE q # p /\ q # c
      <4>1. q \in D \ {root, p} /\ Q[q] = P[q] /\ u.pages[q].tokens = t.pages[q].tokens /\ t.pages[q].parent \in D
        BY <1>2, <1>16, <3>3 DEF Tree, PagesOK
      <4>2. Q[u.pages[q].parent] = P[t.pages[q].parent]
        BY <1>2, <1>16, <4>1
      <4> QED BY <1>14, <4>1, <4>2
    <3> QED BY <3>1, <3>2, <3>3
  <2> QED BY <1>4, <1>16, <2>1 DEF PathsOK
<1>18. \A s \in DOMAIN t.seq2page : SamePath(t, P, u, Q, s)
  <2> SUFFICES ASSUME NEW s \in DOMAIN t.seq2page PROVE Q[u.seq2page[s]] = P[t.seq2page[s]]
    BY DEF SamePath
  <2>1. t.seq2page[s] \in D
    BY DEF Tree, SeqsOK
  <2>2. u.seq2page[s] = IF t.seq2page[s] = p THEN c ELSE t.seq2page[s]
    BY <1>3
  <2> QED BY <1>16, <2>1, <2>2
<1>19. DOMAIN u.seq2page = DOMAIN t.seq2page
  BY <1>3
<1>20. Tree(u, Q)
  BY <1>12, <1>13, <1>17 DEF Tree
<1>21. Q[p] = PartPath(t, P, p, offset)
  BY <1>9, <1>16 DEF r, PartPath, Take
<1> QED BY <1>16, <1>18, <1>19, <1>20, <1>21
\* SplitPage: a page that ends at the offset, every sequence as it was, and the
\* pages nearer to the root still there.
LEMMA SplitPageTree ==
  ASSUME NEW t, NEW P, Tree(t, P), NEW p \in DOMAIN t.pages \ {root}, NEW offset \in Nat,
         0 < offset, offset < Length(t, p)
  PROVE  LET at == SplitPage(t, p, offset)
         IN  \E Q : /\ Tree(at.tree, Q) /\ DOMAIN at.tree.seq2page = DOMAIN t.seq2page
                    /\ \A s \in DOMAIN t.seq2page : SamePath(t, P, at.tree, Q, s)
                    /\ at.page \in DOMAIN at.tree.pages
                    /\ Q[at.page] = PartPath(t, P, p, offset)
                    /\ \A q \in DOMAIN t.pages : Len(P[q]) < Len(P[p]) => q \in DOMAIN at.tree.pages
<1>1. PICK h : h = Halved(t, p, offset)
  OBVIOUS
<1>2. PICK c : c = Allocate(t)
  OBVIOUS
<1>3. PICK m : m = MergeIfPossible(h, c)
  OBVIOUS
<1>4. PICK r : r = t.pages[p].parent
  OBVIOUS
<1>5. PICK at : at = MergeUp(m, p, r)
  OBVIOUS
<1>6. at = SplitPage(t, p, offset)
  BY <1>1, <1>2, <1>3, <1>4, <1>5 DEF SplitPage
<1>7. Cut(t, p, offset, c, h)
  BY <1>1, <1>2, HalvedPages
<1>8. PICK Q : /\ Tree(h, Q) /\ Q[c] = P[p]
               /\ Q[p] = PartPath(t, P, p, offset)
               /\ \A q \in DOMAIN t.pages \ {p} : Q[q] = P[q]
               /\ DOMAIN h.seq2page = DOMAIN t.seq2page
               /\ \A s \in DOMAIN t.seq2page : SamePath(t, P, h, Q, s)
  BY <1>7, CutTree
<1>9. /\ DOMAIN h.pages = DOMAIN t.pages \cup {c} /\ c \notin DOMAIN t.pages
      /\ h.pages[p].parent = r /\ h.pages[c].parent = p /\ c # root
  BY <1>4, <1>7 DEF Cut, root
<1>10. PICK R : /\ Tree(m, R) /\ DOMAIN m.seq2page = DOMAIN h.seq2page
                /\ \A s \in DOMAIN h.seq2page : SamePath(h, Q, m, R, s)
                /\ \A q \in DOMAIN h.pages : Len(Q[q]) <= Len(Q[c]) => q \in DOMAIN m.pages
                /\ \A q \in DOMAIN h.pages \ {c} : q \in DOMAIN m.pages => R[q] = Q[q]
                /\ \A q \in DOMAIN h.pages \ {root} :
                     Len(Q[q]) <= Len(Q[c]) => m.pages[q].parent = h.pages[q].parent
  <2>1. Tree(h, Q) /\ c \in DOMAIN h.pages
    BY <1>8, <1>9
  <2> QED BY <1>3, <2>1, MergeIfPossibleTree
<1>11. Len(Q[p]) <= Len(Q[c])
  <2>1. Len(Q[p]) < Len(Q[c]) /\ Len(Q[p]) \in Nat /\ Len(Q[c]) \in Nat
    BY <1>8, <1>9, PathTypes DEF Tree
  <2> QED BY <2>1
<1>12. p \in DOMAIN m.pages \ {root} /\ R[p] = Q[p] /\ m.pages[p].parent = r
  BY <1>9, <1>10, <1>11
<1>13. PICK S : /\ Tree(at.tree, S) /\ DOMAIN at.tree.seq2page = DOMAIN m.seq2page
                /\ \A s \in DOMAIN m.seq2page : SamePath(m, R, at.tree, S, s)
                /\ at.page \in DOMAIN at.tree.pages /\ S[at.page] = R[p]
                /\ \A q \in DOMAIN m.pages \ {p} : q \in DOMAIN at.tree.pages
  BY <1>5, <1>10, <1>12, MergeUpTree
<1>14. \A s \in DOMAIN t.seq2page : SamePath(t, P, at.tree, S, s)
  BY <1>8, <1>10, <1>13 DEF SamePath
<1>15. ASSUME NEW q \in DOMAIN t.pages, Len(P[q]) < Len(P[p])
       PROVE  q \in DOMAIN at.tree.pages
  <2>1. P[q] \in Texts /\ P[p] \in Texts
    BY DEF Tree, PathsOK
  <2>2. Len(P[q]) \in Nat /\ Len(P[p]) \in Nat
    BY <2>1 DEF Texts
  <2>3. q # p
    <3>1. PICK a \in Nat, b \in Nat : a = Len(P[q]) /\ b = Len(P[p]) /\ a < b
      BY <1>15, <2>2
    <3>2. a # b
      BY <3>1
    <3> QED BY <3>1, <3>2
  <2>4. q \in DOMAIN h.pages /\ Len(Q[q]) <= Len(Q[c])
    BY <1>8, <1>9, <1>15, <2>2, <2>3
  <2> QED BY <1>10, <1>13, <2>3, <2>4
<1>16. S[at.page] = PartPath(t, P, p, offset)
  BY <1>8, <1>12, <1>13
<1>17. DOMAIN at.tree.seq2page = DOMAIN t.seq2page
  BY <1>8, <1>10, <1>13
<1> QED BY <1>6, <1>13, <1>14, <1>15, <1>16, <1>17

\* The way to an offset in a page is the beginning of the way to the page.
LEMMA PartPathFacts ==
  ASSUME NEW t, NEW P, Tree(t, P), NEW p \in DOMAIN t.pages \ {root}, NEW offset \in Nat, offset <= Length(t, p)
  PROVE  PartPath(t, P, p, offset) = Take(P[p], Len(P[p]) - Length(t, p) + offset)
<1>1. /\ P[t.pages[p].parent] \in Texts /\ t.pages[p].tokens \in Texts
      /\ P[p] = P[t.pages[p].parent] \o t.pages[p].tokens
  BY PathTypes DEF Tree
<1>2. PICK l \in Nat : l = Len(t.pages[p].tokens) /\ l = Length(t, p)
  BY PageTypes DEF Tree
<1>3. PICK a \in Texts, b \in Texts : /\ a = P[t.pages[p].parent] /\ b = t.pages[p].tokens
                                      /\ P[p] = a \o b /\ Len(b) = l
  BY <1>1, <1>2
<1>4. Len(a \o b) = Len(a) + Len(b) /\ Len(a) \in Nat
  BY JoinFacts
<1>5. PICK n \in Nat : n = Len(a) + offset
  BY <1>4
<1>6. offset <= Len(b)
  BY <1>2, <1>3
<1>7. SubSeq(a \o b, 1, n) = a \o SubSeq(b, 1, offset)
  BY <1>5, <1>6, TakeBeyond
<1>8. Len(P[p]) - l + offset = n
  <2>1. PICK d \in Nat, e \in Nat : d = Len(P[p]) /\ e = Len(a) /\ d = e + l
    <3>1. Len(P[p]) = Len(a \o b) /\ Len(b) = l
      BY <1>3
    <3>2. Len(P[p]) = Len(a) + l
      BY <1>4, <3>1
    <3> QED BY <1>4, <3>2
  <2>2. n = e + offset
    BY <1>5, <2>1
  <2>3. d - l + offset = n
    BY <2>1, <2>2
  <2> QED BY <2>1, <2>3
<1> QED BY <1>2, <1>3, <1>7, <1>8 DEF PartPath, Take

\* The tree keeps the sequences of t, and the way to a page of it is w.
Reaches(t, P, w, at, Q) ==
  /\ at.page \in DOMAIN at.tree.pages /\ Tree(at.tree, Q) /\ Q[at.page] = w
  /\ DOMAIN at.tree.seq2page = DOMAIN t.seq2page
  /\ \A s \in DOMAIN t.seq2page : SamePath(t, P, at.tree, Q, s)

\* SplitWithin: the same, where the offset may be the end of the page.
LEMMA SplitWithinTree ==
  ASSUME NEW t, NEW P, Tree(t, P), NEW p \in DOMAIN t.pages, NEW offset \in Nat,
         offset <= Length(t, p), 0 < offset \/ p = root
  PROVE  /\ \E Q : Reaches(t, P, Take(P[p], Len(P[p]) - Length(t, p) + offset), SplitWithin(t, p, offset), Q)
         /\ \A q \in DOMAIN t.pages :
              Len(P[q]) < Len(P[p]) \/ offset = Length(t, p) => q \in DOMAIN SplitWithin(t, p, offset).tree.pages
<1>1. PICK at : at = SplitWithin(t, p, offset)
  OBVIOUS
<1> DEFINE w == Take(P[p], Len(P[p]) - Length(t, p) + offset)
<1>2. PICK l \in Nat : l = Length(t, p) /\ (p = root => l = 0)
  BY PageTypes DEF Tree
<1>3. P[p] \in Texts
  BY DEF Tree, PathsOK
<1>4. CASE offset = l
  <2>1. at = [tree |-> t, page |-> p]
    BY <1>1, <1>2, <1>4 DEF SplitWithin
  <2>2. at.tree = t /\ at.page = p
    BY <2>1
  <2>3. Take(P[p], Len(P[p]) - l + offset) = P[p]
    <3>1. PICK a \in Texts, n \in Nat : a = P[p] /\ n = Len(a)
      BY <1>3 DEF Texts
    <3>2. n - l + offset = n
      BY <1>4
    <3>3. SubSeq(a, 1, n) = a
      BY <3>1, TakeAll
    <3> QED BY <3>1, <3>2, <3>3 DEF Take
  <2>4. Reaches(t, P, w, at, P)
    BY <1>2, <2>2, <2>3 DEF SamePath, Reaches
  <2> QED BY <1>1, <2>2, <2>4
<1>5. CASE offset < l
  <2>1. p # root /\ 0 < offset /\ offset < Length(t, p)
    BY <1>2, <1>5
  <2>2. at = SplitPage(t, p, offset) /\ p \in DOMAIN t.pages \ {root}
    BY <1>1, <2>1 DEF SplitWithin
  <2>3. PICK Q : /\ Tree(at.tree, Q) /\ DOMAIN at.tree.seq2page = DOMAIN t.seq2page
                 /\ \A s \in DOMAIN t.seq2page : SamePath(t, P, at.tree, Q, s)
                 /\ at.page \in DOMAIN at.tree.pages
                 /\ Q[at.page] = PartPath(t, P, p, offset)
                 /\ \A q \in DOMAIN t.pages : Len(P[q]) < Len(P[p]) => q \in DOMAIN at.tree.pages
    BY <2>1, <2>2, SplitPageTree
  <2>4. PartPath(t, P, p, offset) = Take(P[p], Len(P[p]) - Length(t, p) + offset)
    BY <2>2, PartPathFacts
  <2>5. \A q \in DOMAIN t.pages :
          Len(P[q]) < Len(P[p]) \/ offset = Length(t, p) => q \in DOMAIN at.tree.pages
    <3>1. offset # Length(t, p)
      BY <1>2, <1>5
    <3> QED BY <2>3, <3>1
  <2>6. Q[at.page] = Take(P[p], Len(P[p]) - Length(t, p) + offset)
    BY <2>3, <2>4
  <2>7. Reaches(t, P, w, at, Q)
    BY <2>3, <2>6 DEF Reaches
  <2> QED BY <1>1, <2>5, <2>7
<1> QED BY <1>2, <1>4, <1>5
-----------------------------------------------------------------------------
(* The tokens of a sequence are looked for.                                *)

\* The common prefix of two sequences.
LEMMA CommonPrefixFacts ==
  ASSUME NEW a \in Texts, NEW b \in Texts, NEW n, n = CommonPrefix(a, b)
  PROVE  /\ n \in Nat /\ n <= Len(a) /\ n <= Len(b) /\ Take(a, n) = Take(b, n)
         /\ (0 < Len(a) /\ 0 < Len(b) /\ a[1] = b[1]) => 0 < n
<1>1. PICK k \in Nat, l \in Nat : k = Len(a) /\ l = Len(b)
  BY DEF Texts
<1>2. PICK m \in Nat : m = Min({k, l}) /\ m <= k /\ m <= l /\ (m = k \/ m = l)
  <2>1. Min({k, l}) = IF k <= l THEN k ELSE l
    BY MinPair
  <2> QED BY <2>1
<1> DEFINE S == {i \in 0..m : \A j \in 1..i : a[j] = b[j]}
<1>3. n = Max(S)
  BY <1>1, <1>2 DEF CommonPrefix
<1>4. S \in SUBSET (0..m) /\ 0 \in S
  OBVIOUS
<1>5. 0 < m /\ a[1] = b[1] => 1 \in S
  OBVIOUS
<1>6. \A i \in S : \A j \in 1..i : a[j] = b[j]
  OBVIOUS
<1> HIDE DEF S
<1>7. n \in S /\ \A y \in S : n >= y
  BY <1>3, <1>4, MaxFacts
<1>8. n \in 0..m /\ \A j \in 1..n : a[j] = b[j]
  BY <1>4, <1>6, <1>7
<1>9. n \in Nat /\ n <= k /\ n <= l
  BY <1>2, <1>8
<1>10. Take(a, n) = Take(b, n)
  <2>1. /\ SubSeq(a, 1, n) \in Texts /\ Len(SubSeq(a, 1, n)) = n
        /\ \A i \in 1..n : SubSeq(a, 1, n)[i] = a[i]
    BY <1>1, <1>9, TakeFacts
  <2>2. /\ SubSeq(b, 1, n) \in Texts /\ Len(SubSeq(b, 1, n)) = n
        /\ \A i \in 1..n : SubSeq(b, 1, n)[i] = b[i]
    BY <1>1, <1>9, TakeFacts
  <2>3. PICK x \in Texts, y \in Texts : x = SubSeq(a, 1, n) /\ y = SubSeq(b, 1, n)
    BY <2>1, <2>2
  <2>4. \A i \in 1..n : x[i] = y[i]
    BY <1>8, <2>1, <2>2, <2>3
  <2>5. x = y
    BY <1>9, <2>1, <2>2, <2>3, <2>4, SameText
  <2> QED BY <2>3, <2>5 DEF Take
<1>11. 0 < k /\ 0 < l /\ a[1] = b[1] => 0 < n
  <2> SUFFICES ASSUME 0 < k, 0 < l, a[1] = b[1] PROVE 0 < n
    OBVIOUS
  <2>1. 1 \in S
    BY <1>2, <1>5
  <2>2. n >= 1
    BY <1>7, <2>1
  <2> QED BY <1>9, <2>2
<1> QED BY <1>1, <1>9, <1>10, <1>11

\* The steps of the walk of MatchSequence.
Onward(t, tokens, x) ==
  {c \in Children(t, x[1]) : x[2] < Len(tokens) /\ t.pages[c].tokens[1] = tokens[x[2] + 1]}
Onto(t, tokens, x) == CHOOSE c \in Onward(t, tokens, x) : TRUE
Matches(t, tokens, x) ==
  CommonPrefix(t.pages[Onto(t, tokens, x)].tokens, SubSeq(tokens, x[2] + 1, Len(tokens)))
Walked(t, tokens, f, x) ==
  IF Onward(t, tokens, x) = {} THEN [page |-> x[1], offset |-> x[2], in_page |-> Length(t, x[1])]
  ELSE IF Matches(t, tokens, x) < Length(t, Onto(t, tokens, x))
       THEN [page |-> Onto(t, tokens, x), offset |-> x[2] + Matches(t, tokens, x), in_page |-> Matches(t, tokens, x)]
       ELSE f[<<Onto(t, tokens, x), x[2] + Matches(t, tokens, x)>>]

\* A step of the walk takes tokens of the page it goes to.
LEMMA OnwardFacts ==
  ASSUME NEW t, NEW P, Tree(t, P), NEW tokens \in Texts, NEW q \in DOMAIN t.pages, NEW o \in 0..Len(tokens),
         NEW x, x = <<q, o>>, Onward(t, tokens, x) # {}, NEW c, c = Onto(t, tokens, x),
         NEW n, n = Matches(t, tokens, x)
  PROVE  /\ c \in DOMAIN t.pages \ {root} /\ t.pages[c].parent = q
         /\ n \in Nat /\ 0 < n /\ n <= Length(t, c) /\ o + n <= Len(tokens)
         /\ Take(t.pages[c].tokens, n) = Slice(tokens, o, o + n)
<1>1. x[1] = q /\ x[2] = o
  OBVIOUS
<1>2. c \in Onward(t, tokens, x)
  BY DEF Onto
<1>3. /\ c \in DOMAIN t.pages \ {root} /\ t.pages[c].parent = q
      /\ o < Len(tokens) /\ t.pages[c].tokens[1] = tokens[o + 1]
  BY <1>1, <1>2 DEF Onward, Children
<1>4. PICK l \in Nat : l = Len(tokens) /\ o \in Nat /\ o < l
  BY <1>3 DEF Texts
<1>5. PICK a \in Texts : a = t.pages[c].tokens /\ Len(a) \in 1..PageCapacity /\ Len(a) = Length(t, c)
  BY <1>3, PageTypes DEF Tree
<1>6. /\ SubSeq(tokens, o + 1, l) \in Texts /\ Len(SubSeq(tokens, o + 1, l)) = l - o
      /\ \A i \in 1..(l - o) : SubSeq(tokens, o + 1, l)[i] = tokens[o + i]
  BY <1>4, DropFacts
<1>7. PICK b \in Texts : b = SubSeq(tokens, o + 1, l) /\ Len(b) = l - o /\ \A i \in 1..(l - o) : b[i] = tokens[o + i]
  BY <1>6
<1>8. a[1] = b[1]
  <2>1. 1 \in 1..(l - o)
    BY <1>4
  <2> QED BY <1>3, <1>5, <1>7, <2>1
<1>9. n = CommonPrefix(a, b)
  BY <1>1, <1>4, <1>5, <1>7 DEF Matches
<1>10. /\ n \in Nat /\ n <= Len(a) /\ n <= Len(b) /\ Take(a, n) = Take(b, n)
       /\ (0 < Len(a) /\ 0 < Len(b) /\ a[1] = b[1]) => 0 < n
  BY <1>9, CommonPrefixFacts
<1>11. 0 < Len(a) /\ 0 < Len(b) /\ o + n <= l
  BY <1>4, <1>5, <1>7, <1>10, CapacityAssumption
<1>12. Take(b, n) = Slice(tokens, o, o + n)
  <2>1. PICK j \in Nat : j = o + n /\ o <= j /\ j <= l
    BY <1>4, <1>10, <1>11
  <2>2. o \in Nat /\ o <= j /\ j <= l /\ l <= Len(tokens)
    BY <1>4, <2>1
  <2>3. /\ Slice(tokens, o, j) \o Slice(tokens, j, l) = Slice(tokens, o, l)
        /\ Slice(tokens, o, j) \in Texts /\ Len(Slice(tokens, o, j)) = j - o
    BY <2>2, Adjacent, Zenon
  <2>4. Slice(tokens, j, l) \in Texts /\ Slice(tokens, o, l) = b
    BY <1>4, <1>7, <2>1, DropFacts DEF Slice
  <2>5. PICK y \in Texts, z \in Texts : /\ y = Slice(tokens, o, j) /\ Len(y) = j - o /\ y \o z = b
    BY <2>3, <2>4
  <2>6. n = Len(y) /\ n <= Len(y)
    BY <1>10, <2>1, <2>2, <2>5
  <2>7. SubSeq(y \o z, 1, n) = SubSeq(y, 1, n)
    BY <1>10, <2>6, TakeOfJoin
  <2>8. SubSeq(y, 1, Len(y)) = y
    BY TakeAll
  <2>9. Take(b, n) = y
    BY <2>5, <2>6, <2>7, <2>8 DEF Take
  <2> QED BY <2>1, <2>5, <2>9
<1> QED BY <1>3, <1>4, <1>5, <1>8, <1>10, <1>11, <1>12
\* The local recursive function of MatchSequence exists.
LEMMA MatchRec ==
  ASSUME NEW t, NEW P, Tree(t, P), NEW tokens \in Texts, NEW p \in DOMAIN t.pages
  PROVE  \E walk : /\ walk = [x \in (DOMAIN t.pages) \X (0..Len(tokens)) |-> Walked(t, tokens, walk, x)]
                   /\ MatchSequence(t, p, tokens) = walk[<<p, 0>>]
<1> DEFINE D == (DOMAIN t.pages) \X (0..Len(tokens))
           Body(f, x) == Walked(t, tokens, f, x)
           Walk(f) == f = [x \in D |-> Body(f, x)]
           Upto(k, f) == f \in [D -> {f[x] : x \in D}] /\ \A x \in D : Len(tokens) - x[2] <= k => f[x] = Body(f, x)
<1>1. Len(tokens) \in Nat
  BY DEF Texts
<1>2. \A x \in D : x[2] \in Nat /\ x[2] <= Len(tokens) /\ Len(tokens) - x[2] \in Nat
  BY <1>1
<1>3. ASSUME NEW x \in D, NEW f, NEW g,
             (/\ Onward(t, tokens, x) # {}
              /\ <<Onto(t, tokens, x), x[2] + Matches(t, tokens, x)>> \in D
              /\ Len(tokens) - (x[2] + Matches(t, tokens, x)) < Len(tokens) - x[2])
               => f[<<Onto(t, tokens, x), x[2] + Matches(t, tokens, x)>>]
                  = g[<<Onto(t, tokens, x), x[2] + Matches(t, tokens, x)>>]
      PROVE  Body(f, x) = Body(g, x)
  <2>1. CASE Onward(t, tokens, x) = {}
    BY <2>1 DEF Walked
  <2>2. CASE Onward(t, tokens, x) # {}
    <3>1. PICK q \in DOMAIN t.pages, o \in 0..Len(tokens) : x = <<q, o>>
      OBVIOUS
    <3>2. PICK c, n : c = Onto(t, tokens, x) /\ n = Matches(t, tokens, x)
      OBVIOUS
    <3>3. /\ c \in DOMAIN t.pages \ {root} /\ n \in Nat /\ 0 < n /\ o + n <= Len(tokens)
      BY <2>2, <3>1, <3>2, OnwardFacts
    <3>4. x[2] = o /\ o \in Nat
      BY <1>1, <3>1
    <3>5. <<c, o + n>> \in D /\ Len(tokens) - (o + n) < Len(tokens) - o
      BY <1>1, <3>3, <3>4
    <3>6. f[<<c, o + n>>] = g[<<c, o + n>>]
      BY <1>3, <2>2, <3>2, <3>4, <3>5
    <3> QED BY <3>2, <3>4, <3>6 DEF Walked
  <2> QED BY <2>1, <2>2
<1> DEFINE Bad == {k \in Nat : ~\E f : Upto(k, f)}
<1>4. Bad = {}
  <2> SUFFICES ASSUME Bad # {} PROVE FALSE
    OBVIOUS
  <2>1. PICK k \in Bad : \A y \in Bad : k <= y
    <3>1. Bad \in SUBSET Nat
      OBVIOUS
    <3> HIDE DEF Bad
    <3> QED BY <3>1, LeastNumber
  <2> HIDE DEF Body, D
  <2>2. \E f : f \in [D -> {f[x] : x \in D}] /\ \A x \in D : Len(tokens) - x[2] < k => f[x] = Body(f, x)
    <3>1. CASE k = 0
      <4> DEFINE f == [x \in D |-> <<>>]
      <4>1. f \in [D -> {f[x] : x \in D}]
        OBVIOUS
      <4>2. \A x \in D : ~(Len(tokens) - x[2] < k)
        BY <1>2, <3>1
      <4> HIDE DEF f
      <4> QED BY <4>1, <4>2
    <3>2. CASE k # 0
      <4>1. k - 1 \in Nat /\ ~(k <= k - 1)
        BY <3>2
      <4>2. PICK f : Upto(k - 1, f)
        BY <2>1, <4>1
      <4>3. \A x \in D : Len(tokens) - x[2] < k => Len(tokens) - x[2] <= k - 1
        <5>1. k \in Nat
          BY <2>1
        <5> QED BY <1>2, <4>1, <5>1
      <4> QED BY <4>2, <4>3
    <3> QED BY <3>1, <3>2
  <2>3. PICK f : f \in [D -> {f[x] : x \in D}] /\ \A x \in D : Len(tokens) - x[2] < k => f[x] = Body(f, x)
    BY <2>2
  <2> DEFINE g == [x \in D |-> Body(f, x)]
  <2>4. \A x \in D : Len(tokens) - x[2] < k => g[x] = f[x]
    BY <2>3
  <2>5. \A x \in D : g[x] = Body(f, x)
    OBVIOUS
  <2>6. g \in [D -> {g[x] : x \in D}]
    OBVIOUS
  <2> HIDE DEF g
  <2>7. ASSUME NEW x \in D, Len(tokens) - x[2] <= k
        PROVE  g[x] = Body(g, x)
    <3>1. PICK y : y = <<Onto(t, tokens, x), x[2] + Matches(t, tokens, x)>>
      OBVIOUS
    <3>2. y \in D /\ Len(tokens) - (x[2] + Matches(t, tokens, x)) < Len(tokens) - x[2] => f[y] = g[y]
      <4> SUFFICES ASSUME y \in D, Len(tokens) - (x[2] + Matches(t, tokens, x)) < Len(tokens) - x[2]
                   PROVE  f[y] = g[y]
        OBVIOUS
      <4>1. y[2] = x[2] + Matches(t, tokens, x)
        BY <3>1
      <4>2. Len(tokens) - y[2] < k
        <5>1. PICK a \in Nat, b \in Nat : a = Len(tokens) - y[2] /\ b = Len(tokens) - x[2]
          BY <1>2
        <5>2. a < b /\ b <= k /\ k \in Nat
          BY <2>1, <2>7, <4>1, <5>1
        <5> QED BY <5>1, <5>2
      <4> QED BY <2>4, <4>2
    <3>3. Body(f, x) = Body(g, x)
      BY <1>3, <3>1, <3>2
    <3> QED BY <2>5, <3>3
  <2> QED BY <2>1, <2>6, <2>7
<1> HIDE DEF Body, D
<1>5. PICK f : Upto(Len(tokens), f)
  BY <1>1, <1>4
<1>6. Walk(f)
  <2>1. \A x \in D : Len(tokens) - x[2] <= Len(tokens)
    BY <1>1, <1>2
  <2> QED BY <1>5, <2>1
<1>7. MatchSequence(t, p, tokens) = (CHOOSE u : Walk(u))[<<p, 0>>]
  BY Zenon DEF MatchSequence, D, Body, Walked, Onward, Onto, Matches
<1>8. Walk(CHOOSE u : Walk(u))
  BY <1>6, Zenon
<1> QED BY <1>7, <1>8, Zenon DEF D, Body
\* Where a walk from the page q may end that has o of the tokens behind it: in a
\* page that the tokens lead to, at the tokens it has matched.
Found(t, P, tokens, q, o, m) ==
  /\ m.page \in DOMAIN t.pages /\ m.offset \in Nat /\ o <= m.offset /\ m.offset <= Len(tokens)
  /\ m.in_page \in Nat /\ m.in_page <= Length(t, m.page) /\ (0 < m.in_page \/ m.page = root)
  /\ Take(P[m.page], Len(P[m.page]) - Length(t, m.page) + m.in_page) = P[q] \o Slice(tokens, o, m.offset)
  /\ (m.page = q /\ m.in_page = Length(t, q)) \/ Len(P[q]) < Len(P[m.page])

\* The walk ends where it is.
LEMMA FoundHere ==
  ASSUME NEW t, NEW P, Tree(t, P), NEW tokens \in Texts, NEW q \in DOMAIN t.pages, NEW o \in 0..Len(tokens),
         NEW m, m = [page |-> q, offset |-> o, in_page |-> Length(t, q)]
  PROVE  Found(t, P, tokens, q, o, m)
<1>1. m.page = q /\ m.offset = o /\ m.in_page = Length(t, q)
  OBVIOUS
<1>2. PICK l \in Nat : l = Length(t, q) /\ (0 < l \/ q = root)
  BY PageTypes DEF Tree
<1>3. PICK a \in Texts, n \in Nat : a = P[q] /\ n = Len(a)
  BY DEF Tree, PathsOK, Texts
<1>4. Len(tokens) \in Nat
  BY DEF Texts
<1>5. Slice(tokens, o, o) = <<>>
  <2>1. o \in Nat /\ o <= o /\ o <= Len(tokens)
    BY <1>4
  <2>2. Slice(tokens, o, o) \in Texts /\ Len(Slice(tokens, o, o)) = o - o
    BY <2>1, Adjacent, Zenon
  <2>3. PICK y \in Texts : y = Slice(tokens, o, o) /\ Len(y) = 0
    BY <2>1, <2>2
  <2>4. y = <<>>
    BY <2>3 DEF Texts
  <2> QED BY <2>3, <2>4
<1>6. a \o <<>> = a
  BY JoinEmpty
<1>7. SubSeq(a, 1, n) = a
  BY <1>3, TakeAll
<1>8. n - l + l = n
  OBVIOUS
<1>9. Take(P[q], Len(P[q]) - Length(t, q) + m.in_page) = P[q] \o Slice(tokens, o, o)
  BY <1>1, <1>2, <1>3, <1>5, <1>6, <1>7, <1>8 DEF Take
<1>10. o \in Nat /\ o <= o /\ o <= Len(tokens)
  BY <1>4
<1>11. l <= l
  OBVIOUS
<1> QED BY <1>1, <1>2, <1>9, <1>10, <1>11 DEF Found

\* The walk ends inside the next page.
LEMMA FoundInside ==
  ASSUME NEW t, NEW P, Tree(t, P), NEW tokens \in Texts, NEW q \in DOMAIN t.pages, NEW o \in 0..Len(tokens),
         NEW c \in DOMAIN t.pages \ {root}, t.pages[c].parent = q,
         NEW n \in Nat, 0 < n, n <= Length(t, c), o + n <= Len(tokens),
         Take(t.pages[c].tokens, n) = Slice(tokens, o, o + n),
         NEW m, m = [page |-> c, offset |-> o + n, in_page |-> n]
  PROVE  Found(t, P, tokens, q, o, m)
<1>1. m.page = c /\ m.offset = o + n /\ m.in_page = n
  OBVIOUS
<1>2. Len(tokens) \in Nat
  BY DEF Texts
<1>3. o + n \in Nat /\ o <= o + n
  BY <1>2
<1>4. Len(P[q]) < Len(P[c])
  BY PathTypes DEF Tree
<1>5. PartPath(t, P, c, n) = Take(P[c], Len(P[c]) - Length(t, c) + n)
  BY PartPathFacts
<1>6. PartPath(t, P, c, n) = P[q] \o Slice(tokens, o, o + n)
  BY DEF PartPath
<1> QED BY <1>1, <1>3, <1>4, <1>5, <1>6 DEF Found

\* The walk goes on from the next page.
LEMMA FoundBelow ==
  ASSUME NEW t, NEW P, Tree(t, P), NEW tokens \in Texts, NEW q \in DOMAIN t.pages, NEW o \in 0..Len(tokens),
         NEW c \in DOMAIN t.pages \ {root}, t.pages[c].parent = q,
         NEW n \in Nat, n = Length(t, c), o + n <= Len(tokens),
         Take(t.pages[c].tokens, n) = Slice(tokens, o, o + n),
         NEW m, Found(t, P, tokens, c, o + n, m)
  PROVE  Found(t, P, tokens, q, o, m)
<1>1. /\ m.page \in DOMAIN t.pages /\ m.offset \in Nat /\ o + n <= m.offset /\ m.offset <= Len(tokens)
      /\ m.in_page \in Nat /\ m.in_page <= Length(t, m.page) /\ (0 < m.in_page \/ m.page = root)
      /\ Take(P[m.page], Len(P[m.page]) - Length(t, m.page) + m.in_page) = P[c] \o Slice(tokens, o + n, m.offset)
      /\ (m.page = c /\ m.in_page = Length(t, c)) \/ Len(P[c]) < Len(P[m.page])
  BY DEF Found
<1>2. PICK i \in Nat, j \in Nat, k \in Nat : /\ i = o /\ j = o + n /\ k = m.offset
                                             /\ i <= j /\ j <= k /\ k <= Len(tokens)
  BY <1>1 DEF Texts
<1>3. /\ Slice(tokens, i, j) \o Slice(tokens, j, k) = Slice(tokens, i, k)
      /\ Slice(tokens, i, j) \in Texts
  <2>1. i <= j /\ j <= k /\ k <= Len(tokens)
    BY <1>2
  <2> QED BY <2>1, Adjacent, ZenonT(40)
<1>4. Slice(tokens, j, k) \in Texts
  <2>1. j <= k /\ k <= k /\ k <= Len(tokens)
    BY <1>2
  <2> QED BY <2>1, Adjacent, Zenon
<1>5. /\ P[c] \in Texts /\ P[q] \in Texts /\ P[c] = P[q] \o t.pages[c].tokens
      /\ Len(P[q]) < Len(P[c]) /\ Len(P[q]) \in Nat /\ Len(P[c]) \in Nat
  BY PathTypes DEF Tree
<1>6. PICK w \in Texts : w = t.pages[c].tokens /\ Len(w) = n
  BY PageTypes DEF Tree
<1>7. Take(w, n) = w
  BY <1>6, TakeAll DEF Take
<1>8. PICK a \in Texts, x \in Texts, y \in Texts : a = P[q] /\ x = Slice(tokens, i, j) /\ y = Slice(tokens, j, k)
  BY <1>3, <1>4, <1>5
<1>9. P[c] = a \o x
  BY <1>2, <1>5, <1>6, <1>7, <1>8
<1>10. (a \o x) \o y = a \o (x \o y)
  <2>1. Associates(a, x, y)
    BY JoinAssociative
  <2> QED BY <2>1 DEF Associates
<1>11. P[c] \o Slice(tokens, o + n, m.offset) = P[q] \o Slice(tokens, o, m.offset)
  BY <1>2, <1>3, <1>8, <1>9, <1>10
<1>12. Len(P[q]) < Len(P[m.page])
  <2>1. CASE m.page = c
    BY <1>5, <2>1
  <2>2. CASE Len(P[c]) < Len(P[m.page])
    <3>1. Len(P[m.page]) \in Nat
      <4>1. PICK g \in Texts : g = P[m.page]
        BY <1>1 DEF Tree, PathsOK
      <4> QED BY <4>1 DEF Texts
    <3>2. PICK d \in Nat, e \in Nat, f \in Nat : /\ d = Len(P[q]) /\ e = Len(P[c]) /\ f = Len(P[m.page])
                                                 /\ d < e /\ e < f
      BY <1>5, <2>2, <3>1
    <3>3. d < f
      BY <3>2
    <3> QED BY <3>2, <3>3
  <2> QED BY <1>1, <2>1, <2>2
<1>13. o <= m.offset
  BY <1>2
<1> QED BY <1>1, <1>11, <1>12, <1>13 DEF Found

\* MatchSequence ends at a page, or inside one, that the tokens lead to.
LEMMA MatchSequenceFacts ==
  ASSUME NEW t, NEW P, Tree(t, P), NEW tokens \in Texts, NEW p \in DOMAIN t.pages
  PROVE  Found(t, P, tokens, p, 0, MatchSequence(t, p, tokens))
<1> DEFINE D == (DOMAIN t.pages) \X (0..Len(tokens))
<1>1. PICK walk : /\ walk = [x \in D |-> Walked(t, tokens, walk, x)]
                  /\ MatchSequence(t, p, tokens) = walk[<<p, 0>>]
  BY MatchRec, ZenonT(40)
<1>2. \A x \in D : walk[x] = Walked(t, tokens, walk, x)
  BY <1>1
<1>3. Len(tokens) \in Nat
  BY DEF Texts
<1> DEFINE Good(k) == \A q \in DOMAIN t.pages, o \in 0..Len(tokens) :
                        Len(tokens) - o = k => Found(t, P, tokens, q, o, walk[<<q, o>>])
           Bad == {k \in Nat : ~Good(k)}
<1>4. Bad = {}
  <2> SUFFICES ASSUME Bad # {} PROVE FALSE
    OBVIOUS
  <2>1. PICK k \in Bad : \A y \in Bad : k <= y
    <3>1. Bad \in SUBSET Nat
      OBVIOUS
    <3> HIDE DEF Bad
    <3> QED BY <3>1, LeastNumber
  <2>2. ASSUME NEW q \in DOMAIN t.pages, NEW o \in 0..Len(tokens), Len(tokens) - o = k
        PROVE  Found(t, P, tokens, q, o, walk[<<q, o>>])
    <3>1. PICK x : x = <<q, o>>
      OBVIOUS
    <3>2. x \in D /\ x[1] = q /\ x[2] = o
      BY <3>1
    <3>3. PICK m : m = walk[x] /\ m = Walked(t, tokens, walk, x)
      BY <1>2, <3>2
    <3>4. CASE Onward(t, tokens, x) = {}
      <4>1. m = [page |-> q, offset |-> o, in_page |-> Length(t, q)]
        BY <3>2, <3>3, <3>4 DEF Walked
      <4>2. Found(t, P, tokens, q, o, m)
        BY <4>1, FoundHere
      <4> QED BY <3>1, <3>3, <4>2
    <3>5. CASE Onward(t, tokens, x) # {}
      <4>1. PICK c, n : c = Onto(t, tokens, x) /\ n = Matches(t, tokens, x)
        OBVIOUS
      <4>2. /\ c \in DOMAIN t.pages \ {root} /\ t.pages[c].parent = q
            /\ n \in Nat /\ 0 < n /\ n <= Length(t, c) /\ o + n <= Len(tokens)
            /\ Take(t.pages[c].tokens, n) = Slice(tokens, o, o + n)
        <5> HIDE DEF Good, Bad, D
        <5>1. Take(t.pages[c].tokens, n) = Slice(tokens, o, o + n)
          BY <3>1, <3>5, <4>1, OnwardFacts
        <5> QED BY <3>1, <3>5, <4>1, <5>1, OnwardFacts
      <4>3. CASE n < Length(t, c)
        <5>1. m = [page |-> c, offset |-> o + n, in_page |-> n]
          BY <3>2, <3>3, <3>5, <4>1, <4>3 DEF Walked
        <5>2. Found(t, P, tokens, q, o, m)
          BY <4>2, <5>1, FoundInside
        <5> QED BY <3>1, <3>3, <5>2
      <4>4. CASE ~(n < Length(t, c))
        <5>1. m = walk[<<c, o + n>>]
          BY <3>2, <3>3, <3>5, <4>1, <4>4 DEF Walked
        <5>2. n = Length(t, c)
          <6>1. PICK l \in Nat : l = Length(t, c)
            BY <4>2, PageTypes DEF Tree
          <6> QED BY <4>2, <4>4, <6>1
        <5>3. o + n \in 0..Len(tokens) /\ Len(tokens) - (o + n) \in Nat /\ Len(tokens) - (o + n) < k
          BY <1>3, <2>2, <4>2
        <5>4. Good(Len(tokens) - (o + n))
          <6> HIDE DEF Good
          <6>1. ~(k <= Len(tokens) - (o + n))
            BY <2>1, <5>3
          <6> QED BY <2>1, <5>3, <6>1
        <5>5. Found(t, P, tokens, c, o + n, m)
          BY <4>2, <5>1, <5>3, <5>4
        <5>6. Found(t, P, tokens, q, o, m)
          BY <4>2, <5>2, <5>5, FoundBelow
        <5> QED BY <3>1, <3>3, <5>6
      <4> QED BY <4>3, <4>4
    <3> QED BY <3>4, <3>5
  <2> QED BY <2>1, <2>2
<1>5. 0 \in 0..Len(tokens) /\ Len(tokens) - 0 \in Nat
  BY <1>3
<1>6. Good(Len(tokens) - 0)
  <2> HIDE DEF Good
  <2> QED BY <1>4, <1>5
<1> QED BY <1>1, <1>5, <1>6
-----------------------------------------------------------------------------
(* Tokens are appended.                                                    *)

\* How many of n tokens the first i pages take, and how many pages n tokens need.
Filled(i, n) == Min({i * PageCapacity, n})
PagesFor(n) == (n + PageCapacity - 1) \div PageCapacity

\* Every page that is needed takes at least one token, and as many as fit.
LEMMA ChunkFacts ==
  ASSUME NEW n \in Nat, NEW num, num = PagesFor(n)
  PROVE  /\ num \in Nat /\ Filled(0, n) = 0 /\ Filled(num, n) = n
         /\ \A i \in 1..num : /\ Filled(i - 1, n) = (i - 1) * PageCapacity
                              /\ Filled(i, n) \in Nat /\ Filled(i - 1, n) \in Nat
                              /\ Filled(i - 1, n) < Filled(i, n) /\ Filled(i, n) <= n
                              /\ Filled(i, n) <= Filled(i - 1, n) + PageCapacity
<1>1. PICK k \in Nat : k = PageCapacity /\ k >= 1
  BY CapacityAssumption
<1>2. num \in Nat /\ num * k <= n + k - 1 /\ n + k - 1 < num * k + k
  <2>1. PICK m \in Nat : m = n + k - 1
    BY <1>1
  <2>2. m \div k \in Nat /\ (m \div k) * k <= m /\ m < (m \div k) * k + k
    BY <1>1
  <2>3. num = m \div k
    BY <1>1, <2>1 DEF PagesFor
  <2> QED BY <2>1, <2>2, <2>3
<1>3. ASSUME NEW i \in Nat
      PROVE  i * k \in Nat /\ Filled(i, n) = IF i * k <= n THEN i * k ELSE n
  <2>1. i * k \in Nat
    OBVIOUS
  <2>2. PICK a \in Nat : a = i * k
    BY <2>1
  <2>3. Min({a, n}) = IF a <= n THEN a ELSE n
    BY MinPair
  <2> QED BY <1>1, <2>2, <2>3 DEF Filled
<1>4. 0 * k = 0
  OBVIOUS
<1>5. Filled(0, n) = 0
  BY <1>3, <1>4
<1>6. Filled(num, n) = n
  BY <1>1, <1>2, <1>3
<1>7. ASSUME NEW i \in 1..num
      PROVE  /\ Filled(i - 1, n) = (i - 1) * k
             /\ Filled(i, n) \in Nat /\ Filled(i - 1, n) \in Nat
             /\ Filled(i - 1, n) < Filled(i, n) /\ Filled(i, n) <= n
             /\ Filled(i, n) <= Filled(i - 1, n) + k
  <2>1. i \in Nat /\ i - 1 \in Nat /\ num - i \in Nat
    BY <1>2
  <2>2. (num - i) * k \in Nat /\ (num - i) * k = num * k - i * k /\ i * k = (i - 1) * k + k
    BY <1>2, <2>1
  <2>3. PICK a \in Nat, b \in Nat : a = i * k /\ b = (i - 1) * k /\ a = b + k
    BY <1>3, <2>1, <2>2
  <2>4. b < n
    <3>1. PICK c \in Nat, d \in Nat : c = num * k /\ d = (num - i) * k /\ c <= n + k - 1 /\ d = c - a
      BY <1>2, <1>3, <2>2, <2>3
    <3> QED BY <2>3, <3>1
  <2>5. Filled(i - 1, n) = b
    BY <1>3, <2>1, <2>3, <2>4
  <2>6. Filled(i, n) = IF a <= n THEN a ELSE n
    BY <1>3, <2>1, <2>3
  <2> QED BY <1>1, <2>3, <2>4, <2>5, <2>6
<1> QED BY <1>1, <1>2, <1>5, <1>6, <1>7
\* A tree is its pages and the pages of its sequences.
LEMMA SameTree ==
  ASSUME NEW t, NEW P, Tree(t, P), NEW u, u.pages = t.pages, u.seq2page = t.seq2page
  PROVE  Tree(u, P)
<1>1. PagesOK(u)
  BY DEF Tree, PagesOK
<1>2. SeqsOK(u)
  BY DEF Tree, SeqsOK
<1>3. PathsOK(u, P)
  BY DEF Tree, PathsOK
<1> QED BY <1>1, <1>2, <1>3 DEF Tree

\* What the i-th new page takes, and the trees after each of the first n.
Piece(tokens, i) == SubSeq(tokens, (i - 1) * PageCapacity + 1, Min({i * PageCapacity, Len(tokens)}))
Inserted(at, tokens, n, f) ==
  f = [i \in 0..n |-> IF i = 0 THEN at ELSE InsertChild(f[i - 1].tree, f[i - 1].page, Piece(tokens, i))]

\* The local recursive function of AppendPages exists.
LEMMA AppendRec ==
  ASSUME NEW at, NEW tokens \in Texts, NEW n \in Nat, n = PagesFor(Len(tokens))
  PROVE  \E f : /\ Inserted(at, tokens, n, f)
                /\ AppendPages(at, tokens) = [tree |-> WithPages(at.tree, f[n].tree.pages), page |-> f[n].page]
<1> DEFINE Bad == {m \in 0..n : ~\E f : Inserted(at, tokens, m, f)}
           One(f, i) == InsertChild(f[i - 1].tree, f[i - 1].page, Piece(tokens, i))
<1>1. Bad = {}
  <2> SUFFICES ASSUME Bad # {} PROVE FALSE
    OBVIOUS
  <2>1. PICK m \in Bad : \A y \in Bad : m <= y
    <3>1. Bad \in SUBSET Nat
      OBVIOUS
    <3> HIDE DEF Bad
    <3> QED BY <3>1, LeastNumber
  <2>2. m # 0
    <3> DEFINE g == [i \in 0..0 |-> at]
    <3>1. Inserted(at, tokens, 0, g)
      BY DEF Inserted
    <3> HIDE DEF g
    <3> QED BY <2>1, <3>1
  <2>3. PICK f : Inserted(at, tokens, m - 1, f)
    <3>1. m \in 0..n /\ m - 1 \in 0..n /\ ~(m <= m - 1)
      BY <2>1, <2>2
    <3> QED BY <2>1, <3>1
  <2>4. /\ \A i \in 0..(m - 1) : f[i] = IF i = 0 THEN at ELSE One(f, i)
        /\ m \in Nat /\ m > 0
    <3>1. m \in Nat /\ m > 0
      BY <2>1, <2>2
    <3> QED BY <2>3, <3>1 DEF Inserted
  <2> DEFINE g == [i \in 0..m |-> IF i < m THEN f[i] ELSE One(f, m)]
  <2>5. Inserted(at, tokens, m, g)
    <3>1. ASSUME NEW i \in 0..m
          PROVE  g[i] = IF i = 0 THEN at ELSE One(g, i)
      <4>1. CASE i = m
        <5>1. g[m] = One(f, m) /\ g[m - 1] = f[m - 1]
          BY <2>4
        <5> HIDE DEF g
        <5> QED BY <4>1, <5>1, <2>4
      <4>2. CASE i # m
        <5>1. i \in 0..(m - 1) /\ g[i] = f[i]
          BY <2>4, <4>2
        <5>2. i # 0 => g[i - 1] = f[i - 1]
          BY <2>4, <4>2
        <5> HIDE DEF g
        <5> QED BY <5>1, <5>2, <2>4
      <4> QED BY <4>1, <4>2
    <3>2. g = [i \in 0..m |-> g[i]]
      OBVIOUS
    <3> HIDE DEF g
    <3> QED BY <3>1, <3>2 DEF Inserted
  <2> HIDE DEF g
  <2> QED BY <2>1, <2>5
<1>2. AppendPages(at, tokens) =
        LET g == CHOOSE f : Inserted(at, tokens, PagesFor(Len(tokens)), f)
        IN  [tree |-> WithPages(at.tree, g[PagesFor(Len(tokens))].tree.pages), page |-> g[PagesFor(Len(tokens))].page]
  BY Zenon DEF AppendPages, Inserted, Piece, PagesFor
<1>3. \E f : Inserted(at, tokens, n, f)
  <2>1. n \in 0..n
    OBVIOUS
  <2> QED BY <1>1, <2>1
<1>4. PICK f : f = CHOOSE g : Inserted(at, tokens, n, g)
  OBVIOUS
<1>5. Inserted(at, tokens, n, f)
  BY <1>3, <1>4, Zenon
<1>6. AppendPages(at, tokens) = [tree |-> WithPages(at.tree, f[n].tree.pages), page |-> f[n].page]
  BY <1>2, <1>4
<1> QED BY <1>5, <1>6

\* AppendPages: a page that the tokens lead to, and nothing else changed.
LEMMA AppendPagesTree ==
  ASSUME NEW at, NEW P, Tree(at.tree, P), at.page \in DOMAIN at.tree.pages, NEW tokens \in Texts
  PROVE  \E Q : Grown(at.tree, P, P[at.page] \o tokens, AppendPages(at, tokens), Q)
<1>1. PICK l \in Nat : l = Len(tokens)
  BY DEF Texts
<1>2. PICK num \in Nat : num = PagesFor(l)
  BY <1>1, ChunkFacts
<1>3. /\ Filled(0, l) = 0 /\ Filled(num, l) = l
      /\ \A i \in 1..num : /\ Filled(i - 1, l) = (i - 1) * PageCapacity
                           /\ Filled(i, l) \in Nat /\ Filled(i - 1, l) \in Nat
                           /\ Filled(i - 1, l) < Filled(i, l) /\ Filled(i, l) <= l
                           /\ Filled(i, l) <= Filled(i - 1, l) + PageCapacity
  BY <1>2, ChunkFacts
<1>4. PICK f : /\ Inserted(at, tokens, num, f)
               /\ AppendPages(at, tokens) = [tree |-> WithPages(at.tree, f[num].tree.pages), page |-> f[num].page]
  BY <1>1, <1>2, AppendRec
<1>5. /\ f[0] = at
      /\ \A i \in 1..num : f[i] = InsertChild(f[i - 1].tree, f[i - 1].page, Piece(tokens, i))
  BY <1>4 DEF Inserted
<1> DEFINE D == DOMAIN at.tree.pages
           Reached(i, Q) == /\ Tree(f[i].tree, Q) /\ f[i].page \in DOMAIN f[i].tree.pages
                            /\ D \subseteq DOMAIN f[i].tree.pages /\ f[i].tree.seq2page = at.tree.seq2page
                            /\ Q[f[i].page] = P[at.page] \o Slice(tokens, 0, Filled(i, l))
                            /\ \A q \in D : Q[q] = P[q]
           Bad == {i \in 0..num : ~\E Q : Reached(i, Q)}
<1>6. P[at.page] \in Texts
  BY DEF Tree, PathsOK
<1>7. Reached(0, P)
  <2>1. Slice(tokens, 0, 0) = <<>>
    BY DEF Slice, Texts
  <2>2. PICK a \in Texts : a = P[at.page]
    BY <1>6
  <2>3. a \o <<>> = a
    BY JoinEmpty
  <2> QED BY <1>3, <1>5, <2>1, <2>2, <2>3
<1>8. Bad = {}
  <2> SUFFICES ASSUME Bad # {} PROVE FALSE
    OBVIOUS
  <2> HIDE DEF Reached
  <2>1. PICK i \in Bad : \A y \in Bad : i <= y
    <3>1. Bad \in SUBSET Nat
      OBVIOUS
    <3> HIDE DEF Bad
    <3> QED BY <3>1, LeastNumber
  <2>2. i \in 1..num /\ i - 1 \in 0..num /\ ~(i <= i - 1)
    BY <1>7, <2>1
  <2>3. PICK Q : Reached(i - 1, Q)
    BY <2>1, <2>2
  <2>4. PICK t, p : t = f[i - 1].tree /\ p = f[i - 1].page
    OBVIOUS
  <2>5. PICK a \in Nat, b \in Nat : a = Filled(i - 1, l) /\ b = Filled(i, l) /\ a < b /\ b <= l /\ b <= a + PageCapacity
    BY <1>3, <2>2
  <2>6. PICK X : X = Piece(tokens, i)
    OBVIOUS
  <2>7. X = Slice(tokens, a, b)
    BY <1>1, <1>3, <2>2, <2>5, <2>6 DEF Piece, Filled, Slice
  <2>8. 0 <= a /\ a <= b /\ b <= Len(tokens) /\ b <= b /\ 0 \in Nat
    BY <1>1, <2>5
  <2>9. /\ Slice(tokens, 0, a) \o Slice(tokens, a, b) = Slice(tokens, 0, b)
        /\ Slice(tokens, 0, a) \in Texts
    BY <2>8, Adjacent, Zenon
  <2>10. Slice(tokens, a, b) \in Texts /\ Len(Slice(tokens, a, b)) = b - a
    BY <2>8, Adjacent, Zenon
  <2>11. X \in Texts /\ Len(X) \in 1..PageCapacity
    BY <2>5, <2>7, <2>10, CapacityAssumption
  <2>12. /\ Tree(t, Q) /\ p \in DOMAIN t.pages
         /\ D \subseteq DOMAIN t.pages /\ t.seq2page = at.tree.seq2page
         /\ Q[p] = P[at.page] \o Slice(tokens, 0, a)
         /\ \A q \in D : Q[q] = P[q]
    BY <2>3, <2>4, <2>5 DEF Reached
  <2>13. PICK new : new = InsertChild(t, p, X) /\ new = f[i]
    BY <1>5, <2>2, <2>4, <2>6
  <2>14. PICK R : Grown(t, Q, Q[p] \o X, InsertChild(t, p, X), R)
    BY <2>11, <2>12, InsertChildTree
  <2>15. /\ new.page \in DOMAIN new.tree.pages
         /\ DOMAIN t.pages \subseteq DOMAIN new.tree.pages
         /\ new.tree.seq2page = t.seq2page
         /\ Tree(new.tree, R) /\ R[new.page] = Q[p] \o X
         /\ \A q \in DOMAIN t.pages : R[q] = Q[q]
    BY <2>13, <2>14 DEF Grown
  <2>16. R[new.page] = P[at.page] \o Slice(tokens, 0, b)
    <3>1. PICK x \in Texts, y \in Texts, z \in Texts :
            x = P[at.page] /\ y = Slice(tokens, 0, a) /\ z = X
      BY <1>6, <2>9, <2>11
    <3>2. (x \o y) \o z = x \o (y \o z)
      <4>1. Associates(x, y, z)
        BY JoinAssociative
      <4> QED BY <4>1 DEF Associates
    <3> QED BY <2>7, <2>9, <2>12, <2>15, <3>1, <3>2
  <2>17. Reached(i, R)
    BY <2>5, <2>12, <2>13, <2>14, <2>15, <2>16 DEF Reached
  <2> QED BY <2>1, <2>17
<1>9. PICK Q : Reached(num, Q)
  <2>1. num \in 0..num
    OBVIOUS
  <2> HIDE DEF Reached
  <2> QED BY <1>8, <2>1
<1>10. PICK end : end = AppendPages(at, tokens)
  OBVIOUS
<1>11. end.page = f[num].page /\ end.tree.pages = f[num].tree.pages /\ end.tree.seq2page = at.tree.seq2page
  BY <1>4, <1>10 DEF WithPages
<1>12. Slice(tokens, 0, l) = tokens
  BY <1>1, TakeAll DEF Slice
<1>13. Tree(end.tree, Q)
  BY <1>9, <1>11, SameTree
<1>14. Q[end.page] = P[at.page] \o tokens /\ \A q \in D : Q[q] = P[q]
  BY <1>3, <1>9, <1>11, <1>12
<1>15. end.page \in DOMAIN end.tree.pages /\ D \subseteq DOMAIN end.tree.pages
  BY <1>9, <1>11
<1>16. Grown(at.tree, P, P[at.page] \o tokens, end, Q)
  BY <1>11, <1>13, <1>14, <1>15 DEF Grown
<1> QED BY <1>10, <1>16
\* The tokens of a page are replaced.
Retokened(t, p, X) == [tree |-> WithPages(t, [t.pages EXCEPT ![p].tokens = X]), page |-> p]

\* Those of a leaf that ends no sequence are on the way of no sequence.
LEMMA RetokenReaches ==
  ASSUME NEW t, NEW P, Tree(t, P), NEW p \in DOMAIN t.pages \ {root}, Unused(t, p),
         NEW X \in Texts, Len(X) \in 1..PageCapacity
  PROVE  /\ \E Q : Reaches(t, P, P[t.pages[p].parent] \o X, Retokened(t, p, X), Q)
         /\ DOMAIN Retokened(t, p, X).tree.pages = DOMAIN t.pages
<1>1. PICK u : u = WithPages(t, [t.pages EXCEPT ![p].tokens = X])
  OBVIOUS
<1>2. PICK Q : Q = [P EXCEPT ![p] = P[t.pages[p].parent] \o X]
  OBVIOUS
<1>3. Tree(u, Q) /\ DOMAIN u.pages = DOMAIN t.pages /\ u.seq2page = t.seq2page
  BY <1>1, <1>2, RetokenTree
<1>4. PICK at : at = Retokened(t, p, X)
  OBVIOUS
<1>5. at.tree = u /\ at.page = p
  BY <1>1, <1>4 DEF Retokened
<1>6. P \in [DOMAIN t.pages -> Texts]
  BY DEF Tree, PathsOK
<1>7. Q[p] = P[t.pages[p].parent] \o X /\ \A q \in DOMAIN t.pages \ {p} : Q[q] = P[q]
  BY <1>2, <1>6
<1>8. \A s \in DOMAIN t.seq2page : t.seq2page[s] \in DOMAIN t.pages \ {p}
  <2>1. \A s \in DOMAIN t.seq2page : t.seq2page[s] # p
    BY UnusedFacts
  <2>2. \A s \in DOMAIN t.seq2page : t.seq2page[s] \in DOMAIN t.pages
    BY DEF Tree, SeqsOK
  <2> QED BY <2>1, <2>2
<1>9. \A s \in DOMAIN t.seq2page : SamePath(t, P, u, Q, s)
  BY <1>3, <1>7, <1>8 DEF SamePath
<1>10. Reaches(t, P, P[t.pages[p].parent] \o X, at, Q)
  BY <1>3, <1>5, <1>7, <1>9 DEF Reaches
<1> QED BY <1>3, <1>4, <1>5, <1>10

\* AppendTokens: a page that the tokens lead to, and the sequences as they were.
LEMMA AppendTokensTree ==
  ASSUME NEW at, NEW P, Tree(at.tree, P), at.page \in DOMAIN at.tree.pages, NEW tokens \in Texts
  PROVE  /\ \E Q : Reaches(at.tree, P, P[at.page] \o tokens, AppendTokens(at, tokens), Q)
         /\ DOMAIN at.tree.pages \subseteq DOMAIN AppendTokens(at, tokens).tree.pages
<1>1. PICK t, p : t = at.tree /\ p = at.page
  OBVIOUS
<1>2. Tree(t, P) /\ p \in DOMAIN t.pages
  BY <1>1
<1>3. PICK room : room = Room(t, p, tokens)
  OBVIOUS
<1>4. PICK l \in Nat : l = Len(tokens)
  BY DEF Texts
<1>5. PICK n \in Nat : n = Length(t, p) /\ n <= Capacity(p) /\ Capacity(p) \in Nat /\ (p # root => n >= 1)
  <2>1. CASE p = root
    <3>1. Length(t, p) = 0
      BY <1>2, <2>1, PageTypes DEF Tree
    <3> QED BY <2>1, <3>1 DEF Capacity
  <2>2. CASE p # root
    <3>1. Length(t, p) \in 1..PageCapacity
      BY <1>2, <2>2, PageTypes DEF Tree
    <3> QED BY <2>2, <3>1, CapacityAssumption DEF Capacity
  <2> QED BY <2>1, <2>2
<1>6. room \in Nat /\ room <= l /\ room + n <= Capacity(p) /\ (~Unused(t, p) => room = 0)
  <2>1. CASE Unused(t, p)
    <3>1. PICK d \in Nat : d = Capacity(p) - n
      BY <1>5
    <3>2. Min({d, l}) = IF d <= l THEN d ELSE l
      BY MinPair
    <3>3. room = Min({d, l})
      BY <1>3, <1>4, <1>5, <2>1, <3>1 DEF Room
    <3>4. room \in Nat /\ room <= l /\ room <= d
      BY <3>2, <3>3
    <3> QED BY <1>5, <2>1, <3>1, <3>4
  <2>2. CASE ~Unused(t, p)
    <3>1. room = 0
      BY <1>3, <2>2 DEF Room
    <3> QED BY <1>4, <1>5, <2>2, <3>1
  <2> QED BY <2>1, <2>2
<1>7. PICK x \in Texts, y \in Texts : x = SubSeq(tokens, 1, room) /\ y = SubSeq(tokens, room + 1, l)
                                      /\ x \o y = tokens /\ Len(x) = room
  <2>1. room <= Len(tokens)
    BY <1>4, <1>6
  <2>2. SubSeq(tokens, 1, room) \in Texts /\ Len(SubSeq(tokens, 1, room)) = room
    BY <1>6, <2>1, TakeFacts
  <2>3. SubSeq(tokens, room + 1, l) \in Texts
    BY <1>4, <1>6, DropFacts
  <2>4. SubSeq(tokens, 1, room) \o SubSeq(tokens, room + 1, Len(tokens)) = tokens
    BY <1>6, <2>1, TakeDrop
  <2> QED BY <1>4, <2>2, <2>3, <2>4
<1>8. PICK z \in Texts : z = t.pages[p].tokens /\ Len(z) = n
  BY <1>2, <1>5, PageTypes DEF Tree
<1>9. z \o x \in Texts /\ Len(z \o x) = n + room
  <2>1. z \o x \in Texts /\ Len(z \o x) = Len(z) + Len(x)
    BY JoinFacts
  <2> QED BY <1>7, <1>8, <2>1
<1>10. PICK mid : mid = Retokened(t, p, z \o x)
  OBVIOUS
<1>11. AppendTokens(at, tokens) = AppendPages(mid, y)
  <2>1. AppendTokens(at, tokens) =
          AppendPages([tree |-> WithPages(t, [t.pages EXCEPT ![p].tokens = @ \o SubSeq(tokens, 1, room)]), page |-> p],
                      SubSeq(tokens, room + 1, Len(tokens)))
    BY <1>1, <1>3 DEF AppendTokens
  <2>2. [t.pages EXCEPT ![p].tokens = @ \o x] = [t.pages EXCEPT ![p].tokens = z \o x]
    BY <1>8
  <2> QED BY <1>4, <1>7, <1>10, <2>1, <2>2 DEF Retokened
<1>12. PICK v \in Texts : v = P[p]
  BY <1>2 DEF Tree, PathsOK
<1>13. /\ \E Q : Reaches(t, P, v \o x, mid, Q)
       /\ DOMAIN mid.tree.pages = DOMAIN t.pages
  <2>1. CASE Unused(t, p) /\ p # root
    <3>1. Len(z \o x) \in 1..PageCapacity
      BY <1>5, <1>6, <1>9, <2>1, CapacityAssumption DEF Capacity
    <3>2. /\ \E Q : Reaches(t, P, P[t.pages[p].parent] \o (z \o x), mid, Q)
          /\ DOMAIN mid.tree.pages = DOMAIN t.pages
      BY <1>2, <1>9, <1>10, <2>1, <3>1, RetokenReaches, ZenonT(40)
    <3>3. PICK g \in Texts : g = P[t.pages[p].parent] /\ v = g \o z
      <4>1. P[t.pages[p].parent] \in Texts /\ P[p] = P[t.pages[p].parent] \o t.pages[p].tokens
        <5>1. PagesOK(t) /\ PathsOK(t, P) /\ p \in DOMAIN t.pages \ {root}
          BY <1>2, <2>1 DEF Tree
        <5> QED BY <5>1, PathTypes
      <4> QED BY <1>8, <1>12, <4>1
    <3>4. (g \o z) \o x = g \o (z \o x)
      <4>1. Associates(g, z, x)
        BY JoinAssociative
      <4> QED BY <4>1 DEF Associates
    <3> QED BY <3>2, <3>3, <3>4
  <2>2. CASE ~(Unused(t, p) /\ p # root)
    <3>1. room = 0
      BY <1>5, <1>6, <2>2 DEF Capacity
    <3>2. x = <<>>
      BY <1>7, <3>1 DEF Texts
    <3>3. z \o x = z /\ v \o x = v
      BY <3>2, JoinEmpty
    <3>4. [t.pages EXCEPT ![p].tokens = z] = t.pages
      <4>1. t.pages \in [DOMAIN t.pages -> Page]
        BY <1>2 DEF Tree, PagesOK
      <4>2. PICK r \in Page : r = t.pages[p] /\ r.tokens = z
        BY <1>2, <1>8, <4>1
      <4>3. [r EXCEPT !.tokens = z] = r
        BY <4>2 DEF Page
      <4>4. [t.pages EXCEPT ![p].tokens = z] = [t.pages EXCEPT ![p] = [r EXCEPT !.tokens = z]]
        BY <4>2
      <4>5. [t.pages EXCEPT ![p] = r] = t.pages
        BY <4>1, <4>2
      <4> QED BY <4>3, <4>4, <4>5
    <3>5. mid.tree.pages = t.pages /\ mid.tree.seq2page = t.seq2page /\ mid.page = p
      BY <1>10, <3>3, <3>4 DEF Retokened, WithPages
    <3>6. Tree(mid.tree, P)
      BY <1>2, <3>5, SameTree
    <3>7. Reaches(t, P, v \o x, mid, P)
      BY <1>2, <1>12, <3>3, <3>5, <3>6 DEF Reaches, SamePath
    <3> QED BY <3>5, <3>7
  <2> QED BY <2>1, <2>2
<1>14. PICK Q : Reaches(t, P, v \o x, mid, Q)
  BY <1>13
<1>15. /\ mid.page \in DOMAIN mid.tree.pages /\ Tree(mid.tree, Q) /\ Q[mid.page] = v \o x
       /\ DOMAIN mid.tree.seq2page = DOMAIN t.seq2page
       /\ \A s \in DOMAIN t.seq2page : SamePath(t, P, mid.tree, Q, s)
  BY <1>14 DEF Reaches
<1>16. PICK R : Grown(mid.tree, Q, Q[mid.page] \o y, AppendPages(mid, y), R)
  BY <1>15, AppendPagesTree
<1>17. PICK end : end = AppendPages(mid, y)
  OBVIOUS
<1>18. /\ end.page \in DOMAIN end.tree.pages /\ DOMAIN mid.tree.pages \subseteq DOMAIN end.tree.pages
       /\ end.tree.seq2page = mid.tree.seq2page
       /\ Tree(end.tree, R) /\ R[end.page] = Q[mid.page] \o y
       /\ \A q \in DOMAIN mid.tree.pages : R[q] = Q[q]
  BY <1>16, <1>17 DEF Grown
<1>19. R[end.page] = v \o tokens
  <2>1. (v \o x) \o y = v \o (x \o y)
    <3>1. Associates(v, x, y)
      BY JoinAssociative
    <3> QED BY <3>1 DEF Associates
  <2> QED BY <1>7, <1>15, <1>18, <2>1
<1>20. \A s \in DOMAIN t.seq2page : SamePath(t, P, end.tree, R, s)
  <2>1. \A s \in DOMAIN mid.tree.seq2page : mid.tree.seq2page[s] \in DOMAIN mid.tree.pages
    BY <1>15 DEF Tree, SeqsOK
  <2> QED BY <1>15, <1>18, <2>1 DEF SamePath
<1>21. Reaches(t, P, v \o tokens, end, R)
  BY <1>15, <1>18, <1>19, <1>20 DEF Reaches
<1> QED BY <1>1, <1>11, <1>12, <1>13, <1>17, <1>18, <1>21
-----------------------------------------------------------------------------
(* What the operations promise, by the sequences of the tree.              *)

IsTree(t) == \E P : Tree(t, P)
\* The tree u has the sequence s with the tokens w, and the other sequences of t.
Holding(t, u, s, w) ==
  /\ IsTree(u) /\ DOMAIN u.seq2page = DOMAIN t.seq2page \cup {s}
  /\ GetSequence(u, s) = w
  /\ \A x \in DOMAIN t.seq2page \ {s} : GetSequence(u, x) = GetSequence(t, x)

\* The tokens of a sequence are those on the way to its page.
LEMMA SequenceIs ==
  ASSUME NEW t, NEW P, Tree(t, P), NEW s \in DOMAIN t.seq2page
  PROVE  GetSequence(t, s) = P[t.seq2page[s]] /\ GetSequence(t, s) \in Texts /\ t.seq2page[s] \in DOMAIN t.pages
<1>1. t.seq2page[s] \in DOMAIN t.pages
  BY DEF Tree, SeqsOK
<1>2. PICK q \in DOMAIN t.pages : q = t.seq2page[s]
  BY <1>1
<1>3. PathTokens(t, q) = P[q]
  BY PathTokensFacts DEF Tree
<1>4. P[q] \in Texts
  BY DEF Tree, PathsOK
<1> QED BY <1>2, <1>3, <1>4 DEF GetSequence

\* The sequences that have the same way have the same tokens.
LEMMA SameSequence ==
  ASSUME NEW t, NEW P, Tree(t, P), NEW u, NEW Q, Tree(u, Q), NEW s \in DOMAIN t.seq2page,
         s \in DOMAIN u.seq2page, SamePath(t, P, u, Q, s)
  PROVE  GetSequence(u, s) = GetSequence(t, s)
<1>1. GetSequence(t, s) = P[t.seq2page[s]]
  BY SequenceIs
<1>2. GetSequence(u, s) = Q[u.seq2page[s]]
  BY SequenceIs
<1> QED BY <1>1, <1>2 DEF SamePath

\* One change after the other.
LEMMA ReachesOnward ==
  ASSUME NEW t, NEW P, NEW w, NEW a, NEW Q, NEW v, NEW b, NEW R,
         Reaches(t, P, w, a, Q), Reaches(a.tree, Q, v, b, R)
  PROVE  Reaches(t, P, v, b, R)
BY DEF Reaches, SamePath

\* A sequence is added at a page that the tokens w lead to.
LEMMA AddAtHolds ==
  ASSUME NEW t, NEW P, Tree(t, P), NEW s \in Int, s \notin DOMAIN t.seq2page,
         NEW w, NEW at, NEW Q, Reaches(t, P, w, at, Q)
  PROVE  Holding(t, AddAt(at, s), s, w) /\ DOMAIN AddAt(at, s).pages = DOMAIN at.tree.pages
<1>1. PICK a, p : a = at.tree /\ p = at.page
  OBVIOUS
<1>2. PICK u : u = AddToPage(a, p, s) /\ u = AddAt(at, s)
  BY <1>1 DEF AddAt
<1>3. /\ p \in DOMAIN a.pages /\ Tree(a, Q) /\ Q[p] = w
      /\ DOMAIN a.seq2page = DOMAIN t.seq2page
      /\ \A x \in DOMAIN t.seq2page : SamePath(t, P, a, Q, x)
  BY <1>1 DEF Reaches
<1>4. /\ Tree(u, Q) /\ DOMAIN u.pages = DOMAIN a.pages
      /\ DOMAIN u.seq2page = DOMAIN a.seq2page \cup {s} /\ u.seq2page[s] = p
      /\ \A x \in DOMAIN a.seq2page : u.seq2page[x] = a.seq2page[x]
  <2>1. Tree(a, Q) /\ p \in DOMAIN a.pages /\ s \notin DOMAIN a.seq2page
    BY <1>3
  <2>2. Joined(a, Q, p, s, AddToPage(a, p, s))
    BY <2>1, AddToPageTree
  <2> QED BY <1>2, <2>2 DEF Joined
<1>5. GetSequence(u, s) = w
  <2>1. GetSequence(u, s) = Q[u.seq2page[s]]
    BY <1>4, SequenceIs
  <2> QED BY <1>3, <1>4, <2>1
<1>6. ASSUME NEW x \in DOMAIN t.seq2page
      PROVE  GetSequence(u, x) = GetSequence(t, x)
  <2>1. SamePath(t, P, u, Q, x)
    BY <1>3, <1>4 DEF SamePath
  <2>2. x \in DOMAIN u.seq2page
    BY <1>3, <1>4
  <2> QED BY <1>4, <2>1, <2>2, SameSequence
<1>7. Holding(t, u, s, w)
  BY <1>3, <1>4, <1>5, <1>6 DEF Holding, IsTree
<1> QED BY <1>1, <1>2, <1>4, <1>7

\* A page may be merged afterwards.
LEMMA MergeHolds ==
  ASSUME NEW t, NEW u, NEW s, NEW w, Holding(t, u, s, w), NEW p \in DOMAIN u.pages
  PROVE  Holding(t, MergeIfPossible(u, p), s, w)
<1>1. PICK P : Tree(u, P)
  BY DEF Holding, IsTree
<1>2. PICK v : v = MergeIfPossible(u, p)
  OBVIOUS
<1>3. PICK Q : /\ Tree(v, Q) /\ DOMAIN v.seq2page = DOMAIN u.seq2page
               /\ \A x \in DOMAIN u.seq2page : SamePath(u, P, v, Q, x)
  BY <1>1, <1>2, MergeIfPossibleTree
<1>4. \A x \in DOMAIN u.seq2page : GetSequence(v, x) = GetSequence(u, x)
  BY <1>1, <1>3, SameSequence
<1>5. Holding(t, v, s, w)
  BY <1>3, <1>4 DEF Holding, IsTree
<1> QED BY <1>2, <1>5

\* A sequence that has been taken out and put in again.
LEMMA PopHolds ==
  ASSUME NEW t, NEW P, Tree(t, P), NEW s \in DOMAIN t.seq2page, NEW u, NEW w, Holding(PopSequence(t, s), u, s, w)
  PROVE  Holding(t, u, s, w)
<1>1. PICK v : v = PopSequence(t, s)
  OBVIOUS
<1>2. /\ Tree(v, P) /\ DOMAIN v.seq2page = DOMAIN t.seq2page \ {s}
      /\ \A x \in DOMAIN t.seq2page \ {s} : v.seq2page[x] = t.seq2page[x]
  BY <1>1, PopSequenceTree
<1>3. ASSUME NEW x \in DOMAIN t.seq2page \ {s}
      PROVE  GetSequence(v, x) = GetSequence(t, x)
  <2>1. SamePath(t, P, v, P, x) /\ x \in DOMAIN v.seq2page /\ x \in DOMAIN t.seq2page
    BY <1>2 DEF SamePath
  <2> QED BY <1>2, <2>1, SameSequence
<1>4. Holding(v, u, s, w)
  BY <1>1
<1> QED BY <1>2, <1>3, <1>4 DEF Holding

\* PagedRadixTreeImpl::ExtendSequence appends the tokens to the sequence, through
\* whatever it matches, splits, fills and merges, and leaves every other sequence
\* as it is.
THEOREM ExtendHolds ==
  ASSUME NEW t, IsTree(t), NEW s \in DOMAIN t.seq2page, NEW tokens \in Texts
  PROVE  Holding(t, ExtendSequence(t, s, tokens), s, GetSequence(t, s) \o tokens)
<1>1. PICK P : Tree(t, P)
  BY DEF IsTree
<1>2. PICK v, original : v = PopSequence(t, s) /\ original = t.seq2page[s]
  OBVIOUS
<1>3. PICK m : m = MatchSequence(v, original, tokens)
  OBVIOUS
<1>4. PICK a : a = SplitWithin(v, m.page, m.in_page)
  OBVIOUS
<1>5. PICK l \in Nat : l = Len(tokens)
  BY DEF Texts
<1>6. PICK rest : rest = SubSeq(tokens, m.offset + 1, l)
  OBVIOUS
<1>7. PICK b : b = AppendTokens(a, rest)
  OBVIOUS
<1>8. PICK u : u = AddAt(b, s)
  OBVIOUS
<1>9. ExtendSequence(t, s, tokens) = MergeIfPossible(u, original)
  BY <1>2, <1>3, <1>4, <1>5, <1>6, <1>7, <1>8 DEF ExtendSequence, ExtendFrom
<1>10. /\ Tree(v, P) /\ DOMAIN v.pages = DOMAIN t.pages /\ DOMAIN v.seq2page = DOMAIN t.seq2page \ {s}
  BY <1>1, <1>2, PopSequenceTree
<1>11. /\ original \in DOMAIN v.pages /\ GetSequence(t, s) = P[original] /\ P[original] \in Texts
  BY <1>1, <1>2, <1>10, SequenceIs
<1>12. Found(v, P, tokens, original, 0, m)
  BY <1>3, <1>10, <1>11, MatchSequenceFacts
<1>13. /\ m.page \in DOMAIN v.pages /\ m.offset \in Nat /\ 0 <= m.offset /\ m.offset <= Len(tokens)
       /\ m.in_page \in Nat /\ m.in_page <= Length(v, m.page) /\ (0 < m.in_page \/ m.page = root)
       /\ Take(P[m.page], Len(P[m.page]) - Length(v, m.page) + m.in_page) = P[original] \o Slice(tokens, 0, m.offset)
       /\ (m.page = original /\ m.in_page = Length(v, original)) \/ Len(P[original]) < Len(P[m.page])
  BY <1>12 DEF Found
<1>14. PICK p \in DOMAIN v.pages, k \in Nat : p = m.page /\ k = m.in_page
  BY <1>13
<1>15. /\ \E Q : Reaches(v, P, Take(P[p], Len(P[p]) - Length(v, p) + k), SplitWithin(v, p, k), Q)
       /\ \A q \in DOMAIN v.pages :
            Len(P[q]) < Len(P[p]) \/ k = Length(v, p) => q \in DOMAIN SplitWithin(v, p, k).tree.pages
  <2>1. k <= Length(v, p) /\ (0 < k \/ p = root)
    BY <1>13, <1>14
  <2> QED BY <1>10, <2>1, SplitWithinTree
<1>16. original \in DOMAIN a.tree.pages
  BY <1>4, <1>11, <1>13, <1>14, <1>15
<1>17. PICK w \in Texts, x \in Texts, n \in Nat : w = P[original] /\ n = m.offset /\ x = Slice(tokens, 0, n)
  <2>1. PICK n \in Nat : n = m.offset /\ 0 <= n /\ n <= n /\ n <= Len(tokens) /\ 0 \in Nat
    BY <1>13
  <2>2. Slice(tokens, 0, n) \in Texts
    BY <2>1, Adjacent, Zenon
  <2> QED BY <1>11, <2>1, <2>2
<1>18. PICK Q : Reaches(v, P, w \o x, a, Q)
  BY <1>4, <1>13, <1>14, <1>15, <1>17
<1>19. a.page \in DOMAIN a.tree.pages /\ Tree(a.tree, Q) /\ Q[a.page] = w \o x
  BY <1>18 DEF Reaches
<1>20. rest \in Texts /\ x \o rest = tokens
  <2>1. n <= l /\ n <= Len(tokens)
    BY <1>5, <1>13, <1>17
  <2>2. SubSeq(tokens, n + 1, l) \in Texts
    BY <1>5, <2>1, DropFacts
  <2>3. SubSeq(tokens, 1, n) \o SubSeq(tokens, n + 1, Len(tokens)) = tokens
    BY <2>1, TakeDrop
  <2>4. x = SubSeq(tokens, 1, n)
    BY <1>17 DEF Slice
  <2> QED BY <1>5, <1>6, <1>17, <2>2, <2>3, <2>4
<1>21. /\ \E R : Reaches(a.tree, Q, Q[a.page] \o rest, AppendTokens(a, rest), R)
       /\ DOMAIN a.tree.pages \subseteq DOMAIN AppendTokens(a, rest).tree.pages
  BY <1>19, <1>20, AppendTokensTree
<1>22. PICK R : Reaches(a.tree, Q, Q[a.page] \o rest, b, R)
  BY <1>7, <1>21
<1>23. Q[a.page] \o rest = w \o tokens
  <2>1. PICK y \in Texts : y = rest
    BY <1>20
  <2>2. (w \o x) \o y = w \o (x \o y)
    <3>1. Associates(w, x, y)
      BY JoinAssociative
    <3> QED BY <3>1 DEF Associates
  <2> QED BY <1>19, <1>20, <2>1, <2>2
<1>24. Reaches(v, P, w \o tokens, b, R)
  <2>1. Reaches(a.tree, Q, w \o tokens, b, R)
    BY <1>22, <1>23
  <2> QED BY <1>18, <2>1, ReachesOnward
<1>25. s \in Int /\ s \notin DOMAIN v.seq2page
  BY <1>1, <1>10 DEF Tree, SeqsOK
<1>26. Holding(v, u, s, w \o tokens) /\ DOMAIN u.pages = DOMAIN b.tree.pages
  BY <1>8, <1>10, <1>24, <1>25, AddAtHolds
<1>27. original \in DOMAIN u.pages
  BY <1>7, <1>16, <1>21, <1>26
<1>28. Holding(v, MergeIfPossible(u, original), s, w \o tokens)
  BY <1>26, <1>27, MergeHolds
<1>29. Holding(t, MergeIfPossible(u, original), s, w \o tokens)
  BY <1>1, <1>2, <1>28, PopHolds
<1> QED BY <1>9, <1>11, <1>17, <1>29
-----------------------------------------------------------------------------
(* Pages are freed.                                                        *)

\* The tree u is t without some of the pages S.
Pruned(t, P, u, S) ==
  /\ Tree(u, Restricted(P, DOMAIN u.pages)) /\ u.seq2page = t.seq2page
  /\ DOMAIN u.pages \subseteq DOMAIN t.pages /\ DOMAIN t.pages \ S \subseteq DOMAIN u.pages
  /\ \A q \in DOMAIN u.pages : u.pages[q] = t.pages[q]

\* FreePages without a page.
Shed(t, u, c) ==
  IF Unused(u, c) THEN WithPages(t, Restricted(u.pages, DOMAIN u.pages \ {c})) ELSE u
Sheds(t, chain, n, f) == f = [i \in 0..n |-> IF i = 0 THEN t ELSE Shed(t, f[i - 1], chain[i])]

\* A page that is not used can go.
LEMMA ShedPruned ==
  ASSUME NEW t, NEW P, Tree(t, P), NEW u, NEW S, Pruned(t, P, u, S), NEW c, c # root
  PROVE  Pruned(t, P, Shed(t, u, c), S \cup {c})
<1>1. PICK v : v = Shed(t, u, c)
  OBVIOUS
<1> DEFINE D == DOMAIN u.pages
           Q == Restricted(P, D)
<1>2. /\ Tree(u, Q) /\ u.seq2page = t.seq2page
      /\ D \subseteq DOMAIN t.pages /\ DOMAIN t.pages \ S \subseteq D
      /\ \A q \in D : u.pages[q] = t.pages[q]
  BY DEF Pruned
<1>3. CASE ~(Unused(u, c) /\ c \in D)
  <2>1. v.pages = u.pages /\ v.seq2page = u.seq2page
    <3>1. CASE Unused(u, c)
      <4>1. D \ {c} = D
        BY <1>3, <3>1
      <4>2. Restricted(u.pages, D) = u.pages
        <5>1. u.pages \in [D -> Page]
          BY <1>2 DEF Tree, PagesOK
        <5> QED BY <5>1 DEF Restricted
      <4>3. v = WithPages(t, Restricted(u.pages, D \ {c}))
        BY <1>1, <3>1 DEF Shed
      <4> QED BY <1>2, <4>1, <4>2, <4>3 DEF WithPages
    <3>2. CASE ~Unused(u, c)
      BY <1>1, <3>2 DEF Shed
    <3> QED BY <3>1, <3>2
  <2>2. DOMAIN v.pages = D
    BY <2>1
  <2>3. Tree(v, Q)
    <3> HIDE DEF Q
    <3> QED BY <1>2, <2>1, SameTree
  <2>4. Pruned(t, P, v, S \cup {c})
    BY <1>2, <2>1, <2>2, <2>3 DEF Pruned
  <2> QED BY <1>1, <2>4
<1>4. CASE Unused(u, c) /\ c \in D
  <2> DEFINE E == D \ {c}
             R == Restricted(P, E)
  <2>1. v.pages = [q \in E |-> u.pages[q]] /\ v.seq2page = t.seq2page
    BY <1>1, <1>4 DEF Shed, WithPages, Restricted
  <2>2. DOMAIN v.pages = E /\ \A q \in E : v.pages[q] = u.pages[q]
    BY <2>1
  <2>3. /\ \A q \in D \ {root} : u.pages[q].parent # c
        /\ \A s \in DOMAIN u.seq2page : u.seq2page[s] # c
    <3> HIDE DEF Q
    <3> QED BY <1>2, <1>4, UnusedFacts
  <2>4. PagesOK(v)
    <3>1. /\ IsFiniteSet(D) /\ D \subseteq Nat /\ u.pages \in [D -> Page]
          /\ root \in D /\ u.pages[root].tokens = <<>>
          /\ \A q \in D \ {root} : u.pages[q].parent \in D /\ Len(u.pages[q].tokens) \in 1..PageCapacity
      BY <1>2 DEF Tree, PagesOK
    <3>2. IsFiniteSet(E)
      BY <3>1, FS_Subset
    <3>3. v.pages \in [E -> Page]
      BY <2>1, <3>1
    <3> QED BY <2>2, <2>3, <3>1, <3>2, <3>3 DEF PagesOK
  <2>5. SeqsOK(v)
    <3>1. /\ u.seq2page \in [DOMAIN u.seq2page -> D] /\ DOMAIN u.seq2page \subseteq Int
          /\ \A q \in D : u.pages[q].seq_ids = {s \in DOMAIN u.seq2page : u.seq2page[s] = q}
      BY <1>2 DEF Tree, SeqsOK
    <3>2. v.seq2page = u.seq2page
      BY <1>2, <2>1
    <3>3. u.seq2page \in [DOMAIN u.seq2page -> E]
      BY <2>3, <3>1
    <3> QED BY <2>2, <3>1, <3>2, <3>3 DEF SeqsOK
  <2>6. PathsOK(v, R)
    <3>1. /\ Q \in [D -> Texts] /\ Q[root] = <<>>
          /\ \A q \in D \ {root} : Q[q] = Q[u.pages[q].parent] \o u.pages[q].tokens
      BY <1>2 DEF Tree, PathsOK
    <3>2. \A q \in D : Q[q] = P[q]
      BY DEF Restricted
    <3>3. \A q \in E : R[q] = Q[q]
      BY <3>2 DEF Restricted
    <3>4. R \in [E -> Texts]
      <4>1. R = [q \in E |-> P[q]]
        BY DEF Restricted
      <4> HIDE DEF Q, R
      <4> QED BY <3>1, <3>2, <4>1
    <3>5. root \in E /\ \A q \in E \ {root} : u.pages[q].parent \in E
      BY <1>2, <2>3 DEF Tree, PagesOK
    <3> HIDE DEF Q, R
    <3>6. R[root] = <<>>
      BY <3>1, <3>3, <3>5
    <3>7. ASSUME NEW q \in E \ {root} PROVE R[q] = R[v.pages[q].parent] \o v.pages[q].tokens
      <4>1. Q[q] = Q[u.pages[q].parent] \o u.pages[q].tokens
        BY <3>1
      <4> QED BY <2>2, <3>3, <3>5, <4>1
    <3> QED BY <2>2, <3>4, <3>6, <3>7 DEF PathsOK
  <2>7. Tree(v, R)
    BY <2>4, <2>5, <2>6 DEF Tree
  <2>8. Pruned(t, P, v, S \cup {c})
    BY <1>2, <2>1, <2>2, <2>7 DEF Pruned
  <2> QED BY <1>1, <2>8
<1> QED BY <1>3, <1>4

\* The local recursive function of FreePages exists.
LEMMA FreeRec ==
  ASSUME NEW t, NEW chain, NEW n \in Nat, n = Len(chain)
  PROVE  \E f : /\ Sheds(t, chain, n, f)
                /\ FreePages(t, chain) = WithPages(t, f[n].pages)
<1> DEFINE Bad == {m \in 0..n : ~\E f : Sheds(t, chain, m, f)}
           One(f, i) == Shed(t, f[i - 1], chain[i])
<1>1. Bad = {}
  <2> SUFFICES ASSUME Bad # {} PROVE FALSE
    OBVIOUS
  <2>1. PICK m \in Bad : \A y \in Bad : m <= y
    <3>1. Bad \in SUBSET Nat
      OBVIOUS
    <3> HIDE DEF Bad
    <3> QED BY <3>1, LeastNumber
  <2>2. m # 0
    <3> DEFINE g == [i \in 0..0 |-> t]
    <3>1. Sheds(t, chain, 0, g)
      BY DEF Sheds
    <3> HIDE DEF g
    <3> QED BY <2>1, <3>1
  <2>3. PICK f : Sheds(t, chain, m - 1, f)
    <3>1. m \in 0..n /\ m - 1 \in 0..n /\ ~(m <= m - 1)
      BY <2>1, <2>2
    <3> QED BY <2>1, <3>1
  <2>4. /\ \A i \in 0..(m - 1) : f[i] = IF i = 0 THEN t ELSE One(f, i)
        /\ m \in Nat /\ m > 0
    <3>1. m \in Nat /\ m > 0
      BY <2>1, <2>2
    <3> QED BY <2>3, <3>1 DEF Sheds
  <2> DEFINE g == [i \in 0..m |-> IF i < m THEN f[i] ELSE One(f, m)]
  <2>5. Sheds(t, chain, m, g)
    <3>1. ASSUME NEW i \in 0..m
          PROVE  g[i] = IF i = 0 THEN t ELSE One(g, i)
      <4>1. CASE i = m
        <5>1. g[m] = One(f, m) /\ g[m - 1] = f[m - 1]
          BY <2>4
        <5> HIDE DEF g
        <5> QED BY <4>1, <5>1, <2>4
      <4>2. CASE i # m
        <5>1. i \in 0..(m - 1) /\ g[i] = f[i]
          BY <2>4, <4>2
        <5>2. i # 0 => g[i - 1] = f[i - 1]
          BY <2>4, <4>2
        <5> HIDE DEF g
        <5> QED BY <5>1, <5>2, <2>4
      <4> QED BY <4>1, <4>2
    <3>2. g = [i \in 0..m |-> g[i]]
      OBVIOUS
    <3> HIDE DEF g
    <3> QED BY <3>1, <3>2 DEF Sheds
  <2> HIDE DEF g
  <2> QED BY <2>1, <2>5
<1>2. FreePages(t, chain) = WithPages(t, (CHOOSE f : Sheds(t, chain, Len(chain), f))[Len(chain)].pages)
  BY Zenon DEF FreePages, Sheds, Shed
<1>3. \E f : Sheds(t, chain, n, f)
  <2>1. n \in 0..n
    OBVIOUS
  <2> QED BY <1>1, <2>1
<1>4. PICK f : f = CHOOSE g : Sheds(t, chain, n, g)
  OBVIOUS
<1>5. Sheds(t, chain, n, f)
  BY <1>3, <1>4, Zenon
<1>6. FreePages(t, chain) = WithPages(t, f[n].pages)
  BY <1>2, <1>4
<1> QED BY <1>5, <1>6

\* FreePages keeps the sequences, and every page that is not in the chain.
LEMMA FreePagesPruned ==
  ASSUME NEW t, NEW P, Tree(t, P), NEW chain \in Seq(Nat \ {root})
  PROVE  Pruned(t, P, FreePages(t, chain), {chain[i] : i \in 1..Len(chain)})
<1>1. PICK n \in Nat : n = Len(chain)
  OBVIOUS
<1>2. PICK f : /\ Sheds(t, chain, n, f)
               /\ FreePages(t, chain) = WithPages(t, f[n].pages)
  BY <1>1, FreeRec
<1>3. f[0] = t /\ \A i \in 1..n : f[i] = Shed(t, f[i - 1], chain[i])
  BY <1>2 DEF Sheds
<1> DEFINE S == {chain[i] : i \in 1..n}
           Bad == {i \in 0..n : ~Pruned(t, P, f[i], S)}
<1>4. Pruned(t, P, f[0], S)
  <2>1. P = Restricted(P, DOMAIN t.pages)
    <3>1. P \in [DOMAIN t.pages -> Texts]
      BY DEF Tree, PathsOK
    <3> QED BY <3>1 DEF Restricted
  <2>2. Pruned(t, P, t, S)
    BY <2>1 DEF Pruned
  <2> QED BY <1>3, <2>2
<1>5. Bad = {}
  <2> SUFFICES ASSUME Bad # {} PROVE FALSE
    OBVIOUS
  <2>1. PICK i \in Bad : \A y \in Bad : i <= y
    <3>1. Bad \in SUBSET Nat
      OBVIOUS
    <3> HIDE DEF Bad
    <3> QED BY <3>1, LeastNumber
  <2>2. i \in 1..n /\ i - 1 \in 0..n /\ ~(i <= i - 1)
    BY <1>4, <2>1
  <2>3. Pruned(t, P, f[i - 1], S)
    BY <2>1, <2>2
  <2>4. PICK c : c = chain[i] /\ c # root /\ c \in S
    BY <1>1, <2>2
  <2>5. Pruned(t, P, Shed(t, f[i - 1], c), S \cup {c})
    <3> HIDE DEF S
    <3> QED BY <2>3, <2>4, ShedPruned
  <2>6. S \cup {c} = S
    BY <2>4
  <2>7. Pruned(t, P, f[i], S)
    BY <1>3, <2>2, <2>4, <2>5, <2>6
  <2> QED BY <2>1, <2>7
<1>6. Pruned(t, P, f[n], S)
  <2>1. n \in 0..n
    OBVIOUS
  <2> QED BY <1>5, <2>1
<1>7. PICK u : u = FreePages(t, chain)
  OBVIOUS
<1>8. u.pages = f[n].pages /\ u.seq2page = t.seq2page /\ f[n].seq2page = t.seq2page
  BY <1>2, <1>6, <1>7 DEF WithPages, Pruned
<1>9. Tree(u, Restricted(P, DOMAIN u.pages))
  <2>1. PICK Q : Q = Restricted(P, DOMAIN u.pages)
    OBVIOUS
  <2>2. Tree(f[n], Q)
    BY <1>6, <1>8, <2>1 DEF Pruned
  <2>3. u.seq2page = f[n].seq2page
    BY <1>8
  <2> QED BY <1>8, <2>1, <2>2, <2>3, SameTree
<1>10. Pruned(t, P, u, S)
  BY <1>6, <1>8, <1>9 DEF Pruned
<1> QED BY <1>1, <1>7, <1>10
\* Taking a sequence out and freeing pages leaves the other sequences.
Removed(t, u, s) ==
  /\ IsTree(u) /\ DOMAIN u.seq2page = DOMAIN t.seq2page \ {s}
  /\ \A x \in DOMAIN t.seq2page \ {s} : GetSequence(u, x) = GetSequence(t, x)

\* What FreePages leaves of a tree that a sequence was taken out of.
LEMMA FreedFacts ==
  ASSUME NEW t, NEW P, Tree(t, P), NEW s \in DOMAIN t.seq2page, NEW chain \in Seq(DOMAIN t.pages \ {root})
  PROVE  LET u == FreePages(PopSequence(t, s), chain)
         IN  /\ Tree(u, Restricted(P, DOMAIN u.pages)) /\ DOMAIN u.pages \subseteq DOMAIN t.pages
             /\ DOMAIN t.pages \ {chain[i] : i \in 1..Len(chain)} \subseteq DOMAIN u.pages
             /\ \A q \in DOMAIN u.pages : u.pages[q].parent = t.pages[q].parent /\ u.pages[q].tokens = t.pages[q].tokens
             /\ DOMAIN u.seq2page = DOMAIN t.seq2page \ {s}
             /\ \A x \in DOMAIN t.seq2page \ {s} : GetSequence(u, x) = GetSequence(t, x)
<1>1. PICK v : v = PopSequence(t, s)
  OBVIOUS
<1>2. PICK u : u = FreePages(v, chain)
  OBVIOUS
<1>3. /\ Tree(v, P) /\ DOMAIN v.pages = DOMAIN t.pages
      /\ DOMAIN v.seq2page = DOMAIN t.seq2page \ {s}
      /\ \A x \in DOMAIN t.seq2page \ {s} : v.seq2page[x] = t.seq2page[x]
      /\ \A q \in DOMAIN t.pages : v.pages[q].parent = t.pages[q].parent /\ v.pages[q].tokens = t.pages[q].tokens
  BY <1>1, PopSequenceTree
<1>4. PICK S : S = {chain[i] : i \in 1..Len(chain)}
  OBVIOUS
<1>5. Pruned(v, P, u, S)
  <2>1. chain \in Seq(Nat \ {root})
    <3>1. DOMAIN t.pages \subseteq Nat
      BY DEF Tree, PagesOK
    <3> QED BY <3>1
  <2>2. Pruned(v, P, FreePages(v, chain), {chain[i] : i \in 1..Len(chain)})
    BY <1>3, <2>1, FreePagesPruned
  <2> QED BY <1>2, <1>4, <2>2
<1>6. PICK Q : Q = Restricted(P, DOMAIN u.pages)
  OBVIOUS
<1>7. /\ Tree(u, Q) /\ u.seq2page = v.seq2page
      /\ DOMAIN u.pages \subseteq DOMAIN v.pages /\ DOMAIN v.pages \ S \subseteq DOMAIN u.pages
      /\ \A q \in DOMAIN u.pages : u.pages[q] = v.pages[q]
  BY <1>5, <1>6 DEF Pruned
<1>8. ASSUME NEW x \in DOMAIN t.seq2page \ {s}
      PROVE  GetSequence(u, x) = GetSequence(t, x)
  <2>1. x \in DOMAIN u.seq2page /\ x \in DOMAIN t.seq2page /\ u.seq2page[x] = t.seq2page[x]
    BY <1>3, <1>7
  <2>2. u.seq2page[x] \in DOMAIN u.pages
    BY <1>7, <2>1, SequenceIs
  <2>3. SamePath(t, P, u, Q, x)
    BY <1>6, <2>1, <2>2 DEF SamePath, Restricted
  <2> QED BY <1>7, <2>1, <2>3, SameSequence
<1>9. \A q \in DOMAIN u.pages : u.pages[q].parent = t.pages[q].parent /\ u.pages[q].tokens = t.pages[q].tokens
  BY <1>3, <1>7
<1>10. /\ Tree(u, Restricted(P, DOMAIN u.pages)) /\ DOMAIN u.pages \subseteq DOMAIN t.pages
       /\ DOMAIN t.pages \ {chain[i] : i \in 1..Len(chain)} \subseteq DOMAIN u.pages
       /\ DOMAIN u.seq2page = DOMAIN t.seq2page \ {s}
  BY <1>3, <1>4, <1>6, <1>7
<1>11. u = FreePages(PopSequence(t, s), chain)
  BY <1>1, <1>2
<1> QED BY <1>8, <1>9, <1>10, <1>11

\* PagedRadixTreeImpl::RemoveSequence frees the pages of the sequence, and leaves
\* every other sequence as it is.
THEOREM RemoveHolds ==
  ASSUME NEW t, IsTree(t), NEW s \in DOMAIN t.seq2page
  PROVE  Removed(t, RemoveSequence(t, s), s)
<1>1. PICK P : Tree(t, P)
  BY DEF IsTree
<1>2. PICK q \in DOMAIN t.pages : q = t.seq2page[s]
  BY <1>1, SequenceIs
<1>3. PICK chain : chain = Ancestors(t, q)
  OBVIOUS
<1>4. chain \in Seq(DOMAIN t.pages \ {root})
  <2>1. Way(t, P, q, Ancestors(t, q))
    BY <1>1, AncestorsFacts DEF Tree
  <2> QED BY <1>3, <2>1 DEF Way
<1>5. PICK u : u = FreePages(PopSequence(t, s), chain)
  OBVIOUS
<1>6. /\ Tree(u, Restricted(P, DOMAIN u.pages))
      /\ DOMAIN u.seq2page = DOMAIN t.seq2page \ {s}
      /\ \A x \in DOMAIN t.seq2page \ {s} : GetSequence(u, x) = GetSequence(t, x)
  BY <1>1, <1>4, <1>5, FreedFacts, SMTT(30)
<1>7. PICK Q : Tree(u, Q)
  BY <1>6
<1>8. PICK kept : kept = InOrder(chain, DOMAIN u.pages)
  OBVIOUS
<1>9. PICK p : p = IF kept = <<>> THEN root ELSE Head(kept)
  OBVIOUS
<1>10. p \in DOMAIN u.pages
  <2>1. CASE kept = <<>>
    BY <1>7, <1>9, <2>1 DEF Tree, PagesOK
  <2>2. CASE kept # <<>>
    <3>1. /\ kept \in Seq(DOMAIN t.pages \ {root})
          /\ \A x : x \in ToSet(kept) <=> x \in ToSet(chain) /\ x \in DOMAIN u.pages
      BY <1>4, <1>8, InOrderFacts
    <3>2. 1 \in DOMAIN kept /\ Head(kept) = kept[1]
      BY <2>2, <3>1
    <3>3. kept[1] \in ToSet(kept)
      BY <3>2 DEF ToSet
    <3> QED BY <1>9, <2>2, <3>1, <3>2, <3>3
  <2> QED BY <2>1, <2>2
<1>11. PICK v : v = MergeIfPossible(u, p)
  OBVIOUS
<1>12. PICK R : /\ Tree(v, R) /\ DOMAIN v.seq2page = DOMAIN u.seq2page
                /\ \A x \in DOMAIN u.seq2page : SamePath(u, Q, v, R, x)
  BY <1>7, <1>10, <1>11, MergeIfPossibleTree
<1>13. \A x \in DOMAIN u.seq2page : GetSequence(v, x) = GetSequence(u, x)
  BY <1>7, <1>12, SameSequence
<1>14. Removed(t, v, s)
  BY <1>6, <1>12, <1>13 DEF Removed, IsTree
<1>15. RemoveSequence(t, s) = v
  BY <1>2, <1>3, <1>5, <1>8, <1>9, <1>11, Zenon DEF RemoveSequence
<1> QED BY <1>14, <1>15
-----------------------------------------------------------------------------
(* Sequences are forked and rolled back at an offset.                      *)

\* Where a page begins, and the offsets that are inside it.
Start(t, p) == Len(PathTokens(t, p)) - Length(t, p)
Covers(t, p, off) == Start(t, p) < off /\ off <= Start(t, p) + Length(t, p)

\* Some page on the way covers an offset.
LEMMA Covered ==
  ASSUME NEW t, NEW P, Tree(t, P), NEW q \in DOMAIN t.pages, NEW chain, Way(t, P, q, chain),
         NEW off \in Nat, 0 < off, off <= Len(P[q])
  PROVE  \E i \in 1..Len(chain) : Covers(t, chain[i], off)
<1>1. Len(P[q]) \in Nat
  BY DEF Tree, PathsOK, Texts
<1>2. off \in 1..Len(P[q])
  BY <1>1
<1>3. PICK i \in 1..Len(chain) : Len(P[chain[i]]) - Length(t, chain[i]) < off /\ off <= Len(P[chain[i]])
  BY <1>2 DEF Way
<1>4. PICK p \in DOMAIN t.pages : p = chain[i]
  BY DEF Way
<1>5. PICK a \in Nat, l \in Nat : a = Len(P[p]) /\ l = Length(t, p)
  BY PageTypes DEF Tree, PathsOK, Texts
<1>6. PathTokens(t, p) = P[p]
  BY PathTokensFacts DEF Tree
<1>7. Covers(t, p, off)
  BY <1>3, <1>4, <1>5, <1>6 DEF Covers, Start
<1> QED BY <1>4, <1>7

\* An offset inside a page of the way, counted from the beginning of the page.
LEMMA CoversFacts ==
  ASSUME NEW t, NEW P, Tree(t, P), NEW q \in DOMAIN t.pages, NEW p \in DOMAIN t.pages, Begins(P[p], P[q]),
         NEW off \in Nat, Covers(t, p, off)
  PROVE  \E k \in Nat : /\ k = off - Start(t, p) /\ 0 < k /\ k <= Length(t, p) /\ off <= Len(P[p])
                        /\ Take(P[p], Len(P[p]) - Length(t, p) + k) = Take(P[q], off)
<1>1. PICK a \in Texts, b \in Texts, l \in Nat : a = P[p] /\ b = P[q] /\ l = Length(t, p)
  BY PageTypes DEF Tree, PathsOK
<1>2. PICK n \in Nat, m \in Nat : n = Len(a) /\ m = Len(b)
  BY DEF Texts
<1>3. n <= m /\ SubSeq(b, 1, n) = a
  BY <1>1, <1>2 DEF Begins
<1>4. PathTokens(t, p) = P[p]
  BY PathTokensFacts DEF Tree
<1>5. PICK st \in Int : st = Start(t, p) /\ st = n - l /\ st < off /\ off <= st + l
  BY <1>1, <1>2, <1>4 DEF Start, Covers
<1>6. PICK k \in Nat : k = off - st /\ 0 < k /\ k <= l /\ off <= n /\ n - l + k = off
  BY <1>5
<1>7. SubSeq(SubSeq(b, 1, n), 1, off) = SubSeq(b, 1, off)
  BY <1>2, <1>3, <1>6, TakeOfTake
<1>8. Take(a, off) = Take(b, off)
  BY <1>3, <1>7 DEF Take
<1>9. Take(P[p], Len(P[p]) - Length(t, p) + k) = Take(P[q], off)
  BY <1>1, <1>2, <1>6, <1>8
<1> QED BY <1>1, <1>2, <1>5, <1>6, <1>9

\* PagedRadixTreeImpl::ForkSequence gives the new sequence the first tokens of its
\* parent, up to the offset, and leaves every other sequence as it is, the parent
\* too, where the page is split.
THEOREM ForkHolds ==
  ASSUME NEW t, IsTree(t), NEW parent \in DOMAIN t.seq2page, NEW s \in Int, s \notin DOMAIN t.seq2page,
         NEW off \in Nat, 0 < off, off <= Len(GetSequence(t, parent))
  PROVE  Holding(t, ForkSequence(t, s, parent, off), s, Take(GetSequence(t, parent), off))
<1>1. PICK P : Tree(t, P)
  BY DEF IsTree
<1>2. PICK q \in DOMAIN t.pages : q = t.seq2page[parent] /\ GetSequence(t, parent) = P[q]
  BY <1>1, SequenceIs
<1>3. PICK chain : chain = Ancestors(t, q)
  OBVIOUS
<1>4. Way(t, P, q, chain)
  BY <1>1, <1>3, AncestorsFacts DEF Tree
<1>5. chain \in Seq(DOMAIN t.pages \ {root})
  BY <1>4 DEF Way
<1>6. PICK p : p = CHOOSE x \in ToSet(chain) : Covers(t, x, off)
  OBVIOUS
<1>7. p \in ToSet(chain) /\ Covers(t, p, off)
  <2>1. PICK i \in 1..Len(chain) : Covers(t, chain[i], off)
    BY <1>1, <1>2, <1>4, Covered
  <2>2. chain[i] \in ToSet(chain)
    BY <1>5 DEF ToSet
  <2>3. \E x \in ToSet(chain) : Covers(t, x, off)
    BY <2>1, <2>2
  <2> QED BY <1>6, <2>3, Zenon
<1>8. p \in DOMAIN t.pages /\ p # root /\ Begins(P[p], P[q])
  <2>1. PICK i \in 1..Len(chain) : p = chain[i]
    BY <1>5, <1>7 DEF ToSet
  <2> QED BY <1>4, <1>5, <2>1 DEF Way
<1>9. PICK k \in Nat : /\ k = off - Start(t, p) /\ 0 < k /\ k <= Length(t, p)
                       /\ Take(P[p], Len(P[p]) - Length(t, p) + k) = Take(P[q], off)
  BY <1>1, <1>7, <1>8, CoversFacts
<1>10. PICK at : at = SplitWithin(t, p, k)
  OBVIOUS
<1>11. \E Q : Reaches(t, P, Take(P[p], Len(P[p]) - Length(t, p) + k), SplitWithin(t, p, k), Q)
  BY <1>1, <1>8, <1>9, SplitWithinTree
<1>12. PICK w : w = Take(P[q], off)
  OBVIOUS
<1>13. PICK Q : Reaches(t, P, w, at, Q)
  BY <1>9, <1>10, <1>11, <1>12
<1>14. Holding(t, AddAt(at, s), s, w)
  BY <1>1, <1>13, AddAtHolds
<1>15. ForkSequence(t, s, parent, off) = AddAt(SplitWithin(t, p, off - Start(t, p)), s)
  BY <1>2, <1>3, <1>6, Zenon DEF ForkSequence, Covers, Start
<1>16. ForkSequence(t, s, parent, off) = AddAt(at, s)
  BY <1>9, <1>10, <1>15
<1> QED BY <1>2, <1>12, <1>14, <1>16

\* AddSequence gives it no tokens.
LEMMA AddHolds ==
  ASSUME NEW t, IsTree(t), NEW s \in Int, s \notin DOMAIN t.seq2page
  PROVE  Holding(t, AddSequence(t, s), s, <<>>)
<1>1. PICK P : Tree(t, P)
  BY DEF IsTree
<1>2. PICK at : at = [tree |-> t, page |-> root]
  OBVIOUS
<1>3. Reaches(t, P, <<>>, at, P)
  BY <1>1, <1>2 DEF Reaches, Tree, PagesOK, PathsOK, SamePath
<1>4. PICK w : w = <<>>
  OBVIOUS
<1>5. Holding(t, AddAt(at, s), s, w)
  BY <1>1, <1>3, <1>4, AddAtHolds
<1>6. AddAt(at, s) = AddSequence(t, s)
  BY <1>2 DEF AddAt, AddSequence
<1> QED BY <1>4, <1>5, <1>6

\* CutPage ends at the offset of the page.
LEMMA CutPageReaches ==
  ASSUME NEW t, NEW P, Tree(t, P), NEW p \in DOMAIN t.pages \ {root}, NEW k \in Nat, 0 < k, k <= Length(t, p)
  PROVE  \E Q : Reaches(t, P, Take(P[p], Len(P[p]) - Length(t, p) + k), CutPage(t, p, k), Q)
<1>1. CASE ~Unused(t, p)
  <2>1. \E Q : Reaches(t, P, Take(P[p], Len(P[p]) - Length(t, p) + k), SplitWithin(t, p, k), Q)
    BY SplitWithinTree
  <2>2. CutPage(t, p, k) = SplitWithin(t, p, k)
    BY <1>1 DEF CutPage
  <2> QED BY <2>1, <2>2
<1>2. CASE Unused(t, p)
  <2>1. /\ t.pages[p].tokens \in Texts /\ Length(t, p) = Len(t.pages[p].tokens) /\ Length(t, p) \in 1..PageCapacity
        /\ t.pages[p] \in Page
    BY PageTypes DEF Tree
  <2>2. PICK tokens \in Texts : tokens = t.pages[p].tokens /\ k <= Len(tokens) /\ Len(tokens) \in 1..PageCapacity
    BY <2>1
  <2>3. SubSeq(tokens, 1, k) \in Texts /\ Len(SubSeq(tokens, 1, k)) = k
    BY <2>2, TakeFacts
  <2>4. PICK X \in Texts : X = SubSeq(tokens, 1, k) /\ Len(X) \in 1..PageCapacity
    <3>1. PICK X \in Texts : X = SubSeq(tokens, 1, k) /\ Len(X) = k
      BY <2>3, Zenon
    <3>2. PICK l \in Nat : l = Len(tokens) /\ l <= PageCapacity /\ k <= l
      BY <2>2, CapacityAssumption
    <3>3. Len(X) \in 1..PageCapacity
      BY <3>1, <3>2, CapacityAssumption
    <3> QED BY <3>1, <3>3
  <2>5. \E Q : Reaches(t, P, P[t.pages[p].parent] \o X, Retokened(t, p, X), Q)
    BY <1>2, <2>4, RetokenReaches
  <2>6. P[t.pages[p].parent] \o X = PartPath(t, P, p, k)
    BY <2>2, <2>4 DEF PartPath, Take
  <2>7. PartPath(t, P, p, k) = Take(P[p], Len(P[p]) - Length(t, p) + k)
    BY PartPathFacts
  <2>8. CutPage(t, p, k) = Retokened(t, p, X)
    <3>1. t.pages \in [DOMAIN t.pages -> Page]
      BY DEF Tree, PagesOK
    <3>2. [t.pages EXCEPT ![p].tokens = SubSeq(@, 1, k)] = [t.pages EXCEPT ![p].tokens = X]
      BY <2>1, <2>2, <2>4, <3>1 DEF Page
    <3> QED BY <1>2, <3>2 DEF CutPage, Retokened
  <2> QED BY <2>5, <2>6, <2>7, <2>8
<1> QED BY <1>1, <1>2

\* PagedRadixTreeImpl::RollBackSequence takes the last tokens from the sequence, and
\* none from the others, whose pages it splits where they share them.
THEOREM RollBackHolds ==
  ASSUME NEW t, IsTree(t), NEW s \in DOMAIN t.seq2page, NEW num \in Nat, num < Len(GetSequence(t, s))
  PROVE  Holding(t, RollBackSequence(t, s, num), s, Take(GetSequence(t, s), Len(GetSequence(t, s)) - num))
<1>1. PICK P : Tree(t, P)
  BY DEF IsTree
<1>2. PICK q \in DOMAIN t.pages : q = t.seq2page[s] /\ GetSequence(t, s) = P[q] /\ P[q] \in Texts
  BY <1>1, SequenceIs
<1>3. PICK end \in Nat : /\ end = Len(GetSequence(t, s)) - num /\ 0 < end /\ end <= Len(P[q])
                         /\ end = GetSequenceLength(t, s) - num
  <2>1. PICK l \in Nat : l = Len(P[q]) /\ l = Len(GetSequence(t, s)) /\ num < l
    BY <1>2 DEF Texts
  <2>2. PICK e \in Nat : e = l - num /\ 0 < e /\ e <= l
    <3>1. num < l
      BY <2>1
    <3>2. l - num \in Nat /\ 0 < l - num /\ l - num <= l
      BY <3>1
    <3> QED BY <3>2
  <2>3. e = Len(GetSequence(t, s)) - num /\ e <= Len(P[q]) /\ e = GetSequenceLength(t, s) - num
    BY <2>1, <2>2 DEF GetSequenceLength
  <2> QED BY <2>2, <2>3, Zenon
<1>4. PICK chain : chain = Ancestors(t, q)
  OBVIOUS
<1>5. Way(t, P, q, chain)
  BY <1>1, <1>4, AncestorsFacts DEF Tree
<1>6. chain \in Seq(DOMAIN t.pages \ {root})
  BY <1>5 DEF Way
<1>7. PICK n \in Nat : n = Len(chain)
  BY <1>6
<1>8. PICK i : i = CHOOSE x \in 1..Len(chain) : Covers(t, chain[x], end)
  OBVIOUS
<1>9. i \in 1..n /\ Covers(t, chain[i], end)
  <2>1. \E x \in 1..Len(chain) : Covers(t, chain[x], end)
    BY <1>1, <1>3, <1>5, Covered
  <2> QED BY <1>7, <1>8, <2>1, Zenon
<1>10. PICK p : p = chain[i]
  OBVIOUS
<1>11. p \in DOMAIN t.pages \ {root} /\ Begins(P[p], P[q]) /\ Covers(t, p, end)
  BY <1>5, <1>6, <1>7, <1>9, <1>10 DEF Way
<1>12. PICK k \in Nat : /\ k = end - Start(t, p) /\ 0 < k /\ k <= Length(t, p)
                        /\ Take(P[p], Len(P[p]) - Length(t, p) + k) = Take(P[q], end)
  BY <1>1, <1>11, CoversFacts
<1>13. PICK front : front = SubSeq(chain, 1, i - 1)
  OBVIOUS
<1>14. /\ front \in Seq(DOMAIN t.pages \ {root}) /\ Len(front) = i - 1
       /\ \A j \in 1..(i - 1) : front[j] = chain[j]
  <2>1. \A j \in 1..(i - 1) : j \in 1..n /\ chain[j] \in DOMAIN t.pages \ {root}
    BY <1>6, <1>7, <1>9
  <2>2. i - 1 \in Nat /\ i - 1 <= n
    BY <1>7, <1>9
  <2> QED BY <1>7, <1>13, <2>1, <2>2, SubSeqProperties
<1>15. PICK u : u = FreePages(PopSequence(t, s), front)
  OBVIOUS
<1>16. PICK Q : Q = Restricted(P, DOMAIN u.pages)
  OBVIOUS
<1>17. /\ Tree(u, Q)
       /\ DOMAIN t.pages \ {front[j] : j \in 1..Len(front)} \subseteq DOMAIN u.pages
       /\ \A x \in DOMAIN u.pages : u.pages[x].parent = t.pages[x].parent /\ u.pages[x].tokens = t.pages[x].tokens
       /\ DOMAIN u.seq2page = DOMAIN t.seq2page \ {s}
       /\ \A x \in DOMAIN t.seq2page \ {s} : GetSequence(u, x) = GetSequence(t, x)
  BY <1>1, <1>14, <1>15, <1>16, FreedFacts
<1>18. p \in DOMAIN u.pages
  <2>1. ASSUME NEW j \in 1..(i - 1) PROVE chain[j] # p
    <3>1. j \in 1..n /\ j < i
      BY <1>7, <1>9
    <3>2. Len(P[chain[i]]) < Len(P[chain[j]])
      BY <1>5, <1>7, <1>9, <3>1 DEF Way
    <3>3. Len(P[p]) \in Nat
      BY <1>1, <1>11 DEF Tree, PathsOK, Texts
    <3> QED BY <1>10, <3>2, <3>3
  <2>2. p \notin {front[j] : j \in 1..Len(front)}
    BY <1>14, <2>1
  <2> QED BY <1>11, <1>17, <2>2
<1>19. Q[p] = P[p] /\ Length(u, p) = Length(t, p)
  BY <1>16, <1>17, <1>18 DEF Restricted, Length
<1>20. PICK at : at = CutPage(u, p, k)
  OBVIOUS
<1>21. PICK w : w = Take(P[q], end)
  OBVIOUS
<1>22. PICK R : Reaches(u, Q, w, at, R)
  <2>1. p \in DOMAIN u.pages \ {root} /\ k <= Length(u, p)
    BY <1>11, <1>12, <1>18, <1>19
  <2>2. \E R : Reaches(u, Q, Take(Q[p], Len(Q[p]) - Length(u, p) + k), CutPage(u, p, k), R)
    BY <1>12, <1>17, <2>1, CutPageReaches
  <2> QED BY <1>12, <1>19, <1>20, <1>21, <2>2
<1>23. s \in Int /\ s \notin DOMAIN u.seq2page
  BY <1>1, <1>17 DEF Tree, SeqsOK
<1>24. Holding(u, AddAt(at, s), s, w)
  BY <1>17, <1>22, <1>23, AddAtHolds
<1>25. Holding(t, AddAt(at, s), s, w)
  BY <1>17, <1>24 DEF Holding
<1>26. RollBackSequence(t, s, num) = AddAt(at, s)
  <2> DEFINE PageOf(c, e) == CHOOSE x \in 1..Len(c) : Covers(t, c[x], e)
             Rolled(c, e, j) ==
               IF e = 0 THEN AddSequence(RemoveSequence(t, s), s)
               ELSE AddAt(CutPage(FreePages(PopSequence(t, s), SubSeq(c, 1, j - 1)), c[j], e - Start(t, c[j])), s)
             All(c, e) == Rolled(c, e, PageOf(c, e))
  <2>6. RollBackSequence(t, s, num) = All(Ancestors(t, t.seq2page[s]), GetSequenceLength(t, s) - num)
    BY Zenon DEF RollBackSequence, Covers, Start
  <2>3. All(Ancestors(t, t.seq2page[s]), GetSequenceLength(t, s) - num) = All(chain, end)
    <3> HIDE DEF All
    <3> QED BY <1>2, <1>3, <1>4, Zenon
  <2>4. PageOf(chain, end) = i
    BY <1>8
  <2>5. All(chain, end) = Rolled(chain, end, i)
    <3> HIDE DEF PageOf, Rolled
    <3> QED BY <2>4
  <2>1. RollBackSequence(t, s, num) = Rolled(chain, end, i)
    BY <2>3, <2>5, <2>6
  <2>2. RollBackSequence(t, s, num) = AddAt(CutPage(u, p, end - Start(t, p)), s)
    BY <1>3, <1>10, <1>13, <1>15, <2>1
  <2> QED BY <1>12, <1>20, <2>2
<1> QED BY <1>2, <1>3, <1>21, <1>25, <1>26
-----------------------------------------------------------------------------
(* What the tree says of a prefix is true.                                 *)

\* The tree without sequences.
LEMMA EmptyIsTree == IsTree(EmptyTree) /\ DOMAIN EmptyTree.seq2page = {}
<1>1. PICK t : t = EmptyTree
  OBVIOUS
<1>2. /\ t.pages = [p \in {root} |-> [parent |-> root, tokens |-> <<>>, seq_ids |-> {}]]
      /\ t.seq2page = [s \in {} |-> root]
  BY <1>1 DEF EmptyTree
<1>3. /\ DOMAIN t.pages = {0} /\ t.pages[0] = [parent |-> 0, tokens |-> <<>>, seq_ids |-> {}]
      /\ DOMAIN t.seq2page = {}
  BY <1>2 DEF root
<1>4. PagesOK(t)
  <2>1. IsFiniteSet({0})
    BY FS_Singleton
  <2>2. t.pages[0] \in Page /\ t.pages[0].tokens = <<>>
    BY <1>3 DEF Page, Texts
  <2>3. t.pages \in [{0} -> Page]
    BY <1>2, <1>3, <2>2 DEF root
  <2> QED BY <1>3, <2>1, <2>2, <2>3 DEF PagesOK, root
<1>5. SeqsOK(t)
  <2>1. t.seq2page \in [{} -> DOMAIN t.pages]
    BY <1>2
  <2> QED BY <1>3, <2>1 DEF SeqsOK
<1>6. PathsOK(t, [p \in {0} |-> <<>>])
  <2>1. [p \in {0} |-> <<>>] \in [{0} -> Texts]
    BY DEF Texts
  <2> QED BY <1>3, <2>1 DEF PathsOK, root
<1>7. IsTree(t)
  BY <1>4, <1>5, <1>6 DEF IsTree, Tree
<1> QED BY <1>1, <1>3, <1>7

\* The sequences that PagedRadixTreeImpl::MatchPrefix returns all begin with as many
\* of the tokens as it says it has matched, so a fork of any of them is right.
THEOREM MatchPrefixFacts ==
  ASSUME NEW t, IsTree(t), NEW tokens \in Texts, NEW m, m = MatchPrefix(t, tokens)
  PROVE  /\ m.offset \in Nat /\ m.offset <= Len(tokens) /\ m.seqs \subseteq DOMAIN t.seq2page
         /\ \A s \in m.seqs : /\ 0 < m.offset /\ m.offset <= Len(GetSequence(t, s))
                              /\ Take(GetSequence(t, s), m.offset) = Take(tokens, m.offset)
<1>1. PICK P : Tree(t, P)
  BY DEF IsTree
<1>2. PICK x : x = MatchSequence(t, root, tokens)
  OBVIOUS
<1>3. m = [offset |-> x.offset, seqs |-> IF x.offset = 0 THEN {} ELSE Below(t, x.page)]
  BY <1>2, Zenon DEF MatchPrefix
<1>4. /\ m.offset = x.offset /\ m.seqs = IF x.offset = 0 THEN {} ELSE Below(t, x.page)
  BY <1>3
<1>5. root \in DOMAIN t.pages /\ P[root] = <<>>
  BY <1>1 DEF Tree, PagesOK, PathsOK
<1>6. Found(t, P, tokens, root, 0, x)
  BY <1>1, <1>2, <1>5, MatchSequenceFacts
<1>7. /\ x.page \in DOMAIN t.pages /\ x.offset \in Nat /\ x.offset <= Len(tokens)
      /\ x.in_page \in Nat /\ x.in_page <= Length(t, x.page) /\ (0 < x.in_page \/ x.page = root)
      /\ Take(P[x.page], Len(P[x.page]) - Length(t, x.page) + x.in_page) = P[root] \o Slice(tokens, 0, x.offset)
  BY <1>6 DEF Found
<1>8. PICK p \in DOMAIN t.pages, k \in Nat, n \in Nat : p = x.page /\ k = x.in_page /\ n = x.offset
  BY <1>7
<1>9. PICK a \in Texts, b \in Texts : a = P[p] /\ b = Slice(tokens, 0, n) /\ Len(b) = n /\ b = Take(tokens, n)
  <2>1. P[p] \in Texts
    BY <1>1 DEF Tree, PathsOK
  <2>2. 0 \in Nat /\ 0 <= n /\ n <= n /\ n <= Len(tokens)
    BY <1>7, <1>8
  <2>3. Slice(tokens, 0, n) \in Texts /\ Len(Slice(tokens, 0, n)) = n - 0
    BY <2>2, Adjacent
  <2>4. Slice(tokens, 0, n) = Take(tokens, n)
    BY DEF Slice, Take
  <2> QED BY <2>1, <2>3, <2>4
<1>10. PICK l \in Nat, la \in Nat : l = Length(t, p) /\ la = Len(a) /\ k <= l /\ l <= la /\ (p = root => l = 0)
  <2>1. Length(t, p) \in Nat /\ (p = root => Length(t, p) = 0)
    BY <1>1, PageTypes DEF Tree
  <2>2. Len(a) \in Nat
    BY DEF Texts
  <2>3. Length(t, p) <= Len(a)
    <3>1. CASE p = root
      BY <2>1, <2>2, <3>1
    <3>2. CASE p # root
      <4>1. /\ Len(P[p]) = Len(P[t.pages[p].parent]) + Length(t, p) /\ Len(P[t.pages[p].parent]) \in Nat
        BY <1>1, <3>2, PathTypes DEF Tree
      <4> QED BY <1>9, <2>1, <2>2, <4>1
    <3> QED BY <3>1, <3>2
  <2> QED BY <1>7, <1>8, <2>1, <2>2, <2>3
<1>11. PICK e \in Nat : e = la - l + k /\ e <= la
  BY <1>10
<1>12. Take(a, e) = b
  <2>1. <<>> \o b = b
    BY JoinEmpty
  <2> QED BY <1>5, <1>7, <1>8, <1>9, <1>10, <1>11, <2>1
<1>13. e = n
  <2>1. Len(SubSeq(a, 1, e)) = e
    BY <1>10, <1>11, TakeFacts
  <2> QED BY <1>9, <1>12, <2>1 DEF Take
<1>14. ASSUME NEW s \in m.seqs
       PROVE  /\ s \in DOMAIN t.seq2page /\ 0 < n /\ n <= Len(GetSequence(t, s))
              /\ Take(GetSequence(t, s), n) = Take(tokens, n)
  <2>1. n # 0 /\ s \in Below(t, p)
    BY <1>4, <1>8
  <2>2. s \in DOMAIN t.seq2page /\ p \in {root} \cup ToSet(Ancestors(t, t.seq2page[s]))
    BY <2>1 DEF Below
  <2>3. p # root
    <3>1. CASE p = root
      <4>1. la = 0
        BY <1>5, <1>9, <1>10, <3>1
      <4> QED BY <1>11, <1>13, <2>1, <4>1
    <3> QED BY <3>1
  <2>4. PICK q \in DOMAIN t.pages : q = t.seq2page[s] /\ GetSequence(t, s) = P[q] /\ P[q] \in Texts
    BY <1>1, <2>2, SequenceIs
  <2>5. PICK chain : chain = Ancestors(t, q)
    OBVIOUS
  <2>6. Way(t, P, q, chain)
    BY <1>1, <2>5, AncestorsFacts DEF Tree
  <2>7. chain \in Seq(DOMAIN t.pages \ {root})
    BY <2>6 DEF Way
  <2>8. PICK i \in 1..Len(chain) : p = chain[i]
    BY <2>2, <2>3, <2>4, <2>5, <2>7 DEF ToSet
  <2>9. Begins(a, P[q])
    BY <1>9, <2>6, <2>8 DEF Way
  <2>10. PICK c \in Texts, lc \in Nat : c = P[q] /\ lc = Len(c)
    BY <2>4 DEF Texts
  <2>11. la <= lc /\ SubSeq(c, 1, la) = a
    BY <1>10, <2>9, <2>10 DEF Begins
  <2>12. SubSeq(SubSeq(c, 1, la), 1, n) = SubSeq(c, 1, n)
    BY <1>11, <1>13, <2>10, <2>11, TakeOfTake
  <2>13. Take(c, n) = Take(a, n)
    BY <2>11, <2>12 DEF Take
  <2>14. n <= lc
    BY <1>11, <1>13, <2>11
  <2> QED BY <1>9, <1>12, <1>13, <2>1, <2>2, <2>4, <2>10, <2>13, <2>14
<1> QED BY <1>4, <1>7, <1>8, <1>14
=============================================================================
