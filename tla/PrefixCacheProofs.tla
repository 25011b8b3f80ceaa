------------------------- MODULE PrefixCacheProofs -------------------------
(***************************************************************************)
(* Proofs about PrefixCache, for any number of requests, any prompts and   *)
(* every configuration: radix tree, sequence states and KV cache know the  *)
(* same sequences, every active one has its owner, and an id that is free  *)
(* is free once and used nowhere (IInv is inductive); and, where no        *)
(* request is preempted that has generated tokens, the tree holds what the *)
(* KV cache holds and a request computes on its own tokens (with HInv).    *)
(***************************************************************************)
EXTENDS PrefixCache, RadixTreeProofs

-----------------------------------------------------------------------------
(* Which sequences a tree has after an operation.                          *)

Seqs(t) == DOMAIN t.seq2page

\* A sequence is added, or taken out.
LEMMA AddPopSeqs ==
  ASSUME NEW t, NEW p, NEW s
  PROVE  Seqs(AddToPage(t, p, s)) = Seqs(t) \cup {s} /\ Seqs(PopSequence(t, s)) = Seqs(t) \ {s}
BY DEF AddToPage, PopSequence, Seqs, Restricted

\* Pages change, the sequences do not.
LEMMA WithPagesSeqs ==
  ASSUME NEW t, NEW pages
  PROVE  Seqs(WithPages(t, pages)) = Seqs(t)
BY DEF WithPages, Seqs

\* Merging keeps the sequences.
LEMMA MergeSeqs ==
  ASSUME NEW t, NEW p, NEW q
  PROVE  /\ Seqs(MergeIfPossible(t, p)) = Seqs(t)
         /\ Seqs(MergeUp(t, q, p).tree) = Seqs(t)
<1>1. Seqs(MergePage(t, p)) = Seqs(t)
  BY DEF MergePage, Seqs
<1>2. Seqs(MergeIfPossible(t, p)) = Seqs(t)
  BY <1>1 DEF MergeIfPossible
<1> QED BY <1>2 DEF MergeUp

\* Splitting keeps the sequences.
LEMMA SplitSeqs ==
  ASSUME NEW t, NEW p, NEW offset
  PROVE  /\ Seqs(SplitPage(t, p, offset).tree) = Seqs(t)
         /\ Seqs(SplitWithin(t, p, offset).tree) = Seqs(t)
<1>1. Seqs(SplitPage(t, p, offset).tree) = Seqs(t)
  <2>1. Seqs(Halved(t, p, offset)) = Seqs(t)
    BY DEF Halved, Seqs
  <2>2. Seqs(MergeIfPossible(Halved(t, p, offset), Allocate(t))) = Seqs(t)
    BY <2>1, MergeSeqs
  <2> QED BY <2>2, MergeSeqs DEF SplitPage
<1> QED BY <1>1 DEF SplitWithin

\* Appending tokens keeps the sequences.
LEMMA AppendSeqs ==
  ASSUME NEW at, NEW tokens
  PROVE  Seqs(AppendTokens(at, tokens).tree) = Seqs(at.tree)
BY DEF AppendTokens, AppendPages, WithPages, Seqs

\* Freeing pages keeps the sequences.
LEMMA FreeSeqs ==
  ASSUME NEW t, NEW chain
  PROVE  Seqs(FreePages(t, chain)) = Seqs(t)
BY DEF FreePages, WithPages, Seqs

\* Cutting a page keeps the sequences.
LEMMA CutSeqs ==
  ASSUME NEW t, NEW p, NEW keep
  PROVE  Seqs(CutPage(t, p, keep).tree) = Seqs(t)
BY SplitSeqs, WithPagesSeqs DEF CutPage

\* A new sequence starts at the root.
LEMMA AddSeqs ==
  ASSUME NEW t, NEW s
  PROVE  Seqs(AddSequence(t, s)) = Seqs(t) \cup {s}
BY AddPopSeqs DEF AddSequence

\* A sequence is added at a page.
LEMMA AddAtSeqs ==
  ASSUME NEW at, NEW s
  PROVE  Seqs(AddAt(at, s)) = Seqs(at.tree) \cup {s}
BY AddPopSeqs DEF AddAt

\* A new sequence forks another.
LEMMA ForkSeqs ==
  ASSUME NEW t, NEW s, NEW parent, NEW offset
  PROVE  Seqs(ForkSequence(t, s, parent, offset)) = Seqs(t) \cup {s}
<1>1. PICK p, o : ForkSequence(t, s, parent, offset) = AddAt(SplitWithin(t, p, o), s)
  BY DEF ForkSequence
<1> QED BY AddAtSeqs, <1>1, SplitSeqs

\* A sequence is removed.
LEMMA RemoveSeqs ==
  ASSUME NEW t, NEW s
  PROVE  Seqs(RemoveSequence(t, s)) = Seqs(t) \ {s}
<1>1. PICK chain, p : RemoveSequence(t, s) = MergeIfPossible(FreePages(PopSequence(t, s), chain), p)
  BY DEF RemoveSequence
<1>2. Seqs(FreePages(PopSequence(t, s), chain)) = Seqs(PopSequence(t, s))
  BY FreeSeqs
<1>3. Seqs(MergeIfPossible(FreePages(PopSequence(t, s), chain), p)) = Seqs(FreePages(PopSequence(t, s), chain))
  BY MergeSeqs
<1> QED BY <1>1, <1>2, <1>3, AddPopSeqs

\* Extending a sequence keeps the sequences.
LEMMA ExtendSeqs ==
  ASSUME NEW t, NEW s \in Seqs(t), NEW tokens
  PROVE  Seqs(ExtendSequence(t, s, tokens)) = Seqs(t)
<1> DEFINE popped == PopSequence(t, s)
           m == MatchSequence(popped, t.seq2page[s], tokens)
           split == SplitWithin(popped, m.page, m.in_page)
           rest == SubSeq(tokens, m.offset + 1, Len(tokens))
           added == AddAt(AppendTokens(split, rest), s)
<1>1. ExtendSequence(t, s, tokens) = MergeIfPossible(added, t.seq2page[s])
  BY DEF ExtendSequence, ExtendFrom
<1>2. Seqs(popped) = Seqs(t) \ {s}
  BY AddPopSeqs
<1> HIDE DEF popped, m
<1>3. Seqs(split.tree) = Seqs(popped)
  BY SplitSeqs
<1> HIDE DEF split, rest
<1>4. Seqs(added) = Seqs(AppendTokens(split, rest).tree) \cup {s}
  BY AddAtSeqs
<1>5. Seqs(AppendTokens(split, rest).tree) = Seqs(split.tree)
  BY AppendSeqs
<1> HIDE DEF added
<1>6. Seqs(MergeIfPossible(added, t.seq2page[s])) = Seqs(added)
  BY MergeSeqs
<1> QED BY <1>1, <1>2, <1>3, <1>4, <1>5, <1>6

\* Rolling a sequence back keeps the sequences.
LEMMA RollBackSeqs ==
  ASSUME NEW t, NEW s \in Seqs(t), NEW num
  PROVE  Seqs(RollBackSequence(t, s, num)) = Seqs(t)
<1>1. Seqs(AddSequence(RemoveSequence(t, s), s)) = (Seqs(t) \ {s}) \cup {s}
  BY RemoveSeqs, AddPopSeqs DEF AddSequence
<1>2. ASSUME NEW chain, NEW p, NEW keep
      PROVE  Seqs(AddAt(CutPage(FreePages(PopSequence(t, s), chain), p, keep), s)) = (Seqs(t) \ {s}) \cup {s}
  <2>1. Seqs(FreePages(PopSequence(t, s), chain)) = Seqs(t) \ {s}
    BY FreeSeqs, AddPopSeqs
  <2>2. Seqs(CutPage(FreePages(PopSequence(t, s), chain), p, keep).tree) = Seqs(t) \ {s}
    BY <2>1, CutSeqs
  <2> QED BY AddAtSeqs, <2>2
<1>3. \/ RollBackSequence(t, s, num) = AddSequence(RemoveSequence(t, s), s)
      \/ \E chain, p, keep :
            RollBackSequence(t, s, num) = AddAt(CutPage(FreePages(PopSequence(t, s), chain), p, keep), s)
  BY Zenon DEF RollBackSequence
<1> QED BY <1>1, <1>2, <1>3

\* What is matched are sequences of the tree.
LEMMA MatchSeqs ==
  ASSUME NEW t, NEW tokens
  PROVE  MatchPrefix(t, tokens).seqs \subseteq Seqs(t)
BY DEF MatchPrefix, Below, Seqs

-----------------------------------------------------------------------------
(* What the operations of the prefix cache do to it.                       *)

CacheFields == {"tree", "seq_states", "recycling", "uncommitted"}

\* The cache knows the sequences K, in its tree and in its states, and those that
\* are recycling are in the queue for eviction.
Knows(c, K) ==
  /\ DOMAIN c = CacheFields
  /\ DOMAIN c.seq_states = K
  /\ Seqs(c.tree) = K
  /\ c.recycling = {s \in K : c.seq_states[s] = "kRecycling"}
  /\ c.uncommitted \in Seq(Int \X Requests)

\* The tree after the first i extensions have been committed.
Extended(t, e) == IF HasSequence(t, e[1]) THEN ExtendSequence(t, e[1], token_ids[e[2]]) ELSE t
Upto(c, n, f) == f = [i \in 0..n |-> IF i = 0 THEN c.tree ELSE Extended(f[i - 1], c.uncommitted[i])]

\* The local recursive function of CommitSequenceExtention exists.
LEMMA CommitRec ==
  ASSUME NEW c, c.uncommitted \in Seq(Int \X Requests)
  PROVE  \E f : /\ Upto(c, Len(c.uncommitted), f)
                /\ CommitSequenceExtention(c) = [c EXCEPT !.tree = f[Len(c.uncommitted)], !.uncommitted = <<>>]
<1>0. PICK n \in Nat : n = Len(c.uncommitted)
  OBVIOUS
<1> DEFINE Bad == {m \in 0..n : ~\E f : Upto(c, m, f)}
<1>1. Bad = {}
  <2> SUFFICES ASSUME Bad # {} PROVE FALSE
    OBVIOUS
  <2>1. PICK m \in Bad : \A y \in Bad : m <= y
    <3>1. Bad \in SUBSET Nat
      OBVIOUS
    <3> HIDE DEF Bad
    <3> QED BY <3>1, LeastNumber
  <2>2. m # 0
    <3> DEFINE g == [i \in 0..0 |-> c.tree]
    <3>1. Upto(c, 0, g)
      BY DEF Upto
    <3> HIDE DEF g
    <3> QED BY <2>1, <3>1
  <2>3. PICK f : Upto(c, m - 1, f)
    <3>1. m \in 0..n /\ m - 1 \in 0..n /\ ~(m <= m - 1)
      BY <2>1, <2>2
    <3> QED BY <2>1, <3>1
  <2>4. /\ \A i \in 0..(m - 1) : f[i] = IF i = 0 THEN c.tree ELSE Extended(f[i - 1], c.uncommitted[i])
        /\ m \in Nat /\ m > 0
    <3>1. m \in Nat /\ m > 0
      BY <2>1, <2>2
    <3> QED BY <2>3, <3>1 DEF Upto
  <2> DEFINE g == [i \in 0..m |-> IF i < m THEN f[i] ELSE Extended(f[m - 1], c.uncommitted[m])]
  <2>5. Upto(c, m, g)
    <3>1. ASSUME NEW i \in 0..m
          PROVE  g[i] = IF i = 0 THEN c.tree ELSE Extended(g[i - 1], c.uncommitted[i])
      <4>1. CASE i = m
        <5>1. g[m] = Extended(f[m - 1], c.uncommitted[m]) /\ g[m - 1] = f[m - 1]
          BY <2>4
        <5> HIDE DEF g
        <5> QED BY <4>1, <5>1, <2>4
      <4>2. CASE i # m
        <5>1. i \in 0..(m - 1) /\ g[i] = f[i]
          BY <2>4, <4>2
        <5>2. i # 0 => g[i - 1] = f[i - 1]
          BY <2>4, <4>2
        <5> HIDE DEF g
        <5> QED BY <5>1, <5>2, <2>4
      <4> QED BY <4>1, <4>2
    <3>2. g = [i \in 0..m |-> g[i]]
      OBVIOUS
    <3> HIDE DEF g
    <3> QED BY <3>1, <3>2 DEF Upto
  <2> HIDE DEF g
  <2> QED BY <2>1, <2>5
<1>2. CommitSequenceExtention(c) =
        [c EXCEPT !.tree = (CHOOSE f : Upto(c, n, f))[n], !.uncommitted = <<>>]
  BY <1>0, Zenon DEF CommitSequenceExtention, Upto, Extended
<1>3. \E f : Upto(c, n, f)
  <2>1. n \in 0..n
    OBVIOUS
  <2> QED BY <1>1, <2>1
<1>4. Upto(c, n, CHOOSE f : Upto(c, n, f))
  BY <1>3, Zenon
<1> QED BY <1>0, <1>2, <1>4, Zenon

\* A commit changes what the tree holds of the sequences, not which there are.
LEMMA CommitKnows ==
  ASSUME NEW K, Knows(cache, K)
  PROVE  /\ Knows(CommitSequenceExtention(cache), K)
         /\ CommitSequenceExtention(cache).recycling = cache.recycling
<1>1. cache.uncommitted \in Seq(Int \X Requests) /\ DOMAIN cache = CacheFields
  BY DEF Knows
<1>2. PICK f : /\ Upto(cache, Len(cache.uncommitted), f)
               /\ CommitSequenceExtention(cache) =
                    [cache EXCEPT !.tree = f[Len(cache.uncommitted)], !.uncommitted = <<>>]
  BY <1>1, CommitRec
<1>3. PICK n \in Nat : n = Len(cache.uncommitted)
  BY <1>1
<1>4. \A i \in 0..n : Seqs(f[i]) = K
  <2> DEFINE Bad == {i \in 0..n : Seqs(f[i]) # K}
  <2> SUFFICES ASSUME Bad # {} PROVE FALSE
    OBVIOUS
  <2>1. PICK i \in Bad : \A y \in Bad : i <= y
    <3>1. Bad \in SUBSET Nat
      OBVIOUS
    <3> HIDE DEF Bad
    <3> QED BY <3>1, LeastNumber
  <2>2. f[0] = cache.tree
    BY <1>2, <1>3 DEF Upto
  <2>3. i # 0
    BY <2>1, <2>2 DEF Knows
  <2>4. i \in 0..n /\ i - 1 \in 0..n /\ ~(i <= i - 1)
    BY <2>1, <2>3
  <2>5. Seqs(f[i - 1]) = K
    BY <2>1, <2>4
  <2>6. f[i] = Extended(f[i - 1], cache.uncommitted[i])
    BY <1>2, <1>3, <2>3, <2>4 DEF Upto
  <2>7. Seqs(Extended(f[i - 1], cache.uncommitted[i])) = Seqs(f[i - 1])
    BY ExtendSeqs DEF Extended, HasSequence, Seqs
  <2> QED BY <2>1, <2>5, <2>6, <2>7
<1>5. Seqs(f[n]) = K
  BY <1>4
<1>6. <<>> \in Seq(Int \X Requests)
  OBVIOUS
<1>7. DOMAIN cache = CacheFields /\ DOMAIN cache.seq_states = K /\ cache.recycling = {s \in K : cache.seq_states[s] = "kRecycling"}
  BY DEF Knows
<1> DEFINE c == CommitSequenceExtention(cache)
<1>8. /\ DOMAIN c = CacheFields /\ c.tree = f[n] /\ c.uncommitted = <<>>
      /\ c.seq_states = cache.seq_states /\ c.recycling = cache.recycling
  BY <1>1, <1>2, <1>3 DEF CacheFields
<1> HIDE DEF c
<1>9. Knows(c, K) /\ c.recycling = cache.recycling
  BY <1>5, <1>6, <1>7, <1>8 DEF Knows
<1> QED BY <1>9 DEF c

\* A sequence leaves the cache.
LEMMA DroppedKnows ==
  ASSUME NEW c, NEW K, NEW s, Knows(c, K)
  PROVE  /\ Knows(Dropped(c, s), K \ {s})
         /\ Dropped(c, s).recycling = c.recycling \ {s}
<1>1. DOMAIN c = CacheFields
  BY DEF Knows
<1> DEFINE d == Dropped(c, s)
<1>2. /\ DOMAIN d = CacheFields /\ d.tree = RemoveSequence(c.tree, s) /\ d.uncommitted = c.uncommitted
      /\ d.seq_states = Without(c.seq_states, s) /\ d.recycling = c.recycling \ {s}
  BY <1>1 DEF Dropped, CacheFields
<1> HIDE DEF d
<1>3. /\ DOMAIN d.seq_states = K \ {s}
      /\ \A u \in K \ {s} : d.seq_states[u] = c.seq_states[u]
  BY <1>2 DEF Without, Restricted, Knows
<1>4. Seqs(d.tree) = K \ {s}
  BY <1>2, RemoveSeqs DEF Knows
<1>5. d.recycling = {u \in K \ {s} : d.seq_states[u] = "kRecycling"}
  BY <1>2, <1>3 DEF Knows
<1>6. Knows(d, K \ {s}) /\ d.recycling = c.recycling \ {s}
  BY <1>2, <1>3, <1>4, <1>5 DEF Knows
<1> QED BY <1>6 DEF d

\* A sequence enters the cache, active.
LEMMA InsertKnows ==
  ASSUME NEW c, NEW K, NEW s, NEW t, Knows(c, K), s \notin K, Seqs(t) = K \cup {s}
  PROVE  /\ Knows(Insert(c, t, s), K \cup {s})
         /\ Insert(c, t, s).recycling = c.recycling
<1>1. DOMAIN c = CacheFields
  BY DEF Knows
<1> DEFINE d == Insert(c, t, s)
<1>2. /\ DOMAIN d = CacheFields /\ d.tree = t /\ d.uncommitted = c.uncommitted
      /\ d.seq_states = With(c.seq_states, s, "kActive") /\ d.recycling = c.recycling
  BY <1>1 DEF Insert, CacheFields
<1> HIDE DEF d
<1>3. /\ DOMAIN d.seq_states = K \cup {s}
      /\ d.seq_states[s] = "kActive"
      /\ \A u \in K : d.seq_states[u] = c.seq_states[u]
  BY <1>2 DEF With, Knows
<1>5. d.recycling = {u \in K \cup {s} : d.seq_states[u] = "kRecycling"}
  BY <1>2, <1>3 DEF Knows
<1>6. Knows(d, K \cup {s}) /\ d.recycling = c.recycling
  BY <1>2, <1>3, <1>5 DEF Knows
<1> QED BY <1>6 DEF d

\* A sequence is taken over by a request.
LEMMA ReuseKnows ==
  ASSUME NEW c, NEW K, NEW s \in K, NEW pop, Knows(c, K)
  PROVE  /\ Knows(ReuseRecyclingSequence(c, s, pop), K)
         /\ ReuseRecyclingSequence(c, s, pop).recycling = c.recycling \ {s}
<1>1. DOMAIN c = CacheFields
  BY DEF Knows
<1> DEFINE d == ReuseRecyclingSequence(c, s, pop)
<1>2. /\ DOMAIN d = CacheFields /\ d.uncommitted = c.uncommitted
      /\ d.tree = IF pop > 0 THEN RollBackSequence(c.tree, s, pop) ELSE c.tree
      /\ d.seq_states = [c.seq_states EXCEPT ![s] = "kActive"] /\ d.recycling = c.recycling \ {s}
  BY <1>1 DEF ReuseRecyclingSequence, CacheFields
<1> HIDE DEF d
<1>3. /\ DOMAIN d.seq_states = K
      /\ d.seq_states[s] = "kActive"
      /\ \A u \in K \ {s} : d.seq_states[u] = c.seq_states[u]
  BY <1>2 DEF Knows
<1>4. Seqs(d.tree) = K
  BY <1>2, RollBackSeqs DEF Knows
<1>5. d.recycling = {u \in K : d.seq_states[u] = "kRecycling"}
  BY <1>2, <1>3 DEF Knows
<1>6. Knows(d, K) /\ d.recycling = c.recycling \ {s}
  BY <1>2, <1>3, <1>4, <1>5 DEF Knows
<1> QED BY <1>6 DEF d

\* A sequence without a request is queued for eviction.
Recycled(c, s) == [c EXCEPT !.seq_states[s] = "kRecycling", !.recycling = @ \cup {s}]

\* The queue and the states agree on it.
LEMMA RecycledKnows ==
  ASSUME NEW c, NEW K, NEW s \in K, Knows(c, K)
  PROVE  Knows(Recycled(c, s), K) /\ Recycled(c, s).recycling = c.recycling \cup {s}
<1>1. DOMAIN c = CacheFields
  BY DEF Knows
<1> DEFINE d == Recycled(c, s)
<1>2. /\ DOMAIN d = CacheFields /\ d.tree = c.tree /\ d.uncommitted = c.uncommitted
      /\ d.seq_states = [c.seq_states EXCEPT ![s] = "kRecycling"] /\ d.recycling = c.recycling \cup {s}
  BY <1>1 DEF CacheFields, Recycled
<1> HIDE DEF d
<1>3. /\ DOMAIN d.seq_states = K
      /\ d.seq_states[s] = "kRecycling"
      /\ \A u \in K \ {s} : d.seq_states[u] = c.seq_states[u]
  BY <1>2 DEF Knows
<1>5. d.recycling = {u \in K : d.seq_states[u] = "kRecycling"}
  BY <1>2, <1>3 DEF Knows
<1>6. Knows(d, K) /\ d.recycling = c.recycling \cup {s}
  BY <1>2, <1>3, <1>5 DEF Knows
<1> QED BY <1>6 DEF d

-----------------------------------------------------------------------------
(* Who has which id.  K are the sequences of the KV cache, R those that    *)
(* are recycling, F the free ids, n the counter, rq the requests and P     *)
(* those that are pinned.                                                  *)

Has(rq, r, status) == rq[r].status = status

\* A running request has a sequence of its own that is not recycling.
Running(K, R, rq) ==
  /\ \A r \in Requests : Has(rq, r, "kAlive") => rq[r].id \in K /\ rq[r].id \notin R
  /\ \A r, q \in Requests : Has(rq, r, "kAlive") /\ Has(rq, q, "kAlive") /\ rq[r].id = rq[q].id => r = q
\* A sequence that is not recycling belongs to a request that runs or is pinned.
Owned(K, R, rq, P) ==
  \A s \in K : s \notin R => \E r \in Requests : (Has(rq, r, "kAlive") \/ r \in P) /\ rq[r].id = s
\* A request that waits has an id of its own that is neither in use nor free.
Reserved(K, F, n, rq) ==
  /\ \A r \in Requests : Has(rq, r, "kPending") =>
       /\ rq[r].id \in Nat /\ rq[r].id < n
       /\ rq[r].id \notin K /\ rq[r].id \notin F
  /\ \A r, q \in Requests : Has(rq, r, "kPending") /\ Has(rq, q, "kPending") /\ rq[r].id = rq[q].id => r = q
\* Ids in use or free have been given out by the counter, and none is both.
Counted(K, R, F, n) ==
  /\ \A s \in K : s \in Nat /\ s < n /\ s \notin F
  /\ \A s \in F : s \in Nat /\ s < n
  /\ \A s \in R : s \in K

Accounted(K, R, F, n, rq, P) ==
  Running(K, R, rq) /\ Owned(K, R, rq, P) /\ Reserved(K, F, n, rq) /\ Counted(K, R, F, n)

\* From rq to rp request r gets this status and this id.
Moved(rq, rp, r, status, id) ==
  \A q \in Requests : /\ rp[q].status = IF q = r THEN status ELSE rq[q].status
                      /\ rp[q].id = IF q = r THEN id ELSE rq[q].id

\* A request arrives with an id that is free, or that the counter gives.
LEMMA IdTaken ==
  ASSUME NEW K, NEW R, NEW F, NEW n \in Nat, NEW rq, NEW rp, NEW P, NEW r \in Requests,
         NEW G, NEW m \in Nat, NEW x \in Nat,
         Accounted(K, R, F, n, rq, P), Has(rq, r, "new"),
         Moved(rq, rp, r, "kPending", x),
         n <= m, x < m, x \notin G, x \in F \/ x >= n, \A y \in G : y \in F,
         r \in P => rq[r].id \notin K
  PROVE  Accounted(K, R, G, m, rp, P)
<1> USE DEF Has
<1>0. x \notin K /\ \A q \in Requests : Has(rq, q, "kPending") => rq[q].id # x
  BY DEF Accounted, Counted, Reserved
<1>1. Running(K, R, rp)
  BY DEF Accounted, Running, Moved
<1>2. Owned(K, R, rp, P)
  BY DEF Accounted, Owned, Moved
<1>3. Reserved(K, G, m, rp)
  BY <1>0 DEF Accounted, Reserved, Moved
<1>4. Counted(K, R, G, m)
  BY DEF Accounted, Counted
<1> QED BY <1>1, <1>2, <1>3, <1>4 DEF Accounted

\* A running request leaves, with its sequence: its id is free.
LEMMA IdReturned ==
  ASSUME NEW K, NEW R, NEW F, NEW n \in Nat, NEW rq, NEW rp, NEW P, NEW r \in Requests,
         Accounted(K, R, F, n, rq, P), Has(rq, r, "kAlive"), Moved(rq, rp, r, "kFinished", rq[r].id)
  PROVE  Accounted(K \ {rq[r].id}, R \ {rq[r].id}, F \cup {rq[r].id}, n, rp, P)
<1> USE DEF Has
<1> DEFINE s == rq[r].id
<1>0. s \in K /\ s \notin R /\ s \in Nat /\ s < n
  BY DEF Accounted, Counted, Running
<1>1. Running(K \ {s}, R \ {s}, rp)
  BY DEF Accounted, Running, Moved
<1>2. Owned(K \ {s}, R \ {s}, rp, P)
  BY DEF Accounted, Owned, Moved
<1>3. Reserved(K \ {s}, F \cup {s}, n, rp)
  BY <1>0 DEF Accounted, Reserved, Moved
<1>4. Counted(K \ {s}, R \ {s}, F \cup {s}, n)
  BY <1>0 DEF Accounted, Counted
<1> QED BY <1>1, <1>2, <1>3, <1>4 DEF Accounted

\* A running request waits again, with its id but without its sequence.
LEMMA IdKept ==
  ASSUME NEW K, NEW R, NEW F, NEW n \in Nat, NEW rq, NEW rp, NEW P, NEW r \in Requests,
         Accounted(K, R, F, n, rq, P), Has(rq, r, "kAlive"), Moved(rq, rp, r, "kPending", rq[r].id)
  PROVE  Accounted(K \ {rq[r].id}, R \ {rq[r].id}, F, n, rp, P)
<1> USE DEF Has
<1> DEFINE s == rq[r].id
<1>0. s \in K /\ s \notin R /\ s \in Nat /\ s < n /\ s \notin F
  BY DEF Accounted, Counted, Running
<1>1. Running(K \ {s}, R \ {s}, rp)
  BY DEF Accounted, Running, Moved
<1>2. Owned(K \ {s}, R \ {s}, rp, P)
  BY DEF Accounted, Owned, Moved
<1>3. Reserved(K \ {s}, F, n, rp)
  BY <1>0 DEF Accounted, Reserved, Moved
<1>4. Counted(K \ {s}, R \ {s}, F, n)
  BY <1>0 DEF Accounted, Counted
<1> QED BY <1>1, <1>2, <1>3, <1>4 DEF Accounted

\* A request that waits leaves, and its id is lost.
LEMMA IdLost ==
  ASSUME NEW K, NEW R, NEW F, NEW n \in Nat, NEW rq, NEW rp, NEW P, NEW r \in Requests,
         Accounted(K, R, F, n, rq, P), Has(rq, r, "kPending"), Moved(rq, rp, r, "kFinished", rq[r].id)
  PROVE  Accounted(K, R, F, n, rp, P)
<1> USE DEF Has
<1>1. Running(K, R, rp)
  BY DEF Accounted, Running, Moved
<1>2. Owned(K, R, rp, P)
  BY DEF Accounted, Owned, Moved
<1>3. Reserved(K, F, n, rp)
  BY DEF Accounted, Reserved, Moved
<1> QED BY <1>1, <1>2, <1>3 DEF Accounted

\* A recycling sequence is evicted: its id is free.
LEMMA IdEvicted ==
  ASSUME NEW K, NEW R, NEW F, NEW n \in Nat, NEW rq, NEW P, NEW s \in R,
         Accounted(K, R, F, n, rq, P)
  PROVE  Accounted(K \ {s}, R \ {s}, F \cup {s}, n, rq, P)
<1> USE DEF Has
<1>0. s \in K /\ s \in Nat /\ s < n
  BY DEF Accounted, Counted
<1>1. Running(K \ {s}, R \ {s}, rq)
  BY DEF Accounted, Running
<1>2. Owned(K \ {s}, R \ {s}, rq, P)
  BY DEF Accounted, Owned
<1>3. Reserved(K \ {s}, F \cup {s}, n, rq)
  BY <1>0 DEF Accounted, Reserved
<1>4. Counted(K \ {s}, R \ {s}, F \cup {s}, n)
  BY <1>0 DEF Accounted, Counted
<1> QED BY <1>1, <1>2, <1>3, <1>4 DEF Accounted

\* A request that waits takes over a recycling sequence and returns its own id.
LEMMA IdTakenOver ==
  ASSUME NEW K, NEW R, NEW F, NEW n \in Nat, NEW rq, NEW rp, NEW P, NEW r \in Requests, NEW s \in R,
         Accounted(K, R, F, n, rq, P), Has(rq, r, "kPending"), Moved(rq, rp, r, "kAlive", s)
  PROVE  Accounted(K, R \ {s}, F \cup {rq[r].id}, n, rp, P)
<1> USE DEF Has
<1> DEFINE x == rq[r].id
<1>0. s \in K /\ s \in Nat /\ s < n /\ x \notin K /\ x \in Nat /\ x < n
  BY DEF Accounted, Counted, Reserved
<1>1. Running(K, R \ {s}, rp)
  BY <1>0 DEF Accounted, Running, Moved
<1>2. Owned(K, R \ {s}, rp, P)
  <2> SUFFICES ASSUME NEW u \in K, u \notin R \ {s}
               PROVE  \E q \in Requests : (Has(rp, q, "kAlive") \/ q \in P) /\ rp[q].id = u
    BY DEF Owned
  <2>1. CASE u = s
    BY <2>1 DEF Moved
  <2>2. CASE u # s
    <3>1. PICK q \in Requests : (Has(rq, q, "kAlive") \/ q \in P) /\ rq[q].id = u
      BY <2>2 DEF Accounted, Owned
    <3>2. q # r
      BY <1>0, <3>1
    <3> QED BY <3>1, <3>2 DEF Moved
  <2> QED BY <2>1, <2>2
<1>3. Reserved(K, F \cup {x}, n, rp)
  BY <1>0 DEF Accounted, Reserved, Moved
<1>4. Counted(K, R \ {s}, F \cup {x}, n)
  BY <1>0 DEF Accounted, Counted
<1> QED BY <1>1, <1>2, <1>3, <1>4 DEF Accounted

\* A request that waits starts a sequence with its id.
LEMMA IdUsed ==
  ASSUME NEW K, NEW R, NEW F, NEW n \in Nat, NEW rq, NEW rp, NEW P, NEW r \in Requests,
         Accounted(K, R, F, n, rq, P), Has(rq, r, "kPending"), Moved(rq, rp, r, "kAlive", rq[r].id)
  PROVE  Accounted(K \cup {rq[r].id}, R, F, n, rp, P)
<1> USE DEF Has
<1> DEFINE s == rq[r].id
<1>0. s \notin K /\ s \notin R /\ s \notin F /\ s \in Nat /\ s < n
  BY DEF Accounted, Counted, Reserved
<1>1. Running(K \cup {s}, R, rp)
  BY <1>0 DEF Accounted, Running, Moved
<1>2. Owned(K \cup {s}, R, rp, P)
  <2> SUFFICES ASSUME NEW u \in K \cup {s}, u \notin R
               PROVE  \E q \in Requests : (Has(rp, q, "kAlive") \/ q \in P) /\ rp[q].id = u
    BY DEF Owned
  <2>1. CASE u = s
    BY <2>1 DEF Moved
  <2>2. CASE u # s
    <3>1. PICK q \in Requests : (Has(rq, q, "kAlive") \/ q \in P) /\ rq[q].id = u
      BY <2>2 DEF Accounted, Owned
    <3>2. q # r
      BY <2>2, <3>1
    <3> QED BY <3>1, <3>2 DEF Moved
  <2> QED BY <2>1, <2>2
<1>3. Reserved(K \cup {s}, F, n, rp)
  BY <1>0 DEF Accounted, Reserved, Moved
<1>4. Counted(K \cup {s}, R, F, n)
  BY <1>0 DEF Accounted, Counted
<1> QED BY <1>1, <1>2, <1>3, <1>4 DEF Accounted

\* A running request ends and its sequence is left to be taken over, or, if it is
\* pinned, stays as it is.
LEMMA IdLeft ==
  ASSUME NEW K, NEW R, NEW F, NEW n \in Nat, NEW rq, NEW rp, NEW P, NEW r \in Requests,
         Accounted(K, R, F, n, rq, P), Has(rq, r, "kAlive"), Moved(rq, rp, r, "kFinished", rq[r].id)
  PROVE  /\ Accounted(K, R \cup {rq[r].id}, F, n, rp, P)
         /\ r \in P => Accounted(K, R, F, n, rp, P)
<1> USE DEF Has
<1> DEFINE s == rq[r].id
<1>0. s \in K /\ s \notin R /\ s \in Nat /\ s < n
  BY DEF Accounted, Counted, Running
<1>1. Running(K, R \cup {s}, rp) /\ Running(K, R, rp)
  BY DEF Accounted, Running, Moved
<1>2. Owned(K, R \cup {s}, rp, P) /\ (r \in P => Owned(K, R, rp, P))
  BY DEF Accounted, Owned, Moved
<1>3. Reserved(K, F, n, rp)
  BY <1>0 DEF Accounted, Reserved, Moved
<1>4. Counted(K, R \cup {s}, F, n) /\ Counted(K, R, F, n)
  BY <1>0 DEF Accounted, Counted
<1> QED BY <1>1, <1>2, <1>3, <1>4 DEF Accounted

\* Status and ids stay.
LEMMA IdsSame ==
  ASSUME NEW K, NEW R, NEW F, NEW n, NEW rq, NEW rp, NEW P,
         Accounted(K, R, F, n, rq, P),
         \A q \in Requests : rp[q].status = rq[q].status /\ rp[q].id = rq[q].id
  PROVE  Accounted(K, R, F, n, rp, P)
<1>1. Running(K, R, rp)
  BY DEF Accounted, Running, Has
<1>2. Owned(K, R, rp, P)
  BY DEF Accounted, Owned, Has
<1>3. Reserved(K, F, n, rp)
  BY DEF Accounted, Reserved, Has
<1> QED BY <1>1, <1>2, <1>3 DEF Accounted

-----------------------------------------------------------------------------
(* The inductive invariant.                                                *)

EntryFields == {"status", "id", "inputs", "prefilled", "committed", "cached"}

\* The request state entries; one that is new has no id yet.
Entries(rq) ==
  /\ DOMAIN rq = Requests
  /\ \A r \in Requests : /\ DOMAIN rq[r] = EntryFields
                         /\ rq[r].status \in {"new", "kPending", "kAlive", "kFinished"}
                         /\ rq[r].id \in Int
                         /\ rq[r].status = "new" => rq[r].id < 0

FreeIds(ids) == ids \in Seq(Nat) /\ Distinct(ids)

TypeOK ==
  /\ config \in Configs
  /\ Entries(req)
  /\ FreeIds(available_ids) /\ id_cnt \in Nat
  /\ batch \in Seq(Requests) /\ Distinct(batch)
  /\ pc \in {"idle", "match", "post", "finish"}

\* The queue for eviction keeps to its limit.
QueueInLimit(R, limit) == IsFiniteSet(R) /\ Cardinality(R) <= limit

\* The requests of a step wait until they are matched, and are alive afterwards.
BatchAlive ==
  /\ pc = "match" => \A r \in ToSet(batch) : req[r].status \in {"kPending", "kAlive"}
  /\ pc \in {"post", "finish"} => \A r \in ToSet(batch) : req[r].status = "kAlive"
  /\ pc = "finish" => batch # <<>>

IInv ==
  /\ TypeOK
  /\ Knows(cache, DOMAIN kv)
  /\ QueueInLimit(cache.recycling, config.limit)
  /\ Accounted(DOMAIN kv, cache.recycling, ToSet(available_ids), id_cnt, req, config.pinned)
  /\ BatchAlive

\* What the constants are.
LEMMA ConfigFacts ==
  ASSUME config \in Configs
  PROVE  config.limit \in Nat /\ config.pinned \subseteq Requests
BY PrefixCacheAssumption

\* The invariant implies the two properties.
LEMMA InvImplies ==
  IInv => ActiveHasOwner /\ FreeIdsUnused
<1> SUFFICES ASSUME IInv PROVE ActiveHasOwner /\ FreeIdsUnused
  OBVIOUS
<1> DEFINE K == DOMAIN kv  R == cache.recycling  F == ToSet(available_ids)
<1>1. config.pinned \subseteq Requests
  BY ConfigFacts DEF IInv, TypeOK
<1>2. DOMAIN cache.seq_states = K /\ DOMAIN cache.tree.seq2page = K /\ R = {s \in K : cache.seq_states[s] = "kRecycling"}
  BY DEF IInv, Knows, Seqs
<1>3. Cardinality(R) <= config.limit
  BY DEF IInv, QueueInLimit
<1>4. Running(K, R, req) /\ Owned(K, R, req, config.pinned) /\ Reserved(K, F, id_cnt, req) /\ Counted(K, R, F, id_cnt)
  BY DEF IInv, Accounted
<1> HIDE DEF R, F
<1>5. \A r, q \in Alive : r # q => req[r].id # req[q].id
  BY <1>4 DEF Running, Has, Alive
<1>6. {req[r].id : r \in Alive} \subseteq K \ R
  BY <1>4 DEF Running, Has, Alive
<1>7. \A s \in K \ R : \E r \in Alive \cup config.pinned : req[r].id = s
  BY <1>1, <1>4 DEF Owned, Has, Alive
<1>8. ActiveHasOwner
  BY <1>2, <1>3, <1>5, <1>6, <1>7 DEF ActiveHasOwner, R
<1>9. IsInjective(available_ids)
  BY DEF IInv, TypeOK, FreeIds, Distinct, IsInjective
<1>10. F \cap K = {}
  BY <1>4 DEF Counted
<1>11. \A r \in Requests : req[r].status = "kPending" => req[r].id \notin F \cup K
  BY <1>4 DEF Reserved, Has
<1>12. FreeIdsUnused
  BY <1>9, <1>10, <1>11 DEF FreeIdsUnused, F
<1> QED BY <1>8, <1>12

\* The invariant holds initially.
LEMMA InitInv ==
  Init => IInv
<1> SUFFICES ASSUME Init PROVE IInv
  OBVIOUS
<1>1. config.limit \in Nat /\ config.pinned \subseteq Requests
  BY ConfigFacts DEF Init
<1>2. ToSet(<<>>) = {}
  BY DEF ToSet
<1>3. Entries(req)
  BY DEF Init, Entries, EntryFields
<1>4. FreeIds(available_ids)
  BY DEF Init, FreeIds, Distinct
<1>5. TypeOK
  BY <1>3, <1>4 DEF Init, TypeOK, Distinct
<1>6. DOMAIN kv = {} /\ cache.recycling = {}
  BY DEF Init, EmptyCache
<1>7. Knows(cache, {})
  BY DEF Init, EmptyCache, EmptyTree, Knows, CacheFields, Seqs
<1>8. QueueInLimit(cache.recycling, config.limit)
  BY <1>1, <1>6, FS_EmptySet DEF QueueInLimit
<1>9. \A r \in Requests : req[r].status = "new"
  BY DEF Init
<1>10. Accounted({}, {}, {}, id_cnt, req, config.pinned)
  BY <1>9 DEF Accounted, Running, Owned, Reserved, Counted, Has
<1>11. BatchAlive
  BY DEF Init, BatchAlive
<1> QED BY <1>2, <1>5, <1>6, <1>7, <1>8, <1>10, <1>11 DEF IInv, Init

-----------------------------------------------------------------------------
(* The steps of the clients.                                               *)

\* While no step of the engine is under way nothing is said of the batch.
LEMMA IdleBatch ==
  ASSUME IInv, pc = "idle", pc' = pc
  PROVE  BatchAlive'
BY DEF BatchAlive

\* A request arrives.
LEMMA AddRequestInv ==
  ASSUME IInv, NEW r \in Requests, AddRequest(r)
  PROVE  IInv'
<1> DEFINE K == DOMAIN kv  R == cache.recycling  F == ToSet(available_ids)
<1>1. /\ config' = config /\ cache' = cache /\ kv' = kv /\ pc' = pc /\ batch' = batch
      /\ pc = "idle" /\ req[r].status = "new"
      /\ req' = [req EXCEPT ![r].status = "kPending", ![r].id = NewId]
      /\ TakeId
  BY DEF AddRequest
<1>2. Entries(req) /\ available_ids \in Seq(Nat) /\ Distinct(available_ids) /\ id_cnt \in Nat
  BY DEF IInv, TypeOK, FreeIds
<1>3. /\ NewId \in Nat /\ FreeIds(available_ids') /\ id_cnt' \in Nat
      /\ id_cnt <= id_cnt' /\ NewId < id_cnt' /\ NewId \notin ToSet(available_ids')
      /\ NewId \in F \/ NewId >= id_cnt
      /\ \A y \in ToSet(available_ids') : y \in F
  <2>1. Counted(K, R, F, id_cnt)
    BY DEF IInv, Accounted
  <2>2. CASE available_ids = <<>>
    <3>1. NewId = id_cnt /\ id_cnt' = id_cnt + 1 /\ available_ids' = <<>>
      BY <1>1, <2>2 DEF NewId, TakeId
    <3>2. ToSet(<<>>) = {} /\ FreeIds(<<>>)
      BY DEF ToSet, FreeIds, Distinct
    <3> QED BY <1>2, <3>1, <3>2
  <2>3. CASE available_ids # <<>>
    <3>1. NewId = Last(available_ids) /\ id_cnt' = id_cnt /\ available_ids' = Front(available_ids)
      BY <1>1, <2>3 DEF NewId, TakeId
    <3>2. /\ Front(available_ids) \in Seq(Nat) /\ Distinct(Front(available_ids))
          /\ Last(available_ids) \in Nat /\ Last(available_ids) \in F
          /\ Last(available_ids) \notin ToSet(Front(available_ids))
          /\ ToSet(Front(available_ids)) \subseteq F
      BY <1>2, <2>3, FrontFacts
    <3>3. Last(available_ids) < id_cnt
      BY <2>1, <3>2 DEF Counted
    <3> QED BY <1>2, <3>1, <3>2, <3>3 DEF FreeIds
  <2> QED BY <2>2, <2>3
<1>4. Moved(req, req', r, "kPending", NewId)
  BY <1>1, <1>2 DEF Moved, Entries, EntryFields
<1>5. Entries(req')
  BY <1>1, <1>2, <1>3 DEF Entries, EntryFields
<1>6. req[r].id \notin K
  <2>1. req[r].id < 0 /\ req[r].id \in Int
    BY <1>1, <1>2 DEF Entries
  <2>2. \A s \in K : s \in Nat
    BY DEF IInv, Accounted, Counted
  <2> QED BY <2>1, <2>2
<1>7. Accounted(K, R, ToSet(available_ids'), id_cnt', req', config.pinned)
  <2>1. Has(req, r, "new") /\ Accounted(K, R, F, id_cnt, req, config.pinned)
    BY <1>1 DEF Has, IInv
  <2> HIDE DEF K, R, F
  <2> QED BY <1>2, <1>3, <1>4, <1>6, <2>1, IdTaken
<1>8. TypeOK'
  BY <1>1, <1>3, <1>5 DEF IInv, TypeOK
<1>9. BatchAlive'
  BY <1>1, IdleBatch
<1> QED BY <1>1, <1>7, <1>8, <1>9 DEF IInv

\* An id is returned that was not free.
LEMMA ReturnId ==
  ASSUME NEW ids, FreeIds(ids), NEW x \in Nat, x \notin ToSet(ids)
  PROVE  FreeIds(Append(ids, x)) /\ ToSet(Append(ids, x)) = ToSet(ids) \cup {x}
<1>1. ids \in Seq(Nat) /\ Distinct(ids)
  BY DEF FreeIds
<1>2. /\ Append(ids, x) \in Seq(Nat) /\ Distinct(Append(ids, x))
      /\ \A y : y \in ToSet(Append(ids, x)) <=> y \in ToSet(ids) \/ y = x
  BY <1>1, AppendFacts
<1> QED BY <1>2 DEF FreeIds

\* A subset of the queue for eviction is no longer.
LEMMA ShorterQueue ==
  ASSUME NEW R, NEW limit \in Nat, QueueInLimit(R, limit), NEW s
  PROVE  QueueInLimit(R \ {s}, limit)
<1>1. IsFiniteSet(R) /\ Cardinality(R) \in Nat /\ Cardinality(R) <= limit
  BY FS_CardinalityType DEF QueueInLimit
<1>2. IsFiniteSet(R \ {s}) /\ Cardinality(R \ {s}) <= Cardinality(R) /\ Cardinality(R \ {s}) \in Nat
  BY <1>1, FS_Subset, FS_CardinalityType
<1> QED BY <1>1, <1>2 DEF QueueInLimit

\* A sequence leaves at once: what becomes of cache and KV cache.
LEMMA RemoveNowFacts ==
  ASSUME IInv, NEW s, RemoveNow(s)
  PROVE  /\ Knows(cache', DOMAIN kv') /\ DOMAIN kv' = DOMAIN kv \ {s}
         /\ cache'.recycling = cache.recycling \ {s}
         /\ QueueInLimit(cache'.recycling, config.limit)
<1> DEFINE c == CommitSequenceExtention(cache)
<1>1. Knows(c, DOMAIN kv) /\ c.recycling = cache.recycling
  BY CommitKnows DEF IInv
<1>2. cache' = Dropped(c, s) /\ kv' = Without(kv, s)
  BY DEF RemoveNow
<1> HIDE DEF c
<1>3. Knows(cache', DOMAIN kv \ {s}) /\ cache'.recycling = cache.recycling \ {s}
  BY <1>1, <1>2, DroppedKnows
<1>4. DOMAIN kv' = DOMAIN kv \ {s}
  BY <1>2 DEF Without, Restricted
<1>5. QueueInLimit(cache.recycling \ {s}, config.limit)
  BY ShorterQueue, ConfigFacts DEF IInv, TypeOK
<1> QED BY <1>3, <1>4, <1>5

\* The sequence of a running request.
LEMMA RunningId ==
  ASSUME IInv, NEW r \in Requests, req[r].status = "kAlive"
  PROVE  /\ req[r].id \in Nat /\ req[r].id \in DOMAIN kv /\ req[r].id \notin cache.recycling
         /\ req[r].id \notin ToSet(available_ids)
BY DEF IInv, Accounted, Running, Counted, Has

\* The id of a request that waits.
LEMMA WaitingId ==
  ASSUME IInv, NEW r \in Requests, req[r].status = "kPending"
  PROVE  /\ req[r].id \in Nat /\ req[r].id \notin DOMAIN kv
         /\ req[r].id \notin ToSet(available_ids)
BY DEF IInv, Accounted, Reserved, Has

\* A request that ends keeps its id.
LEMMA GoneMoved ==
  ASSUME IInv, NEW r \in Requests, req' = [req EXCEPT ![r] = Gone(r)]
  PROVE  Moved(req, req', r, "kFinished", req[r].id) /\ Entries(req')
<1>1. Entries(req)
  BY DEF IInv, TypeOK
<1> QED BY <1>1 DEF Moved, Entries, EntryFields, Gone

\* A request is aborted.
LEMMA AbortRequestInv ==
  ASSUME IInv, NEW r \in Requests, AbortRequest(r)
  PROVE  IInv'
<1> DEFINE K == DOMAIN kv  R == cache.recycling  F == ToSet(available_ids)  x == req[r].id
<1>1. /\ config' = config /\ id_cnt' = id_cnt /\ pc' = pc /\ batch' = batch /\ pc = "idle"
      /\ req' = [req EXCEPT ![r] = Gone(r)]
  BY DEF AbortRequest
<1>2. Moved(req, req', r, "kFinished", x) /\ Entries(req')
  BY <1>1, GoneMoved
<1>3. BatchAlive'
  BY <1>1, IdleBatch
<1>4. FreeIds(available_ids) /\ id_cnt \in Nat /\ Accounted(K, R, F, id_cnt, req, config.pinned)
  BY DEF IInv, TypeOK
<1>5. CASE r \in Alive /\ RemoveNow(x) /\ available_ids' = Append(available_ids, x)
  <2>1. req[r].status = "kAlive"
    BY <1>5 DEF Alive
  <2>2. FreeIds(available_ids') /\ ToSet(available_ids') = F \cup {x}
    BY <1>4, <1>5, <2>1, RunningId, ReturnId
  <2>3. /\ Knows(cache', DOMAIN kv') /\ DOMAIN kv' = K \ {x}
        /\ cache'.recycling = R \ {x} /\ QueueInLimit(cache'.recycling, config.limit)
    BY <1>5, RemoveNowFacts
  <2>4. Accounted(K \ {x}, R \ {x}, F \cup {x}, id_cnt, req', config.pinned)
    <3>1. Has(req, r, "kAlive")
      BY <2>1 DEF Has
    <3> HIDE DEF K, R, F
    <3> QED BY <1>2, <1>4, <3>1, IdReturned
  <2>5. TypeOK'
    BY <1>1, <1>2, <2>2 DEF IInv, TypeOK
  <2> HIDE DEF x
  <2> QED BY <1>1, <1>3, <2>2, <2>3, <2>4, <2>5 DEF IInv
<1>6. CASE req[r].status = "kPending" /\ UNCHANGED <<cache, kv, available_ids>>
  <2>1. Accounted(K, R, F, id_cnt, req', config.pinned)
    <3>1. Has(req, r, "kPending")
      BY <1>6 DEF Has
    <3> HIDE DEF K, R, F
    <3> QED BY <1>2, <1>4, <3>1, IdLost
  <2>2. TypeOK'
    BY <1>1, <1>2, <1>6 DEF IInv, TypeOK
  <2> QED BY <1>1, <1>3, <1>6, <2>1, <2>2 DEF IInv
<1> QED BY <1>5, <1>6 DEF AbortRequest

\* Everything is reset.
LEMMA ResetInv ==
  ASSUME IInv, Reset
  PROVE  IInv'
<1>1. /\ config' = config /\ pc' = pc /\ batch' = batch /\ pc = "idle"
      /\ cache' = EmptyCache /\ kv' = [s \in {} |-> <<>>] /\ available_ids' = <<>> /\ id_cnt' = 0
      /\ req' = [r \in Requests |-> IF req[r].status = "new" THEN req[r] ELSE Gone(r)]
  BY DEF Reset
<1>2. Entries(req')
  BY <1>1 DEF IInv, TypeOK, Entries, EntryFields, Gone
<1>3. BatchAlive'
  BY <1>1, IdleBatch
<1>4. ToSet(<<>>) = {} /\ FreeIds(<<>>)
  BY DEF ToSet, FreeIds, Distinct
<1>5. TypeOK'
  BY <1>1, <1>2, <1>4 DEF IInv, TypeOK
<1>6. DOMAIN kv' = {} /\ cache'.recycling = {}
  BY <1>1 DEF EmptyCache
<1>7. Knows(cache', {})
  BY <1>1 DEF EmptyCache, EmptyTree, Knows, CacheFields, Seqs
<1>8. QueueInLimit({}, config.limit)
  BY ConfigFacts, FS_EmptySet DEF QueueInLimit, IInv, TypeOK
<1>9. \A r \in Requests : req'[r].status \in {"new", "kFinished"}
  BY <1>1 DEF IInv, TypeOK, Entries, EntryFields, Gone
<1>10. Accounted({}, {}, {}, id_cnt', req', config.pinned)
  BY <1>9 DEF Accounted, Running, Owned, Reserved, Counted, Has
<1> QED BY <1>1, <1>3, <1>4, <1>5, <1>6, <1>7, <1>8, <1>10 DEF IInv

\* A recycling sequence is evicted: what becomes of cache, KV cache and ids.
LEMMA EvictFacts ==
  ASSUME IInv, NEW c, NEW s \in cache.recycling, Knows(c, DOMAIN kv), c.recycling = cache.recycling
  PROVE  /\ Knows(Dropped(c, s), DOMAIN Without(kv, s))
         /\ DOMAIN Without(kv, s) = DOMAIN kv \ {s}
         /\ Dropped(c, s).recycling = cache.recycling \ {s}
         /\ QueueInLimit(cache.recycling \ {s}, config.limit)
         /\ FreeIds(Append(available_ids, s))
         /\ Accounted(DOMAIN kv \ {s}, cache.recycling \ {s}, ToSet(Append(available_ids, s)), id_cnt,
                      req, config.pinned)
<1> DEFINE K == DOMAIN kv  R == cache.recycling  F == ToSet(available_ids)
<1>1. DOMAIN Without(kv, s) = K \ {s}
  BY DEF Without, Restricted
<1>2. Knows(Dropped(c, s), K \ {s}) /\ Dropped(c, s).recycling = R \ {s}
  BY DroppedKnows
<1>3. QueueInLimit(R \ {s}, config.limit)
  BY ShorterQueue, ConfigFacts DEF IInv, TypeOK
<1>4. Accounted(K, R, F, id_cnt, req, config.pinned) /\ FreeIds(available_ids) /\ id_cnt \in Nat
  BY DEF IInv, TypeOK
<1>5. s \in Nat /\ s \notin F
  BY <1>4 DEF Accounted, Counted
<1>6. FreeIds(Append(available_ids, s)) /\ ToSet(Append(available_ids, s)) = F \cup {s}
  BY <1>4, <1>5, ReturnId
<1>7. Accounted(K \ {s}, R \ {s}, F \cup {s}, id_cnt, req, config.pinned)
  <2>1. s \in R
    OBVIOUS
  <2> HIDE DEF K, R, F
  <2> QED BY <1>4, <2>1, IdEvicted
<1> QED BY <1>1, <1>2, <1>3, <1>6, <1>7

\* Memory is made.
LEMMA TryFreeMemoryInv ==
  ASSUME IInv, TryFreeMemory
  PROVE  IInv'
<1>1. PICK s \in cache.recycling :
        /\ cache' = Dropped(cache, s) /\ kv' = Without(kv, s) /\ available_ids' = Append(available_ids, s)
  BY DEF TryFreeMemory
<1>2. /\ config' = config /\ id_cnt' = id_cnt /\ pc' = pc /\ batch' = batch /\ pc = "idle" /\ req' = req
  BY DEF TryFreeMemory
<1>3. Knows(cache, DOMAIN kv)
  BY DEF IInv
<1>4. /\ Knows(Dropped(cache, s), DOMAIN Without(kv, s))
      /\ DOMAIN Without(kv, s) = DOMAIN kv \ {s}
      /\ Dropped(cache, s).recycling = cache.recycling \ {s}
      /\ QueueInLimit(cache.recycling \ {s}, config.limit)
      /\ FreeIds(Append(available_ids, s))
      /\ Accounted(DOMAIN kv \ {s}, cache.recycling \ {s}, ToSet(Append(available_ids, s)), id_cnt,
                   req, config.pinned)
  BY <1>3, EvictFacts
<1>5. TypeOK'
  BY <1>1, <1>2, <1>4 DEF IInv, TypeOK
<1>6. BatchAlive'
  BY <1>2, IdleBatch
<1> QED BY <1>1, <1>2, <1>4, <1>5, <1>6 DEF IInv

\* A running request is preempted.
LEMMA PreemptInv ==
  ASSUME IInv, NEW r \in Requests, Preempt(r)
  PROVE  IInv'
<1> DEFINE K == DOMAIN kv  R == cache.recycling  F == ToSet(available_ids)  x == req[r].id
<1>1. /\ config' = config /\ available_ids' = available_ids /\ id_cnt' = id_cnt
      /\ pc' = pc /\ batch' = batch /\ pc = "idle"
      /\ req[r].status = "kAlive" /\ RemoveNow(x)
      /\ req' = [req EXCEPT ![r].status = "kPending", ![r].inputs = config.prompts[r] \o req[r].committed,
                            ![r].prefilled = <<>>, ![r].cached = 0]
  BY DEF Preempt, Alive, idVars
<1>2. Entries(req)
  BY DEF IInv, TypeOK
<1>3. Entries(req') /\ Moved(req, req', r, "kPending", x)
  <2>1. /\ DOMAIN req' = Requests /\ \A q \in Requests \ {r} : req'[q] = req[q]
        /\ DOMAIN req'[r] = EntryFields /\ req'[r].status = "kPending" /\ req'[r].id = req[r].id
    BY <1>1, <1>2 DEF Entries, EntryFields
  <2> QED BY <1>1, <1>2, <2>1 DEF Moved, Entries
<1>4. /\ Knows(cache', DOMAIN kv') /\ DOMAIN kv' = K \ {x}
      /\ cache'.recycling = R \ {x} /\ QueueInLimit(cache'.recycling, config.limit)
  BY <1>1, RemoveNowFacts
<1>5. id_cnt \in Nat /\ Accounted(K, R, F, id_cnt, req, config.pinned)
  BY DEF IInv, TypeOK
<1>6. Accounted(K \ {x}, R \ {x}, F, id_cnt, req', config.pinned)
  <2>1. Has(req, r, "kAlive")
    BY <1>1 DEF Has
  <2> HIDE DEF K, R, F
  <2> QED BY <1>3, <1>5, <2>1, IdKept
<1>7. TypeOK'
  BY <1>1, <1>3 DEF IInv, TypeOK
<1>8. BatchAlive'
  BY <1>1, IdleBatch
<1> HIDE DEF x
<1> QED BY <1>1, <1>4, <1>6, <1>7, <1>8 DEF IInv

-----------------------------------------------------------------------------
(* The steps of the engine.                                                *)

\* The requests in the order in which they come.
LEMMA ArrivalFacts ==
  ASSUME NEW S
  PROVE  /\ InOrder(Arrival, S) \in Seq(Requests) /\ Distinct(InOrder(Arrival, S))
         /\ \A r \in ToSet(InOrder(Arrival, S)) : r \in S
<1>1. NumRequests \in Nat
  BY PrefixCacheAssumption
<1>2. Arrival \in Seq(Requests) /\ Distinct(Arrival)
  BY <1>1 DEF Arrival, Requests, Distinct
<1> HIDE DEF Arrival
<1> QED BY <1>2, InOrderFacts

\* Requests are chosen: nothing but the batch changes.
LEMMA SelectInv ==
  ASSUME IInv, NEW S, pc' = "match", batch' = InOrder(Arrival, S),
         \A r \in S : r \in Requests => req[r].status \in {"kPending", "kAlive"},
         UNCHANGED <<config, cache, token_ids, kv, idVars, req, interrupts>>
  PROVE  IInv'
<1>1. /\ batch' \in Seq(Requests) /\ Distinct(batch')
      /\ \A r \in ToSet(batch') : r \in S
  BY ArrivalFacts
<1>2. ToSet(batch') \subseteq Requests
  BY <1>1, ToSetFacts
<1>3. /\ config' = config /\ cache' = cache /\ kv' = kv /\ available_ids' = available_ids
      /\ id_cnt' = id_cnt /\ req' = req
  BY DEF idVars
<1>4. TypeOK'
  BY <1>1, <1>3 DEF IInv, TypeOK
<1>5. BatchAlive'
  BY <1>1, <1>2, <1>3 DEF BatchAlive
<1> QED BY <1>3, <1>4, <1>5 DEF IInv

\* Requests are chosen to be prefilled.
LEMMA SelectPrefillInv ==
  ASSUME IInv, SelectPrefill
  PROVE  IInv'
<1>1. PICK S \in SUBSET {r \in Requests : req[r].status \in {"kPending", "kAlive"}} :
        batch' = InOrder(Arrival, S)
  BY DEF SelectPrefill
<1>2. \A r \in S : r \in Requests => req[r].status \in {"kPending", "kAlive"}
  OBVIOUS
<1>3. pc' = "match" /\ UNCHANGED <<config, cache, token_ids, kv, idVars, req, interrupts>>
  BY DEF SelectPrefill
<1> QED BY <1>1, <1>2, <1>3, SelectInv

\* Requests are chosen to be decoded.
LEMMA SelectDecodeInv ==
  ASSUME IInv, SelectDecode
  PROVE  IInv'
<1> DEFINE decoding == {r \in Alive : Decodes(r)}
<1>1. PICK S \in kSubset(Min({Cardinality(decoding), ChunkSize}), decoding) : batch' = InOrder(Arrival, S)
  BY Zenon DEF SelectDecode
<1>2. S \subseteq decoding
  <2> HIDE DEF decoding
  <2> QED BY <1>1 DEF kSubset
<1>3. \A r \in S : r \in Requests => req[r].status \in {"kPending", "kAlive"}
  BY <1>2 DEF Alive
<1>4. pc' = "match" /\ UNCHANGED <<config, cache, token_ids, kv, idVars, req, interrupts>>
  BY DEF SelectDecode
<1> QED BY <1>1, <1>3, <1>4, SelectInv

\* The request that is matched waits.
LEMMA MatchingFacts ==
  ASSUME IInv, NEW r \in Requests, Matching(r)
  PROVE  pc = "match" /\ req[r].status = "kPending"
<1>1. batch \in Seq(Requests)
  BY DEF IInv, TypeOK
<1> DEFINE W == {q \in Requests : req[q].status = "kPending"}
<1>2. InOrder(batch, W) \in Seq(Requests) /\ \A x : x \in ToSet(InOrder(batch, W)) => x \in W
  BY <1>1, InOrderFacts
<1>3. InOrder(batch, W) # <<>> /\ r = InOrder(batch, W)[1] /\ pc = "match"
  BY <1>2 DEF Matching, ToMatch
<1>4. 1 \in 1..Len(InOrder(batch, W))
  BY <1>2, <1>3
<1>5. r \in ToSet(InOrder(batch, W))
  BY <1>2, <1>3, <1>4, ToSetFacts
<1> QED BY <1>2, <1>3, <1>5

\* A request that has been matched runs.
LEMMA PoppedMoved ==
  ASSUME IInv, NEW r \in Requests, NEW num, NEW id \in Int, req' = Popped(r, num, id)
  PROVE  Moved(req, req', r, "kAlive", id) /\ Entries(req')
<1>1. Entries(req)
  BY DEF IInv, TypeOK
<1> QED BY <1>1 DEF Moved, Entries, EntryFields, Popped

\* Matching a request keeps the batch as it should be.
LEMMA MatchBatch ==
  ASSUME IInv, NEW r \in Requests, NEW id, pc = "match", pc' = pc, batch' = batch,
         Moved(req, req', r, "kAlive", id)
  PROVE  BatchAlive'
<1>1. ToSet(batch) \subseteq Requests
  BY ToSetFacts DEF IInv, TypeOK
<1>2. \A q \in ToSet(batch) : req[q].status \in {"kPending", "kAlive"}
  BY DEF IInv, BatchAlive
<1>3. \A q \in ToSet(batch) : req'[q].status \in {"kPending", "kAlive"}
  BY <1>1, <1>2 DEF Moved
<1> QED BY <1>3 DEF BatchAlive

\* A request takes over a sequence.
LEMMA MatchReuseInv ==
  ASSUME IInv, NEW r \in Requests, MatchReuse(r)
  PROVE  IInv'
<1> DEFINE K == DOMAIN kv  R == cache.recycling  F == ToSet(available_ids)  x == req[r].id
           c == CommitSequenceExtention(cache)
           m == Matched(r, c)
<1>1. pc = "match" /\ req[r].status = "kPending"
  BY MatchingFacts DEF MatchReuse
<1>2. /\ config' = config /\ id_cnt' = id_cnt /\ pc' = pc /\ batch' = batch
  BY DEF MatchReuse
<1>3. PICK s, pop :
           /\ s \in Reusable(c, m)
           /\ cache' = ReuseRecyclingSequence(c, s, pop)
           /\ kv' = [kv EXCEPT ![s] = SubSeq(@, 1, Len(@) - pop)]
           /\ available_ids' = Append(available_ids, req[r].id)
           /\ req' = Popped(r, m.offset, s)
  BY Zenon DEF MatchReuse
<1>4. Knows(c, K) /\ c.recycling = R
  BY CommitKnows DEF IInv
<1> HIDE DEF c
<1>5. s \in K /\ s \in R
  <2>1. m.seqs \subseteq Seqs(c.tree)
    BY MatchSeqs DEF Matched
  <2>2. s \in m.seqs /\ c.seq_states[s] = "kRecycling"
    <3> HIDE DEF m
    <3> QED BY <1>3 DEF Reusable
  <2> QED BY <1>4, <2>1, <2>2 DEF Knows
<1>6. Knows(cache', K) /\ cache'.recycling = R \ {s} /\ DOMAIN kv' = K
  BY <1>3, <1>4, <1>5, ReuseKnows
<1>7. QueueInLimit(R \ {s}, config.limit)
  BY ShorterQueue, ConfigFacts DEF IInv, TypeOK
<1>8. FreeIds(available_ids) /\ id_cnt \in Nat /\ Accounted(K, R, F, id_cnt, req, config.pinned)
  BY DEF IInv, TypeOK
<1>9. FreeIds(available_ids') /\ ToSet(available_ids') = F \cup {x}
  BY <1>1, <1>3, <1>8, WaitingId, ReturnId
<1>10. Moved(req, req', r, "kAlive", s) /\ Entries(req')
  <2>1. s \in Int
    BY <1>5, <1>8 DEF Accounted, Counted
  <2>2. PICK num : num = m.offset
    OBVIOUS
  <2>3. req' = Popped(r, num, s)
    BY <1>3, <2>2
  <2> HIDE DEF m
  <2> QED BY <2>1, <2>3, PoppedMoved
<1>11. Accounted(K, R \ {s}, F \cup {x}, id_cnt, req', config.pinned)
  <2>1. Has(req, r, "kPending")
    BY <1>1 DEF Has
  <2> HIDE DEF K, R, F
  <2> QED BY <1>5, <1>8, <1>10, <2>1, IdTakenOver
<1>12. TypeOK'
  BY <1>2, <1>9, <1>10 DEF IInv, TypeOK
<1>13. BatchAlive'
  BY <1>1, <1>2, <1>10, MatchBatch
<1> HIDE DEF x
<1> QED BY <1>2, <1>6, <1>7, <1>9, <1>11, <1>12, <1>13 DEF IInv

\* A request starts a sequence, forked or empty.
LEMMA StartInv ==
  ASSUME IInv, NEW r \in Requests, Matching(r), NEW t, NEW num,
         Seqs(t) = DOMAIN kv \cup {req[r].id},
         cache' = Insert(CommitSequenceExtention(cache), t, req[r].id),
         DOMAIN kv' = DOMAIN kv \cup {req[r].id},
         req' = Popped(r, num, req[r].id),
         UNCHANGED <<config, token_ids, idVars, pc, batch, interrupts>>
  PROVE  IInv'
<1> DEFINE K == DOMAIN kv  R == cache.recycling  F == ToSet(available_ids)  x == req[r].id
           c == CommitSequenceExtention(cache)
<1>1. pc = "match" /\ req[r].status = "kPending"
  BY MatchingFacts
<1>2. /\ config' = config /\ id_cnt' = id_cnt /\ available_ids' = available_ids /\ pc' = pc /\ batch' = batch
  BY DEF idVars
<1>3. Knows(c, K) /\ c.recycling = R
  BY CommitKnows DEF IInv
<1>4. x \in Nat /\ x \notin K
  BY <1>1, WaitingId
<1>5. Knows(cache', K \cup {x}) /\ cache'.recycling = R
  <2>1. cache' = Insert(c, t, x) /\ Seqs(t) = K \cup {x}
    OBVIOUS
  <2> HIDE DEF c, x, K
  <2> QED BY <1>3, <1>4, <2>1, InsertKnows
<1>6. Moved(req, req', r, "kAlive", x) /\ Entries(req')
  BY <1>4, PoppedMoved
<1>7. Accounted(K \cup {x}, R, F, id_cnt, req', config.pinned)
  <2>1. Has(req, r, "kPending") /\ Accounted(K, R, F, id_cnt, req, config.pinned) /\ id_cnt \in Nat
    BY <1>1 DEF Has, IInv, TypeOK
  <2> HIDE DEF K, R, F
  <2> QED BY <1>6, <2>1, IdUsed
<1>8. TypeOK'
  BY <1>2, <1>6 DEF IInv, TypeOK
<1>9. BatchAlive'
  BY <1>1, <1>2, <1>6, MatchBatch
<1>10. QueueInLimit(cache'.recycling, config.limit)
  BY <1>5 DEF IInv
<1> HIDE DEF x
<1> QED BY <1>2, <1>5, <1>7, <1>8, <1>9, <1>10 DEF IInv, x

\* A request forks a sequence.
LEMMA MatchForkInv ==
  ASSUME IInv, NEW r \in Requests, MatchFork(r)
  PROVE  IInv'
<1> DEFINE c == CommitSequenceExtention(cache)
           m == Matched(r, c)
<1>1. Matching(r) /\ UNCHANGED <<config, token_ids, idVars, pc, batch, interrupts>>
  BY DEF MatchFork
<1>2. PICK s : /\ cache' = Insert(c, ForkSequence(c.tree, req[r].id, s, m.offset), req[r].id)
               /\ kv' = With(kv, req[r].id, SubSeq(kv[s], 1, Min({m.offset, Len(kv[s])})))
               /\ req' = Popped(r, m.offset, req[r].id)
  BY Zenon DEF MatchFork
<1>3. Seqs(c.tree) = DOMAIN kv
  BY CommitKnows DEF IInv, Knows
<1>4. Seqs(ForkSequence(c.tree, req[r].id, s, m.offset)) = DOMAIN kv \cup {req[r].id}
  BY <1>3, ForkSeqs
<1>5. DOMAIN kv' = DOMAIN kv \cup {req[r].id}
  BY <1>2 DEF With
<1>6. PICK num : num = m.offset
  OBVIOUS
<1>7. PICK t : t = ForkSequence(c.tree, req[r].id, s, m.offset)
  OBVIOUS
<1>8. /\ Seqs(t) = DOMAIN kv \cup {req[r].id}
      /\ cache' = Insert(CommitSequenceExtention(cache), t, req[r].id)
      /\ req' = Popped(r, num, req[r].id)
  BY <1>2, <1>4, <1>6, <1>7
<1> QED BY <1>1, <1>5, <1>8, StartInv

\* A request starts with nothing.
LEMMA MatchNothingInv ==
  ASSUME IInv, NEW r \in Requests, MatchNothing(r)
  PROVE  IInv'
<1> DEFINE c == CommitSequenceExtention(cache)
<1>1. Matching(r) /\ UNCHANGED <<config, token_ids, idVars, pc, batch, interrupts>>
  BY DEF MatchNothing
<1>2. /\ cache' = Insert(c, AddSequence(c.tree, req[r].id), req[r].id)
      /\ kv' = With(kv, req[r].id, <<>>)
      /\ req' = Popped(r, 0, req[r].id)
  BY Zenon DEF MatchNothing
<1>3. Seqs(c.tree) = DOMAIN kv
  BY CommitKnows DEF IInv, Knows
<1>4. Seqs(AddSequence(c.tree, req[r].id)) = DOMAIN kv \cup {req[r].id}
  BY <1>3, AddSeqs
<1>5. DOMAIN kv' = DOMAIN kv \cup {req[r].id}
  BY <1>2 DEF With
<1> QED BY <1>1, <1>2, <1>4, <1>5, StartInv

\* The model runs.
LEMMA ForwardInv ==
  ASSUME IInv, Forward
  PROVE  IInv'
<1> DEFINE K == DOMAIN kv  R == cache.recycling  F == ToSet(available_ids)
           W == {q \in Requests : req[q].status = "kPending"}
<1>1. /\ config' = config /\ available_ids' = available_ids /\ id_cnt' = id_cnt /\ batch' = batch
      /\ pc = "match" /\ pc' = "post" /\ ToMatch = <<>>
      /\ cache' = CommitSequenceExtention(cache) /\ DOMAIN kv' = K
  BY DEF Forward, idVars
<1>2. Knows(cache', K) /\ cache'.recycling = R
  BY <1>1, CommitKnows DEF IInv
<1>3. PICK sampled :
       req' = [r \in Requests |->
                IF r \notin InBatch THEN req[r]
                ELSE [req[r] EXCEPT !.inputs = RestOf(r),
                                    !.prefilled = @ \o Chunk(r),
                                    !.committed = IF r \in DOMAIN sampled THEN Append(@, sampled[r]) ELSE @]]
  BY Zenon DEF Forward
<1>4. Entries(req)
  BY DEF IInv, TypeOK
<1>5. \A q \in Requests : req'[q].status = req[q].status /\ req'[q].id = req[q].id
                          /\ DOMAIN req'[q] = EntryFields
  BY <1>3, <1>4 DEF Entries, EntryFields
<1>6. Entries(req')
  <2>1. DOMAIN req' = Requests
    BY <1>3
  <2> QED BY <1>4, <1>5, <2>1 DEF Entries
<1>7. Accounted(K, R, F, id_cnt, req', config.pinned)
  <2>1. Accounted(K, R, F, id_cnt, req, config.pinned)
    BY DEF IInv
  <2> HIDE DEF K, R, F
  <2> QED BY <1>5, <2>1, IdsSame
<1>8. TypeOK'
  BY <1>1, <1>6 DEF IInv, TypeOK
<1>9. BatchAlive'
  <2>1. ToSet(batch) \subseteq Requests /\ batch \in Seq(Requests)
    BY ToSetFacts DEF IInv, TypeOK
  <2>2. \A x : x \in ToSet(InOrder(batch, W)) <=> x \in ToSet(batch) /\ x \in W
    BY <2>1, InOrderFacts
  <2>3. ToSet(InOrder(batch, W)) = {}
    BY <1>1 DEF ToMatch, ToSet
  <2>4. \A q \in ToSet(batch) : req[q].status \in {"kPending", "kAlive"}
    BY <1>1 DEF IInv, BatchAlive
  <2>5. \A q \in ToSet(batch) : req'[q].status = "kAlive"
    BY <1>5, <2>1, <2>2, <2>3, <2>4
  <2> QED BY <1>1, <2>5 DEF BatchAlive
<1>10. QueueInLimit(R, config.limit)
  BY DEF IInv
<1> QED BY <1>1, <1>2, <1>7, <1>8, <1>9, <1>10 DEF IInv

\* What has been computed is told to the prefix cache.
LEMMA PostProcessInv ==
  ASSUME IInv, ActionStepPostProcess
  PROVE  IInv'
<1> DEFINE K == DOMAIN kv  R == cache.recycling  F == ToSet(available_ids)
           told == InOrder(batch, {r \in Requests : NewlyCached(r) # <<>>})
           news == [i \in DOMAIN told |-> <<req[told[i]].id, told[i]>>]
<1>1. /\ config' = config /\ kv' = kv /\ available_ids' = available_ids /\ id_cnt' = id_cnt
      /\ pc = "post"
      /\ cache' = [cache EXCEPT !.uncommitted = @ \o news]
      /\ req' = [r \in Requests |->
              IF r \notin InBatch THEN req[r]
              ELSE [req[r] EXCEPT !.prefilled = <<>>, !.cached = Max({@, Len(req[r].committed) - 1})]]
  BY Zenon DEF ActionStepPostProcess, idVars
<1>2. PICK stopped \in SUBSET {r \in InBatch : req[r].inputs = <<>>} :
        batch' = InOrder(batch, stopped) /\ pc' = IF stopped = {} THEN "idle" ELSE "finish"
  BY Zenon DEF ActionStepPostProcess
<1>3. /\ Entries(req) /\ batch \in Seq(Requests) /\ Distinct(batch)
      /\ DOMAIN cache = CacheFields /\ cache.uncommitted \in Seq(Int \X Requests)
  BY DEF IInv, TypeOK, Knows
<1>4. news \in Seq(Int \X Requests)
  <2>1. told \in Seq(Requests)
    BY <1>3, InOrderFacts
  <2> HIDE DEF told
  <2>2. PICK n \in Nat : DOMAIN told = 1..n
    BY <2>1
  <2>3. \A i \in 1..n : told[i] \in Requests /\ req[told[i]].id \in Int
    BY <1>3, <2>1, <2>2 DEF Entries
  <2> QED BY <2>2, <2>3
<1> HIDE DEF news
<1>5. Knows(cache', K) /\ cache'.recycling = R
  <2>1. /\ DOMAIN cache' = CacheFields /\ cache'.tree = cache.tree /\ cache'.seq_states = cache.seq_states
        /\ cache'.recycling = cache.recycling /\ cache'.uncommitted = cache.uncommitted \o news
    BY <1>1, <1>3 DEF CacheFields
  <2>2. cache'.uncommitted \in Seq(Int \X Requests)
    BY <1>3, <1>4, <2>1
  <2>3. Knows(cache, K)
    BY DEF IInv
  <2> QED BY <2>1, <2>2, <2>3 DEF Knows
<1>6. \A q \in Requests : req'[q].status = req[q].status /\ req'[q].id = req[q].id
                          /\ DOMAIN req'[q] = EntryFields
  BY <1>1, <1>3 DEF Entries, EntryFields
<1>7. Entries(req')
  <2>1. DOMAIN req' = Requests
    BY <1>1
  <2> QED BY <1>3, <1>6, <2>1 DEF Entries
<1>8. Accounted(K, R, F, id_cnt, req', config.pinned)
  <2>1. Accounted(K, R, F, id_cnt, req, config.pinned)
    BY DEF IInv
  <2> HIDE DEF K, R, F
  <2> QED BY <1>6, <2>1, IdsSame
<1>9. /\ batch' \in Seq(Requests) /\ Distinct(batch')
      /\ \A x : x \in ToSet(batch') <=> x \in ToSet(batch) /\ x \in stopped
  BY <1>2, <1>3, InOrderFacts
<1>10. TypeOK'
  BY <1>1, <1>2, <1>7, <1>9 DEF IInv, TypeOK
<1>11. BatchAlive'
  <2>1. ToSet(batch) \subseteq Requests
    BY <1>3, ToSetFacts
  <2>2. \A q \in ToSet(batch') : req'[q].status = "kAlive"
    BY <1>1, <1>6, <1>9, <2>1 DEF IInv, BatchAlive
  <2>3. ASSUME pc' = "finish" PROVE batch' # <<>>
    <3>1. PICK q \in stopped : q \in ToSet(batch)
      BY <1>2, <2>3 DEF InBatch
    <3>2. q \in ToSet(batch')
      BY <1>9, <3>1
    <3> QED BY <3>2 DEF ToSet
  <2>4. pc' # "match"
    BY <1>2
  <2> QED BY <2>2, <2>3, <2>4 DEF BatchAlive
<1>12. QueueInLimit(R, config.limit)
  BY DEF IInv
<1> QED BY <1>1, <1>5, <1>8, <1>10, <1>11, <1>12 DEF IInv

\* The first of a sequence without repetitions is not among the others.
LEMMA HeadTail ==
  ASSUME NEW A, NEW s \in Seq(A), Distinct(s), s # <<>>
  PROVE  /\ Head(s) \in A /\ Head(s) \in ToSet(s)
         /\ Tail(s) \in Seq(A) /\ Distinct(Tail(s))
         /\ \A x \in ToSet(Tail(s)) : x \in ToSet(s) /\ x # Head(s)
<1>1. PICK n \in Nat : n = Len(s) /\ n > 0 /\ DOMAIN s = 1..n
  OBVIOUS
<1>2. /\ Tail(s) \in Seq(A) /\ DOMAIN Tail(s) = 1..(n - 1) /\ Head(s) = s[1] /\ Head(s) \in A
      /\ \A i \in 1..(n - 1) : Tail(s)[i] = s[i + 1]
  BY <1>1
<1>3. 1 \in 1..n /\ \A i \in 1..(n - 1) : i + 1 \in 1..n /\ i + 1 # 1
  BY <1>1
<1>4. \A i, j \in 1..(n - 1) : i + 1 = j + 1 => i = j
  BY <1>1
<1>5. Distinct(Tail(s))
  BY <1>1, <1>2, <1>3, <1>4 DEF Distinct
<1>6. ASSUME NEW x \in ToSet(Tail(s)) PROVE x \in ToSet(s) /\ x # Head(s)
  <2>1. PICK i \in 1..(n - 1) : x = s[i + 1]
    BY <1>2 DEF ToSet
  <2>2. x # s[1]
    BY <1>1, <1>3, <2>1 DEF Distinct
  <2>3. x \in ToSet(s)
    BY <1>1, <1>3, <2>1 DEF ToSet
  <2> QED BY <1>2, <2>2, <2>3
<1>7. Head(s) \in ToSet(s)
  BY <1>1, <1>2, <1>3 DEF ToSet
<1> QED BY <1>2, <1>5, <1>6, <1>7

\* A sequence joins the queue for eviction where there is room, or after another
\* has been evicted.
LEMMA LongerQueue ==
  ASSUME NEW R, NEW limit \in Nat, limit > 0, QueueInLimit(R, limit), NEW s, s \notin R
  PROVE  /\ Cardinality(R) # limit => QueueInLimit(R \cup {s}, limit)
         /\ \A v \in R : QueueInLimit((R \ {v}) \cup {s}, limit)
<1>1. IsFiniteSet(R) /\ Cardinality(R) \in Nat /\ Cardinality(R) <= limit
  BY FS_CardinalityType DEF QueueInLimit
<1>2. IsFiniteSet(R \cup {s}) /\ Cardinality(R \cup {s}) = Cardinality(R) + 1
  BY <1>1, FS_AddElement
<1>3. ASSUME Cardinality(R) # limit PROVE QueueInLimit(R \cup {s}, limit)
  BY <1>1, <1>2, <1>3 DEF QueueInLimit
<1>4. ASSUME NEW v \in R PROVE QueueInLimit((R \ {v}) \cup {s}, limit)
  <2>1. IsFiniteSet(R \ {v}) /\ Cardinality(R \ {v}) = Cardinality(R) - 1
    BY <1>1, FS_RemoveElement
  <2>2. s \notin R \ {v}
    OBVIOUS
  <2>3. IsFiniteSet((R \ {v}) \cup {s}) /\ Cardinality((R \ {v}) \cup {s}) = Cardinality(R \ {v}) + 1
    BY <2>1, <2>2, FS_AddElement
  <2> QED BY <1>1, <2>1, <2>3 DEF QueueInLimit
<1> QED BY <1>3, <1>4

\* The sequence of a finished request is left to be taken over: what becomes of
\* cache, KV cache and ids.
LEMMA RecycleInv ==
  ASSUME IInv, NEW r \in Requests, req[r].status = "kAlive", config.limit > 0,
         req' = [req EXCEPT ![r] = Gone(r)],
         NEW full \in BOOLEAN, full = (Cardinality(CommitSequenceExtention(cache).recycling) = config.limit),
         NEW victim \in IF full THEN CommitSequenceExtention(cache).recycling ELSE {req[r].id},
         cache' = RecycleLazily(CommitSequenceExtention(cache), req[r].id, full, victim),
         kv' = IF full THEN Without(kv, victim) ELSE kv,
         available_ids' = IF full THEN Append(available_ids, victim) ELSE available_ids
  PROVE  /\ Knows(cache', DOMAIN kv') /\ QueueInLimit(cache'.recycling, config.limit)
         /\ FreeIds(available_ids')
         /\ Accounted(DOMAIN kv', cache'.recycling, ToSet(available_ids'), id_cnt, req', config.pinned)
<1> DEFINE K == DOMAIN kv  R == cache.recycling  F == ToSet(available_ids)  x == req[r].id
           c == CommitSequenceExtention(cache)
<1>1. Knows(c, K) /\ c.recycling = R
  BY CommitKnows DEF IInv
<1>2. config.limit \in Nat /\ id_cnt \in Nat /\ FreeIds(available_ids) /\ QueueInLimit(R, config.limit)
  BY ConfigFacts DEF IInv, TypeOK
<1>3. x \in K /\ x \notin R
  BY RunningId
<1>4. Moved(req, req', r, "kFinished", x)
  BY GoneMoved
<1>5. Has(req, r, "kAlive") /\ Accounted(K, R, F, id_cnt, req, config.pinned)
  BY DEF Has, IInv
<1>6. CASE ~full
  <2>1. /\ cache' = Recycled(c, x)
        /\ kv' = kv /\ available_ids' = available_ids /\ Cardinality(R) # config.limit
    BY <1>1, <1>6 DEF RecycleLazily, Evicted, Recycled
  <2>2. Knows(cache', K) /\ cache'.recycling = R \cup {x}
    <3> HIDE DEF c, x, K
    <3> QED BY <1>1, <1>3, <2>1, RecycledKnows
  <2>3. QueueInLimit(R \cup {x}, config.limit)
    <3> HIDE DEF R, x
    <3> QED BY <1>2, <1>3, <2>1, LongerQueue
  <2>4. Accounted(K, R \cup {x}, F, id_cnt, req', config.pinned)
    <3> HIDE DEF K, R, F
    <3> QED BY <1>2, <1>4, <1>5, IdLeft
  <2> HIDE DEF x
  <2> QED BY <1>2, <2>1, <2>2, <2>3, <2>4
<1>7. CASE full
  <2>1. /\ cache' = Recycled(Dropped(c, victim), x)
        /\ kv' = Without(kv, victim) /\ available_ids' = Append(available_ids, victim) /\ victim \in R
    BY <1>1, <1>7 DEF RecycleLazily, Evicted, Recycled
  <2>2. /\ Knows(Dropped(c, victim), K \ {victim}) /\ DOMAIN Without(kv, victim) = K \ {victim}
        /\ Dropped(c, victim).recycling = R \ {victim}
        /\ FreeIds(Append(available_ids, victim))
        /\ Accounted(K \ {victim}, R \ {victim}, ToSet(Append(available_ids, victim)), id_cnt,
                     req, config.pinned)
    <3>1. victim \in cache.recycling /\ Knows(c, DOMAIN kv) /\ c.recycling = cache.recycling
      BY <1>1, <2>1
    <3> HIDE DEF c
    <3>2. /\ Knows(Dropped(c, victim), DOMAIN Without(kv, victim))
          /\ DOMAIN Without(kv, victim) = DOMAIN kv \ {victim}
          /\ Dropped(c, victim).recycling = cache.recycling \ {victim}
          /\ FreeIds(Append(available_ids, victim))
          /\ Accounted(DOMAIN kv \ {victim}, cache.recycling \ {victim}, ToSet(Append(available_ids, victim)),
                       id_cnt, req, config.pinned)
      BY <3>1, EvictFacts
    <3> QED BY <3>2
  <2>3. x \in K \ {victim} /\ x # victim
    BY <1>3, <2>1
  <2>4. Knows(cache', K \ {victim}) /\ cache'.recycling = (R \ {victim}) \cup {x}
    <3>1. PICK d : d = Dropped(c, victim)
      OBVIOUS
    <3>2. PICK L : L = K \ {victim}
      OBVIOUS
    <3>3. /\ cache' = Recycled(d, x)
          /\ Knows(d, L) /\ x \in L /\ d.recycling = R \ {victim}
      BY <2>1, <2>2, <2>3, <3>1, <3>2
    <3> HIDE DEF c, x, K
    <3>4. Knows(cache', L) /\ cache'.recycling = d.recycling \cup {x}
      BY <3>3, RecycledKnows
    <3> QED BY <3>2, <3>3, <3>4
  <2>5. QueueInLimit((R \ {victim}) \cup {x}, config.limit)
    <3> HIDE DEF R, x
    <3> QED BY <1>2, <1>3, <2>1, LongerQueue
  <2>6. Accounted(K \ {victim}, (R \ {victim}) \cup {x}, ToSet(Append(available_ids, victim)), id_cnt,
                  req', config.pinned)
    <3> HIDE DEF K, R, F
    <3> QED BY <1>2, <1>4, <1>5, <2>2, IdLeft
  <2> HIDE DEF x
  <2> QED BY <1>2, <2>1, <2>2, <2>4, <2>5, <2>6
<1> QED BY <1>6, <1>7

\* A finished request is removed.
LEMMA FinishInv ==
  ASSUME IInv, Finish
  PROVE  IInv'
<1> DEFINE K == DOMAIN kv  R == cache.recycling  F == ToSet(available_ids)
           r == Head(batch)
           x == req[r].id
           c == CommitSequenceExtention(cache)
           full == Cardinality(c.recycling) = config.limit
<1>1. /\ config' = config /\ id_cnt' = id_cnt /\ pc = "finish"
      /\ batch' = Tail(batch) /\ pc' = IF Tail(batch) = <<>> THEN "idle" ELSE "finish"
      /\ req' = [req EXCEPT ![r] = Gone(r)]
  BY Zenon DEF Finish
<1>2. batch \in Seq(Requests) /\ Distinct(batch) /\ batch # <<>>
  BY <1>1 DEF IInv, TypeOK, BatchAlive
<1>3. /\ r \in Requests /\ r \in ToSet(batch) /\ Tail(batch) \in Seq(Requests) /\ Distinct(Tail(batch))
      /\ \A q \in ToSet(Tail(batch)) : q \in ToSet(batch) /\ q # r
  BY <1>2, HeadTail
<1>4. \A q \in ToSet(batch) : req[q].status = "kAlive"
  BY <1>1 DEF IInv, BatchAlive
<1>5. req[r].status = "kAlive"
  BY <1>3, <1>4
<1>6. \/ r \in config.pinned /\ UNCHANGED <<cache, kv, available_ids>>
      \/ RemoveNow(x) /\ available_ids' = Append(available_ids, x)
      \/ /\ config.limit > 0
         /\ \E victim \in IF full THEN c.recycling ELSE {x} :
              /\ cache' = RecycleLazily(c, x, full, victim)
              /\ kv' = IF full THEN Without(kv, victim) ELSE kv
              /\ available_ids' = IF full THEN Append(available_ids, victim) ELSE available_ids
  BY Zenon DEF Finish
<1> HIDE DEF r
<1>7. Moved(req, req', r, "kFinished", x) /\ Entries(req')
  BY <1>1, <1>3, GoneMoved
<1>8. BatchAlive'
  <2>1. ToSet(batch) \subseteq Requests
    BY <1>2, ToSetFacts
  <2>2. \A q \in ToSet(batch') : req'[q].status = "kAlive"
    BY <1>1, <1>3, <1>4, <1>7, <2>1 DEF Moved
  <2> QED BY <1>1, <2>2 DEF BatchAlive
<1>9. /\ FreeIds(available_ids) /\ id_cnt \in Nat /\ Accounted(K, R, F, id_cnt, req, config.pinned)
      /\ Has(req, r, "kAlive")
  BY <1>5 DEF IInv, TypeOK, Has
<1>10. /\ Knows(cache', DOMAIN kv') /\ QueueInLimit(cache'.recycling, config.limit)
       /\ FreeIds(available_ids')
       /\ Accounted(DOMAIN kv', cache'.recycling, ToSet(available_ids'), id_cnt, req', config.pinned)
  <2>1. CASE r \in config.pinned /\ UNCHANGED <<cache, kv, available_ids>>
    <3>1. Accounted(K, R, F, id_cnt, req', config.pinned)
      <4> HIDE DEF K, R, F
      <4> QED BY <1>3, <1>7, <1>9, <2>1, IdLeft
    <3>2. Knows(cache, K) /\ QueueInLimit(R, config.limit)
      BY DEF IInv
    <3> QED BY <1>9, <2>1, <3>1, <3>2
  <2>2. CASE RemoveNow(x) /\ available_ids' = Append(available_ids, x)
    <3>1. FreeIds(available_ids') /\ ToSet(available_ids') = F \cup {x}
      BY <1>3, <1>5, <1>9, <2>2, RunningId, ReturnId
    <3>2. /\ Knows(cache', DOMAIN kv') /\ DOMAIN kv' = K \ {x}
          /\ cache'.recycling = R \ {x} /\ QueueInLimit(cache'.recycling, config.limit)
      BY <2>2, RemoveNowFacts
    <3>3. Accounted(K \ {x}, R \ {x}, F \cup {x}, id_cnt, req', config.pinned)
      <4> HIDE DEF K, R, F
      <4> QED BY <1>3, <1>7, <1>9, IdReturned
    <3> HIDE DEF x
    <3> QED BY <3>1, <3>2, <3>3
  <2>3. CASE /\ config.limit > 0
             /\ \E victim \in IF full THEN c.recycling ELSE {x} :
                  /\ cache' = RecycleLazily(c, x, full, victim)
                  /\ kv' = IF full THEN Without(kv, victim) ELSE kv
                  /\ available_ids' = IF full THEN Append(available_ids, victim) ELSE available_ids
    <3>1. PICK isfull \in BOOLEAN : isfull = full
      OBVIOUS
    <3>2. PICK victim \in IF isfull THEN c.recycling ELSE {x} :
                  /\ cache' = RecycleLazily(c, x, isfull, victim)
                  /\ kv' = IF isfull THEN Without(kv, victim) ELSE kv
                  /\ available_ids' = IF isfull THEN Append(available_ids, victim) ELSE available_ids
      BY <2>3, <3>1, Zenon
    <3> QED BY <1>1, <1>3, <1>5, <2>3, <3>1, <3>2, RecycleInv
  <2> QED BY <1>6, <2>1, <2>2, <2>3
<1>11. TypeOK'
  BY <1>1, <1>3, <1>7, <1>10 DEF IInv, TypeOK
<1> QED BY <1>1, <1>8, <1>10, <1>11 DEF IInv

-----------------------------------------------------------------------------
(* The theorems.                                                           *)

\* Every step keeps the invariant.
LEMMA NextInv ==
  IInv /\ [Next]_vars => IInv'
<1> SUFFICES ASSUME IInv, [Next]_vars PROVE IInv'
  OBVIOUS
<1>1. CASE SelectPrefill
  BY <1>1, SelectPrefillInv
<1>2. CASE SelectDecode
  BY <1>2, SelectDecodeInv
<1>3. CASE Forward
  BY <1>3, ForwardInv
<1>4. ASSUME NEW r \in Requests, MatchReuse(r) \/ MatchFork(r) \/ MatchNothing(r) PROVE IInv'
  BY <1>4, MatchReuseInv, MatchForkInv, MatchNothingInv
<1>5. CASE ActionStepPostProcess
  BY <1>5, PostProcessInv
<1>6. CASE Finish
  BY <1>6, FinishInv
<1>7. CASE TryFreeMemory
  BY <1>7, TryFreeMemoryInv
<1>8. CASE Reset
  BY <1>8, ResetInv
<1>9. ASSUME NEW r \in Requests, AddRequest(r) \/ AbortRequest(r) \/ Preempt(r) PROVE IInv'
  BY <1>9, AddRequestInv, AbortRequestInv, PreemptInv
<1>10. CASE UNCHANGED vars
  <2>1. /\ config' = config /\ cache' = cache /\ kv' = kv /\ available_ids' = available_ids
        /\ id_cnt' = id_cnt /\ req' = req /\ pc' = pc /\ batch' = batch
    BY <1>10 DEF vars, idVars
  <2>2. TypeOK' /\ BatchAlive'
    BY <2>1 DEF IInv, TypeOK, BatchAlive
  <2> QED BY <2>1, <2>2 DEF IInv
<1> QED BY <1>1, <1>2, <1>3, <1>4, <1>5, <1>6, <1>7, <1>8, <1>9, <1>10 DEF Next, Step

\* Radix tree, sequence states and KV cache always know the same sequences, the
\* active ones belong one each to running or pinned requests, and the queue for
\* eviction keeps to its limit (prefix_cache.cc), for any number of requests, any
\* prompts and every configuration, with preemption of any request.
THEOREM SequencesHaveOwners ==
  Spec => []ActiveHasOwner
<1>1. Spec => []IInv
  BY InitInv, NextInv, PTL DEF Spec
<1> QED BY <1>1, InvImplies, PTL

\* An id that EngineInternalIDManager can give away is free once, and neither the
\* KV cache nor a request that waits has it.
THEOREM IdsAreFreeOnce ==
  Spec => []FreeIdsUnused
<1>1. Spec => []IInv
  BY InitInv, NextInv, PTL DEF Spec
<1> QED BY <1>1, InvImplies, PTL
-----------------------------------------------------------------------------
(* What the prefix cache holds of the sequences.                           *)

\* The sums on the way to FlattenSeq.
Sums(ss, n, g) ==
  /\ g \in [0..n -> Texts] /\ g[0] = <<>>
  /\ \A i \in 1..n : g[i] = g[i - 1] \o ss[i]

\* FlattenSeq adds one sequence after the other.
LEMMA FlattenSums ==
  ASSUME NEW n \in Nat, NEW ss \in [1..n -> Texts]
  PROVE  \E g : Sums(ss, n, g) /\ FlattenSeq(ss) = g[n]
<1>1. Len(ss) = n /\ DOMAIN ss = 1..n
  OBVIOUS
<1>2. CASE n = 0
  <2>1. FlattenSeq(ss) = ss /\ ss = <<>>
    BY <1>1, <1>2 DEF FlattenSeq
  <2>2. Sums(ss, n, [i \in 0..0 |-> <<>>])
    BY <1>2 DEF Sums, Texts
  <2> QED BY <1>2, <2>1, <2>2
<1>3. CASE n # 0
  <2>1. n \in Nat \ {0}
    BY <1>3
  <2>2. PICK f : /\ f = [i \in 1..n |-> IF i = 1 THEN ss[i] ELSE f[i - 1] \o ss[i]]
                 /\ FlattenSeq(ss) = f[n]
    BY <1>1, <2>1, FlattenRec
  <2>3. \A i \in 1..n : f[i] = IF i = 1 THEN ss[i] ELSE f[i - 1] \o ss[i]
    BY <2>2
  <2> DEFINE Bad == {i \in 1..n : f[i] \notin Texts}
  <2>4. Bad = {}
    <3> SUFFICES ASSUME Bad # {} PROVE FALSE
      OBVIOUS
    <3>1. PICK i \in Bad : \A y \in Bad : i <= y
      <4>1. Bad \in SUBSET Nat
        OBVIOUS
      <4> HIDE DEF Bad
      <4> QED BY <4>1, LeastNumber
    <3>2. i # 1
      BY <2>3, <3>1
    <3>3. i \in 1..n /\ i - 1 \in 1..n /\ ~(i <= i - 1)
      BY <3>1, <3>2
    <3>4. f[i - 1] \in Texts /\ ss[i] \in Texts
      BY <3>1, <3>3
    <3>5. PICK a \in Texts, b \in Texts : a = f[i - 1] /\ b = ss[i]
      BY <3>4
    <3>6. a \o b \in Texts
      BY JoinFacts
    <3>7. f[i] = a \o b
      BY <2>3, <3>2, <3>3, <3>5
    <3> QED BY <3>1, <3>6, <3>7
  <2>5. \A i \in 1..n : f[i] \in Texts
    BY <2>4
  <2> DEFINE g == [i \in 0..n |-> IF i = 0 THEN <<>> ELSE f[i]]
  <2>6. g \in [0..n -> Texts] /\ g[0] = <<>>
    <3>1. <<>> \in Texts
      BY DEF Texts
    <3> QED BY <2>5, <3>1
  <2>7. ASSUME NEW i \in 1..n
        PROVE  g[i] = g[i - 1] \o ss[i]
    <3>1. g[i] = f[i]
      OBVIOUS
    <3>2. CASE i = 1
      <4>1. g[i - 1] = <<>> /\ f[i] = ss[i]
        BY <2>3, <3>2
      <4>2. PICK b \in Texts : b = ss[i]
        OBVIOUS
      <4>3. <<>> \o b = b
        BY JoinEmpty
      <4> HIDE DEF g
      <4> QED BY <3>1, <4>1, <4>2, <4>3
    <3>3. CASE i # 1
      <4>1. g[i - 1] = f[i - 1] /\ f[i] = f[i - 1] \o ss[i]
        <5>1. i - 1 \in 0..n /\ i - 1 # 0
          BY <3>3
        <5> QED BY <2>3, <3>3, <5>1
      <4> HIDE DEF g
      <4> QED BY <3>1, <4>1
    <3> QED BY <3>2, <3>3
  <2>8. g[n] = f[n]
    BY <2>1
  <2> HIDE DEF g
  <2>9. Sums(ss, n, g)
    BY <2>6, <2>7 DEF Sums
  <2> QED BY <2>2, <2>8, <2>9
<1> QED BY <1>2, <1>3

\* Sequences that are empty but for one at most add up to that one.
LEMMA FlattenOne ==
  ASSUME NEW n \in Nat, NEW ss \in [1..n -> Texts], NEW w \in Texts, NEW k \in Nat,
         \A i \in 1..n : ss[i] = IF i = k THEN w ELSE <<>>
  PROVE  FlattenSeq(ss) = IF k \in 1..n THEN w ELSE <<>>
<1>1. PICK g : Sums(ss, n, g) /\ FlattenSeq(ss) = g[n]
  BY FlattenSums
<1>2. g \in [0..n -> Texts] /\ g[0] = <<>> /\ \A i \in 1..n : g[i] = g[i - 1] \o ss[i]
  BY <1>1 DEF Sums
<1> DEFINE Bad == {i \in 0..n : g[i] # IF 1 <= k /\ k <= i THEN w ELSE <<>>}
<1>3. Bad = {}
  <2> SUFFICES ASSUME Bad # {} PROVE FALSE
    OBVIOUS
  <2>1. PICK i \in Bad : \A y \in Bad : i <= y
    <3>1. Bad \in SUBSET Nat
      OBVIOUS
    <3> HIDE DEF Bad
    <3> QED BY <3>1, LeastNumber
  <2>2. i # 0
    BY <1>2, <2>1
  <2>3. i \in 1..n /\ i - 1 \in 0..n /\ ~(i <= i - 1)
    BY <2>1, <2>2
  <2>4. g[i - 1] = IF 1 <= k /\ k <= i - 1 THEN w ELSE <<>>
    BY <2>1, <2>3
  <2>5. g[i] = g[i - 1] \o ss[i] /\ ss[i] = IF i = k THEN w ELSE <<>>
    BY <1>2, <2>3
  <2>6. <<>> \o w = w /\ w \o <<>> = w /\ <<>> \o <<>> = <<>>
    <3>1. <<>> \in Texts
      BY DEF Texts
    <3> QED BY <3>1, JoinEmpty
  <2>7. g[i] = IF 1 <= k /\ k <= i THEN w ELSE <<>>
    <3>1. CASE i = k
      <4>1. ~(k <= i - 1) /\ 1 <= k /\ k <= i
        BY <2>3, <3>1
      <4> QED BY <2>4, <2>5, <2>6, <3>1, <4>1
    <3>2. CASE i # k
      <4>1. (1 <= k /\ k <= i - 1) <=> (1 <= k /\ k <= i)
        BY <2>3, <3>2
      <4> QED BY <2>4, <2>5, <2>6, <3>2, <4>1
    <3> QED BY <3>1, <3>2
  <2> QED BY <2>1, <2>7
<1>4. g[n] = IF 1 <= k /\ k <= n THEN w ELSE <<>>
  <2>1. n \in 0..n
    OBVIOUS
  <2> QED BY <1>3, <2>1
<1>5. k \in 1..n <=> 1 <= k /\ k <= n
  OBVIOUS
<1> QED BY <1>1, <1>4, <1>5

\* Pending, of any extensions and tokens.
Part(e, tok, s) == IF e[1] = s THEN tok[e[2]] ELSE <<>>
PendingOf(u, tok, s) == FlattenSeq([i \in DOMAIN u |-> Part(u[i], tok, s)])

\* Nothing is pending where nothing is uncommitted.
LEMMA NothingPending ==
  ASSUME NEW tok, NEW s
  PROVE  PendingOf(<<>>, tok, s) = <<>>
<1>1. PICK ss : ss = [i \in DOMAIN <<>> |-> Part(<<>>[i], tok, s)]
  OBVIOUS
<1>2. ss = <<>>
  BY <1>1
<1> QED BY <1>1, <1>2 DEF PendingOf, FlattenSeq

\* What is pending, part after part.
Adding(u, tok, s, n, ss, g) ==
  /\ ss \in [1..n -> Texts] /\ \A i \in 1..n : ss[i] = Part(u[i], tok, s)
  /\ Sums(ss, n, g) /\ PendingOf(u, tok, s) = g[n]

\* What is pending for a sequence.
LEMMA PendingSums ==
  ASSUME NEW u \in Seq(Int \X Requests), NEW tok \in [Requests -> Texts], NEW s, NEW n \in Nat, n = Len(u)
  PROVE  \E ss, g : Adding(u, tok, s, n, ss, g)
<1>1. PICK ss : ss = [i \in 1..n |-> Part(u[i], tok, s)]
  OBVIOUS
<1>2. ss \in [1..n -> Texts]
  <2>1. ASSUME NEW i \in 1..n PROVE Part(u[i], tok, s) \in Texts
    <3>1. u[i] \in Int \X Requests
      OBVIOUS
    <3>2. u[i][2] \in Requests
      BY <3>1
    <3>3. tok[u[i][2]] \in Texts /\ <<>> \in Texts
      BY <3>2 DEF Texts
    <3> QED BY <3>3 DEF Part
  <2> QED BY <1>1, <2>1
<1>3. PICK g : Sums(ss, n, g) /\ FlattenSeq(ss) = g[n]
  BY <1>2, FlattenSums
<1>4. PendingOf(u, tok, s) = FlattenSeq(ss)
  <2>1. DOMAIN u = 1..n
    OBVIOUS
  <2> QED BY <1>1, <2>1 DEF PendingOf
<1>5. \A i \in 1..n : ss[i] = Part(u[i], tok, s)
  BY <1>1
<1>6. Adding(u, tok, s, n, ss, g)
  BY <1>2, <1>3, <1>4, <1>5 DEF Adding
<1> QED BY <1>6

\* One extension: the sequence it names has the tokens too, the others do not change.
LEMMA ExtendedHolds ==
  ASSUME NEW t, IsTree(t), NEW e \in Int \X Requests, token_ids \in [Requests -> Texts]
  PROVE  /\ IsTree(Extended(t, e)) /\ Seqs(Extended(t, e)) = Seqs(t)
         /\ \A s \in Seqs(t) : GetSequence(Extended(t, e), s) = GetSequence(t, s) \o Part(e, token_ids, s)
<1>1. PICK x \in Int, r \in Requests : e = <<x, r>> /\ e[1] = x /\ e[2] = r
  OBVIOUS
<1>2. PICK w \in Texts : w = token_ids[r]
  OBVIOUS
<1>3. PICK P : Tree(t, P)
  BY DEF IsTree
<1>4. \A s \in Seqs(t) : GetSequence(t, s) \in Texts /\ GetSequence(t, s) \o <<>> = GetSequence(t, s)
  <2> TAKE s \in Seqs(t)
  <2>1. PICK a \in Texts : a = GetSequence(t, s)
    BY <1>3, SequenceIs DEF Seqs
  <2>2. a \o <<>> = a
    BY JoinEmpty
  <2> QED BY <2>1, <2>2
<1>5. CASE x \notin Seqs(t)
  <2>1. Extended(t, e) = t
    BY <1>1, <1>5 DEF Extended, HasSequence, Seqs
  <2>2. \A s \in Seqs(t) : Part(e, token_ids, s) = <<>>
    BY <1>1, <1>5 DEF Part
  <2> QED BY <1>4, <2>1, <2>2
<1>6. CASE x \in Seqs(t)
  <2>1. Extended(t, e) = ExtendSequence(t, x, w)
    BY <1>1, <1>2, <1>6 DEF Extended, HasSequence, Seqs
  <2>2. PICK u : u = ExtendSequence(t, x, w)
    OBVIOUS
  <2>3. Holding(t, u, x, GetSequence(t, x) \o w)
    <3>1. x \in DOMAIN t.seq2page
      BY <1>6 DEF Seqs
    <3>2. Holding(t, ExtendSequence(t, x, w), x, GetSequence(t, x) \o w)
      BY <3>1, ExtendHolds
    <3> QED BY <2>2, <3>2
  <2>4. IsTree(u) /\ DOMAIN u.seq2page = DOMAIN t.seq2page \cup {x} /\ GetSequence(u, x) = GetSequence(t, x) \o w
        /\ \A s \in DOMAIN t.seq2page \ {x} : GetSequence(u, s) = GetSequence(t, s)
    BY <2>3 DEF Holding
  <2>5. Seqs(u) = Seqs(t)
    BY <1>6, <2>4 DEF Seqs
  <2>6. ASSUME NEW s \in Seqs(t)
        PROVE  GetSequence(u, s) = GetSequence(t, s) \o Part(e, token_ids, s)
    <3>1. CASE s = x
      <4>1. Part(e, token_ids, s) = w
        BY <1>1, <1>2, <3>1 DEF Part
      <4> QED BY <2>4, <3>1, <4>1
    <3>2. CASE s # x
      <4>1. Part(e, token_ids, s) = <<>>
        BY <1>1, <3>2 DEF Part
      <4>2. GetSequence(u, s) = GetSequence(t, s)
        BY <2>4, <3>2 DEF Seqs
      <4> QED BY <1>4, <4>1, <4>2
    <3> QED BY <3>1, <3>2
  <2> QED BY <2>1, <2>2, <2>4, <2>5, <2>6
<1> QED BY <1>5, <1>6

\* A commit gives each sequence what was pending for it.
LEMMA CommitHolds ==
  ASSUME NEW K, Knows(cache, K), IsTree(cache.tree), token_ids \in [Requests -> Texts], NEW c,
         c = CommitSequenceExtention(cache)
  PROVE  /\ IsTree(c.tree) /\ c.uncommitted = <<>>
         /\ \A s \in K : GetSequence(c.tree, s) =
              GetSequence(cache.tree, s) \o PendingOf(cache.uncommitted, token_ids, s)
<1>1. PICK u \in Seq(Int \X Requests) : u = cache.uncommitted
  BY DEF Knows
<1>2. PICK n \in Nat : n = Len(u)
  OBVIOUS
<1>3. PICK f : /\ Upto(cache, n, f)
               /\ c = [cache EXCEPT !.tree = f[n], !.uncommitted = <<>>]
  BY <1>1, <1>2, CommitRec
<1>4. c.tree = f[n] /\ c.uncommitted = <<>>
  BY <1>3 DEF Knows, CacheFields
<1>5. f[0] = cache.tree /\ \A i \in 1..n : f[i] = Extended(f[i - 1], u[i])
  BY <1>1, <1>3 DEF Upto
<1>6. \A i \in 1..n : u[i] \in Int \X Requests
  BY <1>2
<1> DEFINE Bad == {i \in 0..n : ~(IsTree(f[i]) /\ Seqs(f[i]) = K)}
<1>7. Bad = {}
  <2> SUFFICES ASSUME Bad # {} PROVE FALSE
    OBVIOUS
  <2>1. PICK i \in Bad : \A y \in Bad : i <= y
    <3>1. Bad \in SUBSET Nat
      OBVIOUS
    <3> HIDE DEF Bad
    <3> QED BY <3>1, LeastNumber
  <2>2. i # 0
    BY <1>5, <2>1 DEF Knows
  <2>3. i \in 1..n /\ i - 1 \in 0..n /\ ~(i <= i - 1)
    BY <2>1, <2>2
  <2>4. IsTree(f[i - 1]) /\ Seqs(f[i - 1]) = K
    BY <2>1, <2>3
  <2>5. PICK t, e : e \in Int \X Requests /\ t = f[i - 1] /\ e = u[i] /\ f[i] = Extended(t, e)
    <3>1. PICK e \in Int \X Requests : e = u[i]
      BY <1>6, <2>3
    <3>2. PICK t : t = f[i - 1]
      OBVIOUS
    <3>3. f[i] = Extended(t, e)
      BY <1>5, <2>3, <3>1, <3>2
    <3> QED BY <3>1, <3>2, <3>3
  <2>6. IsTree(t) /\ Seqs(t) = K
    BY <2>4, <2>5
  <2>7. IsTree(Extended(t, e)) /\ Seqs(Extended(t, e)) = Seqs(t)
    BY <2>5, <2>6, ExtendedHolds
  <2> QED BY <2>1, <2>5, <2>6, <2>7
<1>8. \A i \in 0..n : IsTree(f[i]) /\ Seqs(f[i]) = K
  BY <1>7
<1> HIDE DEF Bad
<1>9. ASSUME NEW s \in K
      PROVE  GetSequence(f[n], s) = GetSequence(cache.tree, s) \o PendingOf(u, token_ids, s)
  <2>1. PICK ss, g : Adding(u, token_ids, s, n, ss, g)
    BY <1>2, PendingSums
  <2>2. Sums(ss, n, g) /\ PendingOf(u, token_ids, s) = g[n]
    BY <2>1 DEF Adding
  <2>3. ss \in [1..n -> Texts] /\ \A i \in 1..n : ss[i] = Part(u[i], token_ids, s)
    BY <2>1 DEF Adding
  <2>4. g \in [0..n -> Texts] /\ g[0] = <<>> /\ \A i \in 1..n : g[i] = g[i - 1] \o ss[i]
    BY <2>2 DEF Sums
  <2>5. PICK a \in Texts : a = GetSequence(cache.tree, s)
    <3>1. PICK P : Tree(cache.tree, P)
      BY DEF IsTree
    <3> QED BY <3>1, SequenceIs DEF Knows, Seqs
  <2> DEFINE Wrong == {i \in 0..n : GetSequence(f[i], s) # a \o g[i]}
  <2>6. Wrong = {}
    <3> SUFFICES ASSUME Wrong # {} PROVE FALSE
      OBVIOUS
    <3>1. PICK i \in Wrong : \A y \in Wrong : i <= y
      <4>1. Wrong \in SUBSET Nat
        OBVIOUS
      <4> HIDE DEF Wrong
      <4> QED BY <4>1, LeastNumber
    <3>2. i # 0
      <4>1. a \o <<>> = a
        BY JoinEmpty
      <4> QED BY <1>5, <2>4, <2>5, <3>1, <4>1
    <3>3. i \in 1..n /\ i - 1 \in 0..n /\ ~(i <= i - 1)
      BY <3>1, <3>2
    <3>4. GetSequence(f[i - 1], s) = a \o g[i - 1]
      BY <3>1, <3>3
    <3>5. PICK t, e : e \in Int \X Requests /\ t = f[i - 1] /\ e = u[i] /\ f[i] = Extended(t, e)
      <4>1. PICK e \in Int \X Requests : e = u[i]
        BY <1>6, <3>3
      <4>2. PICK t : t = f[i - 1]
        OBVIOUS
      <4>3. f[i] = Extended(t, e)
        BY <1>5, <3>3, <4>1, <4>2
      <4> QED BY <4>1, <4>2, <4>3
    <3>6. IsTree(t) /\ Seqs(t) = K
      BY <1>8, <3>3, <3>5
    <3>7. GetSequence(Extended(t, e), s) = GetSequence(t, s) \o Part(e, token_ids, s)
      BY <3>5, <3>6, ExtendedHolds
    <3>8. PICK b \in Texts, d \in Texts : b = g[i - 1] /\ d = ss[i] /\ d = Part(e, token_ids, s) /\ g[i] = b \o d
      <4>1. g[i - 1] \in Texts /\ g[i] = g[i - 1] \o ss[i]
        BY <2>4, <3>3
      <4>2. ss[i] \in Texts /\ ss[i] = Part(e, token_ids, s)
        BY <2>3, <3>3, <3>5
      <4> QED BY <4>1, <4>2
    <3>9. (a \o b) \o d = a \o (b \o d)
      <4>1. Associates(a, b, d)
        BY JoinAssociative
      <4> QED BY <4>1 DEF Associates
    <3>10. GetSequence(f[i], s) = (a \o b) \o d
      BY <3>4, <3>5, <3>7, <3>8
    <3> QED BY <3>1, <3>8, <3>9, <3>10
  <2>7. n \in 0..n
    OBVIOUS
  <2> QED BY <2>2, <2>5, <2>6, <2>7
<1>10. IsTree(f[n])
  BY <1>8
<1> QED BY <1>1, <1>4, <1>9, <1>10

-----------------------------------------------------------------------------
(* The cache and the KV cache, one change at a time.                       *)

\* The cache c holds exactly the texts k, and nothing is pending.
Exact(c, k) ==
  /\ k \in [DOMAIN k -> Texts]
  /\ IsTree(c.tree) /\ c.uncommitted = <<>>
  /\ \A s \in DOMAIN k : GetSequence(c.tree, s) = k[s]

\* A sequence leaves.
LEMMA DroppedExact ==
  ASSUME NEW c, NEW k, Knows(c, DOMAIN k), Exact(c, k), NEW s \in DOMAIN k
  PROVE  Exact(Dropped(c, s), Without(k, s))
<1>1. PICK d : d = Dropped(c, s)
  OBVIOUS
<1>2. PICK h : h = Without(k, s)
  OBVIOUS
<1>3. d.tree = RemoveSequence(c.tree, s) /\ d.uncommitted = c.uncommitted
  BY <1>1 DEF Dropped, Knows, CacheFields
<1>4. DOMAIN h = DOMAIN k \ {s} /\ \A x \in DOMAIN h : h[x] = k[x]
  BY <1>2 DEF Without, Restricted
<1>5. PICK t : t = c.tree /\ IsTree(t) /\ DOMAIN t.seq2page = DOMAIN k
  BY DEF Exact, Knows, Seqs
<1>6. Removed(t, RemoveSequence(t, s), s)
  BY <1>5, RemoveHolds
<1>7. Removed(t, d.tree, s)
  BY <1>3, <1>5, <1>6
<1>8. IsTree(d.tree) /\ \A x \in DOMAIN k \ {s} : GetSequence(d.tree, x) = GetSequence(t, x)
  BY <1>5, <1>7 DEF Removed
<1>9. h \in [DOMAIN h -> Texts]
  BY <1>2, <1>4 DEF Exact, Without, Restricted
<1>10. Exact(d, h)
  BY <1>3, <1>4, <1>5, <1>8, <1>9 DEF Exact
<1> QED BY <1>1, <1>2, <1>10

\* A sequence enters.
LEMMA InsertExact ==
  ASSUME NEW c, NEW k, Knows(c, DOMAIN k), Exact(c, k), NEW s, s \notin DOMAIN k, NEW t, NEW w \in Texts,
         Holding(c.tree, t, s, w)
  PROVE  Exact(Insert(c, t, s), With(k, s, w))
<1>1. PICK d : d = Insert(c, t, s)
  OBVIOUS
<1>2. PICK h : h = With(k, s, w)
  OBVIOUS
<1>3. d.tree = t /\ d.uncommitted = c.uncommitted
  BY <1>1 DEF Insert, Knows, CacheFields
<1>4. DOMAIN h = DOMAIN k \cup {s} /\ h[s] = w /\ \A x \in DOMAIN k : h[x] = k[x]
  BY <1>2 DEF With
<1>5. /\ IsTree(t) /\ GetSequence(t, s) = w
      /\ \A x \in DOMAIN k : GetSequence(t, x) = GetSequence(c.tree, x)
  BY DEF Holding, Knows, Seqs
<1>6. h \in [DOMAIN h -> Texts]
  BY <1>2, <1>4 DEF Exact, With
<1>7. Exact(d, h)
  BY <1>3, <1>4, <1>5, <1>6 DEF Exact
<1> QED BY <1>1, <1>2, <1>7

\* A sequence is taken over, without its last tokens.
LEMMA ReuseExact ==
  ASSUME NEW c, NEW k, Knows(c, DOMAIN k), Exact(c, k), NEW s \in DOMAIN k, NEW pop \in Nat, pop < Len(k[s])
  PROVE  Exact(ReuseRecyclingSequence(c, s, pop), [k EXCEPT ![s] = Take(k[s], Len(k[s]) - pop)])
<1>1. PICK d : d = ReuseRecyclingSequence(c, s, pop)
  OBVIOUS
<1>2. PICK l \in Nat : l = Len(k[s]) /\ pop < l
  BY DEF Exact, Texts
<1>3. PICK w : w = Take(k[s], l - pop)
  OBVIOUS
<1>4. w \in Texts
  <2>1. PICK a \in Texts, n \in Nat : a = k[s] /\ n = l - pop /\ n <= Len(a)
    BY <1>2 DEF Exact
  <2>2. SubSeq(a, 1, n) \in Texts
    BY <2>1, TakeFacts
  <2> QED BY <1>3, <2>1, <2>2 DEF Take
<1>5. /\ d.uncommitted = c.uncommitted
      /\ d.tree = IF pop > 0 THEN RollBackSequence(c.tree, s, pop) ELSE c.tree
  BY <1>1 DEF ReuseRecyclingSequence, Knows, CacheFields
<1>6. PICK t : t = c.tree /\ IsTree(t) /\ DOMAIN t.seq2page = DOMAIN k /\ GetSequence(t, s) = k[s]
  BY DEF Exact, Knows, Seqs
<1>7. /\ IsTree(d.tree) /\ GetSequence(d.tree, s) = w
      /\ \A x \in DOMAIN k \ {s} : GetSequence(d.tree, x) = GetSequence(t, x)
  <2>1. CASE pop > 0
    <3>1. Holding(t, RollBackSequence(t, s, pop), s, Take(GetSequence(t, s), Len(GetSequence(t, s)) - pop))
      BY <1>2, <1>6, RollBackHolds
    <3>2. Holding(t, d.tree, s, w)
      BY <1>2, <1>3, <1>5, <1>6, <2>1, <3>1
    <3> QED BY <1>6, <3>2 DEF Holding
  <2>2. CASE ~(pop > 0)
    <3>1. pop = 0 /\ d.tree = t /\ l - pop = l
      BY <1>5, <1>6, <2>2
    <3>2. w = k[s]
      <4>1. PICK a \in Texts : a = k[s]
        BY DEF Exact
      <4>2. SubSeq(a, 1, Len(a)) = a
        BY <4>1, TakeAll
      <4> QED BY <1>2, <1>3, <3>1, <4>1, <4>2 DEF Take
    <3> QED BY <1>6, <3>1, <3>2
  <2> QED BY <2>1, <2>2
<1>8. PICK h : h = [k EXCEPT ![s] = w]
  OBVIOUS
<1>9. DOMAIN h = DOMAIN k /\ h[s] = w /\ \A x \in DOMAIN k \ {s} : h[x] = k[x]
  BY <1>8
<1>10. h \in [DOMAIN h -> Texts]
  BY <1>4, <1>8, <1>9 DEF Exact
<1>11. Exact(d, h)
  BY <1>5, <1>6, <1>7, <1>9, <1>10 DEF Exact
<1> QED BY <1>1, <1>2, <1>3, <1>8, <1>11

\* A sequence is queued for eviction.
LEMMA RecycledExact ==
  ASSUME NEW c, NEW k, Knows(c, DOMAIN k), Exact(c, k), NEW s
  PROVE  Exact(Recycled(c, s), k)
<1>1. Recycled(c, s).tree = c.tree /\ Recycled(c, s).uncommitted = c.uncommitted
  BY DEF Recycled, Knows, CacheFields
<1> QED BY <1>1 DEF Exact

-----------------------------------------------------------------------------
(* The inductive invariant.                                                *)

\* The tokens of a request, which is busy if the model has run on it and the
\* prefix cache has not been told: one that waits has its prompt as input, one
\* that has generated has no input left, and the prefix cache has been told of
\* all of it but the last token.
Entry(e, prompt, busy) ==
  /\ e.inputs \in Texts /\ e.prefilled \in Texts /\ e.committed \in Texts /\ e.cached \in Nat
  /\ e.status \in {"new", "kPending"} =>
       e.inputs = prompt /\ e.prefilled = <<>> /\ e.committed = <<>> /\ e.cached = 0
  /\ e.status = "kAlive" =>
       IF e.inputs = <<>> THEN e.committed # <<>> /\ e.cached < Len(e.committed)
       ELSE e.committed = <<>> /\ e.cached = 0
  /\ ~busy => /\ e.prefilled = <<>>
              /\ e.status = "kAlive" /\ e.inputs = <<>> => e.cached = Len(e.committed) - 1

\* The text in the KV cache, continued, is prompt and generation.
Context(e, text, prompt) ==
  text \o (IF e.inputs = <<>> THEN <<Last(e.committed)>> ELSE e.inputs) = prompt \o e.committed

\* What is in the KV cache of a sequence is in the tree or pending, or the model
\* has just computed it.
Held ==
  /\ pc # "post" =>
       \A s \in DOMAIN kv : kv[s] = GetSequence(cache.tree, s) \o PendingOf(cache.uncommitted, token_ids, s)
  /\ pc = "post" =>
       /\ cache.uncommitted = <<>>
       /\ \A r \in ToSet(batch) : kv[req[r].id] = GetSequence(cache.tree, req[r].id) \o NewlyCached(r)
       /\ \A s \in DOMAIN kv : (\A r \in ToSet(batch) : req[r].id # s) => kv[s] = GetSequence(cache.tree, s)

Texted ==
  /\ token_ids \in [Requests -> Texts] /\ kv \in [DOMAIN kv -> Texts] /\ IsTree(cache.tree)
  /\ Held
EntriesOK ==
  \A r \in Requests : Entry(req[r], config.prompts[r], pc = "post" /\ r \in ToSet(batch))
Contexts ==
  \A r \in Requests : req[r].status = "kAlive" => Context(req[r], kv[req[r].id], config.prompts[r])

HInv == Texted /\ EntriesOK /\ Contexts

\* The prompts.
LEMMA PromptFacts ==
  ASSUME IInv, NEW r \in Requests
  PROVE  config.prompts[r] \in Texts /\ config.prompts[r] # <<>>
<1>1. \A q \in Requests : config.prompts[q] \in Seq(Tokens) \ {<<>>}
  BY PrefixCacheAssumption DEF IInv, TypeOK
<1> QED BY <1>1 DEF Texts

\* The invariant implies the two properties.
LEMMA HInvImplies ==
  ASSUME IInv, HInv
  PROVE  TreeHoldsKV /\ ContextIsOwn
<1>1. \A s : Pending(s) = PendingOf(cache.uncommitted, token_ids, s)
  BY DEF Pending, PendingOf, Part
<1>2. TreeHoldsKV
  BY <1>1 DEF TreeHoldsKV, HInv, Texted, Held
<1>3. ContextIsOwn
  BY DEF ContextIsOwn, HInv, Contexts, Context, Alive, Decodes
<1> QED BY <1>2, <1>3

\* Nothing is pending after a commit.
LEMMA CommitExact ==
  ASSUME IInv, HInv, pc # "post", NEW c, c = CommitSequenceExtention(cache)
  PROVE  Exact(c, kv) /\ Knows(c, DOMAIN kv)
<1>1. Knows(cache, DOMAIN kv)
  BY DEF IInv
<1>2. Knows(c, DOMAIN kv)
  BY <1>1, CommitKnows
<1>3. /\ token_ids \in [Requests -> Texts] /\ kv \in [DOMAIN kv -> Texts] /\ IsTree(cache.tree)
      /\ \A s \in DOMAIN kv : kv[s] = GetSequence(cache.tree, s) \o PendingOf(cache.uncommitted, token_ids, s)
  BY DEF HInv, Texted, Held
<1>4. PICK K : K = DOMAIN kv
  OBVIOUS
<1>5. /\ IsTree(c.tree) /\ c.uncommitted = <<>>
      /\ \A s \in K : GetSequence(c.tree, s) =
           GetSequence(cache.tree, s) \o PendingOf(cache.uncommitted, token_ids, s)
  BY <1>1, <1>3, <1>4, CommitHolds
<1> QED BY <1>2, <1>3, <1>4, <1>5 DEF Exact

\* A cache that holds exactly the texts is as it should be.
LEMMA ExactTexted ==
  ASSUME IInv, HInv, Exact(cache', kv'), pc' # "post", token_ids' = token_ids
  PROVE  Texted'
<1>1. /\ kv' \in [DOMAIN kv' -> Texts] /\ IsTree(cache'.tree) /\ cache'.uncommitted = <<>>
      /\ \A s \in DOMAIN kv' : GetSequence(cache'.tree, s) = kv'[s]
  BY DEF Exact
<1>2. token_ids' \in [Requests -> Texts]
  BY DEF HInv, Texted
<1>3. ASSUME NEW s \in DOMAIN kv'
      PROVE  kv'[s] = GetSequence(cache'.tree, s) \o PendingOf(cache'.uncommitted, token_ids', s)
  <2>1. PendingOf(cache'.uncommitted, token_ids', s) = <<>>
    BY <1>1, NothingPending
  <2>2. PICK a \in Texts : a = kv'[s]
    BY <1>1
  <2>3. a \o <<>> = a
    BY JoinEmpty
  <2> QED BY <1>1, <2>1, <2>2, <2>3
<1>4. Held'
  BY <1>3 DEF Held
<1> QED BY <1>1, <1>2, <1>4 DEF Texted

\* Nothing that matters changes.
LEMMA SameTexted ==
  ASSUME HInv, pc # "post", pc' # "post", cache' = cache, kv' = kv, token_ids' = token_ids
  PROVE  Texted'
<1>1. Held'
  BY DEF HInv, Texted, Held
<1> QED BY <1>1 DEF HInv, Texted

\* One request changes, and the texts of the others do not.
LEMMA OneChanges ==
  ASSUME HInv, NEW r \in Requests, config' = config, pc # "post", pc' # "post",
         \A q \in Requests \ {r} : /\ req'[q] = req[q]
                                   /\ req[q].status = "kAlive" => kv'[req[q].id] = kv[req[q].id],
         Entry(req'[r], config.prompts[r], FALSE),
         req'[r].status = "kAlive" => Context(req'[r], kv'[req'[r].id], config.prompts[r])
  PROVE  EntriesOK' /\ Contexts'
<1>1. \A q \in Requests : Entry(req[q], config.prompts[q], FALSE)
  BY DEF HInv, EntriesOK
<1>2. \A q \in Requests : Entry(req'[q], config.prompts[q], FALSE)
  BY <1>1
<1>3. EntriesOK'
  BY <1>2 DEF EntriesOK
<1>4. Contexts'
  BY DEF HInv, Contexts
<1> QED BY <1>3, <1>4

\* No request changes, and neither do the texts of those that run.
LEMMA NoneChanges ==
  ASSUME HInv, config' = config, pc # "post", pc' # "post", req' = req,
         \A q \in Requests : req[q].status = "kAlive" => kv'[req[q].id] = kv[req[q].id]
  PROVE  EntriesOK' /\ Contexts'
<1>1. EntriesOK'
  BY DEF HInv, EntriesOK
<1>2. Contexts'
  BY DEF HInv, Contexts
<1> QED BY <1>1, <1>2

\* The sequence of a running request is its own.
LEMMA OwnSequence ==
  ASSUME IInv, NEW r \in Requests, NEW q \in Requests, req[r].status = "kAlive", req[q].status = "kAlive", q # r
  PROVE  req[q].id # req[r].id
BY DEF IInv, Accounted, Running, Has

\* A request that has ended.
LEMMA GoneEntry ==
  ASSUME IInv, HInv, NEW r \in Requests, req' = [req EXCEPT ![r] = Gone(r)]
  PROVE  /\ \A prompt : Entry(req'[r], prompt, FALSE) 
         /\ req'[r].status = "kFinished"
         /\ \A q \in Requests \ {r} : req'[q] = req[q]
<1>1. DOMAIN req = Requests /\ DOMAIN req[r] = EntryFields
  BY DEF IInv, TypeOK, Entries
<1>2. PICK e : e = req'[r]
  OBVIOUS
<1>3. /\ e.status = "kFinished" /\ e.inputs = <<>> /\ e.prefilled = <<>> /\ e.committed = <<>> /\ e.cached = 0
  BY <1>1, <1>2 DEF Gone, EntryFields
<1>4. <<>> \in Texts
  BY DEF Texts
<1>5. \A prompt : Entry(e, prompt, FALSE)
  BY <1>3, <1>4 DEF Entry
<1> QED BY <1>1, <1>2, <1>3, <1>5

\* What is left of the KV cache.
LEMMA WithoutFacts ==
  ASSUME NEW k, NEW s
  PROVE  DOMAIN Without(k, s) = DOMAIN k \ {s} /\ \A x \in DOMAIN k \ {s} : Without(k, s)[x] = k[x]
BY DEF Without, Restricted

\* A running request leaves with its sequence.
LEMMA LeaveTexts ==
  ASSUME IInv, HInv, pc # "post", pc' # "post", token_ids' = token_ids,
         NEW r \in Requests, req[r].status = "kAlive", RemoveNow(req[r].id)
  PROVE  /\ Texted'
         /\ \A q \in Requests \ {r} : req[q].status = "kAlive" => kv'[req[q].id] = kv[req[q].id]
<1>1. PICK s : s = req[r].id
  OBVIOUS
<1>2. s \in DOMAIN kv
  BY <1>1, RunningId
<1>3. PICK c : c = CommitSequenceExtention(cache)
  OBVIOUS
<1>4. Exact(c, kv) /\ Knows(c, DOMAIN kv)
  BY <1>3, CommitExact
<1>5. cache' = Dropped(c, s) /\ kv' = Without(kv, s)
  BY <1>1, <1>3 DEF RemoveNow
<1>6. Exact(cache', kv')
  <2>1. PICK k : k = kv
    OBVIOUS
  <2>2. Exact(Dropped(c, s), Without(k, s))
    BY <1>2, <1>4, <2>1, DroppedExact
  <2> QED BY <1>5, <2>1, <2>2
<1>7. Texted'
  BY <1>6, ExactTexted
<1>8. ASSUME NEW q \in Requests \ {r}, req[q].status = "kAlive"
      PROVE  kv'[req[q].id] = kv[req[q].id]
  <2>1. req[q].id # s /\ req[q].id \in DOMAIN kv
    BY <1>1, <1>8, OwnSequence, RunningId
  <2> QED BY <1>5, <2>1, WithoutFacts
<1> QED BY <1>7, <1>8

-----------------------------------------------------------------------------
(* Every action keeps it.                                                  *)

\* It holds initially.
LEMMA InitTexts ==
  ASSUME Init
  PROVE  HInv
<1>1. /\ config \in Configs /\ cache = EmptyCache /\ token_ids = [r \in Requests |-> <<>>]
      /\ kv = [s \in {} |-> <<>>] /\ pc = "idle" /\ batch = <<>>
      /\ req = [r \in Requests |-> [status |-> "new", id |-> -1, inputs |-> config.prompts[r],
                                    prefilled |-> <<>>, committed |-> <<>>, cached |-> 0]]
  BY DEF Init
<1>2. <<>> \in Texts /\ \A r \in Requests : config.prompts[r] \in Texts
  BY <1>1, PrefixCacheAssumption DEF Texts
<1>3. token_ids \in [Requests -> Texts]
  BY <1>1, <1>2
<1>4. DOMAIN kv = {} /\ kv \in [DOMAIN kv -> Texts]
  BY <1>1
<1>5. IsTree(cache.tree)
  <2>1. cache.tree = EmptyTree
    BY <1>1 DEF EmptyCache
  <2> QED BY <2>1, EmptyIsTree
<1>6. Texted
  BY <1>1, <1>3, <1>4, <1>5 DEF Texted, Held
<1>7. ASSUME NEW r \in Requests
      PROVE  /\ Entry(req[r], config.prompts[r], pc = "post" /\ r \in ToSet(batch))
             /\ req[r].status # "kAlive"
  <2>1. /\ req[r].status = "new" /\ req[r].inputs = config.prompts[r] /\ req[r].prefilled = <<>>
        /\ req[r].committed = <<>> /\ req[r].cached = 0
    BY <1>1
  <2> QED BY <1>2, <2>1 DEF Entry
<1>8. EntriesOK /\ Contexts
  BY <1>7 DEF EntriesOK, Contexts
<1> QED BY <1>6, <1>8 DEF HInv

\* A request arrives.
LEMMA AddRequestTexts ==
  ASSUME IInv, HInv, NEW r \in Requests, AddRequest(r)
  PROVE  HInv'
<1>1. /\ config' = config /\ cache' = cache /\ token_ids' = token_ids /\ kv' = kv /\ pc' = pc /\ pc = "idle"
      /\ req[r].status = "new" /\ req' = [req EXCEPT ![r].status = "kPending", ![r].id = NewId]
  BY DEF AddRequest
<1>2. DOMAIN req = Requests /\ DOMAIN req[r] = EntryFields
  BY DEF IInv, TypeOK, Entries
<1>3. Texted'
  BY <1>1, SameTexted
<1>4. Entry(req[r], config.prompts[r], FALSE)
  BY <1>1 DEF HInv, EntriesOK
<1>5. /\ req'[r].status = "kPending" /\ req'[r].inputs = req[r].inputs /\ req'[r].prefilled = req[r].prefilled
      /\ req'[r].committed = req[r].committed /\ req'[r].cached = req[r].cached
      /\ \A q \in Requests \ {r} : req'[q] = req[q]
  BY <1>1, <1>2 DEF EntryFields
<1>6. Entry(req'[r], config.prompts[r], FALSE) /\ req'[r].status # "kAlive"
  BY <1>1, <1>4, <1>5 DEF Entry
<1>7. EntriesOK' /\ Contexts'
  BY <1>1, <1>5, <1>6, OneChanges
<1> QED BY <1>3, <1>7 DEF HInv

\* A request is aborted.
LEMMA AbortRequestTexts ==
  ASSUME IInv, HInv, NEW r \in Requests, AbortRequest(r)
  PROVE  HInv'
<1>1. /\ config' = config /\ token_ids' = token_ids /\ pc' = pc /\ pc = "idle"
      /\ req' = [req EXCEPT ![r] = Gone(r)]
  BY DEF AbortRequest
<1>2. /\ Entry(req'[r], config.prompts[r], FALSE) /\ req'[r].status = "kFinished"
      /\ \A q \in Requests \ {r} : req'[q] = req[q]
  BY <1>1, GoneEntry
<1>3. /\ Texted'
      /\ \A q \in Requests \ {r} : req[q].status = "kAlive" => kv'[req[q].id] = kv[req[q].id]
  <2>1. CASE req[r].status = "kAlive" /\ RemoveNow(req[r].id)
    BY <1>1, <2>1, LeaveTexts
  <2>2. CASE cache' = cache /\ kv' = kv
    BY <1>1, <2>2, SameTexted
  <2> QED BY <2>1, <2>2 DEF AbortRequest, Alive
<1>4. EntriesOK' /\ Contexts'
  BY <1>1, <1>2, <1>3, OneChanges
<1> QED BY <1>3, <1>4 DEF HInv

\* A request is preempted, before it has generated anything.
LEMMA PreemptTexts ==
  ASSUME IInv, HInv, ~PreemptDecoding, NEW r \in Requests, Preempt(r)
  PROVE  HInv'
<1>1. /\ config' = config /\ token_ids' = token_ids /\ pc' = pc /\ pc = "idle"
      /\ req[r].status = "kAlive" /\ req[r].committed = <<>> /\ RemoveNow(req[r].id)
      /\ req' = [req EXCEPT ![r].status = "kPending", ![r].inputs = config.prompts[r] \o req[r].committed,
                            ![r].prefilled = <<>>, ![r].cached = 0]
  BY DEF Preempt, Alive
<1>2. DOMAIN req = Requests /\ DOMAIN req[r] = EntryFields
  BY DEF IInv, TypeOK, Entries
<1>3. /\ Texted'
      /\ \A q \in Requests \ {r} : req[q].status = "kAlive" => kv'[req[q].id] = kv[req[q].id]
  BY <1>1, LeaveTexts
<1>4. PICK a \in Texts : a = config.prompts[r]
  BY PromptFacts
<1>5. a \o <<>> = a
  BY JoinEmpty
<1>6. /\ req'[r].status = "kPending" /\ req'[r].inputs = a /\ req'[r].prefilled = <<>>
      /\ req'[r].committed = <<>> /\ req'[r].cached = 0
      /\ \A q \in Requests \ {r} : req'[q] = req[q]
  BY <1>1, <1>2, <1>4, <1>5 DEF EntryFields
<1>7. <<>> \in Texts
  BY DEF Texts
<1>8. Entry(req'[r], config.prompts[r], FALSE) /\ req'[r].status # "kAlive"
  BY <1>4, <1>6, <1>7 DEF Entry
<1>9. EntriesOK' /\ Contexts'
  BY <1>1, <1>3, <1>6, <1>8, OneChanges
<1> QED BY <1>3, <1>9 DEF HInv

\* Everything is reset.
LEMMA ResetTexts ==
  ASSUME IInv, HInv, Reset
  PROVE  HInv'
<1>1. /\ config' = config /\ token_ids' = token_ids /\ pc' = pc /\ pc = "idle"
      /\ cache' = EmptyCache /\ kv' = [s \in {} |-> <<>>]
      /\ req' = [r \in Requests |-> IF req[r].status = "new" THEN req[r] ELSE Gone(r)]
  BY DEF Reset
<1>2. Texted'
  <2>1. cache'.tree = EmptyTree /\ cache'.uncommitted = <<>> /\ DOMAIN kv' = {} /\ kv' \in [DOMAIN kv' -> Texts]
    BY <1>1 DEF EmptyCache
  <2>2. Exact(cache', kv')
    BY <2>1, EmptyIsTree DEF Exact
  <2> QED BY <1>1, <2>2, ExactTexted
<1>3. ASSUME NEW r \in Requests
      PROVE  Entry(req'[r], config.prompts[r], FALSE) /\ req'[r].status # "kAlive"
  <2>1. CASE req[r].status = "new"
    <3>1. req'[r] = req[r]
      BY <1>1, <2>1
    <3>2. Entry(req[r], config.prompts[r], FALSE)
      BY <1>1 DEF HInv, EntriesOK
    <3> QED BY <2>1, <3>1, <3>2
  <2>2. CASE req[r].status # "new"
    <3>1. DOMAIN req[r] = EntryFields
      BY DEF IInv, TypeOK, Entries
    <3>2. PICK e : e = req'[r]
      OBVIOUS
    <3>3. /\ e.status = "kFinished" /\ e.inputs = <<>> /\ e.prefilled = <<>> /\ e.committed = <<>> /\ e.cached = 0
      BY <1>1, <2>2, <3>1, <3>2 DEF Gone, EntryFields
    <3>4. <<>> \in Texts
      BY DEF Texts
    <3> QED BY <3>2, <3>3, <3>4 DEF Entry
  <2> QED BY <2>1, <2>2
<1>4. EntriesOK' /\ Contexts'
  BY <1>1, <1>3 DEF EntriesOK, Contexts
<1> QED BY <1>2, <1>4 DEF HInv

\* A recycling sequence is evicted; what is pending stays.
LEMMA TryFreeMemoryTexts ==
  ASSUME IInv, HInv, TryFreeMemory
  PROVE  HInv'
<1>1. PICK s \in cache.recycling : cache' = Dropped(cache, s) /\ kv' = Without(kv, s)
  BY DEF TryFreeMemory
<1>2. config' = config /\ token_ids' = token_ids /\ pc' = pc /\ pc = "idle" /\ req' = req
  BY DEF TryFreeMemory
<1>3. DOMAIN cache = CacheFields /\ Seqs(cache.tree) = DOMAIN kv /\ s \in DOMAIN kv
  BY DEF IInv, Knows
<1>4. PICK t : t = cache.tree /\ IsTree(t) /\ s \in DOMAIN t.seq2page /\ DOMAIN t.seq2page = DOMAIN kv
  BY <1>3 DEF HInv, Texted, Seqs
<1>5. PICK v : v = RemoveSequence(t, s)
  OBVIOUS
<1>6. cache'.tree = v /\ cache'.uncommitted = cache.uncommitted
  BY <1>1, <1>3, <1>4, <1>5 DEF Dropped, CacheFields
<1>7. IsTree(v) /\ \A x \in DOMAIN kv \ {s} : GetSequence(v, x) = GetSequence(t, x)
  <2>1. Removed(t, RemoveSequence(t, s), s)
    BY <1>4, RemoveHolds
  <2> QED BY <1>4, <1>5, <2>1 DEF Removed
<1>8. DOMAIN kv' = DOMAIN kv \ {s} /\ \A x \in DOMAIN kv \ {s} : kv'[x] = kv[x]
  BY <1>1, WithoutFacts
<1>9. /\ token_ids \in [Requests -> Texts] /\ kv \in [DOMAIN kv -> Texts]
      /\ \A x \in DOMAIN kv : kv[x] = GetSequence(cache.tree, x) \o PendingOf(cache.uncommitted, token_ids, x)
  BY <1>2 DEF HInv, Texted, Held
<1>10. kv' \in [DOMAIN kv' -> Texts]
  BY <1>1, <1>8, <1>9 DEF Without, Restricted
<1>11. \A x \in DOMAIN kv' : kv'[x] = GetSequence(cache'.tree, x) \o PendingOf(cache'.uncommitted, token_ids', x)
  BY <1>2, <1>4, <1>6, <1>7, <1>8, <1>9
<1>12. Texted'
  BY <1>2, <1>6, <1>7, <1>9, <1>10, <1>11 DEF Texted, Held
<1>13. ASSUME NEW q \in Requests, req[q].status = "kAlive"
       PROVE  kv'[req[q].id] = kv[req[q].id]
  <2>1. req[q].id \in DOMAIN kv /\ req[q].id \notin cache.recycling
    BY <1>13, RunningId
  <2> QED BY <1>8, <2>1
<1>14. EntriesOK' /\ Contexts'
  BY <1>2, <1>13, NoneChanges
<1> QED BY <1>12, <1>14 DEF HInv

\* Requests are chosen.
LEMMA SelectTexts ==
  ASSUME HInv, pc = "idle", pc' = "match", UNCHANGED <<config, cache, token_ids, kv, idVars, req, interrupts>>
  PROVE  HInv'
<1>1. config' = config /\ cache' = cache /\ token_ids' = token_ids /\ kv' = kv /\ req' = req
  OBVIOUS
<1>2. Texted'
  BY <1>1, SameTexted
<1>3. EntriesOK' /\ Contexts'
  BY <1>1, NoneChanges
<1> QED BY <1>2, <1>3 DEF HInv

\* A finished request is removed.
LEMMA FinishTexts ==
  ASSUME IInv, HInv, Finish
  PROVE  HInv'
<1>1. PICK r : r = Head(batch)
  OBVIOUS
<1>2. PICK x : x = req[r].id
  OBVIOUS
<1>3. PICK c : c = CommitSequenceExtention(cache)
  OBVIOUS
<1>4. /\ config' = config /\ token_ids' = token_ids /\ pc = "finish" /\ pc' \in {"idle", "finish"}
      /\ req' = [req EXCEPT ![r] = Gone(r)]
  <2>1. /\ config' = config /\ token_ids' = token_ids /\ pc = "finish"
        /\ pc' = IF Tail(batch) = <<>> THEN "idle" ELSE "finish"
        /\ req' = [req EXCEPT ![Head(batch)] = Gone(Head(batch))]
    BY Zenon DEF Finish
  <2> QED BY <1>1, <2>1
<1>5. r \in Requests /\ req[r].status = "kAlive"
  <2>1. batch \in Seq(Requests) /\ Distinct(batch) /\ batch # <<>> /\ \A q \in ToSet(batch) : req[q].status = "kAlive"
    BY <1>4 DEF IInv, TypeOK, BatchAlive
  <2> QED BY <1>1, <2>1, HeadTail
<1>6. \/ cache' = cache /\ kv' = kv
      \/ RemoveNow(x)
      \/ \E full, victim :
           /\ full => victim \in c.recycling
           /\ cache' = RecycleLazily(c, x, full, victim)
           /\ kv' = IF full THEN Without(kv, victim) ELSE kv
  <2> DEFINE full == Cardinality(c.recycling) = config.limit
  <2>1. \/ UNCHANGED <<cache, kv, available_ids>>
        \/ RemoveNow(x)
        \/ \E victim \in IF full THEN c.recycling ELSE {x} :
              /\ cache' = RecycleLazily(c, x, full, victim)
              /\ kv' = IF full THEN Without(kv, victim) ELSE kv
    BY <1>1, <1>2, <1>3, Zenon DEF Finish
  <2> HIDE DEF full
  <2> QED BY <2>1
<1>7. /\ Entry(req'[r], config.prompts[r], FALSE) /\ req'[r].status = "kFinished"
      /\ \A q \in Requests \ {r} : req'[q] = req[q]
  BY <1>4, <1>5, GoneEntry
<1>8. Exact(c, kv) /\ Knows(c, DOMAIN kv)
  BY <1>3, <1>4, CommitExact
<1>9. x \in DOMAIN kv
  BY <1>2, <1>5, RunningId
<1>10. /\ Texted'
       /\ \A q \in Requests \ {r} : req[q].status = "kAlive" => kv'[req[q].id] = kv[req[q].id]
  <2>1. CASE cache' = cache /\ kv' = kv
    BY <1>4, <2>1, SameTexted
  <2>2. CASE RemoveNow(x)
    BY <1>2, <1>4, <1>5, <2>2, LeaveTexts
  <2>3. ASSUME NEW full, NEW victim, full => victim \in c.recycling,
               cache' = RecycleLazily(c, x, full, victim),
               kv' = IF full THEN Without(kv, victim) ELSE kv
        PROVE  /\ Texted'
               /\ \A q \in Requests \ {r} : req[q].status = "kAlive" => kv'[req[q].id] = kv[req[q].id]
    <3>1. CASE ~full
      <4>1. cache' = Recycled(c, x) /\ kv' = kv
        BY <2>3, <3>1 DEF RecycleLazily, Evicted, Recycled
      <4>2. Exact(cache', kv')
        <5>1. PICK k : k = kv
          OBVIOUS
        <5>2. Exact(Recycled(c, x), k)
          BY <1>8, <5>1, RecycledExact
        <5> QED BY <4>1, <5>1, <5>2
      <4>3. Texted'
        BY <1>4, <4>2, ExactTexted
      <4> QED BY <4>1, <4>3
    <3>2. CASE full
      <4>1. cache' = Recycled(Dropped(c, victim), x) /\ kv' = Without(kv, victim)
        BY <2>3, <3>2 DEF RecycleLazily, Evicted, Recycled
      <4>2. c.recycling = cache.recycling /\ victim \in cache.recycling /\ victim \in DOMAIN kv
        <5>1. Knows(cache, DOMAIN kv)
          BY DEF IInv
        <5>2. c.recycling = cache.recycling
          BY <1>3, <5>1, CommitKnows
        <5> QED BY <1>8, <2>3, <3>2, <5>2 DEF Knows
      <4>3. PICK d, k : d = Dropped(c, victim) /\ k = Without(kv, victim)
        OBVIOUS
      <4>4. Exact(d, k) /\ Knows(d, DOMAIN k)
        <5>1. PICK h : h = kv
          OBVIOUS
        <5>2. Exact(Dropped(c, victim), Without(h, victim))
          BY <1>8, <4>2, <5>1, DroppedExact
        <5>3. Knows(Dropped(c, victim), DOMAIN h \ {victim})
          BY <1>8, <5>1, DroppedKnows
        <5>4. DOMAIN Without(h, victim) = DOMAIN h \ {victim}
          BY WithoutFacts
        <5> QED BY <4>3, <5>1, <5>2, <5>3, <5>4
      <4>5. Exact(Recycled(d, x), k)
        BY <4>4, RecycledExact
      <4>6. Exact(cache', kv')
        BY <4>1, <4>3, <4>5
      <4>7. Texted'
        BY <1>4, <4>6, ExactTexted
      <4>8. ASSUME NEW q \in Requests, req[q].status = "kAlive"
            PROVE  kv'[req[q].id] = kv[req[q].id]
        <5>1. req[q].id \in DOMAIN kv /\ req[q].id # victim
          BY <4>2, <4>8, RunningId
        <5> QED BY <4>1, <5>1, WithoutFacts
      <4> QED BY <4>7, <4>8
    <3> QED BY <3>1, <3>2
  <2> QED BY <1>6, <2>1, <2>2, <2>3
<1>11. EntriesOK' /\ Contexts'
  BY <1>4, <1>5, <1>7, <1>10, OneChanges
<1> QED BY <1>10, <1>11 DEF HInv

\* What the tree matches of a request that waits is at the beginning of its
\* prompt, shorter than that, and at the beginning of the sequences it returns.
LEMMA MatchedFacts ==
  ASSUME IInv, HInv, pc # "post", NEW r \in Requests, req[r].status = "kPending", NEW c, NEW m,
         c = CommitSequenceExtention(cache), m = Matched(r, c)
  PROVE  /\ m.offset \in Nat /\ m.offset < Len(req[r].inputs)
         /\ \A s \in m.seqs : /\ s \in DOMAIN kv /\ 0 < m.offset /\ m.offset <= Len(kv[s])
                              /\ Take(kv[s], m.offset) = Take(req[r].inputs, m.offset)
<1>1. Exact(c, kv) /\ Knows(c, DOMAIN kv)
  BY CommitExact
<1>2. /\ IsTree(c.tree) /\ DOMAIN c.tree.seq2page = DOMAIN kv
      /\ \A s \in DOMAIN kv : GetSequence(c.tree, s) = kv[s]
  BY <1>1 DEF Exact, Knows, Seqs
<1>3. PICK a \in Texts : a = req[r].inputs /\ a # <<>>
  BY PromptFacts DEF HInv, EntriesOK, Entry
<1>4. PICK l \in Nat : l = Len(a) /\ 0 < l
  BY <1>3 DEF Texts
<1>5. PICK b : b = Front(a)
  OBVIOUS
<1>6. b \in Texts /\ Len(b) = l - 1 /\ b = SubSeq(a, 1, l - 1)
  <2>1. l - 1 \in Nat /\ l - 1 <= Len(a)
    BY <1>4
  <2>2. PICK j \in Nat : j = l - 1 /\ j <= Len(a)
    BY <2>1
  <2>3. SubSeq(a, 1, j) \in Texts /\ Len(SubSeq(a, 1, j)) = j
    BY <2>2, TakeFacts
  <2>4. b = SubSeq(a, 1, l - 1)
    BY <1>4, <1>5 DEF Front
  <2> QED BY <2>2, <2>3, <2>4
<1>7. m = MatchPrefix(c.tree, b)
  BY <1>3, <1>5 DEF Matched
<1>8. PICK t : t = c.tree /\ IsTree(t)
  BY <1>2
<1>9. /\ m.offset \in Nat /\ m.offset <= Len(b) /\ m.seqs \subseteq DOMAIN t.seq2page
      /\ \A s \in m.seqs : /\ 0 < m.offset /\ m.offset <= Len(GetSequence(t, s))
                           /\ Take(GetSequence(t, s), m.offset) = Take(b, m.offset)
  <2>1. PICK tokens \in Texts : tokens = b
    BY <1>6
  <2>2. m = MatchPrefix(t, tokens)
    BY <1>7, <1>8, <2>1
  <2>3. /\ m.offset \in Nat /\ m.offset <= Len(tokens) /\ m.seqs \subseteq DOMAIN t.seq2page
        /\ \A s \in m.seqs : /\ 0 < m.offset /\ m.offset <= Len(GetSequence(t, s))
                             /\ Take(GetSequence(t, s), m.offset) = Take(tokens, m.offset)
    BY <1>8, <2>2, MatchPrefixFacts
  <2> QED BY <2>1, <2>3
<1>10. PICK n \in Nat : n = m.offset /\ n <= l - 1
  BY <1>6, <1>9
<1>11. Take(b, n) = Take(a, n)
  <2>1. PICK j \in Nat : j = l - 1 /\ n <= j /\ j <= Len(a)
    BY <1>4, <1>10
  <2>2. SubSeq(SubSeq(a, 1, j), 1, n) = SubSeq(a, 1, n)
    BY <2>1, TakeOfTake
  <2> QED BY <1>6, <2>1, <2>2 DEF Take
<1>12. n < Len(a)
  BY <1>4, <1>10
<1> QED BY <1>2, <1>3, <1>8, <1>9, <1>10, <1>11, <1>12

\* A request for which the first tokens have been found.
LEMMA PoppedEntry ==
  ASSUME IInv, HInv, pc # "post", NEW r \in Requests, req[r].status = "kPending",
         NEW n \in Nat, n < Len(req[r].inputs), NEW id, req' = Popped(r, n, id)
  PROVE  /\ Entry(req'[r], config.prompts[r], FALSE) /\ req'[r].id = id
         /\ Context(req'[r], Take(req[r].inputs, n), config.prompts[r])
         /\ \A q \in Requests \ {r} : req'[q] = req[q]
<1>1. DOMAIN req = Requests /\ DOMAIN req[r] = EntryFields
  BY DEF IInv, TypeOK, Entries
<1>2. PICK a \in Texts : /\ a = req[r].inputs /\ a = config.prompts[r] /\ n < Len(a)
                         /\ req[r].prefilled = <<>> /\ req[r].committed = <<>> /\ req[r].cached = 0
  BY DEF HInv, EntriesOK, Entry
<1>3. PICK l \in Nat : l = Len(a) /\ n < l
  BY <1>2 DEF Texts
<1>4. PICK rest : rest = SubSeq(a, n + 1, l)
  OBVIOUS
<1>5. rest \in Texts /\ Len(rest) = l - n
  BY <1>3, <1>4, DropFacts
<1>6. rest # <<>>
  BY <1>3, <1>5
<1>7. SubSeq(a, 1, n) \o rest = a
  <2>1. n <= Len(a)
    BY <1>3
  <2> QED BY <1>3, <1>4, <2>1, TakeDrop
<1>8. PICK e : e = req'[r]
  OBVIOUS
<1>9. /\ e.status = "kAlive" /\ e.id = id /\ e.inputs = rest /\ e.prefilled = <<>> /\ e.committed = <<>> /\ e.cached = 0
      /\ \A q \in Requests \ {r} : req'[q] = req[q]
  BY <1>1, <1>2, <1>3, <1>4, <1>8 DEF Popped, EntryFields
<1>10. <<>> \in Texts
  BY DEF Texts
<1>11. Entry(e, config.prompts[r], FALSE)
  BY <1>5, <1>6, <1>9, <1>10 DEF Entry
<1>12. a \o <<>> = a
  BY JoinEmpty
<1>13. Context(e, Take(a, n), config.prompts[r])
  BY <1>2, <1>6, <1>7, <1>9, <1>12 DEF Context, Take
<1> QED BY <1>2, <1>8, <1>9, <1>11, <1>13

\* A request takes over a sequence.
LEMMA MatchReuseTexts ==
  ASSUME IInv, HInv, NEW r \in Requests, MatchReuse(r)
  PROVE  HInv'
<1>1. pc = "match" /\ req[r].status = "kPending"
  BY MatchingFacts DEF MatchReuse
<1>2. config' = config /\ token_ids' = token_ids /\ pc' = pc
  BY DEF MatchReuse
<1>3. PICK c : c = CommitSequenceExtention(cache)
  OBVIOUS
<1>4. PICK m : m = Matched(r, c)
  OBVIOUS
<1>5. PICK s, pop :
           /\ s \in Reusable(c, m) /\ pop = GetSequenceLength(c.tree, s) - m.offset
           /\ cache' = ReuseRecyclingSequence(c, s, pop)
           /\ kv' = [kv EXCEPT ![s] = SubSeq(@, 1, Len(@) - pop)]
           /\ req' = Popped(r, m.offset, s)
  BY <1>3, <1>4, Zenon DEF MatchReuse
<1>6. s \in m.seqs /\ c.seq_states[s] = "kRecycling"
  BY <1>5 DEF Reusable
<1>7. Exact(c, kv) /\ Knows(c, DOMAIN kv)
  BY <1>1, <1>3, CommitExact
<1>8. /\ m.offset \in Nat /\ m.offset < Len(req[r].inputs)
      /\ s \in DOMAIN kv /\ 0 < m.offset /\ m.offset <= Len(kv[s])
      /\ Take(kv[s], m.offset) = Take(req[r].inputs, m.offset)
  BY <1>1, <1>3, <1>4, <1>6, MatchedFacts
<1>9. PICK n \in Nat, l \in Nat : n = m.offset /\ l = Len(kv[s]) /\ 0 < n /\ n <= l
  <2>1. kv[s] \in Texts
    BY <1>7, <1>8 DEF Exact
  <2> QED BY <1>8, <2>1 DEF Texts
<1>10. GetSequenceLength(c.tree, s) = l
  BY <1>7, <1>8, <1>9 DEF Exact, GetSequenceLength
<1>11. pop \in Nat /\ pop < l /\ l - pop = n
  <2>1. pop = l - n
    BY <1>5, <1>9, <1>10, Zenon
  <2>2. 0 < n /\ n <= l
    BY <1>9
  <2> QED BY <2>1, <2>2
<1>12. s \in cache.recycling
  <2>1. Knows(cache, DOMAIN kv)
    BY DEF IInv
  <2>2. c.recycling = cache.recycling
    BY <1>3, <2>1, CommitKnows
  <2> QED BY <1>6, <1>7, <1>8, <2>2 DEF Knows
<1>13. kv' = [kv EXCEPT ![s] = Take(kv[s], l - pop)]
  BY <1>5, <1>8, <1>9 DEF Take
<1>14. Exact(cache', kv')
  <2>1. PICK k : k = kv
    OBVIOUS
  <2>2. Exact(ReuseRecyclingSequence(c, s, pop), [k EXCEPT ![s] = Take(k[s], Len(k[s]) - pop)])
    BY <1>7, <1>8, <1>9, <1>11, <2>1, ReuseExact
  <2> QED BY <1>5, <1>9, <1>13, <2>1, <2>2
<1>15. Texted'
  BY <1>1, <1>2, <1>14, ExactTexted
<1>16. /\ Entry(req'[r], config.prompts[r], FALSE) /\ req'[r].id = s
       /\ Context(req'[r], Take(req[r].inputs, n), config.prompts[r])
       /\ \A q \in Requests \ {r} : req'[q] = req[q]
  BY <1>1, <1>5, <1>8, <1>9, PoppedEntry
<1>17. kv'[s] = Take(req[r].inputs, n)
  BY <1>8, <1>9, <1>11, <1>13
<1>18. ASSUME NEW q \in Requests, req[q].status = "kAlive"
       PROVE  kv'[req[q].id] = kv[req[q].id]
  <2>1. req[q].id # s
    BY <1>12, <1>18, RunningId
  <2> QED BY <1>13, <2>1
<1>19. EntriesOK' /\ Contexts'
  BY <1>1, <1>2, <1>16, <1>17, <1>18, OneChanges
<1> QED BY <1>15, <1>19 DEF HInv

\* A request starts a sequence, with the first n tokens of its prompt.
LEMMA StartTexts ==
  ASSUME IInv, HInv, NEW r \in Requests, Matching(r), NEW t, NEW n \in Nat, n < Len(req[r].inputs),
         NEW c, c = CommitSequenceExtention(cache),
         Holding(c.tree, t, req[r].id, Take(req[r].inputs, n)),
         cache' = Insert(c, t, req[r].id), kv' = With(kv, req[r].id, Take(req[r].inputs, n)),
         req' = Popped(r, n, req[r].id), UNCHANGED <<config, token_ids, idVars, pc, batch, interrupts>>
  PROVE  HInv'
<1>1. pc = "match" /\ req[r].status = "kPending"
  BY MatchingFacts
<1>2. config' = config /\ token_ids' = token_ids /\ pc' = pc
  OBVIOUS
<1>3. PICK x : x = req[r].id
  OBVIOUS
<1>4. x \notin DOMAIN kv
  BY <1>1, <1>3, WaitingId
<1>5. PICK w : w = Take(req[r].inputs, n)
  OBVIOUS
<1>6. w \in Texts
  <2>1. PICK a \in Texts : a = req[r].inputs
    BY DEF HInv, EntriesOK, Entry
  <2>2. n <= Len(a)
    BY <2>1 DEF Texts
  <2>3. SubSeq(a, 1, n) \in Texts
    BY <2>2, TakeFacts
  <2> QED BY <1>5, <2>1, <2>3 DEF Take
<1>7. Exact(c, kv) /\ Knows(c, DOMAIN kv)
  BY <1>1, CommitExact
<1>8. Exact(cache', kv')
  <2>1. PICK k : k = kv
    OBVIOUS
  <2>2. Holding(c.tree, t, x, w)
    BY <1>3, <1>5
  <2>3. Exact(Insert(c, t, x), With(k, x, w))
    BY <1>4, <1>6, <1>7, <2>1, <2>2, InsertExact
  <2> QED BY <1>3, <1>5, <2>1, <2>3
<1>9. Texted'
  BY <1>1, <1>2, <1>8, ExactTexted
<1>10. /\ Entry(req'[r], config.prompts[r], FALSE) /\ req'[r].id = x
       /\ Context(req'[r], Take(req[r].inputs, n), config.prompts[r])
       /\ \A q \in Requests \ {r} : req'[q] = req[q]
  BY <1>1, <1>3, PoppedEntry
<1>11. kv'[x] = w /\ \A y \in DOMAIN kv : kv'[y] = kv[y]
  BY <1>3, <1>4, <1>5 DEF With
<1>12. ASSUME NEW q \in Requests, req[q].status = "kAlive"
       PROVE  kv'[req[q].id] = kv[req[q].id]
  <2>1. req[q].id \in DOMAIN kv
    BY <1>12, RunningId
  <2> QED BY <1>11, <2>1
<1>13. EntriesOK' /\ Contexts'
  <2>1. Context(req'[r], kv'[req'[r].id], config.prompts[r])
    BY <1>5, <1>10, <1>11
  <2> QED BY <1>1, <1>2, <1>10, <1>12, <2>1, OneChanges
<1> QED BY <1>9, <1>13 DEF HInv

\* A request forks a sequence.
LEMMA MatchForkTexts ==
  ASSUME IInv, HInv, NEW r \in Requests, MatchFork(r)
  PROVE  HInv'
<1>1. Matching(r) /\ UNCHANGED <<config, token_ids, idVars, pc, batch, interrupts>>
  BY DEF MatchFork
<1>2. pc = "match" /\ req[r].status = "kPending"
  BY <1>1, MatchingFacts
<1>3. PICK c : c = CommitSequenceExtention(cache)
  OBVIOUS
<1>4. PICK m : m = Matched(r, c)
  OBVIOUS
<1>5. PICK x : x = req[r].id
  OBVIOUS
<1>6. PICK s \in m.seqs :
               /\ cache' = Insert(c, ForkSequence(c.tree, x, s, m.offset), x)
               /\ kv' = With(kv, x, SubSeq(kv[s], 1, Min({m.offset, Len(kv[s])})))
               /\ req' = Popped(r, m.offset, x)
  BY <1>3, <1>4, <1>5, Zenon DEF MatchFork
<1>7. Exact(c, kv) /\ Knows(c, DOMAIN kv)
  BY <1>2, <1>3, CommitExact
<1>8. /\ m.offset \in Nat /\ m.offset < Len(req[r].inputs)
      /\ s \in DOMAIN kv /\ 0 < m.offset /\ m.offset <= Len(kv[s])
      /\ Take(kv[s], m.offset) = Take(req[r].inputs, m.offset)
  BY <1>2, <1>3, <1>4, MatchedFacts
<1>9. PICK n \in Nat, l \in Nat : n = m.offset /\ l = Len(kv[s]) /\ 0 < n /\ n <= l
  <2>1. kv[s] \in Texts
    BY <1>7, <1>8 DEF Exact
  <2> QED BY <1>8, <2>1 DEF Texts
<1>10. Min({n, l}) = n
  BY <1>9, MinPair
<1>11. x \in Int /\ x \notin DOMAIN kv
  BY <1>2, <1>5, WaitingId
<1>12. PICK t : t = ForkSequence(c.tree, x, s, n)
  OBVIOUS
<1>13. Holding(c.tree, t, x, Take(req[r].inputs, n))
  <2>1. PICK v : v = c.tree /\ IsTree(v) /\ DOMAIN v.seq2page = DOMAIN kv /\ GetSequence(v, s) = kv[s]
    BY <1>7, <1>8 DEF Exact, Knows, Seqs
  <2>2. s \in DOMAIN v.seq2page /\ x \notin DOMAIN v.seq2page /\ n <= Len(GetSequence(v, s))
    BY <1>8, <1>9, <1>11, <2>1
  <2>3. Holding(v, ForkSequence(v, x, s, n), x, Take(GetSequence(v, s), n))
    BY <1>9, <1>11, <2>1, <2>2, ForkHolds
  <2> QED BY <1>8, <1>9, <1>12, <2>1, <2>3
<1>14. kv' = With(kv, x, Take(req[r].inputs, n))
  BY <1>6, <1>8, <1>9, <1>10 DEF Take
<1>15. /\ cache' = Insert(c, t, req[r].id) /\ kv' = With(kv, req[r].id, Take(req[r].inputs, n))
       /\ req' = Popped(r, n, req[r].id) /\ n < Len(req[r].inputs)
       /\ Holding(c.tree, t, req[r].id, Take(req[r].inputs, n))
  BY <1>5, <1>6, <1>8, <1>9, <1>12, <1>13, <1>14
<1> QED BY <1>1, <1>3, <1>15, StartTexts

\* A request starts with nothing.
LEMMA MatchNothingTexts ==
  ASSUME IInv, HInv, NEW r \in Requests, MatchNothing(r)
  PROVE  HInv'
<1>1. Matching(r) /\ UNCHANGED <<config, token_ids, idVars, pc, batch, interrupts>>
  BY DEF MatchNothing
<1>2. pc = "match" /\ req[r].status = "kPending"
  BY <1>1, MatchingFacts
<1>3. PICK c : c = CommitSequenceExtention(cache)
  OBVIOUS
<1>4. PICK x : x = req[r].id
  OBVIOUS
<1>5. /\ cache' = Insert(c, AddSequence(c.tree, x), x) /\ kv' = With(kv, x, <<>>) /\ req' = Popped(r, 0, x)
  BY <1>3, <1>4, Zenon DEF MatchNothing
<1>6. Exact(c, kv) /\ Knows(c, DOMAIN kv)
  BY <1>2, <1>3, CommitExact
<1>7. x \in Int /\ x \notin DOMAIN kv
  BY <1>2, <1>4, WaitingId
<1>8. PICK t : t = AddSequence(c.tree, x)
  OBVIOUS
<1>9. PICK a \in Texts : a = req[r].inputs /\ a # <<>>
  BY <1>2, PromptFacts DEF HInv, EntriesOK, Entry
<1>10. PICK n \in Nat : n = 0 /\ n < Len(a)
  BY <1>9 DEF Texts
<1>11. Take(a, n) = <<>>
  <2>1. n <= Len(a)
    BY <1>9, <1>10 DEF Texts
  <2>2. SubSeq(a, 1, n) \in Texts /\ Len(SubSeq(a, 1, n)) = n
    BY <2>1, TakeFacts
  <2> QED BY <1>10, <2>2 DEF Take, Texts
<1>12. Holding(c.tree, t, x, <<>>)
  <2>1. PICK v : v = c.tree /\ IsTree(v) /\ DOMAIN v.seq2page = DOMAIN kv
    BY <1>6 DEF Exact, Knows, Seqs
  <2>2. Holding(v, AddSequence(v, x), x, <<>>)
    BY <1>7, <2>1, AddHolds
  <2> QED BY <1>8, <2>1, <2>2
<1>13. /\ cache' = Insert(c, t, req[r].id) /\ kv' = With(kv, req[r].id, Take(req[r].inputs, n))
       /\ req' = Popped(r, n, req[r].id) /\ n < Len(req[r].inputs)
       /\ Holding(c.tree, t, req[r].id, Take(req[r].inputs, n))
  BY <1>4, <1>5, <1>8, <1>9, <1>10, <1>11, <1>12
<1> QED BY <1>1, <1>3, <1>13, StartTexts
\* What a request entry has that the prefix cache is not told yet.
NewOf(e) == e.prefilled \o SubSeq(e.committed, e.cached + 1, Len(e.committed) - 1)

\* The one token that is last.
LEMMA LastToken ==
  ASSUME NEW com \in Texts, com # <<>>
  PROVE  /\ Last(com) \in Tokens /\ <<Last(com)>> \in Texts /\ Len(com) \in Nat \ {0} /\ Last(com) = com[Len(com)]
BY DEF Last, Texts

\* A token more.
LEMMA OneMore ==
  ASSUME NEW com \in Texts, NEW x \in Tokens
  PROVE  /\ Append(com, x) \in Texts /\ Append(com, x) = com \o <<x>> /\ <<x>> \in Texts
         /\ Len(Append(com, x)) = Len(com) + 1 /\ Last(Append(com, x)) = x /\ Append(com, x) # <<>>
<1>1. PICK l \in Nat : l = Len(com)
  BY DEF Texts
<1>2. /\ Append(com, x) \in Seq(Tokens) /\ <<x>> \in Seq(Tokens) /\ Len(Append(com, x)) = l + 1
      /\ Append(com, x)[l + 1] = x
  BY <1>1 DEF Texts
<1>3. Append(com, x) = com \o <<x>>
  BY DEF Texts
<1>4. Append(com, x) # <<>>
  BY <1>1, <1>2
<1> QED BY <1>1, <1>2, <1>3, <1>4 DEF Last, Texts

\* One token of a sequence.
LEMMA OneToken ==
  ASSUME NEW S, NEW s \in Seq(S), NEW i \in 1..Len(s)
  PROVE  SubSeq(s, i, i) = <<s[i]>>
<1>1. i \in Int /\ \A j \in i..i : s[j] \in S
  OBVIOUS
<1>2. PICK w : w = SubSeq(s, i, i)
  OBVIOUS
<1>3. w \in Seq(S) /\ Len(w) = 1 /\ \A j \in 1..(i - i + 1) : w[j] = s[i + j - 1]
  BY <1>1, <1>2, SubSeqProperties
<1>4. w[1] = s[i]
  BY <1>3
<1>5. w = <<s[i]>>
  BY <1>3, <1>4
<1> QED BY <1>2, <1>5

\* A request entry e in the middle of a step, where the model has run on the
\* tokens w after the text; and how it is left after a prefill and a decode.
Stepped(e, text, w, prompt) == Entry(e, prompt, TRUE) /\ Context(e, text \o w, prompt) /\ NewOf(e) = w
Prefills(e, chunk, rest) ==
  /\ e.status = "kAlive" /\ e.inputs = rest /\ e.prefilled = chunk /\ e.cached = 0
  /\ IF rest = <<>> THEN \E x \in Tokens : e.committed = <<x>> ELSE e.committed = <<>>
Decoded(e, com) ==
  /\ e.status = "kAlive" /\ e.inputs = <<>> /\ e.prefilled = <<>> /\ e.cached = Len(com) - 1
  /\ \E x \in Tokens : e.committed = Append(com, x)

\* A chunk of the prompt has been computed, and at its end a token sampled.
LEMMA PrefillStep ==
  ASSUME NEW text \in Texts, NEW chunk \in Texts, NEW rest \in Texts, NEW prompt \in Texts, NEW e,
         Prefills(e, chunk, rest), (text \o chunk) \o rest = prompt
  PROVE  Stepped(e, text, chunk, prompt)
<1> USE DEF Prefills, Stepped
<1>1. CASE rest = <<>>
  <2>1. PICK x \in Tokens : e.committed = <<x>>
    BY <1>1
  <2>2. <<x>> \in Texts /\ <<x>> # <<>> /\ Len(<<x>>) = 1 /\ Last(<<x>>) = x /\ <<>> \in Texts
    BY DEF Texts, Last
  <2>3. Entry(e, prompt, TRUE)
    BY <1>1, <2>1, <2>2 DEF Entry
  <2>4. text \o chunk = prompt
    <3>1. text \o chunk \in Texts
      BY JoinFacts
    <3> QED BY <1>1, <3>1, JoinEmpty
  <2>5. Context(e, text \o chunk, prompt)
    BY <1>1, <2>1, <2>2, <2>4 DEF Context
  <2>6. SubSeq(e.committed, e.cached + 1, Len(e.committed) - 1) = <<>>
    <3>1. e.cached + 1 = 1 /\ Len(e.committed) - 1 = 0
      BY <2>1, <2>2
    <3>2. SubSeq(<<x>>, 1, 0) = <<>>
      OBVIOUS
    <3> QED BY <2>1, <3>1, <3>2
  <2>7. NewOf(e) = chunk
    BY <2>6, JoinEmpty DEF NewOf
  <2> QED BY <2>3, <2>5, <2>7
<1>2. CASE rest # <<>>
  <2>1. e.committed = <<>> /\ <<>> \in Texts
    BY <1>2 DEF Texts
  <2>2. Entry(e, prompt, TRUE)
    BY <1>2, <2>1 DEF Entry
  <2>4. prompt \o <<>> = prompt
    BY JoinEmpty
  <2>5. Context(e, text \o chunk, prompt)
    BY <1>2, <2>1, <2>4 DEF Context
  <2>6. SubSeq(e.committed, e.cached + 1, Len(e.committed) - 1) = <<>>
    <3>1. e.cached + 1 = 1 /\ Len(e.committed) - 1 = -1
      BY <2>1
    <3>2. SubSeq(<<>>, 1, -1) = <<>>
      OBVIOUS
    <3> QED BY <2>1, <3>1, <3>2
  <2>7. NewOf(e) = chunk
    BY <2>6, JoinEmpty DEF NewOf
  <2> QED BY <2>2, <2>5, <2>7
<1> QED BY <1>1, <1>2

\* A token has been decoded.
LEMMA DecodeStep ==
  ASSUME NEW text \in Texts, NEW prompt \in Texts, NEW com \in Texts, com # <<>>, NEW e,
         Decoded(e, com), NEW w, w = <<Last(com)>>, text \o w = prompt \o com
  PROVE  Stepped(e, text, w, prompt)
<1>0. PICK x \in Tokens : /\ e.status = "kAlive" /\ e.inputs = <<>> /\ e.prefilled = <<>> /\ e.cached = Len(com) - 1
                          /\ e.committed = Append(com, x)
  BY DEF Decoded
<1>1. PICK l \in Nat : l = Len(com) /\ 0 < l
  BY LastToken
<1>2. PICK more \in Texts : /\ more = Append(com, x) /\ more = com \o <<x>> /\ Len(more) = l + 1 /\ Last(more) = x
                            /\ more # <<>> /\ <<x>> \in Texts
  BY <1>1, OneMore
<1>3. <<>> \in Texts
  BY DEF Texts
<1>4. e.committed = more /\ e.cached = l - 1 /\ l - 1 \in Nat /\ l - 1 < l + 1
  BY <1>0, <1>1, <1>2
<1>5. Entry(e, prompt, TRUE)
  BY <1>0, <1>2, <1>3, <1>4 DEF Entry
<1>6. (prompt \o com) \o <<x>> = prompt \o more
  <2>1. (prompt \o com) \o <<x>> = prompt \o (com \o <<x>>)
    <3>1. Associates(prompt, com, <<x>>)
      BY <1>2, JoinAssociative
    <3> QED BY <3>1 DEF Associates
  <2> QED BY <1>2, <2>1
<1>7. Context(e, text \o w, prompt)
  BY <1>0, <1>2, <1>4, <1>6 DEF Context
<1>8. SubSeq(more, l, l) = <<Last(com)>>
  <2>1. more[l] = com[l] /\ com[l] = Last(com)
    BY <1>1, <1>2, LastToken DEF Texts
  <2>2. l \in 1..Len(more)
    BY <1>1, <1>2
  <2>3. SubSeq(more, l, l) = <<more[l]>>
    BY <2>2, OneToken DEF Texts
  <2> QED BY <2>1, <2>3
<1>9. e.cached + 1 = l /\ Len(e.committed) - 1 = l
  BY <1>1, <1>2, <1>4
<1>10. NewOf(e) = <<>> \o <<Last(com)>>
  BY <1>0, <1>4, <1>8, <1>9 DEF NewOf
<1>11. NewOf(e) = w
  BY <1>10, LastToken, JoinEmpty
<1> QED BY <1>5, <1>7, <1>11 DEF Stepped

\* The input of a request is a chunk and the rest.
LEMMA BatchChunk ==
  ASSUME IInv, HInv, NEW r \in Requests
  PROVE  /\ Chunk(r) \in Texts /\ RestOf(r) \in Texts /\ Chunk(r) \o RestOf(r) = req[r].inputs
         /\ req[r].inputs = <<>> => Chunk(r) = <<>> /\ RestOf(r) = <<>>
<1>1. PICK a \in Texts : a = req[r].inputs
  <2>1. \E busy : Entry(req[r], config.prompts[r], busy)
    BY DEF HInv, EntriesOK
  <2> QED BY <2>1 DEF Entry
<1>2. PICK l \in Nat : l = Len(a)
  BY <1>1 DEF Texts
<1>3. ChunkSize \in Nat
  BY PrefixCacheAssumption
<1>4. PICK n \in Nat : n = Min({ChunkSize, l}) /\ n <= l
  BY <1>2, <1>3, MinPair
<1>5. Chunk(r) = SubSeq(a, 1, n)
  BY <1>1, <1>2, <1>4 DEF Chunk
<1>6. SubSeq(a, 1, n) \in Texts /\ Len(SubSeq(a, 1, n)) = n
  BY <1>2, <1>4, TakeFacts
<1>7. RestOf(r) = SubSeq(a, n + 1, l)
  BY <1>1, <1>2, <1>5, <1>6 DEF RestOf
<1>8. SubSeq(a, n + 1, l) \in Texts /\ Len(SubSeq(a, n + 1, l)) = l - n
  BY <1>2, <1>4, DropFacts
<1>9. SubSeq(a, 1, n) \o SubSeq(a, n + 1, l) = a
  BY <1>2, <1>4, TakeDrop
<1>10. ASSUME a = <<>> PROVE Chunk(r) = <<>> /\ RestOf(r) = <<>>
  <2>1. l = 0 /\ n = 0
    BY <1>2, <1>4, <1>10
  <2> QED BY <1>5, <1>6, <1>7, <1>8, <2>1 DEF Texts
<1> QED BY <1>1, <1>5, <1>6, <1>7, <1>8, <1>9, <1>10
\* What the model runs on for a request.
RunsOn(r) == IF Decodes(r) THEN <<Last(req[r].committed)>> ELSE Chunk(r)
Sampling == {r \in InBatch : RestOf(r) = <<>>}
Ran(r, sampled) ==
  [req[r] EXCEPT !.inputs = RestOf(r), !.prefilled = @ \o Chunk(r),
                 !.committed = IF r \in DOMAIN sampled THEN Append(@, sampled[r]) ELSE @]

\* A request of the batch after the model has run.
LEMMA RanFacts ==
  ASSUME IInv, HInv, pc = "match", NEW r \in Requests, r \in InBatch, req[r].status = "kAlive",
         NEW sampled \in [Sampling -> Tokens], NEW e, e = Ran(r, sampled)
  PROVE  /\ Entry(e, config.prompts[r], TRUE) /\ Context(e, kv[req[r].id] \o RunsOn(r), config.prompts[r])
         /\ NewOf(e) = RunsOn(r) /\ RunsOn(r) \in Texts /\ e.status = "kAlive" /\ e.id = req[r].id
<1>1. DOMAIN req[r] = EntryFields
  BY DEF IInv, TypeOK, Entries
<1>2. PICK chunk \in Texts, rest \in Texts : chunk = Chunk(r) /\ rest = RestOf(r)
  BY BatchChunk
<1>3. PICK prompt \in Texts : prompt = config.prompts[r]
  BY PromptFacts
<1>4. PICK text \in Texts : text = kv[req[r].id]
  <2>1. req[r].id \in DOMAIN kv
    BY RunningId
  <2> QED BY <2>1 DEF HInv, Texted
<1>5. Entry(req[r], prompt, FALSE) /\ Context(req[r], text, prompt)
  BY <1>3, <1>4 DEF HInv, EntriesOK, Contexts
<1>6. PICK com \in Texts : com = req[r].committed
  BY <1>5 DEF Entry
<1>7. PICK inp \in Texts : inp = req[r].inputs
  BY <1>5 DEF Entry
<1>8. /\ e.status = "kAlive" /\ e.id = req[r].id /\ e.inputs = rest /\ e.cached = req[r].cached
      /\ e.prefilled = <<>> \o chunk
      /\ e.committed = IF r \in DOMAIN sampled THEN Append(com, sampled[r]) ELSE com
  <2>1. req[r].prefilled = <<>>
    BY <1>5 DEF Entry
  <2> QED BY <1>1, <1>2, <1>6, <2>1 DEF Ran, EntryFields
<1>9. e.prefilled = chunk
  BY <1>8, JoinEmpty
<1>10. r \in DOMAIN sampled <=> rest = <<>>
  BY <1>2 DEF Sampling
<1>11. r \in DOMAIN sampled => sampled[r] \in Tokens
  OBVIOUS
<1>12. CASE inp = <<>>
  <2>1. chunk = <<>> /\ rest = <<>>
    BY <1>2, <1>7, <1>12, BatchChunk
  <2>2. com # <<>> /\ req[r].cached = Len(com) - 1
    BY <1>5, <1>6, <1>7, <1>12 DEF Entry
  <2>3. PICK x \in Tokens : e.committed = Append(com, x)
    BY <1>8, <1>10, <1>11, <2>1
  <2>4. text \o <<Last(com)>> = prompt \o com
    BY <1>5, <1>6, <1>7, <1>12 DEF Context
  <2>5. PICK w : w = <<Last(com)>>
    OBVIOUS
  <2>6. Stepped(e, text, w, prompt)
    <3>1. Decoded(e, com)
      BY <1>8, <1>9, <2>1, <2>2, <2>3 DEF Decoded
    <3>2. text \o w = prompt \o com
      BY <2>4, <2>5
    <3> QED BY <2>2, <2>5, <3>1, <3>2, DecodeStep
  <2>7. RunsOn(r) = w
    BY <2>5, <1>6, <1>7, <1>12 DEF RunsOn, Decodes
  <2>8. w \in Texts
    BY <2>2, <2>5, LastToken
  <2> QED BY <1>3, <1>4, <1>8, <2>6, <2>7, <2>8 DEF Stepped
<1>13. CASE inp # <<>>
  <2>1. com = <<>> /\ req[r].cached = 0
    BY <1>5, <1>6, <1>7, <1>13 DEF Entry
  <2>2. text \o inp = prompt
    <3>1. text \o inp = prompt \o com
      BY <1>5, <1>6, <1>7, <1>13 DEF Context
    <3> QED BY <2>1, <3>1, JoinEmpty
  <2>3. (text \o chunk) \o rest = prompt
    <3>1. chunk \o rest = inp
      BY <1>2, <1>7, BatchChunk
    <3>2. (text \o chunk) \o rest = text \o (chunk \o rest)
      <4>1. Associates(text, chunk, rest)
        BY JoinAssociative
      <4> QED BY <4>1 DEF Associates
    <3> QED BY <2>2, <3>1, <3>2
  <2>4. IF rest = <<>> THEN \E x \in Tokens : e.committed = <<x>> ELSE e.committed = <<>>
    <3>1. ASSUME rest = <<>> PROVE \E x \in Tokens : e.committed = <<x>>
      <4>1. PICK x \in Tokens : x = sampled[r]
        BY <1>10, <1>11, <3>1
      <4>2. e.committed = Append(<<>>, x)
        BY <1>8, <1>10, <2>1, <3>1, <4>1
      <4>3. Append(<<>>, x) = <<x>>
        OBVIOUS
      <4> QED BY <4>2, <4>3
    <3>2. ASSUME rest # <<>> PROVE e.committed = <<>>
      BY <1>8, <1>10, <2>1, <3>2
    <3> QED BY <3>1, <3>2
  <2>5. Prefills(e, chunk, rest)
    BY <1>8, <1>9, <2>1, <2>4 DEF Prefills
  <2>6. Stepped(e, text, chunk, prompt)
    BY <2>3, <2>5, PrefillStep
  <2>7. RunsOn(r) = chunk
    BY <1>2, <1>7, <1>13 DEF RunsOn, Decodes
  <2> QED BY <1>3, <1>4, <1>8, <2>6, <2>7 DEF Stepped
<1> QED BY <1>12, <1>13

\* The model runs on the batch.
LEMMA ForwardTexts ==
  ASSUME IInv, HInv, Forward
  PROVE  HInv'
<1>1. /\ config' = config /\ token_ids' = token_ids /\ batch' = batch
      /\ pc = "match" /\ pc' = "post" /\ ToMatch = <<>> /\ cache' = CommitSequenceExtention(cache)
  BY DEF Forward
<1>2. kv' = [s \in DOMAIN kv |->
              IF \E r \in InBatch : req[r].id = s
              THEN kv[s] \o RunsOn(CHOOSE r \in InBatch : req[r].id = s)
              ELSE kv[s]]
  BY Zenon DEF Forward, RunsOn
<1>3. PICK sampled \in [Sampling -> Tokens] :
        req' = [r \in Requests |-> IF r \notin InBatch THEN req[r] ELSE Ran(r, sampled)]
  BY Zenon DEF Forward, Ran, Sampling
<1>4. /\ InBatch \subseteq Requests /\ \A r \in InBatch : req[r].status = "kAlive"
  <2>1. ToSet(batch) \subseteq Requests /\ batch \in Seq(Requests)
    BY ToSetFacts DEF IInv, TypeOK
  <2>2. PICK W : W = {q \in Requests : req[q].status = "kPending"}
    OBVIOUS
  <2>3. \A x : x \in ToSet(InOrder(batch, W)) <=> x \in ToSet(batch) /\ x \in W
    BY <2>1, InOrderFacts
  <2>4. ToSet(InOrder(batch, W)) = {}
    BY <1>1, <2>2 DEF ToMatch, ToSet
  <2>5. \A q \in ToSet(batch) : req[q].status \in {"kPending", "kAlive"}
    BY <1>1 DEF IInv, BatchAlive
  <2> QED BY <2>1, <2>2, <2>3, <2>4, <2>5 DEF InBatch
<1>5. Exact(cache', kv) /\ Knows(cache', DOMAIN kv)
  BY <1>1, CommitExact
<1>6. ASSUME NEW r \in InBatch
      PROVE  /\ Entry(req'[r], config.prompts[r], TRUE)
             /\ Context(req'[r], kv[req[r].id] \o RunsOn(r), config.prompts[r])
             /\ NewOf(req'[r]) = RunsOn(r) /\ RunsOn(r) \in Texts
             /\ req'[r].status = "kAlive" /\ req'[r].id = req[r].id
  <2>1. PICK e : e = Ran(r, sampled)
    OBVIOUS
  <2>2. req'[r] = e /\ r \in Requests /\ req[r].status = "kAlive"
    BY <1>3, <1>4, <2>1
  <2>3. /\ Entry(e, config.prompts[r], TRUE) /\ Context(e, kv[req[r].id] \o RunsOn(r), config.prompts[r])
        /\ NewOf(e) = RunsOn(r) /\ RunsOn(r) \in Texts /\ e.status = "kAlive" /\ e.id = req[r].id
    BY <1>1, <2>1, <2>2, RanFacts
  <2> QED BY <2>2, <2>3
<1>7. \A r \in Requests \ InBatch : req'[r] = req[r]
  BY <1>3
<1>8. ASSUME NEW r \in InBatch
      PROVE  req[r].id \in DOMAIN kv /\ kv'[req[r].id] = kv[req[r].id] \o RunsOn(r)
  <2>1. r \in Requests /\ req[r].status = "kAlive"
    BY <1>4
  <2>2. req[r].id \in DOMAIN kv
    BY <2>1, RunningId
  <2>3. \A q \in InBatch : req[q].id = req[r].id => q = r
    BY <1>4, <2>1, OwnSequence
  <2>4. (CHOOSE q \in InBatch : req[q].id = req[r].id) = r
    BY <2>3
  <2> QED BY <1>2, <2>2, <2>4
<1>9. \A s \in DOMAIN kv : (\A r \in InBatch : req[r].id # s) => kv'[s] = kv[s]
  BY <1>2
<1>10. DOMAIN kv' = DOMAIN kv
  BY <1>2
<1>11. ASSUME NEW s \in DOMAIN kv PROVE kv'[s] \in Texts
  <2>1. kv[s] \in Texts
    BY <1>5 DEF Exact
  <2>2. CASE \E r \in InBatch : req[r].id = s
    <3>1. PICK r \in InBatch : req[r].id = s
      BY <2>2
    <3>2. RunsOn(r) \in Texts /\ kv'[s] = kv[s] \o RunsOn(r)
      BY <1>6, <1>8, <3>1
    <3> QED BY <2>1, <3>2, JoinFacts
  <2>3. CASE \A r \in InBatch : req[r].id # s
    BY <1>9, <2>1, <2>3
  <2> QED BY <2>2, <2>3
<1>12. kv' \in [DOMAIN kv' -> Texts]
  <2>1. kv' = [s \in DOMAIN kv |-> kv'[s]]
    BY <1>2
  <2> QED BY <1>10, <1>11, <2>1
<1>13. /\ IsTree(cache'.tree) /\ cache'.uncommitted = <<>>
       /\ \A s \in DOMAIN kv : GetSequence(cache'.tree, s) = kv[s]
  BY <1>5 DEF Exact
<1>14. Held'
  <2>1. ASSUME NEW r \in ToSet(batch)
        PROVE  kv'[req'[r].id] = GetSequence(cache'.tree, req'[r].id) \o NewlyCached(r)'
    <3>1. r \in InBatch
      BY <2>1 DEF InBatch
    <3>2. NewlyCached(r)' = NewOf(req'[r])
      BY DEF NewlyCached, NewOf
    <3>3. PICK s : s = req[r].id
      OBVIOUS
    <3>4. req'[r].id = s /\ s \in DOMAIN kv /\ kv'[s] = kv[s] \o RunsOn(r) /\ NewlyCached(r)' = RunsOn(r)
      BY <1>6, <1>8, <3>1, <3>2, <3>3
    <3>5. kv[s] = GetSequence(cache'.tree, s)
      BY <1>13, <3>4
    <3> QED BY <3>4, <3>5
  <2>2. ASSUME NEW s \in DOMAIN kv', \A r \in ToSet(batch) : req'[r].id # s
        PROVE  kv'[s] = GetSequence(cache'.tree, s)
    <3>1. \A r \in InBatch : req[r].id # s
      BY <1>6, <2>2 DEF InBatch
    <3> QED BY <1>9, <1>10, <1>13, <3>1
  <2> QED BY <1>1, <1>13, <2>1, <2>2 DEF Held
<1>15. Texted'
  BY <1>1, <1>12, <1>13, <1>14 DEF HInv, Texted
<1>16. EntriesOK'
  <2>1. ASSUME NEW r \in Requests
        PROVE  Entry(req'[r], config'.prompts[r], pc' = "post" /\ r \in ToSet(batch'))
    <3>1. CASE r \in InBatch
      <4>1. (pc' = "post" /\ r \in ToSet(batch')) = TRUE
        BY <1>1, <3>1 DEF InBatch
      <4> QED BY <1>1, <1>6, <3>1, <4>1
    <3>2. CASE r \notin InBatch
      <4>1. (pc' = "post" /\ r \in ToSet(batch')) = FALSE
        BY <1>1, <3>2 DEF InBatch
      <4>2. Entry(req[r], config.prompts[r], FALSE)
        BY <1>1 DEF HInv, EntriesOK
      <4> QED BY <1>1, <1>7, <3>2, <4>1, <4>2
    <3> QED BY <3>1, <3>2
  <2> QED BY <2>1 DEF EntriesOK
<1>17. Contexts'
  <2>1. ASSUME NEW r \in Requests, req'[r].status = "kAlive"
        PROVE  Context(req'[r], kv'[req'[r].id], config'.prompts[r])
    <3>1. CASE r \in InBatch
      BY <1>1, <1>6, <1>8, <3>1
    <3>2. CASE r \notin InBatch
      <4>1. req'[r] = req[r] /\ req[r].status = "kAlive"
        BY <1>7, <2>1, <3>2
      <4>2. req[r].id \in DOMAIN kv /\ \A q \in InBatch : req[q].id # req[r].id
        BY <1>4, <3>2, <4>1, RunningId, OwnSequence
      <4>3. kv'[req[r].id] = kv[req[r].id]
        BY <1>9, <4>2
      <4>4. Context(req[r], kv[req[r].id], config.prompts[r])
        BY <4>1 DEF HInv, Contexts
      <4> QED BY <1>1, <4>1, <4>3, <4>4
    <3> QED BY <3>1, <3>2
  <2> QED BY <2>1 DEF Contexts
<1> QED BY <1>15, <1>16, <1>17 DEF HInv
\* The larger of two numbers.
LEMMA MaxPair ==
  ASSUME NEW a \in Int, NEW b \in Int
  PROVE  Max({a, b}) = IF a <= b THEN b ELSE a
<1>1. PICK m : m = (IF a <= b THEN b ELSE a) /\ m \in Int
  OBVIOUS
<1>2. m \in {a, b} /\ \A y \in {a, b} : m >= y
  BY <1>1
<1>3. \A x \in {a, b} : (\A y \in {a, b} : x >= y) => x = m
  BY <1>1
<1>4. (CHOOSE x \in {a, b} : \A y \in {a, b} : x >= y) = m
  BY <1>2, <1>3
<1> QED BY <1>1, <1>4 DEF Max

\* At most one of the uncommitted extensions is of the sequence.
LEMMA OnePending ==
  ASSUME NEW n \in Nat, NEW u, DOMAIN u = 1..n, NEW tok, NEW s, NEW k \in Nat, NEW w \in Texts,
         \A i \in 1..n : Part(u[i], tok, s) = IF i = k THEN w ELSE <<>>
  PROVE  PendingOf(u, tok, s) = IF k \in 1..n THEN w ELSE <<>>
<1>1. PICK ss : ss = [i \in 1..n |-> Part(u[i], tok, s)]
  OBVIOUS
<1>2. ss \in [1..n -> Texts]
  <2>1. <<>> \in Texts
    BY DEF Texts
  <2> QED BY <1>1, <2>1
<1>3. \A i \in 1..n : ss[i] = IF i = k THEN w ELSE <<>>
  BY <1>1
<1>4. FlattenSeq(ss) = IF k \in 1..n THEN w ELSE <<>>
  BY <1>2, <1>3, FlattenOne
<1>5. PendingOf(u, tok, s) = FlattenSeq(ss)
  BY <1>1 DEF PendingOf
<1> QED BY <1>4, <1>5

\* None of the uncommitted extensions is of the sequence.
LEMMA NonePending ==
  ASSUME NEW n \in Nat, NEW u, DOMAIN u = 1..n, NEW tok, NEW s, \A i \in 1..n : Part(u[i], tok, s) = <<>>
  PROVE  PendingOf(u, tok, s) = <<>>
<1>1. PICK k \in Nat, w \in Texts : k = 0 /\ k \notin 1..n /\ w = <<>>
  <2>1. <<>> \in Texts
    BY DEF Texts
  <2> QED BY <2>1
<1>2. PICK ss : ss = [i \in 1..n |-> Part(u[i], tok, s)]
  OBVIOUS
<1>3. ss \in [1..n -> Texts]
  BY <1>1, <1>2
<1>4. \A i \in 1..n : ss[i] = IF i = k THEN w ELSE <<>>
  BY <1>1, <1>2
<1>5. FlattenSeq(ss) = IF k \in 1..n THEN w ELSE <<>>
  BY <1>3, <1>4, FlattenOne
<1>6. PendingOf(u, tok, s) = FlattenSeq(ss)
  BY <1>2 DEF PendingOf
<1> QED BY <1>1, <1>5, <1>6

\* What is told of a request are tokens.
LEMMA NewText ==
  ASSUME IInv, HInv, NEW r \in Requests
  PROVE  NewlyCached(r) \in Texts
<1>1. PICK pre \in Texts, com \in Texts : pre = req[r].prefilled /\ com = req[r].committed
  <2>1. \E busy : Entry(req[r], config.prompts[r], busy)
    BY DEF HInv, EntriesOK
  <2> QED BY <2>1 DEF Entry
<1>2. PICK h \in Nat : h = req[r].cached
  <2>1. \E busy : Entry(req[r], config.prompts[r], busy)
    BY DEF HInv, EntriesOK
  <2> QED BY <2>1 DEF Entry
<1>3. PICK l \in Nat : l = Len(com) /\ \A i \in 1..l : com[i] \in Tokens
  BY DEF Texts
<1>4. h + 1 \in Int /\ l - 1 \in Int /\ \A i \in (h + 1)..(l - 1) : com[i] \in Tokens
  BY <1>3
<1>5. SubSeq(com, h + 1, l - 1) \in Texts
  BY <1>4, SubSeqProperties DEF Texts
<1>6. NewlyCached(r) = pre \o SubSeq(com, h + 1, l - 1)
  BY <1>1, <1>2, <1>3 DEF NewlyCached
<1> QED BY <1>5, <1>6, JoinFacts

\* A request entry after the prefix cache has been told of it.
Told(r) == [req[r] EXCEPT !.prefilled = <<>>, !.cached = Max({@, Len(req[r].committed) - 1})]

\* A request of the batch when the prefix cache has been told of it.
LEMMA ToldFacts ==
  ASSUME IInv, HInv, pc = "post", NEW r \in Requests, r \in InBatch, NEW e, e = Told(r)
  PROVE  /\ Entry(e, config.prompts[r], FALSE) /\ e.status = "kAlive" /\ req[r].status = "kAlive" /\ e.id = req[r].id
         /\ Context(e, kv[e.id], config.prompts[r])
<1>1. DOMAIN req[r] = EntryFields
  BY DEF IInv, TypeOK, Entries
<1>2. req[r].status = "kAlive"
  BY DEF IInv, BatchAlive, InBatch
<1>3. Entry(req[r], config.prompts[r], TRUE)
  <2>1. (pc = "post" /\ r \in ToSet(batch)) = TRUE
    BY DEF InBatch
  <2> QED BY <2>1 DEF HInv, EntriesOK
<1>4. PICK inp \in Texts, com \in Texts : inp = req[r].inputs /\ com = req[r].committed
  BY <1>3 DEF Entry
<1>5. PICK h \in Nat : h = req[r].cached
  BY <1>3 DEF Entry
<1>6. PICK l \in Nat : l = Len(com)
  BY DEF Texts
<1>7. PICK m : m = Max({h, l - 1})
  OBVIOUS
<1>8. /\ e.status = "kAlive" /\ e.id = req[r].id /\ e.inputs = inp /\ e.prefilled = <<>> /\ e.committed = com
      /\ e.cached = m
  BY <1>1, <1>2, <1>4, <1>5, <1>6, <1>7 DEF Told, EntryFields
<1>9. m = IF h <= l - 1 THEN l - 1 ELSE h
  BY <1>7, MaxPair
<1>10. <<>> \in Texts
  BY DEF Texts
<1>11. Entry(e, config.prompts[r], FALSE)
  <2>1. CASE inp = <<>>
    <3>1. com # <<>> /\ h < l
      BY <1>2, <1>3, <1>4, <1>5, <1>6, <2>1 DEF Entry
    <3>2. m = l - 1 /\ m \in Nat /\ m < l
      BY <1>9, <3>1
    <3> QED BY <1>6, <1>8, <1>10, <2>1, <3>1, <3>2 DEF Entry
  <2>2. CASE inp # <<>>
    <3>1. com = <<>> /\ h = 0
      BY <1>2, <1>3, <1>4, <1>5, <2>2 DEF Entry
    <3>2. l = 0
      BY <1>6, <3>1
    <3>3. m = 0
      BY <1>9, <3>1, <3>2
    <3> QED BY <1>8, <1>10, <2>2, <3>1, <3>3 DEF Entry
  <2> QED BY <2>1, <2>2
<1>12. Context(req[r], kv[req[r].id], config.prompts[r])
  BY <1>2 DEF HInv, Contexts
<1>13. Context(e, kv[e.id], config.prompts[r])
  BY <1>4, <1>8, <1>12 DEF Context
<1> QED BY <1>2, <1>8, <1>11, <1>13

\* The prefix cache is told.
LEMMA PostProcessTexts ==
  ASSUME IInv, HInv, ActionStepPostProcess
  PROVE  HInv'
<1>1. PICK told : told = InOrder(batch, {r \in Requests : NewlyCached(r) # <<>>})
  OBVIOUS
<1>2. PICK news : news = [i \in DOMAIN told |-> <<req[told[i]].id, told[i]>>]
  OBVIOUS
<1>3. /\ config' = config /\ kv' = kv /\ pc = "post"
      /\ token_ids' = [r \in Requests |-> IF r \in InBatch THEN NewlyCached(r) ELSE token_ids[r]]
      /\ cache' = [cache EXCEPT !.uncommitted = @ \o news]
      /\ req' = [r \in Requests |-> IF r \notin InBatch THEN req[r] ELSE Told(r)]
  BY <1>1, <1>2, Zenon DEF ActionStepPostProcess, Told
<1>4. pc' # "post"
  BY DEF ActionStepPostProcess
<1>5. /\ batch \in Seq(Requests) /\ Distinct(batch) /\ InBatch \subseteq Requests
      /\ \A r \in InBatch : req[r].status = "kAlive"
  BY <1>3, ToSetFacts DEF IInv, TypeOK, BatchAlive, InBatch
<1>6. /\ told \in Seq(Requests) /\ Distinct(told)
      /\ \A r : r \in ToSet(told) <=> r \in InBatch /\ r \in Requests /\ NewlyCached(r) # <<>>
  <2>1. PICK W : W = {r \in Requests : NewlyCached(r) # <<>>}
    OBVIOUS
  <2>2. told = InOrder(batch, W)
    BY <1>1, <2>1
  <2>3. /\ told \in Seq(Requests) /\ Distinct(told)
        /\ \A x : x \in ToSet(told) <=> x \in ToSet(batch) /\ x \in W
    BY <1>5, <2>2, InOrderFacts
  <2> QED BY <2>1, <2>3 DEF InBatch
<1>7. PICK n \in Nat : n = Len(told) /\ DOMAIN told = 1..n
  BY <1>6
<1>8. DOMAIN news = 1..n /\ \A i \in 1..n : news[i] = <<req[told[i]].id, told[i]>>
  BY <1>2, <1>7
<1>9. cache.uncommitted = <<>>
  BY <1>3 DEF HInv, Texted, Held
<1>10. cache'.tree = cache.tree /\ cache'.uncommitted = news
  <2>1. DOMAIN cache = CacheFields
    BY DEF IInv, Knows
  <2>2. cache'.tree = cache.tree /\ cache'.uncommitted = <<>> \o news
    BY <1>3, <1>9, <2>1 DEF CacheFields
  <2>3. news \in Seq(Int \X Requests)
    <3>1. Entries(req)
      BY DEF IInv, TypeOK
    <3>2. \A i \in 1..n : told[i] \in Requests /\ req[told[i]].id \in Int
      BY <1>6, <1>7, <3>1 DEF Entries
    <3> QED BY <1>2, <1>7, <3>2
  <2>4. <<>> \o news = news
    BY <2>3, ConcatEmptySeq
  <2> QED BY <2>2, <2>4
<1>11. token_ids' \in [Requests -> Texts]
  <2>1. token_ids \in [Requests -> Texts]
    BY DEF HInv, Texted
  <2> QED BY <1>3, <2>1, NewText
<1>12. PICK tok \in [Requests -> Texts] : tok = token_ids' /\ \A r \in InBatch : tok[r] = NewlyCached(r)
  BY <1>3, <1>5, <1>11
<1>13. ASSUME NEW i \in 1..n
       PROVE  told[i] \in InBatch /\ told[i] \in Requests /\ NewlyCached(told[i]) # <<>>
  <2>1. told[i] \in ToSet(told)
    BY <1>7 DEF ToSet
  <2> QED BY <1>6, <2>1
<1>14. \A s : \A i \in 1..n : Part(news[i], tok, s) = IF req[told[i]].id = s THEN NewlyCached(told[i]) ELSE <<>>
  BY <1>8, <1>12, <1>13 DEF Part
<1>15. ASSUME NEW r \in InBatch PROVE PendingOf(news, tok, req[r].id) = NewlyCached(r)
  <2>1. r \in Requests /\ req[r].status = "kAlive"
    BY <1>5
  <2>2. PICK w \in Texts : w = NewlyCached(r)
    BY <2>1, NewText
  <2>3. \A i \in 1..n : req[told[i]].id = req[r].id => told[i] = r
    BY <1>5, <1>13, <2>1, OwnSequence
  <2>4. PICK s : s = req[r].id
    OBVIOUS
  <2>5. CASE w # <<>>
    <3>1. r \in ToSet(told)
      BY <1>6, <2>1, <2>2, <2>5
    <3>2. PICK k \in 1..n : told[k] = r
      BY <1>7, <3>1 DEF ToSet
    <3>3. \A i \in 1..n : told[i] = r => i = k
      BY <1>6, <1>7, <3>2 DEF Distinct
    <3>4. \A i \in 1..n : Part(news[i], tok, s) = IF i = k THEN w ELSE <<>>
      BY <1>14, <2>2, <2>3, <2>4, <3>2, <3>3
    <3>5. PendingOf(news, tok, s) = w
      BY <1>8, <3>4, OnePending
    <3> QED BY <2>2, <2>4, <3>5
  <2>6. CASE w = <<>>
    <3>1. \A i \in 1..n : told[i] # r
      BY <1>13, <2>2, <2>6
    <3> PICK k \in Nat : k = 0 /\ k \notin 1..n
      OBVIOUS
    <3>2. \A i \in 1..n : Part(news[i], tok, s) = IF i = k THEN w ELSE <<>>
      BY <1>14, <2>3, <2>4, <3>1
    <3>3. PendingOf(news, tok, s) = <<>>
      BY <1>8, <3>2, OnePending
    <3> QED BY <2>2, <2>4, <2>6, <3>3
  <2> QED BY <2>5, <2>6
<1>16. ASSUME NEW s, \A r \in InBatch : req[r].id # s PROVE PendingOf(news, tok, s) = <<>>
  <2>1. \A i \in 1..n : Part(news[i], tok, s) = <<>>
    BY <1>13, <1>14, <1>16
  <2>2. DOMAIN news = 1..n
    BY <1>8
  <2> QED BY <2>1, <2>2, NonePending
<1>17. /\ \A r \in InBatch : kv[req[r].id] = GetSequence(cache.tree, req[r].id) \o NewlyCached(r)
       /\ \A s \in DOMAIN kv : (\A r \in InBatch : req[r].id # s) => kv[s] = GetSequence(cache.tree, s)
       /\ kv \in [DOMAIN kv -> Texts] /\ IsTree(cache.tree)
  BY <1>3 DEF HInv, Texted, Held, InBatch
<1>18. ASSUME NEW s \in DOMAIN kv
       PROVE  kv[s] = GetSequence(cache.tree, s) \o PendingOf(news, tok, s)
  <2>1. CASE \E r \in InBatch : req[r].id = s
    <3>1. PICK r \in InBatch : req[r].id = s
      BY <2>1
    <3>2. PendingOf(news, tok, s) = NewlyCached(r)
      BY <1>15, <3>1
    <3> QED BY <1>17, <3>1, <3>2
  <2>2. CASE \A r \in InBatch : req[r].id # s
    <3>1. PendingOf(news, tok, s) = <<>>
      BY <1>16, <2>2
    <3>2. PICK a \in Texts : a = kv[s] /\ a = GetSequence(cache.tree, s)
      BY <1>17, <2>2
    <3> QED BY <3>1, <3>2, JoinEmpty
  <2> QED BY <2>1, <2>2
<1>19. Held'
  <2>1. ASSUME NEW s \in DOMAIN kv'
        PROVE  kv'[s] = GetSequence(cache'.tree, s) \o PendingOf(cache'.uncommitted, token_ids', s)
    BY <1>3, <1>10, <1>12, <1>18
  <2> QED BY <1>4, <2>1 DEF Held
<1>20. Texted'
  BY <1>3, <1>10, <1>11, <1>17, <1>19 DEF Texted
<1>21. ASSUME NEW r \in Requests
       PROVE  /\ Entry(req'[r], config.prompts[r], FALSE)
              /\ req'[r].status = "kAlive" => Context(req'[r], kv[req'[r].id], config.prompts[r])
  <2>1. CASE r \in InBatch
    <3>1. PICK e : e = Told(r)
      OBVIOUS
    <3>2. req'[r] = e
      BY <1>3, <2>1, <3>1
    <3> QED BY <1>3, <2>1, <3>1, <3>2, ToldFacts
  <2>2. CASE r \notin InBatch
    <3>1. (pc = "post" /\ r \in ToSet(batch)) = FALSE
      BY <2>2 DEF InBatch
    <3>2. req'[r] = req[r]
      BY <1>3, <2>2
    <3> QED BY <3>1, <3>2 DEF HInv, EntriesOK, Contexts
  <2> QED BY <2>1, <2>2
<1>22. EntriesOK'
  <2>1. \A r : (pc' = "post" /\ r \in ToSet(batch')) = FALSE
    BY <1>4
  <2> QED BY <1>3, <1>21, <2>1 DEF EntriesOK
<1>23. Contexts'
  BY <1>3, <1>21 DEF Contexts
<1> QED BY <1>20, <1>22, <1>23 DEF HInv
\* Every step keeps what the caches hold.
LEMMA NextTexts ==
  ASSUME ~PreemptDecoding, IInv, HInv, [Next]_vars
  PROVE  HInv'
<1>1. CASE UNCHANGED vars
  <2>1. /\ config' = config /\ cache' = cache /\ token_ids' = token_ids /\ kv' = kv /\ req' = req /\ pc' = pc
        /\ batch' = batch
    BY <1>1 DEF vars
  <2>2. \A r : NewlyCached(r)' = NewlyCached(r)
    BY <2>1 DEF NewlyCached
  <2>3. Held'
    BY <2>1, <2>2 DEF HInv, Texted, Held
  <2>4. Texted'
    BY <2>1, <2>3 DEF HInv, Texted
  <2>5. EntriesOK' /\ Contexts'
    BY <2>1 DEF HInv, EntriesOK, Contexts
  <2> QED BY <2>4, <2>5 DEF HInv
<1>2. CASE SelectPrefill \/ SelectDecode
  <2>1. pc = "idle" /\ pc' = "match" /\ UNCHANGED <<config, cache, token_ids, kv, idVars, req, interrupts>>
    BY <1>2 DEF SelectPrefill, SelectDecode
  <2> QED BY <2>1, SelectTexts
<1>3. CASE Forward
  BY <1>3, ForwardTexts
<1>4. CASE ActionStepPostProcess
  BY <1>4, PostProcessTexts
<1>5. CASE Finish
  BY <1>5, FinishTexts
<1>6. CASE \E r \in Requests : MatchReuse(r) \/ MatchFork(r) \/ MatchNothing(r)
  BY <1>6, MatchReuseTexts, MatchForkTexts, MatchNothingTexts
<1>7. CASE TryFreeMemory
  BY <1>7, TryFreeMemoryTexts
<1>8. CASE Reset
  BY <1>8, ResetTexts
<1>9. CASE \E r \in Requests : AddRequest(r) \/ AbortRequest(r) \/ Preempt(r)
  BY <1>9, AddRequestTexts, AbortRequestTexts, PreemptTexts
<1> QED BY <1>1, <1>2, <1>3, <1>4, <1>5, <1>6, <1>7, <1>8, <1>9 DEF Next, Step

\* The two invariants together are inductive.
LEMMA TextsInvariant ==
  ASSUME ~PreemptDecoding
  PROVE  Spec => [](IInv /\ HInv)
<1>1. Init => IInv /\ HInv
  BY InitInv, InitTexts
<1>2. IInv /\ HInv /\ [Next]_vars => IInv' /\ HInv'
  BY NextInv, NextTexts
<1> QED BY <1>1, <1>2, PTL DEF Spec

\* Where requests that have generated tokens are not preempted, the prefix cache
\* holds, with what it has not committed yet, exactly the tokens of each sequence
\* that are in the KV cache, whatever is matched, forked, taken over, rolled back,
\* evicted, aborted or reset (prefix_cache.cc, paged_radix_tree.cc).
THEOREM CacheHoldsKV ==
  ASSUME ~PreemptDecoding
  PROVE  Spec => []TreeHoldsKV
<1>1. IInv /\ HInv => TreeHoldsKV
  BY HInvImplies
<1> QED BY <1>1, TextsInvariant, PTL

\* Where requests that have generated tokens are not preempted, a request computes
\* on its own prompt and its own generated tokens only, also what it has forked or
\* taken over from another (MatchPrefixCache in batch_prefill_base.cc).
THEOREM ContextsAreOwn ==
  ASSUME ~PreemptDecoding
  PROVE  Spec => []ContextIsOwn
<1>1. IInv /\ HInv => ContextIsOwn
  BY HInvImplies
<1> QED BY <1>1, TextsInvariant, PTL

=============================================================================
