----------------------------- MODULE RadixTree -----------------------------
(***************************************************************************)
(* The paged radix tree (cpp/serve/radix_tree.cc): the token sequences of  *)
(* the prefix cache, with common prefixes stored once in pages of limited  *)
(* capacity.  A tree is a value: its pages, each with its parent, its      *)
(* tokens and the ids of the sequences that end with it, and seq2page.     *)
(* The operations are pure, a new tree for each call of the code.          *)
(*                                                                         *)
(* Pages of the pool are numbers, the smallest free one is allocated; the  *)
(* order of siblings and of ids in a page, and the circular buffer a page  *)
(* keeps its tokens in, are left out.                                      *)
(***************************************************************************)
EXTENDS Queues, FiniteSetsExt

CONSTANTS
  PageCapacity,      \* kPageCapacity_, tokens in a page
  Tokens             \* the tokens

ASSUME CapacityAssumption == PageCapacity \in Nat \ {0}

root == 0
EmptyTree ==
  [pages |-> [p \in {root} |-> [parent |-> root, tokens |-> <<>>, seq_ids |-> {}]],
   seq2page |-> [s \in {} |-> root]]

Length(t, p) == Len(t.pages[p].tokens)
Capacity(p) == IF p = root THEN 0 ELSE PageCapacity
Children(t, p) == {q \in DOMAIN t.pages \ {root} : t.pages[q].parent = p}
HasSequence(t, s) == s \in DOMAIN t.seq2page

\* The pages from p up to the root, without the root.
Ancestors(t, p) ==
  LET up[q \in DOMAIN t.pages] == IF q = root THEN <<>> ELSE <<q>> \o up[t.pages[q].parent]
  IN  up[p]
\* The tokens on the way from the root to p.
PathTokens(t, p) ==
  LET down[q \in DOMAIN t.pages] == IF q = root THEN <<>> ELSE down[t.pages[q].parent] \o t.pages[q].tokens
  IN  down[p]
GetSequence(t, s) == PathTokens(t, t.seq2page[s])
GetSequenceLength(t, s) == Len(GetSequence(t, s))

Allocate(t) == Min((1..(Cardinality(DOMAIN t.pages) + 1)) \ DOMAIN t.pages)
Restricted(f, S) == [x \in S |-> f[x]]
\* The same sequences at other pages.
WithPages(t, pages) == [pages |-> pages, seq2page |-> t.seq2page]

\* AddSequence of a page, and PopSequence.
AddToPage(t, p, s) ==
  [pages |-> [t.pages EXCEPT ![p].seq_ids = @ \cup {s}],
   seq2page |-> [x \in DOMAIN t.seq2page \cup {s} |-> IF x = s THEN p ELSE t.seq2page[x]]]
PopSequence(t, s) ==
  [pages |-> [t.pages EXCEPT ![t.seq2page[s]].seq_ids = @ \ {s}],
   seq2page |-> Restricted(t.seq2page, DOMAIN t.seq2page \ {s})]
\* The tree with a new child of p, and the child.
InsertChild(t, p, tokens) ==
  LET c == Allocate(t)
      child == [parent |-> p, tokens |-> tokens, seq_ids |-> {}]
  IN  [tree |-> WithPages(t, [q \in DOMAIN t.pages \cup {c} |-> IF q = c THEN child ELSE t.pages[q]]),
       page |-> c]
-----------------------------------------------------------------------------
(* A page that holds no sequence and has one child that fits is merged.    *)

Mergeable(t, p) ==
  /\ t.pages[p].seq_ids = {}
  /\ \E c \in Children(t, p) :
       Children(t, p) = {c} /\ Length(t, p) + Length(t, c) <= Capacity(p)

MergePage(t, p) ==
  LET c == CHOOSE c \in Children(t, p) : TRUE
      page(q) ==
        CASE q = p -> [t.pages[p] EXCEPT !.tokens = @ \o t.pages[c].tokens, !.seq_ids = t.pages[c].seq_ids]
          [] t.pages[q].parent = c -> [t.pages[q] EXCEPT !.parent = p]
          [] OTHER -> t.pages[q]
  IN  [pages |-> [q \in DOMAIN t.pages \ {c} |-> page(q)],
       seq2page |-> [s \in DOMAIN t.seq2page |-> IF t.seq2page[s] = c THEN p ELSE t.seq2page[s]]]
MergeIfPossible(t, p) == IF Mergeable(t, p) THEN MergePage(t, p) ELSE t

\* The tree with p merged into its parent if that can take it, and where p is now.
MergeUp(t, p, parent) ==
  [tree |-> MergeIfPossible(t, parent), page |-> IF Mergeable(t, parent) THEN parent ELSE p]

\* Mutant: the sequences of the page stay at its first half.
SplitPageKeeping(t, p, offset) ==
  LET c == Allocate(t)
      page(q) ==
        CASE q = p -> [t.pages[p] EXCEPT !.tokens = SubSeq(@, 1, offset)]
          [] q = c -> [parent |-> p, tokens |-> SubSeq(t.pages[p].tokens, offset + 1, Length(t, p)), seq_ids |-> {}]
          [] q \in Children(t, p) -> [t.pages[q] EXCEPT !.parent = c]
          [] OTHER -> t.pages[q]
  IN  [tree |-> WithPages(t, [q \in DOMAIN t.pages \cup {c} |-> page(q)]), page |-> p]

\* The page up to the offset, and a child with the rest, its sequences and its
\* children.
Halved(t, p, offset) ==
  LET c == Allocate(t)
      page(q) ==
        CASE q = p -> [t.pages[p] EXCEPT !.tokens = SubSeq(@, 1, offset), !.seq_ids = {}]
          [] q = c -> [parent |-> p, tokens |-> SubSeq(t.pages[p].tokens, offset + 1, Length(t, p)),
                       seq_ids |-> t.pages[p].seq_ids]
          [] q \in Children(t, p) -> [t.pages[q] EXCEPT !.parent = c]
          [] OTHER -> t.pages[q]
  IN  [pages |-> [q \in DOMAIN t.pages \cup {c} |-> page(q)],
       seq2page |-> [s \in DOMAIN t.seq2page |-> IF t.seq2page[s] = p THEN c ELSE t.seq2page[s]]]
\* The tree, and the page that ends at the offset: the page itself, or its
\* parent when that could take it.
SplitPage(t, p, offset) ==
  MergeUp(MergeIfPossible(Halved(t, p, offset), Allocate(t)), p, t.pages[p].parent)
-----------------------------------------------------------------------------
\* RadixPage::MatchPrefix: the length of the common prefix of two sequences.
CommonPrefix(a, b) ==
  Max({n \in 0..Min({Len(a), Len(b)}) : \A i \in 1..n : a[i] = b[i]})

\* MatchSequence: where the walk down from page p ends, how many tokens it has
\* matched and how many of them in the last page.
MatchSequence(t, p, tokens) ==
  LET rest(n) == SubSeq(tokens, n + 1, Len(tokens))
      walk[x \in (DOMAIN t.pages) \X (0..Len(tokens))] ==
        LET next == {c \in Children(t, x[1]) : x[2] < Len(tokens) /\ t.pages[c].tokens[1] = tokens[x[2] + 1]}
            child == CHOOSE c \in next : TRUE
            matched == CommonPrefix(t.pages[child].tokens, rest(x[2]))
        IN  IF next = {} THEN [page |-> x[1], offset |-> x[2], in_page |-> Length(t, x[1])]
            ELSE IF matched < Length(t, child)
                 THEN [page |-> child, offset |-> x[2] + matched, in_page |-> matched]
                 ELSE walk[<<child, x[2] + matched>>]
  IN  walk[<<p, 0>>]

\* Mutant: only the sequences that end with the page.
BelowLocal(t, p) == t.pages[p].seq_ids
\* FindAllChildSequence
Below(t, p) == {s \in DOMAIN t.seq2page : p \in {root} \cup ToSet(Ancestors(t, t.seq2page[s]))}
MatchPrefix(t, tokens) ==
  LET m == MatchSequence(t, root, tokens)
  IN  [offset |-> m.offset, seqs |-> IF m.offset = 0 THEN {} ELSE Below(t, m.page)]
-----------------------------------------------------------------------------
AddSequence(t, s) == AddToPage(t, root, s)
AddAt(at, s) == AddToPage(at.tree, at.page, s)
SplitWithin(t, p, offset) ==
  IF offset < Length(t, p) THEN SplitPage(t, p, offset) ELSE [tree |-> t, page |-> p]

\* The page on the way to the parent sequence that contains the offset takes
\* the new sequence, split if the offset is inside it.
ForkSequence(t, s, parent, offset) ==
  LET start(q) == Len(PathTokens(t, q)) - Length(t, q)
      p == CHOOSE q \in ToSet(Ancestors(t, t.seq2page[parent])) :
             start(q) < offset /\ offset <= start(q) + Length(t, q)
  IN  AddAt(SplitWithin(t, p, offset - start(p)), s)

Unused(t, p) == t.pages[p].seq_ids = {} /\ Children(t, p) = {}
\* What a leaf that no sequence ends with still takes of the tokens.
Room(t, p, tokens) ==
  IF Unused(t, p) THEN Min({Capacity(p) - Length(t, p), Len(tokens)}) ELSE 0
\* The tokens in pages of their own, each the child of the one before.
AppendPages(at, tokens) ==
  LET chunk(i) == SubSeq(tokens, (i - 1) * PageCapacity + 1, Min({i * PageCapacity, Len(tokens)}))
      num == (Len(tokens) + PageCapacity - 1) \div PageCapacity
      after[i \in 0..num] ==
        IF i = 0 THEN at ELSE InsertChild(after[i - 1].tree, after[i - 1].page, chunk(i))
  IN  [tree |-> WithPages(at.tree, after[num].tree.pages), page |-> after[num].page]
AppendTokens(at, tokens) ==
  LET room == Room(at.tree, at.page, tokens)
      filled == WithPages(at.tree, [at.tree.pages EXCEPT ![at.page].tokens = @ \o SubSeq(tokens, 1, room)])
  IN  AppendPages([tree |-> filled, page |-> at.page], SubSeq(tokens, room + 1, Len(tokens)))
ExtendFrom(t, m, tokens) ==
  AppendTokens(SplitWithin(t, m.page, m.in_page), SubSeq(tokens, m.offset + 1, Len(tokens)))
ExtendSequence(t, s, tokens) ==
  LET original == t.seq2page[s]
      popped == PopSequence(t, s)
  IN  MergeIfPossible(AddAt(ExtendFrom(popped, MatchSequence(popped, original, tokens), tokens), s), original)

\* Pages that hold no sequence any more are freed, from a leaf upwards.
FreePages(t, chain) ==
  LET freed[i \in 0..Len(chain)] ==
        IF i = 0 THEN t
        ELSE IF Unused(freed[i - 1], chain[i])
             THEN WithPages(t, Restricted(freed[i - 1].pages, DOMAIN freed[i - 1].pages \ {chain[i]}))
             ELSE freed[i - 1]
  IN  WithPages(t, freed[Len(chain)].pages)

RemoveSequence(t, s) ==
  LET chain == Ancestors(t, t.seq2page[s])
      freed == FreePages(PopSequence(t, s), chain)
      kept == InOrder(chain, DOMAIN freed.pages)
  IN  MergeIfPossible(freed, IF kept = <<>> THEN root ELSE Head(kept))

\* A leaf that only this sequence uses is cut, any other page is split.
CutPage(t, p, keep) ==
  IF Unused(t, p)
  THEN [tree |-> WithPages(t, [t.pages EXCEPT ![p].tokens = SubSeq(@, 1, keep)]), page |-> p]
  ELSE SplitWithin(t, p, keep)

\* The pages beyond the new end are left, then the page it is in is cut.
RollBackSequence(t, s, num_tokens) ==
  LET chain == Ancestors(t, t.seq2page[s])
      end == GetSequenceLength(t, s) - num_tokens
      start(p) == Len(PathTokens(t, p)) - Length(t, p)
      i == CHOOSE i \in 1..Len(chain) :
             start(chain[i]) < end /\ end <= start(chain[i]) + Length(t, chain[i])
  IN  IF end = 0 THEN AddSequence(RemoveSequence(t, s), s)
      ELSE AddAt(CutPage(FreePages(PopSequence(t, s), SubSeq(chain, 1, i - 1)), chain[i], end - start(chain[i])), s)
=============================================================================
