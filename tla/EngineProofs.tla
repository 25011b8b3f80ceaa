---------------------------- MODULE EngineProofs ----------------------------
(***************************************************************************)
(* Proofs about Engine.  For every deployment: types, the freshness of the *)
(* cached list of running entries, and usage (Shape is inductive).  For    *)
(* deployments whose requests ask for one generation: ids, queues, the KV  *)
(* cache and the order in which requests start (IInv is inductive), the    *)
(* limits (with LInv), and, where the KV cache can hold one sequence of    *)
(* any length, the checks of the scheduler (with FInv).                    *)
(***************************************************************************)
EXTENDS Engine, QueueFacts

Statuses == {"kPending", "kAlive", "kFinished"}
EntryType == [status : Statuses, id : Nat, inputs : Nat, committed : Nat,
              num_tokens_for_next_decode : Nat, next_callback_token_pos : Nat]
Pairs == UNION {{r} \X (1..NumEntries(r)) : r \in Requests}
InputType == [rsentry : Pairs, len : Nat, children : Nat, isDecode : BOOLEAN]
PrefillType == [todo : Seq(Pairs), chosen : Seq(InputType), totalInput : Nat, pages : Nat, num : Nat]
Locations == {"idle", "select", "jumpForward", "decode", "finish", "failed"}

\* One tree of request state entries for each request that has a state.
Trees(es) ==
  /\ DOMAIN es = Requests
  /\ \A r \in Requests : es[r] \in IF r \in request_states THEN [1..NumEntries(r) -> EntryType]
                                   ELSE {<<>>}

EntriesOK == Trees(entries)

QueuesOK ==
  /\ request_states \subseteq submitted
  /\ submitted \subseteq Requests
  /\ running_queue \in Seq(Requests)
  /\ ToSet(running_queue) \subseteq request_states
  /\ waiting_queue \in Seq(Requests)

StepOK ==
  /\ available_ids \in Seq(Nat)
  /\ id_cnt \in Nat
  /\ kv \in [DOMAIN kv -> Nat] /\ DOMAIN kv \subseteq Nat
  /\ running_rsentries_changed \in BOOLEAN
  /\ cached_running_rsentries_ \in Seq(Pairs)
  /\ running_rsentries \in Seq(Pairs)
  /\ finished_rsentries \in Seq(Pairs)
  /\ enginePc \in Locations
  /\ enginePc = "finish" => finished_rsentries # <<>>
  /\ prefill \in PrefillType
  /\ usage \in [Requests -> Nat]

TypeOK == deployment \in Deployments /\ EntriesOK /\ QueuesOK /\ StepOK

\* While entries are selected the cached list is current, and what is chosen has the input
\* that is prefilled.
Selected ==
  enginePc = "select" =>
    /\ ~running_rsentries_changed
    /\ \A x \in ToSet(prefill.todo) : x \in AllEntries /\ Entry(x).inputs > 0
    /\ \A p \in ToSet(prefill.chosen) :
         p.rsentry \in AllEntries /\ p.len \in 1..Entry(p.rsentry).inputs /\ ~p.isDecode

Shape == TypeOK /\ Selected /\ CacheIsFresh

-----------------------------------------------------------------------------
(* What is served.                                                         *)

\* A deployment gives the requests lengths and numbers of generations, and the engine limits.
LEMMA DeploymentFacts ==
  ASSUME deployment \in Deployments
  PROVE  /\ PromptTokens \in [Requests -> Nat \ {0}]
         /\ N \in [Requests -> Nat \ {0}]
         /\ Abortable \subseteq Requests
         /\ ChunkSize \in Nat /\ ChunkSize > 0
         /\ PageSize \in Nat /\ PageSize > 0
         /\ Hybrid \in BOOLEAN /\ Disaggregation \in BOOLEAN
BY DeploymentsAssumption DEF PromptTokens, N, Requests, Abortable, ChunkSize, PageSize, Hybrid,
   Disaggregation

\* The deployment stays, and with it what depends on it alone.
LEMMA DeploymentFixed ==
  ASSUME deployment' = deployment
  PROVE  /\ Requests' = Requests /\ PromptTokens' = PromptTokens /\ N' = N
         /\ Pairs' = Pairs /\ InputType' = InputType /\ PrefillType' = PrefillType
         /\ \A r : NumEntries(r)' = NumEntries(r) /\ Leaves(r)' = Leaves(r)
BY DEF Requests, PromptTokens, N, Pairs, InputType, PrefillType, NumEntries, Leaves, NumChildren

\* A request has at least one entry, and a leaf is an entry.
LEMMA NumEntriesFacts ==
  ASSUME deployment \in Deployments, NEW r \in Requests
  PROVE  /\ NumEntries(r) \in Nat \ {0}
         /\ Leaves(r) \subseteq 1..NumEntries(r)
         /\ \A i \in 1..NumEntries(r) : NumChildren(r, i) \in Nat
<1>1. N[r] \in Nat \ {0}
  BY DeploymentFacts
<1>2. NumEntries(r) \in Nat \ {0}
  BY <1>1 DEF NumEntries
<1> QED BY <1>1, <1>2 DEF Leaves, NumChildren

\* The entries of a request with a state, and of one without.
LEMMA EntryFacts ==
  ASSUME deployment \in Deployments, EntriesOK, NEW r \in Requests
  PROVE  /\ r \in request_states =>
              /\ DOMAIN entries[r] = 1..NumEntries(r)
              /\ 1 \in DOMAIN entries[r]
              /\ \A i \in DOMAIN entries[r] : entries[r][i] \in EntryType
         /\ r \notin request_states => entries[r] = <<>> /\ DOMAIN entries[r] = {}
         /\ \E n \in Nat : DOMAIN entries[r] = 1..n
         /\ \A i \in DOMAIN entries[r] : i \in Nat \ {0} /\ <<r, i>> \in Pairs
<1>1. NumEntries(r) \in Nat \ {0}
  BY NumEntriesFacts
<1>2. CASE r \in request_states
  <2>1. entries[r] \in [1..NumEntries(r) -> EntryType]
    BY <1>2 DEF EntriesOK, Trees
  <2>2. DOMAIN entries[r] = 1..NumEntries(r) /\ \A i \in DOMAIN entries[r] : entries[r][i] \in EntryType
    BY <2>1
  <2>3. \A i \in 1..NumEntries(r) : i \in Nat \ {0} /\ <<r, i>> \in Pairs
    BY <1>1 DEF Pairs
  <2>4. 1 \in 1..NumEntries(r)
    BY <1>1
  <2> QED BY <1>1, <1>2, <2>2, <2>3, <2>4
<1>3. CASE r \notin request_states
  <2>1. entries[r] = <<>>
    BY <1>3 DEF EntriesOK, Trees
  <2>2. DOMAIN entries[r] = 1..0
    BY <2>1
  <2> QED BY <1>3, <2>1, <2>2
<1> QED BY <1>2, <1>3

\* The members of AllEntries.
LEMMA AllEntriesFacts ==
  ASSUME deployment \in Deployments, EntriesOK
  PROVE  /\ \A x : x \in AllEntries <=> \E r \in Requests : \E i \in DOMAIN entries[r] : x = <<r, i>>
         /\ \A x \in AllEntries : /\ x = <<x[1], x[2]>> /\ x \in Pairs
                                  /\ x[1] \in Requests /\ x[1] \in request_states
                                  /\ x[2] \in DOMAIN entries[x[1]]
                                  /\ x[2] \in 1..NumEntries(x[1])
                                  /\ Entry(x) \in EntryType
<1>1. \A x : x \in AllEntries <=> \E r \in Requests : \E i \in DOMAIN entries[r] : x = <<r, i>>
  BY DEF AllEntries
<1>2. ASSUME NEW x \in AllEntries
      PROVE  /\ x = <<x[1], x[2]>> /\ x \in Pairs /\ x[1] \in Requests /\ x[1] \in request_states
             /\ x[2] \in DOMAIN entries[x[1]] /\ x[2] \in 1..NumEntries(x[1]) /\ Entry(x) \in EntryType
  <2>1. PICK r \in Requests : \E i \in DOMAIN entries[r] : x = <<r, i>>
    BY <1>1, <1>2
  <2>2. PICK i \in DOMAIN entries[r] : x = <<r, i>>
    BY <2>1
  <2>3. r \in request_states
    BY EntryFacts
  <2>4. DOMAIN entries[r] = 1..NumEntries(r) /\ entries[r][i] \in EntryType /\ <<r, i>> \in Pairs
    BY <2>3, EntryFacts
  <2> QED BY <2>2, <2>3, <2>4 DEF Entry
<1> QED BY <1>1, <1>2

-----------------------------------------------------------------------------
(* EntriesOf.                                                              *)

\* EntriesOf selects the entries in S of the requests of the queue.
LEMMA EntriesOfFacts ==
  ASSUME NEW R, NEW queue \in Seq(R), NEW es, NEW S,
         \A r \in ToSet(queue) : \E n \in Nat : DOMAIN es[r] = 1..n
  PROVE  /\ EntriesOf(queue, es, S) \in Seq(R \X (Nat \ {0}))
         /\ \A x : x \in ToSet(EntriesOf(queue, es, S)) <=>
              x \in S /\ \E r \in ToSet(queue) : \E i \in DOMAIN es[r] : x = <<r, i>>
         /\ Distinct(queue) => Distinct(EntriesOf(queue, es, S))
<1> DEFINE ss == [q \in DOMAIN queue |-> [i \in DOMAIN es[queue[q]] |-> <<queue[q], i>>]]
           A == R \X (Nat \ {0})
<1>1. PICK n \in Nat : n = Len(queue) /\ DOMAIN queue = 1..n
  OBVIOUS
<1>2. \A q \in 1..n : queue[q] \in ToSet(queue) /\ queue[q] \in R
  BY <1>1 DEF ToSet
<1>3. ASSUME NEW q \in 1..n
      PROVE  /\ ss[q] \in Seq(A)
             /\ Distinct(ss[q])
             /\ \A x : x \in ToSet(ss[q]) <=> \E i \in DOMAIN es[queue[q]] : x = <<queue[q], i>>
  <2>1. PICK m \in Nat : DOMAIN es[queue[q]] = 1..m
    BY <1>2
  <2>2. ss[q] = [i \in 1..m |-> <<queue[q], i>>]
    BY <1>1, <2>1
  <2> HIDE DEF ss
  <2>3. ss[q] \in Seq(A)
    BY <1>2, <2>2
  <2>4. Distinct(ss[q])
    BY <2>2 DEF Distinct
  <2>5. ASSUME NEW x PROVE x \in ToSet(ss[q]) <=> \E i \in 1..m : x = <<queue[q], i>>
    BY <2>2 DEF ToSet
  <2> QED BY <2>1, <2>3, <2>4, <2>5
<1>4. ss \in [1..n -> Seq(A)]
  BY <1>1, <1>3
<1>5. EntriesOf(queue, es, S) = InOrder(FlattenSeq(ss), S)
  BY DEF EntriesOf
<1> HIDE DEF ss
<1>6. FlattenSeq(ss) \in Seq(A) /\ \A x : x \in ToSet(FlattenSeq(ss)) <=> \E q \in 1..n : x \in ToSet(ss[q])
  BY <1>4, FlattenAt
<1>7. /\ InOrder(FlattenSeq(ss), S) \in Seq(A)
      /\ \A x : x \in ToSet(InOrder(FlattenSeq(ss), S)) <=> x \in ToSet(FlattenSeq(ss)) /\ x \in S
      /\ Distinct(FlattenSeq(ss)) => Distinct(InOrder(FlattenSeq(ss), S))
  <2> DEFINE F == FlattenSeq(ss)
  <2>1. F \in Seq(A)
    BY <1>6
  <2> HIDE DEF F, A
  <2>2. /\ InOrder(F, S) \in Seq(A)
        /\ \A x : x \in ToSet(InOrder(F, S)) <=> x \in ToSet(F) /\ x \in S
        /\ Distinct(F) => Distinct(InOrder(F, S))
    BY <2>1, InOrderFacts
  <2> QED BY <2>2 DEF F
<1>8. ASSUME NEW x PROVE (\E q \in 1..n : x \in ToSet(ss[q])) <=>
                         (\E r \in ToSet(queue) : \E i \in DOMAIN es[r] : x = <<r, i>>)
  <2>1. (\E q \in 1..n : x \in ToSet(ss[q])) <=>
        (\E q \in 1..n : \E i \in DOMAIN es[queue[q]] : x = <<queue[q], i>>)
    BY <1>3
  <2>2. ToSet(queue) = {queue[q] : q \in 1..n}
    BY <1>1 DEF ToSet
  <2> QED BY <2>1, <2>2
<1>9. ASSUME Distinct(queue) PROVE Distinct(FlattenSeq(ss))
  <2>1. ASSUME NEW p \in 1..n, NEW q \in 1..n, ToSet(ss[p]) \cap ToSet(ss[q]) # {} PROVE p = q
    <3>1. PICK x : x \in ToSet(ss[p]) /\ x \in ToSet(ss[q])
      BY <2>1
    <3>2. PICK i \in DOMAIN es[queue[p]] : x = <<queue[p], i>>
      BY <1>3, <3>1
    <3>3. PICK j \in DOMAIN es[queue[q]] : x = <<queue[q], j>>
      BY <1>3, <3>1
    <3>4. queue[p] = queue[q]
      BY <3>2, <3>3
    <3> QED BY <1>1, <1>9, <3>4 DEF Distinct
  <2> HIDE DEF A
  <2> QED BY <1>3, <1>4, <2>1, FlattenDistinct
<1> QED BY <1>5, <1>6, <1>7, <1>8, <1>9

\* What EntriesOf gives depends on the numbers of entries and on which of them are in S.
LEMMA EntriesOfAgree ==
  ASSUME NEW R, NEW queue \in Seq(R), NEW es, NEW fs, NEW S, NEW T,
         \A r \in ToSet(queue) : /\ \E n \in Nat : DOMAIN es[r] = 1..n
                                 /\ DOMAIN es[r] = DOMAIN fs[r]
                                 /\ \A i \in DOMAIN es[r] : <<r, i>> \in S <=> <<r, i>> \in T
  PROVE  EntriesOf(queue, es, S) = EntriesOf(queue, fs, T)
<1> DEFINE ss == [q \in DOMAIN queue |-> [i \in DOMAIN es[queue[q]] |-> <<queue[q], i>>]]
           tt == [q \in DOMAIN queue |-> [i \in DOMAIN fs[queue[q]] |-> <<queue[q], i>>]]
           A == R \X (Nat \ {0})
<1>1. PICK n \in Nat : n = Len(queue) /\ DOMAIN queue = 1..n
  OBVIOUS
<1>2. \A q \in 1..n : queue[q] \in ToSet(queue) /\ queue[q] \in R
  BY <1>1 DEF ToSet
<1>3. ss = tt
  BY <1>1, <1>2
<1>4. ASSUME NEW q \in 1..n
      PROVE  /\ ss[q] \in Seq(A)
             /\ \A x \in ToSet(ss[q]) : x \in S <=> x \in T
  <2>1. PICK m \in Nat : DOMAIN es[queue[q]] = 1..m
    BY <1>2
  <2>2. ss[q] = [i \in 1..m |-> <<queue[q], i>>]
    BY <1>1, <2>1
  <2> HIDE DEF ss
  <2>3. ss[q] \in Seq(A)
    BY <1>2, <2>2
  <2>4. \A x \in ToSet(ss[q]) : \E i \in 1..m : x = <<queue[q], i>>
    BY <2>2 DEF ToSet
  <2>5. \A i \in 1..m : <<queue[q], i>> \in S <=> <<queue[q], i>> \in T
    BY <1>2, <2>1
  <2> QED BY <2>3, <2>4, <2>5
<1>5. ss \in [1..n -> Seq(A)]
  BY <1>1, <1>4
<1>6. EntriesOf(queue, es, S) = InOrder(FlattenSeq(ss), S) /\ EntriesOf(queue, fs, T) = InOrder(FlattenSeq(tt), T)
  BY DEF EntriesOf
<1> HIDE DEF ss, tt, A
<1>7. FlattenSeq(ss) \in Seq(A) /\ \A x : x \in ToSet(FlattenSeq(ss)) <=> \E q \in 1..n : x \in ToSet(ss[q])
  BY <1>5, FlattenAt
<1>8. \A x \in ToSet(FlattenSeq(ss)) : x \in S <=> x \in T
  BY <1>4, <1>7
<1>9. InOrder(FlattenSeq(ss), S) = InOrder(FlattenSeq(ss), T)
  BY <1>7, <1>8, InOrderAgree
<1> QED BY <1>3, <1>6, <1>9
-----------------------------------------------------------------------------
(* The cached list of running entries.                                     *)

\* A sequence whose elements are all in B is a sequence over B.
LEMMA SeqOver ==
  ASSUME NEW A, NEW B, NEW s \in Seq(A), ToSet(s) \subseteq B
  PROVE  s \in Seq(B)
<1>1. PICK n \in Nat : n = Len(s) /\ DOMAIN s = 1..n
  OBVIOUS
<1>2. \A i \in 1..n : s[i] \in B
  BY <1>1 DEF ToSet
<1> QED BY <1>1, <1>2

\* Selecting entries of a queue of requests with a state.
LEMMA SelectedEntries ==
  ASSUME deployment \in Deployments, NEW es, Trees(es), NEW S,
         NEW queue \in Seq(Requests)
  PROVE  /\ EntriesOf(queue, es, S) \in Seq(Pairs)
         /\ \A x : x \in ToSet(EntriesOf(queue, es, S)) <=>
              x \in S /\ \E r \in ToSet(queue) : \E i \in DOMAIN es[r] : x = <<r, i>>
         /\ Distinct(queue) => Distinct(EntriesOf(queue, es, S))
<1>1. ToSet(queue) \subseteq Requests
  BY ToSetFacts
<1>2. ASSUME NEW r \in Requests
      PROVE  /\ \E n \in Nat : DOMAIN es[r] = 1..n
             /\ \A i \in DOMAIN es[r] : <<r, i>> \in Pairs
  <2>1. NumEntries(r) \in Nat \ {0}
    BY NumEntriesFacts
  <2>2. CASE r \in request_states
    <3>1. DOMAIN es[r] = 1..NumEntries(r)
      BY <2>2 DEF Trees
    <3> QED BY <2>1, <3>1 DEF Pairs
  <2>3. CASE r \notin request_states
    <3>1. es[r] = <<>>
      BY <2>3 DEF Trees
    <3>2. DOMAIN es[r] = 1..0 /\ 0 \in Nat
      BY <3>1
    <3>3. \A i \in 1..0 : FALSE
      OBVIOUS
    <3>4. \A i \in DOMAIN es[r] : FALSE
      BY <3>2, <3>3
    <3> QED BY <3>2, <3>4
  <2> QED BY <2>2, <2>3
<1> DEFINE E == EntriesOf(queue, es, S)
<1>3. /\ E \in Seq(Requests \X (Nat \ {0}))
      /\ \A x : x \in ToSet(E) <=> x \in S /\ \E r \in ToSet(queue) : \E i \in DOMAIN es[r] : x = <<r, i>>
      /\ Distinct(queue) => Distinct(E)
  BY <1>1, <1>2, EntriesOfFacts
<1> HIDE DEF E
<1>4. ToSet(E) \subseteq Pairs
  BY <1>1, <1>2, <1>3
<1>5. E \in Seq(Pairs)
  BY <1>3, <1>4, SeqOver
<1> QED BY <1>3, <1>5 DEF E

\* The running entries are the alive leaves without input of the running requests.
LEMMA RunningFacts ==
  ASSUME TypeOK
  PROVE  /\ ComputeRunning \in Seq(Pairs)
         /\ \A x : x \in ToSet(ComputeRunning) <=>
              /\ x \in AllEntries /\ x[1] \in ToSet(running_queue)
              /\ Entry(x).status = "kAlive" /\ x[2] \in Leaves(x[1]) /\ Entry(x).inputs = 0
         /\ Distinct(running_queue) => Distinct(ComputeRunning)
<1> DEFINE S == {x \in AllEntries : /\ Entry(x).status = "kAlive"
                                    /\ x[2] \in Leaves(x[1])
                                    /\ Entry(x).inputs = 0}
<1>1. ComputeRunning = EntriesOf(running_queue, entries, S)
  BY DEF ComputeRunning
<1>2. deployment \in Deployments /\ Trees(entries) /\ running_queue \in Seq(Requests) /\ EntriesOK
  BY DEF TypeOK, EntriesOK, QueuesOK
<1>3. \A x \in AllEntries : x = <<x[1], x[2]>> /\ x[2] \in DOMAIN entries[x[1]]
  BY <1>2, AllEntriesFacts
<1>4. \A x : x \in S <=> /\ x \in AllEntries /\ Entry(x).status = "kAlive" /\ x[2] \in Leaves(x[1])
                         /\ Entry(x).inputs = 0
  OBVIOUS
<1> HIDE DEF S
<1>5. /\ EntriesOf(running_queue, entries, S) \in Seq(Pairs)
      /\ \A x : x \in ToSet(EntriesOf(running_queue, entries, S)) <=>
           x \in S /\ \E r \in ToSet(running_queue) : \E i \in DOMAIN entries[r] : x = <<r, i>>
      /\ Distinct(running_queue) => Distinct(EntriesOf(running_queue, entries, S))
  BY <1>2, SelectedEntries
<1>6. ASSUME NEW x \in AllEntries
      PROVE  (\E r \in ToSet(running_queue) : \E i \in DOMAIN entries[r] : x = <<r, i>>) <=>
             x[1] \in ToSet(running_queue)
  BY <1>3
<1> QED BY <1>1, <1>4, <1>5, <1>6

\* The list stays as long as the statuses and inputs of the running requests do.
LEMMA RunningAgree ==
  ASSUME TypeOK, deployment' = deployment, running_queue' = running_queue,
         \A r \in ToSet(running_queue) :
           /\ DOMAIN entries'[r] = DOMAIN entries[r]
           /\ \A i \in DOMAIN entries[r] : /\ entries'[r][i].status = entries[r][i].status
                                           /\ entries'[r][i].inputs = entries[r][i].inputs
  PROVE  ComputeRunning' = ComputeRunning
<1> DEFINE S == {x \in AllEntries : /\ Entry(x).status = "kAlive"
                                    /\ x[2] \in Leaves(x[1])
                                    /\ Entry(x).inputs = 0}
           T == {x \in AllEntries' : /\ Entry(x)'.status = "kAlive"
                                     /\ x[2] \in Leaves(x[1])
                                     /\ Entry(x)'.inputs = 0}
<1>1. ComputeRunning = EntriesOf(running_queue, entries, S)
  BY DEF ComputeRunning
<1>2. deployment \in Deployments /\ EntriesOK /\ running_queue \in Seq(Requests)
  BY DEF TypeOK, QueuesOK
<1>3. \A r : Leaves(r)' = Leaves(r)
  BY DeploymentFixed
<1>4. ComputeRunning' = EntriesOf(running_queue, entries', T)
  BY <1>3 DEF ComputeRunning, EntriesOf
<1>5. ToSet(running_queue) \subseteq Requests
  BY <1>2, ToSetFacts
<1>6. ASSUME NEW r \in ToSet(running_queue), NEW i \in DOMAIN entries[r]
      PROVE  <<r, i>> \in S <=> <<r, i>> \in T
  <2>1. <<r, i>> \in AllEntries
    BY <1>5 DEF AllEntries
  <2>2. Requests' = Requests
    BY DeploymentFixed
  <2>3. <<r, i>> \in AllEntries'
    BY <1>5, <2>2 DEF AllEntries
  <2>4. Entry(<<r, i>>)'.status = Entry(<<r, i>>).status /\ Entry(<<r, i>>)'.inputs = Entry(<<r, i>>).inputs
    BY DEF Entry
  <2> QED BY <2>1, <2>3, <2>4
<1>7. ASSUME NEW r \in ToSet(running_queue) PROVE \E n \in Nat : DOMAIN entries[r] = 1..n
  BY <1>2, <1>5, EntryFacts
<1> HIDE DEF S, T
<1>8. EntriesOf(running_queue, entries, S) = EntriesOf(running_queue, entries', T)
  BY <1>2, <1>6, <1>7, EntriesOfAgree
<1> QED BY <1>1, <1>4, <1>8

\* ... and when neither queue nor entries change.
LEMMA RunningSame ==
  ASSUME deployment' = deployment, running_queue' = running_queue, entries' = entries
  PROVE  ComputeRunning' = ComputeRunning /\ AllEntries' = AllEntries /\ \A x : Entry(x)' = Entry(x)
BY DEF ComputeRunning, EntriesOf, AllEntries, Entry, Leaves, NumEntries, NumChildren, N, Requests

\* GetRunningRequestStateEntries returns the running entries.
LEMMA RefreshFacts ==
  ASSUME TypeOK, CacheIsFresh
  PROVE  GetRunningRequestStateEntries = ComputeRunning
BY DEF GetRunningRequestStateEntries, CacheIsFresh

-----------------------------------------------------------------------------
(* Ids.                                                                    *)

\* GetNewId takes ids from the free list, then from the counter.
LEMMA NewIdsFacts ==
  ASSUME available_ids \in Seq(Nat), id_cnt \in Nat, NEW k \in Nat
  PROVE  /\ NewIds(k) \in [1..k -> Nat]
         /\ TakeIds(k) => available_ids' \in Seq(Nat) /\ id_cnt' \in Nat
<1>1. PICK n \in Nat : n = Len(available_ids) /\ DOMAIN available_ids = 1..n
  OBVIOUS
<1>2. ASSUME NEW j \in 1..k
      PROVE  (IF j <= n THEN available_ids[n + 1 - j] ELSE id_cnt + (j - n - 1)) \in Nat
  <2>1. CASE j <= n
    <3>1. n + 1 - j \in 1..n
      BY <2>1
    <3> QED BY <1>1, <2>1, <3>1
  <2>2. CASE ~(j <= n)
    BY <2>2
  <2> QED BY <2>1, <2>2
<1>3. NewIds(k) = [j \in 1..k |-> IF j <= n THEN available_ids[n + 1 - j] ELSE id_cnt + (j - n - 1)]
  BY <1>1 DEF NewIds
<1>4. ASSUME TakeIds(k) PROVE available_ids' \in Seq(Nat) /\ id_cnt' \in Nat
  <2>1. available_ids' = SubSeq(available_ids, 1, n - k)
    BY <1>1, <1>4 DEF TakeIds
  <2>2. n - k \in Int /\ n - k <= Len(available_ids)
    BY <1>1
  <2>3. SubSeq(available_ids, 1, n - k) \in Seq(Nat)
    BY <2>2, PrefixFacts
  <2>4. id_cnt' = IF k <= n THEN id_cnt ELSE id_cnt + (k - n)
    BY <1>1, <1>4 DEF TakeIds
  <2>5. id_cnt' \in Nat
    BY <2>4
  <2> QED BY <2>1, <2>3, <2>5
<1> QED BY <1>2, <1>3, <1>4

\* The number of pages of a number of tokens.
LEMMA PagesFacts ==
  ASSUME deployment \in Deployments, NEW t \in Nat
  PROVE  Pages(t) \in Nat
<1>1. PageSize \in Nat /\ PageSize > 0
  BY DeploymentFacts
<1>2. t + PageSize - 1 \in Nat
  BY <1>1
<1> QED BY <1>1, <1>2 DEF Pages

-----------------------------------------------------------------------------
(* ActionStepPostProcess.                                                  *)

\* The processed leaves with a token that has not been streamed.
FreshIn(processed, es) ==
  {x \in UNION {{r} \X Leaves(r) : r \in ToSet(processed)} :
     es[x[1]][x[2]].next_callback_token_pos < es[x[1]][x[2]].committed}

\* The post-process only moves the callback positions, and finishes entries with new tokens.
LEMMA PostProcessFacts ==
  ASSUME deployment \in Deployments, NEW es, Trees(es),
         NEW processed \in Seq(Requests), ToSet(processed) \subseteq request_states,
         PostProcess(processed, es), deployment' = deployment
  PROVE  /\ Trees(entries')
         /\ \A r \in Requests : DOMAIN entries'[r] = DOMAIN es[r]
         /\ \A r \in Requests : \A i \in DOMAIN es[r] :
              entries'[r][i] = IF <<r, i>> \in FreshIn(processed, es)
                                 THEN [es[r][i] EXCEPT !.next_callback_token_pos = es[r][i].committed]
                                 ELSE es[r][i]
         /\ finished_rsentries' \in Seq(Pairs)
         /\ \A x \in ToSet(finished_rsentries') : x \in FreshIn(processed, es)
         /\ enginePc' \in {"idle", "finish"}
         /\ enginePc' = "finish" => finished_rsentries' # <<>>
         /\ enginePc' = "idle" => finished_rsentries' = <<>>
         /\ Distinct(processed) => Distinct(finished_rsentries')
<1> DEFINE fresh == FreshIn(processed, es)
           atLimit == {x \in fresh : ReachesLength(x[1], es[x[1]][x[2]])}
<1>1. PICK stopped \in SUBSET (fresh \ atLimit) :
        /\ finished_rsentries' = EntriesOf(processed, es, atLimit \cup stopped)
        /\ entries' = [r \in Requests |-> [i \in DOMAIN es[r] |->
                         IF <<r, i>> \in fresh
                           THEN [es[r][i] EXCEPT !.next_callback_token_pos = es[r][i].committed]
                           ELSE es[r][i]]]
        /\ enginePc' = IF atLimit \cup stopped = {} THEN "idle" ELSE "finish"
  BY DEF PostProcess, FreshIn
<1> DEFINE done == atLimit \cup stopped
<1>2. done \subseteq fresh
  OBVIOUS
<1>3. /\ finished_rsentries' = EntriesOf(processed, es, done)
      /\ enginePc' = IF done = {} THEN "idle" ELSE "finish"
  BY <1>1
<1> HIDE DEF done, atLimit
<1>4. ToSet(processed) \subseteq Requests
  BY ToSetFacts
<1>5. ASSUME NEW x \in fresh
      PROVE  \E r \in ToSet(processed) : \E i \in DOMAIN es[r] : x = <<r, i>>
  <2>1. PICK r \in ToSet(processed) : x \in {r} \X Leaves(r)
    BY <1>5 DEF FreshIn
  <2>2. r \in Requests /\ r \in request_states
    BY <1>4
  <2>3. Leaves(r) \subseteq 1..NumEntries(r)
    BY <2>2, NumEntriesFacts
  <2>4. DOMAIN es[r] = 1..NumEntries(r)
    BY <2>2 DEF Trees
  <2>5. PICK i \in Leaves(r) : x = <<r, i>>
    BY <2>1
  <2> QED BY <2>3, <2>4, <2>5
<1> HIDE DEF fresh
<1>6. /\ EntriesOf(processed, es, done) \in Seq(Pairs)
      /\ \A x : x \in ToSet(EntriesOf(processed, es, done)) <=>
           x \in done /\ \E r \in ToSet(processed) : \E i \in DOMAIN es[r] : x = <<r, i>>
      /\ Distinct(processed) => Distinct(EntriesOf(processed, es, done))
  BY SelectedEntries
<1>7. \A x : x \in ToSet(EntriesOf(processed, es, done)) <=> x \in done
  BY <1>2, <1>5, <1>6
<1>8. /\ finished_rsentries' \in Seq(Pairs)
      /\ \A x \in ToSet(finished_rsentries') : x \in fresh
      /\ Distinct(processed) => Distinct(finished_rsentries')
  BY <1>2, <1>3, <1>6, <1>7
<1>9. finished_rsentries' = <<>> <=> done = {}
  <2>1. ToSet(finished_rsentries') = done
    BY <1>3, <1>7
  <2>2. ToSet(finished_rsentries') = {} <=> finished_rsentries' = <<>>
    BY <1>8, ToSetFacts
  <2> QED BY <2>1, <2>2
<1>10. /\ \A r \in Requests : DOMAIN entries'[r] = DOMAIN es[r]
       /\ \A r \in Requests : \A i \in DOMAIN es[r] :
            entries'[r][i] = IF <<r, i>> \in fresh
                               THEN [es[r][i] EXCEPT !.next_callback_token_pos = es[r][i].committed]
                               ELSE es[r][i]
  BY <1>1
<1>11. Trees(entries')
  <2>1. DOMAIN entries' = Requests
    BY <1>1
  <2>2. ASSUME NEW r \in Requests, r \in request_states
        PROVE  entries'[r] \in [1..NumEntries(r) -> EntryType]
    <3>1. es[r] \in [1..NumEntries(r) -> EntryType]
      BY <2>2 DEF Trees
    <3>2. ASSUME NEW e \in EntryType
          PROVE  [e EXCEPT !.next_callback_token_pos = e.committed] \in EntryType
      BY <3>2 DEF EntryType
    <3>3. entries'[r] = [i \in DOMAIN es[r] |->
                           IF <<r, i>> \in fresh
                             THEN [es[r][i] EXCEPT !.next_callback_token_pos = es[r][i].committed]
                             ELSE es[r][i]]
      BY <1>1
    <3>4. DOMAIN es[r] = 1..NumEntries(r) /\ \A i \in 1..NumEntries(r) : es[r][i] \in EntryType
      BY <3>1
    <3>5. \A i \in 1..NumEntries(r) :
            (IF <<r, i>> \in fresh THEN [es[r][i] EXCEPT !.next_callback_token_pos = es[r][i].committed]
             ELSE es[r][i]) \in EntryType
      BY <3>2, <3>4
    <3> HIDE DEF EntryType
    <3> QED BY <3>3, <3>4, <3>5
  <2>3. ASSUME NEW r \in Requests, r \notin request_states PROVE entries'[r] = <<>>
    <3>1. es[r] = <<>>
      BY <2>3 DEF Trees
    <3>2. DOMAIN es[r] = {}
      BY <3>1
    <3>3. entries'[r] = [i \in {} |->
                           IF <<r, i>> \in fresh
                             THEN [es[r][i] EXCEPT !.next_callback_token_pos = es[r][i].committed]
                             ELSE es[r][i]]
      BY <1>1, <3>2
    <3> QED BY <3>3
  <2> QED BY <2>1, <2>2, <2>3 DEF Trees
<1> QED BY <1>3, <1>8, <1>9, <1>10, <1>11 DEF fresh

\* The requests of the inputs, each once.
LEMMA RequestsOfFacts ==
  ASSUME NEW inputs \in Seq(InputType)
  PROVE  /\ RequestsOf(inputs) \in Seq(Requests)
         /\ ToSet(RequestsOf(inputs)) = {p.rsentry[1] : p \in ToSet(inputs)}
         /\ Distinct(RequestsOf(inputs))
<1>1. PICK n \in Nat : n = Len(inputs) /\ DOMAIN inputs = 1..n
  OBVIOUS
<1> DEFINE R(q) == inputs[q].rsentry[1]
           S == {q \in DOMAIN inputs : \A p \in 1..(q - 1) : R(p) # R(q)}
           idx == [q \in DOMAIN inputs |-> q]
           firsts == InOrder(idx, S)
<1>2. RequestsOf(inputs) = [j \in DOMAIN firsts |-> R(firsts[j])]
  BY DEF RequestsOf
<1>3. /\ idx \in Seq(1..n) /\ Distinct(idx) /\ ToSet(idx) = 1..n
  <2>1. idx = [q \in 1..n |-> q]
    BY <1>1
  <2> HIDE DEF idx
  <2> QED BY <2>1 DEF Distinct, ToSet
<1>4. \A q : q \in S <=> q \in 1..n /\ \A p \in 1..(q - 1) : R(p) # R(q)
  BY <1>1
<1>5. \A q \in 1..n : R(q) \in Requests
  <2>1. \A q \in 1..n : inputs[q] \in InputType
    BY <1>1
  <2>2. \A p \in InputType : p.rsentry[1] \in Requests
    BY DEF InputType, Pairs
  <2> QED BY <2>1, <2>2
<1> HIDE DEF idx, S
<1>6. /\ firsts \in Seq(1..n)
      /\ \A x : x \in ToSet(firsts) <=> x \in ToSet(idx) /\ x \in S
      /\ Distinct(idx) => Distinct(firsts)
  <2>1. idx \in Seq(1..n)
    BY <1>3
  <2> QED BY <2>1, InOrderFacts
<1> HIDE DEF firsts
<1>7. PICK m \in Nat : m = Len(firsts) /\ DOMAIN firsts = 1..m
  BY <1>6
<1>8. \A j \in 1..m : firsts[j] \in 1..n /\ firsts[j] \in S
  BY SMTT(30), <1>6, <1>7 DEF ToSet
<1>9. RequestsOf(inputs) = [j \in 1..m |-> R(firsts[j])]
  BY <1>2, <1>7
<1>10. RequestsOf(inputs) \in Seq(Requests)
  BY <1>5, <1>8, <1>9
<1>11. ASSUME NEW q \in 1..n PROVE \E j \in 1..m : R(firsts[j]) = R(q)
  <2> DEFINE B == {p \in 1..n : R(p) = R(q)}
  <2>1. B \in SUBSET Nat /\ q \in B
    OBVIOUS
  <2> HIDE DEF B
  <2>2. PICK p \in B : \A y \in B : p <= y
    BY <2>1, LeastNumber
  <2>3. p \in 1..n /\ R(p) = R(q)
    BY <2>2 DEF B
  <2>4. ASSUME NEW y \in 1..(p - 1), R(y) = R(p) PROVE FALSE
    <3>1. y \in 1..n /\ ~(p <= y)
      BY <2>3
    <3>2. y \in B
      BY <2>3, <2>4, <3>1 DEF B
    <3> QED BY <2>2, <3>1, <3>2
  <2>5. p \in S
    BY <1>4, <2>3, <2>4
  <2>6. p \in ToSet(firsts)
    BY <1>3, <1>6, <2>3, <2>5
  <2> QED BY <1>7, <2>3, <2>6 DEF ToSet
<1>12. ToSet(RequestsOf(inputs)) = {p.rsentry[1] : p \in ToSet(inputs)}
  <2>1. ToSet(RequestsOf(inputs)) = {R(firsts[j]) : j \in 1..m}
    BY <1>9 DEF ToSet
  <2>2. {p.rsentry[1] : p \in ToSet(inputs)} = {R(q) : q \in 1..n}
    BY <1>1 DEF ToSet
  <2> HIDE DEF R
  <2> QED BY <1>8, <1>11, <2>1, <2>2
<1>13. Distinct(RequestsOf(inputs))
  <2> SUFFICES ASSUME NEW i \in 1..m, NEW j \in 1..m, R(firsts[i]) = R(firsts[j]) PROVE i = j
    BY <1>9 DEF Distinct
  <2>1. firsts[i] \in 1..n /\ firsts[j] \in 1..n
    BY <1>8
  <2>2. ~(firsts[i] < firsts[j])
    <3> SUFFICES ASSUME firsts[i] < firsts[j] PROVE FALSE
      OBVIOUS
    <3>1. firsts[i] \in 1..(firsts[j] - 1)
      BY <2>1
    <3> QED BY <1>4, <1>8, <3>1
  <2>3. ~(firsts[j] < firsts[i])
    <3> SUFFICES ASSUME firsts[j] < firsts[i] PROVE FALSE
      OBVIOUS
    <3>1. firsts[j] \in 1..(firsts[i] - 1)
      BY <2>1
    <3> QED BY <1>4, <1>8, <3>1
  <2>4. firsts[i] = firsts[j]
    BY <2>1, <2>2, <2>3
  <2> QED BY <1>3, <1>6, <1>7, <2>4 DEF Distinct
<1> QED BY <1>10, <1>12, <1>13

-----------------------------------------------------------------------------
(* NewRequestPrefill.                                                      *)

\* What is prefilled: the chosen entries and, in hybrid mode, the running ones.
LEMMA PrefillInputsFacts ==
  ASSUME Shape, enginePc = "select"
  PROVE  /\ PrefillInputs \in Seq(InputType)
         /\ \A p \in ToSet(PrefillInputs) :
              /\ p.rsentry \in AllEntries
              /\ ~p.isDecode => p \in ToSet(prefill.chosen) /\ p.len \in 1..Entry(p.rsentry).inputs
              /\ p.isDecode => /\ p.rsentry \in ToSet(ComputeRunning)
                               /\ p.len = NextDecode(p.rsentry)
         /\ \A p \in ToSet(prefill.chosen) : p \in ToSet(PrefillInputs)
<1> DEFINE running == cached_running_rsentries_
           along == [q \in DOMAIN running |-> PrefillInput(running[q], NextDecode(running[q]), 0, TRUE)]
           more == IF Hybrid THEN along ELSE <<>>
<1>1. PrefillInputs = prefill.chosen \o more
  BY DEF PrefillInputs
<1>2. TypeOK /\ Selected /\ CacheIsFresh
  BY DEF Shape
<1>3. running = ComputeRunning
  BY <1>2 DEF Selected, CacheIsFresh
<1>4. running \in Seq(Pairs)
  BY <1>2 DEF TypeOK, StepOK
<1>5. PICK n \in Nat : n = Len(running) /\ DOMAIN running = 1..n
  BY <1>4
<1>6. ASSUME NEW q \in 1..n
      PROVE  /\ running[q] \in ToSet(ComputeRunning) /\ running[q] \in AllEntries
             /\ running[q] \in Pairs /\ NextDecode(running[q]) \in Nat
  <2>1. running[q] \in ToSet(ComputeRunning) /\ running[q] \in Pairs
    BY <1>3, <1>4, <1>5 DEF ToSet
  <2>2. running[q] \in AllEntries
    BY <1>2, <2>1, RunningFacts
  <2>3. Entry(running[q]) \in EntryType
    BY <1>2, <2>2, AllEntriesFacts DEF TypeOK
  <2> QED BY <2>1, <2>2, <2>3 DEF EntryType, NextDecode
<1>7. /\ along \in Seq(InputType)
      /\ \A p \in ToSet(along) : \E q \in 1..n : p = PrefillInput(running[q], NextDecode(running[q]), 0, TRUE)
  <2>1. along = [q \in 1..n |-> PrefillInput(running[q], NextDecode(running[q]), 0, TRUE)]
    BY <1>5
  <2> HIDE DEF along
  <2>2. \A q \in 1..n : PrefillInput(running[q], NextDecode(running[q]), 0, TRUE) \in InputType
    BY <1>6 DEF PrefillInput, InputType
  <2>3. along \in Seq(InputType)
    <3> DEFINE input(q) == PrefillInput(running[q], NextDecode(running[q]), 0, TRUE)
    <3>1. along = [q \in 1..n |-> input(q)] /\ \A q \in 1..n : input(q) \in InputType
      BY <2>1, <2>2
    <3> HIDE DEF input
    <3> QED BY <3>1
  <2> QED BY <2>1, <2>3 DEF ToSet
<1> HIDE DEF along
<1>8. prefill.chosen \in Seq(InputType)
  BY <1>2 DEF TypeOK, StepOK, PrefillType
<1>9. more \in Seq(InputType) /\ \A p \in ToSet(more) : p \in ToSet(along)
  <2>1. ToSet(<<>>) = {}
    BY DEF ToSet
  <2> QED BY <1>7, <2>1
<1> HIDE DEF more, running
<1>10. /\ PrefillInputs \in Seq(InputType)
       /\ \A p : p \in ToSet(PrefillInputs) <=> p \in ToSet(prefill.chosen) \/ p \in ToSet(more)
  BY <1>1, <1>8, <1>9, ConcatFacts
<1>11. ASSUME NEW p \in ToSet(prefill.chosen)
       PROVE  p.rsentry \in AllEntries /\ p.len \in 1..Entry(p.rsentry).inputs /\ ~p.isDecode
  BY <1>2 DEF Selected
<1>12. ASSUME NEW p \in ToSet(more)
       PROVE  /\ p.isDecode /\ p.rsentry \in AllEntries /\ p.rsentry \in ToSet(ComputeRunning)
              /\ p.len = NextDecode(p.rsentry)
  <2>1. PICK q \in 1..n : p = PrefillInput(running[q], NextDecode(running[q]), 0, TRUE)
    BY <1>7, <1>9
  <2>2. p.rsentry = running[q] /\ p.isDecode /\ p.len = NextDecode(running[q])
    BY <2>1 DEF PrefillInput
  <2> QED BY <1>6, <2>2
<1> QED BY <1>10, <1>11, <1>12

\* Prefill leaves a tree of entries for every request that has one.
LEMMA EntriesAfterPrefillTyped ==
  ASSUME Shape, enginePc = "select"
  PROVE  Trees(EntriesAfterPrefill(PrefillInputs))
<1> DEFINE inputs == PrefillInputs
           own(r, i) == {p \in ToSet(inputs) : p.rsentry = <<r, i>>}
           parent(r, i) == {p \in ToSet(inputs) : p.rsentry[1] = r /\ i \in Unblocked(p)}
           After(r, i) ==
             CASE own(r, i) # {} ->
                LET e == Prefilled(CHOOSE p \in own(r, i) : TRUE)
                IN  IF e.inputs = 0 /\ i \in Leaves(r) THEN Committed(e) ELSE e
             [] own(r, i) = {} /\ parent(r, i) # {} ->
                  WithFirstToken(entries[r][i], \E p \in parent(r, i) : i \in Activated(p))
             [] OTHER -> entries[r][i]
           es == [r \in Requests |-> [i \in DOMAIN entries[r] |-> After(r, i)]]
<1>1. EntriesAfterPrefill(PrefillInputs) = es
  BY DEF EntriesAfterPrefill
<1>2. TypeOK /\ EntriesOK /\ deployment \in Deployments
  BY DEF Shape, TypeOK
<1>3. ASSUME NEW e \in EntryType
      PROVE  /\ Committed(e) \in EntryType
             /\ \A b \in BOOLEAN : WithFirstToken(e, b) \in EntryType
  <2>1. Committed(e) \in EntryType
    <3>1. e.committed + 1 \in Nat /\ e.num_tokens_for_next_decode + 1 \in Nat
      BY <1>3 DEF EntryType
    <3>2. Committed(e) = [e EXCEPT !.committed = e.committed + 1,
                            !.num_tokens_for_next_decode = e.num_tokens_for_next_decode + 1]
      BY <1>3 DEF Committed, EntryType
    <3> QED BY <1>3, <3>1, <3>2 DEF EntryType
  <2>2. [Committed(e) EXCEPT !.status = "kAlive"] \in EntryType
    BY <2>1 DEF EntryType, Statuses
  <2>3. [Committed(e) EXCEPT !.inputs = @ + 1] \in EntryType
    BY <2>1 DEF EntryType
  <2> QED BY <2>1, <2>2, <2>3 DEF WithFirstToken
<1>4. ASSUME NEW p \in ToSet(inputs) PROVE Prefilled(p) \in EntryType
  <2>1. p.rsentry \in AllEntries /\ (~p.isDecode => p.len \in 1..Entry(p.rsentry).inputs)
    BY PrefillInputsFacts
  <2>2. Entry(p.rsentry) \in EntryType
    BY <1>2, <2>1, AllEntriesFacts
  <2>3. CASE p.isDecode
    BY <2>2, <2>3 DEF Prefilled, EntryType
  <2>4. CASE ~p.isDecode
    <3>1. Entry(p.rsentry).inputs \in Nat
      BY <2>2 DEF EntryType
    <3>2. Entry(p.rsentry).inputs - p.len \in Nat
      BY <2>1, <2>4, <3>1
    <3>3. Prefilled(p) = [Entry(p.rsentry) EXCEPT !.status = "kAlive", !.inputs = @ - p.len]
      BY <2>4 DEF Prefilled
    <3> QED BY <2>2, <3>2, <3>3 DEF EntryType, Statuses
  <2> QED BY <2>3, <2>4
<1>5. ASSUME NEW r \in Requests, NEW i \in DOMAIN entries[r], entries[r][i] \in EntryType
      PROVE  After(r, i) \in EntryType
  <2>1. CASE own(r, i) # {}
    <3> DEFINE p == CHOOSE p \in own(r, i) : TRUE
    <3>1. p \in own(r, i)
      BY <2>1
    <3>2. p \in ToSet(inputs)
      BY <3>1
    <3>3. Prefilled(p) \in EntryType
      BY <1>4, <3>2
    <3>4. Committed(Prefilled(p)) \in EntryType
      BY <1>3, <3>3
    <3>5. After(r, i) = LET e == Prefilled(p)
                        IN  IF e.inputs = 0 /\ i \in Leaves(r) THEN Committed(e) ELSE e
      BY <2>1
    <3> HIDE DEF p, After
    <3> QED BY <3>3, <3>4, <3>5
  <2>2. CASE own(r, i) = {} /\ parent(r, i) # {}
    <3>1. After(r, i) = WithFirstToken(entries[r][i], \E p \in parent(r, i) : i \in Activated(p))
      BY <2>2
    <3> HIDE DEF After, parent
    <3> QED BY <1>3, <1>5, <3>1
  <2>3. CASE own(r, i) = {} /\ parent(r, i) = {}
    <3>1. After(r, i) = entries[r][i]
      BY <2>3
    <3> QED BY <1>5, <3>1
  <2> QED BY <2>1, <2>2, <2>3
<1> HIDE DEF After
<1>6. ASSUME NEW r \in Requests, r \in request_states
      PROVE  es[r] \in [1..NumEntries(r) -> EntryType]
  <2>1. DOMAIN entries[r] = 1..NumEntries(r) /\ \A i \in DOMAIN entries[r] : entries[r][i] \in EntryType
    BY <1>2, <1>6, EntryFacts
  <2>2. es[r] = [i \in 1..NumEntries(r) |-> After(r, i)]
    BY <2>1
  <2>3. \A i \in 1..NumEntries(r) : After(r, i) \in EntryType
    BY <1>5, <2>1
  <2> HIDE DEF es, EntryType
  <2> QED BY <2>2, <2>3
<1>7. ASSUME NEW r \in Requests, r \notin request_states PROVE es[r] = <<>>
  <2>1. DOMAIN entries[r] = {}
    BY <1>2, <1>7, EntryFacts
  <2>2. es[r] = [i \in {} |-> After(r, i)]
    BY <2>1
  <2> QED BY <2>2
<1>8. DOMAIN es = Requests
  OBVIOUS
<1> HIDE DEF es
<1> QED BY <1>1, <1>6, <1>7, <1>8 DEF Trees

\* Taking the request of each element.
LEMMA RequestsOver ==
  ASSUME NEW s \in Seq(InputType)
  PROVE  /\ [q \in DOMAIN s |-> s[q].rsentry[1]] \in Seq(Requests)
         /\ ToSet([q \in DOMAIN s |-> s[q].rsentry[1]]) = {p.rsentry[1] : p \in ToSet(s)}
<1>1. PICK n \in Nat : n = Len(s) /\ DOMAIN s = 1..n
  OBVIOUS
<1>2. \A p \in InputType : p.rsentry[1] \in Requests
  BY DEF InputType, Pairs
<1>3. \A q \in 1..n : s[q] \in InputType
  BY <1>1
<1>4. [q \in DOMAIN s |-> s[q].rsentry[1]] = [q \in 1..n |-> s[q].rsentry[1]]
  BY <1>1
<1>5. ToSet([q \in 1..n |-> s[q].rsentry[1]]) = {s[q].rsentry[1] : q \in 1..n}
  BY DEF ToSet
<1>6. {p.rsentry[1] : p \in ToSet(s)} = {s[q].rsentry[1] : q \in 1..n}
  BY <1>1 DEF ToSet
<1>7. \A q \in 1..n : s[q].rsentry[1] \in Requests
  BY <1>2, <1>3
<1>8. [q \in 1..n |-> s[q].rsentry[1]] \in Seq(Requests)
  BY <1>7
<1> QED BY <1>4, <1>5, <1>6, <1>8

\* The requests that start with a prefill.
StartInputs(inputs) ==
  {p \in ToSet(inputs) :
     LET es == entries[p.rsentry[1]]
     IN  /\ es[p.rsentry[2]].status = "kPending"
         /\ \A j \in DOMAIN es \ {p.rsentry[2]} : es[j].status # "kAlive"}

\* StartedRequests has the requests of the inputs that start.
LEMMA StartedFacts ==
  ASSUME NEW inputs \in Seq(InputType)
  PROVE  /\ StartedRequests(inputs) \in Seq(Requests)
         /\ ToSet(StartedRequests(inputs)) = {p.rsentry[1] : p \in StartInputs(inputs)}
<1> DEFINE S == StartInputs(inputs)
           starts == InOrder(inputs, S)
<1>1. StartedRequests(inputs) = [q \in DOMAIN starts |-> starts[q].rsentry[1]]
  BY DEF StartedRequests, StartInputs
<1>2. S \subseteq ToSet(inputs)
  BY DEF StartInputs
<1> HIDE DEF S
<1>3. starts \in Seq(InputType) /\ \A x : x \in ToSet(starts) <=> x \in ToSet(inputs) /\ x \in S
  BY InOrderFacts
<1>4. ToSet(starts) = S
  BY <1>2, <1>3
<1> HIDE DEF starts
<1> QED BY <1>1, <1>3, <1>4, RequestsOver DEF S

\* The KV cache holds numbers of tokens.
LEMMA KVAfterPrefillTyped ==
  ASSUME StepOK, NEW inputs \in Seq(InputType), NEW ids \in SUBSET Nat
  PROVE  /\ KVAfterPrefill(inputs, ids) \in [DOMAIN kv \cup ids -> Nat]
         /\ DOMAIN KVAfterPrefill(inputs, ids) = DOMAIN kv \cup ids
<1>1. PICK n \in Nat : n = Len(inputs) /\ DOMAIN inputs = 1..n
  OBVIOUS
<1> DEFINE f(s) == [q \in DOMAIN inputs |-> IF Entry(inputs[q].rsentry).id = s THEN inputs[q].len ELSE 0]
<1>2. \A q \in 1..n : inputs[q].len \in Nat
  <2>1. \A q \in 1..n : inputs[q] \in InputType
    BY <1>1
  <2> QED BY <2>1 DEF InputType
<1>3. ASSUME NEW s PROVE SumFunction(f(s)) \in Nat
  <2>1. DOMAIN f(s) = 1..n /\ \A q \in 1..n : f(s)[q] \in Nat
    BY <1>1, <1>2
  <2>2. IsFiniteSet(1..n)
    BY FS_Interval
  <2> HIDE DEF f
  <2>3. SumFunctionOnSet(f(s), 1..n) \in Nat
    BY <2>1, <2>2, SumNat
  <2> QED BY <2>1, <2>3 DEF SumFunction
<1>4. \A s \in DOMAIN kv : kv[s] \in Nat
  BY DEF StepOK
<1>5. KVAfterPrefill(inputs, ids) =
        [s \in DOMAIN kv \cup ids |-> (IF s \in DOMAIN kv THEN kv[s] ELSE 0) + SumFunction(f(s))]
  BY DEF KVAfterPrefill
<1> HIDE DEF f
<1>6. \A s \in DOMAIN kv \cup ids : (IF s \in DOMAIN kv THEN kv[s] ELSE 0) + SumFunction(f(s)) \in Nat
  BY <1>3, <1>4
<1> QED BY <1>5, <1>6

-----------------------------------------------------------------------------
(* Shape, action by action.                                                *)

\* The trees, the queues and the rest after a step that keeps the deployment.
LEMMA NextTyped ==
  ASSUME deployment' = deployment
  PROVE  /\ request_states' = request_states /\ Trees(entries') => EntriesOK'
         /\ /\ request_states' \subseteq submitted' /\ submitted' \subseteq Requests
            /\ running_queue' \in Seq(Requests) /\ ToSet(running_queue') \subseteq request_states'
            /\ waiting_queue' \in Seq(Requests)
            => QueuesOK'
         /\ /\ available_ids' \in Seq(Nat) /\ id_cnt' \in Nat
            /\ kv' \in [DOMAIN kv' -> Nat] /\ DOMAIN kv' \subseteq Nat
            /\ running_rsentries_changed' \in BOOLEAN
            /\ cached_running_rsentries_' \in Seq(Pairs)
            /\ running_rsentries' \in Seq(Pairs)
            /\ finished_rsentries' \in Seq(Pairs)
            /\ enginePc' \in Locations
            /\ enginePc' = "finish" => finished_rsentries' # <<>>
            /\ prefill' \in PrefillType
            /\ usage' \in [Requests -> Nat]
            => StepOK'
<1>1. /\ Requests' = Requests /\ Pairs' = Pairs /\ PrefillType' = PrefillType
      /\ \A r : NumEntries(r)' = NumEntries(r)
  BY DeploymentFixed
<1> QED BY <1>1 DEF EntriesOK, Trees, QueuesOK, StepOK, Locations

\* A failed check stops the engine where it is.
LEMMA FailShape ==
  ASSUME Shape, NEW what, Fail(what)
  PROVE  Shape'
<1>1. /\ UNCHANGED <<running_queue, waiting_queue, request_states, entries, available_ids, id_cnt>>
      /\ UNCHANGED <<running_rsentries_changed, cached_running_rsentries_, kv, prefill>>
      /\ UNCHANGED <<running_rsentries, finished_rsentries, usage, submitted, deployment>>
      /\ enginePc' = "failed"
  BY DEF Fail, queueVars, idVars, cacheVars
<1>2. TypeOK /\ Selected /\ CacheIsFresh
  BY DEF Shape
<1>3. deployment' \in Deployments /\ EntriesOK' /\ QueuesOK'
  BY <1>1, <1>2, NextTyped DEF TypeOK, EntriesOK, QueuesOK
<1>4. StepOK'
  BY <1>1, <1>2, NextTyped DEF TypeOK, StepOK, Locations
<1>5. Selected'
  BY <1>1 DEF Selected
<1>6. CacheIsFresh'
  BY <1>1, <1>2, RunningSame DEF CacheIsFresh
<1> QED BY <1>3, <1>4, <1>5, <1>6 DEF Shape, TypeOK

\* The initial state.
LEMMA InitShape ==
  ASSUME Init
  PROVE  Shape
<1>1. deployment \in Deployments /\ EntriesOK
  <2>1. entries = [r \in Requests |-> <<>>] /\ request_states = {}
    BY DEF Init
  <2> QED BY <2>1 DEF Init, EntriesOK, Trees
<1>2. ToSet(<<>>) = {}
  BY DEF ToSet
<1>3. QueuesOK
  BY <1>2 DEF Init, QueuesOK
<1>4. NoSelection \in PrefillType
  BY DEF NoSelection, PrefillType
<1>5. StepOK
  <2>1. kv \in [DOMAIN kv -> Nat] /\ DOMAIN kv \subseteq Nat
    <3>1. kv = <<>>
      BY DEF Init
    <3>2. DOMAIN kv = {}
      BY <3>1
    <3> QED BY <3>1, <3>2
  <2>2. usage \in [Requests -> Nat]
    BY DEF Init
  <2> QED BY <1>4, <2>1, <2>2 DEF Init, StepOK, Locations
<1>6. Selected /\ CacheIsFresh
  BY DEF Init, Selected, CacheIsFresh
<1> QED BY <1>1, <1>3, <1>5, <1>6 DEF Shape, TypeOK

\* A request that is too long.
LEMMA RejectShape ==
  ASSUME Shape, NEW r \in Requests, RejectRequest(r)
  PROVE  Shape'
<1>1. /\ UNCHANGED <<running_queue, waiting_queue, request_states, entries, available_ids, id_cnt>>
      /\ UNCHANGED <<running_rsentries_changed, cached_running_rsentries_, kv, prefill>>
      /\ UNCHANGED <<running_rsentries, finished_rsentries, enginePc, deployment>>
      /\ submitted' = submitted \cup {r} /\ enginePc = "idle"
      /\ usage' = [usage EXCEPT ![r] = @ + 1]
  BY DEF RejectRequest, queueVars, idVars, cacheVars, stepVars, StreamBackError
<1>2. TypeOK /\ Selected /\ CacheIsFresh
  BY DEF Shape
<1>3. deployment' \in Deployments /\ EntriesOK' /\ QueuesOK'
  BY <1>1, <1>2, NextTyped DEF TypeOK, EntriesOK, QueuesOK
<1>4. usage' \in [Requests -> Nat]
  BY <1>1, <1>2 DEF TypeOK, StepOK
<1>5. StepOK'
  BY <1>1, <1>2, <1>4, NextTyped DEF TypeOK, StepOK
<1>6. Selected'
  BY <1>1 DEF Selected
<1>7. CacheIsFresh'
  BY <1>1, <1>2, RunningSame DEF CacheIsFresh
<1> QED BY <1>3, <1>5, <1>6, <1>7 DEF Shape, TypeOK

\* A new request gets its entries, and nothing that runs changes.
LEMMA AddShape ==
  ASSUME Shape, NEW r \in Requests, AddRequest(r)
  PROVE  Shape'
<1>1. /\ UNCHANGED <<running_queue, running_rsentries_changed, cached_running_rsentries_, kv, prefill>>
      /\ UNCHANGED <<running_rsentries, finished_rsentries, enginePc, usage, deployment>>
      /\ submitted' = submitted \cup {r} /\ enginePc = "idle" /\ r \notin submitted
      /\ waiting_queue' = Append(waiting_queue, r)
      /\ request_states' = request_states \cup {r}
      /\ entries' = [entries EXCEPT ![r] =
           [i \in 1..NumEntries(r) |-> NewEntry(NewIds(NumEntries(r))[i], IF i = 1 THEN PromptTokens[r] ELSE 0)]]
      /\ TakeIds(NumEntries(r))
  BY DEF AddRequest, queueVars, idVars, cacheVars, stepVars
<1>2. TypeOK /\ Selected /\ CacheIsFresh
  BY DEF Shape
<1>3. deployment \in Deployments /\ EntriesOK /\ QueuesOK /\ StepOK
  BY <1>2 DEF TypeOK
<1>4. NumEntries(r) \in Nat \ {0} /\ PromptTokens[r] \in Nat
  BY <1>3, NumEntriesFacts, DeploymentFacts
<1>5. /\ NewIds(NumEntries(r)) \in [1..NumEntries(r) -> Nat]
      /\ available_ids' \in Seq(Nat) /\ id_cnt' \in Nat
  BY <1>1, <1>3, <1>4, NewIdsFacts DEF StepOK
<1>6. \A i \in 1..NumEntries(r) :
        NewEntry(NewIds(NumEntries(r))[i], IF i = 1 THEN PromptTokens[r] ELSE 0) \in EntryType
  <2> SUFFICES ASSUME NEW i \in 1..NumEntries(r), NEW id \in Nat, NEW k \in Nat
               PROVE  NewEntry(id, k) \in EntryType
    BY <1>4, <1>5
  <2> QED BY DEF NewEntry, EntryType, Statuses
<1>7. EntriesOK'
  <2>1. Requests' = Requests /\ \A q : NumEntries(q)' = NumEntries(q)
    BY <1>1, DeploymentFixed
  <2>2. DOMAIN entries = Requests
    BY <1>3 DEF EntriesOK, Trees
  <2>3. DOMAIN entries' = Requests
    BY <1>1, <2>2
  <2>4. entries'[r] \in [1..NumEntries(r) -> EntryType] /\ r \in request_states'
    <3>1. entries'[r] = [i \in 1..NumEntries(r) |->
             NewEntry(NewIds(NumEntries(r))[i], IF i = 1 THEN PromptTokens[r] ELSE 0)]
      BY <1>1, <2>2
    <3> HIDE DEF EntryType
    <3> QED BY <1>1, <1>6, <3>1
  <2>5. \A q \in Requests \ {r} : /\ entries'[q] = entries[q]
                                  /\ q \in request_states' <=> q \in request_states
    BY <1>1, <2>2
  <2> QED BY <1>3, <2>1, <2>3, <2>4, <2>5 DEF EntriesOK, Trees
<1>8. QueuesOK'
  <2>1. Append(waiting_queue, r) \in Seq(Requests)
    BY <1>3 DEF QueuesOK
  <2> QED BY <1>1, <1>3, <2>1, NextTyped DEF QueuesOK
<1>9. StepOK'
  BY <1>1, <1>3, <1>5, NextTyped DEF StepOK
<1>10. Selected'
  BY <1>1 DEF Selected
<1>11. ComputeRunning' = ComputeRunning
  <2>1. \A q \in ToSet(running_queue) : q # r
    BY <1>1, <1>3 DEF QueuesOK
  <2>2. \A q \in ToSet(running_queue) : entries'[q] = entries[q]
    BY <1>1, <2>1
  <2> QED BY <1>1, <1>2, <2>2, RunningAgree
<1>12. CacheIsFresh'
  BY <1>1, <1>2, <1>11 DEF CacheIsFresh
<1> QED BY <1>1, <1>3, <1>7, <1>8, <1>9, <1>10, <1>12 DEF Shape, TypeOK

\* A request that leaves takes its entries along.
LEMMA DropShape ==
  ASSUME Shape, NEW r \in Requests, r \in request_states, DropRequest(r), enginePc # "select",
         running_rsentries' \in Seq(Pairs)
  PROVE  Shape'
<1>1. /\ UNCHANGED <<id_cnt, cached_running_rsentries_, enginePc, prefill, finished_rsentries, fault>>
      /\ UNCHANGED <<submitted, deployment>>
      /\ request_states' = request_states \ {r}
      /\ running_queue' = InOrder(running_queue, Requests \ {r})
      /\ waiting_queue' = InOrder(waiting_queue, Requests \ {r})
      /\ entries' = [entries EXCEPT ![r] = <<>>]
      /\ usage' = [usage EXCEPT ![r] = @ + 1]
      /\ running_rsentries_changed' = TRUE
  BY DEF DropRequest, StreamBackError, InvalidateRunning
<1>2. deployment \in Deployments /\ EntriesOK /\ QueuesOK /\ StepOK
  BY DEF Shape, TypeOK
<1>3. EntriesOK'
  <2>1. Requests' = Requests /\ \A q : NumEntries(q)' = NumEntries(q)
    BY <1>1, DeploymentFixed
  <2>2. DOMAIN entries = Requests
    BY <1>2 DEF EntriesOK, Trees
  <2>3. DOMAIN entries' = Requests /\ entries'[r] = <<>> /\ r \notin request_states'
    BY <1>1, <2>2
  <2>4. \A q \in Requests \ {r} : /\ entries'[q] = entries[q]
                                  /\ q \in request_states' <=> q \in request_states
    BY <1>1, <2>2
  <2> QED BY <1>2, <2>1, <2>3, <2>4 DEF EntriesOK, Trees
<1>4. QueuesOK'
  <2>1. running_queue \in Seq(Requests) /\ waiting_queue \in Seq(Requests)
    BY <1>2 DEF QueuesOK
  <2>2. /\ InOrder(running_queue, Requests \ {r}) \in Seq(Requests)
        /\ InOrder(waiting_queue, Requests \ {r}) \in Seq(Requests)
        /\ \A x : x \in ToSet(InOrder(running_queue, Requests \ {r})) <=>
             x \in ToSet(running_queue) /\ x \in Requests \ {r}
    BY <2>1, InOrderFacts
  <2>3. ToSet(running_queue') \subseteq request_states'
    BY <1>1, <1>2, <2>2 DEF QueuesOK
  <2> QED BY <1>1, <1>2, <2>2, <2>3, NextTyped DEF QueuesOK
<1>5. available_ids' \in Seq(Nat) /\ kv' \in [DOMAIN kv' -> Nat] /\ DOMAIN kv' \subseteq Nat
  <2>1. CASE Contains(running_queue, r)
    <3> DEFINE ids == [i \in DOMAIN entries[r] |-> entries[r][i].id]
    <3>1. /\ available_ids' = available_ids \o Reverse(ids)
          /\ kv' = WithoutSequences(AliveIds(r))
      BY <2>1 DEF DropRequest
    <3>2. PICK n \in Nat : DOMAIN entries[r] = 1..n
      BY <1>2, EntryFacts
    <3>3. \A i \in 1..n : entries[r][i].id \in Nat
      BY <1>2, <3>2, EntryFacts DEF EntryType
    <3>4. ids = [i \in 1..n |-> entries[r][i].id]
      BY <3>2
    <3> HIDE DEF ids
    <3>5. ids \in Seq(Nat) /\ Len(ids) = n
      BY <3>3, <3>4
    <3>6. Reverse(ids) \in Seq(Nat)
      <4>1. Reverse(ids) = [i \in 1..n |-> ids[(n - i) + 1]]
        BY <3>5 DEF Reverse
      <4>2. \A i \in 1..n : (n - i) + 1 \in 1..n
        OBVIOUS
      <4>3. \A i \in 1..n : ids[(n - i) + 1] \in Nat
        BY <3>5, <4>2
      <4> QED BY <4>1, <4>3
    <3>7. available_ids' \in Seq(Nat)
      BY <1>2, <3>1, <3>6 DEF StepOK
    <3>8. DOMAIN WithoutSequences(AliveIds(r)) \subseteq DOMAIN kv
      BY DEF WithoutSequences
    <3>9. WithoutSequences(AliveIds(r)) \in [DOMAIN WithoutSequences(AliveIds(r)) -> Nat]
      BY <1>2 DEF StepOK, WithoutSequences
    <3> QED BY <1>2, <3>1, <3>7, <3>8, <3>9 DEF StepOK
  <2>2. CASE ~Contains(running_queue, r)
    BY <1>2, <2>2 DEF DropRequest, StepOK
  <2> QED BY <2>1, <2>2
<1>6. usage' \in [Requests -> Nat]
  BY <1>1, <1>2 DEF StepOK
<1>7. StepOK'
  BY <1>1, <1>2, <1>5, <1>6, NextTyped DEF StepOK
<1>8. Selected' /\ CacheIsFresh'
  BY <1>1 DEF Selected, CacheIsFresh
<1> QED BY <1>1, <1>2, <1>3, <1>4, <1>7, <1>8 DEF Shape, TypeOK

\* An abort by the client.
LEMMA AbortShape ==
  ASSUME Shape, NEW r \in Requests, AbortRequest(r)
  PROVE  Shape'
<1>1. r \in request_states /\ enginePc = "idle"
  BY DEF AbortRequest
<1>2. CASE AliveIds(r) \subseteq DOMAIN kv
  <2>1. DropRequest(r) /\ UNCHANGED running_rsentries
    BY <1>2 DEF AbortRequest
  <2>2. running_rsentries' \in Seq(Pairs)
    BY <2>1 DEF Shape, TypeOK, StepOK
  <2> QED BY <1>1, <2>1, <2>2, DropShape
<1>3. CASE ~(AliveIds(r) \subseteq DOMAIN kv)
  BY <1>3, FailShape DEF AbortRequest
<1> QED BY <1>2, <1>3

\* The candidates are entries with input, of requests that wait.
LEMMA CandidatesFacts ==
  ASSUME TypeOK
  PROVE  /\ PrefillCandidates \in Seq(Pairs)
         /\ \A x \in ToSet(PrefillCandidates) : x \in AllEntries /\ Entry(x).inputs > 0
<1> DEFINE S == {x \in AllEntries : /\ Entry(x).inputs > 0
                                    /\ \/ x[2] = 1
                                       \/ /\ entries[x[1]][1].status # "kPending"
                                          /\ entries[x[1]][1].inputs = 0}
<1>1. PrefillCandidates = EntriesOf(waiting_queue, entries, S)
  BY DEF PrefillCandidates
<1>2. \A x \in S : x \in AllEntries /\ Entry(x).inputs > 0
  OBVIOUS
<1> HIDE DEF S
<1>3. deployment \in Deployments /\ Trees(entries) /\ waiting_queue \in Seq(Requests)
  BY DEF TypeOK, EntriesOK, QueuesOK
<1>4. /\ EntriesOf(waiting_queue, entries, S) \in Seq(Pairs)
      /\ \A x : x \in ToSet(EntriesOf(waiting_queue, entries, S)) <=>
           x \in S /\ \E r \in ToSet(waiting_queue) : \E i \in DOMAIN entries[r] : x = <<r, i>>
  BY <1>3, SelectedEntries
<1> QED BY <1>1, <1>2, <1>4

\* The tokens of the running entries' next decode.
LEMMA NextDecodeSum ==
  ASSUME TypeOK, NEW running \in Seq(Pairs), \A x \in ToSet(running) : x \in AllEntries
  PROVE  SumFunction([q \in DOMAIN running |-> NextDecode(running[q])]) \in Nat
<1> DEFINE f == [q \in DOMAIN running |-> NextDecode(running[q])]
<1>1. PICK n \in Nat : n = Len(running) /\ DOMAIN running = 1..n
  OBVIOUS
<1>2. \A q \in 1..n : Entry(running[q]) \in EntryType
  <2>1. \A q \in 1..n : running[q] \in AllEntries
    BY <1>1 DEF ToSet
  <2> QED BY <2>1, AllEntriesFacts DEF TypeOK
<1>3. DOMAIN f = 1..n /\ \A q \in 1..n : f[q] \in Nat
  BY <1>1, <1>2 DEF NextDecode, EntryType
<1>4. IsFiniteSet(1..n)
  BY FS_Interval
<1> HIDE DEF f
<1>5. SumFunctionOnSet(f, 1..n) \in Nat
  BY <1>3, <1>4, SumNat
<1>6. SumFunction(f) \in Nat
  BY <1>3, <1>5 DEF SumFunction
<1> QED BY <1>6 DEF f

\* The selection begins with a fresh list of running entries.
LEMMA BeginPrefillShape ==
  ASSUME Shape, BeginPrefill
  PROVE  Shape'
<1> DEFINE running == GetRunningRequestStateEntries
           todo == IF Len(running) <= GetNumAvailablePages THEN PrefillCandidates ELSE <<>>
           total == SumFunction([q \in DOMAIN running |-> NextDecode(running[q])])
<1>1. /\ UNCHANGED <<running_queue, waiting_queue, request_states, entries, available_ids, id_cnt>>
      /\ UNCHANGED <<kv, running_rsentries, finished_rsentries, usage, submitted, deployment>>
      /\ cached_running_rsentries_' = running /\ running_rsentries_changed' = FALSE
      /\ enginePc' = "select"
  BY DEF BeginPrefill, RefreshRunning, queueVars, idVars
<1>2. prefill' = [todo |-> todo, chosen |-> <<>>, totalInput |-> total, pages |-> Len(running), num |-> 0]
  BY DEF BeginPrefill, NoSelection
<1>3. TypeOK /\ Selected /\ CacheIsFresh
  BY DEF Shape
<1>4. deployment \in Deployments /\ EntriesOK /\ QueuesOK /\ StepOK
  BY <1>3 DEF TypeOK
<1>5. running = ComputeRunning
  BY <1>3, RefreshFacts
<1>6. running \in Seq(Pairs) /\ \A x \in ToSet(running) : x \in AllEntries
  BY <1>3, <1>5, RunningFacts
<1>7. total \in Nat
  <2> HIDE DEF running
  <2> QED BY <1>3, <1>6, NextDecodeSum
<1>8. todo \in Seq(Pairs) /\ \A x \in ToSet(todo) : x \in AllEntries /\ Entry(x).inputs > 0
  <2>1. ToSet(<<>>) = {}
    BY DEF ToSet
  <2> QED BY <1>3, <2>1, CandidatesFacts
<1>9. Len(running) \in Nat
  BY <1>6
<1> HIDE DEF running, todo, total
<1>10. prefill' \in PrefillType
  BY <1>2, <1>7, <1>8, <1>9 DEF PrefillType
<1>11. EntriesOK' /\ QueuesOK'
  BY <1>1, <1>4, NextTyped DEF EntriesOK, QueuesOK
<1>12. StepOK'
  BY <1>1, <1>4, <1>6, <1>10, NextTyped DEF StepOK, Locations
<1>13. ComputeRunning' = ComputeRunning /\ AllEntries' = AllEntries /\ \A x : Entry(x)' = Entry(x)
  BY <1>1, RunningSame
<1>14. Selected'
  <2>1. prefill'.todo = todo /\ prefill'.chosen = <<>>
    BY <1>2
  <2>2. ToSet(<<>>) = {}
    BY DEF ToSet
  <2> QED BY <1>1, <1>8, <1>13, <2>1, <2>2 DEF Selected
<1>15. CacheIsFresh'
  BY <1>1, <1>5, <1>13 DEF CacheIsFresh
<1> QED BY <1>1, <1>4, <1>11, <1>12, <1>14, <1>15 DEF Shape, TypeOK

\* A step of the selection changes the selection only.
LEMMA SelectionShape ==
  ASSUME Shape, enginePc = "select",
         UNCHANGED <<queueVars, entries, idVars, cacheVars, kv, enginePc, running_rsentries,
                     finished_rsentries, fault, usage, submitted, deployment>>,
         prefill' \in PrefillType,
         \A x \in ToSet(prefill'.todo) : x \in AllEntries /\ Entry(x).inputs > 0,
         \A p \in ToSet(prefill'.chosen) :
           p.rsentry \in AllEntries /\ p.len \in 1..Entry(p.rsentry).inputs /\ ~p.isDecode
  PROVE  Shape'
<1>1. /\ UNCHANGED <<running_queue, waiting_queue, request_states, entries, available_ids, id_cnt>>
      /\ UNCHANGED <<running_rsentries_changed, cached_running_rsentries_, kv, enginePc>>
      /\ UNCHANGED <<running_rsentries, finished_rsentries, usage, submitted, deployment>>
  BY DEF queueVars, idVars, cacheVars
<1>2. TypeOK /\ Selected /\ CacheIsFresh
  BY DEF Shape
<1>3. deployment' \in Deployments /\ EntriesOK' /\ QueuesOK'
  BY <1>1, <1>2, NextTyped DEF TypeOK, EntriesOK, QueuesOK
<1>4. StepOK'
  BY <1>1, <1>2, NextTyped DEF TypeOK, StepOK
<1>5. ComputeRunning' = ComputeRunning /\ AllEntries' = AllEntries /\ \A x : Entry(x)' = Entry(x)
  BY <1>1, RunningSame
<1>6. Selected'
  BY <1>1, <1>2, <1>5 DEF Selected
<1>7. CacheIsFresh'
  BY <1>1, <1>2, <1>5 DEF CacheIsFresh
<1> QED BY <1>3, <1>4, <1>6, <1>7 DEF Shape, TypeOK

\* The next candidate, and those after it.
LEMMA HeadFacts ==
  ASSUME Shape, enginePc = "select", prefill.todo # <<>>
  PROVE  LET x == Head(prefill.todo)
         IN  /\ x \in Pairs /\ x \in AllEntries
             /\ Entry(x) \in EntryType /\ Entry(x).inputs \in Nat /\ Entry(x).inputs > 0
             /\ Tail(prefill.todo) \in Seq(Pairs)
             /\ \A y \in ToSet(Tail(prefill.todo)) : y \in AllEntries /\ Entry(y).inputs > 0
<1>1. TypeOK /\ Selected
  BY DEF Shape
<1>2. prefill.todo \in Seq(Pairs)
  BY <1>1 DEF TypeOK, StepOK, PrefillType
<1>3. PICK n \in Nat : n = Len(prefill.todo) /\ DOMAIN prefill.todo = 1..n /\ n >= 1
  BY <1>2
<1>4. Head(prefill.todo) = prefill.todo[1] /\ Head(prefill.todo) \in ToSet(prefill.todo)
  BY <1>2, <1>3 DEF ToSet
<1>5. Head(prefill.todo) \in AllEntries /\ Entry(Head(prefill.todo)).inputs > 0
  BY <1>1, <1>4 DEF Selected
<1>6. Entry(Head(prefill.todo)) \in EntryType
  BY <1>1, <1>5, AllEntriesFacts DEF TypeOK
<1>7. Entry(Head(prefill.todo)).inputs \in Nat
  BY <1>6 DEF EntryType
<1>8. Tail(prefill.todo) \in Seq(Pairs) /\ ToSet(Tail(prefill.todo)) \subseteq ToSet(prefill.todo)
  <2>1. /\ Tail(prefill.todo) \in Seq(Pairs) /\ DOMAIN Tail(prefill.todo) = 1..(n - 1)
        /\ \A i \in 1..(n - 1) : Tail(prefill.todo)[i] = prefill.todo[i + 1]
    BY <1>2, <1>3
  <2>2. \A i \in 1..(n - 1) : i + 1 \in 1..n
    OBVIOUS
  <2> QED BY <1>3, <2>1, <2>2 DEF ToSet
<1>9. \A y \in ToSet(Tail(prefill.todo)) : y \in AllEntries /\ Entry(y).inputs > 0
  BY <1>1, <1>8 DEF Selected
<1>10. Head(prefill.todo) \in Pairs
  BY <1>2, <1>3, <1>4
<1> QED BY <1>5, <1>6, <1>7, <1>8, <1>9, <1>10

\* One more input keeps the chosen inputs typed.
LEMMA ChosenFacts ==
  ASSUME Shape, enginePc = "select", NEW x \in AllEntries, NEW len \in 1..Entry(x).inputs,
         NEW k \in Nat
  PROVE  /\ Append(prefill.chosen, PrefillInput(x, len, k, FALSE)) \in Seq(InputType)
         /\ \A p \in ToSet(Append(prefill.chosen, PrefillInput(x, len, k, FALSE))) :
              p.rsentry \in AllEntries /\ p.len \in 1..Entry(p.rsentry).inputs /\ ~p.isDecode
<1> DEFINE new == PrefillInput(x, len, k, FALSE)
<1>1. TypeOK /\ Selected
  BY DEF Shape
<1>2. prefill.chosen \in Seq(InputType)
  BY <1>1 DEF TypeOK, StepOK, PrefillType
<1>3. x \in Pairs
  BY <1>1, AllEntriesFacts DEF TypeOK
<1>4. len \in Nat
  <2>1. Entry(x).inputs \in Nat
    BY <1>1, AllEntriesFacts DEF TypeOK, EntryType
  <2> QED BY <2>1
<1>5. new.rsentry = x /\ new.len = len /\ ~new.isDecode /\ new \in InputType
  BY <1>3, <1>4 DEF PrefillInput, InputType
<1> HIDE DEF new
<1>6. /\ Append(prefill.chosen, new) \in Seq(InputType)
      /\ \A y : y \in ToSet(Append(prefill.chosen, new)) <=> y \in ToSet(prefill.chosen) \/ y = new
  BY <1>2, <1>5, AppendFacts
<1>7. \A p \in ToSet(prefill.chosen) :
        p.rsentry \in AllEntries /\ p.len \in 1..Entry(p.rsentry).inputs /\ ~p.isDecode
  BY <1>1 DEF Selected
<1>8. \A p \in ToSet(Append(prefill.chosen, new)) :
        p.rsentry \in AllEntries /\ p.len \in 1..Entry(p.rsentry).inputs /\ ~p.isDecode
  BY <1>5, <1>6, <1>7
<1> QED BY <1>6, <1>8 DEF new

\* The whole entry is taken.
LEMMA TakeWholeShape ==
  ASSUME Shape, TakeWhole
  PROVE  Shape'
<1> DEFINE x == Head(prefill.todo)
           k == Max(Fitting(x))
<1>1. enginePc = "select" /\ prefill.todo # <<>> /\ Fitting(x) # {}
  BY DEF TakeWhole
<1>2. prefill' = [todo |-> Tail(prefill.todo),
                  chosen |-> Append(prefill.chosen, PrefillInput(x, Entry(x).inputs, k, FALSE)),
                  totalInput |-> prefill.totalInput + Entry(x).inputs,
                  pages |-> prefill.pages + Pages(Entry(x).inputs),
                  num |-> prefill.num + 1 + k]
  BY DEF TakeWhole
<1>3. UNCHANGED <<queueVars, entries, idVars, cacheVars, kv, enginePc, running_rsentries,
                  finished_rsentries, fault, usage, submitted, deployment>>
  BY DEF TakeWhole
<1>4. /\ x \in Pairs /\ x \in AllEntries /\ Entry(x).inputs \in Nat /\ Entry(x).inputs > 0
      /\ Tail(prefill.todo) \in Seq(Pairs)
      /\ \A y \in ToSet(Tail(prefill.todo)) : y \in AllEntries /\ Entry(y).inputs > 0
  BY <1>1, HeadFacts
<1>5. deployment \in Deployments /\ EntriesOK /\ StepOK
  BY DEF Shape, TypeOK
<1>6. k \in Nat
  <2>1. x[1] \in Requests /\ x[2] \in 1..NumEntries(x[1])
    BY <1>4, <1>5, AllEntriesFacts
  <2>2. NumChildren(x[1], x[2]) \in Nat
    BY <1>5, <2>1, NumEntriesFacts
  <2>3. PICK c \in Nat : c = NumChildren(x[1], x[2])
    BY <2>2
  <2>4. Fitting(x) \in SUBSET (0..c)
    BY <2>3 DEF Fitting
  <2>5. Max(Fitting(x)) \in Fitting(x)
    BY <1>1, <2>4, MaxFacts
  <2> QED BY <2>4, <2>5
<1>7. prefill.totalInput \in Nat /\ prefill.pages \in Nat /\ prefill.num \in Nat
  BY <1>5 DEF StepOK, PrefillType
<1>8. Pages(Entry(x).inputs) \in Nat
  BY <1>4, <1>5, PagesFacts
<1>9. Entry(x).inputs \in 1..Entry(x).inputs
  BY <1>4
<1> HIDE DEF x, k
<1>10. /\ Append(prefill.chosen, PrefillInput(x, Entry(x).inputs, k, FALSE)) \in Seq(InputType)
       /\ \A p \in ToSet(Append(prefill.chosen, PrefillInput(x, Entry(x).inputs, k, FALSE))) :
            p.rsentry \in AllEntries /\ p.len \in 1..Entry(p.rsentry).inputs /\ ~p.isDecode
  BY <1>1, <1>4, <1>6, <1>9, ChosenFacts
<1>11. prefill.totalInput + Entry(x).inputs \in Nat /\ prefill.pages + Pages(Entry(x).inputs) \in Nat
       /\ prefill.num + 1 + k \in Nat
  BY SMTT(30), <1>4, <1>6, <1>7, <1>8
<1>12. prefill' \in PrefillType
  BY <1>2, <1>4, <1>10, <1>11 DEF PrefillType
<1>13. /\ prefill'.todo = Tail(prefill.todo)
       /\ prefill'.chosen = Append(prefill.chosen, PrefillInput(x, Entry(x).inputs, k, FALSE))
  BY <1>2
<1> QED BY <1>1, <1>3, <1>4, <1>10, <1>12, <1>13, SelectionShape

\* Part of the entry is taken, or nothing.
LEMMA TakeChunkShape ==
  ASSUME Shape, TakeChunkAndStop
  PROVE  Shape'
<1> DEFINE x == Head(prefill.todo)
           room == ChunkSize - prefill.totalInput
           more == Append(prefill.chosen, PrefillInput(x, room, 0, FALSE))
           taken == /\ 0 < room /\ room < Entry(x).inputs
                    /\ CanPrefill(prefill.num + 1, ChunkSize, prefill.pages + Pages(room))
<1>1. enginePc = "select" /\ prefill.todo # <<>>
  BY DEF TakeChunkAndStop
<1>2. prefill' = [prefill EXCEPT !.todo = <<>>, !.chosen = IF taken THEN more ELSE @]
  BY DEF TakeChunkAndStop
<1>3. UNCHANGED <<queueVars, entries, idVars, cacheVars, kv, enginePc, running_rsentries,
                  finished_rsentries, fault, usage, submitted, deployment>>
  BY DEF TakeChunkAndStop
<1>4. x \in AllEntries /\ Entry(x).inputs \in Nat
  BY <1>1, HeadFacts
<1>5. TypeOK /\ Selected /\ prefill \in PrefillType
  BY DEF Shape, TypeOK, StepOK
<1>6. ChunkSize \in Nat /\ prefill.totalInput \in Nat
  BY <1>5, DeploymentFacts DEF TypeOK, PrefillType
<1>7. ASSUME taken
      PROVE  /\ more \in Seq(InputType)
             /\ \A p \in ToSet(more) :
                  p.rsentry \in AllEntries /\ p.len \in 1..Entry(p.rsentry).inputs /\ ~p.isDecode
  <2>1. room \in 1..Entry(x).inputs
    BY <1>4, <1>6, <1>7
  <2> QED BY <1>1, <1>4, <2>1, ChosenFacts
<1>8. prefill'.todo = <<>> /\ prefill'.chosen = IF taken THEN more ELSE prefill.chosen
  BY <1>2, <1>5 DEF PrefillType
<1>9. prefill.chosen \in Seq(InputType) /\
      \A p \in ToSet(prefill.chosen) :
        p.rsentry \in AllEntries /\ p.len \in 1..Entry(p.rsentry).inputs /\ ~p.isDecode
  BY <1>1, <1>5 DEF Selected, PrefillType
<1> HIDE DEF taken, more, x, room
<1>10. /\ prefill'.chosen \in Seq(InputType)
       /\ \A p \in ToSet(prefill'.chosen) :
            p.rsentry \in AllEntries /\ p.len \in 1..Entry(p.rsentry).inputs /\ ~p.isDecode
  BY <1>7, <1>8, <1>9
<1>11. prefill' \in PrefillType
  <2>1. (IF taken THEN more ELSE prefill.chosen) \in Seq(InputType)
    BY <1>7, <1>9
  <2>2. prefill' = [prefill EXCEPT !.todo = <<>>, !.chosen = IF taken THEN more ELSE prefill.chosen]
    BY <1>2, <1>5 DEF PrefillType
  <2>3. <<>> \in Seq(Pairs)
    OBVIOUS
  <2> QED BY <1>5, <2>1, <2>2, <2>3 DEF PrefillType
<1>12. ToSet(<<>>) = {}
  BY DEF ToSet
<1> QED BY <1>1, <1>3, <1>8, <1>10, <1>11, <1>12, SelectionShape

\* BatchDecode begins with the running entries, or returns.
LEMMA BeginDecodeFacts ==
  ASSUME Shape, BeginDecode, UNCHANGED <<running_queue, entries, deployment>>
  PROVE  /\ enginePc' \in {"idle", "decode"}
         /\ running_rsentries' \in Seq(Pairs)
         /\ cached_running_rsentries_' \in Seq(Pairs)
         /\ running_rsentries_changed' \in BOOLEAN
         /\ enginePc' = "decode" => running_rsentries' = ComputeRunning
         /\ CacheIsFresh'
<1>1. TypeOK /\ CacheIsFresh /\ StepOK
  BY DEF Shape, TypeOK
<1>2. ComputeRunning' = ComputeRunning
  BY RunningSame
<1>3. ComputeRunning \in Seq(Pairs)
  BY <1>1, RunningFacts
<1>4. CASE running_queue = <<>>
  <2>1. enginePc' = "idle" /\ running_rsentries' = <<>> /\ UNCHANGED cacheVars
    BY <1>4 DEF BeginDecode
  <2> QED BY <1>1, <1>2, <2>1 DEF cacheVars, CacheIsFresh, StepOK
<1>5. CASE running_queue # <<>>
  <2>1. /\ enginePc' = "decode"
        /\ running_rsentries' = GetRunningRequestStateEntries
        /\ cached_running_rsentries_' = GetRunningRequestStateEntries
        /\ running_rsentries_changed' = FALSE
    BY <1>5 DEF BeginDecode, RefreshRunning
  <2>2. GetRunningRequestStateEntries = ComputeRunning
    BY <1>1, RefreshFacts
  <2> QED BY <1>2, <1>3, <2>1, <2>2 DEF CacheIsFresh
<1> QED BY <1>4, <1>5

\* A step that leaves the requests alone and goes on with the decode actions.
LEMMA MoveOnShape ==
  ASSUME Shape, enginePc' \in {"idle", "jumpForward", "decode"},
         UNCHANGED <<queueVars, entries, idVars, kv, finished_rsentries, usage, submitted, deployment>>,
         prefill' \in {prefill, NoSelection},
         running_rsentries' \in Seq(Pairs), cached_running_rsentries_' \in Seq(Pairs),
         running_rsentries_changed' \in BOOLEAN, CacheIsFresh'
  PROVE  Shape'
<1>1. /\ UNCHANGED <<running_queue, waiting_queue, request_states, entries, available_ids, id_cnt>>
      /\ UNCHANGED <<kv, finished_rsentries, usage, submitted, deployment>>
  BY DEF queueVars, idVars
<1>2. TypeOK
  BY DEF Shape
<1>3. deployment' \in Deployments /\ EntriesOK' /\ QueuesOK'
  BY <1>1, <1>2, NextTyped DEF TypeOK, EntriesOK, QueuesOK
<1>4. prefill' \in PrefillType
  <2>1. NoSelection \in PrefillType
    BY DEF NoSelection, PrefillType
  <2> QED BY <1>2, <2>1 DEF TypeOK, StepOK
<1>5. enginePc' \in Locations /\ enginePc' # "finish" /\ enginePc' # "select"
  BY DEF Locations
<1>6. StepOK'
  BY <1>1, <1>2, <1>4, <1>5, NextTyped DEF TypeOK, StepOK
<1>7. Selected'
  BY <1>5 DEF Selected
<1> QED BY <1>3, <1>6, <1>7 DEF Shape, TypeOK

\* Nothing to prefill.
LEMMA NothingShape ==
  ASSUME Shape, NothingToPrefill
  PROVE  Shape'
<1>1. /\ prefill' = NoSelection
      /\ UNCHANGED <<queueVars, entries, idVars, kv, finished_rsentries, usage, submitted, deployment>>
  BY DEF NothingToPrefill
<1>2. UNCHANGED <<running_queue, entries, deployment>>
  BY <1>1 DEF queueVars
<1>3. CASE Disaggregation
  <2>1. BeginDecode
    BY <1>3 DEF NothingToPrefill
  <2>2. /\ enginePc' \in {"idle", "jumpForward", "decode"} /\ running_rsentries' \in Seq(Pairs)
        /\ cached_running_rsentries_' \in Seq(Pairs) /\ running_rsentries_changed' \in BOOLEAN
        /\ CacheIsFresh'
    BY <1>2, <2>1, BeginDecodeFacts
  <2> QED BY <1>1, <2>2, MoveOnShape
<1>4. CASE ~Disaggregation
  <2>1. /\ enginePc' = "jumpForward" /\ running_rsentries' = cached_running_rsentries_
        /\ UNCHANGED <<running_rsentries_changed, cached_running_rsentries_>>
    BY <1>4 DEF NothingToPrefill, cacheVars
  <2>2. ComputeRunning' = ComputeRunning
    BY <1>2, RunningSame
  <2>3. CacheIsFresh'
    BY <2>1, <2>2 DEF Shape, CacheIsFresh
  <2>4. running_rsentries' \in Seq(Pairs) /\ cached_running_rsentries_' \in Seq(Pairs)
        /\ running_rsentries_changed' \in BOOLEAN
    BY <2>1 DEF Shape, TypeOK, StepOK
  <2> QED BY <1>1, <2>1, <2>3, <2>4, MoveOnShape
<1> QED BY <1>3, <1>4

\* There is room to jump forward.
LEMMA JumpForwardDoneShape ==
  ASSUME Shape, JumpForwardDone
  PROVE  Shape'
<1>1. /\ prefill' = prefill /\ BeginDecode
      /\ UNCHANGED <<queueVars, entries, idVars, kv, finished_rsentries, usage, submitted, deployment>>
  BY DEF JumpForwardDone
<1>2. UNCHANGED <<running_queue, entries, deployment>>
  BY <1>1 DEF queueVars
<1>3. /\ enginePc' \in {"idle", "jumpForward", "decode"} /\ running_rsentries' \in Seq(Pairs)
      /\ cached_running_rsentries_' \in Seq(Pairs) /\ running_rsentries_changed' \in BOOLEAN
      /\ CacheIsFresh'
  BY <1>1, <1>2, BeginDecodeFacts
<1> QED BY <1>1, <1>3, MoveOnShape

\* The last alive entry of a request with an alive entry.
LEMMA LastAliveFacts ==
  ASSUME TypeOK, NEW r \in Requests, AliveIds(r) # {}
  PROVE  /\ LastAlive(r) \in DOMAIN entries[r]
         /\ entries[r][LastAlive(r)].status = "kAlive"
<1> DEFINE S == {j \in DOMAIN entries[r] : entries[r][j].status = "kAlive"}
<1>1. deployment \in Deployments /\ EntriesOK
  BY DEF TypeOK
<1>2. PICK n \in Nat : DOMAIN entries[r] = 1..n
  BY <1>1, EntryFacts
<1>3. S # {}
  BY DEF AliveIds
<1>4. S \in SUBSET (0..n)
  BY <1>2
<1>5. \A j \in S : j \in DOMAIN entries[r] /\ entries[r][j].status = "kAlive"
  OBVIOUS
<1>6. LastAlive(r) = Max(S)
  BY DEF LastAlive
<1> HIDE DEF S
<1>7. Max(S) \in S
  BY <1>3, <1>4, MaxFacts
<1> QED BY <1>5, <1>6, <1>7

\* A preempted entry waits again, under a new id.
LEMMA PreemptShape ==
  ASSUME Shape, running_queue # <<>>, NEW r, r = Last(running_queue), NEW i \in DOMAIN entries[r],
         PreemptEntry(r, i), enginePc # "select", running_rsentries' \in Seq(Pairs)
  PROVE  Shape'
<1> DEFINE new == [entries[r][i] EXCEPT !.status = "kPending", !.id = NewIds(1)[1],
                     !.inputs = InputsAgain(r, i), !.num_tokens_for_next_decode = 0]
<1>1. /\ UNCHANGED <<request_states, cached_running_rsentries_, enginePc, prefill>>
      /\ UNCHANGED <<finished_rsentries, usage, submitted, deployment>>
      /\ entries' = [entries EXCEPT ![r][i] = new]
      /\ kv' = WithoutSequences({entries[r][i].id})
      /\ TakeIds(1)
      /\ running_queue' = IF i = 1 THEN Front(running_queue) ELSE running_queue
      /\ waiting_queue' = IF entries[r][i].inputs = 0 /\ i = Len(entries[r])
                            THEN <<r>> \o waiting_queue ELSE waiting_queue
      /\ running_rsentries_changed' = TRUE
  BY DEF PreemptEntry, InvalidateRunning, LeaveRunning, WaitAgain
<1>2. deployment \in Deployments /\ EntriesOK /\ QueuesOK /\ StepOK
  BY DEF Shape, TypeOK
<1>3. running_queue \in Seq(Requests) /\ r \in ToSet(running_queue) /\ r \in Requests /\ r \in request_states
  <2>1. running_queue \in Seq(Requests)
    BY <1>2 DEF QueuesOK
  <2>2. r \in ToSet(running_queue) /\ r \in Requests
    BY <2>1, FrontFacts
  <2> QED BY <1>2, <2>1, <2>2 DEF QueuesOK
<1>4. DOMAIN entries[r] = 1..NumEntries(r) /\ \A j \in DOMAIN entries[r] : entries[r][j] \in EntryType
  BY <1>2, <1>3, EntryFacts
<1>5. NewIds(1)[1] \in Nat /\ available_ids' \in Seq(Nat) /\ id_cnt' \in Nat
  <2>1. NewIds(1) \in [1..1 -> Nat] /\ available_ids' \in Seq(Nat) /\ id_cnt' \in Nat
    BY <1>1, <1>2, NewIdsFacts DEF StepOK
  <2> QED BY <2>1
<1>6. new \in EntryType
  <2>1. InputsAgain(r, i) \in Nat
    <3>1. PromptTokens[r] \in Nat
      BY <1>2, <1>3, DeploymentFacts
    <3>2. entries[r][i].committed \in Nat
      BY <1>4 DEF EntryType
    <3> QED BY <3>1, <3>2 DEF InputsAgain
  <2>2. PICK e \in EntryType : e = entries[r][i]
    BY <1>4
  <2>3. \A id \in Nat, k \in Nat :
          [e EXCEPT !.status = "kPending", !.id = id, !.inputs = k,
                    !.num_tokens_for_next_decode = 0] \in EntryType
    BY DEF EntryType, Statuses
  <2> QED BY <1>5, <2>1, <2>2, <2>3
<1> HIDE DEF new
<1>7. EntriesOK'
  <2>1. Requests' = Requests /\ \A q : NumEntries(q)' = NumEntries(q)
    BY <1>1, DeploymentFixed
  <2>2. DOMAIN entries = Requests
    BY <1>2 DEF EntriesOK, Trees
  <2>3. DOMAIN entries' = Requests /\ entries'[r] = [entries[r] EXCEPT ![i] = new]
    BY <1>1, <1>3, <2>2
  <2>4. entries'[r] \in [1..NumEntries(r) -> EntryType]
    <3>1. entries[r] \in [1..NumEntries(r) -> EntryType]
      BY <1>2, <1>3 DEF EntriesOK, Trees
    <3> HIDE DEF EntryType
    <3> QED BY <1>6, <2>3, <3>1
  <2>5. \A q \in Requests \ {r} : entries'[q] = entries[q]
    BY <1>1, <2>2
  <2> QED BY <1>1, <1>2, <1>3, <2>1, <2>3, <2>4, <2>5 DEF EntriesOK, Trees
<1>8. QueuesOK'
  <2>1. running_queue' \in Seq(Requests) /\ ToSet(running_queue') \subseteq ToSet(running_queue)
    BY <1>1, <1>3, FrontFacts
  <2>2. <<r>> \o waiting_queue \in Seq(Requests)
    <3>1. <<r>> \in Seq(Requests) /\ waiting_queue \in Seq(Requests)
      BY <1>2, <1>3 DEF QueuesOK
    <3> QED BY <3>1
  <2> QED BY <1>1, <1>2, <2>1, <2>2, NextTyped DEF QueuesOK
<1>9. kv' \in [DOMAIN kv' -> Nat] /\ DOMAIN kv' \subseteq Nat
  BY <1>1, <1>2 DEF StepOK, WithoutSequences
<1>10. StepOK'
  BY <1>1, <1>2, <1>5, <1>9, NextTyped DEF StepOK
<1>11. Selected' /\ CacheIsFresh'
  BY <1>1 DEF Selected, CacheIsFresh
<1> QED BY <1>1, <1>2, <1>7, <1>8, <1>10, <1>11 DEF Shape, TypeOK

\* Forgetting the preempted entry.
LEMMA ForgetTyped ==
  ASSUME Shape, NEW x, ForgetPreempted(x)
  PROVE  /\ running_rsentries' \in Seq(Pairs)
         /\ ToSet(running_rsentries') \subseteq ToSet(running_rsentries)
<1>1. running_rsentries \in Seq(Pairs)
  BY DEF Shape, TypeOK, StepOK
<1>2. Front(running_rsentries) \in Seq(Pairs) /\ ToSet(Front(running_rsentries)) \subseteq ToSet(running_rsentries)
  BY <1>1, FrontFacts
<1> QED BY <1>1, <1>2 DEF ForgetPreempted

\* The preemption of the last running entry.
LEMMA PreemptLastShape ==
  ASSUME Shape, PreemptLast, enginePc # "select"
  PROVE  Shape'
<1> DEFINE r == Last(running_queue)
           i == LastAlive(r)
<1>1. CASE running_queue = <<>> \/ AliveIds(r) = {}
  <2>1. Fail("no entry to preempt")
    BY <1>1 DEF PreemptLast
  <2> QED BY <2>1, FailShape
<1>2. CASE running_queue # <<>> /\ AliveIds(r) # {} /\ ~(AliveIds(r) \subseteq DOMAIN kv)
  <2>1. Fail("sequence not in the KV cache")
    BY <1>2 DEF PreemptLast
  <2> QED BY <2>1, FailShape
<1>3. CASE running_queue # <<>> /\ AliveIds(r) # {} /\ AliveIds(r) \subseteq DOMAIN kv
  <2>1. (IF Disaggregation THEN DropRequest(r) ELSE PreemptEntry(r, i)) /\ ForgetPreempted(<<r, i>>)
    BY <1>3 DEF PreemptLast
  <2>2. running_rsentries' \in Seq(Pairs)
    BY <2>1, ForgetTyped
  <2>3. TypeOK /\ running_queue \in Seq(Requests) /\ ToSet(running_queue) \subseteq request_states
    BY DEF Shape, TypeOK, QueuesOK
  <2>4. r \in Requests /\ r \in request_states
    BY <1>3, <2>3, FrontFacts
  <2>5. i \in DOMAIN entries[r]
    BY <1>3, <2>3, <2>4, LastAliveFacts
  <2>6. CASE Disaggregation
    BY <2>1, <2>2, <2>4, <2>6, DropShape
  <2>7. CASE ~Disaggregation
    <3>1. PreemptEntry(r, i)
      BY <2>1, <2>7
    <3>2. PICK q : q = r
      OBVIOUS
    <3>3. PICK j : j = i
      OBVIOUS
    <3>4. q = Last(running_queue) /\ j \in DOMAIN entries[q] /\ PreemptEntry(q, j)
      BY <2>5, <3>1, <3>2, <3>3
    <3> HIDE DEF r, i
    <3> QED BY <1>3, <2>2, <3>4, PreemptShape
  <2> QED BY <2>6, <2>7
<1> QED BY <1>1, <1>2, <1>3

\* The ids of the sequences a prefill inserts are those of entries.
LEMMA InsertedFacts ==
  ASSUME Shape, enginePc = "select"
  PROVE  /\ \A x \in EntriesToInsert(PrefillInputs) : x \in AllEntries
         /\ {Entry(x).id : x \in EntriesToInsert(PrefillInputs)} \in SUBSET Nat
<1> DEFINE inputs == PrefillInputs
<1>1. EntriesOK /\ deployment \in Deployments
  BY DEF Shape, TypeOK
<1>2. ASSUME NEW p \in ToSet(inputs), NEW j \in Activated(p) PROVE <<p.rsentry[1], j>> \in AllEntries
  <2>1. p.rsentry \in AllEntries
    BY PrefillInputsFacts
  <2>2. j \in 2..NumEntries(p.rsentry[1])
    BY <1>2 DEF Activated, Unblocked
  <2>3. p.rsentry[1] \in Requests /\ p.rsentry[1] \in request_states
    BY <1>1, <2>1, AllEntriesFacts
  <2>4. DOMAIN entries[p.rsentry[1]] = 1..NumEntries(p.rsentry[1]) /\ NumEntries(p.rsentry[1]) \in Nat
    BY <1>1, <2>3, EntryFacts, NumEntriesFacts
  <2>5. j \in 1..NumEntries(p.rsentry[1])
    BY <2>2, <2>4
  <2> QED BY <1>1, <2>3, <2>4, <2>5, AllEntriesFacts
<1>3. ASSUME NEW x \in EntriesToInsert(inputs) PROVE x \in AllEntries
  <2>1. CASE x \in {p.rsentry : p \in {q \in ToSet(inputs) : Entry(q.rsentry).status = "kPending"}}
    BY <2>1, PrefillInputsFacts
  <2>2. CASE x \in UNION {{p.rsentry[1]} \X Activated(p) : p \in ToSet(inputs)}
    <3>1. PICK p \in ToSet(inputs) : x \in {p.rsentry[1]} \X Activated(p)
      BY <2>2
    <3>2. PICK j \in Activated(p) : x = <<p.rsentry[1], j>>
      BY <3>1
    <3> QED BY <1>2, <3>2
  <2> QED BY <1>3, <2>1, <2>2 DEF EntriesToInsert
<1>4. \A x \in AllEntries : Entry(x).id \in Nat
  BY <1>1, AllEntriesFacts DEF EntryType
<1> QED BY <1>3, <1>4

\* The prefill that goes ahead.
PrefillGoesAhead ==
  LET inputs == PrefillInputs
      ids == {Entry(x).id : x \in EntriesToInsert(inputs)}
  IN  /\ ids \cap DOMAIN kv = {}
      /\ Cardinality(ids) = Cardinality(EntriesToInsert(inputs))
      /\ kv' = KVAfterPrefill(inputs, ids)
      /\ running_queue' = running_queue \o StartedRequests(inputs)
      /\ waiting_queue' = InOrder(waiting_queue, {r \in Requests :
           ~(Contains(RequestsOf(inputs), r) /\ FullyPrefilled(EntriesAfterPrefill(inputs)[r]))})
      /\ PostProcess(RequestsOf(inputs), EntriesAfterPrefill(inputs))
      /\ running_rsentries_changed' = TRUE
      /\ prefill' = NoSelection
      /\ UNCHANGED <<request_states, available_ids, id_cnt, cached_running_rsentries_>>
      /\ UNCHANGED <<running_rsentries, fault, usage, submitted, deployment>>

\* NewRequestPrefill goes ahead or fails.
LEMMA PrefillCases ==
  ASSUME NewRequestPrefill
  PROVE  /\ enginePc = "select" /\ prefill.todo = <<>> /\ prefill.chosen # <<>>
         /\ PrefillGoesAhead \/ Fail("a sequence cannot be prefilled")
BY DEF NewRequestPrefill, PrefillGoesAhead, InvalidateRunning, idVars

\* A prefill that goes ahead: the typed entries, and the queues.
LEMMA PrefillFacts ==
  ASSUME Shape, enginePc = "select", PrefillGoesAhead
  PROVE  /\ PrefillInputs \in Seq(InputType)
         /\ Trees(EntriesAfterPrefill(PrefillInputs))
         /\ RequestsOf(PrefillInputs) \in Seq(Requests)
         /\ ToSet(RequestsOf(PrefillInputs)) \subseteq request_states
         /\ StartedRequests(PrefillInputs) \in Seq(Requests)
         /\ ToSet(StartedRequests(PrefillInputs)) \subseteq request_states
<1>1. PrefillInputs \in Seq(InputType) /\ \A p \in ToSet(PrefillInputs) : p.rsentry \in AllEntries
  BY PrefillInputsFacts
<1>2. EntriesOK /\ deployment \in Deployments
  BY DEF Shape, TypeOK
<1>3. \A p \in ToSet(PrefillInputs) : p.rsentry[1] \in request_states
  BY <1>1, <1>2, AllEntriesFacts
<1>4. /\ RequestsOf(PrefillInputs) \in Seq(Requests)
      /\ ToSet(RequestsOf(PrefillInputs)) \subseteq request_states
  BY <1>1, <1>3, RequestsOfFacts
<1>5. /\ StartedRequests(PrefillInputs) \in Seq(Requests)
      /\ ToSet(StartedRequests(PrefillInputs)) \subseteq request_states
  BY <1>1, <1>3, StartedFacts DEF StartInputs
<1> QED BY <1>1, <1>4, <1>5, EntriesAfterPrefillTyped

\* The prefill.
LEMMA NewRequestPrefillShape ==
  ASSUME Shape, NewRequestPrefill
  PROVE  Shape'
<1>1. enginePc = "select"
  BY PrefillCases
<1>2. CASE Fail("a sequence cannot be prefilled")
  BY <1>2, FailShape
<1>3. CASE PrefillGoesAhead
  <2> DEFINE inputs == PrefillInputs
             ids == {Entry(x).id : x \in EntriesToInsert(inputs)}
             W == {r \in Requests :
                     ~(Contains(RequestsOf(inputs), r) /\ FullyPrefilled(EntriesAfterPrefill(inputs)[r]))}
  <2>1. /\ kv' = KVAfterPrefill(inputs, ids)
        /\ running_queue' = running_queue \o StartedRequests(inputs)
        /\ waiting_queue' = InOrder(waiting_queue, W)
        /\ PostProcess(RequestsOf(inputs), EntriesAfterPrefill(inputs))
        /\ running_rsentries_changed' = TRUE
        /\ prefill' = NoSelection
        /\ UNCHANGED <<request_states, available_ids, id_cnt, cached_running_rsentries_>>
        /\ UNCHANGED <<running_rsentries, fault, usage, submitted, deployment>>
    BY <1>3 DEF PrefillGoesAhead
  <2>2. deployment \in Deployments /\ QueuesOK /\ StepOK
    BY DEF Shape, TypeOK
  <2>3. /\ inputs \in Seq(InputType) /\ Trees(EntriesAfterPrefill(inputs))
        /\ RequestsOf(inputs) \in Seq(Requests) /\ ToSet(RequestsOf(inputs)) \subseteq request_states
        /\ StartedRequests(inputs) \in Seq(Requests)
        /\ ToSet(StartedRequests(inputs)) \subseteq request_states
    BY <1>1, <1>3, PrefillFacts
  <2>4. ids \in SUBSET Nat
    BY <1>1, InsertedFacts
  <2> HIDE DEF ids, W, inputs
  <2>5. kv' \in [DOMAIN kv' -> Nat] /\ DOMAIN kv' \subseteq Nat
    <3>1. /\ KVAfterPrefill(inputs, ids) \in [DOMAIN kv \cup ids -> Nat]
          /\ DOMAIN KVAfterPrefill(inputs, ids) = DOMAIN kv \cup ids
      BY <2>2, <2>3, <2>4, KVAfterPrefillTyped
    <3> QED BY <2>1, <2>2, <2>4, <3>1 DEF StepOK
  <2>6. /\ Trees(entries') /\ finished_rsentries' \in Seq(Pairs)
        /\ enginePc' \in {"idle", "finish"}
        /\ enginePc' = "finish" => finished_rsentries' # <<>>
    BY <2>1, <2>2, <2>3, PostProcessFacts
  <2>7. EntriesOK'
    BY <2>1, <2>6, NextTyped
  <2>8. QueuesOK'
    <3>1. running_queue \in Seq(Requests) /\ waiting_queue \in Seq(Requests)
      BY <2>2 DEF QueuesOK
    <3>2. /\ running_queue' \in Seq(Requests)
          /\ \A y : y \in ToSet(running_queue') <=>
               y \in ToSet(running_queue) \/ y \in ToSet(StartedRequests(inputs))
      BY <2>1, <2>3, <3>1, ConcatFacts
    <3>3. waiting_queue' \in Seq(Requests)
      BY <2>1, <3>1, InOrderFacts
    <3> QED BY <2>1, <2>2, <2>3, <3>2, <3>3, NextTyped DEF QueuesOK
  <2>9. NoSelection \in PrefillType
    BY DEF NoSelection, PrefillType
  <2>10. StepOK'
    BY <2>1, <2>2, <2>5, <2>6, <2>9, NextTyped DEF StepOK, Locations
  <2>11. Selected' /\ CacheIsFresh'
    BY <2>1, <2>6 DEF Selected, CacheIsFresh
  <2> QED BY <2>1, <2>2, <2>7, <2>8, <2>10, <2>11 DEF Shape, TypeOK
<1> QED BY <1>2, <1>3, PrefillCases

\* The entries after a decode: those of the batch have one token more.
Decoded ==
  [r \in Requests |-> [i \in DOMAIN entries[r] |->
     IF <<r, i>> \in DecodeBatch
       THEN Committed([entries[r][i] EXCEPT !.num_tokens_for_next_decode = 0])
       ELSE entries[r][i]]]

\* ... are typed, and a decode changes neither statuses nor inputs.
LEMMA DecodedFacts ==
  ASSUME TypeOK
  PROVE  /\ Trees(Decoded)
         /\ \A r \in Requests :
              /\ DOMAIN Decoded[r] = DOMAIN entries[r]
              /\ \A i \in DOMAIN entries[r] :
                   Decoded[r][i] = IF <<r, i>> \in DecodeBatch
                                     THEN [entries[r][i] EXCEPT !.num_tokens_for_next_decode = 1,
                                             !.committed = entries[r][i].committed + 1]
                                     ELSE entries[r][i]
<1>1. deployment \in Deployments /\ EntriesOK
  BY DEF TypeOK
<1> DEFINE d(r, i) == IF <<r, i>> \in DecodeBatch
                        THEN Committed([entries[r][i] EXCEPT !.num_tokens_for_next_decode = 0])
                        ELSE entries[r][i]
<1>2. Decoded = [r \in Requests |-> [i \in DOMAIN entries[r] |-> d(r, i)]]
  BY DEF Decoded
<1>3. ASSUME NEW e \in EntryType
      PROVE  /\ Committed([e EXCEPT !.num_tokens_for_next_decode = 0]) =
                  [e EXCEPT !.num_tokens_for_next_decode = 1, !.committed = e.committed + 1]
             /\ [e EXCEPT !.num_tokens_for_next_decode = 1, !.committed = e.committed + 1] \in EntryType
  <2>1. e.committed + 1 \in Nat
    BY <1>3 DEF EntryType
  <2>2. [e EXCEPT !.num_tokens_for_next_decode = 1, !.committed = e.committed + 1] \in EntryType
    BY <1>3, <2>1 DEF EntryType
  <2>3. Committed([e EXCEPT !.num_tokens_for_next_decode = 0]) =
          [e EXCEPT !.num_tokens_for_next_decode = 1, !.committed = e.committed + 1]
    <3>1. PICK f : f = [e EXCEPT !.num_tokens_for_next_decode = 0]
      OBVIOUS
    <3>2. f.committed = e.committed /\ f.num_tokens_for_next_decode = 0
      BY <1>3, <3>1 DEF EntryType
    <3>3. Committed(f) = [f EXCEPT !.committed = f.committed + 1,
                            !.num_tokens_for_next_decode = f.num_tokens_for_next_decode + 1]
      BY <1>3, <3>1 DEF Committed, EntryType
    <3>4. Committed(f) = [f EXCEPT !.committed = e.committed + 1, !.num_tokens_for_next_decode = 1]
      BY <3>2, <3>3
    <3>5. [f EXCEPT !.committed = e.committed + 1, !.num_tokens_for_next_decode = 1] =
          [e EXCEPT !.num_tokens_for_next_decode = 1, !.committed = e.committed + 1]
      BY <1>3, <3>1 DEF EntryType
    <3> QED BY <3>1, <3>4, <3>5
  <2> QED BY <2>2, <2>3
<1>4. ASSUME NEW r \in Requests, NEW i \in DOMAIN entries[r]
      PROVE  /\ d(r, i) = IF <<r, i>> \in DecodeBatch
                            THEN [entries[r][i] EXCEPT !.num_tokens_for_next_decode = 1,
                                    !.committed = entries[r][i].committed + 1]
                            ELSE entries[r][i]
             /\ d(r, i) \in EntryType
  <2>1. PICK e \in EntryType : e = entries[r][i]
    <3>1. r \in request_states
      BY <1>1, <1>4, EntryFacts
    <3> QED BY <1>1, <1>4, <3>1, EntryFacts
  <2>2. CASE <<r, i>> \in DecodeBatch
    BY <1>3, <2>1, <2>2
  <2>3. CASE <<r, i>> \notin DecodeBatch
    BY <2>1, <2>3
  <2> QED BY <2>2, <2>3
<1> HIDE DEF d
<1>5. ASSUME NEW r \in Requests, r \in request_states
      PROVE  Decoded[r] \in [1..NumEntries(r) -> EntryType]
  <2>1. DOMAIN entries[r] = 1..NumEntries(r)
    BY <1>1, <1>5, EntryFacts
  <2>2. Decoded[r] = [i \in 1..NumEntries(r) |-> d(r, i)]
    BY <1>2, <2>1
  <2>3. \A i \in 1..NumEntries(r) : d(r, i) \in EntryType
    BY <1>4, <2>1
  <2> HIDE DEF EntryType
  <2> QED BY <2>2, <2>3
<1>6. ASSUME NEW r \in Requests, r \notin request_states PROVE Decoded[r] = <<>>
  <2>1. DOMAIN entries[r] = {}
    BY <1>1, <1>6, EntryFacts
  <2>2. Decoded[r] = [i \in {} |-> d(r, i)]
    BY <1>2, <2>1
  <2> QED BY <2>2
<1>7. DOMAIN Decoded = Requests
  BY <1>2
<1>8. Trees(Decoded)
  BY <1>5, <1>6, <1>7 DEF Trees
<1> QED BY <1>2, <1>4, <1>8

\* The decode.
LEMMA BatchDecodeShape ==
  ASSUME Shape, BatchDecode
  PROVE  Shape'
<1>1. CASE ~BatchIsSound
  BY <1>1, FailShape DEF BatchDecode
<1>2. CASE BatchIsSound
  <2> DEFINE ofS(s) == {x \in DecodeBatch : Entry(x).id = s}
             step(s) == IF ofS(s) = {} THEN kv[s] ELSE kv[s] + NextDecode(CHOOSE x \in ofS(s) : TRUE)
  <2>1. Decode
    BY <1>2 DEF BatchDecode
  <2>2. /\ PostProcess(running_queue, Decoded)
        /\ running_rsentries' = <<>>
        /\ UNCHANGED <<running_queue, waiting_queue, request_states, available_ids, id_cnt>>
        /\ UNCHANGED <<running_rsentries_changed, cached_running_rsentries_, prefill>>
        /\ UNCHANGED <<fault, usage, submitted, deployment>>
    BY <2>1 DEF Decode, Decoded, queueVars, idVars, cacheVars
  <2>3. kv' = [s \in DOMAIN kv |-> step(s)]
    BY <2>1 DEF Decode
  <2>4. TypeOK /\ deployment \in Deployments /\ EntriesOK /\ QueuesOK /\ StepOK
    BY DEF Shape, TypeOK
  <2>5. ASSUME NEW s \in DOMAIN kv PROVE step(s) \in Nat
    <3>1. kv[s] \in Nat
      BY <2>4 DEF StepOK
    <3>2. CASE ofS(s) # {}
      <4> DEFINE x == CHOOSE x \in ofS(s) : TRUE
      <4>1. x \in ofS(s)
        BY <3>2
      <4>2. x \in DecodeBatch
        BY <4>1
      <4>3. x \in Pairs
        <5>1. PICK n \in Nat : n = Len(running_rsentries) /\ DOMAIN running_rsentries = 1..n
          BY SMTT(30), <2>4 DEF StepOK
        <5>2. \A q \in 1..n : running_rsentries[q] \in Pairs
          BY <2>4, <5>1 DEF StepOK
        <5> HIDE DEF x, ofS
        <5> QED BY <4>2, <5>1, <5>2 DEF DecodeBatch
      <4>4. x[1] \in request_states
        BY <1>2, <4>2 DEF BatchIsSound
      <4>5. x[1] \in Requests /\ x[2] \in 1..NumEntries(x[1])
        <5> HIDE DEF x
        <5> QED BY <4>3 DEF Pairs
      <4>6. Entry(x) \in EntryType
        <5>1. DOMAIN entries[x[1]] = 1..NumEntries(x[1])
              /\ \A j \in DOMAIN entries[x[1]] : entries[x[1]][j] \in EntryType
          BY <2>4, <4>4, <4>5, EntryFacts
        <5> HIDE DEF x
        <5> QED BY <4>5, <5>1 DEF Entry
      <4>7. NextDecode(x) \in Nat
        BY <4>6 DEF NextDecode, EntryType
      <4>8. step(s) = kv[s] + NextDecode(x)
        BY <3>2
      <4> HIDE DEF x, step
      <4> QED BY <3>1, <4>7, <4>8
    <3> QED BY <3>1, <3>2
  <2> HIDE DEF step
  <2>6. kv' \in [DOMAIN kv' -> Nat] /\ DOMAIN kv' \subseteq Nat
    BY <2>3, <2>4, <2>5 DEF StepOK
  <2>7. Trees(Decoded)
    BY <2>4, DecodedFacts
  <2>8. running_queue \in Seq(Requests) /\ ToSet(running_queue) \subseteq request_states
    BY <2>4 DEF QueuesOK
  <2>9. /\ Trees(entries')
        /\ \A r \in Requests : DOMAIN entries'[r] = DOMAIN Decoded[r]
        /\ \A r \in Requests : \A i \in DOMAIN Decoded[r] :
             entries'[r][i] = IF <<r, i>> \in FreshIn(running_queue, Decoded)
                                THEN [Decoded[r][i] EXCEPT !.next_callback_token_pos = Decoded[r][i].committed]
                                ELSE Decoded[r][i]
        /\ finished_rsentries' \in Seq(Pairs)
        /\ enginePc' \in {"idle", "finish"}
        /\ enginePc' = "finish" => finished_rsentries' # <<>>
    BY <2>2, <2>4, <2>7, <2>8, PostProcessFacts
  <2>10. EntriesOK' /\ QueuesOK'
    BY <2>2, <2>4, <2>9, NextTyped DEF QueuesOK
  <2>11. <<>> \in Seq(Pairs)
    OBVIOUS
  <2>12. StepOK'
    BY <2>2, <2>4, <2>6, <2>9, <2>11, NextTyped DEF StepOK, Locations
  <2>13. ComputeRunning' = ComputeRunning
    <3>1. ASSUME NEW r \in Requests, NEW i \in DOMAIN entries[r]
          PROVE  /\ entries'[r][i].status = entries[r][i].status
                 /\ entries'[r][i].inputs = entries[r][i].inputs
      <4>1. PICK e \in EntryType : e = entries[r][i]
        <5>1. r \in request_states
          BY <2>4, <3>1, EntryFacts
        <5> QED BY <2>4, <3>1, <5>1, EntryFacts
      <4>2. PICK f : f = Decoded[r][i]
        OBVIOUS
      <4>3. f \in {e, [e EXCEPT !.num_tokens_for_next_decode = 1, !.committed = e.committed + 1]}
        BY <2>4, <3>1, <4>1, <4>2, DecodedFacts
      <4>4. entries'[r][i] \in {f, [f EXCEPT !.next_callback_token_pos = f.committed]}
        BY <2>4, <2>9, <3>1, <4>2, DecodedFacts
      <4>5. f.status = e.status /\ f.inputs = e.inputs /\ f \in EntryType
        <5>1. e.committed + 1 \in Nat
          BY DEF EntryType
        <5>2. CASE f = e
          BY <4>1, <5>2
        <5>3. CASE f = [e EXCEPT !.num_tokens_for_next_decode = 1, !.committed = e.committed + 1]
          BY <5>1, <5>3 DEF EntryType
        <5> QED BY <4>3, <5>2, <5>3
      <4>6. entries'[r][i].status = f.status /\ entries'[r][i].inputs = f.inputs
        BY <4>4, <4>5 DEF EntryType
      <4> QED BY <4>1, <4>5, <4>6
    <3>2. ToSet(running_queue) \subseteq Requests
      BY <2>8, ToSetFacts
    <3>3. \A r \in Requests : DOMAIN entries'[r] = DOMAIN entries[r]
      BY <2>4, <2>9, DecodedFacts
    <3> QED BY <2>2, <2>4, <3>1, <3>2, <3>3, RunningAgree
  <2>14. Selected' /\ CacheIsFresh'
    BY <2>2, <2>9, <2>13 DEF Selected, CacheIsFresh, Shape
  <2> QED BY <2>2, <2>4, <2>10, <2>12, <2>14 DEF Shape, TypeOK
<1> QED BY <1>1, <1>2

\* What finishing an entry changes.
LEMMA FinishCases ==
  ASSUME FinishEntry
  PROVE  LET x == Head(finished_rsentries)
             r == x[1]
             es == [entries[r] EXCEPT ![x[2]].status = "kFinished"]
             all == AllFinished(r, es)
             removed == Removed(r, x[2], es)
             ids == [q \in DOMAIN removed |-> es[removed[q]].id]
         IN  /\ enginePc = "finish"
             /\ \/ Fail("sequence not in the KV cache")
                \/ Fail("finished request is not in the running queue")
                \/ /\ ToSet(ids) \subseteq DOMAIN kv
                   /\ kv' = WithoutSequences(ToSet(ids))
                   /\ available_ids' = available_ids \o ids
                   /\ entries' = [entries EXCEPT ![r] = IF all THEN <<>> ELSE es]
                   /\ running_queue' = IF all THEN InOrder(running_queue, Requests \ {r}) ELSE running_queue
                   /\ request_states' = IF all THEN request_states \ {r} ELSE request_states
                   /\ usage' = IF all THEN [usage EXCEPT ![r] = @ + 1] ELSE usage
                   /\ finished_rsentries' = Tail(finished_rsentries)
                   /\ enginePc' = IF Tail(finished_rsentries) = <<>> THEN "idle" ELSE "finish"
                   /\ running_rsentries_changed' = TRUE
                   /\ UNCHANGED <<waiting_queue, id_cnt, cached_running_rsentries_, prefill>>
                   /\ UNCHANGED <<running_rsentries, fault, submitted, deployment>>
BY DEF FinishEntry, InvalidateRunning

\* The end of an entry, and of its request with the last one.
LEMMA FinishShape ==
  ASSUME Shape, FinishEntry
  PROVE  Shape'
<1> DEFINE x == Head(finished_rsentries)
           r == x[1]
           es == [entries[r] EXCEPT ![x[2]].status = "kFinished"]
           all == AllFinished(r, es)
           removed == Removed(r, x[2], es)
           ids == [q \in DOMAIN removed |-> es[removed[q]].id]
<1>1. CASE \/ Fail("sequence not in the KV cache")
           \/ Fail("finished request is not in the running queue")
  BY <1>1, FailShape
<1>2. CASE /\ ToSet(ids) \subseteq DOMAIN kv
           /\ kv' = WithoutSequences(ToSet(ids))
           /\ available_ids' = available_ids \o ids
           /\ entries' = [entries EXCEPT ![r] = IF all THEN <<>> ELSE es]
           /\ running_queue' = IF all THEN InOrder(running_queue, Requests \ {r}) ELSE running_queue
           /\ request_states' = IF all THEN request_states \ {r} ELSE request_states
           /\ usage' = IF all THEN [usage EXCEPT ![r] = @ + 1] ELSE usage
           /\ finished_rsentries' = Tail(finished_rsentries)
           /\ enginePc' = IF Tail(finished_rsentries) = <<>> THEN "idle" ELSE "finish"
           /\ running_rsentries_changed' = TRUE
           /\ UNCHANGED <<waiting_queue, id_cnt, cached_running_rsentries_, prefill>>
           /\ UNCHANGED <<running_rsentries, fault, submitted, deployment>>
  <2>1. deployment \in Deployments /\ EntriesOK /\ QueuesOK /\ StepOK /\ enginePc = "finish"
    BY FinishCases DEF Shape, TypeOK
  <2>2. finished_rsentries \in Seq(Pairs) /\ finished_rsentries # <<>>
    BY <2>1 DEF StepOK
  <2>3. x \in Pairs /\ Tail(finished_rsentries) \in Seq(Pairs)
    BY <2>2
  <2>4. r \in Requests /\ x[2] \in 1..NumEntries(r)
    <3> HIDE DEF x
    <3> QED BY <2>3 DEF Pairs
  <2>5. PICK m \in Nat : DOMAIN removed = 1..m
    <3>1. removed \in {<<x[2], 1>>, <<x[2]>>}
      BY DEF Removed
    <3>2. DOMAIN <<x[2], 1>> = 1..2 /\ DOMAIN <<x[2]>> = 1..1
      OBVIOUS
    <3> HIDE DEF x, removed
    <3> QED BY <3>1, <3>2
  <2> DEFINE i == x[2]
  <2>6. ASSUME r \in request_states PROVE es \in [1..NumEntries(r) -> EntryType]
    <3>1. DOMAIN entries[r] = 1..NumEntries(r) /\ entries[r] \in [1..NumEntries(r) -> EntryType]
      BY <2>1, <2>4, <2>6 DEF EntriesOK, Trees
    <3>2. entries[r][i] \in EntryType
      BY <2>4, <3>1
    <3>3. [entries[r][i] EXCEPT !.status = "kFinished"] \in EntryType
      BY <3>2 DEF EntryType, Statuses
    <3>4. es = [entries[r] EXCEPT ![i] = [entries[r][i] EXCEPT !.status = "kFinished"]]
      OBVIOUS
    <3> HIDE DEF EntryType, es, i, r
    <3> QED BY <3>1, <3>3, <3>4
  <2>7. ASSUME r \notin request_states PROVE es = <<>>
    <3>1. entries[r] = <<>> /\ DOMAIN entries[r] = {}
      BY <2>1, <2>4, <2>7, EntryFacts
    <3>2. es = [entries[r] EXCEPT ![i] = [entries[r][i] EXCEPT !.status = "kFinished"]]
      OBVIOUS
    <3> HIDE DEF es, i, r
    <3> QED BY <3>1, <3>2
  <2> HIDE DEF x, i, es, removed, all
  <2>8. ids \in Seq(Nat)
    <3>1. ids = [q \in 1..m |-> es[removed[q]].id]
      BY <2>5
    <3> HIDE DEF ids
    <3>2. \A q \in 1..m : ids[q] \in ToSet(ids)
      BY <3>1 DEF ToSet
    <3>3. ToSet(ids) \subseteq Nat
      BY <1>2, <2>1 DEF StepOK
    <3> QED BY <3>1, <3>2, <3>3
  <2> HIDE DEF ids, r
  <2>9. EntriesOK'
    <3>1. Requests' = Requests /\ \A q : NumEntries(q)' = NumEntries(q)
      BY <1>2, DeploymentFixed
    <3>2. DOMAIN entries = Requests
      BY <2>1 DEF EntriesOK, Trees
    <3>3. DOMAIN entries' = Requests /\ entries'[r] = IF all THEN <<>> ELSE es
      BY <1>2, <2>4, <3>2
    <3>4. entries'[r] \in IF r \in request_states' THEN [1..NumEntries(r) -> EntryType] ELSE {<<>>}
      <4>1. CASE all
        BY <1>2, <3>3, <4>1
      <4>2. CASE ~all
        BY <1>2, <2>6, <2>7, <3>3, <4>2
      <4> QED BY <4>1, <4>2
    <3>5. \A q \in Requests \ {r} : /\ entries'[q] = entries[q]
                                    /\ q \in request_states' <=> q \in request_states
      BY <1>2, <3>2
    <3> QED BY <2>1, <3>1, <3>3, <3>4, <3>5 DEF EntriesOK, Trees
  <2>10. QueuesOK'
    <3>1. running_queue \in Seq(Requests) /\ ToSet(running_queue) \subseteq request_states
      BY <2>1 DEF QueuesOK
    <3>2. /\ InOrder(running_queue, Requests \ {r}) \in Seq(Requests)
          /\ \A y : y \in ToSet(InOrder(running_queue, Requests \ {r})) <=>
               y \in ToSet(running_queue) /\ y \in Requests \ {r}
      BY <3>1, InOrderFacts
    <3>3. running_queue' \in Seq(Requests) /\ ToSet(running_queue') \subseteq request_states'
      BY <1>2, <3>1, <3>2
    <3> QED BY <1>2, <2>1, <3>3, NextTyped DEF QueuesOK
  <2>11. kv' \in [DOMAIN kv' -> Nat] /\ DOMAIN kv' \subseteq Nat
    BY <1>2, <2>1 DEF StepOK, WithoutSequences
  <2>12. available_ids' \in Seq(Nat)
    BY <1>2, <2>1, <2>8 DEF StepOK
  <2>13. usage' \in [Requests -> Nat]
    <3>1. usage \in [Requests -> Nat]
      BY <2>1 DEF StepOK
    <3>2. [usage EXCEPT ![r] = @ + 1] \in [Requests -> Nat]
      BY <2>4, <3>1
    <3>3. usage' = IF all THEN [usage EXCEPT ![r] = @ + 1] ELSE usage
      BY <1>2
    <3> QED BY <3>1, <3>2, <3>3
  <2>14. StepOK'
    BY <1>2, <2>1, <2>3, <2>11, <2>12, <2>13, NextTyped DEF StepOK, Locations
  <2>15. Selected' /\ CacheIsFresh'
    BY <1>2 DEF Selected, CacheIsFresh
  <2> QED BY <1>2, <2>1, <2>9, <2>10, <2>14, <2>15 DEF Shape, TypeOK
<1> HIDE DEF ids, all, es, removed
<1> QED BY <1>1, <1>2, FinishCases DEF ids, all, es, removed

\* No step: nothing changes.
LEMMA StutterShape ==
  ASSUME Shape, UNCHANGED vars
  PROVE  Shape'
<1>1. /\ UNCHANGED <<running_queue, waiting_queue, request_states, entries, available_ids, id_cnt>>
      /\ UNCHANGED <<running_rsentries_changed, cached_running_rsentries_, kv, prefill, enginePc>>
      /\ UNCHANGED <<running_rsentries, finished_rsentries, usage, submitted, deployment>>
  BY DEF vars, queueVars, idVars, cacheVars, stepVars
<1>2. TypeOK /\ Selected /\ CacheIsFresh
  BY DEF Shape
<1>3. deployment' \in Deployments /\ EntriesOK' /\ QueuesOK'
  BY <1>1, <1>2, NextTyped DEF TypeOK, EntriesOK, QueuesOK
<1>4. StepOK'
  BY <1>1, <1>2, NextTyped DEF TypeOK, StepOK
<1>5. Selected' /\ CacheIsFresh'
  BY <1>1, <1>2, RunningSame DEF Selected, CacheIsFresh
<1> QED BY <1>3, <1>4, <1>5 DEF Shape, TypeOK

\* Every step keeps the shape of the state.
LEMMA NextShape ==
  ASSUME Shape, [Next]_vars
  PROVE  Shape'
<1>1. ASSUME NEW r \in Requests, RejectRequest(r) \/ AddRequest(r) \/ AbortRequest(r) PROVE Shape'
  BY <1>1, RejectShape, AddShape, AbortShape
<1>2. CASE BeginPrefill
  BY <1>2, BeginPrefillShape
<1>3. CASE TakeWhole
  BY <1>3, TakeWholeShape
<1>4. CASE TakeChunkAndStop
  BY <1>4, TakeChunkShape
<1>5. CASE NewRequestPrefill
  BY <1>5, NewRequestPrefillShape
<1>6. CASE NothingToPrefill
  BY <1>6, NothingShape
<1>7. CASE JumpForwardPreempt
  BY <1>7, PreemptLastShape DEF JumpForwardPreempt
<1>8. CASE JumpForwardDone
  BY <1>8, JumpForwardDoneShape
<1>9. CASE DecodePreempt
  BY <1>9, PreemptLastShape DEF DecodePreempt
<1>10. CASE BatchDecode
  BY <1>10, BatchDecodeShape
<1>11. CASE FinishEntry
  BY <1>11, FinishShape
<1>12. CASE UNCHANGED vars
  BY <1>12, StutterShape
<1> QED BY <1>1, <1>2, <1>3, <1>4, <1>5, <1>6, <1>7, <1>8, <1>9, <1>10, <1>11, <1>12
        DEF Next, Step, Client

\* The engine's state keeps its types: a tree of entries exactly for the requests that have a
\* state, which are all requests given to the engine, and running requests have a state.
THEOREM TypeCorrect == Spec => []TypeOK
<1>1. Init => Shape
  BY InitShape
<1>2. Shape /\ [Next]_vars => Shape'
  BY NextShape
<1>3. Shape => TypeOK
  BY DEF Shape
<1> QED BY <1>1, <1>2, <1>3, PTL DEF Spec

\* The cached list of running entries is never stale where the code reads it, whatever the
\* number of generations, the limits and the kind of model (engine_state.cc L33).
THEOREM RunningListIsFresh == Spec => []CacheIsFresh
<1>1. Init => Shape
  BY InitShape
<1>2. Shape /\ [Next]_vars => Shape'
  BY NextShape
<1>3. Shape => CacheIsFresh
  BY DEF Shape
<1> QED BY <1>1, <1>2, <1>3, PTL DEF Spec

-----------------------------------------------------------------------------
(* Usage.                                                                  *)

\* A request that leaves the engine was in it, and has had no usage before.
LEMMA UsageStep ==
  ASSUME Shape, UsageOnce, [Next]_vars
  PROVE  UsageOnce'
<1>1. deployment \in Deployments /\ QueuesOK /\ StepOK
  BY DEF Shape, TypeOK
<1>2. /\ running_queue \in Seq(Requests) /\ ToSet(running_queue) \subseteq request_states
      /\ request_states \subseteq submitted /\ usage \in [Requests -> Nat]
  BY <1>1 DEF QueuesOK, StepOK
<1>3. ASSUME UNCHANGED <<deployment, submitted, request_states, usage>> PROVE UsageOnce'
  BY <1>3 DEF UsageOnce, Requests
<1>4. ASSUME NEW r \in Requests, r \in request_states, submitted' = submitted, deployment' = deployment,
             request_states' = request_states \ {r}, usage' = [usage EXCEPT ![r] = @ + 1]
      PROVE  UsageOnce'
  <2>1. Requests' = Requests
    BY <1>4, DeploymentFixed
  <2>2. usage'[r] = 1 /\ r \in submitted' \ request_states'
    BY <1>2, <1>4 DEF UsageOnce
  <2>3. \A q \in Requests \ {r} : /\ usage'[q] = usage[q]
                                  /\ q \in submitted' \ request_states' <=> q \in submitted \ request_states
    BY <1>2, <1>4
  <2> QED BY <2>1, <2>2, <2>3 DEF UsageOnce
<1>5. ASSUME NEW r \in Requests, DropRequest(r), r \in request_states PROVE UsageOnce'
  <2>1. /\ submitted' = submitted /\ deployment' = deployment
        /\ request_states' = request_states \ {r} /\ usage' = [usage EXCEPT ![r] = @ + 1]
    BY <1>5 DEF DropRequest, StreamBackError
  <2> QED BY <1>4, <1>5, <2>1
<1>6. ASSUME NEW what, Fail(what) PROVE UsageOnce'
  BY <1>3, <1>6 DEF Fail, queueVars
<1>7. ASSUME PreemptLast PROVE UsageOnce'
  <2> DEFINE r == Last(running_queue)
  <2>1. CASE \E what : Fail(what)
    BY <1>6, <2>1
  <2>2. CASE running_queue # <<>> /\ DropRequest(r)
    <3>1. r \in Requests /\ r \in request_states
      BY <1>2, <2>2, FrontFacts
    <3> QED BY <1>5, <2>2, <3>1
  <2>3. CASE \E i : PreemptEntry(r, i)
    BY <1>3, <2>3 DEF PreemptEntry
  <2>4. \/ \E what : Fail(what)
        \/ running_queue # <<>> /\ DropRequest(r)
        \/ \E i : PreemptEntry(r, i)
    <3>1. CASE running_queue = <<>> \/ AliveIds(r) = {}
      BY <1>7, <3>1 DEF PreemptLast
    <3>2. CASE running_queue # <<>> /\ AliveIds(r) # {} /\ ~(AliveIds(r) \subseteq DOMAIN kv)
      BY <1>7, <3>2 DEF PreemptLast
    <3>3. CASE running_queue # <<>> /\ AliveIds(r) # {} /\ AliveIds(r) \subseteq DOMAIN kv
      BY <1>7, <3>3 DEF PreemptLast
    <3> QED BY <3>1, <3>2, <3>3
  <2> QED BY <2>1, <2>2, <2>3, <2>4
<1>8. ASSUME NEW r \in Requests, RejectRequest(r) PROVE UsageOnce'
  <2>1. /\ r \notin submitted /\ submitted' = submitted \cup {r} /\ deployment' = deployment
        /\ request_states' = request_states /\ usage' = [usage EXCEPT ![r] = @ + 1]
    BY <1>8 DEF RejectRequest, StreamBackError, queueVars
  <2>2. Requests' = Requests
    BY <2>1, DeploymentFixed
  <2>3. usage'[r] = 1 /\ r \in submitted' \ request_states'
    BY <1>2, <2>1 DEF UsageOnce
  <2>4. \A q \in Requests \ {r} : /\ usage'[q] = usage[q]
                                  /\ q \in submitted' \ request_states' <=> q \in submitted \ request_states
    BY <1>2, <2>1
  <2> QED BY <2>2, <2>3, <2>4 DEF UsageOnce
<1>9. ASSUME NEW r \in Requests, AddRequest(r) PROVE UsageOnce'
  <2>1. /\ r \notin submitted /\ submitted' = submitted \cup {r} /\ deployment' = deployment
        /\ request_states' = request_states \cup {r} /\ usage' = usage
    BY <1>9 DEF AddRequest
  <2>2. Requests' = Requests
    BY <2>1, DeploymentFixed
  <2>3. \A q : q \in submitted' \ request_states' <=> q \in submitted \ request_states
    BY <1>2, <2>1
  <2> QED BY <2>1, <2>2, <2>3 DEF UsageOnce
<1>10. ASSUME NEW r \in Requests, AbortRequest(r) PROVE UsageOnce'
  <2>1. CASE AliveIds(r) \subseteq DOMAIN kv
    BY <1>5, <1>10, <2>1 DEF AbortRequest
  <2>2. CASE ~(AliveIds(r) \subseteq DOMAIN kv)
    BY <1>6, <1>10, <2>2 DEF AbortRequest
  <2> QED BY <2>1, <2>2
<1>11. ASSUME FinishEntry PROVE UsageOnce'
  <2> DEFINE x == Head(finished_rsentries)
             r == x[1]
             es == [entries[r] EXCEPT ![x[2]].status = "kFinished"]
             all == AllFinished(r, es)
  <2>1. CASE \E what : Fail(what)
    BY <1>6, <2>1
  <2>2. CASE ~\E what : Fail(what)
    <3>1. /\ all => Contains(running_queue, r)
          /\ request_states' = IF all THEN request_states \ {r} ELSE request_states
          /\ usage' = IF all THEN [usage EXCEPT ![r] = @ + 1] ELSE usage
          /\ submitted' = submitted /\ deployment' = deployment
      BY <1>11, <2>2 DEF FinishEntry
    <3> HIDE DEF r, es, all
    <3>2. CASE all
      <4>1. r \in ToSet(running_queue)
        BY <1>2, <3>1, <3>2, ContainsFacts
      <4>2. r \in Requests /\ r \in request_states
        BY <1>2, <4>1, ToSetFacts
      <4>3. PICK q : q = r
        OBVIOUS
      <4> QED BY <1>4, <3>1, <3>2, <4>2, <4>3
    <3>3. CASE ~all
      BY <1>3, <3>1, <3>3
    <3> QED BY <3>2, <3>3
  <2> QED BY <2>1, <2>2
<1>12. ASSUME NewRequestPrefill PROVE UsageOnce'
  BY <1>3, <1>6, <1>12, PrefillCases DEF PrefillGoesAhead
<1>13. ASSUME BatchDecode PROVE UsageOnce'
  <2>1. CASE BatchIsSound
    BY <1>3, <1>13, <2>1 DEF BatchDecode, Decode, queueVars
  <2>2. CASE ~BatchIsSound
    BY <1>6, <1>13, <2>2 DEF BatchDecode
  <2> QED BY <2>1, <2>2
<1>14. ASSUME BeginPrefill \/ TakeWhole \/ TakeChunkAndStop \/ NothingToPrefill \/ JumpForwardDone
       PROVE  UsageOnce'
  BY <1>3, <1>14
     DEF BeginPrefill, TakeWhole, TakeChunkAndStop, NothingToPrefill, JumpForwardDone, queueVars
<1>15. ASSUME UNCHANGED vars PROVE UsageOnce'
  BY <1>3, <1>15 DEF vars, queueVars
<1> QED BY <1>7, <1>8, <1>9, <1>10, <1>11, <1>12, <1>13, <1>14, <1>15
        DEF Next, Step, Client, JumpForwardPreempt, DecodePreempt

\* The final usage of a request is streamed back once, when it leaves the engine, and not
\* before: by rejection, completion, abort or preemption by abort (engine.cc L92).
THEOREM UsageStreamedOnce == Spec => []UsageOnce
<1>1. Init => Shape /\ UsageOnce
  <2>1. Init => UsageOnce
    BY DEF Init, UsageOnce
  <2> QED BY <2>1, InitShape
<1>2. Shape /\ UsageOnce /\ [Next]_vars => Shape' /\ UsageOnce'
  BY NextShape, UsageStep
<1> QED BY <1>1, <1>2, PTL DEF Spec

-----------------------------------------------------------------------------
(* Deployments whose requests ask for one generation (n = 1), where a      *)
(* request has one entry.                                                  *)

\* Every request asks for one generation.
SingleGeneration == \A d \in Deployments : \A r \in d.Requests : d.N[r] = 1

\* The entry of a request.
Only(r) == entries[r][1]

\* Every request is where the scheduler looks for it, at every step of it.
InQueues ==
  /\ \A r \in request_states : Only(r).status # "kFinished"
  /\ \A r \in Requests : r \in ToSet(running_queue) <=> r \in request_states /\ Only(r).status = "kAlive"
  /\ \A r \in Requests : r \in ToSet(waiting_queue) <=> r \in request_states /\ Only(r).inputs > 0
  /\ Distinct(running_queue)
  /\ Distinct(waiting_queue)

\* Ids are given to one request at a time.
IdsApart ==
  /\ \A r, s \in request_states : Only(r).id = Only(s).id => r = s
  /\ \A r \in request_states : Only(r).id \notin ToSet(available_ids) /\ Only(r).id < id_cnt
  /\ \A id \in ToSet(available_ids) : id < id_cnt
  /\ Distinct(available_ids)

\* The KV cache has the sequences of the alive requests, with their tokens, and a request that
\* waits has all its tokens to prefill.
InCache ==
  /\ DOMAIN kv = {Only(r).id : r \in {s \in request_states : Only(s).status = "kAlive"}}
  /\ \A r \in request_states :
       IF Only(r).status = "kAlive"
         THEN kv[Only(r).id] + Only(r).inputs + Only(r).num_tokens_for_next_decode =
                PromptTokens[r] + Only(r).committed
         ELSE /\ Only(r).inputs = PromptTokens[r] + Only(r).committed
              /\ Only(r).num_tokens_for_next_decode = 0
  /\ \A r \in request_states : Only(r).next_callback_token_pos = Only(r).committed

\* The selection goes through the waiting queue from the front and passes over nobody.
InTurn ==
  enginePc = "select" =>
    /\ Len(prefill.chosen) + Len(prefill.todo) <= Len(waiting_queue)
    /\ \A k \in 1..Len(prefill.chosen) : prefill.chosen[k].rsentry = <<waiting_queue[k], 1>>
    /\ \A k \in 1..Len(prefill.todo) :
         prefill.todo[k] = <<waiting_queue[Len(prefill.chosen) + k], 1>>

\* The entries the decode actions go on with were alive; they may have been preempted since.
StillDecodes ==
  enginePc \in {"jumpForward", "decode"} =>
    \A x \in ToSet(running_rsentries) :
      /\ x[2] = 1
      /\ x[1] \in request_states => Only(x[1]).status = "kPending" \/ Only(x[1]).inputs = 0

\* The entries to finish are alive and have no input left.
ToFinish ==
  /\ Distinct(finished_rsentries)
  /\ enginePc = "finish" =>
       \A x \in ToSet(finished_rsentries) :
         x[2] = 1 /\ x[1] \in request_states /\ Only(x[1]).status = "kAlive" /\ Only(x[1]).inputs = 0

Core == InQueues /\ IdsApart /\ InCache

IInv == Shape /\ Core /\ InTurn /\ StillDecodes /\ ToFinish

-----------------------------------------------------------------------------
(* One entry for each request.                                             *)

\* With one generation a request has the entry 1, a leaf.
LEMMA SingleFacts ==
  ASSUME SingleGeneration, deployment \in Deployments
  PROVE  /\ \A r \in Requests : NumEntries(r) = 1 /\ Leaves(r) = {1} /\ PromptTokens[r] \in Nat \ {0}
         /\ \A x : x \in Pairs <=> \E r \in Requests : x = <<r, 1>>
<1>1. ASSUME NEW r \in Requests PROVE NumEntries(r) = 1 /\ Leaves(r) = {1}
  <2>1. N[r] = 1
    BY DEF SingleGeneration, N, Requests
  <2>2. NumEntries(r) = 1
    BY <2>1 DEF NumEntries
  <2>3. NumChildren(r, 1) = 0
    BY <2>1 DEF NumChildren
  <2> QED BY <2>2, <2>3 DEF Leaves
<1>2. ASSUME NEW x PROVE x \in Pairs <=> \E r \in Requests : x = <<r, 1>>
  <2>1. \A r \in Requests : 1..NumEntries(r) = {1}
    BY <1>1
  <2>2. x \in Pairs <=> \E r \in Requests : x \in {r} \X (1..NumEntries(r))
    BY DEF Pairs
  <2> QED BY <2>1, <2>2
<1> QED BY <1>1, <1>2, DeploymentFacts

\* The entries are those of the requests with a state.
LEMMA OnlyFacts ==
  ASSUME SingleGeneration, TypeOK
  PROVE  /\ \A r \in request_states :
              /\ r \in Requests
              /\ DOMAIN entries[r] = {1} /\ Only(r) \in EntryType /\ entries[r] = <<Only(r)>>
              /\ Len(entries[r]) = 1
         /\ \A r \in Requests \ request_states : entries[r] = <<>> /\ DOMAIN entries[r] = {}
         /\ \A x : x \in AllEntries <=> \E r \in request_states : x = <<r, 1>>
         /\ \A r : Entry(<<r, 1>>) = Only(r)
         /\ \A r \in Requests :
              AliveIds(r) = IF r \in request_states /\ Only(r).status = "kAlive" THEN {Only(r).id} ELSE {}
<1>1. deployment \in Deployments /\ EntriesOK /\ request_states \subseteq Requests
  BY DEF TypeOK, QueuesOK
<1>2. ASSUME NEW r \in request_states
      PROVE  /\ r \in Requests /\ DOMAIN entries[r] = {1} /\ Only(r) \in EntryType
             /\ entries[r] = <<Only(r)>> /\ Len(entries[r]) = 1
  <2>1. r \in Requests /\ NumEntries(r) = 1
    BY <1>1, SingleFacts
  <2>2. entries[r] \in [1..1 -> EntryType]
    BY <1>1, <2>1 DEF EntriesOK, Trees
  <2>3. DOMAIN entries[r] = 1..1 /\ entries[r][1] \in EntryType
    BY <2>2
  <2>4. entries[r] = [i \in 1..1 |-> entries[r][1]]
    BY <2>2
  <2>5. Len(entries[r]) = 1 /\ entries[r] = <<entries[r][1]>>
    BY <2>4
  <2> QED BY <2>1, <2>3, <2>5 DEF Only
<1>3. \A r \in Requests \ request_states : entries[r] = <<>> /\ DOMAIN entries[r] = {}
  BY <1>1, EntryFacts
<1>4. ASSUME NEW x PROVE x \in AllEntries <=> \E r \in request_states : x = <<r, 1>>
  <2>1. x \in AllEntries <=> \E r \in Requests : \E i \in DOMAIN entries[r] : x = <<r, i>>
    BY <1>1, AllEntriesFacts
  <2> QED BY <1>2, <1>3, <2>1
<1>5. ASSUME NEW r \in Requests
      PROVE  AliveIds(r) = IF r \in request_states /\ Only(r).status = "kAlive" THEN {Only(r).id} ELSE {}
  BY <1>2, <1>3 DEF AliveIds, Only
<1> QED BY <1>2, <1>3, <1>4, <1>5 DEF Entry, Only

\* GetNewId gives an id that no request has and takes it from the free list or the counter.
LEMMA NewIdFacts ==
  ASSUME SingleGeneration, TypeOK, IdsApart, TakeIds(1)
  PROVE  /\ NewIds(1)[1] \in Nat
         /\ \A s \in request_states : Only(s).id # NewIds(1)[1]
         /\ \A s \in request_states : Only(s).id < id_cnt'
         /\ NewIds(1)[1] < id_cnt' /\ NewIds(1)[1] \notin ToSet(available_ids')
         /\ ToSet(available_ids') \subseteq ToSet(available_ids) /\ Distinct(available_ids')
         /\ \A id \in ToSet(available_ids') : id < id_cnt'
<1>1. available_ids \in Seq(Nat) /\ id_cnt \in Nat
  BY DEF TypeOK, StepOK
<1>2. PICK n \in Nat : n = Len(available_ids) /\ DOMAIN available_ids = 1..n
  BY <1>1
<1>3. NewIds(1)[1] = IF 1 <= n THEN available_ids[n] ELSE id_cnt
  <2>1. NewIds(1) = [j \in 1..1 |-> IF j <= n THEN available_ids[n + 1 - j] ELSE id_cnt + (j - n - 1)]
    BY <1>2 DEF NewIds
  <2>2. NewIds(1)[1] = IF 1 <= n THEN available_ids[n + 1 - 1] ELSE id_cnt + (1 - n - 1)
    BY <2>1
  <2>3. n + 1 - 1 = n /\ (~(1 <= n) => id_cnt + (1 - n - 1) = id_cnt)
    BY <1>1, <1>2
  <2> QED BY <2>2, <2>3
<1>4. available_ids' = SubSeq(available_ids, 1, n - 1) /\ id_cnt' = IF 1 <= n THEN id_cnt ELSE id_cnt + (1 - n)
  BY <1>2 DEF TakeIds
<1>5. \A s \in request_states : Only(s).id \in Nat
  BY OnlyFacts DEF EntryType
<1>6. Front(available_ids) = available_ids'
  BY <1>2, <1>4 DEF Front
<1>7. /\ ToSet(available_ids') \subseteq ToSet(available_ids) /\ Distinct(available_ids')
      /\ available_ids # <<>> => Last(available_ids) \notin ToSet(available_ids')
                                 /\ Last(available_ids) \in ToSet(available_ids)
                                 /\ Last(available_ids) \in Nat
  BY <1>1, <1>6, FrontFacts DEF IdsApart
<1>8. CASE n >= 1
  <2>1. NewIds(1)[1] = Last(available_ids) /\ id_cnt' = id_cnt /\ available_ids # <<>>
    BY <1>2, <1>3, <1>4, <1>8 DEF Last
  <2> QED BY <1>7, <2>1 DEF IdsApart
<1>9. CASE n = 0
  <2>1. NewIds(1)[1] = id_cnt /\ id_cnt' = id_cnt + 1
    BY <1>1, <1>3, <1>4, <1>9
  <2>2. \A s \in request_states : Only(s).id < id_cnt /\ Only(s).id \in Nat
    BY <1>5 DEF IdsApart
  <2>3. ToSet(available_ids) = {}
    BY <1>2, <1>9 DEF ToSet
  <2> QED BY <1>1, <1>7, <2>1, <2>2, <2>3
<1> QED BY <1>2, <1>8, <1>9

\* A step that leaves requests, queues, ids and the KV cache alone.
LEMMA CoreSame ==
  ASSUME Core, deployment' = deployment,
         UNCHANGED <<running_queue, waiting_queue, request_states, entries, available_ids, id_cnt, kv>>
  PROVE  Core'
<1>1. Requests' = Requests /\ PromptTokens' = PromptTokens
  BY DeploymentFixed
<1>2. InQueues'
  BY <1>1 DEF Core, InQueues, Only
<1>3. IdsApart'
  BY DEF Core, IdsApart, Only
<1>4. InCache'
  BY <1>1 DEF Core, InCache, Only
<1> QED BY <1>2, <1>3, <1>4 DEF Core

-----------------------------------------------------------------------------
(* Core, action by action.                                                 *)

\* A new request waits with its prompt, under an id of its own.
LEMMA AddCore ==
  ASSUME SingleGeneration, Shape, Core, NEW r \in Requests, AddRequest(r)
  PROVE  Core'
<1> DEFINE id == NewIds(1)[1]
<1>1. TypeOK /\ deployment \in Deployments /\ EntriesOK /\ QueuesOK /\ StepOK
  BY DEF Shape, TypeOK
<1>2. NumEntries(r) = 1 /\ PromptTokens[r] \in Nat \ {0}
  BY <1>1, SingleFacts
<1>3. /\ UNCHANGED <<running_queue, kv, deployment>>
      /\ r \notin request_states
      /\ waiting_queue' = Append(waiting_queue, r)
      /\ request_states' = request_states \cup {r}
      /\ entries' = [entries EXCEPT ![r] =
           [i \in 1..1 |-> NewEntry(NewIds(1)[i], IF i = 1 THEN PromptTokens[r] ELSE 0)]]
      /\ TakeIds(1)
  BY <1>1, <1>2 DEF AddRequest, QueuesOK
<1>4. Requests' = Requests /\ PromptTokens' = PromptTokens
  BY <1>3, DeploymentFixed
<1>5. DOMAIN entries = Requests
  BY <1>1 DEF EntriesOK, Trees
<1>6. Only(r)' = NewEntry(id, PromptTokens[r])
  BY <1>3, <1>5 DEF Only
<1>7. Only(r)' = [status |-> "kPending", id |-> id, inputs |-> PromptTokens[r], committed |-> 0,
                  num_tokens_for_next_decode |-> 0, next_callback_token_pos |-> 0]
  BY <1>6 DEF NewEntry
<1>8. \A s \in request_states : s # r /\ Only(s)' = Only(s)
  <2>1. \A s \in request_states : s \in Requests /\ s # r
    BY <1>1, <1>3 DEF QueuesOK
  <2> QED BY <1>3, <1>5, <2>1 DEF Only
<1>9. /\ id \in Nat /\ \A s \in request_states : Only(s).id # id
      /\ \A s \in request_states : Only(s).id < id_cnt'
      /\ id < id_cnt' /\ id \notin ToSet(available_ids')
      /\ ToSet(available_ids') \subseteq ToSet(available_ids) /\ Distinct(available_ids')
      /\ \A q \in ToSet(available_ids') : q < id_cnt'
  BY <1>1, <1>3, NewIdFacts DEF Core
<1> HIDE DEF id
<1>10. InQueues'
  <2>1. /\ \A y : y \in ToSet(waiting_queue') <=> y \in ToSet(waiting_queue) \/ y = r
        /\ r \notin ToSet(waiting_queue) => Distinct(waiting_queue')
    BY <1>1, <1>3, AppendFacts DEF QueuesOK, Core, InQueues
  <2>2. r \notin ToSet(waiting_queue) /\ r \notin ToSet(running_queue)
    BY <1>3 DEF Core, InQueues
  <2>3. Only(r)'.status = "kPending" /\ Only(r)'.inputs > 0
    BY <1>2, <1>7
  <2>4. \A s \in request_states' : Only(s)'.status # "kFinished"
    BY <1>3, <1>8, <2>3 DEF Core, InQueues
  <2>5. \A s \in Requests : s \in ToSet(running_queue) <=> s \in request_states' /\ Only(s)'.status = "kAlive"
    BY <1>3, <1>8, <2>2, <2>3 DEF Core, InQueues
  <2>6. \A s \in Requests : s \in ToSet(waiting_queue') <=> s \in request_states' /\ Only(s)'.inputs > 0
    BY <1>3, <1>8, <2>1, <2>2, <2>3 DEF Core, InQueues
  <2>7. Distinct(running_queue)' /\ Distinct(waiting_queue)'
    BY <1>3, <2>1, <2>2 DEF Core, InQueues
  <2> QED BY <1>3, <1>4, <2>4, <2>5, <2>6, <2>7 DEF InQueues
<1>11. IdsApart'
  <2>1. Only(r)'.id = id
    BY <1>7
  <2>2. \A s, t \in request_states' : Only(s)'.id = Only(t)'.id => s = t
    BY <1>3, <1>8, <1>9, <2>1 DEF Core, IdsApart
  <2>3. \A s \in request_states' : Only(s)'.id \notin ToSet(available_ids') /\ Only(s)'.id < id_cnt'
    BY <1>3, <1>8, <1>9, <2>1 DEF Core, IdsApart
  <2> QED BY <1>9, <2>2, <2>3 DEF IdsApart
<1>12. InCache'
  <2>1. /\ Only(r)'.status = "kPending" /\ Only(r)'.inputs = PromptTokens[r] + Only(r)'.committed
        /\ Only(r)'.num_tokens_for_next_decode = 0
        /\ Only(r)'.next_callback_token_pos = Only(r)'.committed
    BY <1>2, <1>7
  <2>2. {Only(s)'.id : s \in {t \in request_states' : Only(t)'.status = "kAlive"}} =
        {Only(s).id : s \in {t \in request_states : Only(t).status = "kAlive"}}
    BY <1>3, <1>8, <2>1
  <2>3. DOMAIN kv' = {Only(s)'.id : s \in {t \in request_states' : Only(t)'.status = "kAlive"}}
    BY <1>3, <2>2 DEF Core, InCache
  <2>4. ASSUME NEW s \in request_states'
        PROVE  /\ IF Only(s)'.status = "kAlive"
                    THEN kv'[Only(s)'.id] + Only(s)'.inputs + Only(s)'.num_tokens_for_next_decode =
                           PromptTokens[s] + Only(s)'.committed
                    ELSE /\ Only(s)'.inputs = PromptTokens[s] + Only(s)'.committed
                         /\ Only(s)'.num_tokens_for_next_decode = 0
               /\ Only(s)'.next_callback_token_pos = Only(s)'.committed
    <3>1. CASE s = r
      BY <2>1, <3>1
    <3>2. CASE s \in request_states
      BY <1>3, <1>8, <3>2 DEF Core, InCache
    <3> QED BY <1>3, <3>1, <3>2
  <2> QED BY <1>4, <2>3, <2>4 DEF InCache
<1> QED BY <1>10, <1>11, <1>12 DEF Core

\* A request that leaves gives its id and its sequence back if it was running.
LEMMA LeaveCore ==
  ASSUME SingleGeneration, Shape, Core, NEW r \in request_states, deployment' = deployment,
         request_states' = request_states \ {r}, UNCHANGED id_cnt,
         \A s \in request_states \ {r} : entries'[s] = entries[s],
         running_queue' = InOrder(running_queue, Requests \ {r}),
         waiting_queue' = InOrder(waiting_queue, Requests \ {r}),
         IF Only(r).status = "kAlive"
           THEN /\ available_ids' = available_ids \o <<Only(r).id>>
                /\ kv' = WithoutSequences({Only(r).id})
           ELSE UNCHANGED <<available_ids, kv>>
  PROVE  Core'
<1>1. TypeOK /\ deployment \in Deployments /\ EntriesOK /\ QueuesOK /\ StepOK
  BY DEF Shape, TypeOK
<1>2. Requests' = Requests /\ PromptTokens' = PromptTokens
  BY DeploymentFixed
<1>3. \A s \in request_states' : s \in request_states /\ s # r /\ s \in Requests /\ Only(s)' = Only(s)
  BY <1>1 DEF Only, QueuesOK
<1>4. Only(r).id \in Nat /\ r \in Requests
  BY <1>1, OnlyFacts DEF EntryType
<1>5. /\ running_queue \in Seq(Requests) /\ waiting_queue \in Seq(Requests)
      /\ Distinct(running_queue) /\ Distinct(waiting_queue)
  BY <1>1 DEF QueuesOK, Core, InQueues
<1>6. /\ \A x : x \in ToSet(running_queue') <=> x \in ToSet(running_queue) /\ x \in Requests \ {r}
      /\ \A x : x \in ToSet(waiting_queue') <=> x \in ToSet(waiting_queue) /\ x \in Requests \ {r}
      /\ Distinct(running_queue') /\ Distinct(waiting_queue')
  BY <1>5, InOrderFacts
<1>7. InQueues'
  <2>1. \A s \in request_states' : Only(s)'.status # "kFinished"
    BY <1>3 DEF Core, InQueues
  <2>2. \A s \in Requests : s \in ToSet(running_queue') <=> s \in request_states' /\ Only(s)'.status = "kAlive"
    BY <1>3, <1>6 DEF Core, InQueues
  <2>3. \A s \in Requests : s \in ToSet(waiting_queue') <=> s \in request_states' /\ Only(s)'.inputs > 0
    BY <1>3, <1>6 DEF Core, InQueues
  <2> QED BY <1>2, <1>6, <2>1, <2>2, <2>3 DEF InQueues
<1>8. IdsApart'
  <2>1. /\ \A x \in ToSet(available_ids') : x \in ToSet(available_ids) \/ x = Only(r).id
        /\ Distinct(available_ids')
    <3>1. CASE Only(r).status = "kAlive"
      <4>1. available_ids \in Seq(Nat) /\ <<Only(r).id>> \in Seq(Nat)
        BY <1>1, <1>4 DEF StepOK
      <4>2. ToSet(<<Only(r).id>>) = {Only(r).id} /\ Distinct(<<Only(r).id>>)
        BY DEF ToSet, Distinct
      <4>3. ToSet(available_ids) \cap ToSet(<<Only(r).id>>) = {}
        BY <4>2 DEF Core, IdsApart
      <4>4. Distinct(available_ids)
        BY DEF Core, IdsApart
      <4>5. PICK t : t = <<Only(r).id>>
        OBVIOUS
      <4>6. /\ \A y : y \in ToSet(available_ids \o t) <=> y \in ToSet(available_ids) \/ y \in ToSet(t)
            /\ Distinct(available_ids \o t)
        <5>1. t \in Seq(Nat) /\ Distinct(t) /\ ToSet(available_ids) \cap ToSet(t) = {}
          BY <4>1, <4>2, <4>3, <4>5
        <5> QED BY <4>1, <4>4, <5>1, ConcatFacts
      <4>7. available_ids' = available_ids \o t
        BY <3>1, <4>5
      <4> QED BY <4>2, <4>5, <4>6, <4>7
    <3>2. CASE Only(r).status # "kAlive"
      BY <3>2 DEF Core, IdsApart
    <3> QED BY <3>1, <3>2
  <2>2. \A s, t \in request_states' : Only(s)'.id = Only(t)'.id => s = t
    BY <1>3 DEF Core, IdsApart
  <2>3. \A s \in request_states' : Only(s)'.id \notin ToSet(available_ids') /\ Only(s)'.id < id_cnt'
    BY <1>3, <2>1 DEF Core, IdsApart
  <2>4. \A x \in ToSet(available_ids') : x < id_cnt'
    BY <2>1 DEF Core, IdsApart
  <2> QED BY <2>1, <2>2, <2>3, <2>4 DEF IdsApart
<1>9. InCache'
  <2>1. DOMAIN kv = {Only(s).id : s \in {t \in request_states : Only(t).status = "kAlive"}}
    BY DEF Core, InCache
  <2>2. \A s \in request_states : Only(s).id = Only(r).id => s = r
    BY DEF Core, IdsApart
  <2>3. {Only(s)'.id : s \in {t \in request_states' : Only(t)'.status = "kAlive"}} =
        {Only(s).id : s \in {t \in request_states \ {r} : Only(t).status = "kAlive"}}
    BY <1>3
  <2>4. /\ DOMAIN kv' = {Only(s).id : s \in {t \in request_states \ {r} : Only(t).status = "kAlive"}}
        /\ \A k \in DOMAIN kv' : kv'[k] = kv[k]
    <3>1. CASE Only(r).status = "kAlive"
      <4>1. DOMAIN kv' = DOMAIN kv \ {Only(r).id} /\ \A k \in DOMAIN kv' : kv'[k] = kv[k]
        BY <3>1 DEF WithoutSequences
      <4> QED BY <2>1, <2>2, <4>1
    <3>2. CASE Only(r).status # "kAlive"
      BY <2>1, <3>2
    <3> QED BY <3>1, <3>2
  <2>5. ASSUME NEW s \in request_states'
        PROVE  /\ IF Only(s)'.status = "kAlive"
                    THEN kv'[Only(s)'.id] + Only(s)'.inputs + Only(s)'.num_tokens_for_next_decode =
                           PromptTokens[s] + Only(s)'.committed
                    ELSE /\ Only(s)'.inputs = PromptTokens[s] + Only(s)'.committed
                         /\ Only(s)'.num_tokens_for_next_decode = 0
               /\ Only(s)'.next_callback_token_pos = Only(s)'.committed
    <3>1. s \in request_states /\ s # r /\ Only(s)' = Only(s)
      BY <1>3
    <3>2. Only(s).status = "kAlive" => kv'[Only(s).id] = kv[Only(s).id]
      BY <2>4, <3>1
    <3> QED BY <3>1, <3>2 DEF Core, InCache
  <2> QED BY <1>2, <2>3, <2>4, <2>5 DEF InCache
<1> QED BY <1>7, <1>8, <1>9 DEF Core

\* Abort, and preemption by abort.
LEMMA DropCore ==
  ASSUME SingleGeneration, Shape, Core, NEW r \in request_states, DropRequest(r)
  PROVE  Core' /\ request_states' = request_states \ {r}
<1>1. TypeOK /\ deployment \in Deployments /\ EntriesOK /\ QueuesOK /\ StepOK
  BY DEF Shape, TypeOK
<1>2. r \in Requests /\ entries[r] = <<Only(r)>> /\ DOMAIN entries[r] = {1}
  BY <1>1, OnlyFacts
<1>3. /\ deployment' = deployment /\ request_states' = request_states \ {r} /\ UNCHANGED id_cnt
      /\ running_queue' = InOrder(running_queue, Requests \ {r})
      /\ waiting_queue' = InOrder(waiting_queue, Requests \ {r})
      /\ entries' = [entries EXCEPT ![r] = <<>>]
      /\ IF Contains(running_queue, r)
           THEN /\ available_ids' = available_ids \o Reverse([i \in DOMAIN entries[r] |-> entries[r][i].id])
                /\ kv' = WithoutSequences(AliveIds(r))
           ELSE UNCHANGED <<available_ids, kv>>
  BY DEF DropRequest
<1>4. Contains(running_queue, r) <=> Only(r).status = "kAlive"
  <2>1. running_queue \in Seq(Requests)
    BY <1>1 DEF QueuesOK
  <2>2. Contains(running_queue, r) <=> r \in ToSet(running_queue)
    BY <2>1, ContainsFacts
  <2> QED BY <1>2, <2>2 DEF Core, InQueues
<1>5. Reverse([i \in DOMAIN entries[r] |-> entries[r][i].id]) = <<Only(r).id>>
  <2>1. [i \in DOMAIN entries[r] |-> entries[r][i].id] = <<Only(r).id>>
    BY <1>2 DEF Only
  <2>2. Reverse(<<Only(r).id>>) = <<Only(r).id>>
    <3>1. PICK id : id = Only(r).id
      OBVIOUS
    <3>2. Reverse(<<id>>) = [i \in 1..1 |-> <<id>>[(1 - i) + 1]]
      BY DEF Reverse
    <3>3. \A i \in 1..1 : (1 - i) + 1 = 1
      OBVIOUS
    <3>4. Reverse(<<id>>) = [i \in 1..1 |-> id]
      BY <3>2, <3>3
    <3> QED BY <3>1, <3>4
  <2> QED BY <2>1, <2>2
<1>6. Only(r).status = "kAlive" => AliveIds(r) = {Only(r).id}
  BY <1>1, <1>2, OnlyFacts
<1>7. \A s \in request_states \ {r} : entries'[s] = entries[s]
  <2>1. \A s \in request_states : s \in Requests
    BY <1>1 DEF QueuesOK
  <2> QED BY <1>1, <1>3, <2>1 DEF EntriesOK, Trees
<1>8. IF Only(r).status = "kAlive"
        THEN /\ available_ids' = available_ids \o <<Only(r).id>>
             /\ kv' = WithoutSequences({Only(r).id})
        ELSE UNCHANGED <<available_ids, kv>>
  BY <1>3, <1>4, <1>5, <1>6
<1> QED BY <1>3, <1>7, <1>8, LeaveCore

\* The preempted request leaves the running queue and the KV cache, and waits with its tokens.
LEMMA PreemptCore ==
  ASSUME SingleGeneration, Shape, Core, running_queue # <<>>, NEW r, r = Last(running_queue),
         PreemptEntry(r, 1)
  PROVE  /\ Core' /\ request_states' = request_states
         /\ \A s \in request_states : IF s = r THEN Only(s)'.status = "kPending" ELSE Only(s)' = Only(s)
<1> DEFINE id == NewIds(1)[1]
           e == Only(r)
<1>1. TypeOK /\ deployment \in Deployments /\ EntriesOK /\ QueuesOK /\ StepOK
  BY DEF Shape, TypeOK
<1>2. running_queue \in Seq(Requests) /\ waiting_queue \in Seq(Requests)
      /\ r \in ToSet(running_queue) /\ r \in Requests
      /\ r \in request_states /\ e.status = "kAlive"
  <2>1. running_queue \in Seq(Requests) /\ waiting_queue \in Seq(Requests)
    BY <1>1 DEF QueuesOK
  <2>2. r \in ToSet(running_queue) /\ r \in Requests
    BY <2>1, FrontFacts
  <2> QED BY <2>1, <2>2 DEF Core, InQueues
<1>3. entries[r] = <<e>> /\ Len(entries[r]) = 1 /\ DOMAIN entries[r] = {1} /\ e \in EntryType
  BY <1>1, <1>2, OnlyFacts
<1>4. /\ UNCHANGED <<request_states, deployment>>
      /\ entries' = [entries EXCEPT ![r][1] =
           [@ EXCEPT !.status = "kPending", !.id = id, !.inputs = InputsAgain(r, 1),
                     !.num_tokens_for_next_decode = 0]]
      /\ kv' = WithoutSequences({entries[r][1].id})
      /\ TakeIds(1)
      /\ running_queue' = Front(running_queue)
      /\ waiting_queue' = IF entries[r][1].inputs = 0 /\ 1 = Len(entries[r])
                            THEN <<r>> \o waiting_queue ELSE waiting_queue
  BY DEF PreemptEntry, LeaveRunning, WaitAgain
<1>5. Requests' = Requests /\ PromptTokens' = PromptTokens /\ PromptTokens[r] \in Nat \ {0}
  BY <1>1, <1>2, <1>4, DeploymentFixed, SingleFacts
<1>6. DOMAIN entries = Requests /\ request_states \subseteq Requests
  BY <1>1 DEF EntriesOK, Trees, QueuesOK
<1>7. /\ id \in Nat /\ \A s \in request_states : Only(s).id # id
      /\ \A s \in request_states : Only(s).id < id_cnt'
      /\ id < id_cnt' /\ id \notin ToSet(available_ids')
      /\ ToSet(available_ids') \subseteq ToSet(available_ids) /\ Distinct(available_ids')
      /\ \A q \in ToSet(available_ids') : q < id_cnt'
  BY <1>1, <1>4, NewIdFacts DEF Core
<1>8. Only(r)' = [e EXCEPT !.status = "kPending", !.id = id, !.inputs = InputsAgain(r, 1),
                           !.num_tokens_for_next_decode = 0]
  BY <1>2, <1>3, <1>4, <1>6 DEF Only
<1>9. \A s \in request_states \ {r} : Only(s)' = Only(s)
  BY <1>2, <1>4, <1>6 DEF Only
<1>10. /\ InputsAgain(r, 1) = PromptTokens[r] + e.committed /\ e.committed \in Nat
       /\ InputsAgain(r, 1) > 0
  <2>1. InputsAgain(r, 1) = PromptTokens[r] + e.committed
    BY DEF InputsAgain, Only
  <2>2. e.committed \in Nat
    BY <1>3 DEF EntryType
  <2> QED BY <1>5, <2>1, <2>2
<1>11. /\ Only(r)'.status = "kPending" /\ Only(r)'.id = id /\ Only(r)'.inputs = PromptTokens[r] + e.committed
       /\ Only(r)'.inputs > 0
       /\ Only(r)'.num_tokens_for_next_decode = 0 /\ Only(r)'.committed = e.committed
       /\ Only(r)'.next_callback_token_pos = e.next_callback_token_pos
  BY <1>3, <1>8, <1>10 DEF EntryType
<1>12. entries[r][1] = e
  BY DEF Only
<1> HIDE DEF id, e
<1>13. InQueues'
  <2>1. /\ Distinct(running_queue') /\ r \notin ToSet(running_queue')
        /\ \A x : x \in ToSet(running_queue') <=> x \in ToSet(running_queue) /\ x # r
    <3>1. Distinct(running_queue)
      BY DEF Core, InQueues
    <3>2. /\ ToSet(Front(running_queue)) \subseteq ToSet(running_queue)
          /\ \A x : x \in ToSet(running_queue) => x \in ToSet(Front(running_queue)) \/ x = r
          /\ Distinct(Front(running_queue)) /\ r \notin ToSet(Front(running_queue))
      BY <1>2, <3>1, FrontFacts
    <3> QED BY <1>4, <3>2
  <2>2. /\ Distinct(waiting_queue')
        /\ \A x : x \in ToSet(waiting_queue') <=> x \in ToSet(waiting_queue) \/ x = r
    <3>1. r \in ToSet(waiting_queue) <=> e.inputs > 0
      BY <1>2 DEF Core, InQueues, e
    <3>2. Distinct(waiting_queue)
      BY DEF Core, InQueues
    <3>3. CASE e.inputs = 0
      <4>1. PICK t : t = <<r>>
        OBVIOUS
      <4>2. t \in Seq(Requests) /\ ToSet(t) = {r} /\ Distinct(t)
        BY <1>2, <4>1 DEF ToSet, Distinct
      <4>3. waiting_queue' = t \o waiting_queue
        BY <1>3, <1>4, <1>12, <3>3, <4>1
      <4>4. r \notin ToSet(waiting_queue)
        BY <3>1, <3>3
      <4>5. ToSet(t) \cap ToSet(waiting_queue) = {}
        BY <4>2, <4>4
      <4> QED BY <1>2, <3>2, <4>2, <4>3, <4>5, ConcatFacts
    <3>4. CASE e.inputs # 0
      <4>1. e.inputs > 0
        BY <1>3, <3>4 DEF EntryType
      <4> QED BY <1>4, <1>12, <3>1, <3>2, <3>4, <4>1
    <3> QED BY <3>3, <3>4
  <2>3. \A s \in request_states : Only(s)'.status # "kFinished"
    BY <1>9, <1>11 DEF Core, InQueues
  <2>4. \A s \in Requests : s \in ToSet(running_queue') <=> s \in request_states /\ Only(s)'.status = "kAlive"
    BY <1>9, <1>11, <2>1 DEF Core, InQueues
  <2>5. \A s \in Requests : s \in ToSet(waiting_queue') <=> s \in request_states /\ Only(s)'.inputs > 0
    BY <1>2, <1>9, <1>11, <2>2 DEF Core, InQueues
  <2> QED BY <1>4, <1>5, <2>1, <2>2, <2>3, <2>4, <2>5 DEF InQueues
<1>14. IdsApart'
  <2>1. \A s, t \in request_states : Only(s)'.id = Only(t)'.id => s = t
    <3>1. \A s, t \in request_states \ {r} : Only(s)'.id = Only(t)'.id => s = t
      BY <1>9 DEF Core, IdsApart
    <3>2. \A s \in request_states \ {r} : Only(s)'.id # Only(r)'.id
      BY <1>7, <1>9, <1>11
    <3> QED BY <3>1, <3>2
  <2>2. \A s \in request_states : Only(s)'.id \notin ToSet(available_ids') /\ Only(s)'.id < id_cnt'
    BY <1>7, <1>9, <1>11 DEF Core, IdsApart
  <2> QED BY <1>4, <1>7, <2>1, <2>2 DEF IdsApart
<1>15. InCache'
  <2>1. DOMAIN kv = {Only(s).id : s \in {t \in request_states : Only(t).status = "kAlive"}}
    BY DEF Core, InCache
  <2>2. \A s \in request_states : Only(s).id = e.id => s = r
    BY <1>2 DEF Core, IdsApart, e
  <2>3. DOMAIN kv' = DOMAIN kv \ {e.id} /\ \A k \in DOMAIN kv' : kv'[k] = kv[k]
    BY <1>4, <1>12 DEF WithoutSequences
  <2>4. {Only(s)'.id : s \in {t \in request_states : Only(t)'.status = "kAlive"}} =
        {Only(s).id : s \in {t \in request_states \ {r} : Only(t).status = "kAlive"}}
    BY <1>9, <1>11
  <2>5. DOMAIN kv' = {Only(s).id : s \in {t \in request_states \ {r} : Only(t).status = "kAlive"}}
    <3>1. e = Only(r)
      BY DEF e
    <3> QED BY <1>2, <2>1, <2>2, <2>3, <3>1
  <2>6. ASSUME NEW s \in request_states
        PROVE  /\ IF Only(s)'.status = "kAlive"
                    THEN kv'[Only(s)'.id] + Only(s)'.inputs + Only(s)'.num_tokens_for_next_decode =
                           PromptTokens[s] + Only(s)'.committed
                    ELSE /\ Only(s)'.inputs = PromptTokens[s] + Only(s)'.committed
                         /\ Only(s)'.num_tokens_for_next_decode = 0
               /\ Only(s)'.next_callback_token_pos = Only(s)'.committed
    <3>1. CASE s = r
      <4>1. e.next_callback_token_pos = e.committed
        BY <1>2 DEF Core, InCache, e
      <4> QED BY <1>11, <3>1, <4>1
    <3>2. CASE s # r
      <4>1. Only(s)' = Only(s)
        BY <1>9, <3>2
      <4>2. Only(s).status = "kAlive" => kv'[Only(s).id] = kv[Only(s).id]
        BY <2>3, <2>5, <3>2
      <4> QED BY <4>1, <4>2 DEF Core, InCache
    <3> QED BY <3>1, <3>2
  <2> QED BY <1>4, <1>5, <2>4, <2>5, <2>6 DEF InCache
<1> QED BY <1>4, <1>9, <1>11, <1>13, <1>14, <1>15 DEF Core

\* The first entry to finish is the only one of its request.
LEMMA FirstFinished ==
  ASSUME SingleGeneration, Shape, Core, ToFinish, enginePc = "finish"
  PROVE  LET x == Head(finished_rsentries)
             r == x[1]
             es == [entries[r] EXCEPT ![x[2]].status = "kFinished"]
             removed == Removed(r, x[2], es)
             ids == [q \in DOMAIN removed |-> es[removed[q]].id]
         IN  /\ finished_rsentries # <<>> /\ x = <<r, 1>>
             /\ r \in Requests /\ r \in request_states /\ Only(r).status = "kAlive" /\ Only(r).inputs = 0
             /\ AllFinished(r, es) /\ ids = <<Only(r).id>> /\ ToSet(ids) = {Only(r).id}
<1> DEFINE x == Head(finished_rsentries)
           r == x[1]
           es == [entries[r] EXCEPT ![x[2]].status = "kFinished"]
           removed == Removed(r, x[2], es)
           ids == [q \in DOMAIN removed |-> es[removed[q]].id]
<1>1. TypeOK /\ deployment \in Deployments /\ StepOK
  BY DEF Shape, TypeOK
<1>2. finished_rsentries \in Seq(Pairs) /\ finished_rsentries # <<>>
  BY <1>1 DEF StepOK
<1>3. x \in ToSet(finished_rsentries) /\ x \in Pairs
  BY <1>2 DEF ToSet
<1>4. x[2] = 1 /\ r \in request_states /\ Only(r).status = "kAlive" /\ Only(r).inputs = 0
  BY <1>3 DEF ToFinish
<1>5. /\ r \in Requests /\ entries[r] = <<Only(r)>> /\ DOMAIN entries[r] = {1} /\ Leaves(r) = {1}
      /\ Only(r) \in EntryType
  BY <1>1, <1>4, OnlyFacts, SingleFacts
<1>6. es[1].status = "kFinished" /\ es[1].id = Only(r).id
  <2>1. es = [entries[r] EXCEPT ![1] = [entries[r][1] EXCEPT !.status = "kFinished"]]
    BY <1>4
  <2>2. es[1] = [entries[r][1] EXCEPT !.status = "kFinished"]
    BY <1>5, <2>1
  <2>3. es[1] = [Only(r) EXCEPT !.status = "kFinished"]
    BY <2>2 DEF Only
  <2> HIDE DEF es
  <2> QED BY <1>5, <2>3 DEF EntryType
<1> HIDE DEF es
<1>7. AllFinished(r, es)
  BY <1>5, <1>6 DEF AllFinished
<1>8. ids = <<Only(r).id>>
  <2>1. removed = <<1>>
    BY <1>4 DEF Removed
  <2>2. ids = [q \in 1..1 |-> es[removed[q]].id]
    BY <2>1
  <2>3. \A q \in 1..1 : es[removed[q]].id = Only(r).id
    BY <1>6, <2>1
  <2> HIDE DEF removed, r, ids
  <2>4. ids = [q \in 1..1 |-> Only(r).id]
    BY <2>2, <2>3
  <2> QED BY <2>4
<1> HIDE DEF ids, removed
<1>9. ToSet(ids) = {Only(r).id}
  BY <1>8 DEF ToSet
<1>10. x = <<r, 1>>
  <2> HIDE DEF x
  <2> QED BY <1>1, <1>3, <1>4, SingleFacts
<1> HIDE DEF x, r
<1> QED BY <1>2, <1>4, <1>5, <1>7, <1>8, <1>9, <1>10 DEF x, r, es, removed, ids

\* With one entry, a request leaves with it.
LEMMA FinishSingle ==
  ASSUME SingleGeneration, Shape, Core, ToFinish, FinishEntry, enginePc' # "failed"
  PROVE  \E r \in request_states :
           /\ enginePc = "finish" /\ finished_rsentries # <<>> /\ Head(finished_rsentries) = <<r, 1>>
           /\ request_states' = request_states \ {r} /\ deployment' = deployment /\ UNCHANGED id_cnt
           /\ Only(r).status = "kAlive" /\ Only(r).inputs = 0
           /\ \A s \in request_states \ {r} : entries'[s] = entries[s]
           /\ running_queue' = InOrder(running_queue, Requests \ {r})
           /\ waiting_queue' = InOrder(waiting_queue, Requests \ {r}) /\ waiting_queue' = waiting_queue
           /\ available_ids' = available_ids \o <<Only(r).id>>
           /\ kv' = WithoutSequences({Only(r).id})
           /\ finished_rsentries' = Tail(finished_rsentries)
           /\ enginePc' = IF Tail(finished_rsentries) = <<>> THEN "idle" ELSE "finish"
           /\ UNCHANGED fault
<1> DEFINE x == Head(finished_rsentries)
           r == x[1]
           es == [entries[r] EXCEPT ![x[2]].status = "kFinished"]
           all == AllFinished(r, es)
           removed == Removed(r, x[2], es)
           ids == [q \in DOMAIN removed |-> es[removed[q]].id]
<1>1. TypeOK /\ deployment \in Deployments /\ EntriesOK /\ QueuesOK /\ StepOK /\ enginePc = "finish"
  BY FinishCases DEF Shape, TypeOK
<1>2. /\ kv' = WithoutSequences(ToSet(ids))
      /\ available_ids' = available_ids \o ids
      /\ entries' = [entries EXCEPT ![r] = IF all THEN <<>> ELSE es]
      /\ running_queue' = IF all THEN InOrder(running_queue, Requests \ {r}) ELSE running_queue
      /\ request_states' = IF all THEN request_states \ {r} ELSE request_states
      /\ finished_rsentries' = Tail(finished_rsentries)
      /\ enginePc' = IF Tail(finished_rsentries) = <<>> THEN "idle" ELSE "finish"
      /\ UNCHANGED <<waiting_queue, id_cnt, deployment, fault>>
  <2>1. ~Fail("sequence not in the KV cache") /\ ~Fail("finished request is not in the running queue")
    BY DEF Fail
  <2> HIDE DEF x, r, es, all, removed, ids
  <2> QED BY <2>1, FinishCases DEF x, r, es, all, removed, ids
<1>3. /\ finished_rsentries # <<>> /\ x = <<r, 1>>
      /\ r \in Requests /\ r \in request_states /\ Only(r).status = "kAlive" /\ Only(r).inputs = 0
      /\ all /\ ids = <<Only(r).id>> /\ ToSet(ids) = {Only(r).id}
  <2> HIDE DEF x, r, es, all, removed, ids
  <2> QED BY <1>1, FirstFinished DEF x, r, es, all, removed, ids
<1> HIDE DEF es, ids, all, removed
<1>4. InOrder(waiting_queue, Requests \ {r}) = waiting_queue
  <2>1. waiting_queue \in Seq(Requests)
    BY <1>1 DEF QueuesOK
  <2>2. r \notin ToSet(waiting_queue)
    BY <1>3 DEF Core, InQueues
  <2>3. ToSet(waiting_queue) \subseteq Requests \ {r}
    BY <2>1, <2>2, ToSetFacts
  <2> QED BY <2>1, <2>3, InOrderAll
<1>5. entries' = [entries EXCEPT ![r] = <<>>]
  BY <1>2, <1>3
<1>6. \A s \in request_states \ {r} : entries'[s] = entries[s]
  <2>1. \A s \in request_states : s \in Requests
    BY <1>1 DEF QueuesOK
  <2> HIDE DEF r
  <2> QED BY <1>1, <1>5, <2>1 DEF EntriesOK, Trees
<1>7. /\ request_states' = request_states \ {r}
      /\ running_queue' = InOrder(running_queue, Requests \ {r})
      /\ waiting_queue' = InOrder(waiting_queue, Requests \ {r})
      /\ available_ids' = available_ids \o <<Only(r).id>>
      /\ kv' = WithoutSequences({Only(r).id})
  BY <1>2, <1>3, <1>4
<1>8. PICK q \in request_states : q = r
  BY <1>3
<1> HIDE DEF x, r
<1> WITNESS q \in request_states
<1>9. finished_rsentries # <<>> /\ Head(finished_rsentries) = <<q, 1>>
  BY <1>3, <1>8 DEF x
<1> QED BY <1>1, <1>2, <1>3, <1>4, <1>6, <1>7, <1>8, <1>9

\* The end of a request leaves the others as they were.
LEMMA FinishCore ==
  ASSUME SingleGeneration, Shape, Core, ToFinish, FinishEntry, enginePc' # "failed"
  PROVE  Core' /\ ToFinish'
<1> DEFINE x == Head(finished_rsentries)
<1>1. TypeOK /\ StepOK
  BY DEF Shape, TypeOK
<1>2. PICK r \in request_states :
        /\ enginePc = "finish" /\ finished_rsentries # <<>> /\ Head(finished_rsentries) = <<r, 1>>
        /\ request_states' = request_states \ {r} /\ deployment' = deployment /\ UNCHANGED id_cnt
        /\ Only(r).status = "kAlive" /\ \A s \in request_states \ {r} : entries'[s] = entries[s]
        /\ running_queue' = InOrder(running_queue, Requests \ {r})
        /\ waiting_queue' = InOrder(waiting_queue, Requests \ {r}) /\ waiting_queue' = waiting_queue
        /\ available_ids' = available_ids \o <<Only(r).id>>
        /\ kv' = WithoutSequences({Only(r).id})
        /\ finished_rsentries' = Tail(finished_rsentries)
        /\ enginePc' = IF Tail(finished_rsentries) = <<>> THEN "idle" ELSE "finish"
  BY FinishSingle
<1>3. PICK n \in Nat : n = Len(finished_rsentries) /\ DOMAIN finished_rsentries = 1..n /\ n >= 1
  <2>1. finished_rsentries \in Seq(Pairs) /\ finished_rsentries # <<>>
    BY <1>1, <1>2 DEF StepOK
  <2> QED BY <2>1
<1>4. /\ x = finished_rsentries[1]
      /\ DOMAIN Tail(finished_rsentries) = 1..(n - 1)
      /\ \A i \in 1..(n - 1) : Tail(finished_rsentries)[i] = finished_rsentries[i + 1]
  BY <1>1, <1>3 DEF StepOK
<1>5. Core'
  BY <1>2, LeaveCore
<1>6. ToFinish'
  <2>1. \A i \in 1..(n - 1) : i + 1 \in 1..n /\ i + 1 # 1
    OBVIOUS
  <2>2. \A i, j \in 1..n : finished_rsentries[i] = finished_rsentries[j] => i = j
    BY <1>3 DEF ToFinish, Distinct
  <2>3. Distinct(finished_rsentries')
    <3> SUFFICES ASSUME NEW i \in 1..(n - 1), NEW j \in 1..(n - 1),
                        finished_rsentries[i + 1] = finished_rsentries[j + 1]
                 PROVE  i = j
      <4>1. /\ DOMAIN finished_rsentries' = 1..(n - 1)
            /\ \A i \in 1..(n - 1) : finished_rsentries'[i] = finished_rsentries[i + 1]
        BY <1>2, <1>4
      <4> QED BY <4>1 DEF Distinct
    <3>1. i + 1 = j + 1
      BY <2>1, <2>2
    <3> QED BY <3>1
  <2>4. ASSUME NEW y \in ToSet(finished_rsentries')
        PROVE  y[2] = 1 /\ y[1] \in request_states' /\ Only(y[1])'.status = "kAlive" /\ Only(y[1])'.inputs = 0
    <3>1. PICK i \in 1..(n - 1) : y = finished_rsentries[i + 1]
      BY <1>2, <1>4, <2>4 DEF ToSet
    <3>2. y \in ToSet(finished_rsentries) /\ y # x
      BY <1>3, <1>4, <2>1, <2>2, <3>1 DEF ToSet
    <3>3. y[2] = 1 /\ y[1] \in request_states /\ Only(y[1]).status = "kAlive" /\ Only(y[1]).inputs = 0
      BY <1>2, <3>2 DEF ToFinish
    <3>4. y \in Pairs /\ deployment \in Deployments
      BY <1>1, <3>2, ToSetFacts DEF StepOK, TypeOK
    <3>5. y = <<y[1], 1>>
      BY <3>4, SingleFacts
    <3>6. y[1] # r
      BY <1>2, <3>2, <3>5
    <3>7. Only(y[1])' = Only(y[1])
      BY <1>2, <3>3, <3>6 DEF Only
    <3> QED BY <1>2, <3>3, <3>6, <3>7
  <2> QED BY <2>3, <2>4 DEF ToFinish
<1> QED BY <1>5, <1>6

\* What the post-process makes of the processed entries.
LEMMA ProcessedFacts ==
  ASSUME SingleGeneration, Shape, Core, deployment' = deployment, request_states' = request_states,
         UNCHANGED <<available_ids, id_cnt>>,
         NEW es, Trees(es), NEW processed \in Seq(Requests), ToSet(processed) \subseteq request_states,
         Distinct(processed), PostProcess(processed, es),
         \A s \in request_states :
           /\ es[s][1].id = Only(s).id
           /\ es[s][1].next_callback_token_pos = Only(s).committed
           /\ \/ es[s][1].committed = Only(s).committed
              \/ /\ es[s][1].committed = Only(s).committed + 1
                 /\ s \in ToSet(processed) /\ es[s][1].status = "kAlive" /\ es[s][1].inputs = 0
  PROVE  /\ \A s \in request_states :
              /\ Only(s)'.id = Only(s).id
              /\ Only(s)'.status = es[s][1].status /\ Only(s)'.inputs = es[s][1].inputs
              /\ Only(s)'.committed = es[s][1].committed
              /\ Only(s)'.num_tokens_for_next_decode = es[s][1].num_tokens_for_next_decode
              /\ Only(s)'.next_callback_token_pos = Only(s)'.committed
         /\ IdsApart' /\ ToFinish' /\ enginePc' \in {"idle", "finish"}
<1>1. TypeOK /\ deployment \in Deployments /\ EntriesOK /\ QueuesOK
  BY DEF Shape, TypeOK
<1>2. /\ \A r \in Requests : \A i \in DOMAIN es[r] :
           entries'[r][i] = IF <<r, i>> \in FreshIn(processed, es)
                              THEN [es[r][i] EXCEPT !.next_callback_token_pos = es[r][i].committed]
                              ELSE es[r][i]
      /\ \A x \in ToSet(finished_rsentries') : x \in FreshIn(processed, es)
      /\ enginePc' \in {"idle", "finish"}
      /\ Distinct(finished_rsentries')
  BY <1>1, PostProcessFacts
<1>3. ASSUME NEW s \in request_states
      PROVE  s \in Requests /\ DOMAIN es[s] = {1} /\ es[s][1] \in EntryType /\ Leaves(s) = {1}
  <2>1. s \in Requests /\ NumEntries(s) = 1 /\ Leaves(s) = {1}
    BY <1>1, SingleFacts DEF QueuesOK
  <2>2. es[s] \in [1..1 -> EntryType]
    BY <2>1 DEF Trees
  <2>3. DOMAIN es[s] = 1..1 /\ es[s][1] \in EntryType
    BY <2>2
  <2> QED BY <2>1, <2>3
<1>4. \A s \in request_states : Only(s).committed \in Nat
  BY <1>1, OnlyFacts DEF EntryType
<1>5. ASSUME NEW x \in FreshIn(processed, es)
      PROVE  /\ x = <<x[1], 1>> /\ x[1] \in request_states
             /\ es[x[1]][1].status = "kAlive" /\ es[x[1]][1].inputs = 0
  <2>1. PICK r \in ToSet(processed) : x \in {r} \X Leaves(r)
    BY <1>5 DEF FreshIn
  <2>2. x = <<r, 1>> /\ r \in request_states
    BY <1>3, <2>1
  <2>3. es[r][1].next_callback_token_pos < es[r][1].committed
    BY <1>5, <2>2 DEF FreshIn
  <2>4. es[r][1].committed # Only(r).committed
    BY <1>4, <2>2, <2>3
  <2> QED BY <2>2, <2>4
<1>6. ASSUME NEW s \in request_states
      PROVE  /\ Only(s)'.id = Only(s).id
             /\ Only(s)'.status = es[s][1].status /\ Only(s)'.inputs = es[s][1].inputs
             /\ Only(s)'.committed = es[s][1].committed
             /\ Only(s)'.num_tokens_for_next_decode = es[s][1].num_tokens_for_next_decode
             /\ Only(s)'.next_callback_token_pos = Only(s)'.committed
  <2>1. PICK e \in EntryType : e = es[s][1]
    BY <1>3
  <2>2. Only(s)' = IF <<s, 1>> \in FreshIn(processed, es)
                     THEN [e EXCEPT !.next_callback_token_pos = e.committed] ELSE e
    BY <1>2, <1>3, <2>1 DEF Only
  <2>3. CASE <<s, 1>> \in FreshIn(processed, es)
    <3>1. Only(s)' = [e EXCEPT !.next_callback_token_pos = e.committed]
      BY <2>2, <2>3
    <3>2. /\ Only(s)'.id = e.id /\ Only(s)'.status = e.status /\ Only(s)'.inputs = e.inputs
          /\ Only(s)'.committed = e.committed
          /\ Only(s)'.num_tokens_for_next_decode = e.num_tokens_for_next_decode
          /\ Only(s)'.next_callback_token_pos = e.committed
      BY <3>1 DEF EntryType
    <3> QED BY <2>1, <3>2
  <2>4. CASE <<s, 1>> \notin FreshIn(processed, es)
    <3>1. e.committed = Only(s).committed
      <4> SUFFICES ASSUME e.committed = Only(s).committed + 1, s \in ToSet(processed) PROVE FALSE
        BY <2>1
      <4>1. e.next_callback_token_pos < e.committed
        BY <1>4, <2>1
      <4>2. <<s, 1>> \in {s} \X Leaves(s)
        BY <1>3
      <4>3. <<s, 1>> \in FreshIn(processed, es)
        BY <2>1, <4>1, <4>2 DEF FreshIn
      <4> QED BY <2>4, <4>3
    <3> QED BY <2>1, <2>2, <2>4, <3>1
  <2> QED BY <2>3, <2>4
<1>7. IdsApart'
  BY <1>6 DEF Core, IdsApart
<1>8. ToFinish'
  <2>1. ASSUME NEW x \in ToSet(finished_rsentries')
        PROVE  x[2] = 1 /\ x[1] \in request_states' /\ Only(x[1])'.status = "kAlive" /\ Only(x[1])'.inputs = 0
    <3>1. /\ x = <<x[1], 1>> /\ x[1] \in request_states
          /\ es[x[1]][1].status = "kAlive" /\ es[x[1]][1].inputs = 0
      BY <1>2, <1>5, <2>1
    <3>2. x[2] = 1
      BY <3>1
    <3> QED BY <1>6, <3>1, <3>2
  <2> QED BY <1>2, <2>1 DEF ToFinish
<1> QED BY <1>2, <1>6, <1>7, <1>8

\* A request whose new token reaches a length limit is among those that finish.
LEMMA LimitFinishes ==
  ASSUME SingleGeneration, Shape, Core, deployment' = deployment, request_states' = request_states,
         UNCHANGED <<available_ids, id_cnt>>,
         NEW es, Trees(es), NEW processed \in Seq(Requests), ToSet(processed) \subseteq request_states,
         Distinct(processed), PostProcess(processed, es),
         \A s \in request_states :
           /\ es[s][1].id = Only(s).id
           /\ es[s][1].next_callback_token_pos = Only(s).committed
           /\ \/ es[s][1].committed = Only(s).committed
              \/ /\ es[s][1].committed = Only(s).committed + 1
                 /\ s \in ToSet(processed) /\ es[s][1].status = "kAlive" /\ es[s][1].inputs = 0,
         NEW s \in request_states, Only(s)'.committed # Only(s).committed, ReachesLength(s, Only(s)')
  PROVE  <<s, 1>> \in ToSet(finished_rsentries') /\ enginePc' = "finish"
<1> DEFINE fresh == FreshIn(processed, es)
           atLimit == {x \in fresh : ReachesLength(x[1], es[x[1]][x[2]])}
           x == <<s, 1>>
<1>1. TypeOK /\ deployment \in Deployments /\ QueuesOK
  BY DEF Shape, TypeOK
<1>2. PICK stopped \in SUBSET (fresh \ atLimit) :
        /\ finished_rsentries' = EntriesOf(processed, es, atLimit \cup stopped)
        /\ enginePc' = IF atLimit \cup stopped = {} THEN "idle" ELSE "finish"
  BY DEF PostProcess, FreshIn
<1>3. Only(s)'.committed = es[s][1].committed
  BY ProcessedFacts
<1>4. /\ es[s][1].committed = Only(s).committed + 1 /\ s \in ToSet(processed)
      /\ es[s][1].next_callback_token_pos = Only(s).committed
  BY <1>3
<1>5. /\ s \in Requests /\ Leaves(s) = {1} /\ Only(s).committed \in Nat /\ NumEntries(s) = 1
  BY <1>1, OnlyFacts, SingleFacts DEF EntryType
<1>6. x \in fresh
  <2>1. x \in {s} \X Leaves(s) /\ x[1] = s /\ x[2] = 1
    BY <1>5
  <2>2. es[x[1]][x[2]].next_callback_token_pos < es[x[1]][x[2]].committed
    BY <1>4, <1>5, <2>1
  <2> QED BY <1>4, <2>1, <2>2 DEF FreshIn
<1>7. ReachesLength(s, es[s][1])
  BY <1>3 DEF ReachesLength
<1>8. x \in atLimit
  BY <1>6, <1>7
<1>9. 1 \in DOMAIN es[s]
  <2>1. es[s] \in [1..1 -> EntryType]
    BY <1>5 DEF Trees
  <2> QED BY <2>1
<1> HIDE DEF atLimit, fresh
<1>10. x \in ToSet(EntriesOf(processed, es, atLimit \cup stopped))
  BY <1>1, <1>4, <1>8, <1>9, SelectedEntries
<1> QED BY <1>2, <1>8, <1>10

\* A decode adds one token to the entries of the batch.
LEMMA DecodedEntries ==
  ASSUME SingleGeneration, Shape, Core, StillDecodes, enginePc = "decode", BatchIsSound, Decode
  PROVE  /\ \A x \in DecodeBatch :
              /\ x = <<x[1], 1>> /\ x[1] \in request_states /\ Entry(x) = Only(x[1])
              /\ Only(x[1]).status = "kAlive" /\ Only(x[1]).inputs = 0 /\ x[1] \in ToSet(running_queue)
              /\ NextDecode(x) = Only(x[1]).num_tokens_for_next_decode
         /\ \A s \in request_states :
              /\ Only(s)'.id = Only(s).id /\ Only(s)'.status = Only(s).status
              /\ Only(s)'.inputs = Only(s).inputs
              /\ Only(s)'.next_callback_token_pos = Only(s)'.committed
              /\ IF <<s, 1>> \in DecodeBatch
                   THEN /\ Only(s)'.committed = Only(s).committed + 1
                        /\ Only(s)'.num_tokens_for_next_decode = 1
                   ELSE /\ Only(s)'.committed = Only(s).committed
                        /\ Only(s)'.num_tokens_for_next_decode = Only(s).num_tokens_for_next_decode
         /\ \A s \in request_states :
              Only(s)'.committed # Only(s).committed /\ ReachesLength(s, Only(s)') =>
                <<s, 1>> \in ToSet(finished_rsentries') /\ enginePc' = "finish"
         /\ IdsApart' /\ ToFinish' /\ enginePc' \in {"idle", "finish"}
<1>1. TypeOK /\ deployment \in Deployments /\ EntriesOK /\ QueuesOK /\ StepOK
  BY DEF Shape, TypeOK
<1>2. /\ PostProcess(running_queue, Decoded)
      /\ UNCHANGED <<running_queue, waiting_queue, request_states, available_ids, id_cnt>>
      /\ UNCHANGED deployment
  BY DEF Decode, Decoded, queueVars, idVars
<1>3. running_queue \in Seq(Requests) /\ ToSet(running_queue) \subseteq request_states
  BY <1>1 DEF QueuesOK
<1>4. \A s \in request_states : /\ s \in Requests /\ DOMAIN entries[s] = {1} /\ Only(s) \in EntryType
                                /\ Entry(<<s, 1>>) = Only(s) /\ entries[s][1] = Only(s)
  BY <1>1, OnlyFacts DEF Only
<1>5. ASSUME NEW x \in DecodeBatch
      PROVE  /\ x = <<x[1], 1>> /\ x[1] \in request_states /\ Entry(x) = Only(x[1])
             /\ Only(x[1]).status = "kAlive" /\ Only(x[1]).inputs = 0 /\ x[1] \in ToSet(running_queue)
             /\ NextDecode(x) = Only(x[1]).num_tokens_for_next_decode
  <2>1. x \in ToSet(running_rsentries) /\ x \in Pairs
    <3>1. running_rsentries \in Seq(Pairs)
      BY <1>1 DEF StepOK
    <3>2. PICK q \in DOMAIN running_rsentries : x = running_rsentries[q]
      BY DEF DecodeBatch
    <3>3. x \in ToSet(running_rsentries)
      BY <3>2 DEF ToSet
    <3> QED BY <3>1, <3>3, ToSetFacts
  <2>2. PICK r \in Requests : x = <<r, 1>>
    BY <1>1, <2>1, SingleFacts
  <2>3. r \in request_states /\ Entry(x).id \in DOMAIN kv
    BY <2>2 DEF BatchIsSound
  <2>4. Entry(x) = Only(r)
    BY <1>4, <2>2, <2>3
  <2>5. PICK s \in request_states : Only(s).status = "kAlive" /\ Only(s).id = Only(r).id
    BY <2>3, <2>4 DEF Core, InCache
  <2>6. s = r
    BY <2>3, <2>5 DEF Core, IdsApart
  <2>7. Only(r).inputs = 0
    BY <2>1, <2>2, <2>3, <2>5, <2>6 DEF StillDecodes
  <2>8. r \in ToSet(running_queue)
    BY <2>2, <2>3, <2>5, <2>6 DEF Core, InQueues
  <2> QED BY <2>2, <2>3, <2>4, <2>5, <2>6, <2>7, <2>8 DEF NextDecode
<1>6. Trees(Decoded)
  BY <1>1, DecodedFacts
<1>7. PICK es : es = Decoded
  OBVIOUS
<1>8. ASSUME NEW s \in request_states
      PROVE  es[s][1] = IF <<s, 1>> \in DecodeBatch
                          THEN [Only(s) EXCEPT !.num_tokens_for_next_decode = 1,
                                               !.committed = Only(s).committed + 1]
                          ELSE Only(s)
  BY <1>1, <1>4, <1>7, DecodedFacts
<1>9. ASSUME NEW s \in request_states
      PROVE  /\ es[s][1].id = Only(s).id /\ es[s][1].status = Only(s).status
             /\ es[s][1].inputs = Only(s).inputs
             /\ es[s][1].next_callback_token_pos = Only(s).committed
             /\ IF <<s, 1>> \in DecodeBatch
                  THEN /\ es[s][1].committed = Only(s).committed + 1
                       /\ es[s][1].num_tokens_for_next_decode = 1
                  ELSE /\ es[s][1].committed = Only(s).committed
                       /\ es[s][1].num_tokens_for_next_decode = Only(s).num_tokens_for_next_decode
  <2>1. PICK e \in EntryType : e = Only(s)
    BY <1>4
  <2>2. e.next_callback_token_pos = e.committed
    BY <2>1 DEF Core, InCache
  <2>3. CASE <<s, 1>> \in DecodeBatch
    <3>1. es[s][1] = [e EXCEPT !.num_tokens_for_next_decode = 1, !.committed = e.committed + 1]
      BY <1>8, <2>1, <2>3
    <3>2. /\ es[s][1].id = e.id /\ es[s][1].status = e.status /\ es[s][1].inputs = e.inputs
          /\ es[s][1].next_callback_token_pos = e.next_callback_token_pos
          /\ es[s][1].committed = e.committed + 1 /\ es[s][1].num_tokens_for_next_decode = 1
      BY <3>1 DEF EntryType
    <3> QED BY <2>1, <2>2, <2>3, <3>2
  <2>4. CASE <<s, 1>> \notin DecodeBatch
    BY <1>8, <2>1, <2>2, <2>4
  <2> QED BY <2>3, <2>4
<1>10. \A s \in request_states :
         /\ es[s][1].id = Only(s).id
         /\ es[s][1].next_callback_token_pos = Only(s).committed
         /\ \/ es[s][1].committed = Only(s).committed
            \/ /\ es[s][1].committed = Only(s).committed + 1
               /\ s \in ToSet(running_queue) /\ es[s][1].status = "kAlive" /\ es[s][1].inputs = 0
  BY <1>5, <1>9
<1>11. Distinct(running_queue)
  BY DEF Core, InQueues
<1>12. /\ \A s \in request_states :
            /\ Only(s)'.id = Only(s).id
            /\ Only(s)'.status = es[s][1].status /\ Only(s)'.inputs = es[s][1].inputs
            /\ Only(s)'.committed = es[s][1].committed
            /\ Only(s)'.num_tokens_for_next_decode = es[s][1].num_tokens_for_next_decode
            /\ Only(s)'.next_callback_token_pos = Only(s)'.committed
       /\ IdsApart' /\ ToFinish' /\ enginePc' \in {"idle", "finish"}
  BY <1>2, <1>3, <1>6, <1>7, <1>10, <1>11, ProcessedFacts
<1>13. ASSUME NEW s \in request_states, Only(s)'.committed # Only(s).committed, ReachesLength(s, Only(s)')
       PROVE  <<s, 1>> \in ToSet(finished_rsentries') /\ enginePc' = "finish"
  BY <1>2, <1>3, <1>6, <1>7, <1>10, <1>11, <1>13, LimitFinishes
<1>14. ASSUME NEW s \in request_states
       PROVE  /\ Only(s)'.id = Only(s).id /\ Only(s)'.status = Only(s).status
              /\ Only(s)'.inputs = Only(s).inputs
              /\ Only(s)'.next_callback_token_pos = Only(s)'.committed
              /\ IF <<s, 1>> \in DecodeBatch
                   THEN /\ Only(s)'.committed = Only(s).committed + 1
                        /\ Only(s)'.num_tokens_for_next_decode = 1
                   ELSE /\ Only(s)'.committed = Only(s).committed
                        /\ Only(s)'.num_tokens_for_next_decode = Only(s).num_tokens_for_next_decode
  BY <1>9, <1>12
<1> QED BY <1>5, <1>12, <1>13, <1>14

\* ... and to the sequences of the KV cache.
LEMMA DecodedCache ==
  ASSUME SingleGeneration, Shape, Core, StillDecodes, enginePc = "decode", BatchIsSound, Decode
  PROVE  /\ DOMAIN kv' = DOMAIN kv
         /\ \A s \in request_states : Only(s).status = "kAlive" =>
              kv'[Only(s).id] = kv[Only(s).id] +
                (IF <<s, 1>> \in DecodeBatch THEN Only(s).num_tokens_for_next_decode ELSE 0)
<1> DEFINE ofS(k) == {x \in DecodeBatch : Entry(x).id = k}
<1>1. TypeOK /\ StepOK
  BY DEF Shape, TypeOK
<1>2. kv' = [k \in DOMAIN kv |->
               IF ofS(k) = {} THEN kv[k] ELSE kv[k] + NextDecode(CHOOSE x \in ofS(k) : TRUE)]
  BY DEF Decode
<1>3. \A x \in DecodeBatch :
        /\ x = <<x[1], 1>> /\ x[1] \in request_states /\ Entry(x) = Only(x[1])
        /\ NextDecode(x) = Only(x[1]).num_tokens_for_next_decode
  BY DecodedEntries
<1>4. ASSUME NEW s \in request_states, Only(s).status = "kAlive"
      PROVE  kv'[Only(s).id] = kv[Only(s).id] +
               (IF <<s, 1>> \in DecodeBatch THEN Only(s).num_tokens_for_next_decode ELSE 0)
  <2> DEFINE k == Only(s).id
  <2>1. k \in DOMAIN kv /\ kv[k] \in Nat
    BY <1>1, <1>4 DEF StepOK, Core, InCache
  <2>2. \A x \in ofS(k) : x = <<s, 1>>
    <3> SUFFICES ASSUME NEW x \in DecodeBatch, Entry(x).id = k PROVE x = <<s, 1>>
      OBVIOUS
    <3>1. x = <<x[1], 1>> /\ x[1] \in request_states /\ Only(x[1]).id = Only(s).id
      BY <1>3
    <3>2. x[1] = s
      BY <3>1 DEF Core, IdsApart
    <3> QED BY <3>1, <3>2
  <2>3. CASE <<s, 1>> \in DecodeBatch
    <3>1. Entry(<<s, 1>>) = Only(s)
      BY <1>1, OnlyFacts
    <3>2. <<s, 1>> \in ofS(k)
      BY <2>3, <3>1
    <3>3. ofS(k) # {} /\ (CHOOSE x \in ofS(k) : TRUE) = <<s, 1>>
      BY <2>2, <3>2
    <3>4. NextDecode(<<s, 1>>) = Only(s).num_tokens_for_next_decode
      BY <3>1 DEF NextDecode
    <3> QED BY <1>2, <2>1, <2>3, <3>3, <3>4
  <2>4. CASE <<s, 1>> \notin DecodeBatch
    <3>1. ofS(k) = {}
      BY <2>2, <2>4
    <3> QED BY <1>2, <2>1, <2>4, <3>1
  <2> QED BY <2>3, <2>4
<1> QED BY <1>2, <1>4

\* A decode keeps ids, queues and the KV cache in order.
LEMMA DecodeCore ==
  ASSUME SingleGeneration, Shape, Core, StillDecodes, enginePc = "decode", BatchIsSound, Decode
  PROVE  Core' /\ ToFinish' /\ enginePc' \in {"idle", "finish"}
<1>1. TypeOK /\ deployment \in Deployments /\ StepOK
  BY DEF Shape, TypeOK
<1>2. UNCHANGED <<running_queue, waiting_queue, request_states, available_ids, id_cnt>> /\ UNCHANGED deployment
  BY DEF Decode, queueVars, idVars
<1>3. Requests' = Requests /\ PromptTokens' = PromptTokens
  BY <1>2, DeploymentFixed
<1>4. ASSUME NEW s \in request_states
      PROVE  Only(s)'.status = Only(s).status /\ Only(s)'.inputs = Only(s).inputs /\ Only(s)'.id = Only(s).id
  BY DecodedEntries
<1>5. InQueues'
  <2>1. \A s \in request_states : Only(s)'.status # "kFinished"
    BY <1>4 DEF Core, InQueues
  <2>2. \A s \in Requests : s \in ToSet(running_queue) <=> s \in request_states /\ Only(s)'.status = "kAlive"
    BY <1>4 DEF Core, InQueues
  <2>3. \A s \in Requests : s \in ToSet(waiting_queue) <=> s \in request_states /\ Only(s)'.inputs > 0
    BY <1>4 DEF Core, InQueues
  <2>4. Distinct(running_queue) /\ Distinct(waiting_queue)
    BY DEF Core, InQueues
  <2> QED BY <1>2, <1>3, <2>1, <2>2, <2>3, <2>4 DEF InQueues
<1>6. InCache'
  <2>1. {Only(s)'.id : s \in {t \in request_states : Only(t)'.status = "kAlive"}} =
        {Only(s).id : s \in {t \in request_states : Only(t).status = "kAlive"}}
    BY <1>4
  <2>2. DOMAIN kv' = DOMAIN kv /\ DOMAIN kv = {Only(s).id : s \in {t \in request_states : Only(t).status = "kAlive"}}
    BY DecodedCache DEF Core, InCache
  <2>3. ASSUME NEW s \in request_states
        PROVE  /\ IF Only(s)'.status = "kAlive"
                    THEN kv'[Only(s)'.id] + Only(s)'.inputs + Only(s)'.num_tokens_for_next_decode =
                           PromptTokens[s] + Only(s)'.committed
                    ELSE /\ Only(s)'.inputs = PromptTokens[s] + Only(s)'.committed
                         /\ Only(s)'.num_tokens_for_next_decode = 0
               /\ Only(s)'.next_callback_token_pos = Only(s)'.committed
    <3>1. /\ Only(s)'.next_callback_token_pos = Only(s)'.committed
          /\ IF <<s, 1>> \in DecodeBatch
               THEN /\ Only(s)'.committed = Only(s).committed + 1
                    /\ Only(s)'.num_tokens_for_next_decode = 1
               ELSE /\ Only(s)'.committed = Only(s).committed
                    /\ Only(s)'.num_tokens_for_next_decode = Only(s).num_tokens_for_next_decode
      BY DecodedEntries
    <3>2. CASE Only(s).status # "kAlive"
      <4>1. <<s, 1>> \notin DecodeBatch
        <5>1. \A x \in DecodeBatch : Only(x[1]).status = "kAlive"
          BY DecodedEntries
        <5>2. <<s, 1>>[1] = s
          OBVIOUS
        <5> QED BY <3>2, <5>1, <5>2
      <4> QED BY <1>4, <3>1, <3>2, <4>1 DEF Core, InCache
    <3>3. CASE Only(s).status = "kAlive"
      <4>1. kv'[Only(s).id] = kv[Only(s).id] +
              (IF <<s, 1>> \in DecodeBatch THEN Only(s).num_tokens_for_next_decode ELSE 0)
        BY <3>3, DecodedCache
      <4>2. kv[Only(s).id] + Only(s).inputs + Only(s).num_tokens_for_next_decode = PromptTokens[s] + Only(s).committed
        BY <3>3 DEF Core, InCache
      <4>3. kv[Only(s).id] \in Nat
        BY <1>1, <2>2, <3>3 DEF StepOK
      <4>4. /\ Only(s).inputs \in Nat /\ Only(s).num_tokens_for_next_decode \in Nat
            /\ Only(s).committed \in Nat /\ PromptTokens[s] \in Nat
        BY <1>1, OnlyFacts, SingleFacts DEF EntryType
      <4>5. PICK k \in Nat, i \in Nat, d \in Nat, c \in Nat :
              k = kv[Only(s).id] /\ i = Only(s).inputs /\ d = Only(s).num_tokens_for_next_decode /\ c = Only(s).committed
        BY <4>3, <4>4
      <4>6. CASE <<s, 1>> \in DecodeBatch
        BY <1>4, <3>1, <3>3, <4>1, <4>2, <4>4, <4>5, <4>6
      <4>7. CASE <<s, 1>> \notin DecodeBatch
        BY <1>4, <3>1, <3>3, <4>1, <4>2, <4>4, <4>5, <4>7
      <4> QED BY <4>6, <4>7
    <3> QED BY <3>2, <3>3
  <2> QED BY <1>2, <1>3, <2>1, <2>2, <2>3 DEF InCache
<1> QED BY <1>5, <1>6, DecodedEntries DEF Core

\* No two inputs of a prefill are for the same request.
LEMMA InputsApart ==
  ASSUME SingleGeneration, Shape, Core, InTurn, enginePc = "select"
  PROVE  /\ \A a, b \in DOMAIN PrefillInputs :
              PrefillInputs[a].rsentry = PrefillInputs[b].rsentry => a = b
         /\ \A p \in ToSet(PrefillInputs) :
              /\ p.rsentry = <<p.rsentry[1], 1>> /\ p.rsentry[1] \in request_states
              /\ Unblocked(p) = {} /\ Activated(p) = {}
<1> DEFINE running == cached_running_rsentries_
           along == [q \in DOMAIN running |-> PrefillInput(running[q], NextDecode(running[q]), 0, TRUE)]
           more == IF Hybrid THEN along ELSE <<>>
<1>1. PrefillInputs = prefill.chosen \o more
  BY DEF PrefillInputs
<1>2. TypeOK /\ Selected /\ CacheIsFresh /\ EntriesOK /\ deployment \in Deployments
  BY DEF Shape, TypeOK
<1>3. running = ComputeRunning
  BY <1>2 DEF Selected, CacheIsFresh
<1>4. running \in Seq(Pairs) /\ Distinct(running)
  <2>1. Distinct(running_queue)
    BY DEF Core, InQueues
  <2> QED BY <1>2, <1>3, <2>1, RunningFacts
<1>5. PICK n \in Nat : n = Len(running) /\ DOMAIN running = 1..n
  BY <1>4
<1>6. PICK m \in Nat : m = Len(prefill.chosen) /\ DOMAIN prefill.chosen = 1..m
  <2>1. prefill.chosen \in Seq(InputType)
    BY <1>2 DEF TypeOK, StepOK, PrefillType
  <2> QED BY <2>1
<1>7. \A q \in 1..n : running[q] \in AllEntries /\ Entry(running[q]).inputs = 0
  <2>1. \A q \in 1..n : running[q] \in ToSet(ComputeRunning)
    BY <1>3, <1>5 DEF ToSet
  <2> QED BY <1>2, <2>1, RunningFacts
<1>8. PICK k \in Nat : /\ Len(more) = k /\ k <= n
                       /\ \A i \in 1..k : more[i].rsentry = running[i]
  <2>1. CASE Hybrid
    <3>1. more = [q \in 1..n |-> PrefillInput(running[q], NextDecode(running[q]), 0, TRUE)]
      BY <1>5, <2>1
    <3>2. \A i \in 1..n : more[i].rsentry = running[i]
      BY <3>1 DEF PrefillInput
    <3>3. Len(more) = n
      BY <3>1
    <3> HIDE DEF more, running
    <3> QED BY <3>2, <3>3
  <2>2. CASE ~Hybrid
    BY <2>2
  <2> QED BY <2>1, <2>2
<1> HIDE DEF more, running
<1>9. /\ DOMAIN PrefillInputs = 1..(m + k)
      /\ \A a \in 1..m : PrefillInputs[a] = prefill.chosen[a]
      /\ \A a \in 1..(m + k) : a > m => PrefillInputs[a] = more[a - m] /\ a - m \in 1..k
  <2>1. prefill.chosen \in Seq(InputType) /\ PrefillInputs \in Seq(InputType)
    BY <1>2, PrefillInputsFacts DEF TypeOK, StepOK, PrefillType
  <2>2. more \in Seq(InputType)
    <3>1. along \in Seq(InputType)
      <4>1. along = [q \in 1..n |-> PrefillInput(running[q], NextDecode(running[q]), 0, TRUE)]
        BY <1>5
      <4> DEFINE input(q) == PrefillInput(running[q], NextDecode(running[q]), 0, TRUE)
      <4>2. \A q \in 1..n : input(q) \in InputType
        <5> TAKE q \in 1..n
        <5>1. running[q] \in AllEntries /\ running[q] \in Pairs
          BY <1>2, <1>7, AllEntriesFacts
        <5>2. Entry(running[q]) \in EntryType
          BY <1>2, <5>1, AllEntriesFacts
        <5>3. NextDecode(running[q]) \in Nat
          BY <5>2 DEF EntryType, NextDecode
        <5> QED BY <5>1, <5>3 DEF PrefillInput, InputType
      <4>3. along = [q \in 1..n |-> input(q)]
        BY <4>1
      <4> HIDE DEF input, along
      <4> QED BY <4>2, <4>3
    <3> QED BY <3>1 DEF more
  <2>3. PICK c \in Seq(InputType) : c = prefill.chosen
    BY <2>1
  <2>4. PICK t \in Seq(InputType) : t = more
    BY <2>2
  <2>5. Len(c) = m /\ Len(t) = k /\ PrefillInputs = c \o t
    BY <1>1, <1>6, <1>8, <2>3, <2>4
  <2>6. /\ DOMAIN (c \o t) = 1..(m + k)
        /\ \A a \in 1..m : (c \o t)[a] = c[a]
        /\ \A a \in 1..(m + k) : a > m => (c \o t)[a] = t[a - m] /\ a - m \in 1..k
    <3>1. m = Len(c) /\ k = Len(t)
      BY <2>5
    <3> QED BY <2>3, <2>4, <3>1, ConcatPositions, SMTT(40)
  <2> QED BY <2>3, <2>4, <2>5, <2>6
<1>10. \A a \in 1..m : /\ prefill.chosen[a].rsentry = <<waiting_queue[a], 1>> /\ a \in DOMAIN waiting_queue
                       /\ Entry(prefill.chosen[a].rsentry).inputs > 0
  <2>1. waiting_queue \in Seq(Requests)
    BY <1>2 DEF TypeOK, QueuesOK
  <2>2. m <= Len(waiting_queue)
    <3>1. prefill.todo \in Seq(Pairs)
      BY <1>2 DEF TypeOK, StepOK, PrefillType
    <3>2. Len(prefill.chosen) + Len(prefill.todo) <= Len(waiting_queue)
      BY DEF InTurn
    <3>3. PICK t \in Nat : t = Len(prefill.todo)
      BY <3>1
    <3>4. PICK w \in Nat : w = Len(waiting_queue)
      BY <2>1
    <3>5. m + t <= w
      BY <1>6, <3>2, <3>3, <3>4
    <3>6. m <= w
      BY <3>5
    <3> QED BY <3>4, <3>6
  <2>3. ASSUME NEW a \in 1..m PROVE Entry(prefill.chosen[a].rsentry).inputs > 0
    <3>1. prefill.chosen[a] \in ToSet(prefill.chosen)
      BY <1>6 DEF ToSet
    <3>2. /\ prefill.chosen[a].rsentry \in AllEntries
          /\ prefill.chosen[a].len \in 1..Entry(prefill.chosen[a].rsentry).inputs
      BY <1>2, <3>1 DEF Selected
    <3>3. Entry(prefill.chosen[a].rsentry).inputs \in Nat
      BY <1>2, <3>2, AllEntriesFacts DEF EntryType
    <3> QED BY <3>2, <3>3
  <2> QED BY <1>6, <2>1, <2>2, <2>3 DEF InTurn
<1>11. ASSUME NEW a \in DOMAIN PrefillInputs, NEW b \in DOMAIN PrefillInputs,
              PrefillInputs[a].rsentry = PrefillInputs[b].rsentry
       PROVE  a = b
  <2>1. CASE a \in 1..m /\ b \in 1..m
    <3>1. waiting_queue[a] = waiting_queue[b]
      BY <1>9, <1>10, <1>11, <2>1
    <3> QED BY <1>10, <2>1, <3>1 DEF Core, InQueues, Distinct
  <2>2. CASE a > m /\ b > m
    <3>1. running[a - m] = running[b - m] /\ a - m \in 1..n /\ b - m \in 1..n
      BY <1>8, <1>9, <1>11, <2>2
    <3>2. a - m = b - m
      BY <1>4, <1>5, <3>1 DEF Distinct
    <3> QED BY <1>9, <3>2
  <2>3. \A c \in DOMAIN PrefillInputs :
          /\ c \in 1..m => Entry(PrefillInputs[c].rsentry).inputs > 0
          /\ c > m => Entry(PrefillInputs[c].rsentry).inputs = 0
    <3> TAKE c \in DOMAIN PrefillInputs
    <3>1. CASE c \in 1..m
      BY <1>9, <1>10, <3>1
    <3>2. CASE c > m
      <4>1. PrefillInputs[c].rsentry = running[c - m] /\ c - m \in 1..n
        BY <1>8, <1>9, <3>2
      <4> QED BY <1>7, <3>2, <4>1
    <3> QED BY <1>9, <3>1, <3>2
  <2>4. (a \in 1..m \/ a > m) /\ (b \in 1..m \/ b > m)
    BY <1>9
  <2> QED BY <1>11, <2>1, <2>2, <2>3, <2>4
<1>12. ASSUME NEW p \in ToSet(PrefillInputs)
       PROVE  /\ p.rsentry = <<p.rsentry[1], 1>> /\ p.rsentry[1] \in request_states
              /\ Unblocked(p) = {} /\ Activated(p) = {}
  <2>1. PICK r \in request_states : p.rsentry = <<r, 1>>
    <3>1. p.rsentry \in AllEntries
      BY PrefillInputsFacts
    <3> QED BY <1>2, <3>1, OnlyFacts
  <2>2. NumEntries(r) = 1
    BY <1>2, <2>1, SingleFacts DEF TypeOK, QueuesOK
  <2>3. 2..NumEntries(p.rsentry[1]) = {}
    BY <2>1, <2>2
  <2>4. Unblocked(p) = {}
    BY <2>3 DEF Unblocked
  <2> QED BY <2>1, <2>4 DEF Activated
<1> QED BY <1>11, <1>12

\* The entry of a request after a prefill: as it was, or with its input processed.
LEMMA PrefilledSingle ==
  ASSUME SingleGeneration, Shape, Core, InTurn, enginePc = "select", NEW s \in request_states,
         NEW es, es = EntriesAfterPrefill(PrefillInputs)
  PROVE  /\ (\A p \in ToSet(PrefillInputs) : p.rsentry # <<s, 1>>) => es[s][1] = Only(s)
         /\ \A p \in ToSet(PrefillInputs) : p.rsentry = <<s, 1>> =>
              /\ es[s][1].id = Only(s).id /\ es[s][1].status = "kAlive"
              /\ es[s][1].next_callback_token_pos = Only(s).next_callback_token_pos
              /\ IF p.isDecode
                   THEN /\ Only(s).status = "kAlive" /\ Only(s).inputs = 0
                        /\ p.len = Only(s).num_tokens_for_next_decode
                        /\ es[s][1].inputs = 0 /\ es[s][1].num_tokens_for_next_decode = 1
                        /\ es[s][1].committed = Only(s).committed + 1
                   ELSE /\ p.len \in 1..Only(s).inputs /\ es[s][1].inputs = Only(s).inputs - p.len
                        /\ IF es[s][1].inputs = 0
                             THEN /\ es[s][1].committed = Only(s).committed + 1
                                  /\ es[s][1].num_tokens_for_next_decode =
                                       Only(s).num_tokens_for_next_decode + 1
                             ELSE /\ es[s][1].committed = Only(s).committed
                                  /\ es[s][1].num_tokens_for_next_decode =
                                       Only(s).num_tokens_for_next_decode
<1> DEFINE inputs == PrefillInputs
           own == {p \in ToSet(inputs) : p.rsentry = <<s, 1>>}
           parent == {p \in ToSet(inputs) : p.rsentry[1] = s /\ 1 \in Unblocked(p)}
<1>1. TypeOK /\ EntriesOK /\ deployment \in Deployments
  BY DEF Shape, TypeOK
<1>2. s \in Requests /\ DOMAIN entries[s] = {1} /\ Entry(<<s, 1>>) = Only(s) /\ entries[s][1] = Only(s)
  BY <1>1, OnlyFacts DEF Only
<1>3. Leaves(s) = {1}
  BY <1>1, <1>2, SingleFacts
<1>4. es[s][1] = CASE own # {} -> LET e == Prefilled(CHOOSE p \in own : TRUE)
                                  IN  IF e.inputs = 0 /\ 1 \in Leaves(s) THEN Committed(e) ELSE e
                   [] own = {} /\ parent # {} ->
                        WithFirstToken(entries[s][1], \E p \in parent : 1 \in Activated(p))
                   [] OTHER -> entries[s][1]
  BY <1>2 DEF EntriesAfterPrefill
<1>5. parent = {}
  BY InputsApart
<1>6. own = {} => es[s][1] = Only(s)
  BY <1>2, <1>4, <1>5
<1>7. ASSUME NEW p \in ToSet(inputs), p.rsentry = <<s, 1>>
      PROVE  /\ es[s][1].id = Only(s).id /\ es[s][1].status = "kAlive"
             /\ es[s][1].next_callback_token_pos = Only(s).next_callback_token_pos
             /\ IF p.isDecode
                  THEN /\ Only(s).status = "kAlive" /\ Only(s).inputs = 0
                       /\ p.len = Only(s).num_tokens_for_next_decode
                       /\ es[s][1].inputs = 0 /\ es[s][1].num_tokens_for_next_decode = 1
                       /\ es[s][1].committed = Only(s).committed + 1
                  ELSE /\ p.len \in 1..Only(s).inputs /\ es[s][1].inputs = Only(s).inputs - p.len
                       /\ IF es[s][1].inputs = 0
                            THEN /\ es[s][1].committed = Only(s).committed + 1
                                 /\ es[s][1].num_tokens_for_next_decode =
                                      Only(s).num_tokens_for_next_decode + 1
                            ELSE /\ es[s][1].committed = Only(s).committed
                                 /\ es[s][1].num_tokens_for_next_decode =
                                      Only(s).num_tokens_for_next_decode
  <2>1. \A q \in own : q = p
    <3> SUFFICES ASSUME NEW q \in ToSet(inputs), q.rsentry = <<s, 1>> PROVE q = p
      OBVIOUS
    <3>1. PICK a \in DOMAIN inputs : inputs[a] = p
      BY <1>7 DEF ToSet
    <3>2. PICK b \in DOMAIN inputs : inputs[b] = q
      BY DEF ToSet
    <3>3. a = b
      BY <1>7, <3>1, <3>2, InputsApart
    <3> QED BY <3>1, <3>2, <3>3
  <2>2. own # {} /\ (CHOOSE q \in own : TRUE) = p
    BY <1>7, <2>1
  <2>3. PICK d : d = Prefilled(p)
    OBVIOUS
  <2>4. es[s][1] = IF d.inputs = 0 THEN Committed(d) ELSE d
    BY <1>3, <1>4, <2>2, <2>3
  <2>5. PICK e \in EntryType : e = Only(s)
    BY <1>1, OnlyFacts
  <2>6. e.inputs \in Nat /\ e.committed \in Nat /\ e.num_tokens_for_next_decode \in Nat
    BY <2>5 DEF EntryType
  <2>7. CASE p.isDecode
    <3>1. p.rsentry \in ToSet(ComputeRunning) /\ p.len = NextDecode(p.rsentry)
      BY <1>7, <2>7, PrefillInputsFacts
    <3>2. e.status = "kAlive" /\ e.inputs = 0 /\ p.len = e.num_tokens_for_next_decode
      BY <1>1, <1>2, <1>7, <2>5, <3>1, RunningFacts DEF NextDecode
    <3>3. d = [e EXCEPT !.num_tokens_for_next_decode = 0]
      BY <1>2, <1>7, <2>3, <2>5, <2>7 DEF Prefilled
    <3>4. /\ d \in EntryType /\ d.inputs = 0 /\ d.num_tokens_for_next_decode = 0 /\ d.id = e.id
          /\ d.committed = e.committed /\ d.status = "kAlive"
          /\ d.next_callback_token_pos = e.next_callback_token_pos
      BY <2>5, <3>2, <3>3 DEF EntryType
    <3>5. es[s][1] = [d EXCEPT !.committed = e.committed + 1, !.num_tokens_for_next_decode = 1]
      <4>1. es[s][1] = Committed(d)
        BY <2>4, <3>4
      <4>2. Committed(d) = [d EXCEPT !.committed = d.committed + 1,
                                     !.num_tokens_for_next_decode = d.num_tokens_for_next_decode + 1]
        BY <3>4 DEF Committed, EntryType
      <4>3. d.committed + 1 = e.committed + 1 /\ d.num_tokens_for_next_decode + 1 = 1
        BY <3>4
      <4> QED BY <4>1, <4>2, <4>3
    <3>6. /\ es[s][1].id = d.id /\ es[s][1].status = d.status /\ es[s][1].inputs = d.inputs
          /\ es[s][1].next_callback_token_pos = d.next_callback_token_pos
          /\ es[s][1].committed = e.committed + 1 /\ es[s][1].num_tokens_for_next_decode = 1
      BY <3>4, <3>5 DEF EntryType
    <3> QED BY <2>5, <2>7, <3>2, <3>4, <3>6
  <2>8. CASE ~p.isDecode
    <3>1. p.len \in 1..e.inputs
      BY <1>2, <1>7, <2>5, <2>8, PrefillInputsFacts
    <3>2. d = [e EXCEPT !.status = "kAlive", !.inputs = @ - p.len]
      BY <1>2, <1>7, <2>3, <2>5, <2>8 DEF Prefilled
    <3>3. e.inputs - p.len \in Nat
      BY <2>6, <3>1
    <3>4. /\ d \in EntryType /\ d.inputs = e.inputs - p.len /\ d.id = e.id
          /\ d.num_tokens_for_next_decode = e.num_tokens_for_next_decode
          /\ d.committed = e.committed /\ d.status = "kAlive"
          /\ d.next_callback_token_pos = e.next_callback_token_pos
      BY <2>5, <3>2, <3>3 DEF EntryType, Statuses
    <3>5. CASE d.inputs = 0
      <4>1. es[s][1] = [d EXCEPT !.committed = d.committed + 1,
                                 !.num_tokens_for_next_decode = d.num_tokens_for_next_decode + 1]
        BY <2>4, <3>4, <3>5 DEF Committed, EntryType
      <4>2. /\ es[s][1].id = d.id /\ es[s][1].status = d.status /\ es[s][1].inputs = d.inputs
            /\ es[s][1].next_callback_token_pos = d.next_callback_token_pos
            /\ es[s][1].committed = d.committed + 1
            /\ es[s][1].num_tokens_for_next_decode = d.num_tokens_for_next_decode + 1
        BY <3>4, <4>1 DEF EntryType
      <4> QED BY <2>5, <2>8, <3>1, <3>4, <3>5, <4>2
    <3>6. CASE d.inputs # 0
      BY <2>4, <2>5, <2>8, <3>1, <3>4, <3>6
    <3> QED BY <3>5, <3>6
  <2> QED BY <2>7, <2>8
<1> QED BY <1>6, <1>7

\* The requests that start with a prefill are those that were pending, each once.
LEMMA StartedSingle ==
  ASSUME SingleGeneration, Shape, Core, InTurn, enginePc = "select"
  PROVE  /\ Distinct(StartedRequests(PrefillInputs))
         /\ \A r : r \in ToSet(StartedRequests(PrefillInputs)) <=>
              /\ r \in request_states /\ Only(r).status = "kPending"
              /\ \E p \in ToSet(PrefillInputs) : p.rsentry = <<r, 1>>
<1> DEFINE inputs == PrefillInputs
           starts == InOrder(inputs, StartInputs(inputs))
<1>1. TypeOK /\ inputs \in Seq(InputType)
  BY PrefillInputsFacts DEF Shape
<1>2. ASSUME NEW p \in ToSet(inputs)
      PROVE  p \in StartInputs(inputs) <=> Only(p.rsentry[1]).status = "kPending"
  <2>1. PICK r \in request_states : p.rsentry = <<r, 1>>
    BY InputsApart
  <2>2. DOMAIN entries[r] = {1} /\ entries[r][1] = Only(r)
    BY <1>1, OnlyFacts DEF Only
  <2>3. p \in StartInputs(inputs) <=> /\ entries[r][1].status = "kPending"
                                      /\ \A j \in DOMAIN entries[r] \ {1} : entries[r][j].status # "kAlive"
    BY <2>1 DEF StartInputs
  <2> QED BY <2>1, <2>2, <2>3
<1>3. ASSUME NEW r
      PROVE  r \in ToSet(StartedRequests(inputs)) <=>
               /\ r \in request_states /\ Only(r).status = "kPending"
               /\ \E p \in ToSet(inputs) : p.rsentry = <<r, 1>>
  <2>1. r \in ToSet(StartedRequests(inputs)) <=> \E p \in StartInputs(inputs) : r = p.rsentry[1]
    BY <1>1, StartedFacts
  <2>2. \A p \in StartInputs(inputs) : p \in ToSet(inputs)
    BY DEF StartInputs
  <2>3. \A p \in ToSet(inputs) : p.rsentry = <<p.rsentry[1], 1>> /\ p.rsentry[1] \in request_states
    BY InputsApart
  <2>4. ASSUME NEW p \in ToSet(inputs), p.rsentry = <<r, 1>> PROVE p.rsentry[1] = r
    BY <2>4
  <2> QED BY <1>2, <2>1, <2>2, <2>3, <2>4
<1>4. Distinct(StartedRequests(inputs))
  <2>1. Distinct(inputs)
    BY InputsApart DEF Distinct
  <2>2. StartInputs(inputs) \subseteq ToSet(inputs)
    BY DEF StartInputs
  <2>3. /\ starts \in Seq(InputType) /\ Distinct(starts)
        /\ \A x : x \in ToSet(starts) => x \in ToSet(inputs)
    BY <1>1, <2>1, InOrderFacts
  <2>4. StartedRequests(inputs) = [q \in DOMAIN starts |-> starts[q].rsentry[1]]
    BY DEF StartedRequests, StartInputs
  <2>5. \A q \in DOMAIN starts : starts[q] \in ToSet(inputs)
    BY <2>3 DEF ToSet
  <2>6. ASSUME NEW p \in ToSet(inputs), NEW q \in ToSet(inputs), p.rsentry[1] = q.rsentry[1]
        PROVE  p = q
    <3>1. p.rsentry = q.rsentry
      BY <2>6, InputsApart
    <3>2. PICK a \in DOMAIN inputs : inputs[a] = p
      BY DEF ToSet
    <3>3. PICK b \in DOMAIN inputs : inputs[b] = q
      BY DEF ToSet
    <3>4. a = b
      BY <3>1, <3>2, <3>3, InputsApart
    <3> QED BY <3>2, <3>3, <3>4
  <2> HIDE DEF starts
  <2>7. \A a, b \in DOMAIN starts : starts[a].rsentry[1] = starts[b].rsentry[1] => a = b
    BY <2>3, <2>5, <2>6 DEF Distinct
  <2> QED BY <2>4, <2>7 DEF Distinct
<1> QED BY <1>3, <1>4

\* The KV cache after a prefill: each processed sequence has its input appended.
LEMMA PrefilledCache ==
  ASSUME SingleGeneration, Shape, Core, InTurn, enginePc = "select", PrefillGoesAhead
  PROVE  /\ DOMAIN kv' = DOMAIN kv \cup
              {Only(r).id : r \in {s \in request_states : /\ Only(s).status = "kPending"
                                                          /\ \E p \in ToSet(PrefillInputs) : p.rsentry = <<s, 1>>}}
         /\ \A s \in request_states :
              /\ \A p \in ToSet(PrefillInputs) : p.rsentry = <<s, 1>> =>
                   kv'[Only(s).id] = (IF Only(s).status = "kAlive" THEN kv[Only(s).id] ELSE 0) + p.len
              /\ Only(s).status = "kAlive" /\ (\A p \in ToSet(PrefillInputs) : p.rsentry # <<s, 1>>)
                   => kv'[Only(s).id] = kv[Only(s).id]
<1> DEFINE inputs == PrefillInputs
           ids == {Entry(x).id : x \in EntriesToInsert(inputs)}
           part(k) == [q \in DOMAIN inputs |-> IF Entry(inputs[q].rsentry).id = k THEN inputs[q].len ELSE 0]
<1>1. TypeOK /\ inputs \in Seq(InputType) /\ StepOK
  BY PrefillInputsFacts DEF Shape, TypeOK
<1>2. kv' = KVAfterPrefill(inputs, ids) /\ ids \cap DOMAIN kv = {}
  BY DEF PrefillGoesAhead
<1>3. PICK n \in Nat : DOMAIN inputs = 1..n
  BY <1>1
<1>4. \A p \in ToSet(inputs) : /\ p.rsentry = <<p.rsentry[1], 1>> /\ p.rsentry[1] \in request_states
                               /\ Entry(p.rsentry) = Only(p.rsentry[1]) /\ Activated(p) = {}
  BY <1>1, InputsApart, OnlyFacts
<1>5. ids = {Only(r).id : r \in {s \in request_states : /\ Only(s).status = "kPending"
                                                        /\ \E p \in ToSet(inputs) : p.rsentry = <<s, 1>>}}
  <2>1. ASSUME NEW x
        PROVE  x \in EntriesToInsert(inputs) <=>
                 \E s \in request_states : /\ x = <<s, 1>> /\ Only(s).status = "kPending"
                                           /\ \E p \in ToSet(inputs) : p.rsentry = <<s, 1>>
    <3>1. UNION {{p.rsentry[1]} \X Activated(p) : p \in ToSet(inputs)} = {}
      <4>1. \A p \in ToSet(inputs) : {p.rsentry[1]} \X Activated(p) = {}
        BY <1>4
      <4> QED BY <4>1
    <3>2. x \in EntriesToInsert(inputs) <=>
            \E p \in ToSet(inputs) : Entry(p.rsentry).status = "kPending" /\ x = p.rsentry
      BY <3>1 DEF EntriesToInsert
    <3>3. ASSUME NEW s \in request_states, NEW p \in ToSet(inputs), p.rsentry = <<s, 1>>
          PROVE  Entry(p.rsentry) = Only(s)
      BY <1>4, <3>3
    <3> QED BY <1>4, <3>2, <3>3
  <2>2. ASSUME NEW s \in request_states PROVE Entry(<<s, 1>>) = Only(s)
    BY DEF Entry, Only
  <2> QED BY <2>1, <2>2
<1>6. DOMAIN kv' = DOMAIN kv \cup ids
  BY <1>2 DEF KVAfterPrefill
<1>7. ASSUME NEW k \in DOMAIN kv'
      PROVE  kv'[k] = (IF k \in DOMAIN kv THEN kv[k] ELSE 0) + SumFunction(part(k))
  BY <1>2, <1>6, <1>7 DEF KVAfterPrefill
<1>8. ASSUME NEW k
      PROVE  /\ DOMAIN part(k) = 1..n
             /\ \A q \in 1..n : part(k)[q] = IF Entry(inputs[q].rsentry).id = k THEN inputs[q].len ELSE 0
             /\ IsFiniteSet(1..n)
             /\ SumFunction(part(k)) = SumFunctionOnSet(part(k), 1..n)
  <2>1. DOMAIN part(k) = 1..n
    BY <1>3
  <2>2. IsFiniteSet(1..n)
    BY <1>3, FS_Interval
  <2>3. SumFunction(part(k)) = SumFunctionOnSet(part(k), 1..n)
    <3> HIDE DEF part
    <3> QED BY <2>1 DEF SumFunction
  <2> QED BY <1>3, <2>1, <2>2, <2>3
<1> HIDE DEF part, ids
<1>9. \A q \in 1..n : inputs[q] \in ToSet(inputs) /\ inputs[q].len \in Nat
  <2>1. \A q \in 1..n : inputs[q] \in ToSet(inputs)
    BY <1>3 DEF ToSet
  <2>2. ToSet(inputs) \subseteq InputType
    BY <1>1, ToSetFacts
  <2>3. \A q \in 1..n : inputs[q] \in InputType
    BY <2>1, <2>2
  <2> QED BY <2>1, <2>3 DEF InputType
<1>10. \A q \in 1..n : Entry(inputs[q].rsentry) = Only(inputs[q].rsentry[1])
                       /\ inputs[q].rsentry[1] \in request_states
                       /\ inputs[q].rsentry = <<inputs[q].rsentry[1], 1>>
  BY <1>4, <1>9
<1>11. \A s, t \in request_states : Only(s).id = Only(t).id => s = t
  BY DEF Core, IdsApart
<1>12. DOMAIN kv = {Only(r).id : r \in {s \in request_states : Only(s).status = "kAlive"}}
  BY DEF Core, InCache
<1>13. ASSUME NEW s \in request_states PROVE Only(s).id \in DOMAIN kv <=> Only(s).status = "kAlive"
  BY <1>11, <1>12
<1>14. ASSUME NEW s \in request_states, Only(s).status = "kAlive",
              \A p \in ToSet(inputs) : p.rsentry # <<s, 1>>
       PROVE  kv'[Only(s).id] = kv[Only(s).id]
  <2> DEFINE k == Only(s).id
  <2>1. k \in DOMAIN kv /\ k \in DOMAIN kv' /\ kv[k] \in Nat
    BY <1>1, <1>6, <1>13, <1>14 DEF StepOK
  <2>2. \A q \in 1..n : part(k)[q] = 0
    <3> SUFFICES ASSUME NEW q \in 1..n, Entry(inputs[q].rsentry).id = k PROVE FALSE
      BY <1>8
    <3>1. inputs[q].rsentry[1] = s
      BY <1>10, <1>11
    <3> QED BY <1>9, <1>10, <1>14, <3>1
  <2> HIDE DEF k
  <2>3. SumFunction(part(k)) = 0
    BY <1>8, <2>2, SumZero
  <2> QED BY <1>7, <2>1, <2>3 DEF k
<1>15. ASSUME NEW s \in request_states, NEW p \in ToSet(inputs), p.rsentry = <<s, 1>>
       PROVE  kv'[Only(s).id] = (IF Only(s).status = "kAlive" THEN kv[Only(s).id] ELSE 0) + p.len
  <2> DEFINE k == Only(s).id
  <2>1. k \in DOMAIN kv'
    <3>1. Only(s).status \in {"kPending", "kAlive"}
      <4>1. Only(s).status \in Statuses
        BY <1>1, OnlyFacts DEF EntryType
      <4> QED BY <4>1 DEF Statuses, Core, InQueues
    <3>2. CASE Only(s).status = "kAlive"
      BY <1>6, <1>13, <3>2
    <3>3. CASE Only(s).status = "kPending"
      BY <1>5, <1>6, <1>15, <3>3
    <3> QED BY <3>1, <3>2, <3>3
  <2>2. PICK c \in 1..n : inputs[c] = p
    BY <1>3 DEF ToSet
  <2>3. part(k)[c] = p.len
    BY <1>8, <1>10, <1>15, <2>2
  <2>4. \A q \in (1..n) \ {c} : part(k)[q] = 0
    <3> SUFFICES ASSUME NEW q \in 1..n, q # c, Entry(inputs[q].rsentry).id = k PROVE FALSE
      BY <1>8
    <3>1. inputs[q].rsentry[1] = s
      BY <1>10, <1>11
    <3>2. inputs[q].rsentry = inputs[c].rsentry
      BY <1>10, <1>15, <2>2, <3>1
    <3> QED BY <1>3, <3>2, InputsApart
  <2>5. p.len \in Nat
    BY <1>9, <2>2
  <2> HIDE DEF k
  <2>6. SumFunction(part(k)) = p.len
    <3>1. SumFunctionOnSet(part(k), 1..n) = part(k)[c]
      BY <1>8, <2>3, <2>4, <2>5, SumOne
    <3> QED BY <1>8, <2>3, <3>1
  <2>7. k \in DOMAIN kv <=> Only(s).status = "kAlive"
    BY <1>13 DEF k
  <2> QED BY <1>7, <2>1, <2>6, <2>7 DEF k
<1> QED BY <1>5, <1>6, <1>14, <1>15

\* The entries of the requests after a prefill and the post-process.
LEMMA PrefilledEntries ==
  ASSUME SingleGeneration, Shape, Core, InTurn, enginePc = "select", PrefillGoesAhead,
         NEW es, es = EntriesAfterPrefill(PrefillInputs)
  PROVE  /\ \A s \in request_states :
              /\ s \in ToSet(RequestsOf(PrefillInputs)) <=> \E p \in ToSet(PrefillInputs) : p.rsentry = <<s, 1>>
              /\ es[s][1].status = IF \E p \in ToSet(PrefillInputs) : p.rsentry = <<s, 1>>
                                     THEN "kAlive" ELSE Only(s).status
              /\ Only(s)'.id = Only(s).id
              /\ Only(s)'.status = es[s][1].status /\ Only(s)'.inputs = es[s][1].inputs
              /\ Only(s)'.committed = es[s][1].committed
              /\ Only(s)'.num_tokens_for_next_decode = es[s][1].num_tokens_for_next_decode
              /\ Only(s)'.next_callback_token_pos = Only(s)'.committed
         /\ \A s \in request_states :
              Only(s)'.committed # Only(s).committed /\ ReachesLength(s, Only(s)') =>
                <<s, 1>> \in ToSet(finished_rsentries') /\ enginePc' = "finish"
         /\ IdsApart' /\ ToFinish' /\ enginePc' \in {"idle", "finish"}
<1> DEFINE inputs == PrefillInputs
           taken(s) == \E p \in ToSet(inputs) : p.rsentry = <<s, 1>>
<1>1. TypeOK /\ inputs \in Seq(InputType)
  BY PrefillInputsFacts DEF Shape, TypeOK
<1>2. PICK processed : processed = RequestsOf(inputs)
  OBVIOUS
<1>3. /\ PostProcess(processed, es)
      /\ UNCHANGED <<request_states, available_ids, id_cnt>> /\ deployment' = deployment
  BY <1>2 DEF PrefillGoesAhead
<1>4. /\ processed \in Seq(Requests) /\ ToSet(processed) \subseteq request_states /\ Distinct(processed)
      /\ Trees(es)
  BY <1>1, <1>2, PrefillFacts, RequestsOfFacts
<1>5. \A s \in request_states : s \in ToSet(processed) <=> taken(s)
  <2>1. ToSet(processed) = {p.rsentry[1] : p \in ToSet(inputs)}
    BY <1>1, <1>2, RequestsOfFacts
  <2>2. \A p \in ToSet(inputs) : p.rsentry = <<p.rsentry[1], 1>>
    BY InputsApart
  <2>3. ASSUME NEW s, NEW p \in ToSet(inputs), p.rsentry = <<s, 1>> PROVE p.rsentry[1] = s
    BY <2>3
  <2> QED BY <2>1, <2>2, <2>3
<1>6. ASSUME NEW s \in request_states
      PROVE  /\ es[s][1].id = Only(s).id
             /\ es[s][1].next_callback_token_pos = Only(s).committed
             /\ es[s][1].status = IF taken(s) THEN "kAlive" ELSE Only(s).status
             /\ \/ es[s][1].committed = Only(s).committed
                \/ /\ es[s][1].committed = Only(s).committed + 1
                   /\ s \in ToSet(processed) /\ es[s][1].status = "kAlive" /\ es[s][1].inputs = 0
  <2>1. Only(s).next_callback_token_pos = Only(s).committed
    BY DEF Core, InCache
  <2>2. CASE taken(s)
    <3>1. PICK p \in ToSet(inputs) : p.rsentry = <<s, 1>>
      BY <2>2
    <3>2. s \in ToSet(processed)
      BY <1>5, <2>2
    <3>3. /\ es[s][1].id = Only(s).id /\ es[s][1].status = "kAlive"
          /\ es[s][1].next_callback_token_pos = Only(s).next_callback_token_pos
          /\ IF p.isDecode
               THEN /\ es[s][1].inputs = 0
                    /\ es[s][1].committed = Only(s).committed + 1
               ELSE IF es[s][1].inputs = 0
                      THEN es[s][1].committed = Only(s).committed + 1
                      ELSE es[s][1].committed = Only(s).committed
      BY <3>1, PrefilledSingle
    <3> QED BY <2>1, <2>2, <3>2, <3>3
  <2>3. CASE ~taken(s)
    <3>1. es[s][1] = Only(s)
      BY <2>3, PrefilledSingle
    <3> QED BY <2>1, <2>3, <3>1
  <2> QED BY <2>2, <2>3
<1>7. /\ \A s \in request_states :
           /\ Only(s)'.id = Only(s).id
           /\ Only(s)'.status = es[s][1].status /\ Only(s)'.inputs = es[s][1].inputs
           /\ Only(s)'.committed = es[s][1].committed
           /\ Only(s)'.num_tokens_for_next_decode = es[s][1].num_tokens_for_next_decode
           /\ Only(s)'.next_callback_token_pos = Only(s)'.committed
      /\ IdsApart' /\ ToFinish' /\ enginePc' \in {"idle", "finish"}
  BY <1>3, <1>4, <1>6, ProcessedFacts
<1>8. ASSUME NEW s \in request_states, Only(s)'.committed # Only(s).committed, ReachesLength(s, Only(s)')
      PROVE  <<s, 1>> \in ToSet(finished_rsentries') /\ enginePc' = "finish"
  BY <1>3, <1>4, <1>6, <1>8, LimitFinishes
<1> QED BY <1>2, <1>5, <1>6, <1>7, <1>8

\* A prefill starts the pending requests it takes, and those without input left stop waiting.
LEMMA PrefillCore ==
  ASSUME SingleGeneration, Shape, Core, InTurn, enginePc = "select", PrefillGoesAhead
  PROVE  Core' /\ ToFinish' /\ enginePc' \in {"idle", "finish"}
<1> DEFINE inputs == PrefillInputs
           taken(s) == \E p \in ToSet(inputs) : p.rsentry = <<s, 1>>
<1>1. TypeOK /\ deployment \in Deployments /\ QueuesOK /\ StepOK /\ inputs \in Seq(InputType)
  BY PrefillInputsFacts DEF Shape, TypeOK
<1>2. PICK es : es = EntriesAfterPrefill(inputs)
  OBVIOUS
<1>3. PICK processed : processed = RequestsOf(inputs)
  OBVIOUS
<1>4. /\ running_queue' = running_queue \o StartedRequests(inputs)
      /\ waiting_queue' = InOrder(waiting_queue, {r \in Requests :
           ~(Contains(processed, r) /\ FullyPrefilled(es[r]))})
      /\ PostProcess(processed, es)
      /\ UNCHANGED <<request_states, available_ids, id_cnt>> /\ deployment' = deployment
  BY <1>2, <1>3 DEF PrefillGoesAhead
<1>5. /\ processed \in Seq(Requests) /\ ToSet(processed) \subseteq request_states /\ Distinct(processed)
      /\ Trees(es) /\ StartedRequests(inputs) \in Seq(Requests)
  BY <1>1, <1>2, <1>3, PrefillFacts, RequestsOfFacts
<1>6. \A s \in request_states : s \in ToSet(processed) <=> taken(s)
  BY <1>2, <1>3, PrefilledEntries
<1>7. ASSUME NEW s \in request_states
      PROVE  /\ Only(s) \in EntryType /\ s \in Requests /\ Only(s).next_callback_token_pos = Only(s).committed
             /\ PromptTokens[s] \in Nat \ {0} /\ DOMAIN es[s] = {1}
             /\ Only(s).status \in {"kPending", "kAlive"}
             /\ Only(s).status = "kAlive" =>
                  kv[Only(s).id] + Only(s).inputs + Only(s).num_tokens_for_next_decode =
                    PromptTokens[s] + Only(s).committed
             /\ Only(s).status = "kPending" =>
                  /\ Only(s).inputs = PromptTokens[s] + Only(s).committed
                  /\ Only(s).num_tokens_for_next_decode = 0
  <2>1. Only(s) \in EntryType /\ s \in Requests
    BY <1>1, OnlyFacts
  <2>2. Only(s).status \in {"kPending", "kAlive"}
    BY <2>1 DEF EntryType, Statuses, Core, InQueues
  <2>3. PromptTokens[s] \in Nat \ {0} /\ NumEntries(s) = 1
    BY <1>1, <2>1, SingleFacts
  <2>4. DOMAIN es[s] = {1}
    <3>1. es[s] \in [1..1 -> EntryType]
      BY <1>4, <1>5, <2>1, <2>3 DEF Trees
    <3> QED BY <3>1
  <2>5. Only(s).status = "kPending" => Only(s).status # "kAlive"
    OBVIOUS
  <2> QED BY <2>1, <2>2, <2>3, <2>4, <2>5 DEF Core, InCache
<1>8. ASSUME NEW s \in request_states, ~taken(s) PROVE es[s][1] = Only(s)
  BY <1>2, <1>8, PrefilledSingle
<1>9. ASSUME NEW s \in request_states, NEW p \in ToSet(inputs), p.rsentry = <<s, 1>>
      PROVE  /\ es[s][1].id = Only(s).id /\ es[s][1].status = "kAlive"
             /\ es[s][1].next_callback_token_pos = Only(s).committed
             /\ IF p.isDecode
                  THEN /\ Only(s).status = "kAlive" /\ Only(s).inputs = 0
                       /\ p.len = Only(s).num_tokens_for_next_decode
                       /\ es[s][1].inputs = 0 /\ es[s][1].num_tokens_for_next_decode = 1
                       /\ es[s][1].committed = Only(s).committed + 1
                  ELSE /\ p.len \in 1..Only(s).inputs /\ es[s][1].inputs = Only(s).inputs - p.len
                       /\ IF es[s][1].inputs = 0
                            THEN /\ es[s][1].committed = Only(s).committed + 1
                                 /\ es[s][1].num_tokens_for_next_decode =
                                      Only(s).num_tokens_for_next_decode + 1
                            ELSE /\ es[s][1].committed = Only(s).committed
                                 /\ es[s][1].num_tokens_for_next_decode =
                                      Only(s).num_tokens_for_next_decode
  BY <1>2, <1>7, <1>9, PrefilledSingle
<1>10. \A s \in request_states : es[s][1].status = IF taken(s) THEN "kAlive" ELSE Only(s).status
  BY <1>2, PrefilledEntries
<1>11. /\ \A s \in request_states :
            /\ Only(s)'.id = Only(s).id
            /\ Only(s)'.status = es[s][1].status /\ Only(s)'.inputs = es[s][1].inputs
            /\ Only(s)'.committed = es[s][1].committed
            /\ Only(s)'.num_tokens_for_next_decode = es[s][1].num_tokens_for_next_decode
            /\ Only(s)'.next_callback_token_pos = Only(s)'.committed
       /\ IdsApart' /\ ToFinish' /\ enginePc' \in {"idle", "finish"}
  BY <1>2, PrefilledEntries
<1>12. Requests' = Requests /\ PromptTokens' = PromptTokens
  BY <1>4, DeploymentFixed
<1>13. ASSUME NEW s \in request_states
       PROVE  Only(s)'.status = "kAlive" <=> Only(s).status = "kAlive" \/ taken(s)
  BY <1>10, <1>11
<1>14. InQueues'
  <2>1. \A s \in request_states : Only(s)'.status # "kFinished"
    BY <1>7, <1>10, <1>11
  <2>2. /\ Distinct(running_queue')
        /\ \A s \in Requests : s \in ToSet(running_queue') <=> s \in request_states /\ Only(s)'.status = "kAlive"
    <3>1. PICK t \in Seq(Requests) : t = StartedRequests(inputs)
      BY <1>5
    <3>2. Distinct(t) /\ \A r : r \in ToSet(t) <=> /\ r \in request_states /\ Only(r).status = "kPending"
                                                   /\ taken(r)
      BY <3>1, StartedSingle
    <3>3. /\ running_queue \in Seq(Requests) /\ Distinct(running_queue)
          /\ \A s \in Requests : s \in ToSet(running_queue) <=> s \in request_states /\ Only(s).status = "kAlive"
      BY <1>1 DEF QueuesOK, Core, InQueues
    <3>4. ToSet(running_queue) \cap ToSet(t) = {}
      <4>1. ToSet(running_queue) \subseteq Requests
        BY <3>3, ToSetFacts
      <4> QED BY <3>2, <3>3, <4>1
    <3>5. /\ \A y : y \in ToSet(running_queue') <=> y \in ToSet(running_queue) \/ y \in ToSet(t)
          /\ Distinct(running_queue')
      BY <1>4, <3>1, <3>2, <3>3, <3>4, ConcatFacts
    <3>6. ASSUME NEW s \in Requests
          PROVE  s \in ToSet(running_queue') <=> s \in request_states /\ Only(s)'.status = "kAlive"
      BY <1>7, <1>13, <3>2, <3>3, <3>5
    <3> QED BY <3>5, <3>6
  <2>3. /\ Distinct(waiting_queue')
        /\ \A s \in Requests : s \in ToSet(waiting_queue') <=> s \in request_states /\ Only(s)'.inputs > 0
    <3> DEFINE W == {r \in Requests : ~(Contains(processed, r) /\ FullyPrefilled(es[r]))}
    <3>1. /\ waiting_queue \in Seq(Requests) /\ Distinct(waiting_queue)
          /\ \A s \in Requests : s \in ToSet(waiting_queue) <=> s \in request_states /\ Only(s).inputs > 0
      BY <1>1 DEF QueuesOK, Core, InQueues
    <3>2. waiting_queue' = InOrder(waiting_queue, W)
      BY <1>4
    <3>3. ASSUME NEW s \in request_states
          PROVE  s \in W <=> ~(taken(s) /\ Only(s)'.inputs = 0)
      <4>1. Contains(processed, s) <=> taken(s)
        BY <1>5, <1>6, ContainsFacts
      <4>2. FullyPrefilled(es[s]) <=> es[s][1].status # "kPending" /\ es[s][1].inputs = 0
        BY <1>7 DEF FullyPrefilled
      <4>3. taken(s) => es[s][1].status # "kPending"
        BY <1>10
      <4> QED BY <1>7, <1>11, <4>1, <4>2, <4>3
    <3> HIDE DEF W
    <3>4. /\ Distinct(waiting_queue')
          /\ \A y : y \in ToSet(waiting_queue') <=> y \in ToSet(waiting_queue) /\ y \in W
      BY <3>1, <3>2, InOrderFacts
    <3>5. ASSUME NEW s \in request_states
          PROVE  s \in ToSet(waiting_queue') <=> Only(s)'.inputs > 0
      <4>1. CASE taken(s)
        <5>1. PICK p \in ToSet(inputs) : p.rsentry = <<s, 1>>
          BY <4>1
        <5>2. Only(s).inputs \in Nat
          BY <1>7 DEF EntryType
        <5>3. Only(s)'.inputs = es[s][1].inputs
          BY <1>11
        <5>4. CASE p.isDecode
          BY <1>7, <1>9, <3>1, <3>4, <5>1, <5>3, <5>4
        <5>5. CASE ~p.isDecode
          <6>1. p.len \in 1..Only(s).inputs /\ es[s][1].inputs = Only(s).inputs - p.len
            BY <1>9, <5>1, <5>5
          <6>2. Only(s).inputs > 0 /\ es[s][1].inputs \in Nat
            BY <5>2, <6>1
          <6> QED BY <1>7, <3>1, <3>3, <3>4, <4>1, <5>3, <6>2
        <5> QED BY <5>4, <5>5
      <4>2. CASE ~taken(s)
        <5>1. Only(s)'.inputs = Only(s).inputs
          BY <1>8, <1>11, <4>2
        <5>2. s \in W /\ s \in Requests
          BY <1>7, <3>3, <4>2
        <5> QED BY <3>1, <3>4, <5>1, <5>2
      <4> QED BY <4>1, <4>2
    <3> QED BY <3>1, <3>4, <3>5
  <2> QED BY <1>4, <1>12, <2>1, <2>2, <2>3 DEF InQueues
<1>15. InCache'
  <2>1. DOMAIN kv' = {Only(s)'.id : s \in {t \in request_states' : Only(t)'.status = "kAlive"}}
    <3>1. DOMAIN kv' = DOMAIN kv \cup {Only(r).id : r \in {s \in request_states : Only(s).status = "kPending" /\ taken(s)}}
      BY PrefilledCache
    <3>2. DOMAIN kv = {Only(r).id : r \in {s \in request_states : Only(s).status = "kAlive"}}
      BY DEF Core, InCache
    <3>3. ASSUME NEW k
          PROVE  k \in DOMAIN kv' <=> \E s \in request_states : Only(s)'.status = "kAlive" /\ k = Only(s)'.id
      <4>1. k \in DOMAIN kv' <=> \E s \in request_states :
                                    /\ k = Only(s).id
                                    /\ Only(s).status = "kAlive" \/ (Only(s).status = "kPending" /\ taken(s))
        BY <3>1, <3>2
      <4>2. \A s \in request_states : (Only(s).status = "kAlive" \/ (Only(s).status = "kPending" /\ taken(s)))
                                        <=> Only(s)'.status = "kAlive"
        BY <1>7, <1>13
      <4> QED BY <1>11, <4>1, <4>2
    <3> QED BY <1>4, <3>3
  <2>2. ASSUME NEW s \in request_states
        PROVE  /\ IF Only(s)'.status = "kAlive"
                    THEN kv'[Only(s)'.id] + Only(s)'.inputs + Only(s)'.num_tokens_for_next_decode =
                           PromptTokens[s] + Only(s)'.committed
                    ELSE /\ Only(s)'.inputs = PromptTokens[s] + Only(s)'.committed
                         /\ Only(s)'.num_tokens_for_next_decode = 0
               /\ Only(s)'.next_callback_token_pos = Only(s)'.committed
    <3>1. CASE taken(s)
      <4>1. PICK p \in ToSet(inputs) : p.rsentry = <<s, 1>>
        BY <3>1
      <4>2. kv'[Only(s).id] = (IF Only(s).status = "kAlive" THEN kv[Only(s).id] ELSE 0) + p.len
        BY <4>1, PrefilledCache
      <4>3. PICK i \in Nat, m \in Nat, c \in Nat, l \in Nat :
              /\ i = Only(s).inputs /\ m = Only(s).num_tokens_for_next_decode /\ c = Only(s).committed
              /\ l = p.len
        <5>1. p \in InputType
          BY <1>1, ToSetFacts
        <5> QED BY <1>7, <5>1 DEF EntryType, InputType
      <4>4. PICK k : /\ k = IF Only(s).status = "kAlive" THEN kv[Only(s).id] ELSE 0
                     /\ k \in Nat
        <5>1. CASE Only(s).status = "kAlive"
          <6>1. Only(s).id \in DOMAIN kv
            BY <5>1 DEF Core, InCache
          <6> QED BY <1>1, <5>1, <6>1 DEF StepOK
        <5>2. CASE Only(s).status # "kAlive"
          BY <5>2
        <5> QED BY <5>1, <5>2
      <4>4a. PICK P \in Nat : P = PromptTokens[s]
        BY <1>7
      <4>5. k + i + m = P + c
        BY <1>7, <4>3, <4>4, <4>4a
      <4>6. kv'[Only(s)'.id] = k + l /\ Only(s)'.status = "kAlive"
        BY <1>11, <1>13, <3>1, <4>2, <4>3, <4>4
      <4>7. k + l + Only(s)'.inputs + Only(s)'.num_tokens_for_next_decode = P + Only(s)'.committed
        <5>1. /\ Only(s)'.inputs = es[s][1].inputs /\ Only(s)'.committed = es[s][1].committed
              /\ Only(s)'.num_tokens_for_next_decode = es[s][1].num_tokens_for_next_decode
          BY <1>11
        <5>2. CASE p.isDecode
          <6>1. /\ i = 0 /\ l = m /\ es[s][1].inputs = 0 /\ es[s][1].num_tokens_for_next_decode = 1
                /\ es[s][1].committed = c + 1
            BY <1>9, <4>1, <4>3, <5>2
          <6>2. k + l + 0 + 1 = P + (c + 1)
            BY <4>4, <4>5, <6>1
          <6> QED BY <5>1, <6>1, <6>2
        <5>3. CASE ~p.isDecode
          <6>1. /\ es[s][1].inputs = i - l
                /\ \/ es[s][1].committed = c + 1 /\ es[s][1].num_tokens_for_next_decode = m + 1
                   \/ es[s][1].committed = c /\ es[s][1].num_tokens_for_next_decode = m
            BY <1>9, <4>1, <4>3, <5>3
          <6>2. /\ k + l + (i - l) + (m + 1) = P + (c + 1)
                /\ k + l + (i - l) + m = P + c
            BY <4>4, <4>5
          <6> QED BY <5>1, <6>1, <6>2
        <5> QED BY <5>2, <5>3
      <4> QED BY <1>11, <4>6, <4>7, <4>4a
    <3>2. CASE ~taken(s)
      <4>1. es[s][1] = Only(s)
        BY <1>8, <3>2
      <4>2. Only(s).status = "kAlive" => kv'[Only(s).id] = kv[Only(s).id]
        BY <3>2, PrefilledCache
      <4> QED BY <1>7, <1>11, <4>1, <4>2
    <3> QED BY <3>1, <3>2
  <2> QED BY <1>4, <1>12, <2>1, <2>2 DEF InCache
<1> QED BY <1>11, <1>14, <1>15 DEF Core

-----------------------------------------------------------------------------
(* The other parts, by where Step stands.                                  *)

\* Between steps, and once a check has failed, only the finished entries are constrained.
LEMMA AtRest ==
  ASSUME enginePc' \in {"idle", "failed"}, Distinct(finished_rsentries')
  PROVE  InTurn' /\ StillDecodes' /\ ToFinish'
BY DEF InTurn, StillDecodes, ToFinish

\* A failed check stops the engine and changes nothing else.
LEMMA FailIInv ==
  ASSUME Core, ToFinish, NEW what, Fail(what)
  PROVE  Core' /\ InTurn' /\ StillDecodes' /\ ToFinish'
<1>1. /\ UNCHANGED <<running_queue, waiting_queue, request_states, entries, available_ids, id_cnt, kv>>
      /\ deployment' = deployment /\ finished_rsentries' = finished_rsentries /\ enginePc' = "failed"
  BY DEF Fail, queueVars, idVars
<1>2. Core'
  BY <1>1, CoreSame
<1>3. Distinct(finished_rsentries')
  BY <1>1 DEF ToFinish
<1> QED BY <1>1, <1>2, <1>3, AtRest

\* What decodes has no input left.
LEMMA RunningDecodes ==
  ASSUME SingleGeneration, TypeOK
  PROVE  \A x \in ToSet(ComputeRunning) :
           x[2] = 1 /\ x[1] \in request_states /\ Only(x[1]).inputs = 0
<1> TAKE x \in ToSet(ComputeRunning)
<1>1. x \in AllEntries /\ Entry(x).inputs = 0
  BY RunningFacts
<1>2. PICK r \in request_states : x = <<r, 1>>
  BY <1>1, OnlyFacts
<1>3. Entry(<<r, 1>>) = Only(r)
  BY OnlyFacts
<1> QED BY <1>1, <1>2, <1>3

\* The candidates are the waiting requests, in their order.
LEMMA CandidatesInTurn ==
  ASSUME SingleGeneration, Shape, Core
  PROVE  /\ Len(PrefillCandidates) = Len(waiting_queue)
         /\ \A k \in 1..Len(waiting_queue) : PrefillCandidates[k] = <<waiting_queue[k], 1>>
<1> DEFINE wq == waiting_queue
           S == {x \in AllEntries : /\ Entry(x).inputs > 0
                                    /\ \/ x[2] = 1
                                       \/ /\ entries[x[1]][1].status # "kPending"
                                          /\ entries[x[1]][1].inputs = 0}
           parts == [q \in DOMAIN wq |-> [i \in DOMAIN entries[wq[q]] |-> <<wq[q], i>>]]
<1>1. TypeOK /\ wq \in Seq(Requests)
  BY DEF Shape, TypeOK, QueuesOK
<1>2. PICK n \in Nat : n = Len(wq) /\ DOMAIN wq = 1..n
  BY <1>1
<1>3. PrefillCandidates = InOrder(FlattenSeq(parts), S)
  BY DEF PrefillCandidates, EntriesOf
<1>4. \A q \in 1..n : wq[q] \in request_states /\ Only(wq[q]).inputs > 0
  <2>1. \A q \in 1..n : wq[q] \in ToSet(wq) /\ wq[q] \in Requests
    BY <1>1, <1>2 DEF ToSet
  <2> QED BY <2>1 DEF Core, InQueues
<1> DEFINE s == [q \in 1..n |-> <<wq[q], 1>>]
<1>5. \A q \in 1..n : DOMAIN entries[wq[q]] = {1} /\ <<wq[q], 1>> \in S
  <2> TAKE q \in 1..n
  <2>1. <<wq[q], 1>> \in AllEntries /\ Entry(<<wq[q], 1>>) = Only(wq[q])
    BY <1>1, <1>4, OnlyFacts
  <2>2. <<wq[q], 1>>[2] = 1
    OBVIOUS
  <2> QED BY <1>1, <1>4, <2>1, <2>2, OnlyFacts
<1> HIDE DEF S
<1>6. s \in Seq(S) /\ Len(s) = n /\ ToSet(s) \subseteq S
  <2>1. s \in [1..n -> S]
    BY <1>5
  <2>2. s \in Seq(S)
    BY <2>1
  <2> QED BY <2>1, <2>2 DEF ToSet
<1>7. parts = [q \in 1..n |-> <<s[q]>>]
  <2>1. \A q \in 1..n : [i \in DOMAIN entries[wq[q]] |-> <<wq[q], i>>] = <<s[q]>>
    <3> TAKE q \in 1..n
    <3>1. s[q] = <<wq[q], 1>>
      OBVIOUS
    <3>2. [i \in DOMAIN entries[wq[q]] |-> <<wq[q], i>>] = [i \in {1} |-> <<wq[q], 1>>]
      BY <1>5
    <3> HIDE DEF s
    <3> QED BY <3>1, <3>2
  <2> HIDE DEF s
  <2> QED BY <1>2, <2>1
<1> HIDE DEF s, parts
<1>8. FlattenSeq(parts) = s
  BY <1>6, <1>7, FlattenSingles
<1>9. PrefillCandidates = s
  BY <1>3, <1>6, <1>8, InOrderAll
<1> QED BY <1>2, <1>6, <1>9 DEF s

\* The selection begins at the front of the waiting queue.
LEMMA BeginPrefillIInv ==
  ASSUME SingleGeneration, IInv, BeginPrefill
  PROVE  Core' /\ InTurn' /\ StillDecodes' /\ ToFinish'
<1> DEFINE running == GetRunningRequestStateEntries
           todo == IF Len(running) <= GetNumAvailablePages THEN PrefillCandidates ELSE <<>>
<1>1. /\ UNCHANGED <<running_queue, waiting_queue, request_states, entries, available_ids, id_cnt, kv>>
      /\ deployment' = deployment /\ finished_rsentries' = finished_rsentries /\ enginePc' = "select"
  BY DEF BeginPrefill, queueVars, idVars
<1>2. prefill'.todo = todo /\ prefill'.chosen = <<>>
  BY DEF BeginPrefill, NoSelection
<1>3. Core'
  BY <1>1, CoreSame DEF IInv
<1>4. PICK n \in Nat : n = Len(waiting_queue)
  BY DEF IInv, Shape, TypeOK, QueuesOK
<1>5. /\ Len(todo) <= n
      /\ \A k \in 1..Len(todo) : todo[k] = <<waiting_queue[k], 1>>
  <2>1. Len(PrefillCandidates) = n /\ \A k \in 1..n : PrefillCandidates[k] = <<waiting_queue[k], 1>>
    BY <1>4, CandidatesInTurn DEF IInv
  <2> QED BY <1>4, <2>1
<1>6. todo \in Seq(Pairs)
  BY CandidatesFacts DEF IInv, Shape
<1> HIDE DEF todo
<1>7. InTurn'
  <2>1. Len(prefill'.chosen) = 0
    BY <1>2
  <2>2. Len(prefill'.todo) \in Nat
    BY <1>2, <1>6
  <2>3. \A k \in 1..Len(prefill'.todo) : Len(prefill'.chosen) + k = k
    BY <2>1
  <2>4. 1..Len(prefill'.chosen) = {}
    BY <2>1
  <2>5. Len(prefill'.chosen) + Len(prefill'.todo) <= Len(waiting_queue')
    BY <1>1, <1>2, <1>4, <1>5, <2>1, <2>2
  <2>6. \A k \in 1..Len(prefill'.todo) :
          prefill'.todo[k] = <<waiting_queue'[Len(prefill'.chosen) + k], 1>>
    BY <1>1, <1>2, <1>5, <2>3
  <2> QED BY <2>4, <2>5, <2>6 DEF InTurn
<1>8. StillDecodes' /\ ToFinish'
  BY <1>1 DEF StillDecodes, ToFinish, IInv
<1> QED BY <1>3, <1>7, <1>8

\* An entry that is taken is the next one in the waiting queue.
LEMMA TakeWholeIInv ==
  ASSUME SingleGeneration, IInv, TakeWhole
  PROVE  Core' /\ InTurn' /\ StillDecodes' /\ ToFinish'
<1> DEFINE x == Head(prefill.todo)
           p == PrefillInput(x, Entry(x).inputs, Max(Fitting(x)), FALSE)
<1>1. /\ UNCHANGED <<running_queue, waiting_queue, request_states, entries, available_ids, id_cnt, kv>>
      /\ deployment' = deployment /\ finished_rsentries' = finished_rsentries /\ enginePc' = "select"
      /\ enginePc = "select" /\ prefill.todo # <<>>
  BY DEF TakeWhole, queueVars, idVars
<1>2. prefill'.todo = Tail(prefill.todo) /\ prefill'.chosen = Append(prefill.chosen, p)
  BY DEF TakeWhole
<1>3. Core'
  BY <1>1, CoreSame DEF IInv
<1>4. prefill.todo \in Seq(Pairs) /\ prefill.chosen \in Seq(InputType)
  BY DEF IInv, Shape, TypeOK, StepOK, PrefillType
<1>5. PICK c \in Nat : c = Len(prefill.chosen) /\ DOMAIN prefill.chosen = 1..c
  BY <1>4
<1>6. PICK t \in Nat : t = Len(prefill.todo) /\ DOMAIN prefill.todo = 1..t /\ t >= 1
  BY <1>1, <1>4
<1>7. /\ c + t <= Len(waiting_queue)
      /\ \A k \in 1..c : prefill.chosen[k].rsentry = <<waiting_queue[k], 1>>
      /\ \A k \in 1..t : prefill.todo[k] = <<waiting_queue[c + k], 1>>
  BY <1>1, <1>5, <1>6 DEF IInv, InTurn
<1>8. p.rsentry = <<waiting_queue[c + 1], 1>>
  <2>1. x = prefill.todo[1] /\ 1 \in 1..t
    BY <1>4, <1>6
  <2> QED BY <1>7, <2>1 DEF PrefillInput
<1> HIDE DEF p
<1>9. /\ Len(prefill'.chosen) = c + 1
      /\ \A k \in 1..c : prefill'.chosen[k] = prefill.chosen[k]
      /\ prefill'.chosen[c + 1] = p
  BY <1>2, <1>4, <1>5
<1>10. /\ Len(prefill'.todo) = t - 1
       /\ \A k \in 1..(t - 1) : prefill'.todo[k] = prefill.todo[k + 1]
  BY <1>2, <1>4, <1>6
<1>11. InTurn'
  <2>1. (c + 1) + (t - 1) = c + t /\ Len(waiting_queue') = Len(waiting_queue)
    BY <1>1
  <2>2. ASSUME NEW k \in 1..(c + 1) PROVE prefill'.chosen[k].rsentry = <<waiting_queue'[k], 1>>
    <3>1. k \in 1..c \/ k = c + 1
      OBVIOUS
    <3> QED BY <1>1, <1>7, <1>8, <1>9, <3>1
  <2>3. ASSUME NEW k \in 1..(t - 1) PROVE prefill'.todo[k] = <<waiting_queue'[(c + 1) + k], 1>>
    <3>1. k + 1 \in 1..t /\ c + (k + 1) = (c + 1) + k
      OBVIOUS
    <3> QED BY <1>1, <1>7, <1>10, <3>1
  <2> QED BY <1>7, <1>9, <1>10, <2>1, <2>2, <2>3 DEF InTurn
<1>12. StillDecodes' /\ ToFinish'
  BY <1>1 DEF StillDecodes, ToFinish, IInv
<1> QED BY <1>3, <1>11, <1>12

\* A part of an entry may be taken last; it is the next one in the waiting queue.
LEMMA TakeChunkIInv ==
  ASSUME SingleGeneration, IInv, TakeChunkAndStop
  PROVE  Core' /\ InTurn' /\ StillDecodes' /\ ToFinish'
<1> DEFINE x == Head(prefill.todo)
           p == PrefillInput(x, ChunkSize - prefill.totalInput, 0, FALSE)
<1>1. /\ UNCHANGED <<running_queue, waiting_queue, request_states, entries, available_ids, id_cnt, kv>>
      /\ deployment' = deployment /\ finished_rsentries' = finished_rsentries /\ enginePc' = "select"
      /\ enginePc = "select" /\ prefill.todo # <<>>
  BY DEF TakeChunkAndStop, queueVars, idVars
<1>2. PICK q \in PrefillType : q = prefill
  BY DEF IInv, Shape, TypeOK, StepOK
<1>3. prefill'.todo = <<>> /\ prefill'.chosen \in {prefill.chosen, Append(prefill.chosen, p)}
  <2> DEFINE room == ChunkSize - prefill.totalInput
             taken == /\ 0 < room /\ room < Entry(x).inputs
                      /\ CanPrefill(prefill.num + 1, ChunkSize, prefill.pages + Pages(room))
  <2>1. prefill' = [prefill EXCEPT !.todo = <<>>, !.chosen = IF taken THEN Append(@, p) ELSE @]
    BY DEF TakeChunkAndStop
  <2> HIDE DEF p, taken
  <2>2. prefill' = [q EXCEPT !.todo = <<>>, !.chosen = IF taken THEN Append(q.chosen, p) ELSE q.chosen]
    BY <1>2, <2>1
  <2>3. /\ prefill'.todo = <<>>
        /\ prefill'.chosen = IF taken THEN Append(q.chosen, p) ELSE q.chosen
    BY <2>2 DEF PrefillType
  <2> QED BY <1>2, <2>3
<1>4. Core'
  BY <1>1, CoreSame DEF IInv
<1>5. prefill.todo \in Seq(Pairs) /\ prefill.chosen \in Seq(InputType)
  BY <1>2 DEF PrefillType
<1>6. PICK c \in Nat : c = Len(prefill.chosen) /\ DOMAIN prefill.chosen = 1..c
  BY <1>5
<1>7. PICK t \in Nat : t = Len(prefill.todo) /\ DOMAIN prefill.todo = 1..t /\ t >= 1
  BY <1>1, <1>5
<1>8. PICK w \in Nat : w = Len(waiting_queue)
  BY DEF IInv, Shape, TypeOK, QueuesOK
<1>9. /\ c + t <= w
      /\ \A k \in 1..c : prefill.chosen[k].rsentry = <<waiting_queue[k], 1>>
      /\ \A k \in 1..t : prefill.todo[k] = <<waiting_queue[c + k], 1>>
  BY <1>1, <1>6, <1>7, <1>8 DEF IInv, InTurn
<1>10. p.rsentry = <<waiting_queue[c + 1], 1>>
  <2>1. x = prefill.todo[1] /\ 1 \in 1..t
    BY <1>5, <1>7
  <2> QED BY <1>9, <2>1 DEF PrefillInput
<1> HIDE DEF p
<1>11. InTurn'
  <2>1. Len(prefill'.todo) = 0 /\ waiting_queue' = waiting_queue /\ 1..Len(prefill'.todo) = {}
    BY <1>1, <1>3
  <2>2. CASE prefill'.chosen = prefill.chosen
    <3>1. Len(prefill'.chosen) = c /\ c + 0 <= w
      BY <1>6, <1>9, <2>2
    <3> QED BY <1>8, <1>9, <2>1, <2>2, <3>1 DEF InTurn
  <2>3. CASE prefill'.chosen = Append(prefill.chosen, p)
    <3>1. /\ Len(prefill'.chosen) = c + 1
          /\ \A k \in 1..c : prefill'.chosen[k] = prefill.chosen[k]
          /\ prefill'.chosen[c + 1] = p
      BY <1>5, <1>6, <2>3
    <3>1a. (c + 1) + 0 <= w
      BY <1>7, <1>9
    <3>2. ASSUME NEW k \in 1..(c + 1) PROVE prefill'.chosen[k].rsentry = <<waiting_queue'[k], 1>>
      <4>1. k \in 1..c \/ k = c + 1
        OBVIOUS
      <4> QED BY <1>9, <1>10, <2>1, <3>1, <4>1
    <3>3. \A k \in 1..Len(prefill'.todo) :
            prefill'.todo[k] = <<waiting_queue'[Len(prefill'.chosen) + k], 1>>
      BY <2>1
    <3> QED BY <1>8, <2>1, <3>1, <3>1a, <3>2, <3>3 DEF InTurn
  <2> QED BY <1>3, <2>2, <2>3
<1>12. StillDecodes' /\ ToFinish'
  BY <1>1 DEF StillDecodes, ToFinish, IInv
<1> QED BY <1>4, <1>11, <1>12

\* The decode actions begin with the running entries.
LEMMA MoveOnIInv ==
  ASSUME SingleGeneration, IInv, enginePc' \in {"idle", "jumpForward", "decode"},
         UNCHANGED <<running_queue, waiting_queue, request_states, entries, available_ids, id_cnt, kv>>,
         deployment' = deployment, finished_rsentries' = finished_rsentries,
         enginePc' # "idle" => running_rsentries' = ComputeRunning
  PROVE  Core' /\ InTurn' /\ StillDecodes' /\ ToFinish'
<1>1. Core'
  BY CoreSame DEF IInv
<1>2. StillDecodes'
  <2> SUFFICES ASSUME enginePc' # "idle", NEW x \in ToSet(running_rsentries')
               PROVE  x[2] = 1 /\ Only(x[1])'.inputs = 0
    BY DEF StillDecodes
  <2>1. x[2] = 1 /\ Only(x[1]).inputs = 0
    BY RunningDecodes DEF IInv, Shape
  <2> QED BY <2>1 DEF Only
<1> QED BY <1>1, <1>2 DEF InTurn, ToFinish, IInv

\* Nothing to prefill.
LEMMA NothingIInv ==
  ASSUME SingleGeneration, IInv, NothingToPrefill
  PROVE  Core' /\ InTurn' /\ StillDecodes' /\ ToFinish'
<1>1. /\ UNCHANGED <<running_queue, waiting_queue, request_states, entries, available_ids, id_cnt, kv>>
      /\ deployment' = deployment /\ finished_rsentries' = finished_rsentries /\ enginePc = "select"
  BY DEF NothingToPrefill, queueVars, idVars
<1>2. /\ enginePc' \in {"idle", "jumpForward", "decode"}
      /\ enginePc' # "idle" => running_rsentries' = ComputeRunning
  <2>1. CASE Disaggregation
    <3>1. BeginDecode
      BY <2>1 DEF NothingToPrefill
    <3> QED BY <1>1, <3>1, BeginDecodeFacts DEF IInv
  <2>2. CASE ~Disaggregation
    <3>1. enginePc' = "jumpForward" /\ running_rsentries' = cached_running_rsentries_
      BY <2>2 DEF NothingToPrefill
    <3>2. cached_running_rsentries_ = ComputeRunning
      BY <1>1 DEF IInv, Shape, Selected, CacheIsFresh
    <3> QED BY <3>1, <3>2
  <2> QED BY <2>1, <2>2
<1> QED BY <1>1, <1>2, MoveOnIInv

\* On from jump-forward to decode.
LEMMA JumpForwardDoneIInv ==
  ASSUME SingleGeneration, IInv, JumpForwardDone
  PROVE  Core' /\ InTurn' /\ StillDecodes' /\ ToFinish'
<1>1. /\ UNCHANGED <<running_queue, waiting_queue, request_states, entries, available_ids, id_cnt, kv>>
      /\ deployment' = deployment /\ finished_rsentries' = finished_rsentries /\ BeginDecode
  BY DEF JumpForwardDone, queueVars, idVars
<1>2. /\ enginePc' \in {"idle", "jumpForward", "decode"}
      /\ enginePc' # "idle" => running_rsentries' = ComputeRunning
  BY <1>1, BeginDecodeFacts DEF IInv
<1> QED BY <1>1, <1>2, MoveOnIInv

\* The preemption of the last running request, or the failure of a check.
LEMMA PreemptLastIInv ==
  ASSUME SingleGeneration, IInv, PreemptLast, enginePc \in {"jumpForward", "decode"}
  PROVE  Core' /\ InTurn' /\ StillDecodes' /\ ToFinish'
<1> DEFINE r == Last(running_queue)
           i == LastAlive(r)
<1>1. TypeOK /\ Shape /\ Core /\ ToFinish /\ StillDecodes
  BY DEF IInv, Shape
<1>2. CASE running_queue = <<>> \/ AliveIds(r) = {}
  <2>1. Fail("no entry to preempt")
    BY <1>2 DEF PreemptLast
  <2> QED BY <1>1, <2>1, FailIInv
<1>3. CASE running_queue # <<>> /\ AliveIds(r) # {} /\ ~(AliveIds(r) \subseteq DOMAIN kv)
  <2>1. Fail("sequence not in the KV cache")
    BY <1>3 DEF PreemptLast
  <2> QED BY <1>1, <2>1, FailIInv
<1>4. CASE running_queue # <<>> /\ AliveIds(r) # {} /\ AliveIds(r) \subseteq DOMAIN kv
  <2>1. (IF Disaggregation THEN DropRequest(r) ELSE PreemptEntry(r, i)) /\ ForgetPreempted(<<r, i>>)
    BY <1>4 DEF PreemptLast
  <2>2. running_queue \in Seq(Requests) /\ ToSet(running_queue) \subseteq request_states
    BY <1>1 DEF TypeOK, QueuesOK
  <2>3. r \in Requests /\ r \in request_states
    BY <1>4, <2>2, FrontFacts
  <2>4. i = 1
    <3>1. i \in DOMAIN entries[r]
      BY <1>1, <1>4, <2>3, LastAliveFacts
    <3> QED BY <1>1, <2>3, <3>1, OnlyFacts
  <2>5. ToSet(running_rsentries') \subseteq ToSet(running_rsentries)
    BY <1>1, <2>1, ForgetTyped
  <2>6. PICK q \in request_states : q = r
    BY <2>3
  <2> HIDE DEF r, i
  <2>7. /\ Core' /\ enginePc' = enginePc /\ finished_rsentries' = finished_rsentries
        /\ \A s \in request_states' : /\ s \in request_states
                                      /\ Only(s)'.status = "kPending" \/ Only(s)' = Only(s)
    <3>1. CASE Disaggregation
      <4>1. DropRequest(q)
        BY <2>1, <2>6, <3>1
      <4>2. Core' /\ request_states' = request_states \ {q}
        BY <1>1, <4>1, DropCore
      <4>3. /\ entries' = [entries EXCEPT ![q] = <<>>]
            /\ enginePc' = enginePc /\ finished_rsentries' = finished_rsentries
        BY <4>1 DEF DropRequest
      <4>4. \A s \in request_states : s \in Requests /\ s \in DOMAIN entries
        BY <1>1 DEF TypeOK, QueuesOK, EntriesOK, Trees
      <4>5. \A s \in request_states' : s \in request_states /\ Only(s)' = Only(s)
        BY <4>2, <4>3, <4>4 DEF Only
      <4> QED BY <4>2, <4>3, <4>5
    <3>2. CASE ~Disaggregation
      <4>1. PreemptEntry(q, 1) /\ q = Last(running_queue)
        BY <2>1, <2>4, <2>6, <3>2 DEF r
      <4>2. /\ Core' /\ request_states' = request_states
            /\ \A s \in request_states : IF s = q THEN Only(s)'.status = "kPending" ELSE Only(s)' = Only(s)
        BY <1>1, <1>4, <4>1, PreemptCore
      <4>3. enginePc' = enginePc /\ finished_rsentries' = finished_rsentries
        BY <4>1 DEF PreemptEntry
      <4> QED BY <4>2, <4>3
    <3> QED BY <3>1, <3>2
  <2>8. StillDecodes'
    <3> SUFFICES ASSUME NEW x \in ToSet(running_rsentries')
                 PROVE  /\ x[2] = 1
                        /\ x[1] \in request_states' =>
                             Only(x[1])'.status = "kPending" \/ Only(x[1])'.inputs = 0
      BY DEF StillDecodes
    <3>1. x[2] = 1 /\ (x[1] \in request_states => Only(x[1]).status = "kPending" \/ Only(x[1]).inputs = 0)
      BY <1>1, <2>5 DEF StillDecodes
    <3> QED BY <2>7, <3>1
  <2> QED BY <1>1, <2>7, <2>8 DEF InTurn, ToFinish
<1> QED BY <1>2, <1>3, <1>4

\* Initially there is nothing.
LEMMA InitIInv ==
  ASSUME Init
  PROVE  IInv
<1>1. Shape
  BY InitShape
<1>2. /\ running_queue = <<>> /\ waiting_queue = <<>> /\ request_states = {} /\ available_ids = <<>>
      /\ kv = <<>> /\ finished_rsentries = <<>> /\ enginePc = "idle"
  BY DEF Init
<1>3. ToSet(<<>>) = {} /\ Distinct(<<>>) /\ DOMAIN <<>> = {}
  BY DEF ToSet, Distinct
<1>4. InQueues /\ IdsApart /\ InCache
  BY <1>2, <1>3 DEF InQueues, IdsApart, InCache
<1> QED BY <1>1, <1>2, <1>3, <1>4 DEF IInv, Core, InTurn, StillDecodes, ToFinish

\* Every step preserves IInv.
LEMMA NextIInv ==
  ASSUME SingleGeneration, IInv, [Next]_vars
  PROVE  IInv'
<1>1. Shape /\ Core /\ InTurn /\ StillDecodes /\ ToFinish
  BY DEF IInv
<1>2. Shape'
  BY <1>1, NextShape
<1> SUFFICES Core' /\ InTurn' /\ StillDecodes' /\ ToFinish'
  BY <1>2 DEF IInv
<1>3. ASSUME NEW r \in Requests, RejectRequest(r) PROVE Core' /\ InTurn' /\ StillDecodes' /\ ToFinish'
  <2>1. /\ UNCHANGED <<running_queue, waiting_queue, request_states, entries, available_ids, id_cnt, kv>>
        /\ deployment' = deployment /\ finished_rsentries' = finished_rsentries /\ enginePc' = "idle"
    BY <1>3 DEF RejectRequest, queueVars, idVars, stepVars
  <2> QED BY <1>1, <2>1, CoreSame, AtRest DEF ToFinish
<1>4. ASSUME NEW r \in Requests, AddRequest(r) PROVE Core' /\ InTurn' /\ StillDecodes' /\ ToFinish'
  <2>1. finished_rsentries' = finished_rsentries /\ enginePc' = "idle"
    BY <1>4 DEF AddRequest, stepVars
  <2> QED BY <1>1, <1>4, <2>1, AddCore, AtRest DEF ToFinish
<1>5. ASSUME NEW r \in Requests, AbortRequest(r) PROVE Core' /\ InTurn' /\ StillDecodes' /\ ToFinish'
  <2>1. CASE Fail("sequence not in the KV cache")
    BY <1>1, <2>1, FailIInv
  <2>2. CASE r \in request_states /\ enginePc = "idle" /\ DropRequest(r)
    <3>1. finished_rsentries' = finished_rsentries /\ enginePc' = "idle"
      BY <2>2 DEF DropRequest
    <3> QED BY <1>1, <2>2, <3>1, DropCore, AtRest DEF ToFinish
  <2> QED BY <1>5, <2>1, <2>2 DEF AbortRequest
<1>6. ASSUME NewRequestPrefill PROVE Core' /\ InTurn' /\ StillDecodes' /\ ToFinish'
  <2>1. CASE Fail("a sequence cannot be prefilled")
    BY <1>1, <2>1, FailIInv
  <2>2. CASE enginePc = "select" /\ PrefillGoesAhead
    <3>1. Core' /\ ToFinish' /\ enginePc' \in {"idle", "finish"}
      BY <1>1, <2>2, PrefillCore
    <3> QED BY <3>1 DEF InTurn, StillDecodes
  <2> QED BY <1>6, <2>1, <2>2, PrefillCases
<1>7. ASSUME BatchDecode PROVE Core' /\ InTurn' /\ StillDecodes' /\ ToFinish'
  <2>1. CASE Fail("no request state entry can run decode")
    BY <1>1, <2>1, FailIInv
  <2>2. CASE enginePc = "decode" /\ BatchIsSound /\ Decode
    <3>1. Core' /\ ToFinish' /\ enginePc' \in {"idle", "finish"}
      BY <1>1, <2>2, DecodeCore
    <3> QED BY <3>1 DEF InTurn, StillDecodes
  <2> QED BY <1>7, <2>1, <2>2 DEF BatchDecode
<1>8. ASSUME FinishEntry PROVE Core' /\ InTurn' /\ StillDecodes' /\ ToFinish'
  <2>1. CASE enginePc' = "failed"
    <3>1. Fail("sequence not in the KV cache") \/ Fail("finished request is not in the running queue")
      BY <1>8, <2>1, FinishCases
    <3> QED BY <1>1, <3>1, FailIInv
  <2>2. CASE enginePc' # "failed"
    <3>1. Core' /\ ToFinish'
      BY <1>1, <1>8, <2>2, FinishCore
    <3>2. enginePc' \in {"idle", "finish"}
      <4>1. ~Fail("sequence not in the KV cache") /\ ~Fail("finished request is not in the running queue")
        BY <2>2 DEF Fail
      <4> QED BY <1>8, <4>1, FinishCases
    <3> QED BY <3>1, <3>2 DEF InTurn, StillDecodes
  <2> QED BY <2>1, <2>2
<1>9. CASE UNCHANGED vars
  <2>1. /\ UNCHANGED <<running_queue, waiting_queue, request_states, entries, available_ids, id_cnt, kv>>
        /\ deployment' = deployment /\ finished_rsentries' = finished_rsentries /\ enginePc' = enginePc
        /\ running_rsentries' = running_rsentries /\ prefill' = prefill
    BY <1>9 DEF vars, queueVars, idVars, stepVars
  <2>2. Core'
    BY <1>1, <2>1, CoreSame
  <2>3. \A x : Only(x)' = Only(x)
    BY <2>1 DEF Only
  <2> QED BY <1>1, <2>1, <2>2, <2>3 DEF InTurn, StillDecodes, ToFinish
<1>10. ASSUME JumpForwardPreempt \/ DecodePreempt PROVE Core' /\ InTurn' /\ StillDecodes' /\ ToFinish'
  BY <1>10, PreemptLastIInv DEF JumpForwardPreempt, DecodePreempt
<1> QED BY <1>3, <1>4, <1>5, <1>6, <1>7, <1>8, <1>9, <1>10, BeginPrefillIInv, TakeWholeIInv, TakeChunkIInv,
           NothingIInv, JumpForwardDoneIInv DEF Next, Step, Client

-----------------------------------------------------------------------------
(* What the invariant says of the properties of Engine.                    *)

\* Ids, from the invariant.
LEMMA IdsFromIInv ==
  ASSUME SingleGeneration, IInv
  PROVE  IdsUnused
<1> DEFINE inUse == {x \in AllEntries : Entry(x).status # "kFinished"}
<1>1. TypeOK /\ available_ids \in Seq(Nat)
  BY DEF IInv, Shape, TypeOK, StepOK
<1>2. \A x \in inUse : /\ x = <<x[1], 1>> /\ x[1] \in request_states /\ Entry(x) = Only(x[1])
  BY <1>1, OnlyFacts
<1>3. \A x, y \in inUse : Entry(x).id = Entry(y).id => x = y
  <2> SUFFICES ASSUME NEW x \in inUse, NEW y \in inUse, Entry(x).id = Entry(y).id PROVE x = y
    OBVIOUS
  <2>1. x[1] = y[1]
    BY <1>2 DEF IInv, Core, IdsApart
  <2> QED BY <1>2, <2>1
<1>4. \A x \in inUse : ~Contains(available_ids, Entry(x).id)
  <2> TAKE x \in inUse
  <2>1. Entry(x).id \notin ToSet(available_ids)
    BY <1>2 DEF IInv, Core, IdsApart
  <2> QED BY <1>1, <2>1, ContainsFacts
<1>5. \A a, b \in DOMAIN available_ids : available_ids[a] = available_ids[b] => a = b
  BY DEF IInv, Core, IdsApart, Distinct
<1> QED BY <1>3, <1>4, <1>5 DEF IdsUnused

\* Queues, from the invariant.
LEMMA QueuesFromIInv ==
  ASSUME SingleGeneration, IInv
  PROVE  QueuesHoldRequests
<1>1. TypeOK /\ running_queue \in Seq(Requests) /\ waiting_queue \in Seq(Requests)
  BY DEF IInv, Shape, TypeOK, QueuesOK
<1>2. ASSUME NEW r \in Requests
      PROVE  /\ Contains(running_queue, r) = (r \in request_states /\ entries[r][1].status = "kAlive")
             /\ Contains(waiting_queue, r) =
                  (r \in request_states /\ \E e \in ToSet(entries[r]) : e.status = "kPending" \/ e.inputs > 0)
  <2>1. /\ Contains(running_queue, r) <=> r \in ToSet(running_queue)
        /\ Contains(waiting_queue, r) <=> r \in ToSet(waiting_queue)
    BY <1>1, ContainsFacts
  <2>2. r \in ToSet(running_queue) <=> r \in request_states /\ entries[r][1].status = "kAlive"
    BY DEF IInv, Core, InQueues, Only
  <2>3. ASSUME r \in request_states
        PROVE  Only(r).inputs > 0 <=> \E e \in ToSet(entries[r]) : e.status = "kPending" \/ e.inputs > 0
    <3>1. entries[r] = <<Only(r)>> /\ Only(r) \in EntryType
      BY <1>1, <2>3, OnlyFacts
    <3>2. ToSet(entries[r]) = {Only(r)}
      BY <3>1 DEF ToSet
    <3>3. Only(r).status = "kPending" => Only(r).inputs > 0
      <4>1. Only(r).status = "kPending" => Only(r).inputs = PromptTokens[r] + Only(r).committed
        BY <2>3 DEF IInv, Core, InCache
      <4>2. PromptTokens[r] \in Nat \ {0} /\ Only(r).committed \in Nat
        BY <1>1, <3>1, SingleFacts DEF TypeOK, EntryType
      <4> QED BY <4>1, <4>2
    <3> QED BY <3>2, <3>3
  <2>4. r \in ToSet(waiting_queue) <=> r \in request_states /\ Only(r).inputs > 0
    BY DEF IInv, Core, InQueues
  <2>5. Contains(running_queue, r) \in BOOLEAN /\ Contains(waiting_queue, r) \in BOOLEAN
    BY DEF Contains
  <2>6. Contains(waiting_queue, r) <=>
          r \in request_states /\ \E e \in ToSet(entries[r]) : e.status = "kPending" \/ e.inputs > 0
    BY <2>1, <2>3, <2>4
  <2>7. Contains(running_queue, r) = (r \in request_states /\ entries[r][1].status = "kAlive")
    BY <2>1, <2>2, <2>5
  <2> QED BY <2>5, <2>6, <2>7
<1>3. \A q \in {running_queue, waiting_queue} : Cardinality(ToSet(q)) = Len(q)
  <2> SUFFICES ASSUME NEW q \in Seq(Requests), Distinct(q) PROVE Cardinality(ToSet(q)) = Len(q)
    BY <1>1 DEF IInv, Core, InQueues
  <2> QED BY DistinctCardinality
<1> QED BY <1>2, <1>3 DEF QueuesHoldRequests

\* The KV cache, from the invariant.
LEMMA CacheFromIInv ==
  ASSUME SingleGeneration, IInv
  PROVE  KVHoldsTokens
<1> DEFINE alive == {x \in AllEntries : Entry(x).status = "kAlive"}
<1>1. TypeOK
  BY DEF IInv, Shape
<1>2. ASSUME NEW x
      PROVE  x \in alive <=> \E r \in request_states : x = <<r, 1>> /\ Only(r).status = "kAlive"
  BY <1>1, OnlyFacts
<1>3. DOMAIN kv = {Entry(x).id : x \in alive}
  <2>1. DOMAIN kv = {Only(r).id : r \in {s \in request_states : Only(s).status = "kAlive"}}
    BY DEF IInv, Core, InCache
  <2>2. \A r : Entry(<<r, 1>>) = Only(r)
    BY DEF Entry, Only
  <2> HIDE DEF alive
  <2>3. ASSUME NEW k
        PROVE  k \in DOMAIN kv <=> \E x \in alive : k = Entry(x).id
    <3>1. k \in DOMAIN kv <=> \E r \in request_states : Only(r).status = "kAlive" /\ k = Only(r).id
      BY <2>1
    <3>2. ASSUME NEW x \in alive, k = Entry(x).id
          PROVE  \E r \in request_states : Only(r).status = "kAlive" /\ k = Only(r).id
      <4>1. PICK r \in request_states : x = <<r, 1>> /\ Only(r).status = "kAlive"
        BY <1>2
      <4> QED BY <2>2, <3>2, <4>1
    <3>3. ASSUME NEW r \in request_states, Only(r).status = "kAlive", k = Only(r).id
          PROVE  \E x \in alive : k = Entry(x).id
      <4>1. <<r, 1>> \in alive
        BY <1>2, <3>3
      <4> QED BY <2>2, <3>3, <4>1
    <3> QED BY <3>1, <3>2, <3>3
  <2> QED BY <2>3
<1>4. ASSUME NEW x \in alive
      PROVE  kv[Entry(x).id] + Entry(x).inputs + Entry(x).num_tokens_for_next_decode =
               (IF x[2] = 1 THEN PromptTokens[x[1]] ELSE 0) + Entry(x).committed
  <2>1. PICK r \in request_states : x = <<r, 1>> /\ Only(r).status = "kAlive"
    BY <1>2
  <2>2. Entry(x) = Only(r) /\ x[1] = r /\ x[2] = 1
    BY <2>1 DEF Entry, Only
  <2> QED BY <2>1, <2>2 DEF IInv, Core, InCache
<1> QED BY <1>3, <1>4 DEF KVHoldsTokens

\* Only a prefill starts requests, and it takes them from the front of the waiting queue.
LEMMA NextInTurn ==
  ASSUME SingleGeneration, IInv, [Next]_vars,
         NEW a \in DOMAIN waiting_queue, NEW b \in DOMAIN waiting_queue, a < b,
         ~Contains(running_queue, waiting_queue[b]), Contains(running_queue', waiting_queue[b])
  PROVE  Contains(running_queue', waiting_queue[a])
<1>1. Shape /\ Core /\ InTurn /\ TypeOK /\ Shape'
  BY NextShape DEF IInv, Shape
<1>2. /\ running_queue \in Seq(Requests) /\ waiting_queue \in Seq(Requests)
      /\ \E R : running_queue' \in Seq(R)
  BY <1>1 DEF Shape, TypeOK, QueuesOK
<1>3. \A r : /\ Contains(running_queue, r) <=> r \in ToSet(running_queue)
             /\ Contains(running_queue', r) <=> r \in ToSet(running_queue')
  BY <1>2, ContainsFacts
<1>4. ~(ToSet(running_queue') \subseteq ToSet(running_queue))
  BY <1>3
<1>5. \A S : ToSet(InOrder(running_queue, S)) \subseteq ToSet(running_queue)
  BY <1>2, InOrderFacts
<1>6. ToSet(Front(running_queue)) \subseteq ToSet(running_queue)
  BY <1>2, FrontFacts
<1>7. running_queue' # running_queue
  BY <1>4
<1>8. \A r : ~DropRequest(r)
  BY <1>4, <1>5 DEF DropRequest
<1>9. ~PreemptLast
  <2>1. \A r, i : ~PreemptEntry(r, i)
    BY <1>4, <1>6 DEF PreemptEntry, LeaveRunning
  <2>2. \A what : ~Fail(what)
    BY <1>7 DEF Fail, queueVars
  <2> QED BY <1>8, <2>1, <2>2 DEF PreemptLast
<1>10. ~Client
  BY <1>7, <1>8 DEF Client, RejectRequest, AddRequest, AbortRequest, Fail, queueVars
<1>11. ~FinishEntry
  <2> SUFFICES ASSUME FinishEntry PROVE FALSE
    OBVIOUS
  <2>1. running_queue' = running_queue \/ \E r : running_queue' = InOrder(running_queue, Requests \ {r})
    BY FinishCases DEF Fail, queueVars
  <2> QED BY <1>4, <1>5, <1>7, <2>1
<1>12. ~BatchDecode
  BY <1>7 DEF BatchDecode, Decode, Fail, queueVars
<1>13. NewRequestPrefill
  <2>1. ~BeginPrefill /\ ~TakeWhole /\ ~TakeChunkAndStop /\ ~NothingToPrefill /\ ~JumpForwardDone
    BY <1>7 DEF BeginPrefill, TakeWhole, TakeChunkAndStop, NothingToPrefill, JumpForwardDone, queueVars
  <2>2. ~JumpForwardPreempt /\ ~DecodePreempt
    BY <1>9 DEF JumpForwardPreempt, DecodePreempt
  <2>3. ~UNCHANGED vars
    BY <1>7 DEF vars, queueVars
  <2> QED BY <1>10, <1>11, <1>12, <2>1, <2>2, <2>3 DEF Next, Step
<1>14. enginePc = "select" /\ PrefillGoesAhead
  BY <1>7, <1>13, PrefillCases DEF Fail, queueVars
<1>15. running_queue' = running_queue \o StartedRequests(PrefillInputs)
  BY <1>14 DEF PrefillGoesAhead
<1>16. \A r : r \in ToSet(running_queue') <=>
                r \in ToSet(running_queue) \/ r \in ToSet(StartedRequests(PrefillInputs))
  BY <1>1, <1>2, <1>14, <1>15, PrefillFacts, ConcatFacts
<1> DEFINE early == waiting_queue[a]
           late == waiting_queue[b]
<1>17. late \in request_states /\ Only(late).status = "kPending"
       /\ \E p \in ToSet(PrefillInputs) : p.rsentry = <<late, 1>>
  BY <1>1, <1>3, <1>14, <1>16, StartedSingle
<1>18. PICK p \in ToSet(PrefillInputs) : p.rsentry = <<late, 1>>
  BY <1>17
<1>19. ~p.isDecode
  <2> SUFFICES ASSUME p.isDecode PROVE FALSE
    OBVIOUS
  <2>1. Entry(<<late, 1>>).status = "kAlive"
    BY <1>1, <1>14, <1>18, PrefillInputsFacts, RunningFacts
  <2> QED BY <1>17, <2>1 DEF Entry, Only
<1>20. prefill.chosen \in Seq(InputType)
  BY <1>1 DEF TypeOK, StepOK, PrefillType
<1>21. PICK m \in Nat : m = Len(prefill.chosen) /\ DOMAIN prefill.chosen = 1..m
  BY <1>20
<1>22. PICK k \in 1..m : prefill.chosen[k] = p
  BY <1>1, <1>14, <1>19, <1>21, PrefillInputsFacts DEF ToSet
<1>23. \A i \in 1..m : prefill.chosen[i].rsentry = <<waiting_queue[i], 1>> /\ i \in DOMAIN waiting_queue
  <2>1. m + Len(prefill.todo) <= Len(waiting_queue)
    BY <1>1, <1>14, <1>21 DEF InTurn
  <2>2. Len(prefill.todo) \in Nat
    BY <1>1 DEF TypeOK, StepOK, PrefillType
  <2>3. PICK w \in Nat : w = Len(waiting_queue) /\ DOMAIN waiting_queue = 1..w
    BY <1>2
  <2>4. m <= w
    BY <2>1, <2>2, <2>3
  <2> QED BY <1>1, <1>14, <1>21, <2>3, <2>4 DEF InTurn
<1>24. k = b
  <2>1. waiting_queue[k] = waiting_queue[b] /\ k \in DOMAIN waiting_queue
    BY <1>18, <1>22, <1>23
  <2> QED BY <1>1, <2>1 DEF Core, InQueues, Distinct
<1>25. a \in 1..m
  <2>1. a \in Nat \ {0} /\ b \in Nat
    BY <1>2
  <2> QED BY <1>22, <1>24, <2>1
<1>26. prefill.chosen[a] \in ToSet(PrefillInputs) /\ prefill.chosen[a].rsentry = <<early, 1>>
  <2>1. prefill.chosen[a] \in ToSet(prefill.chosen)
    BY <1>21, <1>25 DEF ToSet
  <2> QED BY <1>1, <1>14, <1>23, <1>25, <2>1, PrefillInputsFacts
<1>27. early \in request_states /\ early \in Requests /\ Only(early).status \in {"kPending", "kAlive"}
  <2>1. early \in ToSet(waiting_queue) /\ early \in Requests
    BY <1>2, ToSetFacts DEF ToSet
  <2>2. early \in request_states
    BY <1>1, <2>1 DEF Core, InQueues
  <2>3. Only(early).status \in Statuses
    BY <1>1, <2>2, OnlyFacts DEF EntryType
  <2> QED BY <1>1, <2>1, <2>2, <2>3 DEF Statuses, Core, InQueues
<1>28. CASE Only(early).status = "kAlive"
  <2>1. early \in ToSet(running_queue)
    BY <1>1, <1>27, <1>28 DEF Core, InQueues
  <2> QED BY <1>3, <1>16, <2>1
<1>29. CASE Only(early).status = "kPending"
  <2>1. early \in ToSet(StartedRequests(PrefillInputs))
    BY <1>1, <1>14, <1>26, <1>27, <1>29, StartedSingle
  <2> QED BY <1>3, <1>16, <2>1
<1> QED BY <1>27, <1>28, <1>29

-----------------------------------------------------------------------------
(* Theorems.                                                               *)

\* IInv is an invariant.
LEMMA IInvariant ==
  ASSUME SingleGeneration
  PROVE  Spec => []IInv
<1>1. Init => IInv
  BY InitIInv
<1>2. IInv /\ [Next]_vars => IInv'
  BY NextIInv
<1> QED BY <1>1, <1>2, PTL DEF Spec

\* An internal id is never given to two entries at a time and never returned twice to the
\* free list: GetNewId returns an id that no entry of the model has (engine_state.h L30).
THEOREM IdsNeverShared ==
  ASSUME SingleGeneration
  PROVE  Spec => []IdsUnused
<1>1. IInv => IdsUnused
  BY IdsFromIInv
<1> QED BY <1>1, IInvariant, PTL

\* Between steps every request that is in the engine is in the queue where the scheduler looks
\* for it, once, whatever sequence of prefills, preemptions and aborts led there.
THEOREM RequestsNeverLost ==
  ASSUME SingleGeneration
  PROVE  Spec => []QueuesHoldRequests
<1>1. IInv => QueuesHoldRequests
  BY QueuesFromIInv
<1> QED BY <1>1, IInvariant, PTL

\* Between steps the KV cache has the sequences of the alive entries and exactly the tokens
\* they have processed: no token is lost or appended twice (request_state.h L54, L62).
THEOREM TokensNeverLost ==
  ASSUME SingleGeneration
  PROVE  Spec => []KVHoldsTokens
<1>1. IInv => KVHoldsTokens
  BY CacheFromIInv
<1> QED BY <1>1, IInvariant, PTL

\* Prefill starts requests in the order of the waiting queue and passes over none
\* (batch_prefill_base.cc L185, L209: prefill stops at the first entry that does not fit).
THEOREM StartedInTurn ==
  ASSUME SingleGeneration
  PROVE  Spec => FirstComeFirstServed
<1>1. IInv /\ [Next]_vars =>
        [\A a, b \in DOMAIN waiting_queue :
           LET early == waiting_queue[a] late == waiting_queue[b]
           IN  /\ a < b
               /\ ~Contains(running_queue, late)
               /\ Contains(running_queue', late)
               => Contains(running_queue', early)]_vars
  BY NextInTurn
<1> QED BY <1>1, IInvariant, PTL DEF FirstComeFirstServed, Spec

-----------------------------------------------------------------------------
(* The limits, for deployments whose requests ask for one generation.      *)

\* An alive request without pending input decodes.
Decodes(r) == Only(r).status = "kAlive" /\ Only(r).inputs = 0

\* Below the length limits; what reaches one is about to finish.
Short(r) == Only(r).committed < MaxTokens /\ PromptTokens[r] + Only(r).committed < MaxSingle
Finishing(r) == enginePc \in {"finish", "failed"} /\ <<r, 1>> \in ToSet(finished_rsentries)
Lengths ==
  \A r \in request_states : Short(r) \/ (Only(r).committed <= MaxTokens /\ Finishing(r))

\* A request that decodes has one token to decode next, the others have none.
OneEach ==
  \A r \in request_states : Only(r).num_tokens_for_next_decode = IF Decodes(r) THEN 1 ELSE 0

FewRunning == Len(ComputeRunning) <= BatchLimit

Room == GetNumAvailablePages >= 0

\* The pages the tokens of the inputs need at most.
PagesOf(inputs) == SumFunction([q \in DOMAIN inputs |-> Pages(inputs[q].len)])

\* While entries are selected there is room, in the batch and in the KV cache, for the chosen ones
\* and one more token of every running one.
Reserved ==
  enginePc = "select" =>
    LET running == Len(cached_running_rsentries_)
    IN  /\ prefill.todo # <<>> => /\ prefill.num = Len(prefill.chosen)
                                  /\ prefill.pages = running + PagesOf(prefill.chosen)
        /\ prefill.chosen # <<>> => /\ running + Len(prefill.chosen) <= BatchLimit
                                    /\ running + PagesOf(prefill.chosen) <= GetNumAvailablePages

LInv == Lengths /\ OneEach /\ FewRunning /\ Room /\ Reserved

\* The limits of a deployment.
LEMMA LimitFacts ==
  ASSUME deployment \in Deployments
  PROVE  /\ MaxTokens \in Nat \ {0} /\ MaxSingle \in Nat \ {0} /\ MaxTotal \in Nat \ {0}
         /\ MaxNumSequence \in Nat \ {0} /\ ChunkSize \in Nat \ {0} /\ PageSize \in Nat \ {0}
         /\ NumPages \in Nat \ {0}
         /\ BatchLimit \in Nat \ {0} /\ BatchLimit <= MaxNumSequence /\ BatchLimit <= ChunkSize
<1>1. {MaxTokens, MaxSingle, MaxTotal, MaxNumSequence, ChunkSize, PageSize, NumPages} \subseteq Nat \ {0}
  BY DeploymentsAssumption DEF MaxTokens, MaxSingle, MaxTotal, MaxNumSequence, ChunkSize, PageSize, NumPages
<1>2. /\ MaxTokens \in Nat \ {0} /\ MaxSingle \in Nat \ {0} /\ MaxTotal \in Nat \ {0}
      /\ MaxNumSequence \in Nat \ {0} /\ ChunkSize \in Nat \ {0} /\ PageSize \in Nat \ {0}
      /\ NumPages \in Nat \ {0}
  BY <1>1
<1> QED BY <1>2 DEF BatchLimit

\* The limits stay with the deployment.
LEMMA LimitsFixed ==
  ASSUME deployment' = deployment
  PROVE  /\ MaxTokens' = MaxTokens /\ MaxSingle' = MaxSingle /\ MaxTotal' = MaxTotal
         /\ MaxNumSequence' = MaxNumSequence /\ ChunkSize' = ChunkSize /\ PageSize' = PageSize
         /\ NumPages' = NumPages /\ BatchLimit' = BatchLimit /\ Hybrid' = Hybrid
         /\ Disaggregation' = Disaggregation
BY DEF MaxTokens, MaxSingle, MaxTotal, MaxNumSequence, ChunkSize, PageSize, NumPages, BatchLimit,
       Hybrid, Disaggregation

\* Division by a positive number.
LEMMA DivFacts ==
  ASSUME NEW x \in Nat, NEW p \in Nat \ {0}
  PROVE  x \div p \in Nat /\ p * (x \div p) <= x /\ x < p * (x \div p) + p
OBVIOUS

\* The pages of a number of tokens.
LEMMA PagesCover ==
  ASSUME deployment \in Deployments, NEW a \in Nat
  PROVE  /\ Pages(a) \in Nat
         /\ PageSize * Pages(a) >= a
         /\ PageSize * Pages(a) < a + PageSize
<1>1. PICK p \in Nat \ {0} : p = PageSize
  BY LimitFacts
<1>2. PICK x \in Nat : x = a + p - 1
  OBVIOUS
<1>3. Pages(a) = x \div p
  BY <1>1, <1>2 DEF Pages
<1>4. PICK q \in Nat : q = x \div p /\ p * q <= x /\ x < p * q + p
  BY DivFacts
<1> QED BY <1>1, <1>2, <1>3, <1>4

\* A product is as large as its factor.
LEMMA FewerPages ==
  ASSUME NEW p \in Nat \ {0}, NEW i \in Nat, NEW j \in Nat, p * i < p * j + p
  PROVE  i <= j
<1> SUFFICES ASSUME i >= j + 1 PROVE FALSE
  OBVIOUS
<1>1. PICK d \in Nat : i = (j + 1) + d
  <2>1. i - (j + 1) \in Nat /\ i = (j + 1) + (i - (j + 1))
    OBVIOUS
  <2> QED BY <2>1
<1>2. p * i = p * j + p + p * d
  BY <1>1
<1>3. p * d \in Nat /\ p * j \in Nat
  OBVIOUS
<1> QED BY <1>2, <1>3

\* Tokens added at a time need no more pages than they would on their own.
LEMMA PagesAdd ==
  ASSUME deployment \in Deployments, NEW a \in Nat, NEW b \in Nat
  PROVE  /\ Pages(a) \in Nat /\ Pages(b) \in Nat
         /\ Pages(a + b) \in Nat /\ Pages(a + b) <= Pages(a) + Pages(b)
         /\ a <= b => Pages(a) <= Pages(b)
         /\ Pages(0) = 0 /\ Pages(1) = 1
<1>1. PICK p \in Nat \ {0} : p = PageSize
  BY LimitFacts
<1>2. PICK i \in Nat, j \in Nat, k \in Nat : i = Pages(a) /\ j = Pages(b) /\ k = Pages(a + b)
  BY PagesCover
<1>3. p * i >= a /\ p * i < a + p /\ p * j >= b /\ p * j < b + p
  BY <1>1, <1>2, PagesCover
<1>4. p * k >= a + b /\ p * k < (a + b) + p
  <2>1. a + b \in Nat
    OBVIOUS
  <2> QED BY <1>1, <1>2, <2>1, PagesCover
<1>5. k <= i + j
  <2>1. p * (i + j) = p * i + p * j /\ p * k \in Nat /\ p * i \in Nat /\ p * j \in Nat
    OBVIOUS
  <2>2. p * k < p * (i + j) + p
    BY <1>3, <1>4, <2>1
  <2> QED BY <2>2, FewerPages
<1>6. a <= b => i <= j
  <2> HAVE a <= b
  <2>1. p * i < p * j + p
    <3>1. p * i \in Nat /\ p * j \in Nat
      OBVIOUS
    <3> QED BY <1>3, <3>1
  <2> QED BY <2>1, FewerPages
<1>7. Pages(0) = 0 /\ Pages(1) = 1
  <2>1. PICK g \in Nat, h \in Nat : g = Pages(0) /\ h = Pages(1)
    BY PagesCover
  <2>2. p * g < 0 + p /\ p * h >= 1 /\ p * h < 1 + p
    BY <1>1, <2>1, PagesCover
  <2>3. p * 0 = 0 /\ p * 1 = p
    OBVIOUS
  <2>4. g <= 0
    <3>1. p * g < p * 0 + p
      BY <2>2, <2>3
    <3> QED BY <3>1, FewerPages
  <2>5. h <= 1
    <3>1. p * h < p * 1 + p
      BY <2>2, <2>3
    <3> QED BY <3>1, FewerPages
  <2>6. h # 0
    BY <2>2, <2>3
  <2> QED BY <2>1, <2>4, <2>5, <2>6
<1> QED BY <1>2, <1>5, <1>6, <1>7


\* The running entries are those of the requests that decode, each once.
RunningDecoders ==
  /\ ComputeRunning \in Seq(Pairs) /\ Distinct(ComputeRunning)
  /\ \A x : x \in ToSet(ComputeRunning) <=> \E r \in request_states : x = <<r, 1>> /\ Decodes(r)

\* The KV cache has finitely many sequences, with numbers of tokens.
FiniteCache ==
  /\ IsFiniteSet(DOMAIN kv) /\ kv \in [DOMAIN kv -> Nat]
  /\ \A s \in DOMAIN kv : Pages(kv[s]) \in Nat
  /\ \A s \in DOMAIN kv : [t \in DOMAIN kv |-> Pages(kv[t])][s] = Pages(kv[s])
  /\ GetNumAvailablePages = NumPages - SumFunctionOnSet([s \in DOMAIN kv |-> Pages(kv[s])], DOMAIN kv)
  /\ SumFunctionOnSet([s \in DOMAIN kv |-> Pages(kv[s])], DOMAIN kv) \in Nat /\ GetNumAvailablePages \in Int

\* What runs, by requests.
LEMMA DecodersRun ==
  ASSUME SingleGeneration
  PROVE  IInv => RunningDecoders
<1> SUFFICES ASSUME IInv PROVE RunningDecoders
  OBVIOUS
<1>1. TypeOK /\ deployment \in Deployments /\ Core
  BY DEF IInv, Shape, TypeOK
<1>2. /\ ComputeRunning \in Seq(Pairs)
      /\ \A x : x \in ToSet(ComputeRunning) <=>
           /\ x \in AllEntries /\ x[1] \in ToSet(running_queue)
           /\ Entry(x).status = "kAlive" /\ x[2] \in Leaves(x[1]) /\ Entry(x).inputs = 0
      /\ Distinct(ComputeRunning)
  BY <1>1, RunningFacts DEF Core, InQueues
<1>3. ASSUME NEW x PROVE x \in ToSet(ComputeRunning) <=> \E r \in request_states : x = <<r, 1>> /\ Decodes(r)
  <2>1. ASSUME x \in ToSet(ComputeRunning) PROVE \E r \in request_states : x = <<r, 1>> /\ Decodes(r)
    <3>1. PICK r \in request_states : x = <<r, 1>>
      BY <1>1, <1>2, <2>1, OnlyFacts
    <3>2. Entry(x) = Only(r)
      BY <1>1, <3>1, OnlyFacts
    <3> QED BY <1>2, <2>1, <3>1, <3>2 DEF Decodes
  <2>2. ASSUME NEW r \in request_states, x = <<r, 1>>, Decodes(r) PROVE x \in ToSet(ComputeRunning)
    <3>1. x \in AllEntries /\ Entry(x) = Only(r) /\ r \in Requests /\ x[1] = r /\ x[2] = 1
      BY <1>1, <2>2, OnlyFacts
    <3>2. r \in ToSet(running_queue) /\ 1 \in Leaves(r)
      BY <1>1, <2>2, <3>1, SingleFacts DEF Core, InQueues, Decodes
    <3> QED BY <1>2, <2>2, <3>1, <3>2 DEF Decodes
  <2> QED BY <2>1, <2>2
<1> QED BY <1>2, <1>3 DEF RunningDecoders

\* The sequences of the KV cache are those of the running queue.
LEMMA CacheIsFinite ==
  ASSUME SingleGeneration
  PROVE  IInv => FiniteCache
<1> SUFFICES ASSUME IInv PROVE FiniteCache
  OBVIOUS
<1> DEFINE f == [r \in request_states |-> Only(r).id]
           pages == [s \in DOMAIN kv |-> Pages(kv[s])]
<1>1. TypeOK /\ deployment \in Deployments /\ Core /\ StepOK /\ QueuesOK
  BY DEF IInv, Shape, TypeOK
<1>2. DOMAIN kv = {f[r] : r \in ToSet(running_queue)}
  <2>1. \A r \in request_states : r \in Requests
    BY <1>1 DEF QueuesOK
  <2>2. ToSet(running_queue) = {s \in request_states : Only(s).status = "kAlive"}
    <3>1. \A r \in ToSet(running_queue) : r \in Requests
      BY <1>1, <2>1 DEF QueuesOK
    <3> QED BY <1>1, <2>1, <3>1 DEF Core, InQueues
  <2>3. \A r \in ToSet(running_queue) : f[r] = Only(r).id
    BY <2>2
  <2> QED BY <1>1, <2>2, <2>3 DEF Core, InCache
<1>3. IsFiniteSet(DOMAIN kv)
  <2> HIDE DEF f
  <2>1. running_queue \in Seq(Requests)
    BY <1>1 DEF QueuesOK
  <2> QED BY <1>2, <2>1, ToSetFinite
<1>4. kv \in [DOMAIN kv -> Nat]
  BY <1>1 DEF StepOK
<1>5. \A s \in DOMAIN kv : kv[s] \in Nat /\ Pages(kv[s]) \in Nat
  BY <1>1, <1>4, PagesFacts
<1>6. \A s \in DOMAIN kv : pages[s] = Pages(kv[s])
  OBVIOUS
<1>7. DOMAIN pages = DOMAIN kv
  OBVIOUS
<1>8. \A s \in DOMAIN kv : pages[s] \in Nat
  BY <1>5, <1>6
<1>9. GetNumAvailablePages = NumPages - SumFunctionOnSet(pages, DOMAIN kv)
  BY <1>7 DEF GetNumAvailablePages, SumFunction
<1> HIDE DEF pages
<1>10. SumFunctionOnSet(pages, DOMAIN kv) \in Nat
  BY <1>3, <1>8, SumNat
<1>11. GetNumAvailablePages \in Int
  BY <1>1, <1>9, <1>10, LimitFacts
<1> QED BY <1>3, <1>4, <1>5, <1>6, <1>9, <1>10, <1>11 DEF FiniteCache, pages

\* ... and after a step.
LEMMA DecodersRunNext ==
  ASSUME SingleGeneration
  PROVE  IInv' => RunningDecoders' /\ FiniteCache'
<1>1. IInv => RunningDecoders /\ FiniteCache
  BY DecodersRun, CacheIsFinite
<1> QED BY <1>1, PTL

\* Sequences that leave the KV cache make room.
LEMMA RoomLeft ==
  ASSUME SingleGeneration, IInv, IInv', deployment' = deployment, DOMAIN kv' \subseteq DOMAIN kv,
         \A s \in DOMAIN kv' : kv'[s] = kv[s]
  PROVE  /\ GetNumAvailablePages \in Int /\ GetNumAvailablePages' \in Int
         /\ GetNumAvailablePages <= GetNumAvailablePages'
<1> DEFINE f == [s \in DOMAIN kv |-> Pages(kv[s])]
           g == [s \in DOMAIN kv' |-> Pages(kv'[s])]
<1>1. FiniteCache /\ FiniteCache' /\ deployment \in Deployments
  BY CacheIsFinite, DecodersRunNext DEF IInv, Shape, TypeOK
<1>2. NumPages' = NumPages /\ PageSize' = PageSize /\ NumPages \in Nat
  BY <1>1, LimitsFixed, LimitFacts
<1>3. GetNumAvailablePages' = NumPages - SumFunctionOnSet(g, DOMAIN kv')
  <2>1. [s \in DOMAIN kv' |-> Pages(kv[s])'] = g
    BY <1>2 DEF Pages
  <2> QED BY <1>1, <1>2, <2>1 DEF FiniteCache
<1>4. GetNumAvailablePages = NumPages - SumFunctionOnSet(f, DOMAIN kv)
  BY <1>1 DEF FiniteCache
<1>5. \A s \in DOMAIN kv : f[s] \in Nat
  BY <1>1 DEF FiniteCache
<1>6. \A s \in DOMAIN kv' : g[s] = f[s]
  OBVIOUS
<1> HIDE DEF f, g
<1>7. IsFiniteSet(DOMAIN kv) /\ IsFiniteSet(DOMAIN kv')
  BY <1>1 DEF FiniteCache
<1>8. SumFunctionOnSet(g, DOMAIN kv') = SumFunctionOnSet(f, DOMAIN kv')
  BY <1>6, <1>7, SumAgree
<1>9. /\ SumFunctionOnSet(f, DOMAIN kv') \in Nat /\ SumFunctionOnSet(f, DOMAIN kv) \in Nat
      /\ SumFunctionOnSet(f, DOMAIN kv') <= SumFunctionOnSet(f, DOMAIN kv)
  BY <1>5, <1>7, SumPart
<1> QED BY <1>2, <1>3, <1>4, <1>8, <1>9


\* What a step keeps that changes no request but by dropping or preempting it.
Dwindles ==
  /\ deployment' = deployment /\ request_states' \subseteq request_states
  /\ \A s \in request_states' :
       \/ Only(s)' = Only(s)
       \/ /\ Only(s)'.committed = Only(s).committed
          /\ Only(s)'.status = "kPending" /\ Only(s)'.num_tokens_for_next_decode = 0
  /\ DOMAIN kv' \subseteq DOMAIN kv /\ \A k \in DOMAIN kv' : kv'[k] = kv[k]

\* Fewer requests stay within the limits.
LEMMA DwindlesWithin ==
  ASSUME SingleGeneration, IInv, IInv', LInv, Dwindles
  PROVE  /\ OneEach' /\ FewRunning' /\ Room'
         /\ \A s \in request_states' : Only(s)'.committed = Only(s).committed
         /\ \A s \in request_states' : Short(s) => Short(s)'
         /\ enginePc \notin {"finish", "failed"} => Lengths'
<1>1. deployment' = deployment /\ request_states' \subseteq request_states
  BY DEF Dwindles
<1>2. MaxTokens' = MaxTokens /\ MaxSingle' = MaxSingle /\ PromptTokens' = PromptTokens /\ BatchLimit' = BatchLimit
  BY <1>1, LimitsFixed, DeploymentFixed
<1>3. \A s \in request_states' : Only(s)'.committed = Only(s).committed
  BY DEF Dwindles
<1>4. \A s \in request_states' : Short(s) => Short(s)'
  BY <1>2, <1>3 DEF Short
<1>5. OneEach'
  <2> SUFFICES ASSUME NEW s \in request_states'
               PROVE  Only(s)'.num_tokens_for_next_decode = IF Decodes(s)' THEN 1 ELSE 0
    BY DEF OneEach
  <2>1. Only(s).num_tokens_for_next_decode = IF Decodes(s) THEN 1 ELSE 0
    BY <1>1 DEF LInv, OneEach
  <2>2. CASE Only(s)' = Only(s)
    BY <2>1, <2>2 DEF Decodes
  <2>3. CASE Only(s)'.status = "kPending" /\ Only(s)'.num_tokens_for_next_decode = 0
    BY <2>3 DEF Decodes
  <2> QED BY <2>2, <2>3 DEF Dwindles
<1>6. FewRunning'
  <2>1. RunningDecoders /\ RunningDecoders'
    BY DecodersRun, DecodersRunNext
  <2>2. Pairs' = Pairs
    BY <1>1, DeploymentFixed
  <2>3. /\ ComputeRunning \in Seq(Pairs) /\ ComputeRunning' \in Seq(Pairs) /\ Distinct(ComputeRunning')
    BY <2>1, <2>2 DEF RunningDecoders
  <2>4. ASSUME NEW x \in ToSet(ComputeRunning') PROVE x \in ToSet(ComputeRunning)
    <3>1. PICK s \in request_states' : x = <<s, 1>> /\ Decodes(s)'
      BY <2>1 DEF RunningDecoders
    <3>2. Only(s)'.status = "kAlive"
      BY <3>1 DEF Decodes
    <3>3. Only(s)' = Only(s)
      BY <3>2 DEF Dwindles
    <3>4. s \in request_states /\ Decodes(s)
      BY <1>1, <3>1, <3>3 DEF Decodes
    <3> QED BY <2>1, <3>1, <3>4 DEF RunningDecoders
  <2>5. Len(ComputeRunning') <= Len(ComputeRunning)
    BY <2>3, <2>4, NotLonger
  <2>6. Len(ComputeRunning) <= BatchLimit /\ BatchLimit \in Nat
    BY LimitFacts DEF LInv, FewRunning, IInv, Shape, TypeOK
  <2>7. Len(ComputeRunning) \in Nat /\ Len(ComputeRunning') \in Nat
    BY <2>3
  <2> QED BY <1>2, <2>5, <2>6, <2>7 DEF FewRunning
<1>7. Room'
  BY <1>1, RoomLeft DEF Dwindles, LInv, Room
<1>8. enginePc \notin {"finish", "failed"} => Lengths'
  BY <1>1, <1>4 DEF LInv, Lengths, Finishing
<1> QED BY <1>3, <1>4, <1>5, <1>6, <1>7, <1>8

\* A step that changes no request and no sequence.
LEMMA KeepsAll ==
  ASSUME deployment' = deployment, UNCHANGED <<request_states, entries, kv>>
  PROVE  Dwindles
BY DEF Dwindles, Only

\* A failed check, and a step of the scheduler that only moves on.
LEMMA StaysWithin ==
  ASSUME SingleGeneration, IInv, IInv', LInv, deployment' = deployment,
         UNCHANGED <<request_states, entries, kv>>, enginePc' # "select",
         \/ enginePc \notin {"finish", "failed"}
         \/ UNCHANGED finished_rsentries /\ enginePc' \in {"finish", "failed"}
  PROVE  LInv'
<1>1. Dwindles
  BY KeepsAll
<1>2. OneEach' /\ FewRunning' /\ Room' /\ (enginePc \notin {"finish", "failed"} => Lengths')
  BY <1>1, DwindlesWithin
<1>3. Lengths'
  <2>1. CASE enginePc \notin {"finish", "failed"}
    BY <1>2, <2>1
  <2>2. CASE UNCHANGED finished_rsentries /\ enginePc' \in {"finish", "failed"}
    <3>1. \A s \in request_states' : Short(s) => Short(s)'
      BY <1>1, DwindlesWithin
    <3>2. \A s \in request_states' : Only(s)'.committed = Only(s).committed
      BY <1>1, DwindlesWithin
    <3>3. MaxTokens' = MaxTokens
      BY LimitsFixed
    <3> QED BY <2>2, <3>1, <3>2, <3>3 DEF LInv, Lengths, Finishing
  <2> QED BY <2>1, <2>2
<1> QED BY <1>2, <1>3 DEF LInv, Reserved

\* A failed check changes nothing of it.
LEMMA FailWithin ==
  ASSUME SingleGeneration, IInv, IInv', LInv, NEW what, Fail(what)
  PROVE  LInv'
<1>1. /\ UNCHANGED <<request_states, entries, kv, finished_rsentries>> /\ deployment' = deployment
      /\ enginePc' = "failed"
  BY DEF Fail, queueVars
<1> QED BY <1>1, StaysWithin

\* A request that leaves, or stutters.
LEMMA DropWithin ==
  ASSUME SingleGeneration, IInv, IInv', LInv, NEW r \in request_states, DropRequest(r),
         enginePc \notin {"select", "finish", "failed"}
  PROVE  LInv'
<1>1. /\ deployment' = deployment /\ request_states' = request_states \ {r} /\ enginePc' = enginePc
      /\ entries' = [entries EXCEPT ![r] = <<>>]
      /\ kv' = kv \/ kv' = WithoutSequences(AliveIds(r))
  BY DEF DropRequest
<1>2. Dwindles
  <2>1. \A s \in request_states : s \in DOMAIN entries
    BY DEF IInv, Shape, TypeOK, QueuesOK, EntriesOK, Trees
  <2>2. \A s \in request_states' : Only(s)' = Only(s)
    BY <1>1, <2>1 DEF Only
  <2>3. DOMAIN kv' \subseteq DOMAIN kv /\ \A k \in DOMAIN kv' : kv'[k] = kv[k]
    BY <1>1 DEF WithoutSequences
  <2> QED BY <1>1, <2>2, <2>3 DEF Dwindles
<1> QED BY <1>1, <1>2, DwindlesWithin DEF LInv, Reserved

\* A preempted request.
LEMMA PreemptWithin ==
  ASSUME SingleGeneration, IInv, IInv', LInv, running_queue # <<>>, NEW r, r = Last(running_queue),
         PreemptEntry(r, 1), enginePc \notin {"select", "finish", "failed"}
  PROVE  LInv'
<1>1. /\ deployment' = deployment /\ request_states' = request_states /\ enginePc' = enginePc
      /\ kv' = WithoutSequences({entries[r][1].id})
  BY DEF PreemptEntry
<1>2. Shape /\ Core /\ Core' /\ TypeOK
  BY DEF IInv, Shape
<1>3. \A s \in request_states : IF s = r THEN Only(s)'.status = "kPending" ELSE Only(s)' = Only(s)
  BY <1>2, PreemptCore
<1>4. r \in request_states /\ r \in Requests /\ r \in DOMAIN entries /\ 1 \in DOMAIN entries[r] /\ Only(r) \in EntryType
  <2>1. running_queue \in Seq(Requests) /\ ToSet(running_queue) \subseteq request_states
    BY <1>2 DEF TypeOK, QueuesOK
  <2>2. r \in request_states
    BY <2>1, FrontFacts
  <2> QED BY <1>2, <2>2, OnlyFacts DEF TypeOK, EntriesOK, Trees
<1>5. Only(r)'.committed = Only(r).committed /\ Only(r)'.num_tokens_for_next_decode = 0
  <2>1. PICK id, inputs : entries' = [entries EXCEPT ![r][1] =
           [@ EXCEPT !.status = "kPending", !.id = id, !.inputs = inputs, !.num_tokens_for_next_decode = 0]]
    BY DEF PreemptEntry
  <2>2. PICK e \in EntryType : e = Only(r)
    BY <1>4
  <2>3. Only(r)' = [e EXCEPT !.status = "kPending", !.id = id, !.inputs = inputs, !.num_tokens_for_next_decode = 0]
    BY <1>4, <2>1, <2>2 DEF Only
  <2> QED BY <2>2, <2>3 DEF EntryType
<1>6. Dwindles
  <2>1. DOMAIN kv' \subseteq DOMAIN kv /\ \A k \in DOMAIN kv' : kv'[k] = kv[k]
    BY <1>1 DEF WithoutSequences
  <2> QED BY <1>1, <1>3, <1>5, <2>1 DEF Dwindles
<1> QED BY <1>1, <1>6, DwindlesWithin DEF LInv, Reserved


\* A table of the KV cache grows by no more pages than its new tokens need.
LEMMA RoomUsed ==
  ASSUME SingleGeneration, IInv, IInv', deployment' = deployment,
         NEW K, IsFiniteSet(K), NEW key, NEW c, \A k \in K : c[k] \in Nat,
         \A j, k \in K : key[j] = key[k] => j = k,
         DOMAIN kv \subseteq DOMAIN kv',
         \A s \in DOMAIN kv' :
           \/ s \in DOMAIN kv /\ kv'[s] = kv[s]
           \/ \E k \in K : key[k] = s /\ Pages(kv'[s]) <= (IF s \in DOMAIN kv THEN Pages(kv[s]) ELSE 0) + c[k]
  PROVE  /\ GetNumAvailablePages \in Int /\ GetNumAvailablePages' \in Int
         /\ SumFunctionOnSet(c, K) \in Nat
         /\ GetNumAvailablePages' >= GetNumAvailablePages - SumFunctionOnSet(c, K)
<1> DEFINE f == [s \in DOMAIN kv |-> Pages(kv[s])]
           g == [s \in DOMAIN kv' |-> Pages(kv'[s])]
<1>1. FiniteCache /\ FiniteCache' /\ deployment \in Deployments
  BY CacheIsFinite, DecodersRunNext DEF IInv, Shape, TypeOK
<1>2. NumPages' = NumPages /\ PageSize' = PageSize /\ NumPages \in Nat
  BY <1>1, LimitsFixed, LimitFacts
<1>3. GetNumAvailablePages' = NumPages - SumFunctionOnSet(g, DOMAIN kv')
  <2>1. [s \in DOMAIN kv' |-> Pages(kv[s])'] = g
    BY <1>2 DEF Pages
  <2> QED BY <1>1, <1>2, <2>1 DEF FiniteCache
<1>4. GetNumAvailablePages = NumPages - SumFunctionOnSet(f, DOMAIN kv)
  BY <1>1 DEF FiniteCache
<1>5. \A s \in DOMAIN kv : f[s] \in Nat
  BY <1>1 DEF FiniteCache
<1>6. \A s \in DOMAIN kv' : g[s] \in Nat
  <2>1. \A s \in DOMAIN kv' : kv'[s] \in Nat
    BY <1>1 DEF FiniteCache
  <2> QED BY <1>1, <2>1, PagesFacts
<1>7. \A s \in DOMAIN kv' :
        \/ s \in DOMAIN kv /\ g[s] <= f[s]
        \/ \E k \in K : key[k] = s /\ g[s] <= (IF s \in DOMAIN kv THEN f[s] ELSE 0) + c[k]
  <2> SUFFICES ASSUME NEW s \in DOMAIN kv'
               PROVE  \/ s \in DOMAIN kv /\ g[s] <= f[s]
                      \/ \E k \in K : key[k] = s /\ g[s] <= (IF s \in DOMAIN kv THEN f[s] ELSE 0) + c[k]
    OBVIOUS
  <2>1. g[s] = Pages(kv'[s]) /\ (s \in DOMAIN kv => f[s] = Pages(kv[s]))
    OBVIOUS
  <2>2. CASE s \in DOMAIN kv /\ kv'[s] = kv[s]
    <3>1. g[s] = f[s]
      BY <2>1, <2>2
    <3> QED BY <1>5, <2>2, <3>1
  <2> HIDE DEF f, g
  <2>3. CASE \E k \in K : key[k] = s /\ Pages(kv'[s]) <= (IF s \in DOMAIN kv THEN Pages(kv[s]) ELSE 0) + c[k]
    BY <2>1, <2>3
  <2> QED BY <2>2, <2>3
<1> HIDE DEF f, g
<1>8. IsFiniteSet(DOMAIN kv) /\ IsFiniteSet(DOMAIN kv')
  BY <1>1 DEF FiniteCache
<1>9. SumFunctionOnSet(g, DOMAIN kv') <= SumFunctionOnSet(f, DOMAIN kv) + SumFunctionOnSet(c, K)
  BY <1>5, <1>6, <1>7, <1>8, SumGrows
<1>10. /\ SumFunctionOnSet(f, DOMAIN kv) \in Nat /\ SumFunctionOnSet(g, DOMAIN kv') \in Nat
       /\ SumFunctionOnSet(c, K) \in Nat
  BY <1>5, <1>6, <1>8, SumNat
<1> QED BY <1>2, <1>3, <1>4, <1>9, <1>10

\* The elements of a sequence are no more than its length.
LEMMA ToSetCardinality ==
  ASSUME NEW A, NEW s \in Seq(A)
  PROVE  IsFiniteSet(ToSet(s)) /\ Cardinality(ToSet(s)) \in Nat /\ Cardinality(ToSet(s)) <= Len(s)
<1>1. PICK n \in Nat : n = Len(s) /\ DOMAIN s = 1..n
  OBVIOUS
<1>2. s \in [1..n -> ToSet(s)] /\ \A x \in ToSet(s) : \E i \in 1..n : s[i] = x
  BY <1>1 DEF ToSet
<1>3. s \in Surjection(1..n, ToSet(s))
  BY <1>2 DEF Surjection
<1>4. IsFiniteSet(1..n) /\ Cardinality(1..n) = n
  BY FS_Interval
<1>5. IsFiniteSet(ToSet(s)) /\ Cardinality(ToSet(s)) <= n
  BY <1>3, <1>4, FS_Surjection
<1> QED BY <1>1, <1>5, FS_CardinalityType

\* A decode stays within the limits.
LEMMA DecodeWithin ==
  ASSUME SingleGeneration, IInv, IInv', LInv, enginePc = "decode", CanDecode, BatchIsSound, Decode
  PROVE  LInv'
<1>1. Shape /\ Core /\ StillDecodes /\ TypeOK /\ StepOK /\ deployment \in Deployments
  BY DEF IInv, Shape, TypeOK
<1>2. UNCHANGED request_states /\ deployment' = deployment
  BY DEF Decode, queueVars
<1>3. /\ MaxTokens' = MaxTokens /\ MaxSingle' = MaxSingle /\ PromptTokens' = PromptTokens
      /\ BatchLimit' = BatchLimit /\ Pairs' = Pairs
      /\ MaxTokens \in Nat /\ MaxSingle \in Nat /\ BatchLimit \in Nat
  BY <1>1, <1>2, LimitsFixed, DeploymentFixed, LimitFacts
<1>4. enginePc' \in {"idle", "finish"}
  BY <1>1, DecodedEntries
<1>5. \A x \in DecodeBatch :
        /\ x = <<x[1], 1>> /\ x[1] \in request_states /\ Entry(x) = Only(x[1])
        /\ Only(x[1]).status = "kAlive" /\ Only(x[1]).inputs = 0
  BY <1>1, DecodedEntries
<1>6. ASSUME NEW s \in request_states
      PROVE  /\ Only(s)'.id = Only(s).id /\ Only(s)'.status = Only(s).status
             /\ Only(s)'.inputs = Only(s).inputs
             /\ IF <<s, 1>> \in DecodeBatch
                  THEN /\ Only(s)'.committed = Only(s).committed + 1
                       /\ Only(s)'.num_tokens_for_next_decode = 1
                  ELSE /\ Only(s)'.committed = Only(s).committed
                       /\ Only(s)'.num_tokens_for_next_decode = Only(s).num_tokens_for_next_decode
             /\ Only(s)'.committed # Only(s).committed /\ ReachesLength(s, Only(s)') =>
                  <<s, 1>> \in ToSet(finished_rsentries') /\ enginePc' = "finish"
  BY <1>1, DecodedEntries
<1>7. Lengths'
  <2> SUFFICES ASSUME NEW s \in request_states PROVE Short(s)' \/ (Only(s)'.committed <= MaxTokens /\ Finishing(s)')
    BY <1>2, <1>3 DEF Lengths
  <2>1. Short(s)
    BY DEF LInv, Lengths, Finishing
  <2>2. PICK c \in Nat, d \in Nat : c = Only(s).committed /\ d = PromptTokens[s]
    BY <1>1, OnlyFacts, SingleFacts DEF EntryType
  <2>3. CASE <<s, 1>> \in DecodeBatch
    <3>1. Only(s)'.committed = c + 1 /\ c < MaxTokens
      BY <1>6, <2>1, <2>2, <2>3 DEF Short
    <3>2. CASE ReachesLength(s, Only(s)')
      BY <1>3, <1>6, <2>2, <3>1, <3>2 DEF Finishing
    <3>3. CASE ~ReachesLength(s, Only(s)')
      BY <1>3, <2>2, <3>1, <3>3 DEF ReachesLength, Short
    <3> QED BY <3>2, <3>3
  <2>4. CASE <<s, 1>> \notin DecodeBatch
    BY <1>3, <1>6, <2>1, <2>4 DEF Short
  <2> QED BY <2>3, <2>4
<1>8. OneEach'
  <2> SUFFICES ASSUME NEW s \in request_states
               PROVE  Only(s)'.num_tokens_for_next_decode = IF Decodes(s)' THEN 1 ELSE 0
    BY <1>2 DEF OneEach
  <2>1. Only(s).num_tokens_for_next_decode = IF Decodes(s) THEN 1 ELSE 0
    BY DEF LInv, OneEach
  <2>2. Decodes(s)' <=> Decodes(s)
    BY <1>6 DEF Decodes
  <2>3. CASE <<s, 1>> \in DecodeBatch
    <3>1. Decodes(s)
      <4>1. <<s, 1>>[1] = s
        OBVIOUS
      <4> QED BY <1>5, <2>3, <4>1 DEF Decodes
    <3> QED BY <1>6, <2>2, <2>3, <3>1
  <2>4. CASE <<s, 1>> \notin DecodeBatch
    BY <1>6, <2>1, <2>2, <2>4
  <2> QED BY <2>3, <2>4
<1>9. FewRunning'
  <2>1. RunningDecoders /\ RunningDecoders'
    BY DecodersRun, DecodersRunNext
  <2>2. ComputeRunning \in Seq(Pairs) /\ ComputeRunning' \in Seq(Pairs) /\ Distinct(ComputeRunning')
    BY <1>3, <2>1 DEF RunningDecoders
  <2>3. ASSUME NEW x \in ToSet(ComputeRunning') PROVE x \in ToSet(ComputeRunning)
    <3>1. PICK s \in request_states : x = <<s, 1>> /\ Decodes(s)'
      BY <1>2, <2>1 DEF RunningDecoders
    <3>2. Decodes(s)
      BY <1>6, <3>1 DEF Decodes
    <3> QED BY <2>1, <3>1, <3>2 DEF RunningDecoders
  <2>4. Len(ComputeRunning') <= Len(ComputeRunning)
    BY <2>2, <2>3, NotLonger
  <2>5. Len(ComputeRunning) <= BatchLimit
    BY DEF LInv, FewRunning
  <2>6. Len(ComputeRunning) \in Nat /\ Len(ComputeRunning') \in Nat
    BY <2>2
  <2> QED BY <1>3, <2>4, <2>5, <2>6 DEF FewRunning
<1>10. Room'
  <2> DEFINE K == DecodeBatch
             key == [x \in K |-> Entry(x).id]
             c == [x \in K |-> 1]
  <2>1. running_rsentries \in Seq(Pairs) /\ K \subseteq ToSet(running_rsentries)
    BY <1>1 DEF StepOK, DecodeBatch, ToSet
  <2>2. IsFiniteSet(K) /\ Cardinality(K) \in Nat /\ Cardinality(K) <= Len(running_rsentries) /\ Len(running_rsentries) \in Nat
    <3>1. /\ IsFiniteSet(ToSet(running_rsentries)) /\ Cardinality(ToSet(running_rsentries)) \in Nat
          /\ Cardinality(ToSet(running_rsentries)) <= Len(running_rsentries)
      BY <2>1, ToSetCardinality
    <3>2. IsFiniteSet(K) /\ Cardinality(K) <= Cardinality(ToSet(running_rsentries))
      BY <2>1, <3>1, FS_Subset
    <3> QED BY <2>1, <3>1, <3>2, FS_CardinalityType
  <2>3. \A x \in K : c[x] \in Nat /\ c[x] \in {0, 1} /\ key[x] = Only(x[1]).id
    BY <1>5
  <2>4. \A x, y \in K : key[x] = key[y] => x = y
    <3> SUFFICES ASSUME NEW x \in K, NEW y \in K, key[x] = key[y] PROVE x = y
      OBVIOUS
    <3>1. x[1] = y[1]
      <4>1. Only(x[1]).id = Only(y[1]).id
        BY <2>3
      <4> QED BY <1>1, <1>5, <4>1 DEF Core, IdsApart
    <3>2. x = <<x[1], 1>> /\ y = <<y[1], 1>>
      BY <1>5
    <3> QED BY <3>1, <3>2
  <2>5. DOMAIN kv' = DOMAIN kv
    BY <1>1, DecodedCache
  <2>6. ASSUME NEW k \in DOMAIN kv'
        PROVE  \/ k \in DOMAIN kv /\ kv'[k] = kv[k]
               \/ \E x \in K : key[x] = k /\ Pages(kv'[k]) <= (IF k \in DOMAIN kv THEN Pages(kv[k]) ELSE 0) + c[x]
    <3>1. PICK s \in request_states : Only(s).status = "kAlive" /\ k = Only(s).id
      BY <1>1, <2>5, <2>6 DEF Core, InCache
    <3>2. kv'[k] = kv[k] + (IF <<s, 1>> \in DecodeBatch THEN Only(s).num_tokens_for_next_decode ELSE 0)
      BY <1>1, <3>1, DecodedCache
    <3>3. kv[k] \in Nat
      BY <1>1, <2>5 DEF StepOK
    <3>4. CASE <<s, 1>> \in K
      <4>1. <<s, 1>>[1] = s
        OBVIOUS
      <4>2. Decodes(s) /\ key[<<s, 1>>] = k /\ c[<<s, 1>>] = 1
        BY <1>5, <2>3, <3>1, <3>4, <4>1 DEF Decodes
      <4>3. kv'[k] = kv[k] + 1
        BY <3>2, <3>4, <4>2 DEF LInv, OneEach
      <4>4. Pages(kv[k] + 1) <= Pages(kv[k]) + 1
        <5>1. /\ Pages(kv[k] + 1) <= Pages(kv[k]) + Pages(1) /\ Pages(1) = 1
          BY <1>1, <3>3, PagesAdd
        <5> QED BY <5>1
      <4> HIDE DEF key, c
      <4> QED BY <2>5, <3>4, <4>2, <4>3, <4>4
    <3>5. CASE <<s, 1>> \notin K
      BY <2>5, <3>2, <3>3, <3>5
    <3> QED BY <3>4, <3>5
  <2> HIDE DEF K, key, c
  <2>7. /\ GetNumAvailablePages \in Int /\ GetNumAvailablePages' \in Int /\ SumFunctionOnSet(c, K) \in Nat
        /\ GetNumAvailablePages' >= GetNumAvailablePages - SumFunctionOnSet(c, K)
    BY <1>2, <2>2, <2>3, <2>4, <2>5, <2>6, RoomUsed
  <2>8. SumFunctionOnSet(c, K) <= Cardinality(K)
    BY <2>2, <2>3, SumOfOnes
  <2>9. Len(running_rsentries) <= GetNumAvailablePages
    BY DEF CanDecode
  <2>10. SumFunctionOnSet(c, K) <= GetNumAvailablePages
    BY <2>2, <2>7, <2>8, <2>9
  <2> QED BY <2>7, <2>10 DEF Room
<1> QED BY <1>4, <1>7, <1>8, <1>9, <1>10 DEF LInv, Reserved


\* The pages of the inputs are a number, and grow with each input.
LEMMA PagesOfFacts ==
  ASSUME deployment \in Deployments, NEW s \in Seq(InputType)
  PROVE  /\ PagesOf(s) \in Nat
         /\ PagesOf(s) = SumFunctionOnSet([q \in 1..Len(s) |-> Pages(s[q].len)], 1..Len(s))
         /\ \A p \in InputType : PagesOf(Append(s, p)) = PagesOf(s) + Pages(p.len)
<1>1. PICK n \in Nat : n = Len(s) /\ DOMAIN s = 1..n
  OBVIOUS
<1> DEFINE f == [q \in 1..n |-> Pages(s[q].len)]
<1>2. \A q \in 1..n : s[q].len \in Nat /\ f[q] \in Nat /\ f[q] = Pages(s[q].len)
  <2>1. \A q \in 1..n : s[q] \in InputType
    BY <1>1
  <2>2. \A q \in 1..n : s[q].len \in Nat
    BY <2>1 DEF InputType
  <2> QED BY <2>2, PagesFacts
<1>3. PagesOf(s) = SumFunctionOnSet(f, 1..n)
  <2>1. DOMAIN f = 1..n
    OBVIOUS
  <2> QED BY <1>1, <2>1 DEF PagesOf, SumFunction
<1>4. IsFiniteSet(1..n)
  BY FS_Interval
<1>5. PagesOf(s) \in Nat
  <2> HIDE DEF f
  <2> QED BY <1>2, <1>3, <1>4, SumNat
<1>6. ASSUME NEW p \in InputType PROVE PagesOf(Append(s, p)) = PagesOf(s) + Pages(p.len)
  <2> DEFINE t == Append(s, p)
             g == [q \in 1..(n + 1) |-> Pages(t[q].len)]
  <2>1. /\ DOMAIN t = 1..(n + 1) /\ t[n + 1] = p /\ \A q \in 1..n : t[q] = s[q]
    BY <1>1
  <2> HIDE DEF t
  <2>2. DOMAIN g = 1..(n + 1)
    OBVIOUS
  <2>3. PagesOf(t) = SumFunctionOnSet(g, 1..(n + 1))
    BY <2>1, <2>2 DEF PagesOf, SumFunction
  <2>4. p.len \in Nat /\ Pages(p.len) \in Nat
    BY PagesFacts DEF InputType
  <2>5. g[n + 1] = Pages(p.len) /\ \A q \in 1..n : g[q] = f[q]
    <3>1. n + 1 \in 1..(n + 1) /\ \A q \in 1..n : q \in 1..(n + 1)
      OBVIOUS
    <3> QED BY <1>2, <2>1, <3>1
  <2> HIDE DEF f, g
  <2>6. \A q \in 1..(n + 1) : g[q] \in Nat
    <3> TAKE q \in 1..(n + 1)
    <3>1. q \in 1..n \/ q = n + 1
      OBVIOUS
    <3> QED BY <1>2, <2>4, <2>5, <3>1
  <2>7. IsFiniteSet(1..(n + 1)) /\ n + 1 \in 1..(n + 1) /\ (1..(n + 1)) \ {n + 1} = 1..n
    BY FS_Interval
  <2>8. SumFunctionOnSet(g, 1..(n + 1)) = g[n + 1] + SumFunctionOnSet(g, (1..(n + 1)) \ {n + 1})
    <3>1. PICK S, m : S = 1..(n + 1) /\ m = n + 1
      OBVIOUS
    <3>2. IsFiniteSet(S) /\ m \in S /\ \A q \in S : g[q] \in Nat
      BY <2>6, <2>7, <3>1
    <3>3. SumFunctionOnSet(g, S) = g[m] + SumFunctionOnSet(g, S \ {m})
      BY <3>2, SumPick
    <3> QED BY <3>1, <3>3
  <2>9. SumFunctionOnSet(g, 1..n) = SumFunctionOnSet(f, 1..n)
    BY <1>4, <2>5, SumAgree
  <2>10. PagesOf(t) = Pages(p.len) + PagesOf(s)
    BY <1>3, <2>3, <2>5, <2>7, <2>8, <2>9
  <2> QED BY <1>5, <2>4, <2>10 DEF t
<1> QED BY <1>1, <1>3, <1>5, <1>6

\* While entries are selected the cached list has the running entries.
LEMMA CachedRunning ==
  ASSUME SingleGeneration, IInv, enginePc = "select"
  PROVE  cached_running_rsentries_ = ComputeRunning /\ Len(cached_running_rsentries_) \in Nat
BY DecodersRun DEF IInv, Shape, TypeOK, StepOK, Selected, CacheIsFresh, RunningDecoders

\* A step of the selection changes only the selection.
LEMMA SelectionWithin ==
  ASSUME SingleGeneration, IInv, IInv', LInv, enginePc = "select",
         UNCHANGED <<queueVars, entries, idVars, cacheVars, kv, enginePc, running_rsentries,
                     finished_rsentries, fault, usage, submitted, deployment>>
  PROVE  /\ Lengths' /\ OneEach' /\ FewRunning' /\ Room'
         /\ GetNumAvailablePages' = GetNumAvailablePages /\ BatchLimit' = BatchLimit
         /\ cached_running_rsentries_' = cached_running_rsentries_
         /\ enginePc' = "select"
         /\ \A s : PagesOf(s)' = PagesOf(s)
<1>1. /\ UNCHANGED <<request_states, entries, kv>> /\ deployment' = deployment
      /\ enginePc' = "select" /\ cached_running_rsentries_' = cached_running_rsentries_
  BY DEF queueVars, cacheVars
<1>2. Lengths' /\ OneEach' /\ FewRunning' /\ Room'
  BY <1>1, KeepsAll, DwindlesWithin
<1>3. PageSize' = PageSize /\ NumPages' = NumPages /\ BatchLimit' = BatchLimit
  BY <1>1, LimitsFixed
<1>4. GetNumAvailablePages' = GetNumAvailablePages
  BY <1>1, <1>3 DEF GetNumAvailablePages, Pages
<1>5. \A s : PagesOf(s)' = PagesOf(s)
  BY <1>3 DEF PagesOf, Pages
<1> QED BY <1>1, <1>2, <1>3, <1>4, <1>5

\* What fits is reserved.
LEMMA FitsReserved ==
  ASSUME SingleGeneration, IInv, LInv, enginePc = "select", prefill.todo # <<>>,
         NEW x \in AllEntries, NEW len \in 1..Entry(x).inputs, NEW k \in Nat, NEW p, NEW total,
         p = PrefillInput(x, len, k, FALSE),
         CanPrefill(prefill.num + 1, total, prefill.pages + Pages(len))
  PROVE  LET chosen == Append(prefill.chosen, p)
             running == Len(cached_running_rsentries_)
         IN  /\ prefill.num + 1 = Len(chosen)
             /\ prefill.pages + Pages(len) = running + PagesOf(chosen)
             /\ running + Len(chosen) <= BatchLimit
             /\ running + PagesOf(chosen) <= GetNumAvailablePages
<1> DEFINE chosen == Append(prefill.chosen, p)
           running == Len(cached_running_rsentries_)
<1>1. /\ deployment \in Deployments /\ Shape /\ prefill.chosen \in Seq(InputType) /\ EntriesOK
  BY DEF IInv, Shape, TypeOK, StepOK, PrefillType
<1>2. prefill.num = Len(prefill.chosen) /\ prefill.pages = running + PagesOf(prefill.chosen)
  BY DEF LInv, Reserved
<1>3. running \in Nat /\ GetNumAvailablePages \in Int
  BY CachedRunning, CacheIsFinite DEF FiniteCache
<1>4. x \in Pairs /\ Entry(x) \in EntryType
  BY <1>1, AllEntriesFacts
<1>5. len \in Nat /\ p \in InputType /\ p.len = len
  BY <1>4 DEF EntryType, PrefillInput, InputType
<1>6. Len(chosen) = Len(prefill.chosen) + 1 /\ Len(prefill.chosen) \in Nat
  BY <1>1, <1>5
<1>7. PagesOf(chosen) = PagesOf(prefill.chosen) + Pages(len) /\ PagesOf(prefill.chosen) \in Nat /\ Pages(len) \in Nat
  BY <1>1, <1>5, PagesOfFacts, PagesFacts
<1>8. /\ running + (prefill.num + 1) <= BatchLimit
      /\ prefill.pages + Pages(len) + (running + (prefill.num + 1)) <= GetNumAvailablePages
  BY DEF CanPrefill, HasPrefillSpace
<1> HIDE DEF chosen, running
<1>9. PICK a \in Nat, b \in Nat, c \in Nat, d \in Nat, e \in Int :
        /\ a = running /\ b = Len(prefill.chosen) /\ c = PagesOf(prefill.chosen) /\ d = Pages(len)
        /\ e = GetNumAvailablePages
  BY <1>3, <1>6, <1>7
<1>10. a + (b + 1) <= BatchLimit /\ ((a + c) + d) + (a + (b + 1)) <= e
  BY <1>2, <1>8, <1>9
<1>11. prefill.num + 1 = Len(chosen) /\ prefill.pages + Pages(len) = running + PagesOf(chosen)
  BY <1>2, <1>6, <1>7, <1>9
<1>12. running + Len(chosen) <= BatchLimit
  BY <1>6, <1>9, <1>10
<1>13. running + PagesOf(chosen) <= GetNumAvailablePages
  <2>1. a + (c + d) <= e
    BY <1>10
  <2> QED BY <1>7, <1>9, <2>1
<1> QED BY <1>11, <1>12, <1>13 DEF chosen, running

\* With one generation an entry has no children, and fits alone.
LEMMA FittingSingle ==
  ASSUME SingleGeneration, Shape, NEW x \in AllEntries
  PROVE  /\ Fitting(x) \subseteq {0}
         /\ Fitting(x) # {} => Max(Fitting(x)) = 0
         /\ Fitting(x) # {} <=> CanPrefill(prefill.num + 1, prefill.totalInput + Entry(x).inputs,
                                           prefill.pages + Pages(Entry(x).inputs))
<1>1. deployment \in Deployments /\ EntriesOK /\ prefill.num \in Nat
  BY DEF Shape, TypeOK, StepOK, PrefillType
<1>2. x[1] \in Requests
  BY <1>1, AllEntriesFacts
<1>3. NumChildren(x[1], x[2]) = 0
  <2>1. N[x[1]] = 1
    BY <1>1, <1>2 DEF SingleGeneration, N, Requests
  <2> QED BY <2>1 DEF NumChildren
<1>4. 0..0 = {0} /\ prefill.num + 1 + 0 = prefill.num + 1
  BY <1>1
<1>5. Fitting(x) = {k \in {0} : CanPrefill(prefill.num + 1 + k, prefill.totalInput + Entry(x).inputs,
                                            prefill.pages + Pages(Entry(x).inputs))}
  BY <1>3, <1>4 DEF Fitting
<1>6. Fitting(x) \subseteq {0} /\ (Fitting(x) # {} <=> 0 \in Fitting(x))
  BY <1>5
<1>7. 0 \in Fitting(x) <=> CanPrefill(prefill.num + 1, prefill.totalInput + Entry(x).inputs,
                                      prefill.pages + Pages(Entry(x).inputs))
  BY <1>4, <1>5
<1>8. Fitting(x) # {} => Max(Fitting(x)) = 0
  <2> HAVE Fitting(x) # {}
  <2>1. Fitting(x) \in SUBSET (0..0)
    BY <1>4, <1>6
  <2>2. Max(Fitting(x)) \in Fitting(x)
    BY <2>1, MaxFacts
  <2> QED BY <1>6, <2>2
<1> QED BY <1>6, <1>7, <1>8

\* The selection begins with nothing chosen.
LEMMA BeginPrefillWithin ==
  ASSUME SingleGeneration, IInv, IInv', LInv, BeginPrefill
  PROVE  LInv'
<1>1. /\ UNCHANGED <<request_states, entries, kv>> /\ deployment' = deployment /\ enginePc = "idle"
      /\ cached_running_rsentries_' = GetRunningRequestStateEntries
  BY DEF BeginPrefill, queueVars, RefreshRunning
<1>2. prefill'.chosen = <<>> /\ prefill'.num = 0 /\ prefill'.pages = Len(GetRunningRequestStateEntries)
  BY DEF BeginPrefill, NoSelection
<1>3. Lengths' /\ OneEach' /\ FewRunning' /\ Room'
  BY <1>1, KeepsAll, DwindlesWithin
<1>4. PagesOf(prefill.chosen)' = 0
  <2>1. DOMAIN <<>> = {} /\ IsFiniteSet({})
    BY FS_EmptySet
  <2>2. PICK f : f = [q \in {} |-> Pages(<<>>[q].len)']
    OBVIOUS
  <2>3. DOMAIN f = {}
    BY <2>2
  <2>4. PagesOf(<<>>)' = SumFunctionOnSet(f, {})
    BY <2>1, <2>2, <2>3 DEF PagesOf, SumFunction
  <2>5. SumFunctionOnSet(f, {}) = 0
    BY <2>1, SumStep
  <2> QED BY <1>2, <2>4, <2>5
<1>5. Len(cached_running_rsentries_') \in Nat
  BY DEF IInv, Shape, TypeOK, StepOK
<1>6. Len(prefill'.chosen) = 0
  BY <1>2
<1>7. Reserved'
  BY <1>1, <1>2, <1>4, <1>5, <1>6 DEF Reserved
<1> QED BY <1>3, <1>7 DEF LInv

\* A whole entry is taken if it fits.
LEMMA TakeWholeWithin ==
  ASSUME SingleGeneration, IInv, IInv', LInv, TakeWhole
  PROVE  LInv'
<1> DEFINE x == Head(prefill.todo)
           p == PrefillInput(x, Entry(x).inputs, Max(Fitting(x)), FALSE)
<1>1. /\ UNCHANGED <<queueVars, entries, idVars, cacheVars, kv, enginePc, running_rsentries,
                     finished_rsentries, fault, usage, submitted, deployment>>
      /\ enginePc = "select" /\ prefill.todo # <<>> /\ Fitting(x) # {}
  BY DEF TakeWhole
<1>2. prefill' = [todo |-> Tail(prefill.todo), chosen |-> Append(prefill.chosen, p),
                  totalInput |-> prefill.totalInput + Entry(x).inputs,
                  pages |-> prefill.pages + Pages(Entry(x).inputs), num |-> prefill.num + 1 + Max(Fitting(x))]
  BY DEF TakeWhole
<1>3. Shape
  BY DEF IInv
<1>4. x \in AllEntries /\ Entry(x).inputs \in Nat /\ Entry(x).inputs > 0
  BY <1>1, <1>3, HeadFacts
<1> HIDE DEF x
<1>5. /\ Max(Fitting(x)) = 0
      /\ CanPrefill(prefill.num + 1, prefill.totalInput + Entry(x).inputs,
                    prefill.pages + Pages(Entry(x).inputs))
  BY <1>1, <1>3, <1>4, FittingSingle
<1>6. prefill.num \in Nat /\ Entry(x).inputs \in 1..Entry(x).inputs /\ 0 \in Nat
  BY <1>3, <1>4 DEF Shape, TypeOK, StepOK, PrefillType
<1>7. PICK total : total = prefill.totalInput + Entry(x).inputs
  OBVIOUS
<1>7a. PICK len \in 1..Entry(x).inputs : len = Entry(x).inputs
  BY <1>6
<1>7b. p = PrefillInput(x, len, 0, FALSE) /\ CanPrefill(prefill.num + 1, total, prefill.pages + Pages(len))
  BY <1>5, <1>7, <1>7a
<1> HIDE DEF p
<1>8. /\ prefill.num + 1 = Len(Append(prefill.chosen, p))
      /\ prefill.pages + Pages(len) = Len(cached_running_rsentries_) + PagesOf(Append(prefill.chosen, p))
      /\ Len(cached_running_rsentries_) + Len(Append(prefill.chosen, p)) <= BatchLimit
      /\ Len(cached_running_rsentries_) + PagesOf(Append(prefill.chosen, p)) <= GetNumAvailablePages
  BY <1>1, <1>4, <1>6, <1>7a, <1>7b, FitsReserved
<1>9. /\ prefill'.chosen = Append(prefill.chosen, p)
      /\ prefill'.num = prefill.num + 1 /\ prefill'.pages = prefill.pages + Pages(len)
  BY <1>2, <1>5, <1>6, <1>7a
<1>10. /\ Lengths' /\ OneEach' /\ FewRunning' /\ Room'
       /\ GetNumAvailablePages' = GetNumAvailablePages /\ BatchLimit' = BatchLimit
       /\ cached_running_rsentries_' = cached_running_rsentries_
       /\ \A s : PagesOf(s)' = PagesOf(s)
  BY <1>1, SelectionWithin
<1>11. PagesOf(prefill.chosen)' = PagesOf(Append(prefill.chosen, p))
  <2>1. PagesOf(prefill.chosen)' = PagesOf(prefill'.chosen)
    BY <1>10
  <2> QED BY <1>9, <2>1
<1>12. Reserved'
  BY <1>8, <1>9, <1>10, <1>11 DEF Reserved
<1> QED BY <1>10, <1>12 DEF LInv


\* A part of an entry is taken if it fits.
LEMMA TakeChunkWithin ==
  ASSUME SingleGeneration, IInv, IInv', LInv, TakeChunkAndStop
  PROVE  LInv'
<1> DEFINE x == Head(prefill.todo)
           room == ChunkSize - prefill.totalInput
           p == PrefillInput(x, room, 0, FALSE)
           taken == /\ 0 < room /\ room < Entry(x).inputs
                    /\ CanPrefill(prefill.num + 1, ChunkSize, prefill.pages + Pages(room))
<1>1. /\ UNCHANGED <<queueVars, entries, idVars, cacheVars, kv, enginePc, running_rsentries,
                     finished_rsentries, fault, usage, submitted, deployment>>
      /\ enginePc = "select" /\ prefill.todo # <<>>
  BY DEF TakeChunkAndStop
<1>2. PICK sel \in PrefillType : sel = prefill
  BY DEF IInv, Shape, TypeOK, StepOK
<1>3. /\ prefill'.todo = <<>>
      /\ prefill'.chosen = IF taken THEN Append(prefill.chosen, p) ELSE prefill.chosen
  <2>1. prefill' = [prefill EXCEPT !.todo = <<>>, !.chosen = IF taken THEN Append(@, p) ELSE @]
    BY DEF TakeChunkAndStop
  <2> HIDE DEF p, taken
  <2>2. prefill' = [sel EXCEPT !.todo = <<>>, !.chosen = IF taken THEN Append(sel.chosen, p) ELSE sel.chosen]
    BY <1>2, <2>1
  <2>3. /\ prefill'.todo = <<>>
        /\ prefill'.chosen = IF taken THEN Append(sel.chosen, p) ELSE sel.chosen
    BY <2>2 DEF PrefillType
  <2> QED BY <1>2, <2>3
<1>4. Shape /\ deployment \in Deployments
  BY DEF IInv, Shape, TypeOK
<1>5. x \in AllEntries /\ Entry(x).inputs \in Nat /\ Entry(x).inputs > 0
  BY <1>1, <1>4, HeadFacts
<1> HIDE DEF x
<1>6. /\ Lengths' /\ OneEach' /\ FewRunning' /\ Room'
      /\ GetNumAvailablePages' = GetNumAvailablePages /\ BatchLimit' = BatchLimit
      /\ cached_running_rsentries_' = cached_running_rsentries_
      /\ \A s : PagesOf(s)' = PagesOf(s)
  BY <1>1, SelectionWithin
<1>7. PagesOf(prefill.chosen)' = PagesOf(prefill'.chosen)
  BY <1>6
<1>8. prefill'.chosen # <<>> =>
        /\ Len(cached_running_rsentries_) + Len(prefill'.chosen) <= BatchLimit
        /\ Len(cached_running_rsentries_) + PagesOf(prefill'.chosen) <= GetNumAvailablePages
  <2>1. CASE taken
    <3>1. ChunkSize \in Nat /\ prefill.totalInput \in Nat
      BY <1>2, <1>4, LimitFacts DEF PrefillType
    <3>2. PICK len \in 1..Entry(x).inputs : len = room
      BY <1>5, <2>1, <3>1
    <3>3. p = PrefillInput(x, len, 0, FALSE) /\ CanPrefill(prefill.num + 1, ChunkSize, prefill.pages + Pages(len))
      BY <2>1, <3>2
    <3>4. 0 \in Nat
      OBVIOUS
    <3> HIDE DEF p
    <3>5. /\ Len(cached_running_rsentries_) + Len(Append(prefill.chosen, p)) <= BatchLimit
          /\ Len(cached_running_rsentries_) + PagesOf(Append(prefill.chosen, p)) <= GetNumAvailablePages
      BY <1>1, <1>5, <3>3, <3>4, FitsReserved
    <3> QED BY <1>3, <2>1, <3>5
  <2>2. CASE ~taken
    BY <1>1, <1>3, <2>2 DEF LInv, Reserved
  <2> QED BY <2>1, <2>2
<1>9. Reserved'
  BY <1>3, <1>6, <1>7, <1>8 DEF Reserved
<1> QED BY <1>6, <1>9 DEF LInv

\* What is prefilled: the chosen entries, then those that decode along.
LEMMA InputPositions ==
  ASSUME SingleGeneration, IInv, enginePc = "select", NEW a, a = Len(prefill.chosen),
         NEW m, m = Len(cached_running_rsentries_), NEW n, n = Len(PrefillInputs)
  PROVE  /\ a \in Nat /\ m \in Nat /\ n \in Nat /\ DOMAIN PrefillInputs = 1..n
         /\ a <= n /\ n <= a + m
         /\ \A q \in 1..a : PrefillInputs[q] = prefill.chosen[q]
         /\ \A q \in 1..n : q > a =>
              /\ q - a \in 1..m
              /\ PrefillInputs[q] = PrefillInput(cached_running_rsentries_[q - a],
                                                NextDecode(cached_running_rsentries_[q - a]), 0, TRUE)
<1> DEFINE inputs == PrefillInputs
           chosen == prefill.chosen
           running == cached_running_rsentries_
<1>1. /\ Shape /\ deployment \in Deployments /\ TypeOK /\ chosen \in Seq(InputType)
      /\ inputs \in Seq(InputType) /\ running = ComputeRunning /\ running \in Seq(Pairs)
  BY PrefillInputsFacts, CachedRunning DEF IInv, Shape, TypeOK, StepOK, PrefillType
<1>2. a \in Nat /\ m \in Nat /\ a = Len(chosen) /\ m = Len(running)
  BY <1>1
<1>3. n \in Nat /\ n = Len(inputs) /\ DOMAIN inputs = 1..n
  BY <1>1
<1>4. /\ a <= n /\ n <= a + m
      /\ \A q \in 1..a : inputs[q] = chosen[q]
      /\ \A q \in 1..n : q > a => q - a \in 1..m /\ inputs[q] = PrefillInput(running[q - a], NextDecode(running[q - a]), 0, TRUE)
  <2> DEFINE dec == [q \in DOMAIN running |-> PrefillInput(running[q], NextDecode(running[q]), 0, TRUE)]
  <2>1. DOMAIN running = 1..m
    BY <1>1, <1>2
  <2>2. DOMAIN dec = 1..m
    BY <2>1
  <2>3. CASE Hybrid
    <3>1. inputs = chosen \o dec
      BY <2>3 DEF PrefillInputs
    <3>2. dec \in Seq({dec[q] : q \in 1..m}) /\ Len(dec) = m
      <4>1. \A q \in 1..m : dec[q] \in {dec[h] : h \in 1..m}
        OBVIOUS
      <4>2. dec = [q \in 1..m |-> dec[q]]
        BY <2>2
      <4> HIDE DEF dec
      <4>3. dec \in [1..m -> {dec[h] : h \in 1..m}]
        BY <4>1, <4>2
      <4> QED BY <4>3
    <3>3. PICK S : chosen \in Seq(S) /\ dec \in Seq(S)
      <4> DEFINE T == InputType \cup {dec[q] : q \in 1..m}
      <4> HIDE DEF dec
      <4>1. chosen \in Seq(T) /\ dec \in Seq(T)
        BY <1>1, <3>2
      <4> QED BY <4>1
    <3>4. \A q \in 1..m : dec[q] = PrefillInput(running[q], NextDecode(running[q]), 0, TRUE)
      BY <2>1
    <3> HIDE DEF dec
    <3>5. /\ DOMAIN (chosen \o dec) = 1..(a + m)
          /\ \A i \in 1..a : (chosen \o dec)[i] = chosen[i]
          /\ \A i \in 1..(a + m) : i > a => (chosen \o dec)[i] = dec[i - a] /\ i - a \in 1..m
      <4>1. PICK u, v : u = chosen /\ v = dec
        OBVIOUS
      <4>2. u \in Seq(S) /\ v \in Seq(S) /\ a = Len(u) /\ m = Len(v)
        BY <1>2, <3>2, <3>3, <4>1
      <4>3. /\ DOMAIN (u \o v) = 1..(a + m)
            /\ \A i \in 1..a : (u \o v)[i] = u[i]
            /\ \A i \in 1..(a + m) : i > a => (u \o v)[i] = v[i - a] /\ i - a \in 1..m
        BY <4>2, ConcatPositions
      <4> QED BY <4>1, <4>3
    <3> HIDE DEF inputs
    <3>6. n = a + m
      <4>1. PICK u, v : u = chosen /\ v = dec
        OBVIOUS
      <4>2. u \in Seq(S) /\ v \in Seq(S) /\ a = Len(u) /\ m = Len(v)
        BY <1>2, <3>2, <3>3, <4>1
      <4>3. Len(u \o v) = a + m
        BY <4>2
      <4> QED BY <1>3, <3>1, <4>1, <4>3
    <3>7. \A q \in 1..a : inputs[q] = chosen[q]
      BY <3>1, <3>5
    <3>8. ASSUME NEW q \in 1..n, q > a
          PROVE  q - a \in 1..m /\ inputs[q] = PrefillInput(running[q - a], NextDecode(running[q - a]), 0, TRUE)
      <4>1. inputs[q] = dec[q - a] /\ q - a \in 1..m
        BY <3>1, <3>5, <3>6, <3>8
      <4> QED BY <3>4, <4>1
    <3>9. a <= n /\ n <= a + m
      BY <3>6
    <3> QED BY <3>7, <3>8, <3>9
  <2>4. CASE ~Hybrid
    <3>1. inputs = chosen
      BY <1>1, <2>4 DEF PrefillInputs
    <3> HIDE DEF inputs
    <3>2. n = a
      BY <1>2, <1>3, <3>1
    <3>3. a <= n /\ n <= a + m /\ \A q \in 1..n : ~(q > a)
      BY <3>2
    <3> QED BY <3>1, <3>3
  <2> QED BY <2>3, <2>4
<1> QED BY <1>2, <1>3, <1>4

\* The pages of the tokens of a prefill were reserved.
LEMMA InputPages ==
  ASSUME SingleGeneration, IInv, LInv, enginePc = "select", prefill.chosen # <<>>
  PROVE  /\ PagesOf(PrefillInputs) \in Nat
         /\ PagesOf(PrefillInputs) <= GetNumAvailablePages
<1> DEFINE inputs == PrefillInputs
           chosen == prefill.chosen
           running == cached_running_rsentries_
<1>1. /\ Shape /\ deployment \in Deployments /\ TypeOK /\ chosen \in Seq(InputType)
      /\ inputs \in Seq(InputType) /\ running = ComputeRunning /\ running \in Seq(Pairs)
  BY PrefillInputsFacts, CachedRunning DEF IInv, Shape, TypeOK, StepOK, PrefillType
<1>2. PICK a \in Nat, m \in Nat : a = Len(chosen) /\ m = Len(running)
  BY <1>1
<1>3. PICK n \in Nat : n = Len(inputs) /\ DOMAIN inputs = 1..n
  BY <1>1
<1>4. /\ a <= n /\ n <= a + m
      /\ \A q \in 1..a : inputs[q] = chosen[q]
      /\ \A q \in 1..n : q > a => q - a \in 1..m /\ inputs[q] = PrefillInput(running[q - a], NextDecode(running[q - a]), 0, TRUE)
  BY <1>2, <1>3, InputPositions
<1> HIDE DEF inputs
<1> DEFINE c == [q \in 1..n |-> Pages(inputs[q].len)]
           f == [q \in 1..a |-> Pages(chosen[q].len)]
<1>5. PagesOf(inputs) = SumFunctionOnSet(c, 1..n) /\ PagesOf(inputs) \in Nat
  BY <1>1, <1>3, PagesOfFacts
<1>6. PagesOf(chosen) = SumFunctionOnSet(f, 1..a) /\ PagesOf(chosen) \in Nat
  BY <1>1, <1>2, PagesOfFacts
<1>7. \A q \in 1..n : c[q] \in Nat
  <2>1. \A q \in 1..n : inputs[q] \in InputType
    BY <1>1, <1>3
  <2>2. \A q \in 1..n : inputs[q].len \in Nat
    BY <2>1 DEF InputType
  <2> QED BY <1>1, <2>2, PagesFacts
<1>8. \A q \in 1..a : c[q] = f[q]
  <2>1. \A q \in 1..a : q \in 1..n
    BY <1>4
  <2> QED BY <1>4, <2>1
<1>9. \A q \in (a + 1)..n : c[q] \in {0, 1}
  <2> SUFFICES ASSUME NEW q \in (a + 1)..n PROVE c[q] \in {0, 1}
    OBVIOUS
  <2>1. q \in 1..n /\ q > a
    OBVIOUS
  <2>2. PICK j \in 1..m : inputs[q] = PrefillInput(running[j], NextDecode(running[j]), 0, TRUE)
    BY <1>4, <2>1
  <2>3. running[j] \in ToSet(running)
    BY <1>1, <1>2, ToSetFacts
  <2>4. PICK r \in request_states : running[j] = <<r, 1>> /\ Decodes(r)
    BY <1>1, <2>3, DecodersRun DEF RunningDecoders
  <2>5. NextDecode(running[j]) = 1
    <3>1. Entry(<<r, 1>>) = Only(r)
      BY <1>1, OnlyFacts
    <3> QED BY <2>4, <3>1 DEF NextDecode, LInv, OneEach
  <2>6. inputs[q].len = 1
    BY <2>2, <2>5 DEF PrefillInput
  <2>7. Pages(1) = 1
    BY <1>1, PagesAdd
  <2> QED BY <2>1, <2>6, <2>7
<1> HIDE DEF c, f
<1>10. IsFiniteSet(1..a) /\ IsFiniteSet((a + 1)..n) /\ Cardinality((a + 1)..n) = n - a
  <2>1. a + 1 \in Int /\ n \in Int /\ 1 \in Int /\ a \in Int
    OBVIOUS
  <2>2. /\ IsFiniteSet((a + 1)..n) /\ IsFiniteSet(1..a)
        /\ Cardinality((a + 1)..n) = IF a + 1 > n THEN 0 ELSE n - (a + 1) + 1
    BY <2>1, FS_Interval
  <2> QED BY <1>4, <2>2
<1>11. PICK S, T : S = 1..a /\ T = (a + 1)..n
  OBVIOUS
<1>12. S \cup T = 1..n /\ S \cap T = {}
  BY <1>4, <1>11
<1>13. \A q \in S : c[q] \in Nat
  BY <1>7, <1>12
<1>14. \A q \in T : c[q] \in Nat
  BY <1>7, <1>12
<1>15. SumFunctionOnSet(c, 1..n) = SumFunctionOnSet(c, S) + SumFunctionOnSet(c, T)
  BY <1>10, <1>11, <1>12, <1>13, <1>14, SumSplit
<1>16. SumFunctionOnSet(c, S) = PagesOf(chosen)
  BY <1>6, <1>8, <1>10, <1>11, SumAgree
<1>17. SumFunctionOnSet(c, T) \in Nat /\ SumFunctionOnSet(c, T) <= n - a
  BY <1>9, <1>10, <1>11, SumOfOnes
<1>18. m + PagesOf(chosen) <= GetNumAvailablePages /\ GetNumAvailablePages \in Int
  BY <1>2, CacheIsFinite DEF LInv, Reserved, FiniteCache
<1> QED BY <1>4, <1>5, <1>6, <1>15, <1>16, <1>17, <1>18 DEF inputs


\* A prefill stays within the limits.
LEMMA PrefillWithin ==
  ASSUME SingleGeneration, IInv, IInv', LInv, enginePc = "select", prefill.chosen # <<>>, PrefillGoesAhead
  PROVE  LInv'
<1> DEFINE inputs == PrefillInputs
           taken(s) == \E p \in ToSet(inputs) : p.rsentry = <<s, 1>>
<1>1. /\ Shape /\ Core /\ InTurn /\ TypeOK /\ StepOK /\ deployment \in Deployments
      /\ inputs \in Seq(InputType) /\ prefill.chosen \in Seq(InputType)
  BY PrefillInputsFacts DEF IInv, Shape, TypeOK, StepOK, PrefillType
<1>2. UNCHANGED request_states /\ deployment' = deployment
  BY DEF PrefillGoesAhead
<1>3. /\ MaxTokens' = MaxTokens /\ MaxSingle' = MaxSingle /\ PromptTokens' = PromptTokens
      /\ BatchLimit' = BatchLimit /\ Pairs' = Pairs
      /\ MaxTokens \in Nat /\ MaxSingle \in Nat /\ BatchLimit \in Nat
  BY <1>1, <1>2, LimitsFixed, DeploymentFixed, LimitFacts
<1>4. PICK es : es = EntriesAfterPrefill(inputs)
  OBVIOUS
<1>5. enginePc' \in {"idle", "finish"}
  BY <1>1, <1>4, PrefilledEntries
<1>6. ASSUME NEW s \in request_states
      PROVE  /\ Only(s)'.id = Only(s).id
             /\ Only(s)'.status = es[s][1].status /\ Only(s)'.inputs = es[s][1].inputs
             /\ Only(s)'.committed = es[s][1].committed
             /\ Only(s)'.num_tokens_for_next_decode = es[s][1].num_tokens_for_next_decode
             /\ Only(s)'.committed # Only(s).committed /\ ReachesLength(s, Only(s)') =>
                  <<s, 1>> \in ToSet(finished_rsentries') /\ enginePc' = "finish"
  BY <1>1, <1>4, PrefilledEntries
<1>7. ASSUME NEW s \in request_states, ~taken(s) PROVE es[s][1] = Only(s)
  BY <1>1, <1>4, <1>7, PrefilledSingle
<1>8. ASSUME NEW s \in request_states, NEW p \in ToSet(inputs), p.rsentry = <<s, 1>>
      PROVE  /\ es[s][1].status = "kAlive"
             /\ IF p.isDecode
                  THEN /\ Decodes(s) /\ es[s][1].inputs = 0 /\ es[s][1].num_tokens_for_next_decode = 1
                       /\ es[s][1].committed = Only(s).committed + 1
                  ELSE /\ p.len \in 1..Only(s).inputs /\ es[s][1].inputs = Only(s).inputs - p.len
                       /\ IF es[s][1].inputs = 0
                            THEN /\ es[s][1].committed = Only(s).committed + 1
                                 /\ es[s][1].num_tokens_for_next_decode =
                                      Only(s).num_tokens_for_next_decode + 1
                            ELSE /\ es[s][1].committed = Only(s).committed
                                 /\ es[s][1].num_tokens_for_next_decode =
                                      Only(s).num_tokens_for_next_decode
  BY <1>1, <1>4, <1>8, PrefilledSingle DEF Decodes
<1>9. ASSUME NEW s \in request_states
      PROVE  Only(s).committed \in Nat /\ PromptTokens[s] \in Nat /\ Only(s).inputs \in Nat
  BY <1>1, OnlyFacts, SingleFacts DEF EntryType
<1> HIDE DEF inputs
<1>10. ASSUME NEW s \in request_states
       PROVE  Only(s)'.committed \in {Only(s).committed, Only(s).committed + 1}
  <2>1. CASE taken(s)
    <3>1. PICK p \in ToSet(inputs) : p.rsentry = <<s, 1>>
      BY <2>1
    <3> QED BY <1>6, <1>8, <3>1
  <2>2. CASE ~taken(s)
    BY <1>6, <1>7, <2>2
  <2> QED BY <2>1, <2>2
<1>11. Lengths'
  <2> SUFFICES ASSUME NEW s \in request_states PROVE Short(s)' \/ (Only(s)'.committed <= MaxTokens /\ Finishing(s)')
    BY <1>2, <1>3 DEF Lengths
  <2>1. Short(s)
    BY DEF LInv, Lengths, Finishing
  <2>2. PICK c \in Nat, d \in Nat : c = Only(s).committed /\ d = PromptTokens[s]
    BY <1>9
  <2>3. CASE Only(s)'.committed = c + 1
    <3>1. c < MaxTokens
      BY <2>1, <2>2 DEF Short
    <3>2. CASE ReachesLength(s, Only(s)')
      <4>1. Only(s)'.committed # Only(s).committed
        BY <2>2, <2>3
      <4> QED BY <1>3, <1>6, <2>2, <2>3, <3>1, <3>2, <4>1 DEF Finishing
    <3>3. CASE ~ReachesLength(s, Only(s)')
      BY <1>3, <2>2, <2>3, <3>1, <3>3 DEF ReachesLength, Short
    <3> QED BY <3>2, <3>3
  <2>4. CASE Only(s)'.committed = c
    BY <1>3, <2>1, <2>2, <2>4 DEF Short
  <2> QED BY <1>10, <2>2, <2>3, <2>4
<1>12. OneEach'
  <2> SUFFICES ASSUME NEW s \in request_states
               PROVE  Only(s)'.num_tokens_for_next_decode = IF Decodes(s)' THEN 1 ELSE 0
    BY <1>2 DEF OneEach
  <2>1. Only(s).num_tokens_for_next_decode = IF Decodes(s) THEN 1 ELSE 0
    BY DEF LInv, OneEach
  <2>2. CASE taken(s)
    <3>1. PICK p \in ToSet(inputs) : p.rsentry = <<s, 1>>
      BY <2>2
    <3>2. CASE p.isDecode
      BY <1>6, <1>8, <3>1, <3>2 DEF Decodes
    <3>3. CASE ~p.isDecode
      <4>1. p.len \in 1..Only(s).inputs
        BY <1>8, <3>1, <3>3
      <4>2. ~Decodes(s)
        BY <1>9, <4>1 DEF Decodes
      <4>3. Only(s).num_tokens_for_next_decode = 0
        BY <2>1, <4>2
      <4>4. CASE es[s][1].inputs = 0
        <5>1. es[s][1].num_tokens_for_next_decode = 1
          BY <1>8, <3>1, <3>3, <4>3, <4>4
        <5>2. Decodes(s)'
          BY <1>6, <1>8, <3>1, <4>4 DEF Decodes
        <5> QED BY <1>6, <5>1, <5>2
      <4>5. CASE es[s][1].inputs # 0
        <5>1. es[s][1].num_tokens_for_next_decode = 0
          BY <1>8, <3>1, <3>3, <4>3, <4>5
        <5>2. ~Decodes(s)'
          BY <1>6, <4>5 DEF Decodes
        <5> QED BY <1>6, <5>1, <5>2
      <4> QED BY <4>4, <4>5
    <3> QED BY <3>2, <3>3
  <2>3. CASE ~taken(s)
    BY <1>6, <1>7, <2>1, <2>3 DEF Decodes
  <2> QED BY <2>2, <2>3
<1>13. FewRunning'
  <2> DEFINE chosen == prefill.chosen
             t == [k \in 1..Len(chosen) |-> chosen[k].rsentry]
  <2>1. RunningDecoders /\ RunningDecoders'
    BY DecodersRun, DecodersRunNext
  <2>2. PICK running : running = ComputeRunning
    OBVIOUS
  <2>3. running \in Seq(Pairs) /\ ComputeRunning' \in Seq(Pairs) /\ Distinct(ComputeRunning')
    BY <1>3, <2>1, <2>2 DEF RunningDecoders
  <2>4. PICK a \in Nat : a = Len(chosen) /\ DOMAIN chosen = 1..a
    BY <1>1
  <2>5. t \in Seq(Pairs) /\ Len(t) = a /\ \A p \in ToSet(chosen) : p.rsentry \in ToSet(t)
    <3>1. \A k \in 1..a : chosen[k] \in InputType
      BY <1>1, <2>4
    <3>2. \A k \in 1..a : chosen[k].rsentry \in Pairs
      BY <3>1 DEF InputType
    <3>3. t \in [1..a -> Pairs]
      BY <2>4, <3>2
    <3>4. t \in Seq(Pairs) /\ Len(t) = a /\ DOMAIN t = 1..a
      BY <3>3
    <3>5. \A p \in ToSet(chosen) : \E k \in 1..a : p = chosen[k]
      BY <2>4 DEF ToSet
    <3>6. \A k \in 1..a : t[k] = chosen[k].rsentry /\ t[k] \in ToSet(t)
      BY <2>4, <3>4 DEF ToSet
    <3> QED BY <3>4, <3>5, <3>6
  <2> HIDE DEF t
  <2>6. /\ running \o t \in Seq(Pairs) /\ Len(running \o t) = Len(running) + a
        /\ \A y : y \in ToSet(running \o t) <=> y \in ToSet(running) \/ y \in ToSet(t)
    <3>1. \A y : y \in ToSet(running \o t) <=> y \in ToSet(running) \/ y \in ToSet(t)
      BY <2>3, <2>5, ConcatFacts
    <3> QED BY <2>3, <2>5, <3>1
  <2>7. ASSUME NEW x \in ToSet(ComputeRunning') PROVE x \in ToSet(running \o t)
    <3>1. PICK s \in request_states : x = <<s, 1>> /\ Decodes(s)'
      BY <1>2, <2>1 DEF RunningDecoders
    <3>2. CASE Decodes(s)
      <4>1. x \in ToSet(running)
        BY <2>1, <2>2, <3>1, <3>2 DEF RunningDecoders
      <4> QED BY <2>6, <4>1
    <3>3. CASE ~Decodes(s)
      <4>1. taken(s)
        BY <1>6, <1>7, <3>1, <3>3 DEF Decodes
      <4>2. PICK p \in ToSet(inputs) : p.rsentry = <<s, 1>>
        BY <4>1
      <4>3. ~p.isDecode
        BY <1>8, <3>3, <4>2
      <4>4. p \in ToSet(chosen)
        BY <1>1, <4>2, <4>3, PrefillInputsFacts DEF inputs
      <4> QED BY <2>5, <2>6, <3>1, <4>2, <4>4
    <3> QED BY <3>2, <3>3
  <2>8. Len(ComputeRunning') <= Len(running \o t)
    BY <2>3, <2>6, <2>7, NotLonger
  <2>9. Len(running) + a <= BatchLimit
    BY <2>2, <2>4, CachedRunning DEF LInv, Reserved
  <2>10. Len(running) \in Nat /\ Len(ComputeRunning') \in Nat
    BY <2>3
  <2> QED BY <1>3, <2>6, <2>8, <2>9, <2>10 DEF FewRunning
<1>14. Room'
  <2>1. PICK n \in Nat : n = Len(inputs) /\ DOMAIN inputs = 1..n
    BY <1>1
  <2> DEFINE c == [q \in 1..n |-> Pages(inputs[q].len)]
             key == [q \in 1..n |-> Entry(inputs[q].rsentry).id]
  <2>2. \A q \in 1..n : inputs[q] \in ToSet(inputs) /\ inputs[q].len \in Nat
    <3>1. \A q \in 1..n : inputs[q] \in ToSet(inputs) /\ inputs[q] \in InputType
      BY <1>1, <2>1, ToSetFacts
    <3> QED BY <3>1 DEF InputType
  <2>3. \A q \in 1..n : c[q] \in Nat /\ c[q] = Pages(inputs[q].len)
    BY <1>1, <2>2, PagesFacts
  <2>4. /\ \A j, k \in 1..n : inputs[j].rsentry = inputs[k].rsentry => j = k
        /\ \A p \in ToSet(inputs) : p.rsentry = <<p.rsentry[1], 1>> /\ p.rsentry[1] \in request_states
    BY <1>1, <2>1, InputsApart DEF inputs
  <2>5. \A r : Entry(<<r, 1>>) = Only(r)
    BY <1>1, OnlyFacts
  <2>6. \A q \in 1..n : key[q] = Only(inputs[q].rsentry[1]).id
    BY <2>2, <2>4, <2>5
  <2>7. \A j, k \in 1..n : key[j] = key[k] => j = k
    <3> SUFFICES ASSUME NEW j \in 1..n, NEW k \in 1..n, key[j] = key[k] PROVE j = k
      OBVIOUS
    <3>1. Only(inputs[j].rsentry[1]).id = Only(inputs[k].rsentry[1]).id
      BY <2>6
    <3>2. inputs[j].rsentry[1] \in request_states /\ inputs[k].rsentry[1] \in request_states
      BY <2>2, <2>4
    <3>3. inputs[j].rsentry[1] = inputs[k].rsentry[1]
      BY <1>1, <3>1, <3>2 DEF Core, IdsApart
    <3>4. inputs[j].rsentry = <<inputs[j].rsentry[1], 1>> /\ inputs[k].rsentry = <<inputs[k].rsentry[1], 1>>
      BY <2>2, <2>4
    <3> QED BY <2>4, <3>3, <3>4
  <2>8. /\ DOMAIN kv' = DOMAIN kv \cup
             {Only(r).id : r \in {s \in request_states : Only(s).status = "kPending" /\ taken(s)}}
        /\ \A s \in request_states :
             /\ \A p \in ToSet(inputs) : p.rsentry = <<s, 1>> =>
                  kv'[Only(s).id] = (IF Only(s).status = "kAlive" THEN kv[Only(s).id] ELSE 0) + p.len
             /\ Only(s).status = "kAlive" /\ (\A p \in ToSet(inputs) : p.rsentry # <<s, 1>>)
                  => kv'[Only(s).id] = kv[Only(s).id]
    BY <1>1, PrefilledCache DEF inputs
  <2>9. DOMAIN kv = {Only(r).id : r \in {s \in request_states : Only(s).status = "kAlive"}}
    BY <1>1 DEF Core, InCache
  <2>10. ASSUME NEW i \in DOMAIN kv'
         PROVE  \/ i \in DOMAIN kv /\ kv'[i] = kv[i]
                \/ \E q \in 1..n : key[q] = i /\ Pages(kv'[i]) <= (IF i \in DOMAIN kv THEN Pages(kv[i]) ELSE 0) + c[q]
    <3>1. PICK s \in request_states : i = Only(s).id /\ (Only(s).status = "kAlive" \/ taken(s))
      BY <2>8, <2>9, <2>10
    <3>2. i \in DOMAIN kv <=> Only(s).status = "kAlive"
      <4>1. ASSUME i \in DOMAIN kv PROVE Only(s).status = "kAlive"
        <5>1. PICK t \in request_states : Only(t).status = "kAlive" /\ Only(t).id = i
          BY <2>9, <4>1
        <5>2. t = s
          BY <1>1, <3>1, <5>1 DEF Core, IdsApart
        <5> QED BY <5>1, <5>2
      <4> QED BY <2>9, <3>1, <4>1
    <3>3. CASE taken(s)
      <4>1. PICK p \in ToSet(inputs) : p.rsentry = <<s, 1>>
        BY <3>3
      <4>2. PICK q \in 1..n : p = inputs[q]
        BY <2>1, <4>1 DEF ToSet
      <4>3. key[q] = i
        <5>1. <<s, 1>>[1] = s
          OBVIOUS
        <5> QED BY <2>6, <3>1, <4>1, <4>2, <5>1
      <4>4. kv'[i] = (IF i \in DOMAIN kv THEN kv[i] ELSE 0) + p.len /\ p.len \in Nat
        BY <2>2, <2>8, <3>1, <3>2, <4>1, <4>2
      <4>5. Pages(kv'[i]) <= (IF i \in DOMAIN kv THEN Pages(kv[i]) ELSE 0) + Pages(p.len)
        <5>1. CASE i \in DOMAIN kv
          <6>1. kv[i] \in Nat
            BY <1>1, <5>1 DEF StepOK
          <6>2. Pages(kv[i] + p.len) <= Pages(kv[i]) + Pages(p.len)
            BY <1>1, <4>4, <6>1, PagesAdd
          <6> QED BY <4>4, <5>1, <6>2
        <5>2. CASE i \notin DOMAIN kv
          <6>1. kv'[i] = p.len
            BY <4>4, <5>2
          <6>2. PICK h \in Nat : h = Pages(p.len)
            BY <1>1, <4>4, PagesCover
          <6>3. Pages(kv'[i]) = h
            BY <6>1, <6>2
          <6> QED BY <5>2, <6>2, <6>3
        <5> QED BY <5>1, <5>2
      <4>6. c[q] = Pages(p.len)
        BY <2>3, <4>2
      <4> HIDE DEF c, key
      <4> QED BY <4>3, <4>5, <4>6
    <3>4. CASE ~taken(s)
      BY <2>8, <3>1, <3>2, <3>4
    <3> QED BY <3>3, <3>4
  <2>11. DOMAIN kv \subseteq DOMAIN kv' /\ IsFiniteSet(1..n)
    <3>1. DOMAIN kv \subseteq DOMAIN kv'
      BY <2>8
    <3>2. IsFiniteSet(1..n)
      BY <2>1, FS_Interval
    <3> QED BY <3>1, <3>2
  <2>12. PagesOf(inputs) = SumFunctionOnSet(c, 1..n)
    BY <1>1, <2>1, PagesOfFacts
  <2> HIDE DEF c, key
  <2>13. PICK K : K = 1..n
    OBVIOUS
  <2>14. /\ GetNumAvailablePages \in Int /\ GetNumAvailablePages' \in Int /\ SumFunctionOnSet(c, K) \in Nat
         /\ GetNumAvailablePages' >= GetNumAvailablePages - SumFunctionOnSet(c, K)
    <3>1. /\ IsFiniteSet(K) /\ \A q \in K : c[q] \in Nat
          /\ \A j, k \in K : key[j] = key[k] => j = k
      BY <2>3, <2>7, <2>11, <2>13
    <3>2. \A i \in DOMAIN kv' :
            \/ i \in DOMAIN kv /\ kv'[i] = kv[i]
            \/ \E q \in K : key[q] = i /\ Pages(kv'[i]) <= (IF i \in DOMAIN kv THEN Pages(kv[i]) ELSE 0) + c[q]
      BY <2>10, <2>13
    <3> QED BY <1>1, <1>2, <2>11, <3>1, <3>2, RoomUsed
  <2>15. PagesOf(inputs) <= GetNumAvailablePages
    BY InputPages DEF inputs
  <2> QED BY <2>12, <2>13, <2>14, <2>15 DEF Room
<1> QED BY <1>5, <1>11, <1>12, <1>13, <1>14 DEF LInv, Reserved


\* A request that ends, and those still to end.
LEMMA FinishWithin ==
  ASSUME SingleGeneration, IInv, IInv', LInv, FinishEntry, enginePc' # "failed"
  PROVE  LInv'
<1>1. Shape /\ Core /\ ToFinish /\ TypeOK /\ finished_rsentries \in Seq(Pairs)
  BY DEF IInv, Shape, TypeOK, StepOK
<1>2. PICK r \in request_states :
        /\ enginePc = "finish" /\ finished_rsentries # <<>> /\ Head(finished_rsentries) = <<r, 1>>
        /\ request_states' = request_states \ {r} /\ deployment' = deployment
        /\ \A s \in request_states \ {r} : entries'[s] = entries[s]
        /\ kv' = WithoutSequences({Only(r).id})
        /\ finished_rsentries' = Tail(finished_rsentries)
        /\ enginePc' = IF Tail(finished_rsentries) = <<>> THEN "idle" ELSE "finish"
  BY <1>1, FinishSingle
<1>3. Dwindles
  <2>1. \A s \in request_states' : Only(s)' = Only(s)
    BY <1>2 DEF Only
  <2>2. DOMAIN kv' \subseteq DOMAIN kv /\ \A k \in DOMAIN kv' : kv'[k] = kv[k]
    BY <1>2 DEF WithoutSequences
  <2> QED BY <1>2, <2>1, <2>2 DEF Dwindles
<1>4. /\ OneEach' /\ FewRunning' /\ Room'
      /\ \A s \in request_states' : Only(s)'.committed = Only(s).committed
      /\ \A s \in request_states' : Short(s) => Short(s)'
  BY <1>3, DwindlesWithin
<1>5. Lengths'
  <2> SUFFICES ASSUME NEW s \in request_states'
               PROVE  Short(s)' \/ (Only(s)'.committed <= MaxTokens' /\ Finishing(s)')
    BY DEF Lengths
  <2>1. s \in request_states /\ s # r
    BY <1>2
  <2>2. CASE Short(s)
    BY <1>4, <2>2
  <2>3. CASE Only(s).committed <= MaxTokens /\ Finishing(s)
    <3>1. <<s, 1>> \in ToSet(finished_rsentries)
      BY <2>3 DEF Finishing
    <3>2. <<s, 1>> \in ToSet(Tail(finished_rsentries)) /\ Tail(finished_rsentries) # <<>>
      <4>1. PICK f \in Seq(Pairs) : f = finished_rsentries
        BY <1>1
      <4>2. PICK n \in Nat : n = Len(f) /\ DOMAIN f = 1..n
        OBVIOUS
      <4>3. PICK i \in 1..n : f[i] = <<s, 1>>
        BY <3>1, <4>1, <4>2 DEF ToSet
      <4>4. f[1] = <<r, 1>> /\ f # <<>>
        BY <1>2, <4>1
      <4>5. i # 1
        BY <2>1, <4>3, <4>4
      <4>6. i - 1 \in 1..(n - 1) /\ (i - 1) + 1 = i
        BY <4>5
      <4>7. DOMAIN Tail(f) = 1..(n - 1) /\ Tail(f)[i - 1] = <<s, 1>>
        BY <4>2, <4>3, <4>4, <4>6
      <4>8. <<s, 1>> \in ToSet(Tail(f))
        BY <4>6, <4>7 DEF ToSet
      <4>9. ToSet(<<>>) = {}
        BY DEF ToSet
      <4> QED BY <4>1, <4>8, <4>9
    <3>3. Finishing(s)'
      BY <1>2, <3>2 DEF Finishing
    <3>4. MaxTokens' = MaxTokens
      BY <1>2, LimitsFixed
    <3> QED BY <1>4, <2>3, <3>3, <3>4
  <2> QED BY <2>1, <2>2, <2>3 DEF LInv, Lengths
<1> QED BY <1>2, <1>4, <1>5 DEF LInv, Reserved

\* A new request waits, and is shorter than the limits.
LEMMA AddWithin ==
  ASSUME SingleGeneration, IInv, IInv', LInv, NEW r \in Requests, AddRequest(r)
  PROVE  LInv'
<1>1. TypeOK /\ deployment \in Deployments /\ DOMAIN entries = Requests /\ request_states \subseteq Requests
  BY DEF IInv, Shape, TypeOK, EntriesOK, Trees, QueuesOK
<1>2. NumEntries(r) = 1 /\ PromptTokens[r] \in Nat
  BY <1>1, SingleFacts
<1>3. /\ UNCHANGED <<kv, deployment, enginePc>> /\ enginePc = "idle"
      /\ request_states' = request_states \cup {r} /\ PromptTokens[r] < MaxSingle
      /\ entries' = [entries EXCEPT ![r] =
           [i \in 1..1 |-> NewEntry(NewIds(1)[i], IF i = 1 THEN PromptTokens[r] ELSE 0)]]
  BY <1>2 DEF AddRequest, stepVars
<1>4. r \notin request_states
  BY DEF AddRequest, IInv, Shape, TypeOK, QueuesOK
<1>5. /\ MaxTokens' = MaxTokens /\ MaxSingle' = MaxSingle /\ PromptTokens' = PromptTokens
      /\ BatchLimit' = BatchLimit /\ Pairs' = Pairs
      /\ MaxTokens \in Nat \ {0} /\ MaxSingle \in Nat /\ BatchLimit \in Nat
  BY <1>1, <1>3, LimitsFixed, DeploymentFixed, LimitFacts
<1>6. Only(r)'.status = "kPending" /\ Only(r)'.committed = 0 /\ Only(r)'.num_tokens_for_next_decode = 0
  <2>1. Only(r)' = NewEntry(NewIds(1)[1], PromptTokens[r])
    BY <1>1, <1>3 DEF Only
  <2> QED BY <2>1 DEF NewEntry
<1>7. \A s \in request_states : Only(s)' = Only(s)
  BY <1>1, <1>3, <1>4 DEF Only
<1>8. Lengths'
  <2>1. Short(r)'
    BY <1>2, <1>3, <1>5, <1>6 DEF Short
  <2>2. \A s \in request_states : Short(s)
    BY <1>3 DEF LInv, Lengths, Finishing
  <2>3. \A s \in request_states : Short(s)'
    BY <1>5, <1>7, <2>2 DEF Short
  <2> QED BY <1>3, <2>1, <2>3 DEF Lengths
<1>9. OneEach'
  <2>1. ~Decodes(r)'
    BY <1>6 DEF Decodes
  <2>2. \A s \in request_states : Only(s)'.num_tokens_for_next_decode = IF Decodes(s)' THEN 1 ELSE 0
    BY <1>7 DEF LInv, OneEach, Decodes
  <2> QED BY <1>3, <1>6, <2>1, <2>2 DEF OneEach
<1>10. FewRunning'
  <2>1. RunningDecoders /\ RunningDecoders'
    BY DecodersRun, DecodersRunNext
  <2>2. /\ ComputeRunning \in Seq(Pairs) /\ ComputeRunning' \in Seq(Pairs) /\ Distinct(ComputeRunning')
    BY <1>5, <2>1 DEF RunningDecoders
  <2>3. ASSUME NEW x \in ToSet(ComputeRunning') PROVE x \in ToSet(ComputeRunning)
    <3>1. PICK s \in request_states' : x = <<s, 1>> /\ Decodes(s)'
      BY <2>1 DEF RunningDecoders
    <3>2. s # r
      BY <1>6, <3>1 DEF Decodes
    <3>3. s \in request_states /\ Decodes(s)
      BY <1>3, <1>7, <3>1, <3>2 DEF Decodes
    <3> QED BY <2>1, <3>1, <3>3 DEF RunningDecoders
  <2>4. Len(ComputeRunning') <= Len(ComputeRunning)
    BY <2>2, <2>3, NotLonger
  <2>5. Len(ComputeRunning) <= BatchLimit
    BY DEF LInv, FewRunning
  <2>6. Len(ComputeRunning) \in Nat /\ Len(ComputeRunning') \in Nat
    BY <2>2
  <2> QED BY <1>5, <2>4, <2>5, <2>6 DEF FewRunning
<1>11. Room'
  BY <1>3, RoomLeft DEF LInv, Room
<1> QED BY <1>3, <1>8, <1>9, <1>10, <1>11 DEF LInv, Reserved

\* The preemption of the last running request.
LEMMA PreemptLastWithin ==
  ASSUME SingleGeneration, IInv, IInv', LInv, PreemptLast, enginePc \in {"jumpForward", "decode"}
  PROVE  LInv'
<1> DEFINE r == Last(running_queue)
           i == LastAlive(r)
<1>1. TypeOK /\ Shape /\ Core
  BY DEF IInv, Shape
<1>2. CASE Fail("no entry to preempt") \/ Fail("sequence not in the KV cache")
  BY <1>2, FailWithin
<1>3. CASE ~Fail("no entry to preempt") /\ ~Fail("sequence not in the KV cache")
  <2>1. /\ running_queue # <<>> /\ AliveIds(r) # {}
        /\ IF Disaggregation THEN DropRequest(r) ELSE PreemptEntry(r, i)
    BY <1>3 DEF PreemptLast
  <2>2. running_queue \in Seq(Requests) /\ ToSet(running_queue) \subseteq request_states
    BY <1>1 DEF TypeOK, QueuesOK
  <2>3. r \in Requests /\ r \in request_states
    BY <2>1, <2>2, FrontFacts
  <2>4. i = 1
    <3>1. i \in DOMAIN entries[r]
      BY <1>1, <2>1, <2>3, LastAliveFacts
    <3> QED BY <1>1, <2>3, <3>1, OnlyFacts
  <2>5. PICK q \in request_states : q = Last(running_queue)
    BY <2>3
  <2>6. CASE Disaggregation
    <3>1. DropRequest(q)
      BY <2>1, <2>5, <2>6
    <3> QED BY <3>1, DropWithin
  <2>7. CASE ~Disaggregation
    <3>1. PreemptEntry(q, 1)
      BY <2>1, <2>4, <2>5, <2>7
    <3> QED BY <2>1, <2>5, <3>1, PreemptWithin
  <2> QED BY <2>6, <2>7
<1> QED BY <1>2, <1>3


\* Initially there is room.
LEMMA InitLInv ==
  ASSUME SingleGeneration, Init
  PROVE  LInv
<1>1. /\ IInv /\ deployment \in Deployments /\ request_states = {} /\ kv = <<>> /\ enginePc = "idle"
      /\ running_queue = <<>>
  BY InitIInv DEF Init
<1>2. FiniteCache /\ RunningDecoders
  BY <1>1, DecodersRun, CacheIsFinite
<1>3. FewRunning
  <2>1. ComputeRunning \in Seq(Pairs) /\ Distinct(ComputeRunning) /\ ToSet(ComputeRunning) = {}
    BY <1>1, <1>2 DEF RunningDecoders
  <2>2. <<>> \in Seq(Pairs) /\ Len(<<>>) = 0 /\ Len(ComputeRunning) \in Nat
    BY <2>1
  <2>3. Len(ComputeRunning) <= Len(<<>>)
    BY <2>1, <2>2, NotLonger
  <2>4. BatchLimit \in Nat
    BY <1>1, LimitFacts
  <2> QED BY <2>2, <2>3, <2>4 DEF FewRunning
<1>4. Room
  <2>1. PICK f : f = [s \in DOMAIN kv |-> Pages(kv[s])]
    OBVIOUS
  <2>2. GetNumAvailablePages = NumPages - SumFunctionOnSet(f, DOMAIN kv)
    BY <1>2, <2>1 DEF FiniteCache
  <2>3. DOMAIN kv = {}
    BY <1>1
  <2>4. SumFunctionOnSet(f, {}) = 0
    BY FS_EmptySet, SumZero
  <2>5. NumPages \in Nat
    BY <1>1, LimitFacts
  <2> QED BY <2>2, <2>3, <2>4, <2>5 DEF Room
<1> QED BY <1>1, <1>3, <1>4 DEF LInv, Lengths, OneEach, Reserved

\* Every step preserves LInv.
LEMMA NextLInv ==
  ASSUME SingleGeneration, IInv, IInv', LInv, [Next]_vars
  PROVE  LInv'
<1>1. ASSUME NEW r \in Requests, RejectRequest(r) PROVE LInv'
  <2>1. /\ UNCHANGED <<request_states, entries, kv>> /\ deployment' = deployment
        /\ enginePc = "idle" /\ enginePc' = "idle"
    BY <1>1 DEF RejectRequest, queueVars, stepVars
  <2> QED BY <2>1, StaysWithin
<1>2. ASSUME NEW r \in Requests, AbortRequest(r) PROVE LInv'
  <2>1. CASE Fail("sequence not in the KV cache")
    BY <2>1, FailWithin
  <2>2. CASE r \in request_states /\ enginePc = "idle" /\ DropRequest(r)
    BY <2>2, DropWithin
  <2> QED BY <1>2, <2>1, <2>2 DEF AbortRequest
<1>3. ASSUME NewRequestPrefill PROVE LInv'
  <2>1. CASE Fail("a sequence cannot be prefilled")
    BY <2>1, FailWithin
  <2>2. CASE enginePc = "select" /\ prefill.chosen # <<>> /\ PrefillGoesAhead
    BY <2>2, PrefillWithin
  <2> QED BY <1>3, <2>1, <2>2, PrefillCases
<1>4. ASSUME BatchDecode PROVE LInv'
  <2>1. CASE Fail("no request state entry can run decode")
    BY <2>1, FailWithin
  <2>2. CASE enginePc = "decode" /\ CanDecode /\ BatchIsSound /\ Decode
    BY <2>2, DecodeWithin
  <2> QED BY <1>4, <2>1, <2>2 DEF BatchDecode
<1>5. ASSUME FinishEntry PROVE LInv'
  <2>1. CASE enginePc' = "failed"
    <3>1. Fail("sequence not in the KV cache") \/ Fail("finished request is not in the running queue")
      BY <1>5, <2>1, FinishCases
    <3> QED BY <3>1, FailWithin
  <2>2. CASE enginePc' # "failed"
    BY <1>5, <2>2, FinishWithin
  <2> QED BY <2>1, <2>2
<1>6. ASSUME JumpForwardPreempt \/ DecodePreempt PROVE LInv'
  BY <1>6, PreemptLastWithin DEF JumpForwardPreempt, DecodePreempt
<1>7. ASSUME NothingToPrefill PROVE LInv'
  <2>1. /\ UNCHANGED <<request_states, entries, kv>> /\ deployment' = deployment /\ enginePc = "select"
    BY <1>7 DEF NothingToPrefill, queueVars
  <2>2. enginePc' \in {"idle", "jumpForward", "decode"}
    BY <1>7 DEF NothingToPrefill, BeginDecode
  <2> QED BY <2>1, <2>2, StaysWithin
<1>8. ASSUME JumpForwardDone PROVE LInv'
  <2>1. /\ UNCHANGED <<request_states, entries, kv>> /\ deployment' = deployment /\ enginePc = "jumpForward"
        /\ enginePc' \in {"idle", "decode"}
    BY <1>8 DEF JumpForwardDone, BeginDecode, queueVars
  <2> QED BY <2>1, StaysWithin
<1>9. CASE UNCHANGED vars
  <2>1. /\ UNCHANGED <<request_states, entries, kv, running_queue>> /\ deployment' = deployment
        /\ enginePc' = enginePc /\ prefill' = prefill /\ finished_rsentries' = finished_rsentries
        /\ cached_running_rsentries_' = cached_running_rsentries_
    BY <1>9 DEF vars, queueVars, cacheVars, stepVars
  <2>2. CASE enginePc = "select"
    <3>1. /\ Lengths' /\ OneEach' /\ FewRunning' /\ Room' /\ BatchLimit' = BatchLimit
          /\ GetNumAvailablePages' = GetNumAvailablePages /\ \A s : PagesOf(s)' = PagesOf(s)
      BY <1>9, <2>2, SelectionWithin DEF vars, queueVars, cacheVars, idVars, stepVars
    <3> QED BY <2>1, <3>1 DEF LInv, Reserved
  <2>3. CASE enginePc # "select"
    BY <2>1, <2>3, StaysWithin
  <2> QED BY <2>2, <2>3
<1> QED BY <1>1, <1>2, <1>3, <1>4, <1>5, <1>6, <1>7, <1>8, <1>9, AddWithin, BeginPrefillWithin, TakeWholeWithin,
           TakeChunkWithin DEF Next, Step, Client

\* The limits, from the invariant.
LEMMA LimitsFromLInv ==
  ASSUME SingleGeneration, IInv, LInv
  PROVE  WithinLimits
<1>1. TypeOK /\ deployment \in Deployments
  BY DEF IInv, Shape, TypeOK
<1>2. /\ MaxTokens \in Nat /\ MaxNumSequence \in Nat /\ ChunkSize \in Nat
      /\ BatchLimit \in Nat /\ BatchLimit <= MaxNumSequence /\ BatchLimit <= ChunkSize
  BY <1>1, LimitFacts
<1>3. RunningDecoders
  BY DecodersRun
<1>4. PICK running \in Seq(Pairs) : running = ComputeRunning
  BY <1>3 DEF RunningDecoders
<1>5. PICK n \in Nat : n = Len(running) /\ DOMAIN running = 1..n
  OBVIOUS
<1>6. n <= BatchLimit
  BY <1>4, <1>5 DEF LInv, FewRunning
<1> DEFINE f == [q \in DOMAIN running |-> Entry(running[q]).num_tokens_for_next_decode]
<1>7. SumFunction(f) <= ChunkSize
  <2>1. \A q \in 1..n : \E r \in request_states : running[q] = <<r, 1>> /\ Decodes(r)
    <3>1. \A q \in 1..n : running[q] \in ToSet(ComputeRunning)
      BY <1>4, <1>5 DEF ToSet
    <3> QED BY <1>3, <3>1 DEF RunningDecoders
  <2>2. \A q \in 1..n : Entry(running[q]).num_tokens_for_next_decode = 1
    <3> TAKE q \in 1..n
    <3>1. PICK r \in request_states : running[q] = <<r, 1>> /\ Decodes(r)
      BY <2>1
    <3>2. Entry(running[q]) = Only(r)
      BY <1>1, <3>1, OnlyFacts
    <3>3. Only(r).num_tokens_for_next_decode = 1
      BY <3>1 DEF LInv, OneEach
    <3> QED BY <3>2, <3>3
  <2>3. DOMAIN f = 1..n /\ \A q \in 1..n : f[q] \in {0, 1}
    BY <1>5, <2>2
  <2> HIDE DEF f
  <2>4. PICK S : S = 1..n
    OBVIOUS
  <2>5. IsFiniteSet(S) /\ Cardinality(S) = n
    <3>1. 1 \in Int /\ n \in Int
      OBVIOUS
    <3>2. IsFiniteSet(1..n) /\ Cardinality(1..n) = IF 1 > n THEN 0 ELSE n - 1 + 1
      BY <3>1, FS_Interval
    <3> QED BY <2>4, <3>2
  <2>6. SumFunctionOnSet(f, S) \in Nat /\ SumFunctionOnSet(f, S) <= Cardinality(S)
    BY <2>3, <2>4, <2>5, SumOfOnes
  <2>7. SumFunction(f) = SumFunctionOnSet(f, S)
    BY <2>3, <2>4 DEF SumFunction
  <2> QED BY <1>2, <1>6, <2>5, <2>6, <2>7
<1>8. ASSUME NEW r \in request_states, NEW i \in DOMAIN entries[r] PROVE entries[r][i].committed <= MaxTokens
  <2>1. i = 1 /\ Only(r).committed \in Nat
    BY <1>1, <1>8, OnlyFacts DEF EntryType
  <2>2. Only(r).committed <= MaxTokens
    BY <1>2, <2>1 DEF LInv, Lengths, Short
  <2> QED BY <2>1, <2>2 DEF Only
<1>9. Len(running) <= MaxNumSequence
  BY <1>2, <1>5, <1>6
<1>10. GetNumAvailablePages >= 0
  BY DEF LInv, Room
<1> QED BY <1>4, <1>7, <1>8, <1>9, <1>10 DEF WithinLimits

\* In deployments whose requests ask for one generation, whatever their limits: the pages that
\* prefill, jump-forward and decode leave free suffice for what they do next, so that the KV cache
\* never runs out of them; the running entries never exceed the batch limits that the later actions
\* check (batch_decode.cc L75, batch_prefill_base.cc L176 and L273); and no generation is longer
\* than asked for (request_state.cc L246).
THEOREM LimitsKept ==
  ASSUME SingleGeneration
  PROVE  Spec => []WithinLimits
<1>1. Init => LInv
  BY InitLInv
<1>2. IInv /\ IInv' /\ LInv /\ [Next]_vars => LInv'
  BY NextLInv
<1>3. IInv /\ LInv => WithinLimits
  BY LimitsFromLInv
<1> QED BY <1>1, <1>2, <1>3, IInvariant, PTL DEF Spec

-----------------------------------------------------------------------------
(* The checks of the scheduler, for deployments whose requests ask for one *)
(* generation and whose KV cache can hold one sequence of any length.      *)

\* A sequence of max_single_sequence_length tokens fits into the KV cache with the margins of prefill.
Provisioned ==
  \A d \in Deployments :
    /\ d.MaxSingle + DecodeWatermark <= d.MaxTotal + 1
    /\ (d.MaxSingle + d.PageSize - 1) \div d.PageSize + 2 <= d.NumPages

\* Some of the prompt is prefilled, not all.
Partial(r) == Only(r).status = "kAlive" /\ Only(r).inputs > 0

\* It is the request that runs last and is prefilled first.
PartialLast ==
  \A r \in request_states :
    Partial(r) => /\ running_queue # <<>> /\ r = Last(running_queue)
                  /\ waiting_queue # <<>> /\ r = Head(waiting_queue)

\* A request that decodes has a token to decode from.
Begun == \A r \in request_states : Decodes(r) => Only(r).committed > 0

\* Only the last entry that is chosen may be chosen in part.
WholeButLast ==
  enginePc = "select" =>
    \A k \in 1..Len(prefill.chosen) :
      k < Len(prefill.chosen) \/ prefill.todo # <<>> =>
        prefill.chosen[k].len = Entry(prefill.chosen[k].rsentry).inputs

\* When a request is prefilled in part and none decodes, the selection goes on.
Proceeds ==
  enginePc = "select" /\ running_queue # <<>> /\ cached_running_rsentries_ = <<>> =>
    prefill.chosen # <<>> \/ (prefill.todo # <<>> /\ prefill.totalInput = 0)

\* The list that the decode actions go on with is that of the running requests that decode, and
\* there are some.
InStep ==
  enginePc \in {"jumpForward", "decode"} =>
    /\ Len(running_rsentries) <= Len(running_queue)
    /\ \A k \in 1..Len(running_rsentries) : running_rsentries[k] = <<running_queue[k], 1>>
    /\ \A k \in 1..Len(running_queue) : Decodes(running_queue[k]) <=> k <= Len(running_rsentries)
    /\ running_queue # <<>> \/ enginePc = "decode" => running_rsentries # <<>>

FInv == PartialLast /\ Begun /\ WholeButLast /\ Proceeds /\ InStep /\ NoFault

\* The margins, for the deployment that is served.
LEMMA ProvisionedFacts ==
  ASSUME Provisioned, deployment \in Deployments
  PROVE  /\ MaxSingle + 8 <= MaxTotal + 1
         /\ Pages(MaxSingle) \in Nat /\ Pages(MaxSingle) + 2 <= NumPages
<1>1. MaxSingle \in Nat /\ Pages(MaxSingle) \in Nat
  BY LimitFacts, PagesCover
<1> QED BY <1>1 DEF Provisioned, DecodeWatermark, MaxSingle, MaxTotal, Pages, PageSize, NumPages

\* The running queue: alive requests, each once.
LEMMA RunningQueueFacts ==
  ASSUME SingleGeneration, IInv
  PROVE  /\ running_queue \in Seq(Requests) /\ Len(running_queue) \in Nat
         /\ DOMAIN running_queue = 1..Len(running_queue)
         /\ Distinct(running_queue)
         /\ \A k \in 1..Len(running_queue) :
              /\ running_queue[k] \in request_states /\ running_queue[k] \in Requests
              /\ Only(running_queue[k]).status = "kAlive"
              /\ Decodes(running_queue[k]) \/ Partial(running_queue[k])
         /\ \A r \in request_states : Only(r).status = "kAlive" =>
              \E k \in 1..Len(running_queue) : running_queue[k] = r
         /\ running_queue # <<>> => Len(running_queue) >= 1 /\ Last(running_queue) = running_queue[Len(running_queue)]
<1>1. Core /\ TypeOK /\ running_queue \in Seq(Requests) /\ request_states \subseteq Requests
  BY DEF IInv, Shape, TypeOK, QueuesOK
<1>2. PICK n \in Nat : n = Len(running_queue) /\ DOMAIN running_queue = 1..n
  BY <1>1
<1>3. ASSUME NEW k \in 1..n
      PROVE  /\ running_queue[k] \in request_states /\ running_queue[k] \in Requests
             /\ Only(running_queue[k]).status = "kAlive"
             /\ Decodes(running_queue[k]) \/ Partial(running_queue[k])
  <2>1. running_queue[k] \in ToSet(running_queue) /\ running_queue[k] \in Requests
    BY <1>1, <1>2, ToSetFacts
  <2>2. running_queue[k] \in request_states /\ Only(running_queue[k]).status = "kAlive"
    BY <1>1, <2>1 DEF Core, InQueues
  <2>3. Only(running_queue[k]).inputs \in Nat
    BY <1>1, <2>2, OnlyFacts DEF EntryType
  <2> QED BY <2>1, <2>2, <2>3 DEF Decodes, Partial
<1>4. ASSUME NEW r \in request_states, Only(r).status = "kAlive" PROVE \E k \in 1..n : running_queue[k] = r
  <2>1. r \in ToSet(running_queue)
    BY <1>1, <1>4 DEF Core, InQueues
  <2> QED BY <1>2, <2>1 DEF ToSet
<1>5. running_queue # <<>> => n >= 1 /\ Last(running_queue) = running_queue[n]
  BY <1>1, <1>2, FrontPositions
<1>6. Distinct(running_queue)
  BY <1>1 DEF Core, InQueues
<1> QED BY <1>1, <1>2, <1>3, <1>4, <1>5, <1>6

\* All running requests but perhaps the last one decode.
LEMMA AllButLastDecode ==
  ASSUME SingleGeneration, IInv, PartialLast
  PROVE  \A k \in 1..Len(running_queue) : k < Len(running_queue) => Decodes(running_queue[k])
<1>1. PICK n \in Nat : n = Len(running_queue) /\ DOMAIN running_queue = 1..n
  BY RunningQueueFacts
<1> SUFFICES ASSUME NEW k \in 1..n, k < n, Partial(running_queue[k]) PROVE FALSE
  BY <1>1, RunningQueueFacts
<1>2. running_queue[k] = Last(running_queue) /\ running_queue # <<>>
  BY <1>1, RunningQueueFacts DEF PartialLast
<1>3. running_queue[k] = running_queue[n] /\ n \in 1..n
  BY <1>1, <1>2, RunningQueueFacts
<1> QED BY <1>1, <1>3, RunningQueueFacts DEF Distinct

\* The running entries, by their positions in the running queue.
LEMMA RunningPositions ==
  ASSUME SingleGeneration, IInv, PartialLast
  PROVE  /\ ComputeRunning \in Seq(Pairs) /\ Len(ComputeRunning) \in Nat
         /\ Len(ComputeRunning) <= Len(running_queue)
         /\ \A k \in 1..Len(ComputeRunning) : ComputeRunning[k] = <<running_queue[k], 1>>
         /\ \A k \in 1..Len(running_queue) : Decodes(running_queue[k]) <=> k <= Len(ComputeRunning)
<1> DEFINE rq == running_queue
           S == {x \in AllEntries : /\ Entry(x).status = "kAlive"
                                    /\ x[2] \in Leaves(x[1])
                                    /\ Entry(x).inputs = 0}
           parts == [q \in DOMAIN rq |-> [i \in DOMAIN entries[rq[q]] |-> <<rq[q], i>>]]
<1>1. TypeOK /\ deployment \in Deployments
  BY DEF IInv, Shape, TypeOK
<1>2. PICK n \in Nat : n = Len(rq) /\ DOMAIN rq = 1..n
  BY RunningQueueFacts
<1>3. ComputeRunning = InOrder(FlattenSeq(parts), S)
  BY DEF ComputeRunning, EntriesOf
<1> DEFINE s == [q \in 1..n |-> <<rq[q], 1>>]
<1>4. \A q \in 1..n : DOMAIN entries[rq[q]] = {1} /\ <<rq[q], 1>> \in Pairs /\ (<<rq[q], 1>> \in S <=> Decodes(rq[q]))
  <2> TAKE q \in 1..n
  <2>1. rq[q] \in request_states /\ rq[q] \in Requests
    BY <1>2, RunningQueueFacts
  <2>2. <<rq[q], 1>> \in AllEntries /\ Entry(<<rq[q], 1>>) = Only(rq[q]) /\ DOMAIN entries[rq[q]] = {1}
    BY <1>1, <2>1, OnlyFacts
  <2>3. <<rq[q], 1>>[2] \in Leaves(<<rq[q], 1>>[1]) /\ <<rq[q], 1>> \in Pairs
    BY <1>1, <2>1, SingleFacts
  <2> QED BY <2>2, <2>3 DEF Decodes
<1> HIDE DEF S
<1>5. s \in Seq(Pairs) /\ Len(s) = n /\ \A q \in 1..n : s[q] = <<rq[q], 1>>
  <2>1. s \in [1..n -> Pairs]
    BY <1>4
  <2>2. s \in Seq(Pairs)
    BY <2>1
  <2> QED BY <2>1, <2>2
<1>6. parts = [q \in 1..n |-> <<s[q]>>]
  <2>1. \A q \in 1..n : [i \in DOMAIN entries[rq[q]] |-> <<rq[q], i>>] = <<s[q]>>
    <3> TAKE q \in 1..n
    <3>1. s[q] = <<rq[q], 1>>
      OBVIOUS
    <3>2. [i \in DOMAIN entries[rq[q]] |-> <<rq[q], i>>] = [i \in {1} |-> <<rq[q], 1>>]
      BY <1>4
    <3> HIDE DEF s
    <3> QED BY <3>1, <3>2
  <2> HIDE DEF s
  <2> QED BY <1>2, <2>1
<1> HIDE DEF s, parts
<1>7. ComputeRunning = InOrder(s, S)
  BY <1>2, <1>3, <1>5, <1>6, FlattenSingles
<1>8. CASE \A q \in 1..n : Decodes(rq[q])
  <2>1. ToSet(s) \subseteq S
    <3>1. \A q \in 1..n : s[q] \in S
      BY <1>4, <1>5, <1>8
    <3>2. DOMAIN s = 1..n
      BY <1>5
    <3> QED BY <3>1, <3>2 DEF ToSet
  <2>2. ComputeRunning = s
    BY <1>5, <1>7, <2>1, InOrderAll
  <2> QED BY <1>2, <1>5, <1>8, <2>2
<1>9. CASE \E q \in 1..n : ~Decodes(rq[q])
  <2>1. \A q \in 1..n : q < n => Decodes(rq[q])
    BY <1>2, AllButLastDecode
  <2>2. ~Decodes(rq[n]) /\ n >= 1
    BY <1>9, <2>1
  <2>3. s # <<>>
    BY <1>5, <2>2
  <2>4. /\ Front(s) \in Seq(Pairs) /\ Len(Front(s)) = n - 1 /\ Last(s) = s[n]
        /\ \A i \in 1..(n - 1) : Front(s)[i] = s[i]
    BY <1>5, <2>3, FrontPositions
  <2>5. Last(s) \notin S /\ \A i \in 1..(n - 1) : s[i] \in S
    <3>1. \A q \in 1..n : s[q] \in S <=> Decodes(rq[q])
      BY <1>4, <1>5
    <3>2. n \in 1..n /\ \A i \in 1..(n - 1) : i \in 1..n /\ i < n
      BY <2>2
    <3> QED BY <2>1, <2>2, <2>4, <3>1, <3>2
  <2>6. ComputeRunning = Front(s)
    BY <1>5, <1>7, <2>3, <2>5, InOrderFront
  <2>7. \A q \in 1..n : Decodes(rq[q]) <=> q <= n - 1
    BY <2>1, <2>2
  <2>8. n - 1 \in Nat /\ \A q \in 1..(n - 1) : q \in 1..n
    BY <2>2
  <2>9. Len(ComputeRunning) = n - 1 /\ ComputeRunning \in Seq(Pairs)
    BY <2>4, <2>6
  <2>10. \A k \in 1..(n - 1) : ComputeRunning[k] = <<rq[k], 1>>
    BY <1>5, <2>4, <2>6, <2>8
  <2> HIDE DEF rq
  <2> QED BY <1>2, <2>7, <2>8, <2>9, <2>10, SMTT(40) DEF rq
<1> QED BY <1>8, <1>9

\* The KV cache when one request is alive.
LEMMA LoneSequence ==
  ASSUME SingleGeneration, IInv, NEW r \in request_states, Only(r).status = "kAlive",
         \A s \in request_states : Only(s).status = "kAlive" => s = r
  PROVE  /\ kv[Only(r).id] \in Nat /\ Only(r).id \in DOMAIN kv
         /\ GetNumAvailablePages = NumPages - Pages(kv[Only(r).id])
         /\ GetCurrentTotalSequenceLength = kv[Only(r).id]
<1> DEFINE f == [s \in DOMAIN kv |-> Pages(kv[s])]
<1>1. deployment \in Deployments /\ FiniteCache
  BY CacheIsFinite DEF IInv, Shape, TypeOK
<1>2. PICK c : c = Only(r).id
  OBVIOUS
<1>3. DOMAIN kv = {c}
  BY <1>2 DEF IInv, Core, InCache
<1>4. kv[c] \in Nat /\ f[c] = Pages(kv[c]) /\ f[c] \in Nat /\ IsFiniteSet(DOMAIN kv)
  BY <1>1, <1>3 DEF FiniteCache
<1>5. GetNumAvailablePages = NumPages - SumFunctionOnSet(f, DOMAIN kv)
  BY <1>1 DEF FiniteCache
<1> HIDE DEF f
<1>6. \A h : h[c] \in Nat => SumFunctionOnSet(h, DOMAIN kv) = h[c]
  BY <1>3, <1>4, SumOne
<1>7. GetCurrentTotalSequenceLength = SumFunctionOnSet(kv, DOMAIN kv)
  BY DEF GetCurrentTotalSequenceLength, SumFunction
<1> QED BY <1>2, <1>3, <1>4, <1>5, <1>6, <1>7


-----------------------------------------------------------------------------
(* The checks.                                                             *)

\* The sequence of an alive request is in the KV cache.
LEMMA AliveAreCached ==
  ASSUME SingleGeneration, IInv, NEW r \in Requests
  PROVE  AliveIds(r) \subseteq DOMAIN kv
<1>1. TypeOK
  BY DEF IInv, Shape
<1>2. AliveIds(r) = IF r \in request_states /\ Only(r).status = "kAlive" THEN {Only(r).id} ELSE {}
  BY <1>1, OnlyFacts
<1> QED BY <1>2 DEF IInv, Core, InCache

\* An entry that finishes is in the KV cache and its request in the running queue.
LEMMA FinishGoesOn ==
  ASSUME SingleGeneration, IInv, FinishEntry
  PROVE  enginePc' # "failed"
<1> DEFINE x == Head(finished_rsentries)
           r == x[1]
           es == [entries[r] EXCEPT ![x[2]].status = "kFinished"]
           removed == Removed(r, x[2], es)
           ids == [q \in DOMAIN removed |-> es[removed[q]].id]
<1>1. Shape /\ Core /\ ToFinish /\ enginePc = "finish" /\ running_queue \in Seq(Requests)
  BY FinishCases DEF IInv, Shape, TypeOK, QueuesOK
<1>2. r \in Requests /\ r \in request_states /\ Only(r).status = "kAlive" /\ ToSet(ids) = {Only(r).id}
  <2> HIDE DEF x, r, es, removed, ids
  <2> QED BY <1>1, FirstFinished DEF x, r, es, removed, ids
<1> HIDE DEF ids, removed, es, r
<1>3. ToSet(ids) \subseteq DOMAIN kv
  BY <1>1, <1>2 DEF Core, InCache
<1>4. Contains(running_queue, r)
  <2>1. r \in ToSet(running_queue)
    BY <1>1, <1>2 DEF Core, InQueues
  <2> QED BY <1>1, <2>1, ContainsFacts
<1> QED BY <1>3, <1>4 DEF FinishEntry, x, r, es, removed, ids

\* What is prefilled has tokens, and sequences that start have new ids.
LEMMA PrefillGoesOn ==
  ASSUME SingleGeneration, IInv, LInv, NewRequestPrefill
  PROVE  PrefillGoesAhead
<1> DEFINE inputs == PrefillInputs
           inserted == EntriesToInsert(inputs)
           ids == {Entry(x).id : x \in inserted}
           pending == {p \in ToSet(inputs) : Entry(p.rsentry).status = "kPending"}
<1>1. /\ Shape /\ Core /\ InTurn /\ TypeOK /\ enginePc = "select" /\ inputs \in Seq(InputType)
  BY PrefillCases, PrefillInputsFacts DEF IInv, Shape
<1>2. \A p \in ToSet(inputs) : /\ p.rsentry = <<p.rsentry[1], 1>> /\ p.rsentry[1] \in request_states
                               /\ Entry(p.rsentry) = Only(p.rsentry[1]) /\ Activated(p) = {}
  BY <1>1, InputsApart, OnlyFacts
<1>3. inserted = {p.rsentry : p \in pending}
  BY <1>2 DEF EntriesToInsert
<1>4. \A x \in inserted : \E r \in request_states : x = <<r, 1>> /\ Entry(x) = Only(r) /\ Only(r).status = "kPending"
  BY <1>2, <1>3
<1>5. \A p \in ToSet(inputs) : p.len > 0
  <2> TAKE p \in ToSet(inputs)
  <2>1. CASE p.isDecode
    <3>1. p.rsentry \in ToSet(ComputeRunning) /\ p.len = NextDecode(p.rsentry)
      BY <1>1, <2>1, PrefillInputsFacts
    <3>2. PICK r \in request_states : p.rsentry = <<r, 1>> /\ Decodes(r)
      BY <3>1, DecodersRun DEF RunningDecoders
    <3>3. NextDecode(p.rsentry) = 1
      BY <1>1, <3>2, OnlyFacts DEF NextDecode, LInv, OneEach
    <3> QED BY <3>1, <3>3
  <2>2. CASE ~p.isDecode
    <3>1. p.len \in 1..Entry(p.rsentry).inputs
      BY <1>1, <2>2, PrefillInputsFacts
    <3> QED BY <3>1
  <2> QED BY <2>1, <2>2
<1>6. ids \cap DOMAIN kv = {}
  <2> SUFFICES ASSUME NEW x \in inserted, Entry(x).id \in DOMAIN kv PROVE FALSE
    OBVIOUS
  <2>1. PICK r \in request_states : Entry(x) = Only(r) /\ Only(r).status = "kPending"
    BY <1>4
  <2>2. PICK s \in request_states : Only(s).status = "kAlive" /\ Only(s).id = Only(r).id
    BY <1>1, <2>1 DEF Core, InCache
  <2> QED BY <1>1, <2>1, <2>2 DEF Core, IdsApart
<1>7. Cardinality(ids) = Cardinality(inserted)
  <2> DEFINE g == [p \in ToSet(inputs) |-> p.rsentry]
             f == [x \in inserted |-> Entry(x).id]
  <2>1. IsFiniteSet(inserted)
    <3>1. IsFiniteSet({g[p] : p \in ToSet(inputs)})
      <4> HIDE DEF g, inputs
      <4> QED BY <1>1, ToSetFinite
    <3>2. inserted \subseteq {g[p] : p \in ToSet(inputs)}
      BY <1>3
    <3> QED BY <3>1, <3>2, FS_Subset
  <2> HIDE DEF inserted
  <2>2. f \in [inserted -> ids]
    OBVIOUS
  <2>3. \A i \in ids : \E x \in inserted : f[x] = i
    OBVIOUS
  <2>4. \A x, y \in inserted : f[x] = f[y] => x = y
    <3> SUFFICES ASSUME NEW x \in inserted, NEW y \in inserted, Entry(x).id = Entry(y).id PROVE x = y
      OBVIOUS
    <3>1. PICK r \in request_states : x = <<r, 1>> /\ Entry(x) = Only(r)
      BY <1>4
    <3>2. PICK s \in request_states : y = <<s, 1>> /\ Entry(y) = Only(s)
      BY <1>4
    <3>3. r = s
      BY <1>1, <3>1, <3>2 DEF Core, IdsApart
    <3> QED BY <3>1, <3>2, <3>3
  <2> HIDE DEF f, ids
  <2>5. f \in Bijection(inserted, ids)
    BY <2>2, <2>3, <2>4 DEF Bijection, Injection, Surjection, IsInjective
  <2>6. ExistsBijection(inserted, ids)
    BY <2>5 DEF ExistsBijection
  <2> QED BY <2>1, <2>6, FS_Bijection
<1> HIDE DEF pending
<1> QED BY <1>5, <1>6, <1>7 DEF NewRequestPrefill, PrefillGoesAhead, InvalidateRunning, idVars

\* There is an entry to decode, and each has a token to decode from.
LEMMA DecodeGoesOn ==
  ASSUME SingleGeneration, IInv, LInv, FInv, enginePc = "decode"
  PROVE  BatchIsSound
<1>1. TypeOK /\ deployment \in Deployments /\ running_rsentries \in Seq(Pairs)
  BY DEF IInv, Shape, TypeOK, StepOK
<1>2. BatchLimit \in Nat \ {0}
  BY <1>1, LimitFacts
<1>3a. PICK m \in Nat : m = Len(running_rsentries) /\ DOMAIN running_rsentries = 1..m
  BY <1>1
<1>3b. PICK n \in Nat : n = Len(running_queue)
  BY RunningQueueFacts
<1>3. m = Len(running_rsentries) /\ DOMAIN running_rsentries = 1..m /\ n = Len(running_queue)
  BY <1>3a, <1>3b
<1>4. /\ m <= n /\ m >= 1
      /\ \A k \in 1..m : running_rsentries[k] = <<running_queue[k], 1>>
      /\ \A k \in 1..n : Decodes(running_queue[k]) <=> k <= m
  <2>1. running_rsentries # <<>>
    BY DEF FInv, InStep
  <2>2. m >= 1
    BY <1>1, <1>3, <2>1
  <2> QED BY <1>3, <2>2 DEF FInv, InStep
<1>5. \A k \in 1..m : /\ running_rsentries[k] = <<running_queue[k], 1>> /\ Decodes(running_queue[k])
                      /\ running_queue[k] \in request_states
  <2>1. \A k \in 1..m : k \in 1..n /\ k <= m
    BY <1>4
  <2> QED BY <1>3, <1>4, <2>1, RunningQueueFacts
<1>6. DecodeBatch # {}
  <2>1. 1 \in DOMAIN running_rsentries /\ 1 <= BatchLimit
    BY <1>2, <1>3, <1>4
  <2> QED BY <2>1 DEF DecodeBatch
<1>7. ASSUME NEW x \in DecodeBatch
      PROVE  x[1] \in request_states /\ NextDecode(x) \in 1..Entry(x).committed /\ Entry(x).id \in DOMAIN kv
  <2>1. PICK k \in 1..m : x = running_rsentries[k]
    BY <1>3, <1>7 DEF DecodeBatch
  <2>2. PICK r \in request_states : x = <<r, 1>> /\ Decodes(r)
    BY <1>5, <2>1
  <2>3. Entry(x) = Only(r) /\ Only(r).committed \in Nat
    BY <1>1, <2>2, OnlyFacts DEF EntryType
  <2>4. Only(r).num_tokens_for_next_decode = 1 /\ Only(r).committed > 0
    BY <2>2 DEF LInv, OneEach, FInv, Begun
  <2>5. Only(r).id \in DOMAIN kv
    BY <2>2 DEF Decodes, IInv, Core, InCache
  <2> QED BY <2>2, <2>3, <2>4, <2>5 DEF NextDecode
<1> QED BY <1>6, <1>7 DEF BatchIsSound


-----------------------------------------------------------------------------
(* The other parts of the invariant, by the action.                        *)

\* A step that leaves the requests and the queues alone.
LEMMA KeepsPartial ==
  ASSUME FInv, UNCHANGED <<request_states, entries, running_queue, waiting_queue>>
  PROVE  PartialLast' /\ Begun'
BY DEF FInv, PartialLast, Begun, Partial, Decodes, Only

\* A new request is not prefilled yet, and waits behind the others.
LEMMA AddGoesOn ==
  ASSUME SingleGeneration, IInv, FInv, NEW r \in Requests, AddRequest(r)
  PROVE  FInv'
<1>1. TypeOK /\ deployment \in Deployments /\ DOMAIN entries = Requests /\ waiting_queue \in Seq(Requests)
  BY DEF IInv, Shape, TypeOK, EntriesOK, Trees, QueuesOK
<1>2. NumEntries(r) = 1
  BY <1>1, SingleFacts
<1>3. /\ enginePc' = "idle" /\ fault' = fault /\ running_queue' = running_queue
      /\ waiting_queue' = Append(waiting_queue, r) /\ request_states' = request_states \cup {r}
      /\ entries' = [entries EXCEPT ![r] =
           [i \in 1..1 |-> NewEntry(NewIds(1)[i], IF i = 1 THEN PromptTokens[r] ELSE 0)]]
  BY <1>2 DEF AddRequest, stepVars
<1>4. r \notin request_states
  BY DEF AddRequest, IInv, Shape, TypeOK, QueuesOK
<1>5. Only(r)'.status = "kPending"
  <2>1. Only(r)' = NewEntry(NewIds(1)[1], PromptTokens[r])
    BY <1>1, <1>3 DEF Only
  <2> QED BY <2>1 DEF NewEntry
<1>6. \A s \in request_states : Only(s)' = Only(s)
  BY <1>1, <1>3, <1>4 DEF Only
<1>7. waiting_queue # <<>> => waiting_queue' # <<>> /\ Head(waiting_queue') = Head(waiting_queue)
  BY <1>1, <1>3
<1>8. PartialLast'
  <2> SUFFICES ASSUME NEW s \in request_states', Partial(s)'
               PROVE  /\ running_queue' # <<>> /\ s = Last(running_queue')
                      /\ waiting_queue' # <<>> /\ s = Head(waiting_queue')
    BY DEF PartialLast
  <2>1. s \in request_states
    BY <1>3, <1>5 DEF Partial
  <2>2. Partial(s)
    BY <1>6, <2>1 DEF Partial
  <2>3. /\ running_queue # <<>> /\ s = Last(running_queue)
        /\ waiting_queue # <<>> /\ s = Head(waiting_queue)
    BY <2>1, <2>2 DEF FInv, PartialLast
  <2> QED BY <1>3, <1>7, <2>3
<1>9. Begun'
  <2> SUFFICES ASSUME NEW s \in request_states', Decodes(s)' PROVE Only(s)'.committed > 0
    BY DEF Begun
  <2>1. s \in request_states
    BY <1>3, <1>5 DEF Decodes
  <2> QED BY <1>6, <2>1 DEF Decodes, FInv, Begun
<1> QED BY <1>3, <1>8, <1>9 DEF FInv, WholeButLast, Proceeds, InStep, NoFault

\* A request that leaves is not the one that is prefilled in part, or none is.
LEMMA LeavesPartial ==
  ASSUME SingleGeneration, IInv, FInv, NEW r \in request_states,
         request_states' = request_states \ {r},
         \A s \in request_states \ {r} : entries'[s] = entries[s],
         running_queue' = InOrder(running_queue, Requests \ {r}),
         waiting_queue' = InOrder(waiting_queue, Requests \ {r})
  PROVE  PartialLast' /\ Begun'
<1>1. /\ running_queue \in Seq(Requests) /\ waiting_queue \in Seq(Requests)
      /\ Distinct(running_queue) /\ Distinct(waiting_queue) /\ request_states \subseteq Requests
  BY DEF IInv, Shape, TypeOK, QueuesOK, Core, InQueues
<1>2. \A s \in request_states' : s \in request_states /\ s # r /\ s \in Requests /\ Only(s)' = Only(s)
  BY <1>1 DEF Only
<1>3. PartialLast'
  <2> SUFFICES ASSUME NEW s \in request_states', Partial(s)'
               PROVE  /\ running_queue' # <<>> /\ s = Last(running_queue')
                      /\ waiting_queue' # <<>> /\ s = Head(waiting_queue')
    BY DEF PartialLast
  <2>1. /\ running_queue # <<>> /\ s = Last(running_queue)
        /\ waiting_queue # <<>> /\ s = Head(waiting_queue)
    BY <1>2 DEF Partial, FInv, PartialLast
  <2>2. PICK n \in Nat : n = Len(running_queue) /\ n >= 1 /\ running_queue[n] = s
    BY <1>1, <2>1, FrontPositions
  <2>3. PICK w \in Nat : w = Len(waiting_queue) /\ w >= 1 /\ waiting_queue[1] = s
    BY <1>1, <2>1
  <2>4. PICK S : S = Requests \ {r}
    OBVIOUS
  <2>5. s \in S
    BY <1>2, <2>4
  <2>6. InOrder(running_queue, S) # <<>> /\ Last(InOrder(running_queue, S)) = running_queue[n]
    <3>1. n \in 1..Len(running_queue) /\ \A j \in 1..Len(running_queue) : ~(n < j)
      BY <2>2
    <3> QED BY <1>1, <2>2, <2>5, <3>1, InOrderLast
  <2>7. InOrder(waiting_queue, S) # <<>> /\ Head(InOrder(waiting_queue, S)) = waiting_queue[1]
    <3>1. 1 \in 1..Len(waiting_queue) /\ \A j \in 1..Len(waiting_queue) : ~(j < 1)
      BY <2>3
    <3> QED BY <1>1, <2>3, <2>5, <3>1, InOrderHead
  <2> QED BY <2>2, <2>3, <2>4, <2>6, <2>7
<1>4. Begun'
  BY <1>2 DEF FInv, Begun, Decodes
<1> QED BY <1>3, <1>4

\* An abort.
LEMMA AbortGoesOn ==
  ASSUME SingleGeneration, IInv, FInv, NEW r \in Requests, AbortRequest(r)
  PROVE  FInv'
<1>1. /\ enginePc = "idle" /\ r \in request_states /\ DropRequest(r)
  BY AliveAreCached DEF AbortRequest
<1>2. /\ enginePc' = "idle" /\ fault' = fault /\ request_states' = request_states \ {r}
      /\ running_queue' = InOrder(running_queue, Requests \ {r})
      /\ waiting_queue' = InOrder(waiting_queue, Requests \ {r})
      /\ entries' = [entries EXCEPT ![r] = <<>>]
  BY <1>1 DEF DropRequest
<1>3. \A s \in request_states \ {r} : entries'[s] = entries[s]
  BY <1>2 DEF IInv, Shape, TypeOK, EntriesOK, Trees, QueuesOK
<1>4. PartialLast' /\ Begun'
  BY <1>1, <1>2, <1>3, LeavesPartial
<1> QED BY <1>2, <1>4 DEF FInv, WholeButLast, Proceeds, InStep, NoFault

\* An entry that finishes.
LEMMA FinishedGoesOn ==
  ASSUME SingleGeneration, IInv, FInv, FinishEntry
  PROVE  FInv'
<1>1. Shape /\ Core /\ ToFinish /\ enginePc' # "failed"
  BY FinishGoesOn DEF IInv
<1>2. PICK r \in request_states :
        /\ request_states' = request_states \ {r}
        /\ \A s \in request_states \ {r} : entries'[s] = entries[s]
        /\ running_queue' = InOrder(running_queue, Requests \ {r})
        /\ waiting_queue' = InOrder(waiting_queue, Requests \ {r})
        /\ enginePc' = IF Tail(finished_rsentries) = <<>> THEN "idle" ELSE "finish"
        /\ UNCHANGED fault
  BY <1>1, FinishSingle
<1>3. PartialLast' /\ Begun'
  BY <1>2, LeavesPartial
<1> QED BY <1>2, <1>3 DEF FInv, WholeButLast, Proceeds, InStep, NoFault

\* A decode leaves the queues alone, and adds a token to the entries of its batch.
LEMMA DecodedGoesOn ==
  ASSUME SingleGeneration, IInv, LInv, FInv, BatchDecode
  PROVE  FInv'
<1>1. enginePc = "decode" /\ BatchIsSound /\ Decode /\ Shape /\ Core /\ StillDecodes /\ TypeOK
  BY DecodeGoesOn DEF BatchDecode, IInv, Shape
<1>2. UNCHANGED <<running_queue, waiting_queue, request_states>> /\ fault' = fault
  BY <1>1 DEF Decode, queueVars
<1>3. /\ enginePc' \in {"idle", "finish"}
      /\ \A s \in request_states :
           /\ Only(s)'.status = Only(s).status /\ Only(s)'.inputs = Only(s).inputs
           /\ \/ Only(s)'.committed = Only(s).committed + 1
              \/ Only(s)'.committed = Only(s).committed
  BY <1>1, DecodedEntries
<1>4. PartialLast'
  BY <1>2, <1>3 DEF FInv, PartialLast, Partial
<1>5. Begun'
  <2>1. \A s \in request_states : Only(s).committed \in Nat
    BY <1>1, OnlyFacts DEF EntryType
  <2> QED BY <1>2, <1>3, <2>1 DEF FInv, Begun, Decodes
<1> QED BY <1>2, <1>3, <1>4, <1>5 DEF FInv, WholeButLast, Proceeds, InStep, NoFault


-----------------------------------------------------------------------------
(* The selection.                                                          *)

\* Tokens added at a time need at most one page less than they would on their own.
LEMMA PagesApart ==
  ASSUME deployment \in Deployments, NEW a \in Nat, NEW b \in Nat
  PROVE  Pages(a) + Pages(b) <= Pages(a + b) + 1
<1>1. PICK p \in Nat \ {0} : p = PageSize
  BY LimitFacts
<1>2. PICK i \in Nat, j \in Nat, k \in Nat : i = Pages(a) /\ j = Pages(b) /\ k = Pages(a + b)
  BY PagesCover
<1>3. p * i < a + p /\ p * j < b + p
  BY <1>1, <1>2, PagesCover
<1>4. p * k >= a + b
  <2>1. a + b \in Nat
    OBVIOUS
  <2> QED BY <1>1, <1>2, <2>1, PagesCover
<1>5. p * (i + j) = p * i + p * j /\ p * (k + 1) = p * k + p
  OBVIOUS
<1>6. p * k \in Nat /\ p * i \in Nat /\ p * j \in Nat
  OBVIOUS
<1>7. p * (i + j) < p * (k + 1) + p
  BY <1>3, <1>4, <1>5, <1>6
<1>8. i + j <= k + 1
  BY <1>7, FewerPages
<1> QED BY <1>2, <1>8

\* When no running request decodes, one at most is alive: the one prefilled in part.
LEMMA LonePartial ==
  ASSUME SingleGeneration, IInv, PartialLast, running_queue # <<>>, ComputeRunning = <<>>
  PROVE  \E r \in request_states :
           /\ Partial(r) /\ waiting_queue # <<>> /\ r = Head(waiting_queue)
           /\ \A s \in request_states : Only(s).status = "kAlive" => s = r
<1>1. PICK n \in Nat : n = Len(running_queue) /\ n >= 1
  BY RunningQueueFacts
<1>2. \A k \in 1..n : ~Decodes(running_queue[k])
  <2>1. Len(ComputeRunning) = 0
    OBVIOUS
  <2>2. \A k \in 1..n : ~(k <= 0)
    OBVIOUS
  <2> QED BY <1>1, <2>1, <2>2, RunningPositions
<1>3. \A k \in 1..n : /\ running_queue[k] \in request_states /\ Partial(running_queue[k])
                      /\ waiting_queue # <<>> /\ running_queue[k] = Head(waiting_queue)
  BY <1>1, <1>2, RunningQueueFacts DEF PartialLast
<1>4. PICK r \in request_states : r = running_queue[1] /\ Partial(r) /\ waiting_queue # <<>> /\ r = Head(waiting_queue)
  BY <1>1, <1>3
<1>5. ASSUME NEW s \in request_states, Only(s).status = "kAlive" PROVE s = r
  <2>1. PICK k \in 1..n : running_queue[k] = s
    BY <1>1, <1>5, RunningQueueFacts
  <2> QED BY <1>3, <1>4, <2>1
<1> QED BY <1>4, <1>5

\* A lone sequence is shorter than max_single_sequence_length, with the input still to prefill.
LEMMA LoneLength ==
  ASSUME SingleGeneration, IInv, LInv, enginePc \notin {"finish", "failed"},
         NEW r \in request_states, Only(r).status = "kAlive"
  PROVE  /\ kv[Only(r).id] \in Nat /\ Only(r).inputs \in Nat
         /\ kv[Only(r).id] + Only(r).inputs < MaxSingle
<1>1. TypeOK /\ deployment \in Deployments
  BY DEF IInv, Shape, TypeOK
<1>2. Only(r).inputs \in Nat /\ Only(r).committed \in Nat /\ r \in Requests
      /\ Only(r).num_tokens_for_next_decode \in Nat
  BY <1>1, OnlyFacts DEF EntryType
<1>3. PromptTokens[r] \in Nat /\ MaxSingle \in Nat
  BY <1>1, <1>2, SingleFacts, LimitFacts
<1>4. PICK c : c = Only(r).id
  OBVIOUS
<1>5. c \in DOMAIN kv
  BY <1>4 DEF IInv, Core, InCache
<1>6. kv[c] \in Nat
  BY <1>1, <1>5 DEF TypeOK, StepOK
<1>7. kv[c] + Only(r).inputs + Only(r).num_tokens_for_next_decode = PromptTokens[r] + Only(r).committed
  BY <1>4 DEF IInv, Core, InCache
<1>8. PromptTokens[r] + Only(r).committed < MaxSingle
  BY DEF LInv, Lengths, Finishing, Short
<1> QED BY <1>2, <1>3, <1>4, <1>6, <1>7, <1>8

\* There is space to go on with the prefill of a lone sequence.
LEMMA LoneFits ==
  ASSUME SingleGeneration, Provisioned, IInv, LInv, enginePc \notin {"finish", "failed"},
         NEW r \in request_states, Only(r).status = "kAlive",
         \A s \in request_states : Only(s).status = "kAlive" => s = r,
         NEW a \in Nat, a <= Only(r).inputs
  PROVE  HasPrefillSpace(Pages(a), 1, a)
<1>1. deployment \in Deployments
  BY DEF IInv, Shape, TypeOK
<1>2. PICK l \in Nat : l = kv[Only(r).id]
  BY LoneLength
<1>3. l + a < MaxSingle
  <2>1. l + Only(r).inputs < MaxSingle /\ Only(r).inputs \in Nat /\ MaxSingle \in Nat
    BY <1>1, <1>2, LoneLength, LimitFacts
  <2> QED BY <2>1
<1>4. GetNumAvailablePages = NumPages - Pages(l) /\ GetCurrentTotalSequenceLength = l
  BY <1>2, LoneSequence
<1>5. PICK ms \in Nat : ms = MaxSingle
  BY <1>1, LimitFacts
<1>6. PICK la \in Nat : la = l + a
  OBVIOUS
<1>7. Pages(la) <= Pages(ms) /\ Pages(la) \in Nat /\ Pages(ms) \in Nat /\ Pages(l) \in Nat /\ Pages(a) \in Nat
  <2>1. la <= ms
    <3>1. la < ms
      BY <1>3, <1>5, <1>6
    <3> QED BY <3>1
  <2>2. Pages(la) \in Nat /\ Pages(ms) \in Nat /\ Pages(la) <= Pages(ms)
    BY <1>1, <2>1, PagesAdd
  <2>3. Pages(l) \in Nat /\ Pages(a) \in Nat
    BY <1>1, PagesAdd
  <2> QED BY <2>2, <2>3
<1>8. Pages(l) + Pages(a) <= Pages(la) + 1
  BY <1>1, <1>6, PagesApart
<1>9. ms + 8 <= MaxTotal + 1 /\ Pages(ms) + 2 <= NumPages
  BY <1>1, <1>5, ProvisionedFacts
<1>10. NumPages \in Nat /\ MaxTotal \in Nat
  BY <1>1, LimitFacts
<1>11. Pages(a) + 1 <= NumPages - Pages(l)
  BY <1>7, <1>8, <1>9, <1>10
<1>12. l + a + 8 * 1 <= MaxTotal
  <2>1. PICK mt \in Nat : mt = MaxTotal
    BY <1>10
  <2>2. la < ms /\ ms + 8 <= mt + 1
    <3>1. la < ms
      BY <1>3, <1>5, <1>6
    <3>2. ms + 8 <= mt + 1
      BY <1>9, <2>1
    <3> QED BY <3>1, <3>2
  <2>3. la + 8 <= mt
    BY <2>2
  <2> QED BY <1>6, <2>1, <2>3
<1> QED BY <1>4, <1>11, <1>12 DEF HasPrefillSpace, DecodeWatermark

\* The selection begins.
LEMMA BeginPrefillGoesOn ==
  ASSUME SingleGeneration, IInv, LInv, FInv, BeginPrefill
  PROVE  FInv'
<1> DEFINE running == GetRunningRequestStateEntries
<1>1. /\ UNCHANGED <<running_queue, waiting_queue, request_states, entries>> /\ fault' = fault
      /\ enginePc' = "select" /\ cached_running_rsentries_' = running
  BY DEF BeginPrefill, queueVars, RefreshRunning
<1>2. running = ComputeRunning
  BY RefreshFacts DEF IInv, Shape
<1>3. /\ prefill'.chosen = <<>>
      /\ prefill'.todo = IF Len(running) <= GetNumAvailablePages THEN PrefillCandidates ELSE <<>>
      /\ prefill'.totalInput = SumFunction([q \in DOMAIN running |-> NextDecode(running[q])])
  BY DEF BeginPrefill, NoSelection
<1> HIDE DEF running
<1>4. PartialLast' /\ Begun'
  BY <1>1, KeepsPartial
<1>5. ASSUME running_queue # <<>>, running = <<>> PROVE prefill'.todo # <<>> /\ prefill'.totalInput = 0
  <2>1. waiting_queue # <<>> /\ waiting_queue \in Seq(Requests)
    BY <1>2, <1>5, LonePartial DEF FInv, IInv, Shape, TypeOK, QueuesOK
  <2>2. Len(running) <= GetNumAvailablePages
    BY <1>5 DEF LInv, Room
  <2>3. Len(PrefillCandidates) = Len(waiting_queue) /\ Len(waiting_queue) # 0
    BY <2>1, CandidatesInTurn DEF IInv
  <2>4. PrefillCandidates # <<>>
    BY <2>3
  <2>5. PICK f : f = [q \in DOMAIN running |-> NextDecode(running[q])]
    OBVIOUS
  <2>6. DOMAIN f = {}
    BY <1>5, <2>5
  <2>7. SumFunction(f) = 0
    BY <2>6, FS_EmptySet, SumZero DEF SumFunction
  <2> QED BY <1>3, <2>2, <2>4, <2>5, <2>7
<1>6. Proceeds'
  BY <1>1, <1>5 DEF Proceeds
<1>7. WholeButLast'
  <2>1. Len(prefill'.chosen) = 0
    BY <1>3
  <2>2. 1..Len(prefill'.chosen) = {}
    BY <2>1
  <2> QED BY <2>2 DEF WholeButLast
<1> QED BY <1>1, <1>4, <1>6, <1>7 DEF FInv, InStep, NoFault

\* A whole entry is taken.
LEMMA TakeWholeGoesOn ==
  ASSUME SingleGeneration, IInv, FInv, TakeWhole
  PROVE  FInv'
<1> DEFINE x == Head(prefill.todo)
           p == PrefillInput(x, Entry(x).inputs, Max(Fitting(x)), FALSE)
<1>1. /\ UNCHANGED <<running_queue, waiting_queue, request_states, entries>> /\ fault' = fault
      /\ enginePc' = "select" /\ enginePc = "select" /\ prefill.todo # <<>>
  BY DEF TakeWhole, queueVars
<1>2. prefill'.chosen = Append(prefill.chosen, p)
  BY DEF TakeWhole
<1>3. p.rsentry = x /\ p.len = Entry(x).inputs
  BY DEF PrefillInput
<1>4. prefill.chosen \in Seq(InputType)
  BY DEF IInv, Shape, TypeOK, StepOK, PrefillType
<1>5. PICK c \in Nat : c = Len(prefill.chosen) /\ DOMAIN prefill.chosen = 1..c
  BY <1>4
<1> HIDE DEF x, p
<1>6. /\ Len(prefill'.chosen) = c + 1 /\ prefill'.chosen # <<>>
      /\ \A k \in 1..c : prefill'.chosen[k] = prefill.chosen[k]
      /\ prefill'.chosen[c + 1] = p
  BY <1>2, <1>4, <1>5
<1>7. PartialLast' /\ Begun'
  BY <1>1, KeepsPartial
<1>9. ASSUME NEW k \in 1..(c + 1) PROVE prefill'.chosen[k].len = Entry(prefill'.chosen[k].rsentry).inputs
  <2>1. CASE k = c + 1
    BY <1>3, <1>6, <2>1
  <2>2. CASE k \in 1..c
    <3>1. prefill.chosen[k].len = Entry(prefill.chosen[k].rsentry).inputs
      BY <1>1, <1>5, <2>2 DEF FInv, WholeButLast
    <3> QED BY <1>6, <2>2, <3>1
  <2> QED BY <2>1, <2>2
<1>10. WholeButLast'
  BY <1>1, <1>6, <1>9 DEF WholeButLast, Entry
<1> QED BY <1>1, <1>6, <1>7, <1>10 DEF FInv, Proceeds, InStep, NoFault


\* A part of an entry is taken; that of a lone sequence fits.
LEMMA TakeChunkGoesOn ==
  ASSUME SingleGeneration, Provisioned, IInv, LInv, FInv, TakeChunkAndStop
  PROVE  FInv'
<1> DEFINE x == Head(prefill.todo)
           room == ChunkSize - prefill.totalInput
           p == PrefillInput(x, room, 0, FALSE)
           taken == /\ 0 < room /\ room < Entry(x).inputs
                    /\ CanPrefill(prefill.num + 1, ChunkSize, prefill.pages + Pages(room))
<1>1. /\ UNCHANGED <<running_queue, waiting_queue, request_states, entries, cached_running_rsentries_>>
      /\ fault' = fault /\ Fitting(x) = {}
      /\ enginePc' = "select" /\ enginePc = "select" /\ prefill.todo # <<>>
  BY DEF TakeChunkAndStop, queueVars, cacheVars
<1>2. PICK sel \in PrefillType : sel = prefill
  BY DEF IInv, Shape, TypeOK, StepOK
<1>3. /\ prefill'.todo = <<>>
      /\ prefill'.chosen = IF taken THEN Append(prefill.chosen, p) ELSE prefill.chosen
  <2>1. prefill' = [prefill EXCEPT !.todo = <<>>, !.chosen = IF taken THEN Append(@, p) ELSE @]
    BY DEF TakeChunkAndStop
  <2> HIDE DEF p, taken
  <2>2. prefill' = [sel EXCEPT !.todo = <<>>, !.chosen = IF taken THEN Append(sel.chosen, p) ELSE sel.chosen]
    BY <1>2, <2>1
  <2>3. /\ prefill'.todo = <<>>
        /\ prefill'.chosen = IF taken THEN Append(sel.chosen, p) ELSE sel.chosen
    BY <2>2 DEF PrefillType
  <2> QED BY <1>2, <2>3
<1>4. /\ Shape /\ deployment \in Deployments /\ TypeOK /\ waiting_queue \in Seq(Requests)
      /\ prefill.chosen \in Seq(InputType) /\ prefill.todo \in Seq(Pairs) /\ prefill.totalInput \in Nat
  BY <1>2 DEF IInv, Shape, TypeOK, QueuesOK, PrefillType
<1>5. PICK c \in Nat : c = Len(prefill.chosen) /\ DOMAIN prefill.chosen = 1..c
  BY <1>4
<1> HIDE DEF p, taken
<1>6. WholeButLast'
  <2>1. \A k \in 1..c : prefill.chosen[k].len = Entry(prefill.chosen[k].rsentry).inputs
    BY <1>1, <1>5 DEF FInv, WholeButLast
  <2>2. ASSUME NEW k \in 1..Len(prefill'.chosen), k < Len(prefill'.chosen)
        PROVE  prefill'.chosen[k].len = Entry(prefill'.chosen[k].rsentry).inputs
    <3>1. CASE taken
      <4>1. /\ Len(prefill'.chosen) = c + 1
            /\ \A j \in 1..c : prefill'.chosen[j] = prefill.chosen[j]
        BY <1>3, <1>4, <1>5, <3>1
      <4>2. k \in 1..c
        BY <2>2, <4>1
      <4> QED BY <2>1, <4>1, <4>2
    <3>2. CASE ~taken
      BY <1>3, <1>5, <2>1, <2>2, <3>2
    <3> QED BY <3>1, <3>2
  <2> QED BY <1>1, <1>3, <2>2 DEF WholeButLast, Entry
<1>7. ASSUME running_queue # <<>>, cached_running_rsentries_ = <<>>, prefill.chosen = <<>> PROVE taken
  <2>1. ComputeRunning = <<>>
    BY <1>1, <1>7, CachedRunning
  <2>2. PICK r \in request_states :
          /\ Partial(r) /\ waiting_queue # <<>> /\ r = Head(waiting_queue)
          /\ \A s \in request_states : Only(s).status = "kAlive" => s = r
    BY <1>7, <2>1, LonePartial DEF FInv
  <2>3. x = <<r, 1>> /\ Entry(x) = Only(r) /\ x \in AllEntries
    <3>1. Len(prefill.chosen) = 0 /\ 1 \in 1..Len(prefill.todo) /\ x = prefill.todo[1]
      BY <1>1, <1>4, <1>7
    <3>2. \A k \in 1..Len(prefill.todo) :
            prefill.todo[k] = <<waiting_queue[Len(prefill.chosen) + k], 1>>
      BY <1>1 DEF IInv, InTurn
    <3>3. prefill.todo[1] = <<waiting_queue[0 + 1], 1>>
      BY <3>1, <3>2
    <3>4. waiting_queue[1] = r
      BY <1>4, <2>2
    <3>5. x = <<r, 1>>
      BY <3>1, <3>3, <3>4
    <3> QED BY <1>4, <3>5, OnlyFacts
  <2>4. prefill.totalInput = 0
    BY <1>1, <1>7 DEF FInv, Proceeds
  <2>5. prefill.num = 0 /\ prefill.pages = 0
    <3>1. prefill.num = Len(prefill.chosen) /\ prefill.pages = Len(cached_running_rsentries_) + PagesOf(prefill.chosen)
      BY <1>1 DEF LInv, Reserved
    <3>2. PagesOf(<<>>) = 0
      <4>1. PICK f : f = [q \in DOMAIN <<>> |-> Pages(<<>>[q].len)]
        OBVIOUS
      <4>2. DOMAIN f = {}
        BY <4>1
      <4>3. SumFunction(f) = 0
        BY <4>2, FS_EmptySet, SumZero DEF SumFunction
      <4> QED BY <4>1, <4>3 DEF PagesOf
    <3> QED BY <1>7, <3>1, <3>2
  <2>6. PICK a \in Nat : a = Only(r).inputs
    BY <1>4, OnlyFacts DEF EntryType
  <2>7. PICK chunk \in Nat \ {0} : chunk = ChunkSize
    BY <1>4, LimitFacts
  <2>8. \A b \in Nat : b <= a => HasPrefillSpace(Pages(b), 1, b)
    BY <1>1, <2>2, <2>6, LoneFits DEF Partial
  <2>9. Len(cached_running_rsentries_) = 0 /\ 1 <= BatchLimit
    <3>1. BatchLimit \in Nat \ {0}
      BY <1>4, LimitFacts
    <3> QED BY <1>7, <3>1
  <2>10. \A b, total \in Nat : b <= a /\ total = b /\ total <= chunk => CanPrefill(1, total, Pages(b))
    <3> SUFFICES ASSUME NEW b \in Nat, b <= a, b <= chunk PROVE CanPrefill(1, b, Pages(b))
      OBVIOUS
    <3>1. Len(cached_running_rsentries_) + 1 = 1
      BY <2>9
    <3> QED BY <2>7, <2>8, <2>9, <3>1 DEF CanPrefill
  <2>11. \A b \in Nat : Pages(b) \in Nat /\ 0 + Pages(b) = Pages(b)
    <3> TAKE b \in Nat
    <3>1. Pages(b) \in Nat
      BY <1>4, PagesFacts
    <3> QED BY <3>1
  <2>12. ~CanPrefill(1, a, Pages(a))
    <3>1. ~CanPrefill(prefill.num + 1, prefill.totalInput + Entry(x).inputs, prefill.pages + Pages(Entry(x).inputs))
      BY <1>1, <1>4, <2>3, FittingSingle
    <3>2. 0 + 1 = 1 /\ 0 + a = a /\ 0 + Pages(a) = Pages(a)
      BY <2>11
    <3>3. prefill.num + 1 = 1 /\ prefill.totalInput + Entry(x).inputs = a /\ prefill.pages + Pages(Entry(x).inputs) = Pages(a)
      BY <2>3, <2>4, <2>5, <2>6, <3>2
    <3> HIDE DEF x
    <3> QED BY <3>1, <3>3
  <2>13. chunk < a
    <3> SUFFICES ASSUME a <= chunk PROVE FALSE
      OBVIOUS
    <3> QED BY <2>10, <2>12
  <2>14. room = chunk /\ 0 < chunk
    BY <2>4, <2>7
  <2>15. CanPrefill(0 + 1, chunk, 0 + Pages(chunk))
    <3>1. CanPrefill(1, chunk, Pages(chunk))
      BY <2>10, <2>13
    <3>2. 0 + 1 = 1 /\ 0 + Pages(chunk) = Pages(chunk)
      BY <2>11
    <3> QED BY <3>1, <3>2
  <2> HIDE DEF x, room
  <2> QED BY <2>3, <2>5, <2>6, <2>7, <2>13, <2>14, <2>15 DEF taken
<1>8. Proceeds'
  <2> SUFFICES ASSUME running_queue # <<>>, cached_running_rsentries_ = <<>> PROVE prefill'.chosen # <<>>
    BY <1>1 DEF Proceeds
  <2>1. CASE prefill.chosen = <<>>
    <3>1. prefill'.chosen = Append(prefill.chosen, p)
      BY <1>3, <1>7, <2>1
    <3> QED BY <1>4, <3>1
  <2>2. CASE prefill.chosen # <<>>
    <3>1. Append(prefill.chosen, p) # <<>>
      BY <1>4
    <3> QED BY <1>3, <2>2, <3>1
  <2> QED BY <2>1, <2>2
<1>9. PartialLast' /\ Begun'
  BY <1>1, KeepsPartial
<1> QED BY <1>1, <1>6, <1>8, <1>9 DEF FInv, InStep, NoFault

\* The decode actions begin with the running entries, of which there are some.
LEMMA StartsInStep ==
  ASSUME SingleGeneration, IInv, PartialLast, UNCHANGED <<running_queue, entries>>,
         running_rsentries' = ComputeRunning, running_queue # <<>> => ComputeRunning # <<>>,
         enginePc' = "decode" => running_queue # <<>>
  PROVE  InStep'
<1>1. /\ Len(ComputeRunning) <= Len(running_queue)
      /\ \A k \in 1..Len(ComputeRunning) : ComputeRunning[k] = <<running_queue[k], 1>>
      /\ \A k \in 1..Len(running_queue) : Decodes(running_queue[k]) <=> k <= Len(ComputeRunning)
  BY RunningPositions
<1>2. \A r : Decodes(r)' <=> Decodes(r)
  BY DEF Decodes, Only
<1>3. PICK s : s = ComputeRunning
  OBVIOUS
<1> QED BY <1>1, <1>2, <1>3 DEF InStep, Decodes, Only

\* Nothing to prefill.
LEMMA NothingGoesOn ==
  ASSUME SingleGeneration, IInv, FInv, NothingToPrefill
  PROVE  FInv'
<1>1. /\ UNCHANGED <<running_queue, waiting_queue, request_states, entries, deployment>> /\ fault' = fault
      /\ enginePc = "select" /\ prefill.todo = <<>> /\ prefill.chosen = <<>>
  BY DEF NothingToPrefill, queueVars
<1>2. cached_running_rsentries_ = ComputeRunning
  BY <1>1, CachedRunning
<1>3. running_queue # <<>> => ComputeRunning # <<>>
  BY <1>1, <1>2 DEF FInv, Proceeds
<1>4. /\ enginePc' \in {"idle", "jumpForward", "decode"}
      /\ enginePc' # "idle" => running_rsentries' = ComputeRunning
      /\ enginePc' = "decode" => running_queue # <<>>
  <2>1. CASE Disaggregation
    <3>1. BeginDecode
      BY <2>1 DEF NothingToPrefill
    <3>2. enginePc' \in {"idle", "decode"} /\ (enginePc' = "decode" => running_rsentries' = ComputeRunning)
      BY <1>1, <3>1, BeginDecodeFacts DEF IInv
    <3> QED BY <3>1, <3>2 DEF BeginDecode
  <2>2. CASE ~Disaggregation
    BY <1>2, <2>2 DEF NothingToPrefill
  <2> QED BY <2>1, <2>2
<1>5. PartialLast' /\ Begun'
  BY <1>1, KeepsPartial
<1>6. InStep'
  <2>1. CASE enginePc' = "idle"
    BY <2>1 DEF InStep
  <2>2. CASE enginePc' # "idle"
    BY <1>1, <1>3, <1>4, <2>2, StartsInStep DEF FInv
  <2> QED BY <2>1, <2>2
<1> QED BY <1>1, <1>4, <1>5, <1>6 DEF FInv, WholeButLast, Proceeds, NoFault

\* On from jump-forward to decode.
LEMMA JumpForwardDoneGoesOn ==
  ASSUME SingleGeneration, IInv, FInv, JumpForwardDone
  PROVE  FInv'
<1>1. /\ UNCHANGED <<running_queue, waiting_queue, request_states, entries, deployment>> /\ fault' = fault
      /\ enginePc = "jumpForward" /\ BeginDecode
  BY DEF JumpForwardDone, queueVars
<1>2. running_queue # <<>> => ComputeRunning # <<>>
  <2> SUFFICES ASSUME running_queue # <<>>, ComputeRunning = <<>> PROVE FALSE
    OBVIOUS
  <2>1. PICK n \in Nat : n = Len(running_queue) /\ n >= 1
    BY RunningQueueFacts
  <2>2. running_rsentries # <<>> /\ running_rsentries \in Seq(Pairs)
    BY <1>1 DEF FInv, InStep, IInv, Shape, TypeOK, StepOK
  <2>3. PICK m \in Nat : m = Len(running_rsentries) /\ m >= 1
    BY <2>2
  <2>4. 1 \in 1..n /\ 1 <= m /\ Len(ComputeRunning) = 0 /\ ~(1 <= 0)
    BY <2>1, <2>3
  <2>5. Decodes(running_queue[1]) <=> 1 <= m
    BY <1>1, <2>1, <2>3, <2>4 DEF FInv, InStep
  <2>6. Decodes(running_queue[1]) <=> 1 <= Len(ComputeRunning)
    BY <2>1, <2>4, RunningPositions DEF FInv
  <2> QED BY <2>4, <2>5, <2>6
<1>3. /\ enginePc' \in {"idle", "decode"}
      /\ enginePc' # "idle" => running_rsentries' = ComputeRunning
      /\ enginePc' = "decode" => running_queue # <<>>
  <2>1. enginePc' \in {"idle", "decode"} /\ (enginePc' = "decode" => running_rsentries' = ComputeRunning)
    BY <1>1, BeginDecodeFacts DEF IInv
  <2> QED BY <1>1, <2>1 DEF BeginDecode
<1>4. PartialLast' /\ Begun'
  BY <1>1, KeepsPartial
<1>5. InStep'
  <2>1. CASE enginePc' = "idle"
    BY <2>1 DEF InStep
  <2>2. CASE enginePc' # "idle"
    BY <1>1, <1>2, <1>3, <2>2, StartsInStep DEF FInv
  <2> QED BY <2>1, <2>2
<1> QED BY <1>1, <1>3, <1>4, <1>5 DEF FInv, WholeButLast, Proceeds, NoFault


-----------------------------------------------------------------------------
(* Preemption.                                                             *)

\* The last running request is preempted, or aborted; the others go on.
LEMMA PreemptedLeaves ==
  ASSUME SingleGeneration, IInv, FInv, enginePc \in {"jumpForward", "decode"}, PreemptLast,
         running_queue # <<>>, NEW r, r = Last(running_queue)
  PROVE  /\ UNCHANGED <<enginePc, fault>>
         /\ running_queue' = Front(running_queue)
         /\ \A s \in request_states' : s \in request_states /\ (Only(s)'.status = "kPending" \/ (s # r /\ Only(s)' = Only(s)))
         /\ \A s \in request_states : s # r => s \in request_states' /\ Only(s)' = Only(s)
         /\ running_rsentries' = IF Last(running_rsentries) = <<r, 1>> THEN Front(running_rsentries)
                                 ELSE running_rsentries
<1>1. /\ Shape /\ Core /\ TypeOK /\ running_queue \in Seq(Requests) /\ Distinct(running_queue)
      /\ request_states \subseteq Requests /\ DOMAIN entries = Requests
  BY DEF IInv, Shape, TypeOK, QueuesOK, EntriesOK, Trees, Core, InQueues
<1>2. PICK n \in Nat : n = Len(running_queue) /\ n >= 1 /\ Last(running_queue) = running_queue[n]
  BY RunningQueueFacts
<1>3. r = running_queue[n] /\ r \in request_states /\ r \in Requests /\ Only(r).status = "kAlive"
  BY <1>2, RunningQueueFacts
<1>4. AliveIds(r) # {} /\ AliveIds(r) \subseteq DOMAIN kv
  <2>1. AliveIds(r) = {Only(r).id}
    BY <1>1, <1>3, OnlyFacts
  <2> QED BY <1>3, <2>1, AliveAreCached
<1>5. LastAlive(r) = 1
  <2>1. LastAlive(r) \in DOMAIN entries[r]
    BY <1>1, <1>3, <1>4, LastAliveFacts
  <2> QED BY <1>1, <1>3, <2>1, OnlyFacts
<1>6. (IF Disaggregation THEN DropRequest(r) ELSE PreemptEntry(r, 1)) /\ ForgetPreempted(<<r, 1>>)
  <2>1. /\ IF Disaggregation THEN DropRequest(r) ELSE PreemptEntry(r, LastAlive(r))
        /\ ForgetPreempted(<<r, LastAlive(r)>>)
    BY <1>4 DEF PreemptLast
  <2> QED BY <1>5, <2>1
<1>7. CASE Disaggregation
  <2>1. DropRequest(r)
    BY <1>6, <1>7
  <2>2. /\ UNCHANGED <<enginePc, fault>> /\ request_states' = request_states \ {r}
        /\ running_queue' = InOrder(running_queue, Requests \ {r})
        /\ entries' = [entries EXCEPT ![r] = <<>>]
    BY <2>1 DEF DropRequest
  <2>3. InOrder(running_queue, Requests \ {r}) = Front(running_queue)
    <3>1. \A i \in 1..(n - 1) : running_queue[i] \in Requests \ {r}
      <4> TAKE i \in 1..(n - 1)
      <4>1. i \in 1..n /\ n \in 1..n /\ i # n
        BY <1>2
      <4>2. running_queue[i] # running_queue[n]
        BY <1>1, <1>2, <4>1 DEF Distinct
      <4>3. running_queue[i] \in Requests
        BY <1>1, <1>2, <4>1
      <4> QED BY <1>3, <4>2, <4>3
    <3>2. PICK S : S = Requests \ {r}
      OBVIOUS
    <3>3. InOrder(running_queue, S) = Front(running_queue)
      BY <1>1, <1>2, <3>1, <3>2, InOrderFront
    <3> QED BY <3>2, <3>3
  <2>4. \A s \in request_states : s # r => Only(s)' = Only(s)
    BY <1>1, <2>2 DEF Only
  <2> QED BY <1>6, <2>2, <2>3, <2>4 DEF ForgetPreempted
<1>8. CASE ~Disaggregation
  <2>1. PreemptEntry(r, 1)
    BY <1>6, <1>8
  <2>2. /\ request_states' = request_states
        /\ \A s \in request_states : IF s = r THEN Only(s)'.status = "kPending" ELSE Only(s)' = Only(s)
    BY <1>1, <2>1, PreemptCore
  <2>3. UNCHANGED <<enginePc, fault>> /\ running_queue' = Front(running_queue)
    <3>1. UNCHANGED <<enginePc, fault>> /\ LeaveRunning(r, 1)
      BY <2>1 DEF PreemptEntry
    <3> QED BY <3>1 DEF LeaveRunning
  <2>4. \A s \in request_states' : s \in request_states /\ (Only(s)'.status = "kPending" \/ (s # r /\ Only(s)' = Only(s)))
    BY <2>2
  <2>5. \A s \in request_states : s # r => s \in request_states' /\ Only(s)' = Only(s)
    BY <2>2
  <2>6. running_rsentries' = IF Last(running_rsentries) = <<r, 1>> THEN Front(running_rsentries)
                             ELSE running_rsentries
    BY <1>6 DEF ForgetPreempted
  <2> QED BY <2>3, <2>4, <2>5, <2>6
<1> QED BY <1>7, <1>8

\* A request that runs alone is never preempted for a decode.
LEMMA LoneDecodes ==
  ASSUME SingleGeneration, Provisioned, IInv, LInv, FInv, enginePc = "decode", Len(running_queue) = 1
  PROVE  CanDecode
<1>1. deployment \in Deployments /\ running_rsentries \in Seq(Pairs)
  BY DEF IInv, Shape, TypeOK, StepOK
<1>2. Len(running_rsentries) \in Nat /\ Len(running_rsentries) <= 1
  BY <1>1 DEF FInv, InStep
<1>3. PICK r \in request_states : r = running_queue[1] /\ Only(r).status = "kAlive"
  BY RunningQueueFacts
<1>4. \A s \in request_states : Only(s).status = "kAlive" => s = r
  <2> SUFFICES ASSUME NEW s \in request_states, Only(s).status = "kAlive" PROVE s = r
    OBVIOUS
  <2>1. PICK k \in 1..Len(running_queue) : running_queue[k] = s
    BY RunningQueueFacts
  <2>2. k = 1
    OBVIOUS
  <2> QED BY <1>3, <2>1, <2>2
<1>5. PICK l \in Nat : l = kv[Only(r).id]
  BY <1>3, LoneLength
<1>6. PICK ms \in Nat : ms = MaxSingle
  BY <1>1, LimitFacts
<1>7. l <= ms
  <2>1. l + Only(r).inputs < ms /\ Only(r).inputs \in Nat
    BY <1>3, <1>5, <1>6, LoneLength
  <2> QED BY <2>1
<1>8. Pages(l) \in Nat /\ Pages(ms) \in Nat /\ Pages(l) <= Pages(ms)
  BY <1>1, <1>7, PagesAdd
<1>9. Pages(ms) + 2 <= NumPages
  BY <1>1, <1>6, ProvisionedFacts
<1>10. NumPages \in Nat
  BY <1>1, LimitFacts
<1>11. GetNumAvailablePages = NumPages - Pages(l)
  BY <1>3, <1>4, <1>5, LoneSequence
<1>12. 1 <= NumPages - Pages(l)
  BY <1>8, <1>9, <1>10
<1>13. Len(running_rsentries) <= NumPages - Pages(l)
  BY <1>2, <1>8, <1>10, <1>12
<1> QED BY <1>11, <1>13 DEF CanDecode

\* A preemption leaves the decode actions with the running requests that are left.
LEMMA PreemptGoesOn ==
  ASSUME SingleGeneration, Provisioned, IInv, LInv, FInv, PreemptLast,
         \/ enginePc = "jumpForward" /\ running_queue # <<>>
         \/ enginePc = "decode" /\ ~CanDecode
  PROVE  FInv'
<1>1. running_rsentries \in Seq(Pairs) /\ running_queue \in Seq(Requests) /\ Distinct(running_queue)
  BY RunningQueueFacts DEF IInv, Shape, TypeOK, StepOK
<1>2. enginePc \in {"jumpForward", "decode"} /\ running_rsentries # <<>>
  BY DEF FInv, InStep
<1>3. PICK m \in Nat : m = Len(running_rsentries) /\ m >= 1 /\ DOMAIN running_rsentries = 1..m
  BY <1>1, <1>2
<1>4. PICK n \in Nat : n = Len(running_queue) /\ DOMAIN running_queue = 1..n
  BY <1>1
<1>5. /\ m <= n
      /\ \A k \in 1..m : running_rsentries[k] = <<running_queue[k], 1>>
      /\ \A k \in 1..n : Decodes(running_queue[k]) <=> k <= m
  BY <1>2, <1>3, <1>4 DEF FInv, InStep
<1>6. n >= 1 /\ running_queue # <<>>
  BY <1>1, <1>3, <1>4, <1>5
<1>7. \A k \in 1..n : k < n => Decodes(running_queue[k])
  BY <1>4, AllButLastDecode DEF FInv
<1>8. m = n \/ m = n - 1
  <2> SUFFICES ASSUME m < n - 1 PROVE FALSE
    BY <1>5
  <2>1. m + 1 \in 1..n /\ m + 1 < n /\ ~(m + 1 <= m)
    OBVIOUS
  <2> QED BY <1>5, <1>7, <2>1
<1>9. PICK r : r = Last(running_queue)
  OBVIOUS
<1>10. /\ UNCHANGED <<enginePc, fault>>
       /\ running_queue' = Front(running_queue)
       /\ \A s \in request_states' : s \in request_states /\ (Only(s)'.status = "kPending" \/ (s # r /\ Only(s)' = Only(s)))
       /\ \A s \in request_states : s # r => s \in request_states' /\ Only(s)' = Only(s)
       /\ running_rsentries' = IF Last(running_rsentries) = <<r, 1>> THEN Front(running_rsentries)
                               ELSE running_rsentries
  BY <1>2, <1>6, <1>9, PreemptedLeaves
<1>11. r = running_queue[n] /\ \A k \in 1..n : k < n => running_queue[k] # r
  <2>1. r = running_queue[n] /\ n \in 1..n
    <3>1. Last(running_queue) = running_queue[n]
      BY <1>4, <1>6, RunningQueueFacts
    <3> QED BY <1>6, <1>9, <3>1
  <2> QED BY <1>1, <1>4, <2>1 DEF Distinct
<1>12. /\ running_queue' \in Seq(Requests) /\ Len(running_queue') = n - 1
       /\ \A k \in 1..(n - 1) : running_queue'[k] = running_queue[k]
  BY <1>1, <1>4, <1>6, <1>10, FrontPositions
<1>13. /\ running_rsentries' \in Seq(Pairs) /\ Len(running_rsentries') = n - 1
       /\ \A k \in 1..(n - 1) : running_rsentries'[k] = <<running_queue[k], 1>>
  <2>1. /\ Front(running_rsentries) \in Seq(Pairs) /\ Len(Front(running_rsentries)) = m - 1
        /\ \A k \in 1..(m - 1) : Front(running_rsentries)[k] = running_rsentries[k]
        /\ Last(running_rsentries) = running_rsentries[m]
    BY <1>1, <1>2, <1>3, FrontPositions
  <2>2. Last(running_rsentries) = <<running_queue[m], 1>>
    BY <1>3, <1>5, <2>1
  <2>3. CASE m = n
    <3>1. running_rsentries' = Front(running_rsentries)
      BY <1>10, <1>11, <2>2, <2>3
    <3>2. \A k \in 1..(n - 1) : k \in 1..m
      BY <2>3
    <3> QED BY <1>5, <2>1, <2>3, <3>1, <3>2
  <2>4. CASE m = n - 1
    <3>1. m \in 1..n /\ m < n
      BY <1>3, <2>4
    <3>2. Last(running_rsentries) # <<r, 1>>
      BY <1>11, <2>2, <3>1
    <3>3. running_rsentries' = running_rsentries
      BY <1>10, <3>2
    <3> QED BY <1>1, <1>3, <1>5, <2>4, <3>3
  <2> QED BY <1>8, <2>3, <2>4
<1>14. \A s \in request_states : Decodes(s) /\ s # r => Only(s)'.status = "kAlive" /\ Only(s)'.inputs = 0
  BY <1>10 DEF Decodes
<1>15. \A k \in 1..(n - 1) : /\ running_queue[k] \in request_states /\ running_queue[k] # r
                             /\ Decodes(running_queue[k])
  <2> TAKE k \in 1..(n - 1)
  <2>1. k \in 1..n /\ k < n
    BY <1>6
  <2> QED BY <1>4, <1>7, <1>11, <2>1, RunningQueueFacts
<1>16. \A k \in 1..Len(running_queue') : Decodes(running_queue[k])' <=> k <= Len(running_rsentries')
  <2> SUFFICES ASSUME NEW k \in 1..(n - 1) PROVE Decodes(running_queue[k])' /\ k <= n - 1
    BY <1>12, <1>13
  <2>1. PICK s \in request_states : s = running_queue[k] /\ s # r /\ Decodes(s)
    BY <1>15
  <2>2. running_queue'[k] = s
    BY <1>12, <2>1
  <2>3. Only(s)'.status = "kAlive" /\ Only(s)'.inputs = 0
    BY <1>14, <2>1
  <2> QED BY <2>2, <2>3 DEF Decodes, Only
<1>17. running_queue' # <<>> \/ enginePc' = "decode" => running_rsentries' # <<>>
  <2>1. CASE n = 1
    <3>1. running_queue' = <<>>
      BY <1>12, <2>1
    <3>2. enginePc # "decode"
      BY <1>4, <2>1, LoneDecodes
    <3> QED BY <1>10, <3>1, <3>2
  <2>2. CASE n # 1
    <3>1. Len(running_rsentries') # 0
      BY <1>6, <1>13, <2>2
    <3> QED BY <1>13, <3>1
  <2> QED BY <2>1, <2>2
<1>18. InStep'
  <2>1. Len(running_rsentries') <= Len(running_queue')
    BY <1>12, <1>13
  <2>2. \A k \in 1..Len(running_rsentries') : running_rsentries'[k] = <<running_queue'[k], 1>>
    BY <1>12, <1>13
  <2> QED BY <1>16, <1>17, <2>1, <2>2 DEF InStep
<1>19. PartialLast'
  <2> SUFFICES ASSUME NEW s \in request_states', Partial(s)' PROVE FALSE
    BY DEF PartialLast
  <2>1. s \in request_states /\ s # r /\ Only(s)' = Only(s)
    BY <1>10 DEF Partial
  <2>2. Only(s).status = "kAlive" /\ Only(s).inputs > 0
    BY <2>1 DEF Partial
  <2>3. PICK k \in 1..n : running_queue[k] = s
    BY <1>4, <2>1, <2>2, RunningQueueFacts
  <2>4. k < n
    BY <1>11, <2>1, <2>3
  <2> QED BY <1>7, <2>2, <2>3, <2>4 DEF Decodes
<1>20. Begun'
  <2> SUFFICES ASSUME NEW s \in request_states', Decodes(s)' PROVE Only(s)'.committed > 0
    BY DEF Begun
  <2>1. s \in request_states /\ Only(s)' = Only(s)
    BY <1>10 DEF Decodes
  <2> QED BY <2>1 DEF Decodes, FInv, Begun
<1> QED BY <1>2, <1>10, <1>18, <1>19, <1>20 DEF FInv, WholeButLast, Proceeds, NoFault


-----------------------------------------------------------------------------
(* The prefill.                                                            *)

\* Only the last of the chosen entries may be left with input, and it is not one that decodes.
LEMMA LeftInPart ==
  ASSUME SingleGeneration, IInv, LInv, FInv, enginePc = "select", prefill.todo = <<>>,
         prefill.chosen # <<>>, PrefillGoesAhead, NEW s \in request_states, Partial(s)'
  PROVE  \E c \in Nat :
           /\ c = Len(prefill.chosen) /\ c >= 1 /\ c <= Len(waiting_queue)
           /\ waiting_queue[c] = s /\ prefill.chosen[c].rsentry = <<s, 1>>
           /\ Only(s).inputs > 0
<1> DEFINE es == EntriesAfterPrefill(PrefillInputs)
<1>1. /\ Shape /\ Core /\ InTurn /\ TypeOK /\ prefill.chosen \in Seq(InputType)
      /\ waiting_queue \in Seq(Requests)
  BY DEF IInv, Shape, TypeOK, StepOK, PrefillType, QueuesOK
<1>2. PICK c \in Nat : c = Len(prefill.chosen) /\ c >= 1 /\ DOMAIN prefill.chosen = 1..c
  BY <1>1
<1>3. c <= Len(waiting_queue) /\ \A k \in 1..c : prefill.chosen[k].rsentry = <<waiting_queue[k], 1>>
  <2>1. /\ Len(prefill.chosen) + Len(prefill.todo) <= Len(waiting_queue)
        /\ \A k \in 1..Len(prefill.chosen) : prefill.chosen[k].rsentry = <<waiting_queue[k], 1>>
    BY <1>1 DEF InTurn
  <2>2. Len(prefill.todo) = 0 /\ Len(waiting_queue) \in Nat
    BY <1>1
  <2> QED BY <1>2, <2>1, <2>2
<1>4. PICK e : e = es
  OBVIOUS
<1>5. Only(s)'.status = e[s][1].status /\ Only(s)'.inputs = e[s][1].inputs
  BY <1>1, <1>4, PrefilledEntries
<1>6. e[s][1].status = "kAlive" /\ e[s][1].inputs > 0
  BY <1>5 DEF Partial
<1>7. ASSUME \A p \in ToSet(PrefillInputs) : p.rsentry # <<s, 1>> PROVE FALSE
  <2>1. e[s][1] = Only(s)
    BY <1>1, <1>4, <1>7, PrefilledSingle
  <2>2. Partial(s)
    BY <1>6, <2>1 DEF Partial
  <2>3. s = Head(waiting_queue) /\ waiting_queue # <<>>
    BY <2>2 DEF FInv, PartialLast
  <2>4. waiting_queue[1] = s
    BY <1>1, <2>3
  <2>5. prefill.chosen[1].rsentry = <<s, 1>> /\ prefill.chosen[1] \in ToSet(prefill.chosen)
    <3>1. 1 \in 1..c
      BY <1>2
    <3> QED BY <1>1, <1>2, <1>3, <2>4, <3>1, ToSetFacts
  <2>6. prefill.chosen[1] \in ToSet(PrefillInputs)
    BY <1>1, <2>5, PrefillInputsFacts
  <2> QED BY <1>7, <2>5, <2>6
<1>8. PICK p \in ToSet(PrefillInputs) : p.rsentry = <<s, 1>>
  BY <1>7
<1>9. /\ ~p.isDecode /\ p.len \in 1..Only(s).inputs /\ e[s][1].inputs = Only(s).inputs - p.len
  <2>1. IF p.isDecode THEN e[s][1].inputs = 0
        ELSE p.len \in 1..Only(s).inputs /\ e[s][1].inputs = Only(s).inputs - p.len
    BY <1>1, <1>4, <1>8, PrefilledSingle
  <2>2. ~p.isDecode
    BY <1>6, <2>1
  <2> QED BY <2>1, <2>2
<1>10. PICK k \in 1..c : p = prefill.chosen[k]
  <2>1. p \in ToSet(prefill.chosen)
    BY <1>1, <1>8, <1>9, PrefillInputsFacts
  <2> QED BY <1>2, <2>1 DEF ToSet
<1>11. Only(s).inputs \in Nat
  BY <1>1, OnlyFacts DEF EntryType
<1>12. k = c
  <2> SUFFICES ASSUME k < c PROVE FALSE
    OBVIOUS
  <2>1. prefill.chosen[k].len = Entry(prefill.chosen[k].rsentry).inputs
    BY <1>2 DEF FInv, WholeButLast
  <2>2. p.len = Only(s).inputs
    BY <1>1, <1>8, <1>10, <2>1, OnlyFacts
  <2> QED BY <1>6, <1>9, <1>11, <2>2
<1>13. prefill.chosen[c].rsentry = <<s, 1>>
  BY <1>8, <1>10, <1>12
<1>14. waiting_queue[c] = s
  BY <1>2, <1>3, <1>13
<1>15. Only(s).inputs > 0
  BY <1>9, <1>11
<1> QED BY <1>2, <1>3, <1>13, <1>14, <1>15

\* What was chosen before it is prefilled in whole.
LEMMA PrefilledInWhole ==
  ASSUME SingleGeneration, IInv, LInv, FInv, enginePc = "select", prefill.chosen # <<>>, PrefillGoesAhead,
         NEW c, c = Len(prefill.chosen), NEW k \in 1..c, k < c
  PROVE  /\ waiting_queue[k] \in request_states /\ prefill.chosen[k].rsentry = <<waiting_queue[k], 1>>
         /\ Contains(RequestsOf(PrefillInputs), waiting_queue[k])
         /\ FullyPrefilled(EntriesAfterPrefill(PrefillInputs)[waiting_queue[k]])
<1> DEFINE es == EntriesAfterPrefill(PrefillInputs)
<1>1. /\ Shape /\ Core /\ InTurn /\ TypeOK /\ prefill.chosen \in Seq(InputType) /\ PrefillInputs \in Seq(InputType)
  BY PrefillInputsFacts DEF IInv, Shape, TypeOK, StepOK, PrefillType
<1>2. c \in Nat /\ DOMAIN prefill.chosen = 1..c
  BY <1>1
<1>3. prefill.chosen[k].rsentry = <<waiting_queue[k], 1>>
  BY <1>1, <1>2 DEF InTurn
<1>4. PICK p \in ToSet(PrefillInputs) : p = prefill.chosen[k] /\ p \in ToSet(prefill.chosen)
  <2>1. prefill.chosen[k] \in ToSet(prefill.chosen)
    BY <1>1, <1>2, ToSetFacts
  <2> QED BY <1>1, <2>1, PrefillInputsFacts
<1>5. PICK s : s = waiting_queue[k]
  OBVIOUS
<1>6. s \in request_states /\ p.rsentry = <<s, 1>> /\ Entry(p.rsentry) = Only(s)
  <2>1. p.rsentry = <<p.rsentry[1], 1>> /\ p.rsentry[1] \in request_states
    BY <1>1, <1>4, InputsApart
  <2>2. p.rsentry = <<s, 1>>
    BY <1>3, <1>4, <1>5
  <2>3. s \in request_states
    BY <2>1, <2>2
  <2> QED BY <1>1, <2>2, <2>3, OnlyFacts
<1>7. p.len = Only(s).inputs /\ ~p.isDecode /\ Only(s).inputs \in Nat /\ s \in Requests
  <2>1. prefill.chosen[k].len = Entry(prefill.chosen[k].rsentry).inputs
    BY <1>2 DEF FInv, WholeButLast
  <2>2. ~p.isDecode
    BY <1>1, <1>4 DEF Shape, Selected
  <2>3. Only(s).inputs \in Nat /\ s \in Requests
    BY <1>1, <1>6, OnlyFacts DEF EntryType
  <2> QED BY <1>4, <1>6, <2>1, <2>2, <2>3
<1>8. PICK e : e = es
  OBVIOUS
<1>9. e[s][1].status = "kAlive" /\ e[s][1].inputs = 0
  <2>1. e[s][1].status = "kAlive" /\ e[s][1].inputs = Only(s).inputs - p.len
    BY <1>1, <1>6, <1>7, <1>8, PrefilledSingle
  <2> QED BY <1>7, <2>1
<1>10. DOMAIN e[s] = {1}
  <2>1. Trees(es)
    BY <1>1, EntriesAfterPrefillTyped
  <2>2. e[s] \in [1..NumEntries(s) -> EntryType]
    BY <1>6, <1>7, <1>8, <2>1 DEF Trees
  <2>3. NumEntries(s) = 1
    BY <1>1, <1>7, SingleFacts DEF TypeOK
  <2> QED BY <2>2, <2>3
<1>11. FullyPrefilled(e[s])
  BY <1>9, <1>10 DEF FullyPrefilled
<1>12. Contains(RequestsOf(PrefillInputs), s)
  <2>1. s \in ToSet(RequestsOf(PrefillInputs))
    BY <1>1, <1>6, <1>8, PrefilledEntries
  <2>2. RequestsOf(PrefillInputs) \in Seq(Requests)
    BY <1>1, RequestsOfFacts
  <2> QED BY <2>1, <2>2, ContainsFacts
<1> QED BY <1>3, <1>5, <1>6, <1>8, <1>11, <1>12


\* A request that is prefilled in part runs last from then on, and waits first.
LEMMA PrefillPartial ==
  ASSUME SingleGeneration, IInv, LInv, FInv, enginePc = "select", prefill.todo = <<>>,
         prefill.chosen # <<>>, PrefillGoesAhead
  PROVE  PartialLast'
<1> DEFINE inputs == PrefillInputs
           es == EntriesAfterPrefill(inputs)
           keep == {q \in Requests : ~(Contains(RequestsOf(inputs), q) /\ FullyPrefilled(es[q]))}
           started == StartedRequests(inputs)
<1>1. /\ Shape /\ Core /\ InTurn /\ TypeOK /\ inputs \in Seq(InputType) /\ deployment \in Deployments
      /\ waiting_queue \in Seq(Requests) /\ running_queue \in Seq(Requests)
      /\ Distinct(waiting_queue) /\ DOMAIN entries = Requests
  BY PrefillInputsFacts DEF IInv, Shape, TypeOK, QueuesOK, EntriesOK, Trees, Core, InQueues
<1>2. /\ request_states' = request_states /\ waiting_queue' = InOrder(waiting_queue, keep)
      /\ running_queue' = running_queue \o started
  BY DEF PrefillGoesAhead
<1> SUFFICES ASSUME NEW s \in request_states, Partial(s)'
             PROVE  /\ running_queue' # <<>> /\ s = Last(running_queue')
                    /\ waiting_queue' # <<>> /\ s = Head(waiting_queue')
  BY <1>2 DEF PartialLast
<1>3. PICK c \in Nat :
        /\ c = Len(prefill.chosen) /\ c >= 1 /\ c <= Len(waiting_queue)
        /\ waiting_queue[c] = s /\ prefill.chosen[c].rsentry = <<s, 1>> /\ Only(s).inputs > 0
  BY LeftInPart
<1>4. PICK w \in Nat : w = Len(waiting_queue) /\ DOMAIN waiting_queue = 1..w
  BY <1>1
<1>5. s \in Requests /\ DOMAIN es[s] = {1} /\ es[s][1].inputs > 0
  <2>1. s \in Requests /\ NumEntries(s) = 1
    BY <1>1, OnlyFacts, SingleFacts
  <2>2. Trees(es)
    BY <1>1, EntriesAfterPrefillTyped
  <2>3. es[s] \in [1..1 -> EntryType]
    BY <2>1, <2>2 DEF Trees
  <2>4. PICK e : e = es
    OBVIOUS
  <2>5. Only(s)'.inputs = e[s][1].inputs
    BY <1>1, <2>4, PrefilledEntries
  <2>6. e[s][1].inputs > 0
    BY <2>5 DEF Partial
  <2> HIDE DEF es
  <2> QED BY <2>1, <2>3, <2>4, <2>6
<1>6. waiting_queue' # <<>> /\ s = Head(waiting_queue')
  <2>1. s \in keep
    <3>1. ~FullyPrefilled(es[s])
      <4> HIDE DEF es
      <4> QED BY <1>5 DEF FullyPrefilled
    <3> HIDE DEF es
    <3> QED BY <1>5, <3>1
  <2>2. \A k \in 1..w : k < c => waiting_queue[k] \notin keep
    <3> TAKE k \in 1..w
    <3> HAVE k < c
    <3>1. k \in 1..c
      OBVIOUS
    <3>2. Contains(RequestsOf(inputs), waiting_queue[k]) /\ FullyPrefilled(es[waiting_queue[k]])
      BY <1>3, <3>1, PrefilledInWhole
    <3> HIDE DEF inputs, es
    <3> QED BY <3>2
  <2>3. PICK S : S = keep
    OBVIOUS
  <2>4. c \in 1..Len(waiting_queue) /\ waiting_queue[c] \in S
    BY <1>3, <2>1, <2>3
  <2>5. \A k \in 1..Len(waiting_queue) : k < c => waiting_queue[k] \notin S
    BY <1>4, <2>2, <2>3
  <2>6. InOrder(waiting_queue, S) # <<>> /\ Head(InOrder(waiting_queue, S)) = waiting_queue[c]
    BY <1>1, <2>4, <2>5, InOrderHead
  <2> HIDE DEF keep
  <2> QED BY <1>2, <1>3, <2>3, <2>6
<1> HIDE DEF keep, es
<1>7. started \in Seq(Requests)
  BY <1>1, StartedFacts
<1>8. PICK n \in Nat : n = Len(inputs) /\ DOMAIN inputs = 1..n
  BY <1>1
<1>9. /\ c <= n /\ inputs[c] = prefill.chosen[c]
      /\ \A q \in 1..n : q > c => inputs[q].isDecode
      /\ \A q \in 1..c : inputs[q] = prefill.chosen[q]
  <2>1. PICK m : m = Len(cached_running_rsentries_)
    OBVIOUS
  <2>2. /\ c <= n
        /\ \A q \in 1..c : inputs[q] = prefill.chosen[q]
        /\ \A q \in 1..n : q > c =>
             inputs[q] = PrefillInput(cached_running_rsentries_[q - c], NextDecode(cached_running_rsentries_[q - c]), 0, TRUE)
    BY <1>3, <1>8, <2>1, InputPositions
  <2>3. \A x, l : PrefillInput(x, l, 0, TRUE).isDecode
    BY DEF PrefillInput
  <2>4. c \in 1..c
    BY <1>3
  <2>5. \A q \in 1..n : q > c => inputs[q].isDecode
    <3> HIDE DEF inputs
    <3> QED BY <2>2, <2>3
  <2> HIDE DEF inputs
  <2> QED BY <2>2, <2>4, <2>5
<1>10. \A q \in 1..n : q > c => inputs[q] \notin StartInputs(inputs)
  <2> TAKE q \in 1..n
  <2> HAVE q > c
  <2>1. PICK p \in ToSet(inputs) : p = inputs[q] /\ p.isDecode
    BY <1>1, <1>8, <1>9, ToSetFacts
  <2>2. p.rsentry \in ToSet(ComputeRunning)
    BY <1>1, <2>1, PrefillInputsFacts
  <2>3. Entry(p.rsentry).status = "kAlive"
    BY <1>1, <2>2, RunningFacts
  <2>4. entries[p.rsentry[1]][p.rsentry[2]].status # "kPending"
    BY <2>3 DEF Entry
  <2> HIDE DEF inputs
  <2> QED BY <2>1, <2>4 DEF StartInputs
<1>11. Only(s).status \in {"kPending", "kAlive"}
  BY <1>1, OnlyFacts DEF Core, InQueues, EntryType, Statuses
<1>12. CASE Only(s).status = "kPending"
  <2> DEFINE starts == InOrder(inputs, StartInputs(inputs))
  <2>1. PICK p \in ToSet(inputs) : p = inputs[c] /\ p.rsentry = <<s, 1>>
    <3>1. c \in 1..Len(inputs)
      BY <1>3, <1>8, <1>9
    <3> QED BY <1>1, <1>3, <1>9, <3>1, ToSetFacts
  <2>2. inputs[c] \in StartInputs(inputs)
    <3>1. p.rsentry[1] = s /\ p.rsentry[2] = 1
      BY <2>1
    <3>2. DOMAIN entries[s] \ {1} = {}
      BY <1>1, OnlyFacts
    <3> HIDE DEF inputs
    <3> QED BY <1>12, <2>1, <3>1, <3>2 DEF StartInputs, Only
  <2>3. Distinct(inputs)
    BY <1>1, InputsApart DEF Distinct
  <2>4. c \in 1..Len(inputs) /\ \A j \in 1..Len(inputs) : c < j => inputs[j] \notin StartInputs(inputs)
    BY <1>3, <1>8, <1>9, <1>10
  <2>5. PICK S : S = StartInputs(inputs)
    OBVIOUS
  <2>6. PICK ip \in Seq(InputType) : ip = inputs
    BY <1>1
  <2> HIDE DEF inputs
  <2>7. InOrder(ip, S) # <<>> /\ Last(InOrder(ip, S)) = ip[c] /\ InOrder(ip, S) \in Seq(InputType)
    <3>1. /\ Distinct(ip) /\ ip[c] \in S /\ c \in 1..Len(ip)
          /\ \A j \in 1..Len(ip) : c < j => ip[j] \notin S
      BY <2>2, <2>3, <2>4, <2>5, <2>6
    <3>2. InOrder(ip, S) \in Seq(InputType)
      BY InOrderFacts
    <3> QED BY <3>1, <3>2, InOrderLast
  <2>8. PICK st \in Seq(InputType) : st = starts /\ st # <<>> /\ Last(st).rsentry = <<s, 1>>
    BY <2>1, <2>5, <2>6, <2>7
  <2>9. started = [q \in DOMAIN st |-> st[q].rsentry[1]]
    <3>1. starts = st
      BY <2>8
    <3>2. started = [q \in DOMAIN starts |-> starts[q].rsentry[1]]
      BY DEF StartedRequests, StartInputs
    <3> HIDE DEF starts, started
    <3> QED BY <3>1, <3>2
  <2>10. PICK k \in Nat : k = Len(st) /\ DOMAIN st = 1..k /\ k >= 1 /\ Last(st) = st[k]
    <3>1. Last(st) = st[Len(st)] /\ Len(st) \in Nat /\ Len(st) >= 1
      BY <2>8, FrontPositions
    <3> QED BY <3>1
  <2>11. DOMAIN started = 1..k /\ started[k] = s
    <3>1. k \in 1..k /\ st[k].rsentry[1] = s
      BY <2>8, <2>10
    <3> HIDE DEF started
    <3> QED BY <2>9, <2>10, <3>1
  <2> HIDE DEF started
  <2>12. Len(started) = k
    <3>1. PICK m \in Nat : m = Len(started) /\ DOMAIN started = 1..m
      BY <1>7
    <3>2. 1..m = 1..k
      BY <2>11, <3>1
    <3>3. k \in 1..m
      BY <2>10, <3>2
    <3>4. m \in 1..k
      BY <3>2, <3>3
    <3> QED BY <3>1, <3>3, <3>4
  <2>13. PICK rn \in Nat : rn = Len(running_queue)
    BY <1>1
  <2>14. PICK all \in Seq(Requests) : all = running_queue \o started
    <3>1. PICK u, v : u = running_queue /\ v = started
      OBVIOUS
    <3>2. u \in Seq(Requests) /\ v \in Seq(Requests)
      BY <1>1, <1>7, <3>1
    <3>3. u \o v \in Seq(Requests)
      BY <3>2
    <3> QED BY <3>1, <3>3
  <2>15. DOMAIN all = 1..(rn + k) /\ all[rn + k] = s
    <3>1. DOMAIN all = 1..(rn + k) /\ \A i \in 1..(rn + k) : i > rn => all[i] = started[i - rn]
      <4>1. PICK u, v : u = running_queue /\ v = started
        OBVIOUS
      <4>2. u \in Seq(Requests) /\ v \in Seq(Requests) /\ rn = Len(u) /\ k = Len(v)
        BY <1>1, <1>7, <2>12, <2>13, <4>1
      <4>3. /\ DOMAIN (u \o v) = 1..(rn + k)
            /\ \A i \in 1..(rn + k) : i > rn => (u \o v)[i] = v[i - rn]
        BY <4>2, ConcatPositions
      <4> QED BY <2>14, <4>1, <4>3
    <3>2. rn + k \in 1..(rn + k) /\ rn + k > rn /\ (rn + k) - rn = k
      BY <2>10
    <3> QED BY <2>11, <3>1, <3>2
  <2>16. Len(all) = rn + k /\ all # <<>>
    BY <2>10, <2>15
  <2>17. Last(all) = all[rn + k]
    BY <2>16, FrontPositions
  <2> QED BY <1>2, <1>6, <2>14, <2>15, <2>16, <2>17
<1>13. CASE Only(s).status = "kAlive"
  <2>1. running_queue # <<>> /\ s = Last(running_queue) /\ waiting_queue # <<>> /\ s = Head(waiting_queue)
    BY <1>3, <1>13 DEF Partial, FInv, PartialLast
  <2>2. c = 1
    <3>1. waiting_queue[1] = s /\ 1 \in 1..w /\ c \in 1..w
      BY <1>1, <1>3, <1>4, <2>1
    <3> QED BY <1>1, <1>3, <1>4, <3>1 DEF Distinct
  <2>3. started = <<>>
    <3>1. ASSUME NEW q \in ToSet(started) PROVE FALSE
      <4>1. PICK p \in StartInputs(inputs) : q = p.rsentry[1]
        BY <1>1, <3>1, StartedFacts
      <4>2. p \in ToSet(inputs) /\ entries[p.rsentry[1]][p.rsentry[2]].status = "kPending"
        BY <4>1 DEF StartInputs
      <4>3. PICK j \in 1..n : p = inputs[j]
        BY <1>8, <4>2 DEF ToSet
      <4>4. j = 1
        <5>1. ~(j > 1)
          BY <1>10, <2>2, <4>1, <4>3
        <5> QED BY <5>1
      <4>5. p.rsentry = <<s, 1>>
        BY <1>3, <1>9, <2>2, <4>3, <4>4
      <4> QED BY <1>13, <4>2, <4>5 DEF Only
    <3> HIDE DEF started
    <3>2. ToSet(started) = {}
      BY <3>1
    <3> QED BY <1>7, <3>2, ToSetFacts
  <2>4. running_queue' = running_queue
    <3> HIDE DEF started
    <3> QED BY <1>1, <1>2, <2>3
  <2> QED BY <1>6, <2>1, <2>4
<1> QED BY <1>11, <1>12, <1>13


\* A prefill.
LEMMA PrefilledGoesOn ==
  ASSUME SingleGeneration, IInv, LInv, FInv, NewRequestPrefill
  PROVE  FInv'
<1>1. /\ Shape /\ Core /\ InTurn /\ TypeOK /\ PrefillGoesAhead
      /\ enginePc = "select" /\ prefill.todo = <<>> /\ prefill.chosen # <<>>
  BY PrefillGoesOn, PrefillCases DEF IInv, Shape
<1>2. PartialLast'
  BY <1>1, PrefillPartial
<1>3. request_states' = request_states /\ fault' = fault
  BY <1>1 DEF PrefillGoesAhead
<1>4. PICK e : e = EntriesAfterPrefill(PrefillInputs)
  OBVIOUS
<1>5. enginePc' \in {"idle", "finish"}
  BY <1>1, <1>4, PrefilledEntries
<1>6. ASSUME NEW s \in request_states, Decodes(s)' PROVE Only(s)'.committed > 0
  <2>1. /\ e[s][1].status = "kAlive" /\ e[s][1].inputs = 0
        /\ Only(s)'.committed = e[s][1].committed
    <3>1. /\ Only(s)'.status = e[s][1].status /\ Only(s)'.inputs = e[s][1].inputs
          /\ Only(s)'.committed = e[s][1].committed
      BY <1>1, <1>4, PrefilledEntries
    <3> QED BY <1>6, <3>1 DEF Decodes
  <2>2. Only(s).committed \in Nat
    BY <1>1, OnlyFacts DEF EntryType
  <2>3. CASE \A p \in ToSet(PrefillInputs) : p.rsentry # <<s, 1>>
    <3>1. e[s][1] = Only(s)
      BY <1>1, <1>4, <2>3, PrefilledSingle
    <3>2. Decodes(s)
      BY <2>1, <3>1 DEF Decodes
    <3> QED BY <2>1, <3>1, <3>2 DEF FInv, Begun
  <2>4. CASE \E p \in ToSet(PrefillInputs) : p.rsentry = <<s, 1>>
    <3>1. PICK p \in ToSet(PrefillInputs) : p.rsentry = <<s, 1>>
      BY <2>4
    <3>2. IF p.isDecode THEN e[s][1].committed = Only(s).committed + 1
          ELSE e[s][1].inputs = 0 => e[s][1].committed = Only(s).committed + 1
      BY <1>1, <1>4, <3>1, PrefilledSingle
    <3>3. e[s][1].committed = Only(s).committed + 1
      BY <2>1, <3>2
    <3> QED BY <2>1, <2>2, <3>3
  <2> QED BY <2>3, <2>4
<1>7. Begun'
  BY <1>3, <1>6 DEF Begun
<1> QED BY <1>2, <1>3, <1>5, <1>7 DEF FInv, WholeButLast, Proceeds, InStep, NoFault

-----------------------------------------------------------------------------
\* Initially nothing has failed.
LEMMA InitFInv ==
  ASSUME Init
  PROVE  FInv
<1>1. request_states = {} /\ enginePc = "idle" /\ fault = "none"
  BY DEF Init
<1> QED BY <1>1 DEF FInv, PartialLast, Begun, WholeButLast, Proceeds, InStep, NoFault

\* Every step preserves FInv.
LEMMA NextFInv ==
  ASSUME SingleGeneration, Provisioned, IInv, LInv, FInv, [Next]_vars
  PROVE  FInv'
<1>1. ASSUME NEW r \in Requests, RejectRequest(r) PROVE FInv'
  <2>1. /\ UNCHANGED <<request_states, entries, running_queue, waiting_queue>>
        /\ enginePc' = "idle" /\ fault' = fault
    BY <1>1 DEF RejectRequest, queueVars, stepVars
  <2>2. PartialLast' /\ Begun'
    BY <2>1, KeepsPartial
  <2> QED BY <2>1, <2>2 DEF FInv, WholeButLast, Proceeds, InStep, NoFault
<1>2. ASSUME JumpForwardPreempt \/ DecodePreempt PROVE FInv'
  BY <1>2, PreemptGoesOn DEF JumpForwardPreempt, DecodePreempt
<1>3. CASE UNCHANGED vars
  <2>1. /\ UNCHANGED <<request_states, entries, running_queue, waiting_queue>>
        /\ UNCHANGED <<enginePc, fault, prefill, running_rsentries, cached_running_rsentries_>>
    BY <1>3 DEF vars, queueVars, cacheVars, stepVars
  <2>2. PartialLast' /\ Begun'
    BY <2>1, KeepsPartial
  <2>3. WholeButLast'
    BY <2>1 DEF FInv, WholeButLast, Entry
  <2>4. InStep'
    BY <2>1 DEF FInv, InStep, Decodes, Only
  <2> QED BY <2>1, <2>2, <2>3, <2>4 DEF FInv, Proceeds, NoFault
<1> QED BY <1>1, <1>2, <1>3, AddGoesOn, AbortGoesOn, BeginPrefillGoesOn, TakeWholeGoesOn, TakeChunkGoesOn,
           PrefilledGoesOn, NothingGoesOn, JumpForwardDoneGoesOn, DecodedGoesOn, FinishedGoesOn
        DEF Next, Step, Client

\* In deployments whose requests ask for one generation and whose KV cache holds one sequence of
\* the greatest length with the margins of prefill: no check of the scheduler fails, and the KV
\* cache is never asked for a sequence it does not have or given one it has (batch_decode.cc L72,
\* action_commons.cc L216), whatever is added, aborted, prefilled in parts and preempted, and
\* however many requests compete for the pages.
THEOREM NeverFaults ==
  ASSUME SingleGeneration, Provisioned
  PROVE  Spec => []NoFault
<1>1. Init => LInv /\ FInv
  BY InitLInv, InitFInv
<1>2. IInv /\ IInv' /\ LInv /\ [Next]_vars => LInv'
  BY NextLInv
<1>3. IInv /\ LInv /\ FInv /\ [Next]_vars => FInv'
  BY NextFInv
<1>4. FInv => NoFault
  BY DEF FInv
<1> QED BY <1>1, <1>2, <1>3, <1>4, IInvariant, PTL DEF Spec
===============================================================================
