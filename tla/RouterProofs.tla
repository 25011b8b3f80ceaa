---------------------------- MODULE RouterProofs ----------------------------
(***************************************************************************)
(* Theorems about Router, for every number of requests and servers, every  *)
(* prompt length, balance factor and bound.                                *)
(***************************************************************************)
EXTENDS Router, FiniteSetTheorems, WellFoundedInduction, TLAPS

\* What is known of the prompt of a request at each place of its generator: the
\* positions before the window were matched, those in it were sent.
Progress(r) ==
  /\ pc[r] \in {"prepare", "post"} => \A p \in 0..(PromptLength[r] - 1) : kv[r][p] = 0
  /\ pc[r] = "send" => /\ window[r].matched < window[r].end
                       /\ \A p \in 0..(PromptLength[r] - 1) :
                            kv[r][p] = IF p < window[r].matched THEN 1 ELSE 0
  /\ pc[r] = "start" => \A p \in 0..(PromptLength[r] - 1) :
                          kv[r][p] = IF p < window[r].end THEN 1 ELSE 0
  /\ pc[r] \in {"send", "start"} \/ (pc[r] = "stream" /\ router_mode = "disagg") =>
       window[r].end < PromptLength[r]
  /\ pc[r] = "stream" => \A p \in 0..(PromptLength[r] - 1) : kv[r][p] = 1
  /\ pc[r] \in {"prepare", "send", "start"} => router_mode = "disagg"
  /\ pc[r] = "post" => router_mode = "round-robin"
Windows == \A r \in Requests : Progress(r)

\* A server holds entries only between the call that reserves them and the end of the
\* answer, or for good where mode "disagg" was broken off in between.
Holds == \A s \in Servers : \A r \in reserved[s] :
           /\ pc[r] \in {"send", "start", "stream", "failed", "gone"} /\ endpoint[r] = s
           /\ pc[r] \in {"failed", "gone"} => router_mode = "disagg"
           /\ pc[r] = "gone" => preempts[r] > 0

\* A request whose client has a chunk and that does not stream is not in its first run.
FirstRun == \A r \in Requests :
  pc[r] \in {"new", "retry", "prepare", "send", "start", "post"} /\ preempts[r] = 0 => received[r] = <<>>

IInv == TypeOK /\ CountsAreExact /\ Windows /\ Holds /\ FirstRun
-----------------------------------------------------------------------------
(* Facts about the helpers.                                                *)

\* The counts are natural numbers, so that there is a least one and a first server
\* that has it: _pick_endpoint returns a candidate no other is less congested than.
LEMMA LeastExists ==
  ASSUME NEW S \in SUBSET Nat, S # {}
  PROVE  Min(S) \in S /\ \A y \in S : Min(S) <= y
<1>1. PICK x \in S : \A y \in S : ~(<<y, x>> \in OpToRel(<, Nat))
  BY WFMin, NatLessThanWellFounded, Zenon
<1>2. ASSUME NEW y \in S
      PROVE  ~(y < x)
  <2>1. <<y, x>> \in Nat \X Nat
    OBVIOUS
  <2>2. ~(<<y, x>> \in OpToRel(<, Nat))
    BY <1>1
  <2>. QED  BY <2>1, <2>2, Zenon DEF OpToRel
<1>3. \A y \in S : x <= y
  BY <1>2
<1>. QED  BY <1>3 DEF Min

\* A server works on finitely many requests.
LEMMA RunningFinite ==
  ASSUME NEW s
  PROVE  IsFiniteSet(Running(s)) /\ Cardinality(Running(s)) \in Nat
  BY ConstantsAssumption, FS_Subset, FS_CardinalityType DEF ConstantsAssumption, Running

\* _pick_endpoint returns a candidate whose count no other candidate is below.
LEMMA PickEndpointPicks ==
  ASSUME TypeOK, CountsAreExact
  PROVE  /\ PickEndpoint(Candidates) \in Candidates
         /\ Candidates \subseteq Servers
         /\ \A s \in Candidates : num_running_requests[PickEndpoint(Candidates)] <= num_running_requests[s]
<1>1. Candidates \subseteq Servers /\ 1 \in Candidates /\ Servers \subseteq Nat
  BY ConstantsAssumption DEF ConstantsAssumption, Candidates, Servers
<1>2. \A s \in Servers : num_running_requests[s] \in Nat
  BY RunningFinite DEF TypeOK, CountsAreExact
<1> DEFINE Counts == {num_running_requests[s] : s \in Candidates}
           Least == {s \in Candidates : num_running_requests[s] = Min(Counts)}
<1>3. Counts \in SUBSET Nat /\ Counts # {}
  BY <1>1, <1>2
<1>4. Min(Counts) \in Counts /\ \A y \in Counts : Min(Counts) <= y
  BY <1>3, LeastExists
<1>5. Least \in SUBSET Nat /\ Least # {}
  BY <1>1, <1>4
<1>6. Min(Least) \in Least
  BY <1>5, LeastExists
<1>7. PickEndpoint(Candidates) = Min(Least)
  BY DEF PickEndpoint
<1>. QED  BY <1>1, <1>4, <1>6, <1>7

\* What the balance factor leaves to the prefill server is never the whole prompt.
LEMMA WindowInPrompt ==
  ASSUME NEW r \in Requests, TypeOK
  PROVE  Resolve(r, KVWindowEnd(r)) \in 0..(PromptLength[r] - 1)
<1> DEFINE L == PromptLength[r]
           b == pd_balance_factor
           x == (100 - b) * L
<1>1. L \in Nat /\ L >= 1 /\ b \in 0..100
  BY ConstantsAssumption DEF ConstantsAssumption, TypeOK
<1>2. CASE b = 0
  BY <1>1, <1>2 DEF Resolve, KVWindowEnd
<1>3. CASE b # 0
  <2>1. 100 - b \in 0..99
    BY <1>1, <1>3
  <2>2. x \in Nat /\ x <= 99 * L
    <3> HIDE DEF L, b
    <3>1. \A k \in 0..99 : k * L \in Nat /\ k * L <= 99 * L
      BY <1>1, Z3
    <3>. QED  BY <2>1, <3>1
  <2> HIDE DEF x, L
  <2>3. x \div 100 \in 0..(L - 1)
    BY <1>1, <2>2
  <2>. QED  BY <1>3, <2>3 DEF Resolve, KVWindowEnd, x, L
<1>. QED  BY <1>2, <1>3

\* What Fill does to the positions of r's prompt.
LEMMA FillFills ==
  ASSUME TypeOK, NEW r \in Requests, NEW begin \in Int, NEW end \in Int, Fill(r, begin, end)
  PROVE  /\ DOMAIN kv' = Requests
         /\ \A q \in Requests : kv'[q] \in [0..(PromptLength[q] - 1) -> Nat]
         /\ \A q \in Requests \ {r} : kv'[q] = kv[q]
         /\ \A p \in 0..(PromptLength[r] - 1) :
              kv'[r][p] = IF begin <= p /\ p < end THEN kv[r][p] + 1 ELSE kv[r][p]
<1> DEFINE P == 0..(PromptLength[r] - 1)
<1>1. DOMAIN kv = Requests /\ \A q \in Requests : kv[q] \in [0..(PromptLength[q] - 1) -> Nat]
  BY DEF TypeOK
<1>2. /\ DOMAIN kv' = Requests
      /\ \A q \in Requests \ {r} : kv'[q] = kv[q]
      /\ kv'[r] = [p \in P |-> IF p \in begin..(end - 1) THEN kv[r][p] + 1 ELSE kv[r][p]]
  BY <1>1 DEF Fill
<1>3. kv[r] \in [P -> Nat]
  BY <1>1
<1>4. \A p \in P : p \in Int /\ kv[r][p] \in Nat
  BY <1>3, ConstantsAssumption DEF ConstantsAssumption
<1>5. \A p \in P : kv'[r][p] = IF begin <= p /\ p < end THEN kv[r][p] + 1 ELSE kv[r][p]
  BY <1>2, <1>4
<1>6. kv'[r] \in [P -> Nat]
  BY <1>2, <1>4
<1>. QED  BY <1>1, <1>2, <1>5, <1>6

\* The domain of a sequence.
LEMMA SequenceDomain ==
  ASSUME NEW T, NEW q \in Seq(T)
  PROVE  Len(q) \in Nat /\ DOMAIN q = 1..Len(q)
  OBVIOUS

\* Appending keeps the type of a sequence.
LEMMA AppendType ==
  ASSUME NEW T, NEW q \in Seq(T), NEW e \in T
  PROVE  Append(q, e) \in Seq(T)
  OBVIOUS

\* The number of tokens sent in this run is a natural number.
LEMMA SentNat ==
  ASSUME NEW r \in Requests, TypeOK
  PROVE  Sent(r) \in Nat
<1>1. received[r] \in Seq([run : 0..MaxPreempts, token : 1..MaxTokens])
  BY DEF TypeOK
<1>2. DOMAIN received[r] = 1..Len(received[r]) /\ Len(received[r]) \in Nat
  BY <1>1, SequenceDomain, Zenon
<1>3. IsFiniteSet(1..Len(received[r]))
  <2>1. 1 \in Int /\ Len(received[r]) \in Int
    BY <1>2
  <2>. QED  BY <2>1, FS_Interval, Zenon
<1>. QED  BY <1>2, <1>3, FS_Subset, FS_CardinalityType DEF Sent
-----------------------------------------------------------------------------
(* How the set of requests a server works on changes.                      *)

\* A step that moves no request in or out of flight.
LEMMA RunningSame ==
  ASSUME \A q \in Requests : /\ pc'[q] \in InFlight <=> pc[q] \in InFlight
                             /\ endpoint'[q] = endpoint[q]
  PROVE  \A s \in Servers : Running(s)' = Running(s)
  BY DEF Running

\* A request comes into flight on its new endpoint.
LEMMA RunningJoins ==
  ASSUME NEW r \in Requests, pc[r] \notin InFlight, pc'[r] \in InFlight,
         \A q \in Requests \ {r} : pc'[q] = pc[q] /\ endpoint'[q] = endpoint[q]
  PROVE  \A s \in Servers :
           Cardinality(Running(s)') = Cardinality(Running(s)) + (IF s = endpoint'[r] THEN 1 ELSE 0)
<1> SUFFICES ASSUME NEW s \in Servers
             PROVE  Cardinality(Running(s)') = Cardinality(Running(s)) + (IF s = endpoint'[r] THEN 1 ELSE 0)
  OBVIOUS
<1>1. r \notin Running(s)
  BY DEF Running
<1>2. CASE s = endpoint'[r]
  <2>1. Running(s)' = Running(s) \cup {r}
    BY <1>2 DEF Running
  <2>2. PICK R : R = Running(s) /\ IsFiniteSet(R) /\ Cardinality(R) \in Nat
    BY RunningFinite
  <2>3. Cardinality(R \cup {r}) = Cardinality(R) + 1
    BY <1>1, <2>2, FS_AddElement
  <2>. QED  BY <1>2, <2>1, <2>2, <2>3
<1>3. CASE s # endpoint'[r]
  <2>1. Running(s)' = Running(s)
    BY <1>3 DEF Running
  <2>. QED  BY <1>3, <2>1, RunningFinite
<1>. QED  BY <1>2, <1>3

\* A request leaves the endpoint it was in flight on.
LEMMA RunningLeaves ==
  ASSUME NEW r \in Requests, pc[r] \in InFlight, pc'[r] \notin InFlight,
         \A q \in Requests \ {r} : pc'[q] = pc[q] /\ endpoint'[q] = endpoint[q]
  PROVE  \A s \in Servers :
           Cardinality(Running(s)') = Cardinality(Running(s)) - (IF s = endpoint[r] THEN 1 ELSE 0)
<1> SUFFICES ASSUME NEW s \in Servers
             PROVE  Cardinality(Running(s)') = Cardinality(Running(s)) - (IF s = endpoint[r] THEN 1 ELSE 0)
  OBVIOUS
<1>1. CASE s = endpoint[r]
  <2>1. r \in Running(s) /\ Running(s)' = Running(s) \ {r}
    BY <1>1 DEF Running
  <2>2. PICK R : R = Running(s) /\ IsFiniteSet(R) /\ Cardinality(R) \in Nat
    BY RunningFinite
  <2>3. Cardinality(R \ {r}) = Cardinality(R) - 1
    BY <2>1, <2>2, FS_RemoveElement
  <2>. QED  BY <1>1, <2>1, <2>2, <2>3
<1>2. CASE s # endpoint[r]
  <2>1. Running(s)' = Running(s)
    BY <1>2 DEF Running
  <2>. QED  BY <1>2, <2>1, RunningFinite
<1>. QED  BY <1>1, <1>2

\* What a generator that is broken off leaves reserved.
LEMMA BreakOffLeaves ==
  ASSUME TypeOK, NEW r \in Requests, BreakOff(r)
  PROVE  /\ reserved' \in [Servers -> SUBSET Requests]
         /\ \A s \in Servers : \A q \in reserved'[s] :
              IF q = r /\ s = endpoint[r] THEN pc[r] \in {"prepare", "send", "start"}
              ELSE q \in reserved[s]
<1>1. PICK kept \in KeptAfter(pc[r]) :
        reserved' = [reserved EXCEPT ![endpoint[r]] = IF kept THEN @ \cup {r} ELSE @ \ {r}]
  BY DEF BreakOff
<1>2. kept => pc[r] \in {"prepare", "send", "start"}
  BY DEF KeptAfter
<1>3. reserved \in [Servers -> SUBSET Requests] /\ endpoint[r] \in Servers
  BY DEF TypeOK
<1>4. CASE kept
  BY <1>1, <1>2, <1>3, <1>4
<1>5. CASE ~kept
  BY <1>1, <1>3, <1>5
<1>. QED  BY <1>4, <1>5

\* The router starts in the inductive invariant.
LEMMA InitIInv ==
  ASSUME Init
  PROVE  IInv
<1>1. TypeOK
  BY ConstantsAssumption DEF ConstantsAssumption, Init, TypeOK, Servers, InFlight, Ended, Nothing
<1>2. CountsAreExact
  <2>1. \A s \in Servers : Running(s) = {}
    BY DEF Init, Running, InFlight
  <2>2. \A s \in Servers : Cardinality(Running(s)) = 0
    BY <2>1, FS_EmptySet, Zenon
  <2>. QED  BY <2>2 DEF CountsAreExact, Init
<1>3. Windows /\ Holds /\ FirstRun
  BY DEF Windows, Progress, Holds, FirstRun, Init
<1>. QED  BY <1>1, <1>2, <1>3 DEF IInv
-----------------------------------------------------------------------------
(* One lemma for each step of a generator.                                 *)

\* Picking an endpoint and raising its count.
LEMMA HandleCompletionKeeps ==
  ASSUME IInv, NEW r \in Requests, HandleCompletion(r)
  PROVE  IInv'
<1> DEFINE s == PickEndpoint(Candidates)
<1>1. s \in Servers
  BY PickEndpointPicks DEF IInv
<1> HIDE DEF s
<1>2. /\ endpoint' = [endpoint EXCEPT ![r] = s]
      /\ num_running_requests' = [num_running_requests EXCEPT ![s] = @ + 1]
      /\ pc' = [pc EXCEPT ![r] = IF router_mode = "disagg" THEN "prepare" ELSE "post"]
      /\ kv' = [kv EXCEPT ![r] = Nothing(r)]
      /\ pc[r] \in {"new", "retry"}
      /\ UNCHANGED <<window, received, reserved, preempts, leaked, router_mode, pd_balance_factor>>
  BY DEF HandleCompletion, Count, Goto, settings, s
<1>3. TypeOK'
  <2>1. DOMAIN kv' = Requests /\ \A q \in Requests : kv'[q] \in [0..(PromptLength[q] - 1) -> Nat]
    BY <1>2 DEF IInv, TypeOK, Nothing
  <2>2. num_running_requests' \in [Servers -> Nat] /\ endpoint' \in [Requests -> Servers]
    BY <1>1, <1>2 DEF IInv, TypeOK
  <2>3. pc' \in [Requests -> InFlight \cup Ended \cup {"new", "retry"}]
    BY <1>2 DEF IInv, TypeOK, InFlight, Ended
  <2>. QED  BY <1>2, <2>1, <2>2, <2>3 DEF IInv, TypeOK
<1>4. CountsAreExact'
  <2>1. /\ pc[r] \notin InFlight /\ pc'[r] \in InFlight /\ endpoint'[r] = s
        /\ \A q \in Requests \ {r} : pc'[q] = pc[q] /\ endpoint'[q] = endpoint[q]
    BY <1>2 DEF InFlight, IInv, TypeOK
  <2>2. \A t \in Servers : Cardinality(Running(t)') = Cardinality(Running(t)) + (IF t = s THEN 1 ELSE 0)
    BY <2>1, RunningJoins
  <2>3. num_running_requests \in [Servers -> Nat] /\ leaked \in [Servers -> Nat] /\ CountsAreExact
    BY DEF IInv, TypeOK
  <2>. QED  BY <1>1, <1>2, <2>2, <2>3, RunningFinite DEF CountsAreExact
<1>5. Windows'
  <2>1. ASSUME NEW q \in Requests \ {r} PROVE Progress(q)'
    <3>1. Progress(q) /\ pc'[q] = pc[q] /\ kv'[q] = kv[q] /\ window'[q] = window[q] /\ router_mode' = router_mode
      BY <1>2 DEF IInv, TypeOK, Windows
    <3>. QED  BY <3>1 DEF Progress
  <2>2. /\ pc'[r] = (IF router_mode = "disagg" THEN "prepare" ELSE "post")
        /\ \A p \in 0..(PromptLength[r] - 1) : kv'[r][p] = 0
        /\ router_mode' = router_mode /\ router_mode \in {"disagg", "round-robin"}
    BY <1>2, ConstantsAssumption DEF ConstantsAssumption, IInv, TypeOK, Nothing
  <2>3. Progress(r)'
    BY <2>2 DEF Progress
  <2>. QED  BY <2>1, <2>3 DEF Windows
<1>6. Holds'
  BY <1>2 DEF IInv, TypeOK, Holds
<1>7. FirstRun'
  BY <1>2 DEF IInv, TypeOK, FirstRun
<1>. QED  BY <1>3, <1>4, <1>5, <1>6, <1>7 DEF IInv

\* prep_recv reserves the entries and returns the matched prefix.
LEMMA PrepareReceiveKeeps ==
  ASSUME IInv, NEW r \in Requests, PrepareReceive(r)
  PROVE  IInv'
<1> DEFINE L == PromptLength[r]
           end == Resolve(r, KVWindowEnd(r))
<1>1. end \in 0..(L - 1) /\ L \in Nat
  BY WindowInPrompt, ConstantsAssumption DEF ConstantsAssumption, IInv
<1>2. PICK matched \in 0..end :
        /\ window' = [window EXCEPT ![r] = [matched |-> matched, end |-> end]]
        /\ Fill(r, 0, matched)
        /\ pc' = [pc EXCEPT ![r] = IF matched < end THEN "send" ELSE "start"]
  BY DEF PrepareReceive, Goto
<1>3. /\ pc[r] = "prepare"
      /\ reserved' = [reserved EXCEPT ![endpoint[r]] = @ \cup {r}]
      /\ UNCHANGED <<num_running_requests, endpoint, received, preempts, leaked, router_mode, pd_balance_factor>>
  BY DEF PrepareReceive, settings
<1> HIDE DEF end
<1>4. /\ DOMAIN kv' = Requests
      /\ \A q \in Requests : kv'[q] \in [0..(PromptLength[q] - 1) -> Nat]
      /\ \A q \in Requests \ {r} : kv'[q] = kv[q]
      /\ \A p \in 0..(L - 1) : kv'[r][p] = IF 0 <= p /\ p < matched THEN kv[r][p] + 1 ELSE kv[r][p]
  BY <1>1, <1>2, FillFills DEF IInv
<1>5. TypeOK'
  <2>1. pc' \in [Requests -> InFlight \cup Ended \cup {"new", "retry"}]
    BY <1>2 DEF IInv, TypeOK, InFlight, Ended
  <2>2. [matched |-> matched, end |-> end] \in [matched : Nat, end : Nat]
    BY <1>1
  <2>3. window' \in [Requests -> [matched : Nat, end : Nat]]
    BY <1>2, <2>2 DEF IInv, TypeOK
  <2>4. reserved' \in [Servers -> SUBSET Requests]
    BY <1>3 DEF IInv, TypeOK
  <2>. QED  BY <1>3, <1>4, <2>1, <2>3, <2>4 DEF IInv, TypeOK
<1>6. CountsAreExact'
  <2>1. \A q \in Requests : /\ pc'[q] \in InFlight <=> pc[q] \in InFlight
                            /\ endpoint'[q] = endpoint[q]
    BY <1>2, <1>3 DEF InFlight, IInv, TypeOK
  <2>2. \A s \in Servers : Running(s)' = Running(s)
    BY <2>1, RunningSame
  <2>. QED  BY <1>3, <2>2 DEF CountsAreExact, IInv
<1>7. Windows'
  <2>1. ASSUME NEW q \in Requests \ {r} PROVE Progress(q)'
    <3>1. Progress(q) /\ pc'[q] = pc[q] /\ kv'[q] = kv[q] /\ window'[q] = window[q] /\ router_mode' = router_mode
      BY <1>2, <1>3, <1>4 DEF IInv, TypeOK, Windows
    <3>. QED  BY <3>1 DEF Progress
  <2>2. Progress(r)'
    <3>1. Progress(r) /\ router_mode' = router_mode
      BY <1>3 DEF IInv, Windows
    <3>2. window'[r].matched = matched /\ window'[r].end = end
      BY <1>2 DEF IInv, TypeOK
    <3>3. pc'[r] = IF matched < end THEN "send" ELSE "start"
      BY <1>2 DEF IInv, TypeOK
    <3>4. \A p \in 0..(L - 1) : kv'[r][p] = IF p < matched THEN 1 ELSE 0
      BY <1>1, <1>3, <1>4, <3>1 DEF Progress
    <3>. QED  BY <1>1, <1>3, <3>1, <3>2, <3>3, <3>4 DEF Progress
  <2>. QED  BY <2>1, <2>2 DEF Windows
<1>8. Holds'
  BY <1>2, <1>3 DEF IInv, TypeOK, Holds
<1>9. FirstRun'
  BY <1>2, <1>3 DEF IInv, TypeOK, FirstRun
<1>. QED  BY <1>5, <1>6, <1>7, <1>8, <1>9 DEF IInv

\* remote_send computes and sends up to the end of the window.
LEMMA RemoteSendKeeps ==
  ASSUME IInv, NEW r \in Requests, RemoteSend(r)
  PROVE  IInv'
<1>1. /\ pc[r] = "send" /\ pc' = [pc EXCEPT ![r] = "start"]
      /\ Fill(r, window[r].matched, window[r].end)
      /\ UNCHANGED <<num_running_requests, endpoint, window, received, reserved, preempts, leaked, router_mode, pd_balance_factor>>
  BY DEF RemoteSend, Goto, settings
<1> DEFINE L == PromptLength[r]
<1>2. /\ DOMAIN kv' = Requests
      /\ \A q \in Requests : kv'[q] \in [0..(PromptLength[q] - 1) -> Nat]
      /\ \A q \in Requests \ {r} : kv'[q] = kv[q]
      /\ \A p \in 0..(L - 1) : kv'[r][p] = IF window[r].matched <= p /\ p < window[r].end THEN kv[r][p] + 1 ELSE kv[r][p]
  <2>1. window[r].matched \in Int /\ window[r].end \in Int
    BY ConstantsAssumption DEF ConstantsAssumption, IInv, TypeOK
  <2>. QED  BY <1>1, <2>1, FillFills DEF IInv
<1>3. TypeOK'
  <2>1. pc' \in [Requests -> InFlight \cup Ended \cup {"new", "retry"}]
    BY <1>1 DEF IInv, TypeOK, InFlight, Ended
  <2>. QED  BY <1>1, <1>2, <2>1 DEF IInv, TypeOK
<1>4. CountsAreExact'
  <2>1. \A q \in Requests : /\ pc'[q] \in InFlight <=> pc[q] \in InFlight
                            /\ endpoint'[q] = endpoint[q]
    BY <1>1 DEF InFlight, IInv, TypeOK
  <2>2. \A s \in Servers : Running(s)' = Running(s)
    BY <2>1, RunningSame
  <2>. QED  BY <1>1, <2>2 DEF CountsAreExact, IInv
<1>5. Windows'
  <2>1. ASSUME NEW q \in Requests \ {r} PROVE Progress(q)'
    <3>1. Progress(q) /\ pc'[q] = pc[q] /\ kv'[q] = kv[q] /\ window'[q] = window[q] /\ router_mode' = router_mode
      BY <1>1, <1>2 DEF IInv, TypeOK, Windows
    <3>. QED  BY <3>1 DEF Progress
  <2>2. Progress(r)'
    <3>1. Progress(r) /\ pc[r] = "send" /\ window[r] \in [matched : Nat, end : Nat] /\ L \in Nat
      BY <1>1, ConstantsAssumption DEF ConstantsAssumption, IInv, TypeOK, Windows
    <3>2. \A p \in 0..(L - 1) : kv[r][p] \in Nat
      BY DEF IInv, TypeOK
    <3>3. pc'[r] = "start"
      BY <1>1 DEF IInv, TypeOK
    <3>. QED  BY <1>1, <1>2, <3>1, <3>2, <3>3 DEF Progress
  <2>. QED  BY <2>1, <2>2 DEF Windows
<1>6. Holds'
  BY <1>1 DEF IInv, TypeOK, Holds
<1>7. FirstRun'
  BY <1>1 DEF IInv, TypeOK, FirstRun
<1>. QED  BY <1>3, <1>4, <1>5, <1>6, <1>7 DEF IInv

\* start_generate computes the rest of the prompt.
LEMMA StartGenerateKeeps ==
  ASSUME IInv, NEW r \in Requests, StartGenerate(r)
  PROVE  IInv'
<1>1. /\ pc[r] = "start" /\ pc' = [pc EXCEPT ![r] = "stream"]
      /\ Fill(r, window[r].end, PromptLength[r])
      /\ UNCHANGED <<num_running_requests, endpoint, window, received, reserved, preempts, leaked, router_mode, pd_balance_factor>>
  BY DEF StartGenerate, Goto, settings
<1> DEFINE L == PromptLength[r]
<1>2. /\ DOMAIN kv' = Requests
      /\ \A q \in Requests : kv'[q] \in [0..(PromptLength[q] - 1) -> Nat]
      /\ \A q \in Requests \ {r} : kv'[q] = kv[q]
      /\ \A p \in 0..(L - 1) : kv'[r][p] = IF window[r].end <= p /\ p < PromptLength[r] THEN kv[r][p] + 1 ELSE kv[r][p]
  <2>1. window[r].end \in Int /\ PromptLength[r] \in Int
    BY ConstantsAssumption DEF ConstantsAssumption, IInv, TypeOK
  <2>. QED  BY <1>1, <2>1, FillFills DEF IInv
<1>3. TypeOK'
  <2>1. pc' \in [Requests -> InFlight \cup Ended \cup {"new", "retry"}]
    BY <1>1 DEF IInv, TypeOK, InFlight, Ended
  <2>. QED  BY <1>1, <1>2, <2>1 DEF IInv, TypeOK
<1>4. CountsAreExact'
  <2>1. \A q \in Requests : /\ pc'[q] \in InFlight <=> pc[q] \in InFlight
                            /\ endpoint'[q] = endpoint[q]
    BY <1>1 DEF InFlight, IInv, TypeOK
  <2>2. \A s \in Servers : Running(s)' = Running(s)
    BY <2>1, RunningSame
  <2>. QED  BY <1>1, <2>2 DEF CountsAreExact, IInv
<1>5. Windows'
  <2>1. ASSUME NEW q \in Requests \ {r} PROVE Progress(q)'
    <3>1. Progress(q) /\ pc'[q] = pc[q] /\ kv'[q] = kv[q] /\ window'[q] = window[q] /\ router_mode' = router_mode
      BY <1>1, <1>2 DEF IInv, TypeOK, Windows
    <3>. QED  BY <3>1 DEF Progress
  <2>2. Progress(r)'
    <3>1. Progress(r) /\ pc[r] = "start" /\ window[r] \in [matched : Nat, end : Nat] /\ L \in Nat
      BY <1>1, ConstantsAssumption DEF ConstantsAssumption, IInv, TypeOK, Windows
    <3>2. \A p \in 0..(L - 1) : kv[r][p] \in Nat
      BY DEF IInv, TypeOK
    <3>3. pc'[r] = "stream"
      BY <1>1 DEF IInv, TypeOK
    <3>. QED  BY <1>1, <1>2, <3>1, <3>2, <3>3 DEF Progress
  <2>. QED  BY <2>1, <2>2 DEF Windows
<1>6. Holds'
  BY <1>1 DEF IInv, TypeOK, Holds
<1>7. FirstRun'
  BY <1>1 DEF IInv, TypeOK, FirstRun
<1>. QED  BY <1>3, <1>4, <1>5, <1>6, <1>7 DEF IInv

\* The single call of mode "round-robin".
LEMMA PostKeeps ==
  ASSUME IInv, NEW r \in Requests, Post(r)
  PROVE  IInv'
<1>1. /\ pc[r] = "post" /\ pc' = [pc EXCEPT ![r] = "stream"]
      /\ reserved' = [reserved EXCEPT ![endpoint[r]] = @ \cup {r}]
      /\ Fill(r, 0, PromptLength[r])
      /\ UNCHANGED <<num_running_requests, endpoint, window, received, preempts, leaked, router_mode, pd_balance_factor>>
  BY DEF Post, Goto, settings
<1> DEFINE L == PromptLength[r]
<1>2. /\ DOMAIN kv' = Requests
      /\ \A q \in Requests : kv'[q] \in [0..(PromptLength[q] - 1) -> Nat]
      /\ \A q \in Requests \ {r} : kv'[q] = kv[q]
      /\ \A p \in 0..(L - 1) : kv'[r][p] = IF 0 <= p /\ p < PromptLength[r] THEN kv[r][p] + 1 ELSE kv[r][p]
  <2>1. 0 \in Int /\ PromptLength[r] \in Int
    BY ConstantsAssumption DEF ConstantsAssumption, IInv, TypeOK
  <2>. QED  BY <1>1, <2>1, FillFills DEF IInv
<1>3. TypeOK'
  <2>1. pc' \in [Requests -> InFlight \cup Ended \cup {"new", "retry"}]
    BY <1>1 DEF IInv, TypeOK, InFlight, Ended
  <2>2. reserved' \in [Servers -> SUBSET Requests]
    BY <1>1 DEF IInv, TypeOK
  <2>. QED  BY <1>1, <1>2, <2>1, <2>2 DEF IInv, TypeOK
<1>4. CountsAreExact'
  <2>1. \A q \in Requests : /\ pc'[q] \in InFlight <=> pc[q] \in InFlight
                            /\ endpoint'[q] = endpoint[q]
    BY <1>1 DEF InFlight, IInv, TypeOK
  <2>2. \A s \in Servers : Running(s)' = Running(s)
    BY <2>1, RunningSame
  <2>. QED  BY <1>1, <2>2 DEF CountsAreExact, IInv
<1>5. Windows'
  <2>1. ASSUME NEW q \in Requests \ {r} PROVE Progress(q)'
    <3>1. Progress(q) /\ pc'[q] = pc[q] /\ kv'[q] = kv[q] /\ window'[q] = window[q] /\ router_mode' = router_mode
      BY <1>1, <1>2 DEF IInv, TypeOK, Windows
    <3>. QED  BY <3>1 DEF Progress
  <2>2. Progress(r)'
    <3>1. Progress(r) /\ pc[r] = "post" /\ window[r] \in [matched : Nat, end : Nat] /\ L \in Nat
      BY <1>1, ConstantsAssumption DEF ConstantsAssumption, IInv, TypeOK, Windows
    <3>2. \A p \in 0..(L - 1) : kv[r][p] \in Nat
      BY DEF IInv, TypeOK
    <3>3. pc'[r] = "stream"
      BY <1>1 DEF IInv, TypeOK
    <3>. QED  BY <1>1, <1>2, <3>1, <3>2, <3>3 DEF Progress
  <2>. QED  BY <2>1, <2>2 DEF Windows
<1>6. Holds'
  BY <1>1 DEF IInv, TypeOK, Holds
<1>7. FirstRun'
  BY <1>1 DEF IInv, TypeOK, FirstRun
<1>. QED  BY <1>3, <1>4, <1>5, <1>6, <1>7 DEF IInv

\* A chunk is passed on to the client.
LEMMA YieldResponseKeeps ==
  ASSUME IInv, NEW r \in Requests, YieldResponse(r)
  PROVE  IInv'
<1>1. /\ pc[r] = "stream" /\ Sent(r) < MaxTokens
      /\ received' = [received EXCEPT ![r] = Append(@, [run |-> preempts[r], token |-> Sent(r) + 1])]
      /\ UNCHANGED <<num_running_requests, pc, endpoint, window, kv, reserved, preempts, leaked,
                     router_mode, pd_balance_factor>>
  BY DEF YieldResponse, settings
<1>2. TypeOK'
  <2>1. Sent(r) + 1 \in 1..MaxTokens
    BY <1>1, SentNat, ConstantsAssumption DEF ConstantsAssumption, IInv
  <2>2. [run |-> preempts[r], token |-> Sent(r) + 1] \in [run : 0..MaxPreempts, token : 1..MaxTokens]
    BY <2>1 DEF IInv, TypeOK
  <2>3. received[r] \in Seq([run : 0..MaxPreempts, token : 1..MaxTokens])
    BY DEF IInv, TypeOK
  <2>4. Append(received[r], [run |-> preempts[r], token |-> Sent(r) + 1])
          \in Seq([run : 0..MaxPreempts, token : 1..MaxTokens])
    BY <2>2, <2>3, AppendType
  <2>5. received' \in [Requests -> Seq([run : 0..MaxPreempts, token : 1..MaxTokens])]
    BY <1>1, <2>4, Zenon DEF IInv, TypeOK
  <2>. QED  BY <1>1, <2>5 DEF IInv, TypeOK
<1>3. CountsAreExact'
  BY <1>1, RunningSame DEF CountsAreExact, IInv
<1>4. Windows' /\ Holds'
  BY <1>1 DEF IInv, Windows, Progress, Holds
<1>5. FirstRun'
  BY <1>1 DEF IInv, TypeOK, FirstRun
<1>. QED  BY <1>2, <1>3, <1>4, <1>5 DEF IInv

\* The answer ends and the count is lowered.
LEMMA CompleteKeeps ==
  ASSUME IInv, NEW r \in Requests, Complete(r)
  PROVE  IInv'
<1>1. /\ pc[r] = "stream" /\ pc' = [pc EXCEPT ![r] = "done"]
      /\ num_running_requests' = [num_running_requests EXCEPT ![endpoint[r]] = @ + -1]
      /\ reserved' = [reserved EXCEPT ![endpoint[r]] = @ \ {r}]
      /\ UNCHANGED <<endpoint, window, received, kv, preempts, leaked, router_mode, pd_balance_factor>>
  BY DEF Complete, Goto, Count, settings
<1>2. endpoint[r] \in Servers /\ pc[r] \in InFlight /\ pc'[r] \notin InFlight
  BY <1>1 DEF IInv, TypeOK, InFlight
<1>3. \A s \in Servers :
        Cardinality(Running(s)') = Cardinality(Running(s)) - (IF s = endpoint[r] THEN 1 ELSE 0)
  <2>1. \A q \in Requests \ {r} : pc'[q] = pc[q] /\ endpoint'[q] = endpoint[q]
    BY <1>1 DEF IInv, TypeOK
  <2>. QED  BY <1>2, <2>1, RunningLeaves
<1>4. r \in Running(endpoint[r])
  BY <1>2 DEF Running
<1>5. num_running_requests[endpoint[r]] >= 1
  <2>1. Cardinality(Running(endpoint[r])) # 0
    BY <1>4, RunningFinite, FS_EmptySet, Zenon
  <2>. QED  BY <1>2, <2>1, RunningFinite DEF IInv, TypeOK, CountsAreExact
<1>6. TypeOK'
  <2>1. pc' \in [Requests -> InFlight \cup Ended \cup {"new", "retry"}]
    BY <1>1 DEF IInv, TypeOK, InFlight, Ended
  <2>2. reserved' \in [Servers -> SUBSET Requests]
    BY <1>1 DEF IInv, TypeOK
  <2>3. num_running_requests' \in [Servers -> Nat] /\ leaked' \in [Servers -> Nat]
    BY <1>1, <1>2, <1>5 DEF IInv, TypeOK
  <2>. QED  BY <1>1, <2>1, <2>2, <2>3 DEF IInv, TypeOK
<1>7. CountsAreExact'
  <2>1. num_running_requests \in [Servers -> Nat] /\ leaked \in [Servers -> Nat] /\ CountsAreExact
    BY DEF IInv, TypeOK
  <2>. QED  BY <1>1, <1>2, <1>3, <2>1, RunningFinite DEF CountsAreExact
<1>8. Windows'
  <2>1. ASSUME NEW q \in Requests \ {r} PROVE Progress(q)'
    <3>1. Progress(q) /\ pc'[q] = pc[q] /\ kv'[q] = kv[q] /\ window'[q] = window[q] /\ router_mode' = router_mode
      BY <1>1 DEF IInv, TypeOK, Windows
    <3>. QED  BY <3>1 DEF Progress
  <2>2. pc'[r] = "done"
    BY <1>1 DEF IInv, TypeOK
  <2>3. Progress(r)'
    BY <2>2 DEF Progress
  <2>. QED  BY <2>1, <2>3 DEF Windows
<1>9. Holds'
  BY <1>1 DEF IInv, TypeOK, Holds, InFlight
<1>10. FirstRun'
  BY <1>1 DEF IInv, TypeOK, FirstRun
<1>. QED  BY <1>6, <1>7, <1>8, <1>9, <1>10 DEF IInv

\* A preempted request leaves its count behind and is run again.
LEMMA PreemptKeeps ==
  ASSUME IInv, NEW r \in Requests, Preempt(r)
  PROVE  IInv'
<1>1. /\ pc[r] = "stream" /\ pc' = [pc EXCEPT ![r] = "retry"]
      /\ preempts[r] < MaxPreempts /\ preempts' = [preempts EXCEPT ![r] = @ + 1]
      /\ leaked' = [leaked EXCEPT ![endpoint[r]] = @ + 1]
      /\ reserved' = [reserved EXCEPT ![endpoint[r]] = @ \ {r}]
      /\ UNCHANGED <<num_running_requests, endpoint, window, received, kv, router_mode, pd_balance_factor>>
  BY DEF Preempt, Goto, Count, settings
<1>2. endpoint[r] \in Servers /\ pc[r] \in InFlight /\ pc'[r] \notin InFlight
  BY <1>1 DEF IInv, TypeOK, InFlight
<1>3. \A s \in Servers :
        Cardinality(Running(s)') = Cardinality(Running(s)) - (IF s = endpoint[r] THEN 1 ELSE 0)
  <2>1. \A q \in Requests \ {r} : pc'[q] = pc[q] /\ endpoint'[q] = endpoint[q]
    BY <1>1 DEF IInv, TypeOK
  <2>. QED  BY <1>2, <2>1, RunningLeaves
<1>4. r \in Running(endpoint[r])
  BY <1>2 DEF Running
<1>5. num_running_requests[endpoint[r]] >= 1
  <2>1. Cardinality(Running(endpoint[r])) # 0
    BY <1>4, RunningFinite, FS_EmptySet, Zenon
  <2>. QED  BY <1>2, <2>1, RunningFinite DEF IInv, TypeOK, CountsAreExact
<1>6. TypeOK'
  <2>1. pc' \in [Requests -> InFlight \cup Ended \cup {"new", "retry"}]
    BY <1>1 DEF IInv, TypeOK, InFlight, Ended
  <2>2. reserved' \in [Servers -> SUBSET Requests]
    BY <1>1 DEF IInv, TypeOK
  <2>3. num_running_requests' \in [Servers -> Nat] /\ leaked' \in [Servers -> Nat]
    BY <1>1, <1>2, <1>5 DEF IInv, TypeOK
  <2>4. preempts' \in [Requests -> 0..MaxPreempts]
    BY <1>1, ConstantsAssumption DEF ConstantsAssumption, IInv, TypeOK
  <2>. QED  BY <1>1, <2>1, <2>2, <2>3, <2>4 DEF IInv, TypeOK
<1>7. CountsAreExact'
  <2>1. num_running_requests \in [Servers -> Nat] /\ leaked \in [Servers -> Nat] /\ CountsAreExact
    BY DEF IInv, TypeOK
  <2>. QED  BY <1>1, <1>2, <1>3, <2>1, RunningFinite DEF CountsAreExact
<1>8. Windows'
  <2>1. ASSUME NEW q \in Requests \ {r} PROVE Progress(q)'
    <3>1. Progress(q) /\ pc'[q] = pc[q] /\ kv'[q] = kv[q] /\ window'[q] = window[q] /\ router_mode' = router_mode
      BY <1>1 DEF IInv, TypeOK, Windows
    <3>. QED  BY <3>1 DEF Progress
  <2>2. pc'[r] = "retry"
    BY <1>1 DEF IInv, TypeOK
  <2>3. Progress(r)'
    BY <2>2 DEF Progress
  <2>. QED  BY <2>1, <2>3 DEF Windows
<1>9. Holds'
  BY <1>1 DEF IInv, TypeOK, Holds, InFlight
<1>10. FirstRun'
  BY <1>1 DEF IInv, TypeOK, FirstRun
<1>. QED  BY <1>6, <1>7, <1>8, <1>9, <1>10 DEF IInv

\* A call fails, and in mode "disagg" the count is lowered.
LEMMA ServerErrorKeeps ==
  ASSUME IInv, NEW r \in Requests, ServerError(r)
  PROVE  IInv'
<1>1. /\ pc[r] \in InFlight /\ pc' = [pc EXCEPT ![r] = "failed"]
      /\ \/ /\ num_running_requests' = [num_running_requests EXCEPT ![endpoint[r]] = @ + -1]
            /\ leaked' = leaked
         \/ /\ leaked' = [leaked EXCEPT ![endpoint[r]] = @ + 1]
            /\ num_running_requests' = num_running_requests
      /\ BreakOff(r)
      /\ UNCHANGED <<endpoint, window, received, kv, preempts, router_mode, pd_balance_factor>>
  BY DEF ServerError, Goto, Count, settings
<1>2. endpoint[r] \in Servers /\ pc[r] \in InFlight /\ pc'[r] \notin InFlight
  BY <1>1 DEF IInv, TypeOK, InFlight
<1>3. \A s \in Servers :
        Cardinality(Running(s)') = Cardinality(Running(s)) - (IF s = endpoint[r] THEN 1 ELSE 0)
  <2>1. \A q \in Requests \ {r} : pc'[q] = pc[q] /\ endpoint'[q] = endpoint[q]
    BY <1>1 DEF IInv, TypeOK
  <2>. QED  BY <1>2, <2>1, RunningLeaves
<1>4. r \in Running(endpoint[r])
  BY <1>2 DEF Running
<1>5. num_running_requests[endpoint[r]] >= 1
  <2>1. Cardinality(Running(endpoint[r])) # 0
    BY <1>4, RunningFinite, FS_EmptySet, Zenon
  <2>. QED  BY <1>2, <2>1, RunningFinite DEF IInv, TypeOK, CountsAreExact
<1>6. TypeOK'
  <2>1. pc' \in [Requests -> InFlight \cup Ended \cup {"new", "retry"}]
    BY <1>1 DEF IInv, TypeOK, InFlight, Ended
  <2>2. reserved' \in [Servers -> SUBSET Requests]
    BY <1>1, BreakOffLeaves DEF IInv
  <2>3. num_running_requests' \in [Servers -> Nat] /\ leaked' \in [Servers -> Nat]
    <3>1. num_running_requests \in [Servers -> Nat] /\ leaked \in [Servers -> Nat]
      BY DEF IInv, TypeOK
    <3>2. CASE /\ num_running_requests' = [num_running_requests EXCEPT ![endpoint[r]] = @ + -1]
               /\ leaked' = leaked
      BY <1>2, <1>5, <3>1, <3>2
    <3>3. CASE /\ leaked' = [leaked EXCEPT ![endpoint[r]] = @ + 1]
               /\ num_running_requests' = num_running_requests
      BY <1>2, <3>1, <3>3
    <3>. QED  BY <1>1, <3>2, <3>3
  <2>. QED  BY <1>1, <2>1, <2>2, <2>3 DEF IInv, TypeOK
<1>7. CountsAreExact'
  <2>1. num_running_requests \in [Servers -> Nat] /\ leaked \in [Servers -> Nat] /\ CountsAreExact
    BY DEF IInv, TypeOK
  <2>2. CASE /\ num_running_requests' = [num_running_requests EXCEPT ![endpoint[r]] = @ + -1]
             /\ leaked' = leaked
    BY <1>2, <1>3, <2>1, <2>2, RunningFinite DEF CountsAreExact
  <2>3. CASE /\ leaked' = [leaked EXCEPT ![endpoint[r]] = @ + 1]
             /\ num_running_requests' = num_running_requests
    BY <1>2, <1>3, <2>1, <2>3, RunningFinite DEF CountsAreExact
  <2>. QED  BY <1>1, <2>2, <2>3
<1>8. Windows'
  <2>1. ASSUME NEW q \in Requests \ {r} PROVE Progress(q)'
    <3>1. Progress(q) /\ pc'[q] = pc[q] /\ kv'[q] = kv[q] /\ window'[q] = window[q] /\ router_mode' = router_mode
      BY <1>1 DEF IInv, TypeOK, Windows
    <3>. QED  BY <3>1 DEF Progress
  <2>2. pc'[r] = "failed"
    BY <1>1 DEF IInv, TypeOK
  <2>3. Progress(r)'
    BY <2>2 DEF Progress
  <2>. QED  BY <2>1, <2>3 DEF Windows
<1>9. Holds'
  <2> SUFFICES ASSUME NEW s \in Servers, NEW q \in reserved'[s]
               PROVE  /\ pc'[q] \in {"send", "start", "stream", "failed", "gone"} /\ endpoint'[q] = s
                      /\ pc'[q] \in {"failed", "gone"} => router_mode' = "disagg"
                      /\ pc'[q] = "gone" => preempts'[q] > 0
    BY DEF Holds
  <2>1. IF q = r /\ s = endpoint[r] THEN pc[r] \in {"prepare", "send", "start"} ELSE q \in reserved[s]
    BY <1>1, BreakOffLeaves DEF IInv
  <2>2. CASE q = r
    <3>1. s = endpoint[r] /\ pc[r] \in {"prepare", "send", "start"}
      BY <2>1, <2>2 DEF IInv, Holds
    <3>2. router_mode = "disagg"
      BY <3>1 DEF IInv, Windows, Progress
    <3>. QED  BY <1>1, <2>2, <3>1, <3>2 DEF IInv, TypeOK
  <2>3. CASE q # r
    <3>1. q \in reserved[s] /\ q \in Requests /\ pc'[q] = pc[q]
      BY <1>1, <2>1, <2>3 DEF IInv, TypeOK
    <3>. QED  BY <1>1, <3>1 DEF IInv, Holds
  <2>. QED  BY <2>2, <2>3
<1>10. FirstRun'
  BY <1>1 DEF IInv, TypeOK, FirstRun
<1>. QED  BY <1>6, <1>7, <1>8, <1>9, <1>10 DEF IInv

\* The client leaves and the generator is closed where it stands.
LEMMA DisconnectKeeps ==
  ASSUME IInv, NEW r \in Requests, Disconnect(r)
  PROVE  IInv'
<1>1. /\ pc[r] \in InFlight
      /\ pc[r] = "stream" \/ received[r] # <<>>
      /\ pc' = [pc EXCEPT ![r] = "gone"]
      /\ leaked' = [leaked EXCEPT ![endpoint[r]] = @ + 1]
      /\ BreakOff(r)
      /\ UNCHANGED <<num_running_requests, endpoint, window, received, kv, preempts, router_mode, pd_balance_factor>>
  BY DEF Disconnect, Goto, InFlight, settings
<1>2. endpoint[r] \in Servers /\ pc[r] \in InFlight /\ pc'[r] \notin InFlight
  BY <1>1 DEF IInv, TypeOK, InFlight
<1>3. \A s \in Servers :
        Cardinality(Running(s)') = Cardinality(Running(s)) - (IF s = endpoint[r] THEN 1 ELSE 0)
  <2>1. \A q \in Requests \ {r} : pc'[q] = pc[q] /\ endpoint'[q] = endpoint[q]
    BY <1>1 DEF IInv, TypeOK
  <2>. QED  BY <1>2, <2>1, RunningLeaves
<1>4. r \in Running(endpoint[r])
  BY <1>2 DEF Running
<1>5. num_running_requests[endpoint[r]] >= 1
  <2>1. Cardinality(Running(endpoint[r])) # 0
    BY <1>4, RunningFinite, FS_EmptySet, Zenon
  <2>. QED  BY <1>2, <2>1, RunningFinite DEF IInv, TypeOK, CountsAreExact
<1>6. TypeOK'
  <2>1. pc' \in [Requests -> InFlight \cup Ended \cup {"new", "retry"}]
    BY <1>1 DEF IInv, TypeOK, InFlight, Ended
  <2>2. reserved' \in [Servers -> SUBSET Requests]
    BY <1>1, BreakOffLeaves DEF IInv
  <2>3. num_running_requests' \in [Servers -> Nat] /\ leaked' \in [Servers -> Nat]
    BY <1>1, <1>2, <1>5 DEF IInv, TypeOK
  <2>. QED  BY <1>1, <2>1, <2>2, <2>3 DEF IInv, TypeOK
<1>7. CountsAreExact'
  <2>1. num_running_requests \in [Servers -> Nat] /\ leaked \in [Servers -> Nat] /\ CountsAreExact
    BY DEF IInv, TypeOK
  <2>. QED  BY <1>1, <1>2, <1>3, <2>1, RunningFinite DEF CountsAreExact
<1>8. Windows'
  <2>1. ASSUME NEW q \in Requests \ {r} PROVE Progress(q)'
    <3>1. Progress(q) /\ pc'[q] = pc[q] /\ kv'[q] = kv[q] /\ window'[q] = window[q] /\ router_mode' = router_mode
      BY <1>1 DEF IInv, TypeOK, Windows
    <3>. QED  BY <3>1 DEF Progress
  <2>2. pc'[r] = "gone"
    BY <1>1 DEF IInv, TypeOK
  <2>3. Progress(r)'
    BY <2>2 DEF Progress
  <2>. QED  BY <2>1, <2>3 DEF Windows
<1>9. Holds'
  <2> SUFFICES ASSUME NEW s \in Servers, NEW q \in reserved'[s]
               PROVE  /\ pc'[q] \in {"send", "start", "stream", "failed", "gone"} /\ endpoint'[q] = s
                      /\ pc'[q] \in {"failed", "gone"} => router_mode' = "disagg"
                      /\ pc'[q] = "gone" => preempts'[q] > 0
    BY DEF Holds
  <2>1. IF q = r /\ s = endpoint[r] THEN pc[r] \in {"prepare", "send", "start"} ELSE q \in reserved[s]
    BY <1>1, BreakOffLeaves DEF IInv
  <2>2. CASE q = r
    <3>1. s = endpoint[r] /\ pc[r] \in {"prepare", "send", "start"}
      BY <2>1, <2>2 DEF IInv, Holds
    <3>2. router_mode = "disagg"
      BY <3>1 DEF IInv, Windows, Progress
    <3>3. preempts[r] > 0
      <4>1. preempts[r] # 0
        BY <1>1, <3>1 DEF IInv, FirstRun
      <4>2. preempts[r] \in Nat
        BY ConstantsAssumption DEF ConstantsAssumption, IInv, TypeOK
      <4>. QED  BY <4>1, <4>2
    <3>. QED  BY <1>1, <2>2, <3>1, <3>2, <3>3 DEF IInv, TypeOK
  <2>3. CASE q # r
    <3>1. q \in reserved[s] /\ q \in Requests /\ pc'[q] = pc[q]
      BY <1>1, <2>1, <2>3 DEF IInv, TypeOK
    <3>. QED  BY <1>1, <3>1 DEF IInv, Holds
  <2>. QED  BY <2>2, <2>3
<1>10. FirstRun'
  BY <1>1 DEF IInv, TypeOK, FirstRun
<1>. QED  BY <1>6, <1>7, <1>8, <1>9, <1>10 DEF IInv

\* Every step keeps the inductive invariant.
LEMMA NextIInv ==
  ASSUME IInv, [Next]_vars
  PROVE  IInv'
<1>1. CASE Next
  <2>1. PICK r \in Requests :
          \/ HandleCompletion(r) \/ PrepareReceive(r) \/ RemoteSend(r) \/ StartGenerate(r) \/ Post(r)
          \/ YieldResponse(r) \/ Complete(r) \/ Preempt(r) \/ ServerError(r) \/ Disconnect(r)
    BY <1>1 DEF Next
  <2>. QED  BY <2>1, HandleCompletionKeeps, PrepareReceiveKeeps, RemoteSendKeeps, StartGenerateKeeps,
                PostKeeps, YieldResponseKeeps, CompleteKeeps, PreemptKeeps, ServerErrorKeeps, DisconnectKeeps
<1>2. CASE UNCHANGED vars
  <2>1. TypeOK'
    BY <1>2 DEF vars, IInv, TypeOK
  <2>2. CountsAreExact'
    BY <1>2 DEF vars, IInv, CountsAreExact, Running
  <2>3. Windows' /\ Holds' /\ FirstRun'
    BY <1>2 DEF vars, IInv, Windows, Progress, Holds, FirstRun
  <2>. QED  BY <2>1, <2>2, <2>3 DEF IInv
<1>. QED  BY <1>1, <1>2

\* The inductive invariant holds in every behaviour.
LEMMA IInvariant == Spec => []IInv
<1>1. Init => IInv
  BY InitIInv
<1>2. IInv /\ [Next]_vars => IInv'
  BY NextIInv
<1>. QED  BY <1>1, <1>2, PTL DEF Spec
-----------------------------------------------------------------------------
(* The theorems.                                                           *)

\* The state of the router keeps its type; in particular no count of running
\* requests falls below zero (num_running_requests).
THEOREM TypeCorrect == Spec => []TypeOK
<1>1. IInv => TypeOK
  BY DEF IInv
<1>. QED  BY <1>1, IInvariant, PTL

\* Every way out of _handle_completion_round_robin and _handle_completion_disagg is
\* accounted for: the count of a server is what it works on and what was left there.
THEOREM CountsStayExact == Spec => []CountsAreExact
<1>1. IInv => CountsAreExact
  BY DEF IInv
<1>. QED  BY <1>1, IInvariant, PTL

\* The windows of prep_recv, remote_send and start_generate tile the prompt, for every
\* length of prompt, matched prefix and balance factor.
THEOREM PromptComputedOnce == Spec => []EachPositionOnce
<1>1. IInv => EachPositionOnce
  <2> SUFFICES ASSUME IInv, NEW r \in Requests, pc[r] = "stream"
               PROVE  /\ \A p \in DOMAIN kv[r] : kv[r][p] = 1
                      /\ router_mode = "disagg" => window[r].end < PromptLength[r]
    BY DEF EachPositionOnce
  <2>1. Progress(r) /\ DOMAIN kv[r] = 0..(PromptLength[r] - 1)
    BY DEF IInv, TypeOK, Windows
  <2>. QED  BY <2>1 DEF Progress
<1>. QED  BY <1>1, IInvariant, PTL

\* Entries nobody will use stay only where mode "disagg" was broken off between reserving
\* and generating, and a client's leaving does that only to a request that runs again.
THEOREM EntriesKeptOnlyWhenBrokenOff == Spec => []KeptOnlyWhenBrokenOff
<1>1. IInv => KeptOnlyWhenBrokenOff
  BY DEF IInv, Holds, KeptOnlyWhenBrokenOff
<1>. QED  BY <1>1, IInvariant, PTL

\* As long as no generator was left uncounted, _pick_endpoint chooses a candidate with
\* the fewest requests in flight.
THEOREM LeastCongestedPicked == Spec => PicksLeastCongested
<1> DEFINE Picks == \A r \in Requests :
      (\A s \in Servers : leaked[s] = 0) /\ pc[r] \in {"new", "retry"} /\ pc'[r] \in InFlight =>
        \A s \in Candidates : Cardinality(Running(endpoint'[r])) <= Cardinality(Running(s))
<1>1. IInv /\ [Next]_vars => [Picks]_vars
  <2> SUFFICES ASSUME IInv, Next, NEW r \in Requests, \A s \in Servers : leaked[s] = 0,
                      pc[r] \in {"new", "retry"}, pc'[r] \in InFlight, NEW s \in Candidates
               PROVE  Cardinality(Running(endpoint'[r])) <= Cardinality(Running(s))
    BY DEF InFlight
  <2>1. PICK q \in Requests :
          \/ HandleCompletion(q) \/ PrepareReceive(q) \/ RemoteSend(q) \/ StartGenerate(q) \/ Post(q)
          \/ YieldResponse(q) \/ Complete(q) \/ Preempt(q) \/ ServerError(q) \/ Disconnect(q)
    BY DEF Next
  <2>2. HandleCompletion(r)
    BY <2>1 DEF HandleCompletion, PrepareReceive, RemoteSend, StartGenerate, Post, YieldResponse,
                Complete, Preempt, ServerError, Disconnect, BreakOff, Goto, InFlight, IInv, TypeOK
  <2>3. endpoint'[r] = PickEndpoint(Candidates)
    BY <2>2 DEF HandleCompletion, IInv, TypeOK
  <2>4. /\ endpoint'[r] \in Servers /\ s \in Servers
        /\ num_running_requests[endpoint'[r]] <= num_running_requests[s]
    BY <2>3, PickEndpointPicks DEF IInv
  <2>. QED  BY <2>4, RunningFinite DEF IInv, CountsAreExact
<1>. QED  BY <1>1, IInvariant, PTL DEF Spec, PicksLeastCongested
=============================================================================
