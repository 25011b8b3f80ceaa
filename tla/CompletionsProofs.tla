------------------------- MODULE CompletionsProofs -------------------------
(***************************************************************************)
(* Proofs about Completions, for every set of requests with any number of  *)
(* choices and every bound on the tokens: the text of a choice is its      *)
(* generation, an answer that is returned is complete, and no assertion on *)
(* the way fails.  Texts are compared as ramps, sequences of consecutive   *)
(* numbers, since the echo is number 0 and the tokens count from 1.        *)
(***************************************************************************)
EXTENDS Completions, Integers, SequenceTheorems, TLAPS

\* The k numbers after b.
Ramp(b, k) == [j \in 1..k |-> b + j]

\* A ramp is a sequence.
LEMMA RampIsSeq ==
  ASSUME NEW b \in Int, NEW k \in Nat
  PROVE  Ramp(b, k) \in Seq(Int) /\ Len(Ramp(b, k)) = k
BY DEF Ramp

\* A ramp continued by the next one is a ramp.
LEMMA RampConcat ==
  ASSUME NEW b \in Int, NEW k \in Nat, NEW m \in Nat
  PROVE  Ramp(b, k) \o Ramp(b + k, m) = Ramp(b, k + m)
<1>1. Ramp(b, k) \in Seq(Int) /\ Len(Ramp(b, k)) = k
  BY RampIsSeq
<1>2. Ramp(b + k, m) \in Seq(Int) /\ Len(Ramp(b + k, m)) = m
  BY RampIsSeq
<1>3. Ramp(b, k + m) \in Seq(Int) /\ Len(Ramp(b, k + m)) = k + m
  BY RampIsSeq
<1>4. ASSUME NEW j \in 1..(k + m)
      PROVE  (Ramp(b, k) \o Ramp(b + k, m))[j] = Ramp(b, k + m)[j]
  BY <1>1, <1>2, <1>3 DEF Ramp
<1>5. /\ Ramp(b, k) \o Ramp(b + k, m) \in Seq(Int)
      /\ Len(Ramp(b, k) \o Ramp(b + k, m)) = k + m
  <2>1. PICK x \in Seq(Int), y \in Seq(Int) : x = Ramp(b, k) /\ y = Ramp(b + k, m)
    BY <1>1, <1>2
  <2>2. x \o y \in Seq(Int) /\ Len(x \o y) = Len(x) + Len(y)
    BY ConcatProperties
  <2> QED BY <1>1, <1>2, <2>1, <2>2
<1> QED BY <1>3, <1>4, <1>5, SeqEqual

\* The first numbers of a ramp.
LEMMA RampFront ==
  ASSUME NEW b \in Int, NEW k \in Nat, NEW m \in Nat
  PROVE  SubSeq(Ramp(b, m + k), 1, m) = Ramp(b, m)
<1>1. Ramp(b, m + k) \in Seq(Int) /\ Len(Ramp(b, m + k)) = m + k
  BY RampIsSeq
<1>2. Ramp(b, m) \in Seq(Int) /\ Len(Ramp(b, m)) = m
  BY RampIsSeq
<1>3. SubSeq(Ramp(b, m + k), 1, m) \in Seq(Int) /\ Len(SubSeq(Ramp(b, m + k), 1, m)) = m
  BY <1>1
<1>4. ASSUME NEW j \in 1..m
      PROVE  SubSeq(Ramp(b, m + k), 1, m)[j] = Ramp(b, m)[j]
  BY <1>1, <1>2, <1>3 DEF Ramp
<1> QED BY <1>2, <1>3, <1>4, SeqEqual

\* The last numbers of a ramp.
LEMMA RampBack ==
  ASSUME NEW b \in Int, NEW k \in Nat, NEW m \in Nat
  PROVE  SubSeq(Ramp(b, m + k), m + 1, m + k) = Ramp(b + m, k)
<1>1. Ramp(b, m + k) \in Seq(Int) /\ Len(Ramp(b, m + k)) = m + k
  BY RampIsSeq
<1>2. Ramp(b + m, k) \in Seq(Int) /\ Len(Ramp(b + m, k)) = k
  BY RampIsSeq
<1>3. /\ SubSeq(Ramp(b, m + k), m + 1, m + k) \in Seq(Int)
      /\ Len(SubSeq(Ramp(b, m + k), m + 1, m + k)) = k
  BY <1>1
<1>4. ASSUME NEW j \in 1..k
      PROVE  SubSeq(Ramp(b, m + k), m + 1, m + k)[j] = Ramp(b + m, k)[j]
  BY <1>1, <1>2, <1>3 DEF Ramp
<1> QED BY <1>2, <1>3, <1>4, SeqEqual

\* The empty ramp.
LEMMA RampEmpty ==
  ASSUME NEW b \in Int, NEW k \in Nat
  PROVE  Ramp(b, k) = <<>> <=> k = 0
BY DEF Ramp
-----------------------------------------------------------------------------
(* The inductive invariant.                                                *)

EngineReasons == {"stop", "length", "abort", "preempt"}
Reasons == EngineReasons \cup {"tool_calls", "error"}
Choices == [text : Seq(Int), reason : Reasons \cup {None}, logprobs : Seq(Int)]

TypeOK ==
  /\ request \in Requests
  /\ produced \in [Generations -> 0..MaxTokens]
  /\ ended \in [Generations -> EngineReasons \cup {None}]
  /\ pending \in [Generations -> Seq(Int)]
  /\ finish_reasons \in [Generations -> Reasons \cup {None}]
  /\ answer \in [Generations -> Choices]
  /\ usages \in Nat
  /\ tool_calls \in [Generations -> Nat]
  /\ pc \in {"created", "generating", "suffix", "end", "returned", "failed"}

\* What the text streamer holds are the last tokens of the generation.
HoldsTheLast ==
  \A i \in Generations :
    /\ Len(pending[i]) <= produced[i]
    /\ pending[i] = Ramp(produced[i] - Len(pending[i]), Len(pending[i]))

\* Where the handler stands, and what it has counted.
HandlerAt ==
  /\ pc = "created" =>
       \A i \in Generations : /\ produced[i] = 0 /\ ended[i] = None /\ pending[i] = <<>>
                              /\ answer[i].text = <<>>
  /\ pc \in {"suffix", "end", "returned"} => AllEnded
  /\ pc = "suffix" => request.suffix
  /\ pc \in {"created", "generating"} => usages = 0
  /\ pc \in {"suffix", "end", "returned"} =>
       usages = (IF request.stream /\ request.usage # "include" THEN 0 ELSE 1)

\* The handler's reasons are the engine's, or "tool_calls"; the reader has the same.
ReasonsAgree ==
  \A i \in Generations :
    /\ finish_reasons[i] = IF ended[i] # None /\ request.tools THEN "tool_calls" ELSE ended[i]
    /\ pc \in {"created", "generating", "suffix", "end"} => answer[i].reason = finish_reasons[i]

\* Log probabilities come in order and are those of tokens that were produced.
LogprobsInOrder ==
  \A i \in Generations :
    LET l == answer[i].logprobs
    IN  /\ \A j, k \in DOMAIN l : j < k => l[j] < l[k]
        /\ \A j \in DOMAIN l : l[j] <= produced[i]

\* The tokens of a generation that have left the text streamer.
Shown(i) == IF ended[i] = None THEN produced[i] - Len(pending[i]) ELSE produced[i]

\* No token that has left the text streamer is missing in the text.
NothingMissing ==
  pc \in {"created", "generating", "suffix", "end"} =>
    \A i \in Generations : Len(answer[i].text) >= Shown(i)

\* Only requests of one choice are ended by the engine.
OneChoiceInterrupted == \A r \in Interrupted : r.n = 1

EchoLen == IF request.echo THEN 1 ELSE 0
SuffixText == IF request.suffix THEN <<Suffix>> ELSE <<>>

\* The text is exactly what has left the text streamer, and nothing comes twice.
TextExact ==
  \A i \in Generations :
    /\ pc \in {"generating", "suffix"} => answer[i].text = Ramp(0 - EchoLen, EchoLen + Shown(i))
    /\ pc \in {"end", "returned"} =>
         answer[i].text = Ramp(0 - EchoLen, EchoLen + produced[i]) \o SuffixText

IInv ==
  /\ TypeOK /\ HoldsTheLast /\ HandlerAt /\ ReasonsAgree /\ LogprobsInOrder /\ NothingMissing
  /\ AnswerIsComplete /\ FailsOnlyWhenExpected
  /\ OneChoiceInterrupted => TextExact
-----------------------------------------------------------------------------
(* What detokenization and the readers compute.                            *)

\* How many tokens the text streamer holds after a delta.
Kept(i, d) == IF d.new = 0 THEN Len(pending[i]) ELSE d.hold

\* A delta that the engine may send for generation i.
FitsDelta(i, d) ==
  /\ d \in [new : Nat, hold : Nat, reason : EngineReasons \cup {None}]
  /\ produced[i] + d.new <= MaxTokens
  /\ d.hold <= (IF d.new = 0 THEN 0 ELSE Len(pending[i]) + d.new)
  /\ ended[i] # None => d.new = 0

\* The types of the parts of a generation.
LEMMA GenerationTypes ==
  ASSUME TypeOK, NEW i \in Generations
  PROVE  /\ request.n \in Nat /\ MaxTokens \in Nat
         /\ produced[i] \in Nat /\ produced[i] <= MaxTokens
         /\ pending[i] \in Seq(Int) /\ Len(pending[i]) \in Nat
         /\ ended[i] \in EngineReasons \cup {None}
         /\ finish_reasons[i] \in Reasons \cup {None}
         /\ answer[i] \in Choices
         /\ answer[i].text \in Seq(Int) /\ Len(answer[i].text) \in Nat
         /\ answer[i].logprobs \in Seq(Int)
         /\ answer[i].reason \in Reasons \cup {None}
<1>1. request \in Request /\ MaxTokens \in Nat
  BY ConstantsAssumption DEF TypeOK
<1>2. request.n \in Nat
  BY <1>1 DEF Request
<1>3. answer[i] \in Choices
  BY DEF TypeOK
<1>4. /\ produced[i] \in 0..MaxTokens /\ pending[i] \in Seq(Int)
      /\ ended[i] \in EngineReasons \cup {None}
      /\ finish_reasons[i] \in Reasons \cup {None}
  BY DEF TypeOK
<1>5. /\ answer[i].text \in Seq(Int) /\ answer[i].logprobs \in Seq(Int)
      /\ answer[i].reason \in Reasons \cup {None}
  BY <1>3 DEF Choices
<1> QED BY <1>1, <1>2, <1>3, <1>4, <1>5

\* The tokens of a delta continue those the text streamer holds.
LEMMA BufferRamp ==
  ASSUME TypeOK, HoldsTheLast, NEW i \in Generations, NEW d, FitsDelta(i, d)
  PROVE  /\ NewTokens(i, d) = Ramp(produced[i], d.new)
         /\ Buffer(i, d) = Ramp(produced[i] - Len(pending[i]), Len(pending[i]) + d.new)
<1>1. d.new \in Nat
  BY DEF FitsDelta
<1>2. /\ produced[i] \in Nat /\ Len(pending[i]) \in Nat /\ Len(pending[i]) <= produced[i]
      /\ pending[i] = Ramp(produced[i] - Len(pending[i]), Len(pending[i]))
  BY GenerationTypes DEF HoldsTheLast
<1> DEFINE b == produced[i] - Len(pending[i])
<1>3. NewTokens(i, d) = Ramp(produced[i], d.new)
  BY DEF NewTokens, Ramp
<1>4. produced[i] = b + Len(pending[i]) /\ b \in Int
  BY <1>2
<1>5. Ramp(b, Len(pending[i])) \o Ramp(b + Len(pending[i]), d.new) = Ramp(b, Len(pending[i]) + d.new)
  <2> HIDE DEF b
  <2> QED BY <1>1, <1>2, <1>4, RampConcat
<1> QED BY <1>2, <1>3, <1>4, <1>5 DEF Buffer

\* What is left in the text streamer are again the last tokens, and the text of
\* the delta are the tokens up to there, or all of them at the end.
LEMMA DetokenizeRamp ==
  ASSUME TypeOK, HoldsTheLast, NEW i \in Generations, NEW d, FitsDelta(i, d)
  PROVE  \E from \in Int, l, kept, shown \in Nat :
           /\ from = produced[i] - Len(pending[i]) /\ l = Len(pending[i]) + d.new
           /\ l = shown + kept /\ kept = Kept(i, d)
           /\ Left(i, d) = Ramp(from + shown, kept)
           /\ Detokenize(i, d) = Ramp(from, IF d.reason = None THEN shown ELSE l)
<1>1. PICK L \in Nat, p \in Nat, b \in Int :
        L = Len(pending[i]) /\ p = produced[i] /\ b = p - L /\ pending[i] = Ramp(b, L)
  BY GenerationTypes DEF HoldsTheLast
<1>2. PICK new \in Nat, hold \in Nat :
        new = d.new /\ hold = d.hold /\ hold <= (IF new = 0 THEN 0 ELSE L + new)
  BY <1>1 DEF FitsDelta
<1>3. PICK l \in Nat, k \in Nat, m \in Nat, a \in Int :
        l = L + new /\ k = Kept(i, d) /\ l = m + k /\ a = b + m
  <2>1. Kept(i, d) \in Nat /\ Kept(i, d) <= L + new
    BY <1>1, <1>2 DEF Kept
  <2>2. L + new - Kept(i, d) \in Nat /\ b + (L + new - Kept(i, d)) \in Int
    <3>1. PICK kept \in Nat : kept = Kept(i, d) /\ kept <= L + new
      BY <2>1
    <3>2. L + new - kept \in Nat /\ b + (L + new - kept) \in Int
      BY <3>1
    <3> QED BY <3>1, <3>2
  <2> QED BY <2>1, <2>2
<1>4. Buffer(i, d) = Ramp(b, l) /\ Len(Buffer(i, d)) = l
  <2>1. Buffer(i, d) = Ramp(b, l)
    BY <1>1, <1>2, <1>3, BufferRamp
  <2> QED BY <2>1, RampIsSeq
<1>5. /\ SubSeq(Ramp(b, l), 1, m) = Ramp(b, m)
      /\ SubSeq(Ramp(b, l), m + 1, l) = Ramp(a, k)
      /\ Ramp(b, m) \o Ramp(a, k) = Ramp(b, l)
  <2>1. SubSeq(Ramp(b, m + k), 1, m) = Ramp(b, m)
    BY RampFront
  <2>2. SubSeq(Ramp(b, m + k), m + 1, m + k) = Ramp(b + m, k)
    BY RampBack
  <2>3. Ramp(b, m) \o Ramp(b + m, k) = Ramp(b, m + k)
    BY RampConcat
  <2> QED BY <1>3, <2>1, <2>2, <2>3
<1>6. /\ <<>> \o Ramp(b, L) = Ramp(b, L)
      /\ Ramp(b, m) \o <<>> = Ramp(b, m) /\ <<>> \o <<>> = Ramp(b, 0)
  <2>1. Ramp(b, L) \in Seq(Int) /\ Ramp(b, m) \in Seq(Int)
    BY RampIsSeq
  <2>2. Ramp(b, 0) = <<>>
    BY RampEmpty
  <2> QED BY <2>1, <2>2, ConcatEmptySeq
<1>7. Left(i, d) = Ramp(a, k) /\ Detokenize(i, d) = Ramp(b, IF d.reason = None THEN m ELSE l)
  <2>1. CASE new = 0
    <3>1. k = L
      BY <1>1, <1>2, <1>3, <2>1 DEF Kept
    <3>4. l = L /\ m = 0 /\ a = b
      BY <1>1, <1>2, <1>3, <2>1, <3>1
    <3>2. Left(i, d) = Ramp(b, L)
      BY <1>1, <1>2, <2>1 DEF Left
    <3>3. Detokenize(i, d) = <<>> \o (IF d.reason = None THEN <<>> ELSE Ramp(b, L))
      BY <1>2, <2>1, <3>2 DEF Detokenize
    <3> QED BY <1>6, <3>1, <3>2, <3>3, <3>4
  <2>2. CASE new # 0
    <3>1. k = hold /\ l - hold = m
      BY <1>2, <1>3, <2>2 DEF Kept
    <3>2. Left(i, d) = Ramp(a, k)
      BY <1>2, <1>4, <1>5, <2>2, <3>1 DEF Left
    <3>3. Detokenize(i, d) = Ramp(b, m) \o (IF d.reason = None THEN <<>> ELSE Ramp(a, k))
      BY <1>2, <1>4, <1>5, <2>2, <3>1, <3>2 DEF Detokenize
    <3> QED BY <1>5, <1>6, <3>2, <3>3
  <2> QED BY <2>1, <2>2
<1>8. /\ b = produced[i] - Len(pending[i]) /\ l = Len(pending[i]) + d.new
      /\ l = m + k /\ k = Kept(i, d)
      /\ Left(i, d) = Ramp(b + m, k)
      /\ Detokenize(i, d) = Ramp(b, IF d.reason = None THEN m ELSE l)
  BY <1>1, <1>2, <1>3, <1>7
<1> QED BY <1>8, Zenon

\* Every reader appends the text and keeps the first reason; it adds log
\* probabilities to those it has, replaces them or leaves them.
LEMMA FoldFacts ==
  ASSUME TypeOK, NEW a \in Choices,
         NEW c, c.text \in Seq(Int), c.reason \in Reasons \cup {None},
         c.logprobs # None => c.logprobs \in Seq(Int)
  PROVE  /\ Fold(a, c) \in Choices
         /\ Fold(a, c).text = a.text \o c.text
         /\ Fold(a, c).reason = FirstReason(a, c)
         /\ \/ Fold(a, c).logprobs = a.logprobs
            \/ /\ c.logprobs # None
               /\ Fold(a, c).logprobs \in {c.logprobs, a.logprobs \o c.logprobs}
<1>1. request \in Request
  BY ConstantsAssumption DEF TypeOK
<1>2. /\ request.kind \in {"chat", "completion"} /\ request.reader \in {"async", "sync", "http"}
      /\ request.stream \in BOOLEAN
  BY <1>1 DEF Request, ReaderKinds
<1> DEFINE appends == [text |-> a.text \o c.text, reason |-> FirstReason(a, c), logprobs |-> MoreLogprobs(a, c)]
           replaces == [text |-> a.text \o c.text, reason |-> FirstReason(a, c),
                        logprobs |-> IF c.logprobs = None THEN a.logprobs ELSE c.logprobs]
<1>3. Fold(a, c) \in {appends, replaces}
  <2>1. CASE request.stream
    BY <2>1 DEF Fold, StreamClient
  <2>2. CASE ~request.stream /\ request.kind = "chat"
    <3>1. CASE request.reader = "async"
      BY <2>2, <3>1 DEF Fold, AsyncChatCompletion
    <3>2. CASE request.reader = "sync"
      BY <2>2, <3>2 DEF Fold, SyncChatCompletion, AsyncChatCompletion
    <3>3. CASE request.reader = "http"
      BY <2>2, <3>3 DEF Fold, HttpChatCompletion, AsyncChatCompletion
    <3> QED BY <1>2, <3>1, <3>2, <3>3
  <2>3. CASE ~request.stream /\ request.kind = "completion"
    <3>1. CASE request.reader = "async"
      BY <2>3, <3>1 DEF Fold, AsyncCompletion
    <3>2. CASE request.reader = "sync"
      BY <2>3, <3>2 DEF Fold, SyncCompletion, AsyncCompletion
    <3>3. CASE request.reader = "http"
      BY <2>3, <3>3 DEF Fold, HttpCompletion
    <3> QED BY <1>2, <3>1, <3>2, <3>3
  <2> QED BY <1>2, <2>1, <2>2, <2>3
<1>4. a.text \in Seq(Int) /\ a.logprobs \in Seq(Int) /\ a.reason \in Reasons \cup {None}
  BY DEF Choices
<1>5. a.text \o c.text \in Seq(Int)
  BY <1>4
<1>6. FirstReason(a, c) \in Reasons \cup {None}
  BY <1>4 DEF FirstReason
<1>7. /\ MoreLogprobs(a, c) \in Seq(Int)
      /\ (IF c.logprobs = None THEN a.logprobs ELSE c.logprobs) \in Seq(Int)
  BY <1>4 DEF MoreLogprobs
<1>8. appends \in Choices /\ replaces \in Choices
  BY <1>5, <1>6, <1>7 DEF Choices
<1>9. /\ appends.logprobs = MoreLogprobs(a, c)
      /\ replaces.logprobs = IF c.logprobs = None THEN a.logprobs ELSE c.logprobs
      /\ appends.text = a.text \o c.text /\ appends.reason = FirstReason(a, c)
      /\ replaces.text = a.text \o c.text /\ replaces.reason = FirstReason(a, c)
  OBVIOUS
<1> HIDE DEF appends, replaces
<1> QED BY <1>3, <1>8, <1>9 DEF MoreLogprobs
-----------------------------------------------------------------------------
(* What one delta does to one generation.                                  *)

\* The reader's choice after a delta.
Read(i, d) == IF HasChoice(i, d) THEN Fold(answer[i], Choice(i, d)) ELSE answer[i]
\* Why the generation has ended, after a delta.
EndedBy(i, d) == IF ended[i] = None THEN d.reason ELSE ended[i]

\* The handler's reason stays the engine's, and is one the engine or the handler gives.
LEMMA DeltaReason ==
  ASSUME TypeOK, ReasonsAgree, NEW i \in Generations, NEW d, FitsDelta(i, d)
  PROVE  /\ EndedBy(i, d) \in EngineReasons \cup {None}
         /\ FinishReason(i, d) \in Reasons \cup {None}
         /\ FinishReason(i, d) = IF EndedBy(i, d) # None /\ request.tools THEN "tool_calls" ELSE EndedBy(i, d)
         /\ finish_reasons[i] # None => FinishReason(i, d) = finish_reasons[i]
<1>1. /\ ended[i] \in EngineReasons \cup {None} /\ d.reason \in EngineReasons \cup {None}
      /\ finish_reasons[i] = IF ended[i] # None /\ request.tools THEN "tool_calls" ELSE ended[i]
  BY GenerationTypes DEF FitsDelta, ReasonsAgree
<1>2. None \notin Reasons
  BY ConstantsAssumption DEF Reasons, EngineReasons
<1>3. EngineReasons \subseteq Reasons /\ "tool_calls" \in Reasons
  BY DEF Reasons
<1> QED BY <1>1, <1>2, <1>3 DEF EndedBy, FinishReason

\* What the text streamer keeps are again the last tokens of the generation.
LEMMA DeltaHeld ==
  ASSUME TypeOK, HoldsTheLast, NEW i \in Generations, NEW d, FitsDelta(i, d)
  PROVE  /\ produced[i] + d.new \in 0..MaxTokens /\ produced[i] + d.new \in Nat
         /\ Left(i, d) \in Seq(Int)
         /\ Len(Left(i, d)) = Kept(i, d) /\ Kept(i, d) \in Nat
         /\ Kept(i, d) <= produced[i] + d.new
         /\ Left(i, d) = Ramp(produced[i] + d.new - Kept(i, d), Kept(i, d))
<1>1. PICK p \in Nat, n \in Nat, L \in Nat :
        p = produced[i] /\ n = d.new /\ L = Len(pending[i]) /\ L <= p /\ p + n <= MaxTokens
  BY GenerationTypes DEF FitsDelta, HoldsTheLast
<1>2. PICK from \in Int, l, kept, shown \in Nat :
        /\ from = p - L /\ l = L + n
        /\ l = shown + kept /\ kept = Kept(i, d)
        /\ Left(i, d) = Ramp(from + shown, kept)
  BY <1>1, DetokenizeRamp
<1>3. from + shown = p + n - kept /\ kept <= p + n /\ from + shown \in Int
  <2>1. from = p - L /\ l = L + n /\ l = shown + kept /\ L <= p
    BY <1>1, <1>2
  <2> QED BY <2>1
<1>4. Ramp(from + shown, kept) \in Seq(Int) /\ Len(Ramp(from + shown, kept)) = kept
  BY <1>3, RampIsSeq
<1>5. p + n \in 0..MaxTokens /\ p + n \in Nat
  <2>1. p + n <= MaxTokens /\ MaxTokens \in Nat
    BY <1>1, ConstantsAssumption
  <2> QED BY <2>1
<1>6. Left(i, d) = Ramp(p + n - kept, kept)
  BY <1>2, <1>3
<1> QED BY <1>1, <1>2, <1>3, <1>4, <1>5, <1>6

\* The choice the reader has afterwards: the text of the delta is appended, and
\* the reason is the handler's.
LEMMA DeltaRead ==
  ASSUME TypeOK, HoldsTheLast, ReasonsAgree, pc = "generating",
         NEW i \in Generations, NEW d, FitsDelta(i, d)
  PROVE  /\ Detokenize(i, d) \in Seq(Int)
         /\ Read(i, d) \in Choices
         /\ Read(i, d).text = answer[i].text \o Detokenize(i, d)
         /\ Read(i, d).reason = FinishReason(i, d)
         /\ \/ Read(i, d).logprobs = answer[i].logprobs
            \/ Read(i, d).logprobs \in {NewTokens(i, d), answer[i].logprobs \o NewTokens(i, d)}
<1> DEFINE c == Choice(i, d)
<1>1. Detokenize(i, d) \in Seq(Int)
  <2>1. PICK from \in Int, l, kept, shown \in Nat :
          Detokenize(i, d) = Ramp(from, IF d.reason = None THEN shown ELSE l)
    BY DetokenizeRamp
  <2> QED BY <2>1, RampIsSeq
<1>2. NewTokens(i, d) \in Seq(Int)
  <2>1. PICK p \in Nat, n \in Nat : p = produced[i] /\ n = d.new
    BY GenerationTypes DEF FitsDelta
  <2>2. NewTokens(i, d) = Ramp(p, n)
    BY <2>1, BufferRamp
  <2>3. Ramp(p, n) \in Seq(Int)
    BY RampIsSeq
  <2> QED BY <2>2, <2>3
<1>3. /\ c.text = Detokenize(i, d) /\ c.reason = FinishReason(i, d)
      /\ c.logprobs = IF request.logprobs THEN NewTokens(i, d) ELSE None
  BY DEF Choice
<1>4. /\ answer[i] \in Choices /\ answer[i].text \in Seq(Int) /\ answer[i].reason = finish_reasons[i]
      /\ FinishReason(i, d) \in Reasons \cup {None}
      /\ finish_reasons[i] # None => FinishReason(i, d) = finish_reasons[i]
  BY GenerationTypes, DeltaReason DEF ReasonsAgree
<1>5. CASE HasChoice(i, d)
  <2>1. Read(i, d) = Fold(answer[i], c)
    BY <1>5 DEF Read
  <2>2. c.logprobs # None => c.logprobs \in Seq(Int) /\ c.logprobs = NewTokens(i, d)
    BY <1>2, <1>3
  <2>3. c.text \in Seq(Int) /\ c.reason \in Reasons \cup {None}
    BY <1>1, <1>3, <1>4
  <2> HIDE DEF c
  <2>4. /\ Fold(answer[i], c) \in Choices
        /\ Fold(answer[i], c).text = answer[i].text \o c.text
        /\ Fold(answer[i], c).reason = FirstReason(answer[i], c)
        /\ \/ Fold(answer[i], c).logprobs = answer[i].logprobs
           \/ /\ c.logprobs # None
              /\ Fold(answer[i], c).logprobs \in {c.logprobs, answer[i].logprobs \o c.logprobs}
    BY <1>4, <2>2, <2>3, FoldFacts
  <2>5. FirstReason(answer[i], c) = FinishReason(i, d)
    BY <1>3, <1>4 DEF FirstReason
  <2> QED BY <1>1, <1>3, <2>1, <2>2, <2>4, <2>5
<1>6. CASE ~HasChoice(i, d)
  <2>1. Detokenize(i, d) = <<>> /\ FinishReason(i, d) = finish_reasons[i]
    BY <1>6 DEF HasChoice
  <2>2. answer[i].text \o <<>> = answer[i].text
    BY <1>4, ConcatEmptySeq
  <2> QED BY <1>1, <1>4, <1>6, <2>1, <2>2 DEF Read
<1> QED BY <1>5, <1>6

\* Log probabilities stay in order and within what was produced.
LEMMA DeltaLogprobs ==
  ASSUME TypeOK, HoldsTheLast, ReasonsAgree, LogprobsInOrder, pc = "generating",
         NEW i \in Generations, NEW d, FitsDelta(i, d)
  PROVE  LET l == Read(i, d).logprobs
         IN  /\ \A j, k \in DOMAIN l : j < k => l[j] < l[k]
             /\ \A j \in DOMAIN l : l[j] <= produced[i] + d.new
<1>1. PICK p \in Nat, n \in Nat : p = produced[i] /\ n = d.new
  BY GenerationTypes DEF FitsDelta
<1>2. PICK a \in Seq(Int) :
        /\ a = answer[i].logprobs
        /\ \A j, k \in DOMAIN a : j < k => a[j] < a[k]
        /\ \A j \in DOMAIN a : a[j] <= p
  BY <1>1, GenerationTypes DEF LogprobsInOrder
<1>3. NewTokens(i, d) = Ramp(p, n)
  BY <1>1, BufferRamp
<1>4. Read(i, d).logprobs \in {a, Ramp(p, n), a \o Ramp(p, n)}
  BY <1>2, <1>3, DeltaRead
<1>5. CASE Read(i, d).logprobs = a
  <2>1. \A j \in DOMAIN a : a[j] <= p + n
    BY <1>2
  <2> QED BY <1>1, <1>2, <1>5, <2>1
<1>6. CASE Read(i, d).logprobs = Ramp(p, n)
  <2>1. \A j, k \in DOMAIN Ramp(p, n) : j < k => Ramp(p, n)[j] < Ramp(p, n)[k]
    BY DEF Ramp
  <2>2. \A j \in DOMAIN Ramp(p, n) : Ramp(p, n)[j] <= p + n
    BY DEF Ramp
  <2> QED BY <1>1, <1>6, <2>1, <2>2
<1>7. CASE Read(i, d).logprobs = a \o Ramp(p, n)
  <2>1. Ramp(p, n) \in Seq(Int) /\ Len(Ramp(p, n)) = n /\ \A j \in 1..n : Ramp(p, n)[j] = p + j
    BY RampIsSeq DEF Ramp
  <2> DEFINE s == a \o Ramp(p, n)
  <2>2. /\ DOMAIN s = 1..(Len(a) + n) /\ Len(a) \in Nat /\ DOMAIN a = 1..Len(a)
        /\ \A j \in 1..Len(a) : s[j] = a[j] /\ a[j] \in Int
        /\ \A j \in 1..(Len(a) + n) : j > Len(a) => s[j] = p + (j - Len(a))
    <3>1. Len(a) \in Nat /\ DOMAIN a = 1..Len(a) /\ \A j \in 1..Len(a) : a[j] \in Int
      OBVIOUS
    <3>2. DOMAIN s = 1..(Len(a) + n)
      <4>1. PICK y \in Seq(Int) : y = Ramp(p, n) /\ Len(y) = n
        BY <2>1
      <4>2. DOMAIN (a \o y) = 1..(Len(a) + Len(y))
        BY ConcatProperties
      <4> QED BY <4>1, <4>2
    <3>3. \A j \in 1..Len(a) : s[j] = a[j]
      BY <2>1
    <3>4. ASSUME NEW j \in 1..(Len(a) + n), j > Len(a)
          PROVE  s[j] = p + (j - Len(a))
      <4>1. s[j] = Ramp(p, n)[j - Len(a)] /\ j - Len(a) \in 1..n
        BY <2>1, <3>1, <3>4
      <4> QED BY <2>1, <4>1
    <3> HIDE DEF s
    <3> QED BY <3>1, <3>2, <3>3, <3>4
  <2> HIDE DEF s
  <2>3. ASSUME NEW j \in DOMAIN s, NEW k \in DOMAIN s, j < k
        PROVE  s[j] < s[k]
    <3>1. CASE k <= Len(a)
      <4>1. j \in DOMAIN a /\ k \in DOMAIN a /\ s[j] = a[j] /\ s[k] = a[k]
        BY <2>2, <2>3, <3>1
      <4> QED BY <1>2, <2>3, <4>1
    <3>2. CASE j <= Len(a) /\ k > Len(a)
      <4>1. j \in DOMAIN a /\ s[j] = a[j] /\ a[j] \in Int
        BY <2>2, <3>2
      <4>2. a[j] <= p
        BY <1>2, <4>1
      <4>3. k - Len(a) \in Nat /\ k - Len(a) > 0 /\ s[k] = p + (k - Len(a))
        BY <2>2, <3>2
      <4> QED BY <4>1, <4>2, <4>3
    <3>3. CASE j > Len(a)
      BY <2>2, <2>3, <3>3
    <3> QED BY <2>2, <2>3, <3>1, <3>2, <3>3
  <2>4. ASSUME NEW j \in DOMAIN s
        PROVE  s[j] <= p + n
    <3>1. PICK l \in Nat : l = Len(a)
      BY <2>2
    <3>2. j \in 1..(l + n)
      BY <2>2, <3>1
    <3>3. CASE j <= l
      <4>1. j \in DOMAIN a /\ s[j] = a[j] /\ a[j] \in Int
        BY <2>2, <3>1, <3>2, <3>3
      <4>2. a[j] <= p
        BY <1>2, <4>1
      <4> QED BY <4>1, <4>2
    <3>4. CASE j > l
      <4>1. s[j] = p + (j - l)
        BY <2>2, <3>1, <3>2, <3>4
      <4>2. p + (j - l) <= p + n
        BY <3>2, <3>4
      <4> QED BY <4>1, <4>2
    <3> QED BY <3>2, <3>3, <3>4
  <2>5. Read(i, d).logprobs = s
    BY <1>7 DEF s
  <2> QED BY <1>1, <2>3, <2>4, <2>5
<1> QED BY <1>4, <1>5, <1>6, <1>7

\* How much of the generation the text shows after a delta.
ShownAfter(i, d) == IF EndedBy(i, d) = None THEN produced[i] + d.new - Kept(i, d) ELSE produced[i] + d.new

\* No token is lost in the text, and none comes twice unless a generation ends
\* that has ended before.
LEMMA DeltaText ==
  ASSUME TypeOK, HoldsTheLast, ReasonsAgree, NothingMissing, pc = "generating",
         NEW i \in Generations, NEW d, FitsDelta(i, d)
  PROVE  /\ ShownAfter(i, d) \in Nat
         /\ Len(Read(i, d).text) >= ShownAfter(i, d)
         /\ /\ answer[i].text = Ramp(0 - EchoLen, EchoLen + Shown(i))
            /\ ended[i] # None => d.reason = None
            => Read(i, d).text = Ramp(0 - EchoLen, EchoLen + ShownAfter(i, d))
<1>1. PICK L \in Nat, p \in Nat, n \in Nat :
        /\ L = Len(pending[i]) /\ p = produced[i] /\ n = d.new
        /\ ended[i] # None => n = 0
        /\ L <= p
  BY GenerationTypes DEF FitsDelta, HoldsTheLast
<1>2. PICK from \in Int, l, kept, shown \in Nat :
        /\ from = p - L /\ l = L + n
        /\ l = shown + kept /\ kept = Kept(i, d)
        /\ Detokenize(i, d) = Ramp(from, IF d.reason = None THEN shown ELSE l)
  <2>1. PICK from \in Int, l, kept, shown \in Nat :
          /\ from = produced[i] - Len(pending[i]) /\ l = Len(pending[i]) + d.new
          /\ l = shown + kept /\ kept = Kept(i, d)
          /\ Detokenize(i, d) = Ramp(from, IF d.reason = None THEN shown ELSE l)
    BY DetokenizeRamp
  <2>2. from = p - L /\ l = L + n
    BY <1>1, <2>1
  <2> QED BY <2>1, <2>2
<1>3. PICK m \in Nat : m = (IF d.reason = None THEN shown ELSE l)
  OBVIOUS
<1>4. /\ Read(i, d).text = answer[i].text \o Ramp(from, m)
      /\ Ramp(from, m) \in Seq(Int) /\ Len(Ramp(from, m)) = m
      /\ answer[i].text \in Seq(Int) /\ Len(answer[i].text) \in Nat
      /\ Len(answer[i].text) >= Shown(i)
  <2>1. Read(i, d).text = answer[i].text \o Detokenize(i, d)
    BY DeltaRead
  <2>2. Detokenize(i, d) = Ramp(from, m)
    BY <1>2, <1>3
  <2>3. Ramp(from, m) \in Seq(Int) /\ Len(Ramp(from, m)) = m
    BY RampIsSeq
  <2>4. answer[i].text \in Seq(Int) /\ Len(answer[i].text) \in Nat
    BY GenerationTypes
  <2>5. Len(answer[i].text) >= Shown(i)
    BY DEF NothingMissing
  <2> QED BY <2>1, <2>2, <2>3, <2>4, <2>5
<1>5. Len(Read(i, d).text) = Len(answer[i].text) + m
  <2>1. PICK x \in Seq(Int), y \in Seq(Int) : x = answer[i].text /\ y = Ramp(from, m)
    BY <1>4
  <2>2. Len(x \o y) = Len(x) + Len(y)
    BY ConcatProperties
  <2> QED BY <1>4, <2>1, <2>2
<1>6. ended[i] = None => /\ Shown(i) = from /\ from \in Nat
                         /\ ShownAfter(i, d) = from + m
  <2> SUFFICES ASSUME ended[i] = None
               PROVE  Shown(i) = from /\ from \in Nat /\ ShownAfter(i, d) = from + m
    OBVIOUS
  <2>1. CASE d.reason = None
    <3>1. m = shown /\ Shown(i) = p - L /\ ShownAfter(i, d) = p + n - kept
      BY <1>1, <1>2, <1>3, <2>1 DEF Shown, ShownAfter, EndedBy
    <3>2. from = p - L /\ l = L + n /\ l = shown + kept /\ L <= p
      BY <1>1, <1>2
    <3> QED BY <3>1, <3>2
  <2>2. CASE d.reason # None
    <3>1. m = l /\ Shown(i) = p - L /\ ShownAfter(i, d) = p + n
      BY <1>1, <1>2, <1>3, <2>2 DEF Shown, ShownAfter, EndedBy
    <3>2. from = p - L /\ l = L + n /\ l = shown + kept /\ L <= p
      BY <1>1, <1>2
    <3> QED BY <3>1, <3>2
  <2> QED BY <2>1, <2>2
<1>7. ended[i] # None => /\ Shown(i) = p /\ ShownAfter(i, d) = p
                         /\ d.reason = None => m = 0
  <2> SUFFICES ASSUME ended[i] # None
               PROVE  /\ Shown(i) = p /\ ShownAfter(i, d) = p
                      /\ d.reason = None => m = 0
    OBVIOUS
  <2>1. n = 0 /\ kept = L
    BY <1>1, <1>2 DEF Kept
  <2> QED BY <1>1, <1>2, <1>3, <2>1 DEF Shown, ShownAfter, EndedBy
<1>8. ShownAfter(i, d) \in Nat /\ Len(Read(i, d).text) >= ShownAfter(i, d)
  BY <1>4, <1>5, <1>6, <1>7
<1>9. ASSUME answer[i].text = Ramp(0 - EchoLen, EchoLen + Shown(i)),
             ended[i] # None => d.reason = None
      PROVE  Read(i, d).text = Ramp(0 - EchoLen, EchoLen + ShownAfter(i, d))
  <2>1. PICK e \in Nat, b \in Int : e = EchoLen /\ b = 0 - e
    BY DEF EchoLen
  <2>2. CASE ended[i] = None
    <3>1. PICK k \in Nat : k = e + from
      BY <1>6, <2>2
    <3>2. b + k = from /\ k + m = e + (from + m)
      BY <2>1, <3>1
    <3>3. Ramp(b, k) \o Ramp(b + k, m) = Ramp(b, k + m)
      BY RampConcat
    <3> QED BY <1>4, <1>6, <1>9, <2>1, <2>2, <3>1, <3>2, <3>3
  <2>3. CASE ended[i] # None
    <3>1. m = 0 /\ ShownAfter(i, d) = Shown(i)
      BY <1>7, <1>9, <2>3
    <3>2. Ramp(from, 0) = <<>>
      BY RampEmpty
    <3>3. answer[i].text \o <<>> = answer[i].text
      BY <1>4, ConcatEmptySeq
    <3> QED BY <1>4, <1>9, <3>1, <3>2, <3>3
  <2> QED BY <2>2, <2>3
<1> QED BY <1>8, <1>9
-----------------------------------------------------------------------------
(* The actions.                                                            *)

\* A reason that is no literal of the response type is the engine's.
LEMMA LiteralReasons ==
  ASSUME TypeOK, NEW e \in EngineReasons \cup {None},
         NEW f, f = IF e # None /\ request.tools THEN "tool_calls" ELSE e,
         f \notin Literals(request.kind) \cup {None}
  PROVE  e \notin Literals(request.kind)
<1>1. request \in Requests /\ request \in Request
  BY ConstantsAssumption DEF TypeOK
<1>2. request.tools => request.kind = "chat"
  BY <1>1, ConstantsAssumption DEF Request
<1> QED BY <1>2 DEF Literals

\* A chunk from the engine keeps the invariant.
LEMMA ProcessStep ==
  ASSUME IInv, pc = "generating", NEW ds, Process(ds),
         \A i \in Generations : FitsDelta(i, ds[i]),
         OneChoiceInterrupted => \A i \in Generations : ended[i] # None => ds[i].reason = None
  PROVE  IInv'
<1>1. /\ TypeOK /\ HoldsTheLast /\ ReasonsAgree /\ LogprobsInOrder /\ NothingMissing /\ HandlerAt
      /\ OneChoiceInterrupted => TextExact
  BY DEF IInv
<1>2. /\ request' = request /\ usages' = usages /\ tool_calls' = tool_calls
      /\ Generations' = Generations /\ EchoLen' = EchoLen
  BY DEF Process, Generations, EchoLen
<1>3. /\ produced' = [i \in Generations |-> produced[i] + ds[i].new]
      /\ ended' = [i \in Generations |-> EndedBy(i, ds[i])]
      /\ pending' = [i \in Generations |-> Left(i, ds[i])]
      /\ finish_reasons' = [i \in Generations |-> FinishReason(i, ds[i])]
  BY DEF Process, EndedBy
<1>4. \/ /\ pc' = "failed" /\ answer' = answer
         /\ \E i \in Generations : FinishReason(i, ds[i]) \notin Literals(request.kind) \cup {None}
      \/ pc' = "generating" /\ answer' = [i \in Generations |-> Read(i, ds[i])]
  BY DEF Process, Read
<1>5. ASSUME NEW i \in Generations
      PROVE  /\ produced[i] + ds[i].new \in 0..MaxTokens /\ produced[i] + ds[i].new \in Nat
             /\ Left(i, ds[i]) \in Seq(Int)
             /\ Len(Left(i, ds[i])) = Kept(i, ds[i]) /\ Kept(i, ds[i]) \in Nat
             /\ Kept(i, ds[i]) <= produced[i] + ds[i].new
             /\ Left(i, ds[i]) = Ramp(produced[i] + ds[i].new - Kept(i, ds[i]), Kept(i, ds[i]))
  BY <1>1, DeltaHeld
<1>6. ASSUME NEW i \in Generations
      PROVE  /\ EndedBy(i, ds[i]) \in EngineReasons \cup {None}
             /\ FinishReason(i, ds[i]) \in Reasons \cup {None}
             /\ FinishReason(i, ds[i]) =
                  IF EndedBy(i, ds[i]) # None /\ request.tools THEN "tool_calls" ELSE EndedBy(i, ds[i])
  BY <1>1, DeltaReason
<1>7. ASSUME NEW i \in Generations
      PROVE  Read(i, ds[i]) \in Choices /\ Read(i, ds[i]).reason = FinishReason(i, ds[i])
  BY <1>1, DeltaRead
<1>8. TypeOK'
  <2>1. answer' \in [Generations -> Choices]
    BY <1>1, <1>4, <1>7 DEF TypeOK
  <2>2. produced' \in [Generations -> 0..MaxTokens] /\ pending' \in [Generations -> Seq(Int)]
    BY <1>3, <1>5
  <2>3. /\ ended' \in [Generations -> EngineReasons \cup {None}]
        /\ finish_reasons' \in [Generations -> Reasons \cup {None}]
    BY <1>3, <1>6
  <2>4. /\ request' \in Requests /\ usages' \in Nat /\ tool_calls' \in [Generations -> Nat]
        /\ pc' \in {"created", "generating", "suffix", "end", "returned", "failed"}
    BY <1>1, <1>2, <1>4 DEF TypeOK
  <2> QED BY <1>2, <2>1, <2>2, <2>3, <2>4 DEF TypeOK
<1>9. HoldsTheLast'
  <2>1. ASSUME NEW i \in Generations
        PROVE  /\ Len(pending[i]') <= produced[i]'
               /\ pending[i]' = Ramp(produced[i]' - Len(pending[i]'), Len(pending[i]'))
    <3>1. PICK p \in Nat, n \in Nat, k \in Nat :
            p = produced[i] /\ n = ds[i].new /\ k = Kept(i, ds[i])
      BY <1>1, <1>5, GenerationTypes DEF FitsDelta
    <3>2. pending[i]' = Ramp(p + n - k, k) /\ k <= p + n
      BY <1>3, <1>5, <3>1
    <3>3. Len(pending[i]') = k
      BY <1>3, <1>5, <3>1
    <3>4. produced[i]' = p + n
      BY <1>3, <3>1
    <3> QED BY <3>2, <3>3, <3>4
  <2> QED BY <1>2, <2>1 DEF HoldsTheLast
<1>10. HandlerAt'
  BY <1>1, <1>2, <1>4 DEF HandlerAt
<1>11. ReasonsAgree'
  <2>1. ASSUME NEW i \in Generations
        PROVE  /\ finish_reasons'[i] = IF ended'[i] # None /\ request'.tools THEN "tool_calls" ELSE ended'[i]
               /\ pc' \in {"created", "generating", "suffix", "end"} => answer'[i].reason = finish_reasons'[i]
    BY <1>2, <1>3, <1>4, <1>6, <1>7
  <2> QED BY <1>2, <2>1 DEF ReasonsAgree
<1>12. LogprobsInOrder'
  <2>1. ASSUME NEW i \in Generations
        PROVE  LET l == answer'[i].logprobs
               IN  /\ \A j, k \in DOMAIN l : j < k => l[j] < l[k]
                   /\ \A j \in DOMAIN l : l[j] <= produced'[i]
    <3>1. produced'[i] = produced[i] + ds[i].new
      BY <1>3
    <3>2. CASE answer' = [k \in Generations |-> Read(k, ds[k])]
      <4>1. answer'[i] = Read(i, ds[i])
        BY <3>2
      <4> QED BY <1>1, <3>1, <4>1, DeltaLogprobs
    <3>3. CASE answer' = answer
      <4> DEFINE l == answer[i].logprobs
      <4>1. /\ \A j, k \in DOMAIN l : j < k => l[j] < l[k]
            /\ \A j \in DOMAIN l : l[j] <= produced[i] /\ l[j] \in Int
            /\ produced[i] \in Nat /\ ds[i].new \in Nat
        BY <1>1, GenerationTypes DEF LogprobsInOrder, FitsDelta
      <4> HIDE DEF l
      <4>2. \A j \in DOMAIN l : l[j] <= produced[i] + ds[i].new
        BY <4>1
      <4> QED BY <3>1, <3>3, <4>1, <4>2 DEF l
    <3>4. answer' = answer \/ answer' = [k \in Generations |-> Read(k, ds[k])]
      BY <1>4
    <3> QED BY <3>2, <3>3, <3>4
  <2> QED BY <1>2, <2>1 DEF LogprobsInOrder
<1>13. ASSUME NEW i \in Generations
       PROVE  Shown(i)' = ShownAfter(i, ds[i])
  <2>1. PICK p \in Nat, n \in Nat, k \in Nat :
          p = produced[i] /\ n = ds[i].new /\ k = Kept(i, ds[i])
    BY <1>1, <1>5, GenerationTypes DEF FitsDelta
  <2>2. produced'[i] = p + n /\ ended'[i] = EndedBy(i, ds[i]) /\ Len(pending'[i]) = k
    BY <1>3, <1>5, <2>1
  <2>3. Shown(i)' = IF EndedBy(i, ds[i]) = None THEN p + n - k ELSE p + n
    BY <2>2 DEF Shown
  <2>4. ShownAfter(i, ds[i]) = IF EndedBy(i, ds[i]) = None THEN p + n - k ELSE p + n
    BY <2>1 DEF ShownAfter
  <2> QED BY <2>3, <2>4
<1>14. NothingMissing'
  <2>1. ASSUME NEW i \in Generations, pc' = "generating"
        PROVE  Len(answer'[i].text) >= Shown(i)'
    <3>1. answer'[i] = Read(i, ds[i])
      BY <1>4, <2>1
    <3>2. Len(Read(i, ds[i]).text) >= ShownAfter(i, ds[i])
      BY <1>1, DeltaText
    <3> QED BY <1>13, <3>1, <3>2
  <2>2. pc' \in {"created", "generating", "suffix", "end"} => pc' = "generating"
    BY <1>4
  <2> QED BY <1>2, <2>1, <2>2 DEF NothingMissing
<1>15. AnswerIsComplete'
  <2>1. pc' # "returned"
    BY <1>4
  <2> QED BY <2>1 DEF AnswerIsComplete
<1>16. FailsOnlyWhenExpected'
  <2>1. ASSUME NEW i \in Generations, FinishReason(i, ds[i]) \notin Literals(request.kind) \cup {None}
        PROVE  ended'[i] \notin Literals(request.kind)
    <3>1. ended'[i] = EndedBy(i, ds[i])
      BY <1>3
    <3> QED BY <1>1, <1>6, <2>1, <3>1, LiteralReasons
  <2> QED BY <1>2, <1>4, <2>1 DEF FailsOnlyWhenExpected
<1>17. ASSUME OneChoiceInterrupted
       PROVE  TextExact'
  <2>1. ASSUME NEW i \in Generations, pc' = "generating"
        PROVE  answer'[i].text = Ramp(0 - EchoLen, EchoLen + Shown(i)')
    <3>1. answer'[i] = Read(i, ds[i])
      BY <1>4, <2>1
    <3>2. answer[i].text = Ramp(0 - EchoLen, EchoLen + Shown(i)) /\ (ended[i] # None => ds[i].reason = None)
      BY <1>1, <1>17 DEF TextExact
    <3>3. Read(i, ds[i]).text = Ramp(0 - EchoLen, EchoLen + ShownAfter(i, ds[i]))
      BY <1>1, <3>2, DeltaText
    <3> QED BY <1>13, <3>1, <3>3
  <2>2. pc' \in {"generating", "failed"}
    BY <1>4
  <2> QED BY <1>2, <2>1, <2>2 DEF TextExact
<1> QED BY <1>8, <1>9, <1>10, <1>11, <1>12, <1>14, <1>15, <1>16, <1>17 DEF IInv, OneChoiceInterrupted

\* The first step of the handler keeps the invariant.
LEMMA StartStep ==
  ASSUME IInv, EchoPrompt \/ StartGenerate
  PROVE  IInv'
<1>1. /\ TypeOK /\ HoldsTheLast /\ ReasonsAgree /\ LogprobsInOrder /\ HandlerAt
  BY DEF IInv
<1>2. /\ pc = "created" /\ pc' = "generating"
      /\ UNCHANGED <<request, produced, ended, pending, finish_reasons, usages, tool_calls>>
      /\ Generations' = Generations /\ EchoLen' = EchoLen
      /\ \A i : Shown(i)' = Shown(i)
  BY DEF EchoPrompt, StartGenerate, Generations, EchoLen, Shown
<1> DEFINE echoed == [text |-> <<Echo>>, reason |-> None, logprobs |-> None]
<1>3. ASSUME NEW i \in Generations
      PROVE  /\ answer[i] \in Choices /\ answer[i].text = <<>> /\ Shown(i) = 0
             /\ answer[i].logprobs \in Seq(Int)
  BY <1>1, <1>2, GenerationTypes DEF HandlerAt, Shown
<1>4. ASSUME NEW i \in Generations
      PROVE  /\ answer'[i] \in Choices /\ answer'[i].reason = answer[i].reason
             /\ answer'[i].logprobs = answer[i].logprobs
             /\ answer'[i].text = Ramp(0 - EchoLen, EchoLen)
  <2>1. CASE request.echo /\ EchoPrompt
    <3>1. answer'[i] = Fold(answer[i], echoed) /\ EchoLen = 1
      BY <2>1 DEF EchoPrompt, EchoLen
    <3>2. echoed.text \in Seq(Int) /\ echoed.reason = None /\ echoed.logprobs = None /\ echoed.text = <<0>>
      BY DEF Echo
    <3> HIDE DEF echoed
    <3>3. /\ Fold(answer[i], echoed) \in Choices
          /\ Fold(answer[i], echoed).text = answer[i].text \o echoed.text
          /\ Fold(answer[i], echoed).reason = FirstReason(answer[i], echoed)
          /\ Fold(answer[i], echoed).logprobs = answer[i].logprobs
      BY <1>1, <1>3, <3>2, FoldFacts
    <3>4. FirstReason(answer[i], echoed) = answer[i].reason
      BY <3>2 DEF FirstReason
    <3>5. Ramp(0 - 1, 1) = <<0>>
      BY DEF Ramp
    <3>6. <<>> \o echoed.text = <<0>>
      BY <3>2
    <3> QED BY <1>3, <3>1, <3>3, <3>4, <3>5, <3>6
  <2>2. CASE ~request.echo /\ StartGenerate
    <3>1. answer' = answer /\ EchoLen = 0
      BY <2>2 DEF StartGenerate, EchoLen
    <3>2. Ramp(0 - 0, 0) = <<>>
      BY DEF Ramp
    <3> QED BY <1>3, <3>1, <3>2
  <2> QED BY <2>1, <2>2 DEF EchoPrompt, StartGenerate
<1>5. TypeOK'
  <2>1. answer' \in [Generations -> Choices]
    <3>1. answer' = [i \in Generations |-> answer'[i]]
      BY <1>1 DEF EchoPrompt, StartGenerate, TypeOK
    <3> QED BY <1>4, <3>1
  <2> QED BY <1>1, <1>2, <2>1 DEF TypeOK
<1>6. HoldsTheLast'
  BY <1>1, <1>2 DEF HoldsTheLast
<1>7. HandlerAt'
  BY <1>1, <1>2 DEF HandlerAt
<1>8. ReasonsAgree'
  BY <1>1, <1>2, <1>4 DEF ReasonsAgree
<1>9. LogprobsInOrder'
  BY <1>1, <1>2, <1>4 DEF LogprobsInOrder
<1>10. EchoLen \in Nat /\ EchoLen + 0 = EchoLen
  BY DEF EchoLen
<1>11. NothingMissing'
  <2>1. ASSUME NEW i \in Generations
        PROVE  Len(answer'[i].text) \in Nat
    BY <1>4 DEF Choices
  <2> QED BY <1>2, <1>3, <2>1 DEF NothingMissing
<1>12. AnswerIsComplete' /\ FailsOnlyWhenExpected'
  <2>1. pc' # "returned" /\ pc' # "failed"
    BY <1>2
  <2> QED BY <2>1 DEF AnswerIsComplete, FailsOnlyWhenExpected
<1>13. TextExact'
  BY <1>2, <1>3, <1>4, <1>10 DEF TextExact
<1> QED BY <1>5, <1>6, <1>7, <1>8, <1>9, <1>11, <1>12, <1>13 DEF IInv

\* The end of the stream and the returns that change no choice keep the invariant.
LEMMA EndStep ==
  ASSUME IInv, FinalChunk \/ EndStream \/ ReturnCompletion
  PROVE  IInv'
<1>1. /\ TypeOK /\ HoldsTheLast /\ ReasonsAgree /\ LogprobsInOrder /\ HandlerAt /\ NothingMissing
      /\ OneChoiceInterrupted => TextExact
  BY DEF IInv
<1>2. /\ UNCHANGED <<request, produced, ended, pending, finish_reasons, answer, tool_calls>>
      /\ Generations' = Generations /\ EchoLen' = EchoLen /\ SuffixText' = SuffixText
      /\ AllEnded' = AllEnded
      /\ \A i : Shown(i)' = Shown(i)
  BY DEF FinalChunk, EndStream, ReturnCompletion, Generations, EchoLen, SuffixText, AllEnded, Shown
<1>3. request \in Requests /\ request \in Request
  BY <1>1, ConstantsAssumption DEF TypeOK
<1>4. AllEnded
  BY <1>1 DEF FinalChunk, EndStream, ReturnCompletion, HandlerAt
<1>5. ASSUME NEW i \in Generations
      PROVE  /\ ended[i] # None /\ finish_reasons[i] # None /\ Shown(i) = produced[i]
             /\ answer[i].reason = finish_reasons[i]
             /\ finish_reasons[i] = IF request.tools THEN "tool_calls" ELSE ended[i]
  <2>1. pc \in {"generating", "end"}
    BY DEF FinalChunk, EndStream, ReturnCompletion
  <2>2. None # "tool_calls"
    BY ConstantsAssumption
  <2> QED BY <1>1, <1>4, <2>1, <2>2 DEF AllEnded, ReasonsAgree, Shown
<1>6. /\ \/ pc = "generating" /\ pc' = (IF request.suffix THEN "suffix" ELSE "end")
         \/ pc = "end" /\ pc' = "returned"
      /\ usages' = IF pc = "generating" /\ (~request.stream \/ request.usage = "include")
                   THEN usages + 1 ELSE usages
      /\ pc' = "returned" => request.stream \/ request.kind = "completion"
  BY <1>5 DEF FinalChunk, EndStream, ReturnCompletion
<1>7. /\ pc' \in {"suffix", "end", "returned"}
      /\ usages' = (IF request.stream /\ request.usage # "include" THEN 0 ELSE 1)
  BY <1>1, <1>6 DEF HandlerAt
<1>8. TypeOK'
  BY <1>1, <1>2, <1>7 DEF TypeOK
<1>9. HoldsTheLast'
  BY <1>1, <1>2 DEF HoldsTheLast
<1>10. HandlerAt'
  BY <1>2, <1>4, <1>6, <1>7 DEF HandlerAt
<1>11. ReasonsAgree'
  BY <1>1, <1>2, <1>5 DEF ReasonsAgree
<1>12. LogprobsInOrder'
  BY <1>1, <1>2 DEF LogprobsInOrder
<1>13. NothingMissing'
  BY <1>1, <1>2, <1>6 DEF NothingMissing
<1>14. AnswerIsComplete'
  <2> SUFFICES ASSUME pc' = "returned"
               PROVE  AnswerIsComplete'
    BY DEF AnswerIsComplete
  <2>1. request.stream \/ request.kind = "completion"
    BY <1>6
  <2>2. request.tools => request.stream
    BY <1>3, <2>1, ConstantsAssumption DEF Request
  <2> QED BY <1>2, <1>5, <1>7, <2>2 DEF AnswerIsComplete
<1>15. FailsOnlyWhenExpected'
  <2>1. pc' # "failed"
    BY <1>7
  <2> QED BY <2>1 DEF FailsOnlyWhenExpected
<1>16. ASSUME OneChoiceInterrupted
       PROVE  TextExact'
  <2>1. CASE pc = "generating"
    <3>1. ASSUME NEW i \in Generations
          PROVE  /\ pc' = "suffix" => answer'[i].text = Ramp(0 - EchoLen, EchoLen + Shown(i))
                 /\ pc' = "end" => answer'[i].text = Ramp(0 - EchoLen, EchoLen + produced[i]) \o SuffixText
      <4>1. answer[i].text = Ramp(0 - EchoLen, EchoLen + Shown(i)) /\ answer'[i] = answer[i]
        BY <1>1, <1>2, <1>16, <2>1 DEF TextExact
      <4>2. answer[i].text \o <<>> = answer[i].text
        BY <1>1, GenerationTypes, ConcatEmptySeq
      <4>3. pc' = "end" => SuffixText = <<>>
        BY <1>6, <2>1 DEF SuffixText
      <4> QED BY <1>5, <4>1, <4>2, <4>3
    <3>2. pc' \in {"suffix", "end"}
      BY <1>6, <2>1
    <3> QED BY <1>2, <3>1, <3>2 DEF TextExact
  <2>2. CASE pc = "end"
    BY <1>1, <1>2, <1>6, <1>16, <2>2 DEF TextExact
  <2> QED BY <1>6, <2>1, <2>2
<1> QED BY <1>8, <1>9, <1>10, <1>11, <1>12, <1>13, <1>14, <1>15, <1>16 DEF IInv, OneChoiceInterrupted

\* The suffix keeps the invariant: all generations have ended, so none lacks a reason.
LEMMA SuffixStep ==
  ASSUME IInv, SuffixResponse
  PROVE  IInv'
<1>1. /\ TypeOK /\ HoldsTheLast /\ ReasonsAgree /\ LogprobsInOrder /\ HandlerAt /\ NothingMissing
      /\ OneChoiceInterrupted => TextExact
  BY DEF IInv
<1>2. /\ pc = "suffix"
      /\ UNCHANGED <<request, produced, ended, pending, finish_reasons, usages, tool_calls>>
      /\ Generations' = Generations /\ EchoLen' = EchoLen /\ SuffixText' = SuffixText
      /\ AllEnded' = AllEnded
      /\ \A i : Shown(i)' = Shown(i)
  BY DEF SuffixResponse, Generations, EchoLen, SuffixText, AllEnded, Shown
<1>3. AllEnded /\ request.suffix /\ SuffixText = <<Suffix>> /\ Suffix \in Int
  <2>1. MaxTokens + 1 \in Int
    <3>1. MaxTokens \in Nat
      BY ConstantsAssumption
    <3> QED BY <3>1
  <2> QED BY <1>1, <1>2, <2>1 DEF HandlerAt, SuffixText, Suffix
<1>4. ASSUME NEW i \in Generations
      PROVE  /\ ended[i] # None /\ finish_reasons[i] # None /\ Shown(i) = produced[i]
             /\ answer[i].reason = finish_reasons[i] /\ finish_reasons[i] \in Reasons
  <2>1. None # "tool_calls"
    BY ConstantsAssumption
  <2>2. finish_reasons[i] \in Reasons \cup {None}
    BY <1>1, GenerationTypes
  <2> QED BY <1>1, <1>2, <1>3, <2>1, <2>2 DEF AllEnded, ReasonsAgree, Shown
<1> DEFINE last(i) == [text |-> <<Suffix>>, reason |-> finish_reasons[i], logprobs |-> None]
<1>5. pc' = "end" /\ answer' = [i \in Generations |-> Fold(answer[i], last(i))]
  BY <1>4 DEF SuffixResponse
<1>6. ASSUME NEW i \in Generations
      PROVE  /\ answer'[i] \in Choices
             /\ answer'[i].text = answer[i].text \o SuffixText
             /\ answer'[i].reason = answer[i].reason
             /\ answer'[i].logprobs = answer[i].logprobs
  <2>1. answer[i] \in Choices
    BY <1>1, GenerationTypes
  <2>2. /\ last(i).text = SuffixText /\ last(i).text \in Seq(Int)
        /\ last(i).reason = finish_reasons[i] /\ last(i).logprobs = None
    BY <1>3
  <2>3. answer'[i] = Fold(answer[i], last(i))
    BY <1>5
  <2> HIDE DEF last
  <2>4. /\ Fold(answer[i], last(i)) \in Choices
        /\ Fold(answer[i], last(i)).text = answer[i].text \o last(i).text
        /\ Fold(answer[i], last(i)).reason = FirstReason(answer[i], last(i))
        /\ Fold(answer[i], last(i)).logprobs = answer[i].logprobs
    BY <1>1, <1>4, <2>1, <2>2, FoldFacts
  <2>5. FirstReason(answer[i], last(i)) = answer[i].reason
    BY <1>4, <2>2 DEF FirstReason
  <2> QED BY <2>2, <2>3, <2>4, <2>5
<1> HIDE DEF last
<1>7. TypeOK'
  <2>1. answer' \in [Generations -> Choices]
    BY <1>5, <1>6
  <2> QED BY <1>1, <1>2, <1>5, <2>1 DEF TypeOK
<1>8. HoldsTheLast'
  BY <1>1, <1>2 DEF HoldsTheLast
<1>9. HandlerAt'
  <2>1. usages = (IF request.stream /\ request.usage # "include" THEN 0 ELSE 1)
    BY <1>1, <1>2 DEF HandlerAt
  <2> QED BY <1>2, <1>3, <1>5, <2>1 DEF HandlerAt
<1>10. ReasonsAgree'
  BY <1>1, <1>2, <1>4, <1>6 DEF ReasonsAgree
<1>11. LogprobsInOrder'
  BY <1>1, <1>2, <1>6 DEF LogprobsInOrder
<1>12. NothingMissing'
  <2>1. ASSUME NEW i \in Generations
        PROVE  Len(answer'[i].text) >= Shown(i)'
    <3>1. PICK n \in Nat, p \in Nat : n = Len(answer[i].text) /\ p = Shown(i) /\ n >= p
      BY <1>1, <1>2, <1>4, GenerationTypes DEF NothingMissing
    <3>2. Len(answer'[i].text) = n + 1
      <4>1. answer[i].text \in Seq(Int) /\ <<Suffix>> \in Seq(Int) /\ Len(<<Suffix>>) = 1
        BY <1>1, <1>3, GenerationTypes
      <4>2. Len(answer[i].text \o <<Suffix>>) = Len(answer[i].text) + Len(<<Suffix>>)
        BY <4>1, ConcatProperties
      <4> QED BY <1>3, <1>6, <3>1, <4>1, <4>2
    <3>3. n + 1 >= p
      <4>1. n >= p
        BY <3>1
      <4> QED BY <4>1
    <3> QED BY <1>2, <3>1, <3>2, <3>3, Zenon
  <2> QED BY <1>2, <2>1 DEF NothingMissing
<1>13. AnswerIsComplete' /\ FailsOnlyWhenExpected'
  <2>1. pc' # "returned" /\ pc' # "failed"
    BY <1>5
  <2> QED BY <2>1 DEF AnswerIsComplete, FailsOnlyWhenExpected
<1>14. ASSUME OneChoiceInterrupted
       PROVE  TextExact'
  <2>1. ASSUME NEW i \in Generations
        PROVE  answer'[i].text = Ramp(0 - EchoLen, EchoLen + produced[i]) \o SuffixText
    <3>1. answer[i].text = Ramp(0 - EchoLen, EchoLen + Shown(i))
      BY <1>1, <1>2, <1>14 DEF TextExact
    <3> QED BY <1>4, <1>6, <3>1
  <2> QED BY <1>2, <1>5, <2>1 DEF TextExact
<1> QED BY <1>7, <1>8, <1>9, <1>10, <1>11, <1>12, <1>13, <1>14 DEF IInv, OneChoiceInterrupted

\* The return of a chat keeps the invariant: calls change the reasons only, and
\* only a text that stayed empty cannot be parsed.
LEMMA ReturnChatStep ==
  ASSUME IInv, ReturnChat
  PROVE  IInv'
<1>1. /\ TypeOK /\ HoldsTheLast /\ ReasonsAgree /\ LogprobsInOrder /\ HandlerAt /\ NothingMissing
      /\ OneChoiceInterrupted => TextExact
  BY DEF IInv
<1>2. /\ pc = "end" /\ ~request.stream /\ request.kind = "chat"
      /\ UNCHANGED <<request, produced, ended, pending, finish_reasons, usages>>
      /\ Generations' = Generations /\ EchoLen' = EchoLen /\ SuffixText' = SuffixText
      /\ AllEnded' = AllEnded
      /\ \A i : Shown(i)' = Shown(i)
  BY DEF ReturnChat, Generations, EchoLen, SuffixText, AllEnded, Shown
<1>3. AllEnded
  BY <1>1, <1>2 DEF HandlerAt
<1>4. ASSUME NEW i \in Generations
      PROVE  /\ ended[i] # None /\ finish_reasons[i] # None /\ Shown(i) = produced[i]
             /\ ended[i] \in EngineReasons
             /\ answer[i].reason = finish_reasons[i] /\ answer[i] \in Choices
             /\ finish_reasons[i] = IF request.tools THEN "tool_calls" ELSE ended[i]
             /\ Len(answer[i].text) >= produced[i] /\ produced[i] \in Nat
  <2>1. None # "tool_calls"
    BY ConstantsAssumption
  <2>2. ended[i] \in EngineReasons \cup {None} /\ answer[i] \in Choices /\ produced[i] \in Nat
    BY <1>1, GenerationTypes
  <2>3. ended[i] # None /\ Shown(i) = produced[i]
    BY <1>3 DEF AllEnded, Shown
  <2>4. Len(answer[i].text) >= Shown(i)
    BY <1>1, <1>2 DEF NothingMissing
  <2> QED BY <1>1, <1>2, <2>1, <2>2, <2>3, <2>4 DEF ReasonsAgree
<1>5. \/ /\ pc' = "returned" /\ UNCHANGED <<answer, tool_calls>> /\ ~request.tools
      \/ /\ pc' = "failed" /\ UNCHANGED <<answer, tool_calls>> /\ request.tools
         /\ \E i \in Generations : answer[i].text = <<>>
      \/ /\ pc' = "returned" /\ request.tools
         /\ \E outcomes \in [Generations -> {"IndexError", "invalid", "0", "1"}] :
              /\ tool_calls' = [i \in Generations |-> IF outcomes[i] = "1" THEN 1 ELSE 0]
              /\ answer' = [i \in Generations |-> ChoiceOfCalls(answer[i], outcomes[i])]
  <2>1. 1 \in Generations
    <3>1. request \in Request
      BY <1>1, ConstantsAssumption DEF TypeOK
    <3>2. request.n \in Nat \ {0}
      BY <3>1 DEF Request
    <3> QED BY <3>2 DEF Generations
  <2>2. ~\E i \in Generations : answer[i].reason = None
    BY <1>4
  <2>3. request.tools <=> ~\A i \in Generations : answer[i].reason # "tool_calls"
    BY <1>4, <2>1 DEF EngineReasons
  <2>4. CASE \A i \in Generations : answer[i].reason # "tool_calls"
    BY <2>2, <2>3, <2>4 DEF ReturnChat
  <2>5. CASE ~\A i \in Generations : answer[i].reason # "tool_calls"
    <3>1. PICK outcomes \in [Generations -> {"IndexError", "invalid", "0", "1"}] :
            /\ \A i \in Generations : outcomes[i] \in Parsed(answer[i].text)
            /\ IF \E i \in Generations : outcomes[i] = "IndexError"
               THEN pc' = "failed" /\ UNCHANGED <<answer, tool_calls>>
               ELSE /\ pc' = "returned"
                    /\ tool_calls' = [i \in Generations |-> IF outcomes[i] = "1" THEN 1 ELSE 0]
                    /\ answer' = [i \in Generations |-> ChoiceOfCalls(answer[i], outcomes[i])]
      BY <2>2, <2>5 DEF ReturnChat
    <3>2. ASSUME NEW i \in Generations, outcomes[i] = "IndexError"
          PROVE  answer[i].text = <<>>
      BY <3>1, <3>2 DEF Parsed
    <3> QED BY <2>3, <2>5, <3>1, <3>2
  <2> QED BY <2>4, <2>5
<1>6. /\ answer' \in [Generations -> Choices] /\ tool_calls' \in [Generations -> Nat]
      /\ pc' \in {"returned", "failed"}
      /\ \A i \in Generations : /\ answer'[i].text = answer[i].text
                                /\ answer'[i].logprobs = answer[i].logprobs
      /\ pc' = "returned" =>
           \A i \in Generations :
             IF request.tools
             THEN /\ answer'[i].reason \in {"tool_calls", "error"}
                  /\ answer'[i].reason = "tool_calls" <=> tool_calls'[i] > 0
             ELSE answer'[i].reason = ended[i]
  <2>1. CASE UNCHANGED <<answer, tool_calls>> /\ pc' \in {"returned", "failed"}
             /\ (pc' = "returned" => ~request.tools)
    BY <1>1, <1>4, <2>1 DEF TypeOK
  <2>2. ASSUME pc' = "returned", request.tools,
               NEW outcomes \in [Generations -> {"IndexError", "invalid", "0", "1"}],
               tool_calls' = [i \in Generations |-> IF outcomes[i] = "1" THEN 1 ELSE 0],
               answer' = [i \in Generations |-> ChoiceOfCalls(answer[i], outcomes[i])]
        PROVE  <1>6!1 /\ <1>6!2 /\ <1>6!3 /\ <1>6!4
    <3>1. ASSUME NEW i \in Generations
          PROVE  /\ answer'[i] \in Choices
                 /\ answer'[i].text = answer[i].text /\ answer'[i].logprobs = answer[i].logprobs
                 /\ answer'[i].reason = IF outcomes[i] = "1" THEN "tool_calls" ELSE "error"
      BY <1>4, <2>2 DEF ChoiceOfCalls, Choices, Reasons
    <3>2. ASSUME NEW i \in Generations
          PROVE  tool_calls'[i] = IF outcomes[i] = "1" THEN 1 ELSE 0
      BY <2>2
    <3> QED BY <2>2, <3>1, <3>2
  <2> QED BY <1>5, <2>1, <2>2
<1>7. TypeOK'
  BY <1>1, <1>2, <1>6 DEF TypeOK
<1>8. HoldsTheLast'
  BY <1>1, <1>2 DEF HoldsTheLast
<1>9. HandlerAt'
  <2>1. usages = (IF request.stream /\ request.usage # "include" THEN 0 ELSE 1)
    BY <1>1, <1>2 DEF HandlerAt
  <2> QED BY <1>2, <1>3, <1>6, <2>1 DEF HandlerAt
<1>10. ReasonsAgree'
  BY <1>1, <1>2, <1>6 DEF ReasonsAgree
<1>11. LogprobsInOrder'
  BY <1>1, <1>2, <1>6 DEF LogprobsInOrder
<1>12. NothingMissing'
  <2>1. pc' \notin {"created", "generating", "suffix", "end"}
    BY <1>6
  <2> QED BY <2>1 DEF NothingMissing
<1>13. AnswerIsComplete'
  <2>1. usages = 1
    BY <1>1, <1>2 DEF HandlerAt
  <2> QED BY <1>2, <1>6, <2>1 DEF AnswerIsComplete
<1>14. FailsOnlyWhenExpected'
  <2> SUFFICES ASSUME pc' = "failed"
               PROVE  request.tools /\ \E i \in Generations : produced[i] = 0
    BY <1>2 DEF FailsOnlyWhenExpected
  <2>1. PICK i \in Generations : answer[i].text = <<>> /\ request.tools
    BY <1>5
  <2>2. Len(answer[i].text) = 0
    BY <2>1
  <2> QED BY <1>4, <2>1, <2>2
<1>15. ASSUME OneChoiceInterrupted
       PROVE  TextExact'
  <2>1. TextExact
    BY <1>1, <1>15
  <2> QED BY <1>2, <1>6, <2>1 DEF TextExact
<1> QED BY <1>7, <1>8, <1>9, <1>10, <1>11, <1>12, <1>13, <1>14, <1>15 DEF IInv, OneChoiceInterrupted
-----------------------------------------------------------------------------
(* The theorems.                                                           *)

\* The invariant holds when the request is made.
LEMMA InitInv == Init => IInv
<1> SUFFICES ASSUME Init PROVE IInv
  OBVIOUS
<1>1. request \in Requests /\ request \in Request /\ MaxTokens \in Nat
  BY ConstantsAssumption DEF Init
<1>2. ASSUME NEW i \in Generations
      PROVE  /\ produced[i] = 0 /\ ended[i] = None /\ pending[i] = <<>> /\ finish_reasons[i] = None
             /\ answer[i] = [text |-> <<>>, reason |-> None, logprobs |-> <<>>]
  BY DEF Init
<1>3. Ramp(0 - 0, 0) = <<>> /\ Len(<<>>) = 0 /\ DOMAIN <<>> = {}
  BY DEF Ramp
<1>4. pc = "created" /\ usages = 0 /\ tool_calls = [i \in Generations |-> 0]
  BY DEF Init
<1>5. TypeOK
  <2>1. 0 \in 0..MaxTokens
    BY <1>1
  <2>2. answer \in [Generations -> Choices]
    BY DEF Init, Choices
  <2> QED BY <1>1, <2>1, <2>2 DEF Init, TypeOK
<1>6. HoldsTheLast
  BY <1>2, <1>3 DEF HoldsTheLast
<1>7. HandlerAt
  BY <1>2, <1>4 DEF HandlerAt
<1>8. ReasonsAgree
  BY <1>2 DEF ReasonsAgree
<1>9. LogprobsInOrder
  BY <1>2, <1>3 DEF LogprobsInOrder
<1>10. NothingMissing
  BY <1>2, <1>3 DEF NothingMissing, Shown
<1> QED
  BY <1>4, <1>5, <1>6, <1>7, <1>8, <1>9, <1>10 DEF IInv, AnswerIsComplete, FailsOnlyWhenExpected, TextExact

\* Every step keeps the invariant.
LEMMA NextInv == IInv /\ [Next]_vars => IInv'
<1> SUFFICES ASSUME IInv, [Next]_vars PROVE IInv'
  OBVIOUS
<1>1. TypeOK
  BY DEF IInv
<1>2. CASE Chunk
  <2>1. PICK ds \in Deltas : Process(ds)
    BY <1>2 DEF Chunk
  <2>2. ASSUME NEW i \in Generations
        PROVE  FitsDelta(i, ds[i]) /\ (ended[i] # None => ds[i].reason = None)
    <3>1. /\ ds[i] \in [new : 0..2, hold : 0..2, reason : {None, "stop", "length"}]
          /\ produced[i] + ds[i].new <= MaxTokens
          /\ ds[i].hold <= (IF ds[i].new = 0 THEN 0 ELSE Len(pending[i]) + ds[i].new)
          /\ ended[i] # None => ds[i] = [new |-> 0, hold |-> 0, reason |-> None]
      BY <2>1 DEF Deltas
    <3>2. ds[i] \in [new : Nat, hold : Nat, reason : EngineReasons \cup {None}]
      BY <3>1 DEF EngineReasons
    <3>3. ended[i] # None => ds[i].new = 0 /\ ds[i].reason = None
      BY <3>1
    <3> QED BY <3>1, <3>2, <3>3 DEF FitsDelta
  <2>3. pc = "generating"
    BY <1>2 DEF Chunk
  <2> QED BY <2>1, <2>2, <2>3, ProcessStep
<1>3. CASE ErrorChunk
  <2>1. PICK ds \in ErrorDeltas : Process(ds)
    BY <1>3 DEF ErrorChunk
  <2>2. PICK e \in Errors : /\ request \in Interrupted
                            /\ ds = [i \in Generations |-> [new |-> 0, hold |-> 0, reason |-> e]]
    BY <2>1 DEF ErrorDeltas
  <2>3. ASSUME NEW i \in Generations
        PROVE  FitsDelta(i, ds[i])
    <3>1. e \in EngineReasons
      BY ConstantsAssumption DEF EngineReasons
    <3>2. ds[i] = [new |-> 0, hold |-> 0, reason |-> e]
      BY <2>2
    <3>3. produced[i] \in Nat /\ produced[i] <= MaxTokens
      BY <1>1, GenerationTypes
    <3>4. produced[i] + 0 <= MaxTokens
      BY <3>3
    <3> QED BY <3>1, <3>2, <3>4 DEF FitsDelta
  <2>4. OneChoiceInterrupted => \A i \in Generations : ended[i] # None => ds[i].reason = None
    <3> SUFFICES ASSUME OneChoiceInterrupted, NEW i \in Generations
                 PROVE  ended[i] = None
      OBVIOUS
    <3>1. Generations = 1..1
      BY <2>2 DEF OneChoiceInterrupted, Generations
    <3>2. \E j \in Generations : ended[j] = None
      BY <1>3 DEF ErrorChunk, AllEnded
    <3> QED BY <3>1, <3>2
  <2>5. pc = "generating"
    BY <1>3 DEF ErrorChunk
  <2> QED BY <2>1, <2>3, <2>4, <2>5, ProcessStep
<1>4. CASE EchoPrompt \/ StartGenerate
  BY <1>4, StartStep
<1>5. CASE FinalChunk \/ EndStream \/ ReturnCompletion
  BY <1>5, EndStep
<1>6. CASE SuffixResponse
  BY <1>6, SuffixStep
<1>7. CASE ReturnChat
  BY <1>7, ReturnChatStep
<1>8. CASE UNCHANGED vars
  <2>1. UNCHANGED <<request, produced, ended, pending, finish_reasons, answer, usages, tool_calls, pc>>
    BY <1>8 DEF vars
  <2>2. Generations' = Generations /\ EchoLen' = EchoLen /\ SuffixText' = SuffixText /\ AllEnded' = AllEnded
        /\ \A i : Shown(i)' = Shown(i)
    BY <2>1 DEF Generations, EchoLen, SuffixText, AllEnded, Shown
  <2>3. TypeOK' = TypeOK
    BY <2>1, <2>2 DEF TypeOK
  <2>4. HoldsTheLast' = HoldsTheLast /\ HandlerAt' = HandlerAt /\ ReasonsAgree' = ReasonsAgree
    BY <2>1, <2>2 DEF HoldsTheLast, HandlerAt, ReasonsAgree
  <2>5. LogprobsInOrder' = LogprobsInOrder /\ NothingMissing' = NothingMissing /\ TextExact' = TextExact
    BY <2>1, <2>2 DEF LogprobsInOrder, NothingMissing, TextExact
  <2>6. AnswerIsComplete' = AnswerIsComplete /\ FailsOnlyWhenExpected' = FailsOnlyWhenExpected
    BY <2>1, <2>2 DEF AnswerIsComplete, FailsOnlyWhenExpected
  <2> QED BY <2>3, <2>4, <2>5, <2>6 DEF IInv, OneChoiceInterrupted
<1> QED BY <1>2, <1>3, <1>4, <1>5, <1>6, <1>7, <1>8 DEF Next

\* The invariant holds of every reachable state.
LEMMA Invariance == Spec => []IInv
BY InitInv, NextInv, PTL DEF Spec

\* Of every request, with any number of choices: an answer that is returned has for
\* every choice the reason the engine gave, or "tool_calls" exactly with calls, and
\* the usage once, if it is due (engine.py, entrypoints/openai_entrypoints.py).
THEOREM AnswersComplete == Spec => []AnswerIsComplete
<1>1. IInv => AnswerIsComplete
  BY DEF IInv
<1> QED BY <1>1, Invariance, PTL

\* The assertions of the handlers and readers hold: a request fails only over a
\* reason its response type does not know, or over tools and an empty generation.
THEOREM FailuresExpected == Spec => []FailsOnlyWhenExpected
<1>1. IInv => FailsOnlyWhenExpected
  BY DEF IInv
<1> QED BY <1>1, Invariance, PTL

\* Where the invariant's ramps are the texts of the property.
LEMMA TextsAreRamps ==
  ASSUME IInv, OneChoiceInterrupted
  PROVE  TextIsTheGeneration
<1>1. TypeOK /\ HoldsTheLast /\ LogprobsInOrder /\ TextExact
  BY DEF IInv
<1> SUFFICES ASSUME NEW i \in Generations
             PROVE  LET a == answer[i]
                        echo == IF request.echo THEN <<Echo>> ELSE <<>>
                        suffix == IF request.suffix THEN <<Suffix>> ELSE <<>>
                        held == IF ended[i] = None THEN Len(pending[i]) ELSE 0
                    IN  /\ pc = "generating" => a.text = echo \o Tokens(produced[i] - held)
                        /\ pc = "returned" => a.text = echo \o Tokens(produced[i]) \o suffix
                        /\ \A j, k \in DOMAIN a.logprobs : j < k => a.logprobs[j] < a.logprobs[k]
  BY DEF TextIsTheGeneration
<1> DEFINE echo == IF request.echo THEN <<Echo>> ELSE <<>>
           held == IF ended[i] = None THEN Len(pending[i]) ELSE 0
<1>2. PICK p \in Nat, L \in Nat : p = produced[i] /\ L = Len(pending[i]) /\ L <= p
  BY <1>1, GenerationTypes DEF HoldsTheLast
<1>3. ASSUME NEW k \in Nat
      PROVE  echo \o Tokens(k) = Ramp(0 - EchoLen, EchoLen + k)
  <2>1. Tokens(k) = Ramp(0, k)
    BY DEF Tokens, Ramp
  <2>2. CASE request.echo
    <3>1. PICK b \in Int, n \in Nat : b = 0 - n /\ n = EchoLen /\ n = 1
      BY <2>2 DEF EchoLen
    <3>2. Ramp(b, n) \o Ramp(b + n, k) = Ramp(b, n + k)
      BY RampConcat
    <3>3. Ramp(b, n) = <<0>> /\ b + n = 0
      BY <3>1 DEF Ramp
    <3>4. echo = <<0>>
      BY <2>2 DEF Echo
    <3> QED BY <2>1, <3>1, <3>2, <3>3, <3>4
  <2>3. CASE ~request.echo
    <3>1. EchoLen = 0 /\ echo = <<>>
      BY <2>3 DEF EchoLen
    <3>2. Ramp(0, k) \in Seq(Int)
      BY RampIsSeq
    <3>3. <<>> \o Ramp(0, k) = Ramp(0, k)
      BY <3>2, ConcatEmptySeq
    <3>4. PICK b \in Int, n \in Nat : b = 0 - n /\ n = EchoLen /\ n = 0
      BY <3>1
    <3>5. b = 0 /\ n + k = k
      <4>1. b = 0 - n /\ n = 0
        BY <3>4
      <4> QED BY <4>1
    <3> QED BY <2>1, <3>1, <3>3, <3>4, <3>5
  <2> QED BY <2>2, <2>3
<1>4. p - held \in Nat /\ Shown(i) = p - held
  BY <1>2 DEF Shown
<1>5. pc = "generating" => answer[i].text = echo \o Tokens(produced[i] - held)
  <2>1. echo \o Tokens(p - held) = Ramp(0 - EchoLen, EchoLen + (p - held))
    BY <1>3, <1>4
  <2> HIDE DEF held, echo
  <2> QED BY <1>1, <1>2, <1>4, <2>1 DEF TextExact
<1>6. pc = "returned" => answer[i].text = echo \o Tokens(produced[i]) \o SuffixText
  <2>1. echo \o Tokens(p) = Ramp(0 - EchoLen, EchoLen + p)
    BY <1>3
  <2> HIDE DEF echo
  <2> QED BY <1>1, <1>2, <2>1 DEF TextExact
<1>7. \A j, k \in DOMAIN answer[i].logprobs : j < k => answer[i].logprobs[j] < answer[i].logprobs[k]
  BY <1>1 DEF LogprobsInOrder
<1> QED BY <1>5, <1>6, <1>7 DEF SuffixText

\* If the engine ends early only requests of one choice, the text of every choice is
\* its generation: what left the text streamer, each token once and in order, with
\* the prompt before and the suffix after it as asked.  (A request of several choices
\* that is ended when one of them had ended gets that one's last characters again.)
THEOREM TextsAreGenerations == OneChoiceInterrupted => (Spec => []TextIsTheGeneration)
<1> SUFFICES ASSUME OneChoiceInterrupted
             PROVE  Spec => []TextIsTheGeneration
  OBVIOUS
<1>1. IInv => TextIsTheGeneration
  BY TextsAreRamps
<1> QED BY <1>1, Invariance, PTL
=============================================================================
