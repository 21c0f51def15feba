----------------------- MODULE ReasoningStream_proofs -----------------------
(***************************************************************************)
(* The safety of a Reasoning action, for any provider, any number of       *)
(* attempts, blocks and chunks.  Each property speaks of the end of an     *)
(* attempt; the invariant says what holds while its stream is read: what   *)
(* the host was shown is in the context but for the parts of this attempt, *)
(* and the collectors agree with the assembler.                            *)
(***************************************************************************)
EXTENDS ReasoningStream, BlockAssembler_proofs

Shown == [text: [Kinds -> Nat], open: SUBSET Kinds,
          calls: SUBSET (Nat \X Indexes), closed: SUBSET (Nat \X Indexes)]

\* What was shown is remembered at the end of an attempt.
ShownInv ==
    /\ AttemptSettled
    /\ pc = "stream" => /\ span = "open" /\ shown.open = uiOpen
                        /\ \A kind \in Kinds : shown.text[kind] = context[kind] + parts[kind]
                        /\ asm.finish # None => uiOpen = {}

ToolBlocks == {i \in Indexes : asm.blocks[i] # None /\ asm.blocks[i].type = "tool-call"}

\* What was collected is what the assembler has, and stays so once it is returned.
CollectedInv ==
    /\ AssemblerInv(asm)
    /\ toolCalls = ToolBlocks
    /\ usage = asm.usage
    /\ NothingLeaks
    /\ result.kind = "response" => pc = "returned"
    /\ pc = "hook" => failure \in Failures

\* A failure waits for its next attempt only if the policy allows one.
RetryInv ==
    pc = "sleep" => /\ attempt <= MaxRetries
                    /\ decision # "stop"
                    /\ failure = "fatal" => decision = "retry"

StreamInv == TypeOK /\ ShownInv /\ CollectedInv /\ RetryInv

-----------------------------------------------------------------------------
LEMMA StreamInit == Init => StreamInv
<1> SUFFICES ASSUME Init PROVE StreamInv
  OBVIOUS
<1>1. TypeOK
  <2>1. Zero \in [Kinds -> Nat]
    BY DEF Zero
  <2>2. shown \in Shown
    BY <2>1 DEF Init, Shown
  <2>3. attempt \in 1..(1 + MaxRetries) /\ chunks \in 0..MaxChunks
    BY RetriesAssumption DEF Init
  <2> QED BY <2>1, <2>2, <2>3 DEF Init, TypeOK, Shown, Failures
<1>2. ShownInv
  BY DEF Init, ShownInv, AttemptSettled, Kinds, Zero
<1>3. CollectedInv
  BY NewAssemblerInv DEF Init, CollectedInv, NewAssembler, ToolBlocks, NothingLeaks, CallsOfLastAttempt,
                         UsageCountedOnce
<1> QED BY <1>1, <1>2, <1>3 DEF StreamInv, RetryInv, Init

-----------------------------------------------------------------------------
(* The end of an attempt.                                                  *)

\* Closing the blocks and remembering the parts settles an attempt.
LEMMA SettleKeeps ==
    ASSUME StreamInv, pc = "stream", CloseBlocks, Remember, UNCHANGED <<parts, uiOpen>>
    PROVE  /\ shown' \in Shown /\ context' \in [Kinds -> Nat]
           /\ shown'.open = {} /\ context' = shown'.text
<1>1. shown \in Shown /\ context \in [Kinds -> Nat] /\ parts \in [Kinds -> Nat]
  BY DEF StreamInv, TypeOK, Shown
<1>2. shown' \in Shown /\ shown'.open = {} /\ shown'.text = shown.text
  BY <1>1 DEF StreamInv, ShownInv, CloseBlocks, Shown
<1>3. context' \in [Kinds -> Nat] /\ \A kind \in Kinds : context'[kind] = shown.text[kind]
  BY <1>1 DEF StreamInv, ShownInv, Remember
<1>4. shown.text \in [Kinds -> Nat]
  BY <1>1 DEF Shown
<1> QED BY <1>2, <1>3, <1>4

\* What the policy decides about a failure.
LEMMA DecideKeeps ==
    ASSUME StreamInv, NEW f \in Failures, NEW d \in {None, "retry", "stop"},
           Decide(f, d), failure' = f, attempt' = attempt
    PROVE  RetryInv' /\ pc' \in {"sleep", "returned"} /\ decision' \in {None, "retry", "stop"}
           /\ (result' = result \/ result' = [kind |-> "error", calls |-> {}])
<1>1. attempt \in Nat /\ MaxRetries \in Nat
  BY RetriesAssumption DEF StreamInv, TypeOK
<1>2. None # "stop" /\ None # "retry"
  BY NoneAssumption
<1>3. /\ decision' = d
      /\ \/ Retries(f, d) /\ pc' = "sleep" /\ result' = result
         \/ pc' = "returned" /\ result' = [kind |-> "error", calls |-> {}]
  BY DEF Decide
<1>4. Retries(f, d) => attempt <= MaxRetries /\ d # "stop" /\ (f = "fatal" => d = "retry")
  BY <1>1, <1>2 DEF Retries, IsLast
<1> QED BY <1>3, <1>4 DEF RetryInv

\* The collectors and the assembler are left as they are.
LEMMA CollectedFrame ==
    ASSUME CollectedInv, UNCHANGED <<asm, toolCalls, usage, tokens, metered>>,
           \/ result' = result /\ (pc' = pc \/ pc # "returned")
           \/ result' = [kind |-> "error", calls |-> {}],
           pc' = "hook" => failure' \in Failures
    PROVE  CollectedInv'
BY DEF CollectedInv, ToolBlocks, NothingLeaks, CallsOfLastAttempt, UsageCountedOnce

LEMMA FailKeeps ==
    ASSUME StreamInv, pc = "stream", NEW f \in Failures, Fail(f)
    PROVE  StreamInv'
<1>1. /\ shown' \in Shown /\ context' \in [Kinds -> Nat]
      /\ shown'.open = {} /\ context' = shown'.text
  BY SettleKeeps DEF Fail, attemptVars
<1>2. /\ RetryInv' /\ pc' \in {"hook", "sleep", "returned"} /\ decision' \in {None, "retry", "stop"}
      /\ (result' = result \/ result' = [kind |-> "error", calls |-> {}])
  BY DecideKeeps DEF Fail, RetryInv, StreamInv, TypeOK
<1>3. TypeOK'
  BY <1>1, <1>2 DEF StreamInv, TypeOK, Fail, attemptVars, rest, Shown
<1>4. ShownInv'
  BY <1>1, <1>2 DEF ShownInv, AttemptSettled, Fail
<1>5. result.kind # "response"
  BY DEF StreamInv, CollectedInv
<1>6. CollectedInv'
  BY <1>2, <1>5, CollectedFrame DEF StreamInv, Fail, attemptVars, rest
<1> QED BY <1>2, <1>3, <1>4, <1>6 DEF StreamInv

LEMMA HookKeeps ==
    ASSUME StreamInv, NEW d \in {None, "retry", "stop"}, HookAnswers(d)
    PROVE  StreamInv'
<1>1. failure \in Failures /\ pc = "hook"
  BY DEF HookAnswers, StreamInv, CollectedInv
<1>2. /\ RetryInv' /\ pc' \in {"sleep", "returned"} /\ decision' \in {None, "retry", "stop"}
      /\ (result' = result \/ result' = [kind |-> "error", calls |-> {}])
  BY <1>1, DecideKeeps DEF HookAnswers
<1>3. TypeOK'
  BY <1>2 DEF StreamInv, TypeOK, HookAnswers, attemptVars, rest
<1>4. ShownInv'
  BY <1>1, <1>2 DEF StreamInv, ShownInv, AttemptSettled, HookAnswers
<1>5. CollectedInv'
  BY <1>1, <1>2, CollectedFrame DEF StreamInv, HookAnswers, attemptVars, rest
<1> QED BY <1>2, <1>3, <1>4, <1>5 DEF StreamInv

\* A response is returned with all blocks closed: the finish has closed them.
LEMMA RespondKeeps ==
    ASSUME StreamInv, pc = "stream", Valid(asm), Respond
    PROVE  StreamInv'
<1>1. shown \in Shown /\ context \in [Kinds -> Nat] /\ parts \in [Kinds -> Nat] /\ shown' = shown
  BY DEF StreamInv, TypeOK, Shown, Respond
<1>2. shown.open = {}
  BY DEF StreamInv, ShownInv, Valid
<1>3. context' \in [Kinds -> Nat] /\ \A kind \in Kinds : context'[kind] = shown.text[kind]
  BY <1>1 DEF StreamInv, ShownInv, Respond, Remember
<1>4. context' = shown'.text
  BY <1>1, <1>3 DEF Shown
<1>5. toolCalls \subseteq Indexes /\ result' \in [kind: {"response"}, calls: SUBSET Indexes]
  BY DEF StreamInv, TypeOK, Respond
<1>6. TypeOK'
  BY <1>1, <1>3, <1>5 DEF StreamInv, TypeOK, Respond, attemptVars, rest
<1>7. ShownInv' /\ RetryInv'
  BY <1>1, <1>2, <1>4 DEF ShownInv, RetryInv, AttemptSettled, Respond
<1>8. CollectedInv'
  <2>1. result'.calls = {i \in Indexes : Kept(asm, asm.blocks[i]) /\ asm.blocks[i].type = "tool-call"}
    BY DEF Respond, StreamInv, CollectedInv, ToolBlocks, Kept
  <2> QED BY <2>1 DEF StreamInv, CollectedInv, ToolBlocks, NothingLeaks, CallsOfLastAttempt,
                      UsageCountedOnce, Respond, attemptVars, rest
<1> QED BY <1>6, <1>7, <1>8 DEF StreamInv

LEMMA CancelledKeeps ==
    ASSUME StreamInv, CancelledInStream \/ CancelledAfterFailure
    PROVE  StreamInv'
<1>1. CASE CancelledInStream
  <2>1. /\ shown' \in Shown /\ context' \in [Kinds -> Nat]
        /\ shown'.open = {} /\ context' = shown'.text
    BY <1>1, SettleKeeps DEF CancelledInStream, attemptVars
  <2>2. TypeOK'
    BY <1>1, <2>1 DEF StreamInv, TypeOK, CancelledInStream, attemptVars, rest, Shown
  <2>3. ShownInv' /\ RetryInv'
    BY <1>1, <2>1 DEF StreamInv, ShownInv, RetryInv, AttemptSettled, CancelledInStream
  <2>4. CollectedInv'
    BY <1>1, CollectedFrame DEF StreamInv, CancelledInStream, attemptVars, rest
  <2> QED BY <2>2, <2>3, <2>4 DEF StreamInv
<1>2. CASE CancelledAfterFailure
  <2>1. TypeOK'
    BY <1>2 DEF StreamInv, TypeOK, CancelledAfterFailure, attemptVars, rest
  <2>2. ShownInv' /\ RetryInv'
    BY <1>2 DEF StreamInv, ShownInv, RetryInv, AttemptSettled, CancelledAfterFailure
  <2>3. CollectedInv'
    BY <1>2, CollectedFrame DEF StreamInv, CancelledAfterFailure, attemptVars, rest
  <2> QED BY <2>1, <2>2, <2>3 DEF StreamInv
<1> QED BY <1>1, <1>2

\* A new attempt starts from nothing.
LEMMA NextAttemptKeeps ==
    ASSUME StreamInv, NextAttempt
    PROVE  StreamInv'
<1>1. Zero \in [Kinds -> Nat] /\ \A kind \in Kinds : Zero[kind] = 0
  BY DEF Zero
<1>2. context["text"] + context["reasoning"] \in Nat
  BY DEF StreamInv, TypeOK, Kinds
<1>3. attempt + 1 \in 1..(1 + MaxRetries) /\ 0 \in 0..MaxChunks
  BY RetriesAssumption DEF StreamInv, TypeOK, RetryInv, NextAttempt
<1>4. TypeOK'
  BY <1>1, <1>2, <1>3 DEF StreamInv, TypeOK, NextAttempt, FreshAttempt, rest
<1>5. ShownInv'
  <2>1. shown' = shown /\ context' = context /\ parts' = Zero /\ uiOpen' = {} /\ span' = "open"
    BY DEF NextAttempt, FreshAttempt
  <2>2. shown.open = {} /\ context = shown.text /\ context \in [Kinds -> Nat]
    BY DEF StreamInv, TypeOK, ShownInv, AttemptSettled, NextAttempt
  <2> QED BY <1>1, <2>1, <2>2 DEF ShownInv, AttemptSettled, NextAttempt
<1>6. CollectedInv'
  <2>1. asm' = NewAssembler /\ toolCalls' = {} /\ usage' = None
    BY DEF NextAttempt, FreshAttempt
  <2>2. AssemblerInv(asm') /\ asm'.usage = None /\ \A i \in Indexes : asm'.blocks[i] = None
    BY <2>1, NewAssemblerInv DEF NewAssembler
  <2>3. result'.kind # "response" /\ pc' = "stream"
    BY DEF StreamInv, CollectedInv, NextAttempt
  <2> QED BY <2>1, <2>2, <2>3 DEF StreamInv, CollectedInv, ToolBlocks, NothingLeaks,
                                  CallsOfLastAttempt, UsageCountedOnce, NextAttempt, rest
<1> QED BY <1>4, <1>5, <1>6 DEF StreamInv, RetryInv, NextAttempt

-----------------------------------------------------------------------------
(* Chunks.                                                                 *)

LEMMA ChunkTyped ==
    ASSUME NEW k \in Chunk
    PROVE  /\ ChunkOK(k)
           /\ k.type = "block-end" => k.block \in WireTypes
           /\ k.type = "usage" => k.kind \in {"valid", "invalid"}
BY DeltaOfTypes DEF Chunk, ChunkOK, OfBlock, DeltaTypes

\* A delta of text or reasoning is shown and collected once.
LEMMA TextDeltaShown ==
    ASSUME StreamInv, pc = "stream", NEW k, NEW kind \in Kinds, TextDelta(k, kind), context' = context
    PROVE  /\ shown' \in Shown /\ parts' \in [Kinds -> Nat] /\ uiOpen' \subseteq Kinds
           /\ shown'.open = uiOpen'
           /\ \A j \in Kinds : shown'.text[j] = context'[j] + parts'[j]
<1>1. /\ shown \in Shown /\ parts \in [Kinds -> Nat] /\ uiOpen \subseteq Kinds
      /\ shown.open = uiOpen /\ context \in [Kinds -> Nat]
      /\ \A j \in Kinds : shown.text[j] = context[j] + parts[j]
  BY DEF StreamInv, TypeOK, Shown, ShownInv
<1>2. parts' = [parts EXCEPT ![kind] = @ + 1] /\ uiOpen' = uiOpen \cup {kind}
  BY DEF TextDelta
<1>3. shown' \in Shown /\ shown'.open = shown.open \cup {kind}
      /\ shown'.text = [shown.text EXCEPT ![kind] = @ + 1]
  <2>1. shown' = [shown EXCEPT !.text = [shown.text EXCEPT ![kind] = @ + 1], !.open = @ \cup {kind}]
    BY <1>1 DEF TextDelta, Shown
  <2>2. [shown.text EXCEPT ![kind] = @ + 1] \in [Kinds -> Nat]
    BY <1>1 DEF Shown
  <2> QED BY <1>1, <2>1, <2>2 DEF Shown
<1>4. \A j \in Kinds : shown'.text[j] = context[j] + parts'[j]
  BY <1>1, <1>2, <1>3 DEF Shown
<1> QED BY <1>1, <1>2, <1>3, <1>4

\* A chunk that is passed on leaves what was shown in step with what was
\* collected.
LEMMA AcceptShown ==
    ASSUME StreamInv, pc = "stream", NEW k \in Chunk, Legal(asm, k), asm' = Feed(asm, k), Accept(k),
           UNCHANGED <<pc, span, context>>
    PROVE  /\ ShownInv' /\ shown' \in Shown
           /\ parts' \in [Kinds -> Nat] /\ uiOpen' \subseteq Kinds
<1>1. /\ shown \in Shown /\ parts \in [Kinds -> Nat] /\ uiOpen \subseteq Kinds
      /\ shown.open = uiOpen /\ span = "open" /\ context \in [Kinds -> Nat]
      /\ \A j \in Kinds : shown.text[j] = context[j] + parts[j]
  BY DEF StreamInv, TypeOK, Shown, ShownInv
<1>2. k.type # "finish" => asm'.finish = None
  <2>1. IsAssembler(asm) /\ asm.finish = None
    BY DEF StreamInv, CollectedInv, AssemblerInv, Legal
  <2>2. CASE k.type = "block-start"
    BY <2>1, <2>2, FeedStart DEF IsAssembler
  <2>3. CASE k.type \in DeltaTypes
    BY <2>1, <2>3, FeedDelta DEF IsAssembler
  <2>4. CASE k.type = "block-end"
    BY <2>1, <2>4, FeedEnd DEF IsAssembler
  <2>5. CASE k.type = "usage"
    BY <2>1, <2>5, FeedUsage DEF IsAssembler
  <2> QED BY <2>2, <2>3, <2>4, <2>5, ChunkTyped DEF ChunkOK, OfBlock
<1>3. ASSUME shown' \in Shown, parts' \in [Kinds -> Nat], uiOpen' \subseteq Kinds, shown'.open = uiOpen',
             \A j \in Kinds : shown'.text[j] = context'[j] + parts'[j],
             k.type = "finish" => uiOpen' = {}
      PROVE  /\ ShownInv' /\ shown' \in Shown
             /\ parts' \in [Kinds -> Nat] /\ uiOpen' \subseteq Kinds
  BY <1>1, <1>2, <1>3 DEF ShownInv, AttemptSettled
<1>4. CASE k.type = "text-delta" /\ TextDelta(k, "text")
  BY <1>3, <1>4, TextDeltaShown DEF Kinds
<1>5. CASE k.type = "reasoning-delta" /\ TextDelta(k, "reasoning")
  BY <1>3, <1>5, TextDeltaShown DEF Kinds
<1>6. CASE k.type = "tool-call-delta" /\ ToolDelta(k.index)
  <2>1. attempt \in Nat /\ k.index \in Indexes
    BY <1>6, ChunkTyped, RetriesAssumption DEF StreamInv, TypeOK, ChunkOK, OfBlock, DeltaTypes
  <2>2. shown' \in Shown /\ shown'.open = shown.open /\ shown'.text = shown.text
    BY <1>1, <1>6, <2>1 DEF ToolDelta, Shown
  <2> QED BY <1>1, <1>3, <1>6, <2>2 DEF ToolDelta
<1>7. CASE k.type = "block-end" /\ BlockEnded(k.index, k.block)
  <2>1. attempt \in Nat /\ k.index \in Indexes
    BY <1>7, ChunkTyped, RetriesAssumption DEF StreamInv, TypeOK, ChunkOK, OfBlock
  <2>2. shown' \in Shown /\ shown'.open = uiOpen' /\ shown'.text = shown.text
        /\ parts' = parts /\ uiOpen' \subseteq Kinds
    <3>1. CASE k.block = "tool-call"
      <4>1. /\ shown' = [shown EXCEPT !.calls = @ \cup {<<attempt, k.index>>},
                                      !.closed = @ \cup {<<attempt, k.index>>}]
            /\ parts' = parts /\ uiOpen' = uiOpen
        BY <1>7, <3>1 DEF BlockEnded
      <4>2. <<attempt, k.index>> \in Nat \X Indexes
        BY <2>1
      <4> QED BY <1>1, <4>1, <4>2 DEF Shown
    <3>2. CASE k.block # "tool-call"
      <4>1. PICK kind \in Kinds : /\ uiOpen' = uiOpen \ {kind}
                                  /\ shown' = [shown EXCEPT !.open = @ \ (uiOpen \cap {kind})]
        BY <1>7, <3>2 DEF BlockEnded
      <4> QED BY <1>1, <1>7, <3>2, <4>1 DEF BlockEnded, Shown
    <3> QED BY <3>1, <3>2
  <2> QED BY <1>1, <1>3, <1>7, <2>2
<1>8. CASE k.type \in {"block-start", "usage"} /\ UNCHANGED <<parts, uiOpen, shown>>
  BY <1>1, <1>3, <1>8
<1>9. CASE k.type = "finish" /\ Finished
  <2>1. shown' \in Shown /\ shown'.open = {} /\ shown'.text = shown.text
    BY <1>1, <1>9 DEF Finished, CloseBlocks, Shown
  <2> QED BY <1>1, <1>3, <1>9, <2>1 DEF Finished
<1> QED BY <1>4, <1>5, <1>6, <1>7, <1>8, <1>9 DEF Accept

\* A call is collected exactly when the assembler finishes it.
LEMMA AcceptCollected ==
    ASSUME StreamInv, pc = "stream", NEW k \in Chunk, Legal(asm, k), asm' = Feed(asm, k), Accept(k),
           UNCHANGED <<pc, result, failure>>
    PROVE  CollectedInv' /\ toolCalls' \subseteq Indexes
<1>1. /\ AssemblerInv(asm) /\ IsAssembler(asm) /\ AssemblerInv(asm')
      /\ toolCalls = ToolBlocks /\ usage = asm.usage /\ tokens = metered
      /\ result.kind # "response"
  BY ChunkTyped, FeedKeeps DEF StreamInv, CollectedInv, AssemblerInv, NothingLeaks, UsageCountedOnce
<1>2. ASSUME toolCalls' = ToolBlocks', usage' = asm'.usage, tokens' = metered'
      PROVE  CollectedInv' /\ toolCalls' \subseteq Indexes
  BY <1>1, <1>2 DEF CollectedInv, ToolBlocks, NothingLeaks, CallsOfLastAttempt, UsageCountedOnce,
                    StreamInv
<1>3. CASE k.type = "block-end"
  <2> DEFINE i == k.index
             ended == [type |-> WireType(asm.open[i]), text |-> asm.text[i]]
  <2>1. i \in Indexes /\ asm.open[i] # None /\ k.block = WireType(asm.open[i])
    BY <1>3, ChunkTyped, AssemblerAssumption, DeltaOfTypes
       DEF Legal, ChunkOK, OfBlock, DeltaTypes
  <2>2. ended \in Block /\ ended # None /\ asm.blocks[i] = None
    BY <1>1, <2>1, EndedBlock, AssemblerAssumption DEF AssemblerInv, OpenedOnce
  <2>3. asm'.blocks = [asm.blocks EXCEPT ![i] = ended] /\ asm'.usage = asm.usage
    BY ZenonT(60), <1>1, <1>3, FeedEnd DEF IsAssembler
  <2>4. ToolBlocks' = IF k.block = "tool-call" THEN ToolBlocks \cup {i} ELSE ToolBlocks
    <3>1. asm.blocks \in [Indexes -> Block \cup {None}]
      BY <1>1 DEF IsAssembler
    <3>2. asm'.blocks[i] = ended /\ ended.type = k.block
          /\ \A j \in Indexes \ {i} : asm'.blocks[j] = asm.blocks[j]
      BY <2>1, <2>3, <3>1
    <3> HIDE DEF ended
    <3> QED BY <2>1, <2>2, <3>2 DEF ToolBlocks
  <2>5. BlockEnded(i, k.block)
    BY <1>3 DEF Accept
  <2> QED BY <1>1, <1>2, <2>3, <2>4, <2>5 DEF BlockEnded
<1>4. CASE k.type # "block-end"
  <2>1. asm'.blocks = asm.blocks
        /\ asm'.usage = IF k.type = "usage" THEN k.kind ELSE asm.usage
    <3>1. CASE k.type = "block-start"
      BY <1>1, <3>1, FeedStart DEF IsAssembler
    <3>2. CASE k.type \in DeltaTypes
      <4>1. asm'.blocks = asm.blocks /\ asm'.usage = asm.usage
        BY <1>1, <3>2, FeedDelta DEF IsAssembler
      <4> QED BY <3>2, <4>1 DEF DeltaTypes
    <3>3. CASE k.type = "usage"
      BY <1>1, <3>3, FeedUsage DEF IsAssembler
    <3>4. CASE k.type = "finish"
      BY <1>1, <3>4, FeedFinish DEF IsAssembler
    <3> QED BY <1>4, <3>1, <3>2, <3>3, <3>4, ChunkTyped DEF ChunkOK, OfBlock
  <2>2. toolCalls' = toolCalls /\ tokens' = metered'
        /\ usage' = IF k.type = "usage" THEN k.kind ELSE usage
    BY <1>1, <1>4 DEF Accept, TextDelta, ToolDelta, Finished
  <2> QED BY <1>1, <1>2, <2>1, <2>2 DEF ToolBlocks
<1> QED BY <1>3, <1>4

LEMMA ReceiveKeeps ==
    ASSUME StreamInv, NEW k \in Chunk, Receive(k)
    PROVE  StreamInv'
<1>1. CASE \E f \in Failures : Fail(f)
  BY <1>1, FailKeeps DEF Receive
<1>2. CASE ~\E f \in Failures : Fail(f)
  <2>1. /\ pc = "stream" /\ Legal(asm, k) /\ asm' = Feed(asm, k) /\ Accept(k)
        /\ chunks' = chunks + 1 /\ chunks < MaxChunks
        /\ UNCHANGED <<pc, attempt, span, failure, cancellation, result, context, messages,
                       decision, asked>>
    BY <1>2 DEF Receive, Failures
  <2>2. /\ ShownInv' /\ shown' \in Shown
        /\ parts' \in [Kinds -> Nat] /\ uiOpen' \subseteq Kinds
    BY <2>1, AcceptShown
  <2>3. CollectedInv' /\ toolCalls' \subseteq Indexes
    BY <2>1, AcceptCollected
  <2>4. /\ started' \subseteq Indexes /\ usage' \in {None, "valid", "invalid"}
        /\ tokens' \in Nat /\ metered' \in Nat
    BY <2>1, ChunkTyped DEF StreamInv, TypeOK, Accept, TextDelta, ToolDelta, BlockEnded, Finished,
                            ChunkOK, OfBlock, DeltaTypes
  <2>5. TypeOK'
    BY <2>1, <2>2, <2>3, <2>4, RetriesAssumption DEF StreamInv, TypeOK, Shown
  <2> QED BY <2>1, <2>2, <2>3, <2>5 DEF StreamInv, RetryInv
<1> QED BY <1>1, <1>2

LEMMA StreamNext == StreamInv /\ [Next]_vars => StreamInv'
<1> SUFFICES ASSUME StreamInv, [Next]_vars PROVE StreamInv'
  OBVIOUS
<1>1. ASSUME NEW k \in Chunk, Receive(k) PROVE StreamInv'
  BY <1>1, ReceiveKeeps
<1>2. CASE StreamEnds
  BY <1>2, RespondKeeps, FailKeeps DEF StreamEnds, Failures
<1>3. CASE StreamRaises
  BY <1>3, FailKeeps DEF StreamRaises, Failures
<1>4. ASSUME NEW d \in {None, "retry", "stop"}, HookAnswers(d) PROVE StreamInv'
  BY <1>4, HookKeeps
<1>5. CASE NextAttempt
  BY <1>5, NextAttemptKeeps
<1>6. CASE CancelledInStream \/ CancelledAfterFailure
  BY <1>6, CancelledKeeps
<1>7. CASE SetCancellation
  <2>1. TypeOK' /\ ShownInv' /\ RetryInv'
    BY <1>7 DEF StreamInv, TypeOK, ShownInv, RetryInv, AttemptSettled, SetCancellation, attemptVars
  <2> QED BY <1>7, <2>1, CollectedFrame DEF StreamInv, CollectedInv, SetCancellation, attemptVars
<1>8. CASE UNCHANGED vars
  <2>1. TypeOK' /\ ShownInv' /\ RetryInv'
    BY <1>8 DEF StreamInv, TypeOK, ShownInv, RetryInv, AttemptSettled, vars, attemptVars
  <2> QED BY <1>8, <2>1, CollectedFrame DEF StreamInv, CollectedInv, vars, attemptVars
<1> QED BY <1>1, <1>2, <1>3, <1>4, <1>5, <1>6, <1>7, <1>8 DEF Next, Step

-----------------------------------------------------------------------------
(* The theorems.                                                           *)

LEMMA StreamCorrect == Spec => []StreamInv
BY StreamInit, StreamNext, PTL DEF Spec

\* _execute_reasoning.py: wherever an attempt ends, the host has no open block,
\* the span is ended, and what was shown is in the context exactly once.
THEOREM AttemptsSettle == Spec => []AttemptSettled
<1>1. StreamInv => AttemptSettled
  BY DEF StreamInv, ShownInv
<1> QED BY <1>1, StreamCorrect, PTL

\* ... a response has exactly the tool calls the assembler finished in the
\* last attempt, and a usage is counted once.
THEOREM NoAttemptLeaks == Spec => []NothingLeaks
<1>1. StreamInv => NothingLeaks
  BY DEF StreamInv, CollectedInv
<1> QED BY <1>1, StreamCorrect, PTL

\* should_retry: a call is made again only as long as attempts are left and the
\* policy, or the class of the failure, allows it.
THEOREM RetriesJustified == Spec => RetryJustified
<1>1. StreamInv /\ [Next]_vars =>
        [attempt' > attempt => /\ attempt <= MaxRetries
                               /\ decision # "stop"
                               /\ failure = "fatal" => decision = "retry"]_vars
  <2> SUFFICES ASSUME StreamInv, [Next]_vars, attempt' > attempt
               PROVE  /\ attempt <= MaxRetries
                      /\ decision # "stop"
                      /\ failure = "fatal" => decision = "retry"
    OBVIOUS
  <2>1. NextAttempt \/ attempt' = attempt
    BY DEF Next, Step, Receive, StreamEnds, StreamRaises, Fail, Respond, HookAnswers,
           CancelledInStream, CancelledAfterFailure, SetCancellation, vars
  <2>2. attempt \in Nat
    BY RetriesAssumption DEF StreamInv, TypeOK
  <2>3. pc = "sleep"
    BY <2>1, <2>2 DEF NextAttempt
  <2> QED BY <2>3 DEF StreamInv, RetryInv
<1> QED BY <1>1, StreamCorrect, PTL DEF Spec, RetryJustified

=============================================================================
