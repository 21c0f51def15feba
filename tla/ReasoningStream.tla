-------------------------- MODULE ReasoningStream --------------------------
(***************************************************************************)
(* ReasoningExecutor.stream (agent/runner/_execute_reasoning.py): one      *)
(* Reasoning action, that is, up to 1 + MaxRetries attempts at a streamed  *)
(* provider call.  It turns chunks into events for the host, puts the      *)
(* response together for the context, and decides what a failure means.    *)
(*                                                                         *)
(* pc is where the executor is suspended: "stream" (the next chunk), "hook"*)
(* (llm/error), "sleep" (back-off), "returned" (result is set) or "raised" *)
(* (a CancelledError).  Its host pulls every event it yields, so yields    *)
(* are not steps; what the host makes of the events is the record shown.   *)
(***************************************************************************)
EXTENDS BlockAssembler

CONSTANTS MaxRetries,   \* Agent.max_retries
          MaxChunks     \* bound: chunks in the stream of one attempt

ASSUME RetriesAssumption == MaxRetries \in Nat /\ MaxChunks \in Nat

\* "No value" is no decision of the hook and no kind of finish.
ASSUME NoneAssumption == None \notin {"retry", "stop", "max-tokens"}

VARIABLES
    pc, attempt,
    asm,            \* the BlockAssembler of this attempt
    chunks,         \* chunks it was fed
    parts,          \* text_parts and reasoning_parts: how many
    uiOpen,         \* kinds whose *_block_id is not None
    toolCalls,      \* tool_calls: block indexes
    started,        \* tool_call_started
    usage,
    span,           \* the LLM span
    failure,        \* the code of the attempt's error: its class
    cancellation,   \* runtime_context["cancellation"].is_set()
    result,         \* the TurnResult: its kind and tool calls
    context,        \* deltas of each kind written to the context
    messages,       \* deltas of failed attempts in the messages being sent
    tokens,         \* state.token_usage, in calls
    \* the host, and history
    shown,          \* what the host was shown
    metered,        \* attempts the provider finished with a usage of their own
    decision,       \* the hook's last decision
    asked           \* failures the hook was asked about

attemptVars == <<asm, chunks, parts, uiOpen, toolCalls, started, usage>>
rest        == <<cancellation, tokens, metered>>
vars == <<pc, attempt, attemptVars, span, failure, cancellation, result, context, messages,
          tokens, shown, metered, decision, asked>>

Kinds == {"text", "reasoning"}
Zero  == [k \in Kinds |-> 0]

\* Adapters send the content of a block with every block-end.  A failure is a
\* retryable code, one of UNRETRYABLE_CODES, or an aborted finish, whose
\* code ABORTED is retryable too.
Failures == {"retryable", "fatal", "aborted"}

Chunk == [type: {"block-start"}, index: Indexes, block: BlockTypes]
   \cup [type: DOMAIN DeltaOf, index: Indexes, text: Deltas]
   \cup [type: {"block-end"}, index: Indexes, block: WireTypes]
   \cup [type: {"usage"}, index: {0}, kind: {"valid", "invalid"}]
   \cup [type: {"finish"}, index: {0}, kind: {"stop", "max-tokens", "error", "aborted"}]

FreshAttempt ==
    /\ asm' = NewAssembler
    /\ chunks' = 0
    /\ parts' = Zero
    /\ uiOpen' = {}
    /\ toolCalls' = {}
    /\ started' = {}
    /\ usage' = None

Init ==
    /\ pc = "stream" /\ attempt = 1
    /\ asm = NewAssembler /\ chunks = 0 /\ parts = Zero /\ uiOpen = {}
    /\ toolCalls = {} /\ started = {} /\ usage = None
    /\ span = "open" /\ failure = None /\ cancellation = FALSE /\ result = [kind |-> "none", calls |-> {}]
    /\ context = Zero /\ messages = 0 /\ tokens = 0 /\ metered = 0
    /\ shown = [text |-> Zero, open |-> {}, calls |-> {}, closed |-> {}]
    /\ decision = None /\ asked = {}

-----------------------------------------------------------------------------
(* Ends of an attempt.                                                     *)

\* The events that close the text and thinking blocks still open.
CloseBlocks == shown' = [shown EXCEPT !.open = @ \ uiOpen]

\* Mutation of Remember: only a complete response is remembered.
RememberNothing == UNCHANGED context

\* append_reply_blocks with the text and reasoning so far, if any.
Remember == context' = [k \in Kinds |-> context[k] + parts[k]]

IsLast == attempt >= 1 + MaxRetries

\* Mutation of Retries: the policy has the last word.
RetriesUnbounded(f, d) == (d = None /\ f # "fatal" /\ ~IsLast) \/ d = "retry"

\* should_retry
Retries(f, d) ==
    /\ ~IsLast
    /\ d = "retry" \/ (d = None /\ f # "fatal")

\* What follows a failure f on which the hook has said d.
Decide(f, d) ==
    /\ decision' = d
    /\ IF Retries(f, d) THEN pc' = "sleep" /\ UNCHANGED result
                        ELSE pc' = "returned" /\ result' = [kind |-> "error", calls |-> {}]

\* The except Exception block, up to the hook, which is not asked once the
\* cancellation event is set.
Fail(f) ==
    /\ span' = "ended"
    /\ failure' = f
    /\ CloseBlocks
    /\ Remember
    /\ \/ cancellation /\ Decide(f, None) /\ UNCHANGED asked
       \/ ~cancellation /\ pc' = "hook" /\ asked' = asked \cup {f} /\ UNCHANGED <<decision, result>>
    /\ UNCHANGED <<attempt, attemptVars, rest, messages>>

HookAnswers(d) ==
    /\ pc = "hook"
    /\ Decide(failure, d)
    /\ UNCHANGED <<attempt, attemptVars, span, failure, rest, context, messages, shown, asked>>

\* Mutation of NextAttempt: the collected tool calls survive.
NextAttemptKeepsCalls ==
    /\ pc = "sleep" /\ pc' = "stream"
    /\ attempt' = attempt + 1 /\ span' = "open"
    /\ messages' = context["text"] + context["reasoning"]
    /\ asm' = NewAssembler /\ chunks' = 0 /\ parts' = Zero /\ uiOpen' = {} /\ started' = {}
    /\ usage' = None
    /\ UNCHANGED <<toolCalls, failure, rest, result, context, shown, decision, asked>>

\* Mutation of NextAttempt: once the event is set, the back-off never ends.
NextAttemptUnlessCancelled ==
    /\ pc = "sleep" /\ ~cancellation /\ pc' = "stream"
    /\ attempt' = attempt + 1 /\ span' = "open"
    /\ messages' = context["text"] + context["reasoning"]
    /\ FreshAttempt
    /\ UNCHANGED <<failure, rest, result, context, shown, decision, asked>>

\* The messages are read again, the collectors reset, and a new call started.
NextAttempt ==
    /\ pc = "sleep" /\ pc' = "stream"
    /\ attempt' = attempt + 1
    /\ span' = "open"
    /\ messages' = context["text"] + context["reasoning"]
    /\ FreshAttempt
    /\ UNCHANGED <<failure, rest, result, context, shown, decision, asked>>

-----------------------------------------------------------------------------
(* Chunks.                                                                 *)

\* A delta of text or reasoning opens its block unless one is open.
TextDelta(k, kind) ==
    /\ parts' = [parts EXCEPT ![kind] = @ + 1]
    /\ uiOpen' = uiOpen \cup {kind}
    /\ shown' = [shown EXCEPT !.text[kind] = @ + 1, !.open = @ \cup {kind}]
    /\ UNCHANGED <<toolCalls, started, usage, tokens, metered>>

\* The first delta of a call announces it.
ToolDelta(i) ==
    /\ started' = started \cup {i}
    /\ shown' = [shown EXCEPT !.calls = @ \cup {<<attempt, i>>}]
    /\ UNCHANGED <<parts, uiOpen, toolCalls, usage, tokens, metered>>

\* The end of a block: a call is complete, a text or thinking block closed.
BlockEnded(i, wire) ==
    \/ /\ wire = "tool-call"
       /\ started' = started \cup {i}
       /\ toolCalls' = toolCalls \cup {i}
       /\ shown' = [shown EXCEPT !.calls = @ \cup {<<attempt, i>>},
                                 !.closed = @ \cup {<<attempt, i>>}]
       /\ UNCHANGED <<parts, uiOpen, usage, tokens, metered>>
    \/ /\ wire # "tool-call"
       /\ \E kind \in Kinds : /\ WireType(kind) = wire
                              /\ uiOpen' = uiOpen \ {kind}
                              /\ shown' = [shown EXCEPT !.open = @ \ (uiOpen \cap {kind})]
       /\ UNCHANGED <<parts, toolCalls, started, usage, tokens, metered>>

\* A normal finish: the usage is added up if it is complete, blocks are closed.
Finished ==
    /\ tokens' = IF usage = "valid" THEN tokens + 1 ELSE tokens
    /\ metered' = IF asm.usage = "valid" THEN metered + 1 ELSE metered
    /\ CloseBlocks
    /\ uiOpen' = {}
    /\ UNCHANGED <<parts, toolCalls, started, usage>>

Accept(k) ==
    \/ k.type = "text-delta" /\ TextDelta(k, "text")
    \/ k.type = "reasoning-delta" /\ TextDelta(k, "reasoning")
    \/ k.type = "tool-call-delta" /\ ToolDelta(k.index)
    \/ k.type = "block-end" /\ BlockEnded(k.index, k.block)
    \/ k.type = "block-start" /\ UNCHANGED <<parts, uiOpen, toolCalls, started, usage, shown, tokens, metered>>
    \/ k.type = "usage" /\ usage' = k.kind
       /\ UNCHANGED <<parts, uiOpen, toolCalls, started, shown, tokens, metered>>
    \/ k.type = "finish" /\ Finished

\* A chunk the assembler refuses, or a finish of kind error or aborted, fails
\* the attempt; any other is fed to the assembler and passed on.
Receive(k) ==
    /\ pc = "stream" /\ chunks < MaxChunks
    /\ \/ ~Legal(asm, k) /\ Fail("retryable")
       \/ /\ Legal(asm, k) /\ k.type = "finish"
          /\ \/ k.kind = "error" /\ \E f \in {"retryable", "fatal"} : Fail(f)
             \/ k.kind = "aborted" /\ Fail("aborted")
       \/ /\ Legal(asm, k)
          /\ k.type = "finish" => k.kind \in {"stop", "max-tokens"}
          /\ asm' = Feed(asm, k)
          /\ chunks' = chunks + 1
          /\ Accept(k)
          /\ UNCHANGED <<pc, attempt, span, failure, cancellation, result, context, messages,
                         decision, asked>>

\* Phase 5: the response is remembered and returned, without its tool calls if
\* it was truncated.
Respond ==
    /\ pc' = "returned"
    /\ span' = "ended"
    /\ Remember
    /\ result' = [kind |-> "response", calls |-> IF asm.finish = "max-tokens" THEN {} ELSE toolCalls]
    /\ UNCHANGED <<attempt, attemptVars, failure, rest, messages, shown, decision, asked>>

\* The stream is over: its end is checked.
StreamEnds ==
    /\ pc = "stream"
    /\ \/ Valid(asm) /\ Respond
       \/ ~Valid(asm) /\ Fail("retryable")

\* The stream, or the host's llm/stream hook, raises.
StreamRaises == pc = "stream" /\ \E f \in {"retryable", "fatal"} : Fail(f)

\* A CancelledError at the stream: the part received is remembered.
CancelledInStream ==
    /\ pc = "stream" /\ pc' = "raised"
    /\ span' = "ended"
    /\ CloseBlocks
    /\ Remember
    /\ UNCHANGED <<attempt, attemptVars, failure, rest, result, messages, decision, asked>>

\* A CancelledError at the hook or the back-off.
CancelledAfterFailure ==
    /\ pc \in {"hook", "sleep"} /\ pc' = "raised"
    /\ UNCHANGED <<attempt, attemptVars, span, failure, rest, result, context, messages, shown,
                   decision, asked>>

\* The host sets its cancellation event.
SetCancellation ==
    /\ ~cancellation /\ cancellation' = TRUE
    /\ UNCHANGED <<pc, attempt, attemptVars, span, failure, result, context, messages, tokens,
                   shown, metered, decision, asked>>

Step ==
    \/ \E k \in Chunk : Receive(k)
    \/ StreamEnds
    \/ StreamRaises
    \/ \E d \in {None, "retry", "stop"} : HookAnswers(d)
    \/ NextAttempt

Next == Step \/ CancelledInStream \/ CancelledAfterFailure \/ SetCancellation

Spec == Init /\ [][Next]_vars

\* The provider's stream goes on, hooks answer and the back-off ends.
FairSpec == Spec /\ WF_vars(Step)

-----------------------------------------------------------------------------
Over == pc \in {"returned", "raised"}

\* Every variable has its type.
TypeOK ==
    /\ pc \in {"stream", "hook", "sleep", "returned", "raised"}
    /\ attempt \in 1..(1 + MaxRetries) /\ chunks \in 0..MaxChunks
    /\ parts \in [Kinds -> Nat] /\ uiOpen \subseteq Kinds
    /\ toolCalls \subseteq Indexes /\ started \subseteq Indexes
    /\ usage \in {None, "valid", "invalid"} /\ span \in {"open", "ended"}
    /\ failure \in Failures \cup {None} /\ cancellation \in BOOLEAN
    /\ result \in [kind: {"none", "error", "response"}, calls: SUBSET Indexes]
    /\ context \in [Kinds -> Nat] /\ messages \in Nat /\ tokens \in Nat /\ metered \in Nat
    /\ decision \in {None, "retry", "stop"} /\ asked \subseteq Failures
    /\ shown \in [text: [Kinds -> Nat], open: SUBSET Kinds,
                   calls: SUBSET (Nat \X Indexes), closed: SUBSET (Nat \X Indexes)]

\* Wherever an attempt ends, by a response, a failure or a cancellation, the
\* host is left with no open text or thinking block, the LLM span is ended, and
\* what the host was shown of text and reasoning is in the context exactly once,
\* over all attempts.
AttemptSettled ==
    pc # "stream" => shown.open = {} /\ span = "ended" /\ context = shown.text

\* A response returns the tool calls the assembler would put together from the
\* last attempt alone: none of a failed attempt, and none that was cut off.
CallsOfLastAttempt ==
    result.kind = "response" =>
      result.calls = {i \in Indexes : Kept(asm, asm.blocks[i]) /\ asm.blocks[i].type = "tool-call"}

\* A usage is added up once for each attempt that reported it and finished,
\* and never for another attempt.
UsageCountedOnce == tokens = metered

\* Nothing of a failed attempt leaks into the response of a later one, nor
\* into what the reply is said to have used.
NothingLeaks == CallsOfLastAttempt /\ UsageCountedOnce

\* A failed call is tried again only while attempts are left, an unretryable
\* one only if the policy asked for it, and none after the policy said stop.
RetryJustified ==
    [][attempt' > attempt =>
         /\ attempt <= MaxRetries
         /\ decision # "stop"
         /\ failure = "fatal" => decision = "retry"]_vars

\* A Reasoning action comes to a result, or is cancelled.
ReasoningEnds == <>Over

-----------------------------------------------------------------------------
(* Refuted: the divergences of README.md.                                  *)

\* _execute_reasoning.py:485: the events the host gets are closed on every
\* path, those of a tool call too.
ToolCallsClosed == Over => shown.calls = shown.closed

\* PRD-C5-llm-error-hook.md:70: half output of a failed attempt is cleaned up,
\* so that a retry starts from the messages of the first attempt.
CleanRetry == messages = 0

\* PRD-C5-llm-error-hook.md:53: an aborted call is not reported to the hook.
AbortedNotReported == "aborted" \notin asked

\* PRD-C5-llm-error-hook.md:72: a cancellation is a barrier to retries: a
\* call that fails after it is not tried again.
CancellationStopsRetries ==
    [][cancellation /\ pc \in {"stream", "hook"} => pc' # "sleep"]_vars

=============================================================================
