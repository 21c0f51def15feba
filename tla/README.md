# A TLA+ model of ftre-agent-core

ftre-agent-core is the runtime of an LLM agent: a host application calls
`ReActAgent.run()`, an async generator, and iterates the events it yields while
the agent alternates between calls to a model provider (Reasoning) and batches
of tool calls (Acting), pauses for the user's permission, and resumes.

The code is single threaded where asyncio is: between two suspension points
(`await` or `yield`) nothing else runs. What makes it hard is what happens *at*
the suspension points: the host may start or resume a run, answer a
confirmation, cancel, set its cancellation event, stop iterating, persist the
context or die; several tool tasks and worker threads are under way; hooks of
the host answer, raise or swallow cancellations. The models take one action per
segment of code between two suspension points.

## 1. Inventory

| Component | Source (under `src/src/ftre_agent_core/`) | State | Operations | Hard behaviour | What makes it correct |
|---|---|---|---|---|---|
| runner | `agent/runner/react_runner.py`, `_state.py`, `types.py` | `RunState`, the run lock `_run_task` | `run` (new reply, resume), `decide`, `_loop`, `cancel_nowait` | overlapping runs, cancellation at each await, dropped generators, pause and resume in another process | one run at a time, a reply ends once with the right reason, a paused agent can be resumed, runs end |
| acting | `agent/runner/_execute_acting.py` | the batch of calls, in the context | preflight, ask, execute, `resume_execute`, exit with stop hook | half-answered batches, stale answers, results in the right message | no tool without consent, at most once, calls and results pair up |
| reasoning | `agent/runner/_execute_reasoning.py` | attempt, collectors, span, result | stream, retry, error hook | failed attempts leaking into the next, cancellation at stream, hook and back-off | what was shown is remembered once, retries justified, nothing left open |
| tool handler | `agent/runner/tool_handler.py` | asyncio tasks of a batch | `spawn`, `run_one`, `gather_results` | tasks, hooks and threads cut short by a cancellation | hooks pair up, calls are answered, nothing outlives the batch |
| context | `message_context.py`, `message/_block.py` | messages, call states, results | append, set state, add result | it is the only state that survives a crash | owner of a result, pairing |
| permission | `permission/` | rules, default behaviour | `evaluate` | conflicting and changing rules | order does not matter, DENY never allows |
| cancellation token | `tool/cancellation.py` | event, lock, callbacks, reason | `cancel`, `on_cancel`, unregister, `raise_if_cancelled` | real threads | a callback is called once, one reason, no lost callback, no deadlock |
| block assembler | `llm/block_assembler.py` | open and finished blocks | `feed`, `validate`, `blocks` | interleaved blocks, broken streams | content stays with its block, violations are refused |
| llm adapters | `llm/base.py`, `llm/adapters/`, `llm/registry.py` | cancel flag and active stream of the adapter object; accumulators of a stream | `stream`, `cancel`, the choice by API type | parts of a call in any order, cancellation at any point, provider errors, several streams on one object | the chunk protocol is kept, no delta is lost, `cancel()` breaks off the stream it is meant for |
| message conversion and wire normalisation | `message_context.py`, `message/_convert.py`, `llm/wire/normalize.py`, `llm/adapters/openai_responses.py` | none | expansion of a message to provider messages, `_normalize_chat_messages`, conversion to Responses input | orphaned calls and results, hints and steering between them | every call of a request has its result right after it, no result gets lost |
| message projection | `message/_msg.py` | a host's copy of a message | `append_event` | failed attempts, pauses, rotating messages, crashes in between | an agent that gets the copy goes on as with the context |
| tracing | `tracing.py` | spans | `start_run`, `child`, `end` | each path of a run closes its spans in another handler | spans are closed, a pause keeps the root open |
| hooks, tools, events, facade | `hooks.py`, `tool/`, `event/`, `agent/react.py` | tables | – | – | – |

Interaction: the host drives `run()`; `run()` drives the executors, which share
`RunState` and the context; the reasoning executor pulls an adapter's stream
and feeds a block assembler; the acting executor asks the permission engine and
hands the calls to the tool handler, whose tasks run hooks and tools; both write
to the context, from which the next request is made; a running tool sees a
cancellation token; the host reaches in through `cancel_nowait()`, the
cancellation event of `runtime_context`, and hooks, and rebuilds the context's
messages from the events it is sent.

## 2. Plan

Done, in this order: the runner with acting and context (`ReActRunner`), its
abstract specification (`ReplyLifecycle`), consent and the lock with proofs;
the cancellation token and the permission engine with proofs; the tool handler
and the reasoning executor; the adapters, several streams on one object included
(`Adapters`), with a proof; messages from the context to the request, and the
host's copy of them across a crash (`Messages`, `Conversation`); the theorems about
replies, the tool handler, the reasoning executor, the assembler, the adapters and
the conversation (section 5).

Next:

1. Two streams of one adapter at a time (two runs of agents that share one).
2. Tool calls with equal ids, in `Context` and in `Conversation`.
3. Proofs: `CopyFaithful` and `AnsweredCallsSent`, which need the effect of every write on
   the request, not only on the calls and results there are.

## 3. Modules

`ReActRunner` EXTENDS `Context` and `Decision` and refines `ReplyLifecycle`;
`ReasoningStream` and `AdapterBase` EXTEND `BlockAssembler`; the two adapters EXTEND
`AdapterBase`, and `Adapters` composes them as instances; `Conversation` EXTENDS
`Messages`; the others stand alone. An `MC` module adds what only TLC needs
(symmetry, functions as constants); the other modules are checked as they are. Operators named "mutation
of" are faulty variants of the definition after them, used to see that a
property notices the fault. A module `X_proofs` has the theorems about X;
`Adapters_proofs` EXTENDS that of the assembler. Lists are filtered and folded with
`Pick`, `Select` and recursive functions (`AppendEvents`, `Expand`) rather than `SelectSeq` and
`FoldLeft`, which are recursive operators, and about those nothing can be proved.

### Context, Decision, ReActRunner

`Context` is the conversation reduced to its tool calls: `calls[c]` has the reply
and message that made call c, what the rules say of it, and its `ToolCallState`;
`results[c]` lists the results recorded for it, each with its state and the
message it was written to. `Decision` is `RunState` and the pure function `decide()`.
`ReActRunner` has the generators: `run[r].pc` is the suspension point of generator
r (its header lists them), next to the locals that survive it.

| Actions | Code |
|---|---|
| `NewReply`, `Begin` | `_prepare_new_reply`, the first event, the start of `_loop` |
| `Confirm`, `ConfirmConflict`, `Resume` | `_accept_confirmation`, an answer that conflicts, `resume_execute` |
| `HookReturns`, `LLMReturns` | before-reasoning hook, one Reasoning action, then `decide` and the next executor |
| `ToolsDone`, `ToolsCancelled`, `NextResult`, `BatchDone` | the two gathers, one result written and yielded at a time, the end of the batch |
| `NextAsk`, `Pause`, `NextDenied` | the confirmation requests of a batch, the pause, the DENIED results |
| `StopTurn`, `ContinueTurn`, `AfterHint` | the exit executor and its stop hook |
| `CancelDelivered`, `HookRaises`, `Return` | the `except` and `finally` blocks |
| `CancelNowait`, `SetCancellation`, `HostCheckpoint`, `Crash`, `Abandon`, `CloseOrphan`, `HostTaskEnds` | the host; a crash keeps the context and loses everything else |

What the host does is the constant `Host`, a set of behaviours, so that a run says
which of them its properties stand. Abstractions: the wording and content of
messages; the attempts of one Reasoning action are one step (`ReasoningStream` has
them), and so are the hooks around one tool (`ToolHandler` has them); partial text
of a cancelled call does not matter here. The hint events a tool may return are
part of the last result. `cancel_nowait()` acts on a task that awaits inside the
generator; at a yield the host has control and dropping the generator is
`Abandon`. A task that cancels itself while it iterates is not modelled. A new reply
that `_prepare_new_reply` refuses changes nothing and is no step. Each run has a
fresh `runtime_context`, hence a fresh `continuation_count`.

### ToolHandler

One batch. `task[c]` is where the task of the call at position c is (created,
before hook, tool, after hook, done), `cancel[c]` an undelivered `Task.cancel()`,
`thread[c]` the worker thread of a sync tool, `gatherer` the gather of the task of
`run()`. Actions follow `_run_one_traced` and `run_one` segment by segment; `CancelRun`,
`GatherCancelled` and `Collect` are `gather_results`, with asyncio's rule that
`gather()` passes a cancellation on and raises it when all its children are done.
`WriteResults` is the recording loop of `_execute_calls` in one step.

### BlockAssembler, the adapters, ReasoningStream

The assembler is a record; `Legal`, `Feed`, `Valid` and `Blocks` are its methods.

`AdapterBase` has what the two `stream()` methods share, and the consumer:
`cancelled` and `active` are the adapter object's and outlive a stream; `items`
(what is known of the provider's items), `blockOf` (the block indexes given out),
`usage` and `finish_reason` belong to one stream; `asm` is the consumer's assembler,
fed with each chunk as it is yielded. `Created`, `LoopEnds`, `Fails`, `TaskCancelled`
and `Cancel` are the response, the end of the loop, a provider error, a
CancelledError and `cancel()`; each stream leaves through the finally block (`Over`).
`CompletionsAdapter` adds the items of a chat completion (a text or reasoning
delta; a tool call delta with or without index, id, name, arguments; usage; finish
reason) and the tail after the loop; `ResponsesAdapter` the events of the Responses
API, which, if `Conformant`, keep the order that API promises. `AnyAdapter` sends any
chunks at all and keeps the list of them beside the assembler: the protocol is
stated on that list, independently of the assembler's bookkeeping. `Adapters` is the
registry: the variable `api` says which of the three is used. One stream of an
adapter is open at a time: a dropped generator is finalised before the next call.

`ReasoningStream` takes any stream of chunks, the illegal ones included. `shown` is
what the host saw, `context` what was appended to the message, `messages` how much
of the failed attempts' output the next attempt sends. Yields are not steps
(the stream is pulled to the end; dropped generators are in `ReActRunner`). Every
block-end carries its block, as both adapters send it. A failure is retryable or
not, or an aborted finish. Tool calls are named by their block index.

### Messages, Conversation

`Messages` has no state: a message is a list of blocks with their type, id and state
and whether they have text; `AppendEvent` is `Msg.append_event`; `AppendReplyBlocks`,
`SetToolCallState` and `PendingToolCalls` are the context's; `Expand`, `Normalize` and
`ResponsesInput` the way to a request. `turn`, the provider call a block comes from,
is not in the code; properties need it.

`Conversation` holds the context and the host's copy side by side. The actions are
those of `ReActRunner` seen from the context: what is written, and which events the
copy gets, in which order. Where the runner decides, chance does.

| Actions | Code |
|---|---|
| `NewReply`, `Reason` | `_prepare_new_reply`; the messages a before-reasoning hook injects, after which `message_id` rotates |
| `Speak`, `CallStarts`, `CallEnds`, `Finish`, `Fail` | the chunks of an attempt, what of it is stored, and MODEL_CALL_END |
| `Execute`, `AskAbout`, `PassOver`, `Ask`, `Confirm` | the three ways of a batch, its requests, an answer |
| `WriteResult`, `WriteHint`, `WriteDenied`, `BatchEnds`, `BatchCancelled` | `_execute_calls` and `resume_execute`, one result or hint at a time |
| `ContinueTurn`, `GiveUp`, `ReplyEnds` | the exit executor |
| `Crash`, `CrashInResult` | the process dies and a new agent gets the host's copy; also between two events of one result |

The constant `Host` says when the host opens a message: at its first block, or at
REPLY_START only, as the documentation shows it. `odd` collects what has happened
that costs something (a batch passed over, calls announced but not stored, ...): a
property that does not survive one of these says so, and section 7 has the
divergence. `UserConfirmResultEvent` has no message id; the host applies it to the
message of the call.

### PermissionEngine, CancellationToken

`Evaluate` is `PermissionEngine.evaluate`; regular expressions are an arbitrary
relation (`Fullmatch`, with a set of `Invalid` patterns) on the text of arguments,
so nothing depends on a syntax. The host may add rules and switch them.
`CancellationToken` has one step per lock acquisition and per access outside the
lock; threads cancel, register, unregister and observe, and a callback may use
the token it is called by.

## 4. Runs

| Run | Instance | Shows |
|---|---|---|
| RunnerProtocol | two generators, two replies, three messages, batches of two, two iterations; a host that follows the protocol, cancels and checkpoints; fair | type, pairing before each provider call, mutual exclusion, resumable pause, iteration budget, cancelled runs end INTERRUPTED, every run ends or pauses, `ReplyLifecycle` is implemented |
| RunnerFaults | the same with DENY rules, three calls, a crash | at-most-once, results in the message that owns the call, a single end, no tool after the end: all of it with a crash between any two steps. Executions are counted per process: a tool whose result was not recorded before a crash is run again, and only its answer is not given twice |
| RunnerHostile | answers at any time, twice, contradictory; dropped generators, checkpoints, a cancellation, a crash (2,874,676 states) | the inductive invariant of the proof, which contains consent |
| Token | two cancelling, three registering, one observing thread | the inductive invariant of the proof, and that a registered callback is called |
| Permission | two rules over two tools, one argument, a valid and an invalid pattern, two priorities | a decision is the one the rules justify, in any order; a DENY rule added or switched on never allows |
| ToolBatch | a sync tool, an asynchronous one, a malformed call; two cancellations; fair tasks | the batch's safety and liveness |
| Adapters | an adapter object used for two streams of up to three completion items, or five Responses events, over three blocks, with failures and `cancel()` anywhere, the Responses events in the order that API promises; or one stream of up to six chunks of any kind | the assembler against the protocol, the adapters against the assembler but for the ends of calls, `cancel()` against its stream |
| Stream | two attempts of up to four chunks over two blocks; fair | the reasoning executor's safety and that it ends |
| Conversation | two calls, two provider calls, two user messages, a hint, a crash (352,234 states) | requests are well formed, results reach the provider, the copy stands in for the context, a pause and a batch survive a crash |
| DenyUnpaired, ResumeIgnoresLock, MixedResume | small instances | the first three divergences of section 7 |

Why the bounds are enough: two generators are the least that overlap, and the
lock concerns pairs; two replies and three messages let a result go to a wrong
message and a reply follow another; batches of two mix every pair of rule
answers; two iterations let a retry, a continuation and the forced finalization
meet the limit. Three provider items suffice for arguments, id and name in any
order, and five Responses events for two interleaved calls and a completion; six
chunks for two interleaved blocks with a delta and a finish; what one stream
leaves behind shows in the next one, so two streams do (and the theorem covers
any number). Two calls make the smallest batch whose results a hint can separate;
two provider calls and two user messages the smallest reply with two messages.
Two rules suffice for every conflict; the theorems cover lists of any length.
Call ids are unique in `Context` and `Conversation`. No run checks deadlock: each system may stop when its bound or its work
is used up; that it does not stop too early is what the liveness properties say.

Fairness. `ReActRunner`: weak fairness of each generator's steps: the event loop
serves every ready task, and providers, hooks and tools answer (the adapters have
a timeout); nothing is assumed of the host, which need not answer, cancel or
start anything. `ToolHandler`: weak fairness of each task and of the gatherer, none
of the worker threads: `BatchEnds` assumes in its statement that threads end,
`CancelledBatchEnds` does not need it. `CancellationToken`: a fair thread scheduler.
`ReasoningStream`: the provider's stream goes on or fails (client timeout), hooks
answer. The bound on chunks stands for a finite stream.

## 5. Proofs

All theorems hold for every value of the constants that meets the named
assumptions of the modules; none depends on the bounds of the runs.

* `ReActRunner_proofs!TypeCorrect`: `TypeOK`, with one lemma per building block
  (the segments several handlers run before they suspend), one for the host's
  steps and one for the generators'.
* `ReActRunner_proofs!ConsentHolds`: no tool runs without consent, for every host, the
  one that answers twice, late or contradictorily, drops generators or crashes.
  `Consent` is not inductive: a late answer could allow a call that already runs,
  or a second request could be made for it. `ConsentInv` adds: a call is ALLOWED
  only after the user said yes; a call that is asked about, or is about to be,
  is one the rules leave to the user and has not run; no two runs walk through
  the same requests. `ConsentFrame` isolates what these conjuncts read, so that the
  many steps that do not touch it need one lemma; five steps (ask, answer,
  batch, spawn, host checkpoint) are argued one by one.
* `ReActRunner_proofs!LockHolds`, `RunsExclude`: mutual exclusion, assuming
  `FollowsProtocol` (the host neither answers while a run is in flight nor drops a
  generator). The strengthening says that the task of a run in flight is not
  done, which is what `_prepare_new_reply` tests. Without the assumption the theorem
  is false (ResumeIgnoresLock, OrphanReleasesLock).
* `ReActRunner_proofs!IterationsBounded`: `IterationBudget`, for every host. `Paid` says
  who pays for the calls beyond `max_iterations`: each is matched by a retry
  counted in `empty_retries`, or by the one forced finalization.
* The replies, in the second half of `ReActRunner_proofs`, for a host with
  `FollowsProtocol`: each step of the run in flight is
  of one of eight kinds (`StepEffect`: it ends its reply, goes on in its loop,
  answers a call, denies one, starts a batch, asks, gathers again, leaves), and
  four invariants build on the kinds and on one another.
  `ReplyInv` ties the run to the reply of `RunState` and the open calls (asked about,
  or answered by the user and not yet by a result) to that reply and one
  message; `RepliesEndOnce` and `CancelIsInterrupt` follow.
  `PairedInv`: outside of a resume and of the requests, the only calls of the reply
  without a result are those the batch in hand will answer; hence
  `ProviderSeesAnswers`, if the rules deny nothing (DenyUnpaired).
  `PauseInv`: a run at work has the status RUNNING and an open span, and with none at
  work every unended reply has an open call; hence `PausedCanResume` and
  `ImplementsLifecycle`, step by step: every behaviour of the runner is one of
  `ReplyLifecycle` but for its fairness. Both are about one process: a crash resets
  the status and keeps the calls.
  `ExecInv`: a call that was started and has no result is in the hands of the run in
  flight, which neither starts it again nor writes to another message than its
  own; hence `ToolsRunOnce`, `ResultsInOwner` and `EndedRunsNoTool`, with crashes, but at
  most one cancellation per run (section 7, last paragraph).
* `ToolHandler_proofs`: for any batch. What is known of a call at each place its task
  can be (`CallInv`), of its thread (`ToolInv`) and of the gathering task (`GatherInv`) gives
  `InvokedOnceIfLet`, `HooksAndSpansPaired`, `EveryCallAnswered` and, for calls with
  distinct ids (RepeatedId), `NothingOutlivesBatch`.
* `ReasoningStream_proofs`: for any stream and number of attempts. While a stream is
  read, what the host was shown is in the context but for the parts of this
  attempt (`ShownInv`), and the collectors hold what the assembler finished in it
  (`CollectedInv`, over the lemmas of `BlockAssembler_proofs`); hence `AttemptSettled`,
  `NothingLeaks` and the action property `RetryJustified`.
* `CancellationToken_proofs`: `TokenInv` (one thread inside the lock region, the
  reason recorded before the event, a registered callback is called by exactly
  the cancelling thread that copied it), and from it `CalledOnce`, `OneReason` and
  `UnregisteredNotCalled`.
* `Adapters_proofs!CancelIsHeard`: `CancelReaches`, whichever adapter, whatever the
  provider sends, over any number of streams. A stream may start only if the one
  before left the flag clear, so `CancelInv` says in which state every exit leaves
  the adapter (the finally block), and that while a response is read the adapter
  knows it unless it has been cancelled.
* `Adapters_proofs!ProtocolIsEnforced`: `ProtocolEnforced`, for chunk lists of any length.
  The protocol is stated on the list, which the assembler has forgotten; `Remembers`
  says what its counter, its open blocks and its finish mean on the list. With
  it `LegalIsProper` (the next chunk is legal exactly if the list still follows the
  protocol with it) and `FeedRemembers` are the induction step.
* `Adapters_proofs!BlocksAreAssembled`: `BlocksAssembled`, for any chunks. `Assembled` says of
  every block, open or ended, what the list of chunks says of it; `PickAppend` says
  what one more chunk does to the deltas of a block, and because they are
  compared per block no order between blocks matters. Assumption `Gapless`: the block
  indexes are 0..n-1, as the code allots them.
* `Adapters_proofs!ProtocolIsKept`, `ValidMeansClosed`, `NothingIsLost`: the two adapters against
  the assembler, for any number of streams and items. `StreamOK` relates the block
  indexes given out to what the assembler has open, and `Emit` (a start if the block is
  new, and a delta) keeps it; over it `CompletionsStream` and `ResponsesStream` say for
  each adapter which blocks an item has, and `TextsKept` that a block holds its item's
  deltas; `TailYields` is the tail after the loop, which ends what is open but calls.
  `ProtocolKept` is PRD-B2:135-138 without the ends of calls: no chunk is refused, a stream
  has a finish unless its task was cancelled, and one that finishes normally has only
  calls left open (`OnlyCallsOpen`). A call is not always ended (UnclosedCall): a chat call
  that never gets a name, or a Responses call that is never done; the assembler then refuses
  the response, which is what `ValidMeansClosed` says of it.
  Assumption `Provided`: there are as many indexes as items, or item ids, a stream may
  have (the code's are not bounded), and the provider of the Responses API, and it alone,
  keeps the order that API promises (`Conformant`); GatewayWithoutIds refutes `ProtocolKept` without
  the latter.
* `Conversation_proofs`: for any bounds and, but for the last theorem and its invariant, both kinds of host.
  `RequestIsWellFormed` has two halves. `NormalizePairs`: `Normalize` makes of *any* list of
  messages one in which each call is followed by its result, one each, and no other
  result is left. `PairedIsWellLaid`: the Responses input of such a list keeps the pairs
  if no call id is there twice. That second hypothesis is about the state, and
  needs the inductive invariant `ConvInv`: in the context and in the copy each call and
  each result is there once (`Once`), what the copy has answered the context has,
  and the calls a run is about to store or to answer are not there yet. Every write is
  shown to add a known set of ids, if any (`Adds` for one message, `Grown` for a
  list), so that an action's proof says which ids it adds and why they are new.
  `NobodyAnsweredTwice` follows from it too: a resumption settles exactly the calls without
  a result (`PendingUnsettled`), and a copy cut off in the middle of a result has only its
  start, which counts as one. It rests on what the provider is assumed to do: a
  call's id is one nothing is known of (`Made`).
  `PausedReplySurvives`: `PauseSurvives`, for a host that opens a message at its first
  block (`Host = "first block"`, the host of the run Conversation). The other host has no
  message for the blocks after a steering hint, and SteeredSnapshot shows what it loses.
  `AskedInv` relates the two lists at every moment, not only when suspended: they ask about
  the same calls, and each call of the context is in the message of the copy
  under the id an answer will be sent to (`Located`). A request is applied to the
  message of the run, an answer to the message of the call, so both must find the call
  (`Home`); while tools run nothing is asked about, and the events of a result ask about
  nothing (`Quiet`).
* `PermissionEngine_proofs`: a decision exists and is explained; it does not depend
  on the order of rules; a DENY rule added or switched on (`MoreDeny`) never allows. The
  highest priority is found with the well-founded order on its negation.

`Consent`, `CalledOnce` and `OneReason` are conjuncts of, or follow from, the invariants
that the runs RunnerHostile and Token check. `ConvInv`, `ReplyInv`, `PairedInv`, `AskedInv`, `PauseInv` and `ExecInv`
were checked on the instances of Conversation, RunnerProtocol and RunnerFaults
before they were proved; TLC refutes `AtMostOnce` and `ExecutedResultInOwner` of a host that
cancels twice.

Model-checked only:

* liveness and fairness (`RunsEnd`, `RefinesLifecycle` as a whole, `RegisteredIsCalled`,
  `CancelledBatchEnds`, `BatchEnds`, `ReasoningEnds`), out of the prover's reach;
* `AnsweredCallsSent`, `CopyFaithful` and `GroupsFollowSegments` of `Conversation`: they
  compare what two lists of messages are expanded to, block for block, while
  `ConvInv` only knows which ids there are and `AskedInv` where the calls are.

## 6. Not modelled

Hooks, tools, events and the facade have no control state: payloads, schema
generation, a dictionary of tools, data classes, configuration. Of tracing the
modules have when spans open and close, not what they hold; the exporters write
files. `ToolHandler.drain` and `OpenAIAdapterBase._emit_with_failure_boundary` have no
caller. Left out as data: request parameters, data blocks, names and arguments,
the wording of texts and errors, token sums, times, the replay of reasoning text
for DeepSeek, call ids inside Responses deltas, old metadata formats,
`from_openai_message`. Left out as behaviour: the branches on
`state.is_cancelled` in the tool handler and the reasoning executor, which one run
cannot reach (its status is CANCELLED only once it has left them); injection of
`runtime_context` into tools, the host's own replacement of the stream by the `llm/stream` hook, two streams
of one adapter at a time, a second cancellation while results are written, and call
ids a provider uses again (but for RepeatedId of section 7).

## 7. Divergences

While modelling, TLC refuted these statements of the code's comments and docs.
The first three are runs of `PROJECT.json`; the others are reproduced by checking
the cfg named in the same way, `tlc -config X.cfg M.tla` with the module in
brackets. A cfg whose name ends in Divergences holds several of them, and TLC
stops at the first unless it is given `-continue`.

| cfg | Property | The code | says otherwise |
|---|---|---|---|
| DenyUnpaired [MCReActRunner] | `PairedBeforeReasoning` | a batch with DENY and no ASK is neither paused nor answered; the provider is called with unanswered calls (`react_runner.py:665`) | `_execute_acting.py:129` |
| ResumeIgnoresLock [MCReActRunner] | `MutualExclusion` | the resume path takes the lock without a look (`react_runner.py:316`) | `react_runner.py:29` |
| MixedResume [Conversation] | `SettledBatchSent` | a resumed batch writes the hints of its allowed tools before the results of its denied calls; the request then drops all of them (`_execute_acting.py:175`) | `_execute_acting.py:355-358` |
| UnclosedCall [Adapters] | `EveryBlockEnds` | a chat call that never gets a name, or a Responses call that is never done, has a block-start and no block-end in a stream that finishes normally (`openai_completions.py:245`); a stream that fails leaves any block open | PRD-B2:135 |
| OrphanReleasesLock [MCReActRunner] | `MutualExclusion` | the `finally` of a dropped generator clears the lock of a newer run (`react_runner.py:381`) | `react_runner.py:29` |
| CancelWhileResuming [MCReActRunner] | `CancelInterrupts` | a cancellation among the tools of a resumed run ends the reply with ERROR (`react_runner.py:352`) | `react_runner.py:25`, `_execute_acting.py:383` |
| RetryAfterCancel [ReasoningStream] | `CancellationStopsRetries` | a failure after the cancellation event is retried (`_execute_reasoning.py:563`) | `_execute_reasoning.py:556`, PRD-C5:72 |
| RunnerDivergences [MCReActRunner] | `IterationLimit` | empty responses are retried, and a finalization forced, beyond `max_iterations` (`react_runner.py:164`) | `react_runner.py:599` |
| RunnerDivergences [MCReActRunner] | `DeniedOnlyIfRefused` | an ALLOW call of a suspended batch is answered DENIED (`_execute_acting.py:168`) | `_execute_acting.py:156` |
| ResultInOtherMsg [MCReActRunner] | `ResultInOwner` | calls left over in an earlier message are answered in the message of the confirmed one (`_execute_acting.py:181`) | `message_context.py:208` |
| ToolDivergences [MCToolHandler] | `CancelledNotSuccess` | a cancelled tool is recorded and reported SUCCESS (`_execute_acting.py:329`) | `docs/09-cancellation.md:51-57` |
| ToolDivergences [MCToolHandler] | `FailedNotSuccess` | an exception without a message is recorded SUCCESS (`tool_handler.py:186`) | `tool_handler.py:104` |
| RepeatedId [MCToolHandler] | `NothingOutlivesBatch` | of two calls with one id the first is not gathered (`_execute_acting.py:295`) | `_execute_acting.py:302` |
| AdapterDivergences [Adapters] | `CancelledIsAborted` | a stream broken off by `cancel()` finishes as a complete one, or as an unknown error (`openai_completions.py:169`) | `base.py:114`, `openai_completions.py:318` |
| AdapterDivergences [Adapters] | `WireIsAuthority` | the block a block-end carries is dropped for the deltas (`block_assembler.py:205`) | `block_assembler.py:194` |
| GatewayWithoutIds [Adapters] | `ProtocolKept` | items of a gateway that sends no item ids are one item, whose deltas the assembler refuses (`openai_responses.py:184`) | PRD-B2:136 |
| ReasoningDivergences [ReasoningStream] | `ToolCallsClosed` | a tool call announced by a failed or cancelled attempt is never closed (`_execute_reasoning.py:515`) | `_execute_reasoning.py:485` |
| ReasoningDivergences [ReasoningStream] | `CleanRetry` | a retry sends the failed attempt's partial text (`_execute_reasoning.py:595`) | `_execute_reasoning.py:596`, PRD-C5:70 |
| ReasoningDivergences [ReasoningStream] | `AbortedNotReported` | an aborted finish is reported to the error hook and retried (`_execute_reasoning.py:364`) | PRD-C5:53 |
| SteeredSnapshot [Conversation] | `SnapshotComplete` | a reply goes on in a new message without a second REPLY_START: a host that opens messages there loses the rest (`react_runner.py:648`) | `docs/08-events.md:59-80` |
| ConversationDivergences [Conversation] | `CopyAlwaysFaithful` | calls of a failed or truncated attempt stay in the copy (`_execute_reasoning.py:428`) | `docs/08-events.md:79` |
| ConversationDivergences [Conversation] | `GroupsAlwaysFollow` | a provider call without output items, or without a segment, shifts the groups of all later ones (`message_context.py`, `_msg_to_dicts`) | `_msg.py:222-226` |
| ConversationDivergences [Conversation] | `ResultsHaveText` | a result without text is stored with a default the copy is not told of (`_execute_acting.py:328`) | `_execute_acting.py:193-194` |

Met on the way, without a statement that says otherwise: a Responses stream that
is cut after a completed call finishes as tool-calls, and response.incomplete and
response.failed are not looked at (`openai_responses.py:216`); a call left
unanswered and answered in another message later makes the request drop the
results of that whole batch; a generator dropped inside a provider call leaves
the span of the call open; a second cancellation of a resumed run leaves a call the
user allowed ALLOWED and without a result, and the resume of a later reply executes
it again (`tool_handler.py:289`); `append_event` skips a `UserConfirmResultEvent` unless the
host gives it a message id.

PRD-B2 is `src/docs/prd/PRD-B2-llm-adapter.md`, `docs/` is `src/src/docs/`, PRD-C5 is `src/docs/prd/PRD-C5-llm-error-hook.md`.
