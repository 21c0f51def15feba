---------------------------- MODULE Conversation ----------------------------
(***************************************************************************)
(* What a run writes to AgentState.context, and the copy of it that a host *)
(* keeps by feeding the events of the run to Msg.append_event, message by  *)
(* message.  After a crash the host gives its copy to a new agent, which   *)
(* goes on from there.  The writers are ReasoningExecutor                  *)
(* (agent/runner/_execute_reasoning.py), ActingExecutor and ExitExecutor   *)
(* (agent/runner/_execute_acting.py) and the entries of ReActRunner        *)
(* (agent/runner/react_runner.py).  Which of them runs next is left to     *)
(* chance where module Decision says more: here only what they write       *)
(* matters.                                                                *)
(***************************************************************************)
EXTENDS Messages

CONSTANTS MaxCalls,     \* bound: tool calls the model ever makes
          MaxTurns,     \* bound: provider calls
          MaxUsers,     \* bound: user messages
          MaxHints,     \* bound: hints of stop hooks, and of tools
          MaxCrashes,   \* bound: crashes of the process
          Reports,      \* whether a finished call may report usage and output items
          Host          \* when the host opens a message: "first block" or "reply start"

ASSUME ConversationBounds ==
    /\ {MaxCalls, MaxTurns, MaxUsers, MaxHints, MaxCrashes} \subseteq Nat
    /\ Reports \subseteq BOOLEAN
    /\ Host \in {"first block", "reply start"}

VARIABLES
    context,        \* AgentState.context
    copy,           \* the host's messages
    pc,             \* where the run is
    message_id,     \* RunState.message_id
    attempt,        \* the provider call in progress
    todo,           \* calls the executor walks through: to ask about or to run
    denied,         \* calls a resumption answers after those
    pending_hints,  \* hints of the batch's tools
    turn, users, hints, crashes,    \* counters for the bounds
    odd             \* history: what has happened that costs something

run == <<pc, message_id, attempt, todo, denied, pending_hints>>
counters == <<turn, users, hints, crashes>>
vars == <<context, copy, run, counters, odd>>

Calls == 1..MaxCalls

\* A provider call before its first chunk.  started: the calls announced,
\* ended: those whose block has ended, in that order.
NoAttempt == [text |-> FALSE, thinking |-> FALSE, started |-> {}, ended |-> << >>]

Init ==
    /\ context = << >> /\ copy = << >>
    /\ pc = "idle" /\ message_id = 0 /\ attempt = NoAttempt
    /\ todo = << >> /\ denied = << >> /\ pending_hints = 0
    /\ turn = 0 /\ users = 0 /\ hints = 0 /\ crashes = 0
    /\ odd = {}

Opening == {"BLOCK_START", "HINT_BLOCK", "TOOL_CALL_START", "TOOL_RESULT_START"}

\* The host applies the events of one message.  It has opened the message on
\* REPLY_START, as 08-events.md:62-75 has it, or opens it when the first block
\* comes; other events of a message it does not know are lost.
Deliver(ms, id, events) ==
    LET at == {i \in DOMAIN ms : ms[i].role = "assistant" /\ ms[i].id = id}
        opens == Host = "first block" /\ \E n \in DOMAIN events : events[n].type \in Opening
    IN  CASE at # {} -> [ms EXCEPT ![Min(at)] = AppendEvents(@, events)]
          [] at = {} /\ opens -> Append(ms, AppendEvents(Msg("assistant", id, << >>), events))
          [] OTHER -> ms

Emits(events) == copy' = Deliver(copy, message_id, events)

FreshId == 1 + Max({message_id} \cup {copy[i].id : i \in DOMAIN copy})

-----------------------------------------------------------------------------
(* Replies and provider calls.                                             *)

\* run(message): refused while a call awaits an answer.
NewReply ==
    /\ pc = "idle" /\ users < MaxUsers
    /\ ToolCallsInState(context, "ASKING") = {}
    /\ message_id' = FreshId
    /\ context' = Append(context, User)
    /\ copy' = IF Host = "reply start" THEN copy \o <<User, Msg("assistant", FreshId, << >>)>>
                                       ELSE Append(copy, User)
    /\ users' = users + 1
    /\ pc' = "reason"
    /\ UNCHANGED <<attempt, todo, denied, pending_hints, turn, hints, crashes, odd>>

\* The next provider call.  A hook may inject user messages, after which the
\* reply goes on in a new message if it has one already.
Reason(steered) ==
    /\ pc = "reason" /\ turn < MaxTurns
    /\ steered => users < MaxUsers
    /\ LET has == \E i \in DOMAIN context : context[i].role = "assistant" /\ context[i].id = message_id
       IN  message_id' = IF steered /\ has THEN FreshId ELSE message_id
    /\ context' = IF steered THEN Append(context, User) ELSE context
    /\ copy' = IF steered THEN Append(copy, User) ELSE copy
    /\ users' = IF steered THEN users + 1 ELSE users
    /\ turn' = turn + 1
    /\ attempt' = NoAttempt
    /\ pc' = "stream"
    /\ UNCHANGED <<todo, denied, pending_hints, hints, crashes, odd>>

\* decide() leaves the loop instead.
GiveUp ==
    /\ pc = "reason" /\ pc' = "exit"
    /\ UNCHANGED <<context, copy, message_id, attempt, todo, denied, pending_hints, counters, odd>>

\* Chunks of a text or of a reasoning.  All its blocks are taken together and
\* before the calls, since ToOpenAI does not see their order; a response with
\* both is to a request like one with a text.
Speak(kind) ==
    /\ pc = "stream" /\ attempt = NoAttempt
    /\ LET block == IF kind = "text" THEN Text(turn) ELSE Thinking(turn)
       IN  Emits(<<[type |-> "BLOCK_START", block |-> block], [type |-> "BLOCK_DELTA", block |-> block]>>)
    /\ attempt' = [attempt EXCEPT ![kind] = TRUE]
    /\ UNCHANGED <<context, pc, message_id, todo, denied, pending_hints, counters, odd>>

\* The calls anything is known of: the provider gives every call an id of its
\* own.
Made == attempt.started
   \cup {b.id : b \in {b \in Range(Blocks(context) \o Blocks(copy)) : b.type \in {"tool_call", "tool_result"}}}

\* The first chunk of a tool call.
CallStarts ==
    /\ pc = "stream"
    /\ \E c \in Calls \ Made :
         /\ \A d \in Calls \ Made : c <= d
         /\ Emits(<<[type |-> "TOOL_CALL_START", id |-> c, turn |-> turn]>>)
         /\ attempt' = [attempt EXCEPT !.started = @ \cup {c}]
    /\ UNCHANGED <<context, pc, message_id, todo, denied, pending_hints, counters, odd>>

\* The last one.
CallEnds(c) ==
    /\ pc = "stream" /\ c \in attempt.started \ Range(attempt.ended)
    /\ attempt' = [attempt EXCEPT !.ended = Append(@, c)]
    /\ UNCHANGED <<context, copy, pc, message_id, todo, denied, pending_hints, counters, odd>>

\* What is stored of an attempt, with the given calls.
Stored(calls) ==
    (IF attempt.thinking THEN <<Thinking(turn)>> ELSE << >>) \o
    (IF attempt.text THEN <<Text(turn)>> ELSE << >>) \o
    [n \in DOMAIN calls |-> Call(calls[n], turn)]

ModelCallEnd(reported) == IF reported THEN <<[type |-> "MODEL_CALL_END", turn |-> turn, items |-> TRUE]>> ELSE << >>

\* The stream finishes and is valid.  reported: with usage and output items;
\* cut: by max-tokens, which costs it its calls.
Finish(cut, reported) ==
    /\ pc = "stream" /\ attempt.started = Range(attempt.ended)
    /\ LET calls == IF cut THEN << >> ELSE attempt.ended
       IN  /\ context' = AppendReplyBlocks(context, message_id, Stored(calls))
           /\ pc' \in CASE calls # << >> -> {"act"}
                        [] calls = << >> /\ attempt.text -> {"exit"}
                        [] OTHER -> {"reason", "exit"}
           /\ attempt' = IF calls # << >> THEN attempt ELSE NoAttempt
           /\ odd' = odd \cup (IF calls # attempt.ended THEN {"announced only"} ELSE {})
                         \cup (IF reported /\ (calls # << >> \/ attempt.text) THEN {} ELSE {"groups shift"})
    /\ Emits(ModelCallEnd(reported))
    /\ UNCHANGED <<message_id, todo, denied, pending_hints, counters>>

\* The attempt fails, or is cancelled: what it said is kept.  It is made again,
\* or the reply is over.  A stream with an open call fails after its finish.
Fail(reported) ==
    /\ pc = "stream"
    /\ reported => attempt.started # Range(attempt.ended)
    /\ context' = AppendReplyBlocks(context, message_id, Stored(<< >>))
    /\ Emits(ModelCallEnd(reported))
    /\ odd' = odd \cup (IF attempt.started # {} THEN {"announced only"} ELSE {})
                  \cup (IF reported \/ attempt # NoAttempt THEN {"groups shift"} ELSE {})
    /\ attempt' = NoAttempt
    /\ \/ pc' = "exit" /\ UNCHANGED turn
       \/ turn < MaxTurns /\ turn' = turn + 1 /\ UNCHANGED pc
    /\ UNCHANGED <<message_id, todo, denied, pending_hints, users, hints, crashes>>

-----------------------------------------------------------------------------
(* Tool calls.                                                             *)

\* stream(): all calls are allowed, ...
Execute ==
    /\ pc = "act" /\ pc' = "acting"
    /\ todo' = attempt.ended /\ attempt' = NoAttempt
    /\ UNCHANGED <<context, copy, message_id, denied, pending_hints, counters, odd>>

\* ... some are to be asked about, ...
AskAbout(asked) ==
    /\ pc = "act" /\ asked # {}
    /\ pc' = "asking"
    /\ todo' = Select(attempt.ended, {n \in DOMAIN attempt.ended : attempt.ended[n] \in asked}) /\ attempt' = NoAttempt
    /\ UNCHANGED <<context, copy, message_id, denied, pending_hints, counters, odd>>

\* ... or all the others are denied: nobody is asked and nothing is answered.
PassOver ==
    /\ pc = "act" /\ pc' = "reason"
    /\ odd' = odd \cup {"passed over"} /\ attempt' = NoAttempt
    /\ UNCHANGED <<context, copy, message_id, todo, denied, pending_hints, counters>>

\* Mutation of Ask: the request is forwarded, the context is not told.
AskUnmarked ==
    /\ pc = "asking"
    /\ Emits(<<[type |-> "REQUIRE_USER_CONFIRM", id |-> Head(todo)]>>)
    /\ todo' = Tail(todo)
    /\ pc' = IF Tail(todo) = << >> THEN "paused" ELSE pc
    /\ UNCHANGED <<context, message_id, attempt, denied, pending_hints, counters, odd>>

Ask ==
    /\ pc = "asking"
    /\ context' = SetToolCallState(context, Head(todo), "ASKING")
    /\ Emits(<<[type |-> "REQUIRE_USER_CONFIRM", id |-> Head(todo)]>>)
    /\ todo' = Tail(todo)
    /\ pc' = IF Tail(todo) = << >> THEN "paused" ELSE pc
    /\ UNCHANGED <<message_id, attempt, denied, pending_hints, counters, odd>>

\* run(UserConfirmResultEvent), which the host applies to its copy too.  The
\* last answer outstanding resumes: _accept_confirmation, resume_execute.  What
\* is settled then are the unanswered calls of all messages, and the results go
\* to the message of the answer.
Confirm(c, approved) ==
    /\ pc \in {"paused", "idle"}
    /\ Owners(context, c) # {} /\ c \notin Answered(context)
    /\ LET owner == context[Min(Owners(context, c))]
           state == owner.content[Min(FindBlock(owner, "tool_call", c))].state
           expected == IF approved THEN "ALLOWED" ELSE "FINISHED"
           confirmed == SetToolCallState(context, c, expected)
           waiting == PendingToolCalls(confirmed)
           allowed == {n \in DOMAIN waiting : waiting[n].state = "ALLOWED"}
           stray == {b \in Range(waiting) : FindBlock(owner, "tool_call", b.id) = {}}
           resumes == ToolCallsInState(confirmed, "ASKING") = {}
       IN  /\ state \in {"ASKING", expected}
           /\ context' = confirmed
           /\ copy' = Deliver(copy, owner.id, <<[type |-> "USER_CONFIRM_RESULT", id |-> c, approved |-> approved]>>)
           /\ message_id' = owner.id
           /\ pc' = IF resumes THEN "acting" ELSE "paused"
           /\ todo' = IF resumes THEN Ids(Select(waiting, allowed)) ELSE << >>
           /\ denied' = IF resumes THEN Ids(Select(waiting, DOMAIN waiting \ allowed)) ELSE << >>
           /\ odd' = IF resumes /\ stray # {} THEN odd \cup {"elsewhere"} ELSE odd
    /\ UNCHANGED <<attempt, pending_hints, counters>>

ResultEvents(c, state, text) ==
    <<[type |-> "TOOL_RESULT_START", id |-> c]>>
    \o (IF text THEN <<[type |-> "TOOL_RESULT_TEXT_DELTA", id |-> c]>> ELSE << >>)
    \o <<[type |-> "TOOL_RESULT_END", id |-> c, state |-> state]>>

Answers(c, state, text) ==
    /\ context' = AppendReplyBlocks(SetToolCallState(context, c, "FINISHED"), message_id, <<Result(c, state)>>)
    /\ Emits(ResultEvents(c, state, text))

\* _execute_calls writes the result of the next tool.  A tool may return a hint;
\* its result is empty then, and stored as a default text of which the copy is
\* not told.
WriteResult(hint) ==
    /\ pc = "acting" /\ todo # << >>
    /\ hint => hints < MaxHints
    /\ Answers(Head(todo), "SUCCESS", ~hint)
    /\ todo' = Tail(todo)
    /\ pending_hints' = IF hint THEN pending_hints + 1 ELSE pending_hints
    /\ hints' = IF hint THEN hints + 1 ELSE hints
    /\ UNCHANGED <<pc, message_id, attempt, denied, turn, users, crashes, odd>>

\* Mutation of WriteHint: a hint is written as soon as there is one.
WriteHintAtOnce ==
    /\ pc = "acting" /\ pending_hints > 0
    /\ context' = AppendReplyBlocks(context, message_id, <<Hint>>)
    /\ Emits(<<[type |-> "HINT_BLOCK"]>>)
    /\ pending_hints' = pending_hints - 1
    /\ odd' = IF denied # << >> THEN odd \cup {"hint between"} ELSE odd
    /\ UNCHANGED <<pc, message_id, attempt, todo, denied, counters>>

\* ... its hints are written after its results, but before those of denied
\* calls, ...
WriteHint ==
    /\ pc = "acting" /\ todo = << >> /\ pending_hints > 0
    /\ context' = AppendReplyBlocks(context, message_id, <<Hint>>)
    /\ Emits(<<[type |-> "HINT_BLOCK"]>>)
    /\ pending_hints' = pending_hints - 1
    /\ odd' = IF denied # << >> THEN odd \cup {"hint between"} ELSE odd
    /\ UNCHANGED <<pc, message_id, attempt, todo, denied, counters>>

\* ... which a resumption writes last.
WriteDenied ==
    /\ pc = "acting" /\ todo = << >> /\ pending_hints = 0 /\ denied # << >>
    /\ Answers(Head(denied), "DENIED", TRUE)
    /\ denied' = Tail(denied)
    /\ UNCHANGED <<pc, message_id, attempt, todo, pending_hints, counters, odd>>

BatchEnds ==
    /\ pc = "acting" /\ todo = << >> /\ pending_hints = 0 /\ denied = << >>
    /\ pc' = "reason"
    /\ UNCHANGED <<context, copy, message_id, attempt, todo, denied, pending_hints, counters, odd>>

\* The batch was cancelled: the reply ends, and denied calls stay unanswered.
BatchCancelled ==
    /\ pc = "acting" /\ todo = << >> /\ pending_hints = 0
    /\ pc' = "idle" /\ denied' = << >>
    /\ odd' = IF denied # << >> THEN odd \cup {"cut short"} ELSE odd
    /\ UNCHANGED <<context, copy, message_id, attempt, todo, pending_hints, counters>>

-----------------------------------------------------------------------------
(* Ends and crashes.                                                       *)

ReplyEnds ==
    /\ pc = "exit" /\ pc' = "idle"
    /\ UNCHANGED <<context, copy, message_id, attempt, todo, denied, pending_hints, counters, odd>>

\* A stop hook has the reply go on.
ContinueTurn ==
    /\ pc = "exit" /\ hints < MaxHints
    /\ context' = AppendReplyBlocks(context, message_id, <<Hint>>)
    /\ Emits(<<[type |-> "HINT_BLOCK"]>>)
    /\ hints' = hints + 1
    /\ pc' = "reason"
    /\ UNCHANGED <<message_id, attempt, todo, denied, pending_hints, turn, users, crashes, odd>>

\* The process dies; a new agent gets the host's messages ms.
Dies(ms) ==
    /\ crashes < MaxCrashes /\ crashes' = crashes + 1
    /\ context' = ms /\ copy' = ms
    /\ pc' = "idle" /\ message_id' = 0 /\ attempt' = NoAttempt
    /\ todo' = << >> /\ denied' = << >> /\ pending_hints' = 0
    /\ odd' = IF \/ pc \in {"act", "asking", "acting"}
                 \/ pc = "stream" /\ attempt.started # {}
                 \/ "announced only" \in odd
                THEN odd \cup {"cut short"} ELSE odd
    /\ UNCHANGED <<turn, users, hints>>

\* At any time but between provider calls and batches, where the copy says
\* what the context says.
Crash == pc \in {"stream", "act", "asking", "paused", "acting"} /\ Dies(copy)

\* It dies between two events of one result.
CrashInResult ==
    /\ pc = "acting" /\ todo # << >>
    /\ Dies(Deliver(copy, message_id, <<[type |-> "TOOL_RESULT_START", id |-> Head(todo)]>>))

Next ==
    \/ NewReply \/ GiveUp \/ ReplyEnds \/ ContinueTurn
    \/ \E steered \in BOOLEAN : Reason(steered)
    \/ \E kind \in {"text", "thinking"} : Speak(kind)
    \/ CallStarts \/ \E c \in Calls : CallEnds(c)
    \/ \E cut \in BOOLEAN, reported \in Reports : Finish(cut, reported)
    \/ \E reported \in BOOLEAN : Fail(reported)
    \/ Execute \/ PassOver \/ Ask
    \/ \E asked \in SUBSET Calls : AskAbout(asked \cap Range(attempt.ended))
    \/ \E c \in Calls, approved \in BOOLEAN : Confirm(c, approved)
    \/ \E hint \in BOOLEAN : WriteResult(hint)
    \/ WriteHint \/ WriteDenied \/ BatchEnds \/ BatchCancelled
    \/ Crash \/ CrashInResult

Spec == Init /\ [][Next]_vars

-----------------------------------------------------------------------------
(* Properties.                                                             *)

\* Each call of message i of a request is answered by the messages right after
\* it, one each.
AnsweredNext(ds, i) ==
    LET n == Len(ds[i].calls)
    IN  /\ i + n <= Len(ds)
        /\ \A j \in (i + 1)..(i + n) : ds[j].role = "tool"
        /\ \A c \in Range(ds[i].calls) : \E j \in (i + 1)..(i + n) : ds[j].id = c

ChatWellFormed(ds) ==
    /\ \A i \in DOMAIN ds : ds[i].role = "assistant" => AnsweredNext(ds, i)
    /\ \A j \in DOMAIN ds : ds[j].role = "tool" =>
         \E i \in 1..(j - 1) : /\ ds[i].role = "assistant" /\ j <= i + Len(ds[i].calls)
                               /\ ds[j].id \in Range(ds[i].calls)

\* Of every call the input of a Responses request holds one function_call and
\* later one function_call_output, with no message in between.
ResponsesWellFormed(xs) ==
    LET at(type, c) == {i \in DOMAIN xs : xs[i].type = type /\ xs[i].id = c}
    IN  \A c \in Calls :
          LET calls == at("function_call", c)
              outputs == at("function_call_output", c)
          IN  /\ Cardinality(calls) = Cardinality(outputs) /\ Cardinality(calls) <= 1
              /\ \A i \in calls, j \in outputs :
                   i < j /\ \A k \in i..j : xs[k].type \notin {"user", "assistant", "reasoning"}

\* normalize.py:47-49: whatever happened, and wherever a crash cut the reply, a
\* request pairs every call it holds with its result; both from the context
\* and from the host's copy.
RequestWellFormed ==
    \A ms \in {context, copy} :
      LET ds == Request(ms) IN ChatWellFormed(ds) /\ ResponsesWellFormed(ResponsesInput(ds))

SentResults(ms) == {d.id : d \in {d \in Range(Request(ms)) : d.role = "tool"}}

\* What a tool answered reaches the provider: no result is dropped on the way
\* from the context to the request, but after a batch that was passed over,
\* cut short by a crash or a cancellation, or resumed with a hint between its
\* results.
AnsweredCallsSent ==
    pc # "acting" /\ odd \cap {"passed over", "cut short", "hint between"} = {} =>
      SentResults(context) = Answered(context)

\* The requests two lists of messages lead to are the same, up to the order of
\* calls in one message and the wording of results.
SameRequest(xs, ys) ==
    LET a == Request(xs)  b == Request(ys)
        same(d, e) == /\ d.role = e.role
                      /\ d.role = "tool" => d.id = e.id
                      /\ d.role # "tool" => /\ d.text = e.text /\ d.reasoning = e.reasoning
                                            /\ Range(d.calls) = Range(e.calls)
    IN  Len(a) = Len(b) /\ \A i \in DOMAIN a : same(a[i], b[i])

CallStates(ms) == {<<b.id, b.state>> : b \in {b \in Range(Blocks(ms)) : b.type = "tool_call"}}

\* _msg.py:393: between two provider calls the copy says what the context says,
\* and an agent that got it would go on with the same request and the same
\* calls in the same states; but after an attempt announced calls it did not
\* store, or a resumption answered a call of another message.
CopyFaithful ==
    pc # "stream" /\ odd \cap {"announced only", "elsewhere"} = {} =>
      SameRequest(context, copy) /\ CallStates(context) = CallStates(copy)

\* _msg.py:399-401: a suspended reply can be resumed from the copy; the calls
\* that wait for an answer are the same, even if the copy has others besides.
PauseSurvives ==
    pc = "paused" => ToolCallsInState(copy, "ASKING") = ToolCallsInState(context, "ASKING")

\* No call is answered twice, by a resumption after a crash in the middle of
\* its batch neither.
AnsweredOnce ==
    \A i, j \in DOMAIN Blocks(context) :
      Blocks(context)[i].type = "tool_result" /\ Blocks(context)[j] = Blocks(context)[i] => i = j

\* _msg.py:222-224: the output items replayed with a segment are those of a
\* provider call it comes from, as long as every call reports items, has a
\* segment of its own and is stored.
GroupsFollowSegments ==
    odd \subseteq {"hint between"} =>
      \A d \in Range(GetMessages(copy)) : d.role = "assistant" => d.group \in d.turns \cup {0}

-----------------------------------------------------------------------------
(* Refuted: the divergences of README.md.                                  *)

\* _execute_acting.py:355-358: results of one batch are not separated by hints,
\* so that the request stays legal; a settled batch is sent.
SettledBatchSent ==
    pc = "reason" /\ odd \subseteq {"hint between"} => SentResults(context) = Answered(context)

Content(ms) == {<<b.type, b.id>> : b \in Range(Blocks(ms))}

\* 08-events.md:59-80: a host that opens its messages on REPLY_START, as the
\* documentation shows it, gets all texts, calls and results of the reply.
SnapshotComplete == pc = "idle" /\ odd = {} => Content(context) \subseteq Content(copy)

\* 08-events.md:79: the copy is the same after failed and truncated attempts.
CopyAlwaysFaithful == pc = "idle" => SameRequest(context, copy)

\* _execute_acting.py:193-194: results have the same text in the copy, so that
\* the provider does not receive an empty one.
ResultsHaveText == \A b \in Range(Blocks(copy)) : pc = "idle" /\ b.type = "tool_result" => b.said

\* _msg.py:222-224, without conditions.
GroupsAlwaysFollow ==
    \A d \in Range(GetMessages(copy)) : d.role = "assistant" => d.group \in d.turns \cup {0}

=============================================================================
