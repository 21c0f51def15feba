------------------------------ MODULE Messages ------------------------------
(***************************************************************************)
(* A Msg and what becomes of it: append_event (message/_msg.py), with      *)
(* which a host rebuilds it from the events of a run; the writes of        *)
(* MessageContext (message_context.py); and the way from a context to a    *)
(* request, _msg_to_dicts, to_openai_message (message/_convert.py),        *)
(* _normalize_chat_messages (llm/wire/normalize.py) and                    *)
(* _convert_messages_to_responses_input (llm/adapters/openai_responses.py).*)
(*                                                                         *)
(* A block is a record with the same fields for every type: id, the id of  *)
(* a call or result; state, that of a call or result; said, whether it has *)
(* any text; turn, the provider call it comes from, which the code does    *)
(* not keep.  The wording of texts, arguments (a TOOL_CALL_END carries     *)
(* them whole), data blocks and token counts are left out.                 *)
(***************************************************************************)
EXTENDS Integers, SequencesExt

CONSTANT PreserveReasoning      \* a Responses adapter whose reasoning_effort is on

ASSUME MessagesAssumption == PreserveReasoning \in BOOLEAN

Block(type, id, state, said, turn) ==
    [type |-> type, id |-> id, state |-> state, said |-> said, turn |-> turn]

Text(turn)       == Block("text", turn, "-", TRUE, turn)
Thinking(turn)   == Block("thinking", turn, "-", TRUE, turn)
Hint             == Block("hint", 0, "-", TRUE, 0)
Call(c, turn)    == Block("tool_call", c, "PENDING", TRUE, turn)
Result(c, state) == Block("tool_result", c, state, TRUE, 0)

\* groups is metadata["responses_output_item_groups"]: a group is named by the
\* provider call whose output items it holds.
Msg(role, id, content) == [role |-> role, id |-> id, content |-> content, groups |-> << >>]

User == Msg("user", 0, <<Text(0)>>)

\* The elements of a list s at the positions P, in their order.
Select(s, P) == FlattenSeq([i \in DOMAIN s |-> IF i \in P THEN <<s[i]>> ELSE << >>])

-----------------------------------------------------------------------------
(* Msg.append_event.                                                       *)

\* The positions of the first block there is, if any: _find_block.
FindBlock(m, type, id) ==
    LET at == {i \in DOMAIN m.content : m.content[i].type = type /\ m.content[i].id = id}
    IN  IF at = {} THEN {} ELSE {Min(at)}

Put(m, block) == [m EXCEPT !.content = Append(@, block)]

SetState(m, at, state) ==
    [m EXCEPT !.content = [i \in DOMAIN @ |-> IF i \in at THEN [@[i] EXCEPT !.state = state] ELSE @[i]]]

Say(m, at) ==
    [m EXCEPT !.content = [i \in DOMAIN @ |-> IF i \in at THEN [@[i] EXCEPT !.said = TRUE] ELSE @[i]]]

\* MODEL_CALL_END: the output items of a call are kept as one group.
CallEnded(m, e) == IF e.items THEN [m EXCEPT !.groups = Append(@, e.turn)] ELSE m

TextEvent(m, e) ==
    IF e.type = "BLOCK_START"
      THEN Put(m, [e.block EXCEPT !.said = FALSE])
      ELSE Say(m, FindBlock(m, e.block.type, e.block.id))

ResultEvent(m, e) ==
    CASE e.type = "TOOL_RESULT_START" ->
           Put(m, Block("tool_result", e.id, "RUNNING", FALSE, 0))
      [] e.type = "TOOL_RESULT_TEXT_DELTA" -> Say(m, FindBlock(m, "tool_result", e.id))
      [] e.type = "TOOL_RESULT_END" ->
           LET result == FindBlock(m, "tool_result", e.id)
               ended  == SetState(m, result, e.state)
           IN  IF result = {} THEN m
               ELSE SetState(ended, FindBlock(m, "tool_call", e.id), "FINISHED")

ConfirmEvent(m, e) ==
    SetState(m, FindBlock(m, "tool_call", e.id),
             CASE e.type = "REQUIRE_USER_CONFIRM" -> "ASKING"
               [] e.type = "USER_CONFIRM_RESULT" -> IF e.approved THEN "ALLOWED" ELSE "FINISHED")

\* Mutation of AppendEvent: the end of a result leaves its call alone.
AppendEventUnpaired(m, e) ==
    CASE e.type = "MODEL_CALL_END" -> CallEnded(m, e)
      [] e.type \in {"BLOCK_START", "BLOCK_DELTA"} -> TextEvent(m, e)
      [] e.type = "HINT_BLOCK" -> Put(m, Hint)
      [] e.type = "TOOL_CALL_START" -> Put(m, Call(e.id, e.turn))
      [] e.type = "TOOL_RESULT_END" -> SetState(m, FindBlock(m, "tool_result", e.id), e.state)
      [] e.type \in {"TOOL_RESULT_START", "TOOL_RESULT_TEXT_DELTA"} -> ResultEvent(m, e)
      [] e.type \in {"REQUIRE_USER_CONFIRM", "USER_CONFIRM_RESULT"} -> ConfirmEvent(m, e)

\* The ends of blocks and calls only set times and arguments.
AppendEvent(m, e) ==
    CASE e.type = "MODEL_CALL_END" -> CallEnded(m, e)
      [] e.type \in {"BLOCK_START", "BLOCK_DELTA"} -> TextEvent(m, e)
      [] e.type = "HINT_BLOCK" -> Put(m, Hint)
      [] e.type = "TOOL_CALL_START" -> Put(m, Call(e.id, e.turn))
      [] e.type \in {"TOOL_RESULT_START", "TOOL_RESULT_TEXT_DELTA", "TOOL_RESULT_END"} ->
           ResultEvent(m, e)
      [] e.type \in {"REQUIRE_USER_CONFIRM", "USER_CONFIRM_RESULT"} -> ConfirmEvent(m, e)

\* One event after the other.
AppendEvents(m, events) ==
    LET after[n \in 0..Len(events)] == IF n = 0 THEN m ELSE AppendEvent(after[n - 1], events[n])
    IN  after[Len(events)]

-----------------------------------------------------------------------------
(* The writes of MessageContext, on a list of Msg.                         *)

\* append_reply_blocks: to the last AssistantMsg with the id, or a new one.
AppendReplyBlocks(ms, id, blocks) ==
    LET at == {i \in DOMAIN ms : ms[i].role = "assistant" /\ ms[i].id = id}
    IN  CASE blocks = << >> -> ms
          [] blocks # << >> /\ at = {} -> Append(ms, Msg("assistant", id, blocks))
          [] OTHER -> [ms EXCEPT ![Max(at)].content = @ \o blocks]

\* The positions of the messages that hold call c.
Owners(ms, c) == {i \in DOMAIN ms : FindBlock(ms[i], "tool_call", c) # {}}

\* set_tool_call_state
SetToolCallState(ms, c, state) ==
    IF Owners(ms, c) = {} THEN ms
    ELSE LET i == Min(Owners(ms, c))
         IN  [ms EXCEPT ![i] = SetState(@, FindBlock(@, "tool_call", c), state)]

\* All blocks of a list of Msg, in order.
Blocks(ms) == FlattenSeq([i \in DOMAIN ms |-> ms[i].content])

\* tool_calls_in_state
ToolCallsInState(ms, state) ==
    {b.id : b \in {b \in Range(Blocks(ms)) : b.type = "tool_call" /\ b.state = state}}

Answered(ms) == {b.id : b \in {b \in Range(Blocks(ms)) : b.type = "tool_result"}}

\* Mutation of PendingToolCalls: results are not looked for.
PendingEveryCall(ms) ==
    LET bs == Blocks(ms) IN Select(bs, {i \in DOMAIN bs : bs[i].type = "tool_call"})

\* _pending_tool_calls_from_context: the calls without a result, in order.
PendingToolCalls(ms) ==
    LET bs == Blocks(ms)
    IN  Select(bs, {i \in DOMAIN bs : bs[i].type = "tool_call" /\ bs[i].id \notin Answered(ms)})

-----------------------------------------------------------------------------
(* From a context to a request.                                            *)

Ids(blocks) == [i \in DOMAIN blocks |-> blocks[i].id]

\* to_openai_message of the blocks of one role: an assistant's group is added
\* by Expand, turns is history.
ToOpenAI(role, blocks) ==
    LET calls == {i \in DOMAIN blocks : blocks[i].type = "tool_call"}
        some(type) == \E i \in DOMAIN blocks : blocks[i].type = type /\ blocks[i].said
    IN  [role |-> role, text |-> some("text") \/ some("hint"), reasoning |-> some("thinking"),
         calls |-> Ids(Select(blocks, calls)), group |-> 0,
         turns |-> {blocks[i].turn : i \in DOMAIN blocks}]

ToolMessage(b) == [role |-> "tool", id |-> b.id, said |-> b.said]

\* Mutation of Flush: only a segment with a reasoning takes a group.
FlushReasoning(x, m) ==
    LET thinks == \E i \in DOMAIN x.open : x.open[i].type = "thinking"
        group == IF thinks /\ x.used < Len(m.groups) THEN m.groups[x.used + 1] ELSE 0
        written == [ToOpenAI(m.role, x.open) EXCEPT !.group = group]
    IN  IF x.open = << >> THEN x
        ELSE [out |-> Append(x.out, written), open |-> << >>, used |-> IF thinks THEN x.used + 1 ELSE x.used]

\* flush_assistant: x is the expansion so far, x.open the blocks not yet
\* written, x.used the groups given away.  A segment takes the next group.
Flush(x, m) ==
    LET group == IF x.used < Len(m.groups) THEN m.groups[x.used + 1] ELSE 0
        written == [ToOpenAI(m.role, x.open) EXCEPT !.group = group]
    IN  IF x.open = << >> THEN x
        ELSE [out |-> Append(x.out, written), open |-> << >>, used |-> x.used + 1]

\* _msg_to_dicts: results and hints cut a Msg into segments.
Expand(m) ==
    LET write(x, d) == [x EXCEPT !.out = Append(@, d)]
        take(x, b) == CASE b.type = "hint" -> write(Flush(x, m), ToOpenAI("user", <<b>>))
                        [] b.type = "tool_result" -> write(Flush(x, m), ToolMessage(b))
                        [] OTHER -> [x EXCEPT !.open = Append(@, b)]
        taken[n \in 0..Len(m.content)] ==
          IF n = 0 THEN [out |-> << >>, open |-> << >>, used |-> 0] ELSE take(taken[n - 1], m.content[n])
        whole == Flush(taken[Len(m.content)], m).out
    IN  IF whole = << >> THEN <<ToOpenAI(m.role, << >>)>> ELSE whole

\* get_messages, the system prompt apart.
GetMessages(ms) == FlattenSeq([i \in DOMAIN ms |-> Expand(ms[i])])

\* The tool messages directly after position i.
Following(ds, i) ==
    {j \in (i + 1)..Len(ds) : \A k \in (i + 1)..j : ds[k].role = "tool"}

\* Mutation of Paired: more results than calls are let through.
PairedAtLeast(ds, i) ==
    /\ ds[i].role = "assistant" /\ ds[i].calls # << >>
    /\ Range(ds[i].calls) \subseteq {ds[j].id : j \in Following(ds, i)}

\* An assistant message whose calls are distinct and followed by exactly one
\* result each.
Paired(ds, i) ==
    /\ ds[i].role = "assistant" /\ ds[i].calls # << >>
    /\ IsInjective(ds[i].calls)
    /\ Cardinality(Following(ds, i)) = Len(ds[i].calls)
    /\ {ds[j].id : j \in Following(ds, i)} = Range(ds[i].calls)

HasPayload(d) == d.text \/ (PreserveReasoning /\ d.reasoning)

\* _normalize_chat_messages: results without their calls are dropped, calls
\* without their results are stripped, and an assistant message nothing is
\* left of is dropped.
Normalize(ds) ==
    LET paired == {i \in DOMAIN ds : Paired(ds, i)}
        keeps(i) == CASE ds[i].role = "user" -> TRUE
                      [] ds[i].role = "tool" -> \E j \in paired : i \in Following(ds, j)
                      [] OTHER -> i \in paired \/ HasPayload(ds[i])
        strip(i) == IF ds[i].role = "assistant" /\ i \notin paired
                      THEN [ds[i] EXCEPT !.calls = << >>] ELSE ds[i]
    IN  FlattenSeq([i \in DOMAIN ds |-> IF keeps(i) THEN <<strip(i)>> ELSE << >>])

\* The messages of a request, after which a Responses adapter converts them.
Request(ms) == Normalize(GetMessages(ms))

\* The items one message becomes: the output items of its group are replayed
\* only with a reasoning text.
ResponsesItems(d) ==
    CASE d.role = "user" -> <<[type |-> "user"]>>
      [] d.role = "tool" -> <<[type |-> "function_call_output", id |-> d.id]>>
      [] OTHER ->
           (IF PreserveReasoning /\ d.reasoning /\ d.group # 0
              THEN <<[type |-> "reasoning", turn |-> d.group]>> ELSE << >>)
           \o (IF d.text THEN <<[type |-> "assistant"]>> ELSE << >>)
           \o [n \in DOMAIN d.calls |-> [type |-> "function_call", id |-> d.calls[n]]]

\* The input of a Responses request.
ResponsesInput(ds) == FlattenSeq([i \in DOMAIN ds |-> ResponsesItems(ds[i])])

=============================================================================
