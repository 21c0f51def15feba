------------------------------ MODULE Context ------------------------------
(***************************************************************************)
(* AgentState.context as the runner sees it (message_context.py).          *)
(*                                                                         *)
(* A context is a list of Msg, each a list of blocks.  The runner looks at *)
(* it only through four questions: which ToolCallBlocks are there, in      *)
(* which state and in which AssistantMsg, which ToolResultBlocks carry     *)
(* which call's id, and does an AssistantMsg with a given id exist.  So    *)
(* the model keeps                                                         *)
(*    calls[c]    the ToolCallBlock of tool call c: its state, the Msg     *)
(*                that holds it, the reply during which the model asked    *)
(*                for it and what the permission rules say of it,          *)
(*    results[c]  the ToolResultBlocks with c's id, in the order written:  *)
(*                the Msg each one was written to and its state,           *)
(*    assistants  the ids of the AssistantMsgs that exist.                 *)
(* Tool calls are numbered in the order in which the model produced them,  *)
(* which is the order of their blocks in the context.                      *)
(***************************************************************************)
EXTENDS Integers, Sequences, FiniteSets

CONSTANTS MaxCalls,     \* bound: tool calls the model ever makes
          MaxReplies,   \* bound: replies (reply_id) ever started
          MaxMsgs       \* bound: assistant message ids ever allocated

ASSUME ContextBounds ==
    MaxCalls \in Nat /\ MaxReplies \in Nat /\ MaxMsgs \in Nat

VARIABLES calls, results, assistants

context == <<calls, results, assistants>>

Calls   == 1..MaxCalls
Replies == 1..MaxReplies
Msgs    == 1..MaxMsgs

\* ToolCallState, with "none" for a call the model has not made.
ToolCallState == {"none", "PENDING", "ASKING", "ALLOWED", "FINISHED"}

\* ToolResultState, the members the runner writes.
ToolResultState == {"SUCCESS", "ERROR", "DENIED"}

PermissionBehavior == {"ALLOW", "ASK", "DENY"}

ToolCallBlock == [state: ToolCallState, msg: Msgs \cup {0},
                  reply: Replies \cup {0}, behavior: PermissionBehavior]

ToolResultBlock == [msg: Msgs \cup {0}, state: ToolResultState]

NoCall == [state |-> "none", msg |-> 0, reply |-> 0, behavior |-> "ASK"]

ContextTypeOK ==
    /\ calls \in [Calls -> ToolCallBlock]
    /\ results \in [Calls -> Seq(ToolResultBlock)]
    /\ assistants \subseteq Msgs \cup {0}

ContextInit ==
    /\ calls = [c \in Calls |-> NoCall]
    /\ results = [c \in Calls |-> << >>]
    /\ assistants = {}

Made == {c \in Calls : calls[c].state # "none"}

\* tool_calls_in_state of a context whose calls are cs
ToolCallsInState(cs, s) == {c \in Calls : cs[c].state = s}

\* set_tool_call_state
SetToolCallState(cs, c, s) == [cs EXCEPT ![c].state = s]

\* add_tool_result: the result is appended to the Msg the caller names, which
\* append_reply_blocks creates when there is none with that id.
AddToolResult(c, m, s) ==
    /\ results' = [results EXCEPT ![c] = Append(@, [msg |-> m, state |-> s])]
    /\ assistants' = assistants \cup {m}

\* Mutation of PendingToolCalls: calls with a result are taken for pending.
PendingEveryCall(cs) == {c \in Calls : cs[c].state # "none"}

\* ActingExecutor._pending_tool_calls_from_context: the calls anywhere in the
\* context that no ToolResultBlock answers.
PendingToolCalls(cs) == {c \in Calls : cs[c].state # "none" /\ results[c] = << >>}

\* The first call of a nonempty batch: batches are walked in block order.
First(S) == CHOOSE c \in S : \A d \in S : c <= d

=============================================================================
