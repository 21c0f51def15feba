-------------------------- MODULE ResponsesAdapter --------------------------
(***************************************************************************)
(* OpenAIResponsesAdapter.stream (llm/adapters/openai_responses.py): the   *)
(* events of one Responses stream become chunks.  items are the entries of *)
(* its dictionary of that name, whose index is in blockOf once the entry   *)
(* is started; finish_reason is finish_kind.  Call ids, names and the      *)
(* response metadata are left out; a call has an id.                       *)
(*                                                                         *)
(* The provider is as its protocol has it (Conforms), or a gateway that    *)
(* mixes items up, for instance because it sends no ids.                   *)
(***************************************************************************)
EXTENDS AdapterBase

CONSTANTS Ids,          \* item ids
          MaxEvents,    \* bound: events in the stream
          Conformant    \* the provider follows its protocol

\* Events the adapter does not know are not listed: response.incomplete and
\* response.failed among them.
Event ==
        [type: {"delta"}, kind: BlockTypes, id: Ids, text: Deltas]
   \cup [type: {"added"}, kind: {"tool-call"}, id: Ids]
   \cup [type: {"done"}, kind: BlockTypes, id: Ids]
   \cup [type: {"completed"}, status: {"completed", "incomplete", "other"}, usage: BOOLEAN]

\* An item is of one kind, is added before its deltas and done after them, once
\* each, and nothing follows the completion of the response.
Conforms(k) ==
    \A n \in DOMAIN received :
      LET e == received[n]
      IN  /\ e.type # "completed"
          /\ k.type # "completed" /\ e.id = k.id =>
               e.kind = k.kind /\ e.type # "done" /\ k.type # "added"

-----------------------------------------------------------------------------
(* The stream.                                                             *)

\* setdefault
With(k) == IF k.id \in DOMAIN items THEN items
           ELSE [i \in DOMAIN items \cup {k.id} |-> IF i = k.id THEN [kind |-> k.kind, ended |-> FALSE]
                                                    ELSE items[i]]

\* A text, reasoning or arguments delta.
DeltaEvent(k) ==
    /\ k.type = "delta"
    /\ items' = With(k)
    /\ Emit(k.id, k.kind, <<k.text>>)
    /\ UNCHANGED <<usage, finish_reason>>

\* The entry of a call gets its id and name.
AddedEvent(k) ==
    /\ k.type = "added"
    /\ items' = With(k)
    /\ UNCHANGED <<blockOf, next_index, usage, finish_reason, asm, refused>>

\* Mutation of DoneEvent: only a call that had a delta is closed.
DoneEventStarted(k) ==
    /\ k.type = "done" /\ k.kind = "tool-call"
    /\ items' = [With(k) EXCEPT ![k.id].ended = TRUE]
    /\ IF k.id \in DOMAIN blockOf
         THEN Yields(<<EndOf(blockOf[k.id], "tool-call")>>) /\ UNCHANGED <<blockOf, next_index>>
         ELSE Yields(<<StartOf(next_index, "tool-call")>>) /\ Allot(k.id)
    /\ finish_reason' = IF finish_reason = "unknown" THEN "tool-calls" ELSE finish_reason
    /\ UNCHANGED usage

\* A call is done; its block is started here if it had no arguments.
DoneEvent(k) ==
    /\ k.type = "done" /\ k.kind = "tool-call"
    /\ items' = [With(k) EXCEPT ![k.id].ended = TRUE]
    /\ IF k.id \in DOMAIN blockOf
         THEN Yields(<<EndOf(blockOf[k.id], "tool-call")>>) /\ UNCHANGED <<blockOf, next_index>>
         ELSE Yields(<<StartOf(next_index, "tool-call"), EndOf(next_index, "tool-call")>>) /\ Allot(k.id)
    /\ finish_reason' = IF finish_reason = "unknown" THEN "tool-calls" ELSE finish_reason
    /\ UNCHANGED usage

\* A text or reasoning is done: it is only kept as metadata.
OtherDone(k) ==
    /\ k.type = "done" /\ k.kind # "tool-call"
    /\ UNCHANGED <<streamVars, asm, refused>>

CompletedEvent(k) ==
    /\ k.type = "completed"
    /\ usage' = k.usage
    /\ finish_reason' = CASE k.status = "incomplete" -> "max-tokens"
                          [] k.status = "completed" /\ finish_reason # "tool-calls" -> "stop"
                          [] OTHER -> finish_reason
    /\ UNCHANGED <<items, blockOf, next_index, asm, refused>>

\* The next event, unless the cancellation is seen: the loop is left.
Receive(k) ==
    /\ pc = "stream" /\ ~cancelled
    /\ Len(received) < MaxEvents
    /\ Conformant => Conforms(k)
    /\ received' = Append(received, k)
    /\ DeltaEvent(k) \/ AddedEvent(k) \/ DoneEvent(k) \/ OtherDone(k) \/ CompletedEvent(k)
    /\ UNCHANGED <<pc, adapterVars, asked, streams>>

-----------------------------------------------------------------------------
(* The end.                                                                *)

\* Blocks of text and reasoning are closed at the end only.
BlockEnds ==
    LET open(kind) == {i \in DOMAIN items : items[i].kind = kind /\ ~items[i].ended}
    IN  EndsOf(open("text"), "text") \o EndsOf(open("reasoning"), "reasoning")

\* Whatever is not one of three is an error: a response that never completed
\* and had no call.
LastChunks ==
    (IF usage THEN <<Usage>> ELSE << >>)
    \o <<FinishOf(IF finish_reason = "unknown" THEN "error" ELSE finish_reason)>>

CloseStream ==
    /\ pc \in {"tail", "broken"}
    /\ Yields(BlockEnds \o LastChunks)
    /\ Over("ended")

\* The steps that are this adapter's own.
Step == (\E k \in Event : Receive(k)) \/ CloseStream

-----------------------------------------------------------------------------
\* Every call that had a delta was done.
CallsClosed == \A i \in DOMAIN blockOf : items[i].kind = "tool-call" => items[i].ended

\* Each block has the deltas of its item, in their order.
NothingLost ==
    \A i \in DOMAIN blockOf :
      LET deltas == Pick(received, {n \in DOMAIN received : received[n].type = "delta" /\ received[n].id = i})
          block == asm.blocks[blockOf[i]]
      IN  block = [type |-> WireType(items[i].kind), text |-> [n \in DOMAIN deltas |-> <<deltas[n].text>>]]

=============================================================================
