------------------------- MODULE CompletionsAdapter -------------------------
(***************************************************************************)
(* OpenAICompletionsAdapter.stream (llm/adapters/openai_completions.py):   *)
(* the deltas of one chat completion become chunks.                        *)
(*                                                                         *)
(* A chunk of the provider may hold a reasoning, a text and several tool   *)
(* call deltas and a finish reason.  The adapter takes them in that order, *)
(* so that here each is an item of its own; the only difference is that    *)
(* cancel() may also be seen between two of them.  Items are the tool calls*)
(* of the _ToolCallAccumulator, by the provider's index; blocks belong to  *)
(* <<"reasoning", 0>>, <<"text", 0>> and <<"tool-call", index>>.           *)
(***************************************************************************)
EXTENDS AdapterBase

CONSTANTS Wires,        \* indexes the provider numbers its tool calls with
          MaxItems      \* bound: items in the stream

\* The finish reasons of _FINISH_KIND_MAP, and any other.
KindOf == [stop |-> "stop", tool_calls |-> "tool-calls", length |-> "max-tokens"]

Texts == {"reasoning", "text"}

Item ==
        [type: Texts, text: Deltas]
   \cup [type: {"tool"}, index: Wires \cup {None}, id: BOOLEAN, name: BOOLEAN,
         arguments: {<< >>} \cup {<<f>> : f \in Deltas}]
   \cup [type: {"usage"}]
   \cup [type: {"finish"}, reason: DOMAIN KindOf \cup {"other"}]

-----------------------------------------------------------------------------
(* The stream.                                                             *)

\* A reasoning or text delta.
TextItem(k) ==
    /\ k.type \in Texts
    /\ Emit(<<k.type, 0>>, k.type, <<k.text>>)
    /\ UNCHANGED <<items, usage, finish_reason>>

\* The entry of a tool call once the delta k is added to it.
Entry(k, i) ==
    LET old == IF i \in DOMAIN items THEN items[i]
               ELSE [id |-> FALSE, name |-> FALSE, arguments |-> << >>, emitted |-> 0]
    IN  [old EXCEPT !.id = @ \/ k.id, !.name = @ \/ k.name, !.arguments = @ \o k.arguments]

\* Mutation of Fragment: fragments that came before the id are forgotten.
FragmentLast(entry) == <<Last(entry.arguments)>>

\* The arguments that have not been passed on yet.
Fragment(entry) == SubSeq(entry.arguments, entry.emitted + 1, Len(entry.arguments))

\* A delta without an index is a call of its own.
IndexOf(k) == IF k.index = None THEN Cardinality(DOMAIN items) ELSE k.index

\* A tool call delta: arguments are held back until the id is known.
ToolItem(k) ==
    /\ k.type = "tool"
    /\ LET i == IndexOf(k)
           entry == Entry(k, i)
           passes == entry.id /\ Len(entry.arguments) > entry.emitted
           kept == IF passes THEN [entry EXCEPT !.emitted = Len(entry.arguments)] ELSE entry
       IN  /\ items' = [j \in DOMAIN items \cup {i} |-> IF j = i THEN kept ELSE items[j]]
           /\ IF passes THEN Emit(<<"tool-call", i>>, "tool-call", Fragment(entry))
                        ELSE UNCHANGED <<blockOf, next_index, asm, refused>>
    /\ UNCHANGED <<usage, finish_reason>>

\* A usage, or the finish reason of the choice.
OtherItem(k) ==
    /\ \/ k.type = "usage" /\ usage' = TRUE /\ UNCHANGED finish_reason
       \/ k.type = "finish" /\ finish_reason' = k.reason /\ UNCHANGED usage
    /\ UNCHANGED <<items, blockOf, next_index, asm, refused>>

\* The next item, unless the cancellation is seen: the loop is left.
Receive(k) ==
    /\ pc = "stream" /\ ~cancelled
    /\ Len(received) < MaxItems
    /\ received' = Append(received, k)
    /\ TextItem(k) \/ ToolItem(k) \/ OtherItem(k)
    /\ UNCHANGED <<pc, adapterVars, asked, streams>>

-----------------------------------------------------------------------------
(* The end.                                                                *)

Started(kind, keys) == {b \in {<<kind, i>> : i \in keys} : b \in DOMAIN blockOf}

\* The calls to report.
Named == {i \in DOMAIN items : items[i].id /\ items[i].name}

\* A call without arguments has no block: looking it up is a KeyError.
Blockless == {i \in Named : <<"tool-call", i>> \notin DOMAIN blockOf}

\* Text blocks are closed, and the calls up to a KeyError.  Calls are taken in
\* the order of their indexes, which makes no difference to the assembler.
BlockEnds ==
    EndsOf(Started("reasoning", {0}), "reasoning") \o EndsOf(Started("text", {0}), "text") \o
    EndsOf(Started("tool-call", {i \in Named : \A j \in Blockless : i < j}), "tool-call")

\* The kind of the finish chunk: an unknown reason is a stop if there was any
\* output, else an error.
FinishKind ==
    IF finish_reason \in DOMAIN KindOf THEN KindOf[finish_reason]
    ELSE IF DOMAIN items # {} \/ DOMAIN blockOf # {} THEN "stop"
    ELSE "error"

\* Mutation of LastChunks: after a KeyError nothing more is yielded.
LastChunksNone ==
    IF Blockless # {} THEN << >>
    ELSE (IF usage THEN <<Usage>> ELSE << >>) \o <<FinishOf(FinishKind)>>

LastChunks ==
    IF Blockless # {} THEN <<FinishOf("error")>>
    ELSE (IF usage THEN <<Usage>> ELSE << >>) \o <<FinishOf(FinishKind)>>

CloseStream ==
    /\ pc \in {"tail", "broken"}
    /\ Yields(BlockEnds \o LastChunks)
    /\ Over("ended")

\* The steps that are this adapter's own.
Step == (\E k \in Item : Receive(k)) \/ CloseStream

-----------------------------------------------------------------------------
\* The calls the assembler is to know of are closed, unless the provider never
\* named a call it gave an id and arguments.
CallsClosed == \A i \in DOMAIN items : items[i].id /\ items[i].arguments # << >> => items[i].name

\* What the assembler put together is what the provider sent: every call with
\* an id and a name has all its arguments, those that came before its id
\* included, in their order, and so do the texts.
ArgumentsSent(w) ==
    LET mine == Pick(received, {n \in DOMAIN received : received[n].type = "tool" /\ received[n].index = w})
    IN  FlattenSeq([n \in DOMAIN mine |-> mine[n].arguments])

TextSent(t) ==
    LET mine == Pick(received, {n \in DOMAIN received : received[n].type = t})
    IN  [n \in DOMAIN mine |-> mine[n].text]

NothingLost ==
    /\ (\A n \in DOMAIN received : received[n].type = "tool" => received[n].index # None) =>
         \A w \in Named : FlattenSeq(asm.blocks[blockOf[<<"tool-call", w>>]].text) = ArgumentsSent(w)
    /\ \A t \in Texts : <<t, 0>> \in DOMAIN blockOf =>
         FlattenSeq(asm.blocks[blockOf[<<t, 0>>]].text) = TextSent(t)

=============================================================================
