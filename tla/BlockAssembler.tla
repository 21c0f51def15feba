--------------------------- MODULE BlockAssembler ---------------------------
(***************************************************************************)
(* llm/block_assembler.py: the consumer side of the stream protocol.  An   *)
(* assembler is a record that Feed turns into the next one.  A chunk is a  *)
(* record whose fields other than type are meaningful for some types only: *)
(* index; block, the block type of a start or the wire type of an end; text*)
(* of a delta; wire, the content an end carries (its concatenated text);   *)
(* kind, of a finish.                                                      *)
(***************************************************************************)
EXTENDS Integers, Sequences, FiniteSets

CONSTANTS Indexes,      \* block indexes chunks use: 0..n
          Deltas,       \* texts of a delta
          None          \* no value

BlockTypes == {"text", "reasoning", "tool-call"}

WireTypes == {"text", "thinking", "tool-call"}

\* A finished block.
Block == [type: WireTypes, text: Seq(Deltas)]

ASSUME AssemblerAssumption ==
    /\ Indexes \subseteq Nat
    /\ None \notin BlockTypes \cup WireTypes \cup Block

\* The elements of a list s at the positions P, in their order.
Pick(s, P) ==
    LET picked[n \in 0..Len(s)] ==
          IF n = 0 THEN << >>
          ELSE IF n \in P THEN Append(picked[n - 1], s[n]) ELSE picked[n - 1]
    IN  picked[Len(s)]

\* _wire_type
WireType(b) == IF b = "reasoning" THEN "thinking" ELSE b

\* The type of block a delta chunk of the given type is for.
DeltaOf == [d \in {"text-delta", "reasoning-delta", "tool-call-delta"} |->
              CASE d = "text-delta" -> "text"
                [] d = "reasoning-delta" -> "reasoning"
                [] d = "tool-call-delta" -> "tool-call"]

NewAssembler ==
    [next |-> 0,                                \* _next_index
     open |-> [i \in Indexes |-> None],         \* _open: type of the open block
     text |-> [i \in Indexes |-> << >>],        \* ... and its deltas so far
     blocks |-> [i \in Indexes |-> None],       \* _blocks
     usage |-> None, finish |-> None]

\* feed() accepts the chunk; any other chunk is a STREAM_PROTOCOL error.
Legal(a, k) ==
    /\ a.finish = None
    /\ \/ k.type = "block-start" /\ k.index = a.next /\ k.block \in BlockTypes
       \/ k.type \in DOMAIN DeltaOf /\ a.open[k.index] = DeltaOf[k.type]
       \/ /\ k.type = "block-end" /\ a.open[k.index] # None
          /\ k.block \in {None, WireType(a.open[k.index])}
       \/ k.type \in {"usage", "finish"}

\* Mutation of Feed: a block is filed by the order in which blocks end.
FeedInOrderOfEnds(a, k) ==
    LET i == k.index
        ended == Cardinality({j \in Indexes : a.blocks[j] # None})
    IN  CASE k.type = "block-start" -> [a EXCEPT !.open[i] = k.block, !.next = @ + 1]
          [] k.type \in DOMAIN DeltaOf -> [a EXCEPT !.text[i] = Append(@, k.text)]
          [] k.type = "block-end" ->
               [a EXCEPT !.open[i] = None, !.blocks[ended] = [type |-> WireType(a.open[i]), text |-> a.text[i]]]
          [] k.type = "usage"  -> [a EXCEPT !.usage = k.kind]
          [] k.type = "finish" -> [a EXCEPT !.finish = k.kind]

\* feed() of a chunk it accepts.
Feed(a, k) ==
    LET i == k.index
        block == [type |-> WireType(a.open[i]), text |-> a.text[i]]
    IN  CASE k.type = "block-start" -> [a EXCEPT !.open[i] = k.block, !.next = @ + 1]
          [] k.type \in DOMAIN DeltaOf -> [a EXCEPT !.text[i] = Append(@, k.text)]
          [] k.type = "block-end" -> [a EXCEPT !.open[i] = None, !.blocks[i] = block]
          [] k.type = "usage"  -> [a EXCEPT !.usage = k.kind]
          [] k.type = "finish" -> [a EXCEPT !.finish = k.kind]

\* Mutation of Valid: open blocks go unnoticed.
ValidUnclosed(a) == a.finish # None

\* validate(): STREAM_PROTOCOL for an unclosed block, STREAM_CLOSED for a
\* stream without a finish chunk.
Valid(a) == a.finish # None /\ \A i \in Indexes : a.open[i] = None

\* A response cut off by max-tokens loses its tool calls.
Kept(a, b) == b # None /\ ~(a.finish = "max-tokens" /\ b.type = "tool-call")

\* blocks(): in the order of their indexes.
Blocks(a) ==
    LET all == [n \in 1..Cardinality(Indexes) |-> a.blocks[n - 1]]
    IN  Pick(all, {n \in DOMAIN all : Kept(a, all[n])})

=============================================================================
