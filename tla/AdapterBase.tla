----------------------------- MODULE AdapterBase -----------------------------
(***************************************************************************)
(* OpenAIAdapterBase (llm/base.py) and what the stream() of its two        *)
(* subclasses have in common: the response is created, read, and its end   *)
(* turned into the last chunks; failures and cancellations; the adapter's  *)
(* own state, which outlives a stream; and the consumer, which feeds each  *)
(* chunk to a BlockAssembler as it is yielded.                             *)
(***************************************************************************)
EXTENDS BlockAssembler, SequencesExt

CONSTANT MaxStreams     \* bound: calls of stream(), one after the other

ASSUME StreamsAssumption == MaxStreams \in Nat

VARIABLES
    \* of the adapter
    cancelled,      \* _cancelled
    active,         \* _active_stream is not None
    \* of a stream
    pc,             \* "create", "stream", "broken" off, "tail", "ended" or "raised"
    items,          \* what is known of the provider's items, by their keys
    blockOf,        \* the index of the block of an item, once it is started
    next_index,
    usage,
    finish_reason,
    \* of the consumer, and history
    asm,            \* the consumer's assembler
    refused,        \* it has refused a chunk
    received,       \* what the provider has sent, item by item
    asked,          \* cancel() was called while this stream was read
    streams         \* streams so far

adapterVars == <<cancelled, active>>
streamVars == <<items, blockOf, next_index, usage, finish_reason>>
baseVars == <<adapterVars, pc, streamVars, asm, refused, received, asked, streams>>

NoBlock == [k \in {} |-> 0]

Init ==
    /\ cancelled = FALSE /\ active = FALSE
    /\ pc = "create"
    /\ items = NoBlock /\ blockOf = NoBlock /\ next_index = 0
    /\ usage = FALSE /\ finish_reason = "unknown"
    /\ asm = NewAssembler /\ refused = FALSE
    /\ received = << >> /\ asked = FALSE /\ streams = 1

-----------------------------------------------------------------------------
(* Yielding.                                                               *)

\* The consumer c is fed a chunk; one it refuses ends its interest.
Consume(c, k) ==
    IF c.ok /\ Legal(c.asm, k) THEN [c EXCEPT !.asm = Feed(@, k)]
                               ELSE [c EXCEPT !.ok = FALSE]

FedWith(chunks) ==
    LET fed[n \in 0..Len(chunks)] ==
          IF n = 0 THEN [asm |-> asm, ok |-> ~refused] ELSE Consume(fed[n - 1], chunks[n])
    IN  fed[Len(chunks)]

Yields(chunks) ==
    LET fed == FedWith(chunks)
    IN  asm' = fed.asm /\ refused' = ~fed.ok

StartOf(i, block) == [type |-> "block-start", index |-> i, block |-> block]
EndOf(i, block) == [type |-> "block-end", index |-> i, block |-> WireType(block)]
DeltaChunk(i, block, text) ==
    [type |-> CHOOSE d \in DOMAIN DeltaOf : DeltaOf[d] = block, index |-> i, text |-> text]
Usage == [type |-> "usage", index |-> 0, kind |-> "valid"]
FinishOf(kind) == [type |-> "finish", index |-> 0, kind |-> kind]

\* Item b gets the next block.
Allot(b) ==
    /\ blockOf' = [k \in DOMAIN blockOf \cup {b} |-> IF k = b THEN next_index ELSE blockOf[k]]
    /\ next_index' = next_index + 1

\* A delta of item b, whose block is started by its first one.
Emit(b, block, text) ==
    IF b \in DOMAIN blockOf
      THEN /\ Yields(<<DeltaChunk(blockOf[b], block, text)>>)
           /\ UNCHANGED <<blockOf, next_index>>
      ELSE /\ Yields(<<StartOf(next_index, block), DeltaChunk(next_index, block, text)>>)
           /\ Allot(b)

\* The ends of the blocks of items bs, in the order of their starts.
EndsOf(bs, block) ==
    Pick([n \in 1..next_index |-> EndOf(n - 1, block)], {blockOf[b] + 1 : b \in bs})

-----------------------------------------------------------------------------
(* A stream.                                                               *)

Created ==
    /\ pc = "create" /\ pc' = "stream"
    /\ active' = TRUE
    /\ UNCHANGED <<cancelled, streamVars, asm, refused, received, asked, streams>>

\* The loop ends with the response, or is broken off by a cancellation.
LoopEnds ==
    /\ pc = "stream" /\ pc' = IF cancelled THEN "broken" ELSE "tail"
    /\ UNCHANGED <<adapterVars, streamVars, asm, refused, received, asked, streams>>

\* Mutation of Over: the flag is left as it is.
OverFlagKept(how) ==
    /\ pc' = how
    /\ active' = FALSE
    /\ UNCHANGED <<cancelled, streamVars, received, asked, streams>>

\* The finally block.
Over(how) ==
    /\ pc' = how
    /\ active' = FALSE
    /\ cancelled' = FALSE
    /\ UNCHANGED <<streamVars, received, asked, streams>>

\* The provider raises.
Fails ==
    /\ pc \in {"create", "stream"}
    /\ Yields(<<FinishOf("error")>>)
    /\ Over("ended")

\* The task is cancelled at the provider: a CancelledError passes through.
TaskCancelled ==
    /\ pc \in {"create", "stream"}
    /\ Over("raised")
    /\ UNCHANGED <<asm, refused>>

\* cancel(), at any time: nothing is done unless a response is there and has
\* not been cancelled.
Cancel ==
    /\ cancelled' = (cancelled \/ active)
    /\ active' = FALSE
    /\ asked' = (asked \/ pc = "stream")
    /\ UNCHANGED <<pc, streamVars, asm, refused, received, streams>>

\* stream() is called again, when the last one is over.
NextStream ==
    /\ pc \in {"ended", "raised"} /\ streams < MaxStreams
    /\ streams' = streams + 1
    /\ pc' = "create"
    /\ items' = NoBlock /\ blockOf' = NoBlock /\ next_index' = 0
    /\ usage' = FALSE /\ finish_reason' = "unknown"
    /\ asm' = NewAssembler /\ refused' = FALSE
    /\ received' = << >> /\ asked' = FALSE
    /\ UNCHANGED adapterVars

Common == Created \/ LoopEnds \/ Fails \/ TaskCancelled \/ Cancel \/ NextStream

-----------------------------------------------------------------------------
\* base.py:97: a stream is broken off by a cancel() made while it was read, and
\* by no other: neither by one that came when nothing was read, nor by one
\* meant for an earlier stream of the same adapter.
CancelReaches == pc = "stream" => (cancelled <=> asked)

=============================================================================
