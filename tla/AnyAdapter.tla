----------------------------- MODULE AnyAdapter -----------------------------
(***************************************************************************)
(* The assembler of a consumer whose adapter (registry.py takes any) sends *)
(* any chunks at all, next to the list of them: what the protocol says is  *)
(* stated on the list.                                                     *)
(***************************************************************************)
EXTENDS BlockAssembler, SequencesExt

CONSTANT MaxChunks      \* bound: chunks in a stream

VARIABLES fed, asm, refused

vars == <<fed, asm, refused>>

Chunk == [type: {"block-start"}, index: Indexes, block: BlockTypes \cup {"other"}]
   \cup [type: DOMAIN DeltaOf, index: Indexes, text: Deltas]
   \cup [type: {"block-end"}, index: Indexes, block: WireTypes \cup {None},
         wire: {<<d>> : d \in Deltas}]
   \cup [type: {"usage"}, index: {0}, kind: {"valid"}]
   \cup [type: {"finish"}, index: {0}, kind: {"stop", "max-tokens"}]

Init == fed = << >> /\ asm = NewAssembler /\ refused = FALSE

Receive(k) ==
    /\ ~refused /\ Len(fed) < MaxChunks
    /\ fed' = Append(fed, k)
    /\ IF Legal(asm, k) THEN asm' = Feed(asm, k) /\ UNCHANGED refused
                        ELSE refused' = TRUE /\ UNCHANGED asm

Next == \E k \in Chunk : Receive(k)

Spec == Init /\ [][Next]_vars

-----------------------------------------------------------------------------
Is(p, t) == fed[p].type = t
At(p, t, i) == fed[p].type = t /\ fed[p].index = i
Positions == 1..Len(fed)

StartOf(i) == CHOOSE p \in Positions : At(p, "block-start", i)

\* The block with index i is open just before position p.
OpenBefore(p, i) ==
    \E s \in 1..(p - 1) : /\ At(s, "block-start", i)
                          /\ ~\E e \in (s + 1)..(p - 1) : At(e, "block-end", i)

\* The protocol of a stream that is not over yet: nothing follows the finish,
\* blocks are numbered in the order of their starts, and deltas and ends
\* belong to an open block of their type.
Follows ==
    /\ \A p \in Positions : Is(p, "finish") => p = Len(fed)
    /\ \A p \in Positions : Is(p, "block-start") =>
         /\ fed[p].block \in BlockTypes
         /\ fed[p].index = Cardinality({q \in 1..(p - 1) : Is(q, "block-start")})
    /\ \A p \in Positions : fed[p].type \in DOMAIN DeltaOf =>
         /\ OpenBefore(p, fed[p].index)
         /\ fed[StartOf(fed[p].index)].block = DeltaOf[fed[p].type]
    /\ \A p \in Positions : Is(p, "block-end") =>
         /\ OpenBefore(p, fed[p].index)
         /\ fed[p].block \in {None, WireType(fed[StartOf(fed[p].index)].block)}

\* A chunk is refused exactly when it breaks the protocol, at once.
FailsFast == refused <=> ~Follows

\* A stream passes validate() exactly when it has followed the protocol, has
\* finished and has closed every block it started.
ValidWhenComplete ==
    (~refused /\ Valid(asm)) <=>
      /\ Follows
      /\ \E p \in Positions : Is(p, "finish")
      /\ \A p \in Positions : Is(p, "block-start") => ~OpenBefore(Len(fed) + 1, fed[p].index)

\* Both: the assembler accepts the protocol, all of it and nothing else.
ProtocolEnforced == FailsFast /\ ValidWhenComplete

DeltasOf(i) ==
    LET list == Pick(fed, {p \in Positions : fed[p].type \in DOMAIN DeltaOf /\ fed[p].index = i})
    IN  [n \in DOMAIN list |-> list[n].text]

\* However the deltas and ends of several blocks interleave, each block is
\* put together from its own deltas, and the blocks are in the order in which
\* they were started; a truncated response keeps all but its tool calls.
BlocksAssembled ==
    ~refused /\ Valid(asm) =>
      LET kept == {p \in Positions : /\ Is(p, "block-start")
                                     /\ asm.finish = "max-tokens" => fed[p].block # "tool-call"}
          starts == Pick(fed, kept)
      IN  Blocks(asm) = [n \in DOMAIN starts |->
            [type |-> WireType(starts[n].block), text |-> DeltasOf(starts[n].index)]]

\* The content of the block is the one its end carries.
WireIsAuthority ==
    \A p \in Positions : ~refused /\ Is(p, "block-end") =>
      asm.blocks[fed[p].index].text = fed[p].wire

=============================================================================
