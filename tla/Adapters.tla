------------------------------ MODULE Adapters ------------------------------
(***************************************************************************)
(* The adapters of the registry (llm/registry.py), and any other.  Which of*)
(* them a handler is made of is chosen once.                               *)
(***************************************************************************)
EXTENDS AdapterBase

CONSTANTS Wires, MaxItems,              \* of CompletionsAdapter
          Ids, MaxEvents, Conformant,   \* of ResponsesAdapter
          MaxChunks,                    \* of AnyAdapter
          Apis                          \* the adapters to look at

ASSUME AdaptersAssumption ==
    /\ Wires \cup Ids \subseteq Nat
    /\ {MaxItems, MaxEvents, MaxChunks} \subseteq Nat
    /\ Conformant \in BOOLEAN
    /\ Apis \subseteq {"completions", "responses", "any"}
    /\ None \notin {"stop", "tool-calls", "max-tokens", "error"}

VARIABLE api        \* the adapter in use

vars == <<api, baseVars>>

Completions == INSTANCE CompletionsAdapter
Responses   == INSTANCE ResponsesAdapter
Custom      == INSTANCE AnyAdapter WITH fed <- received

\* create_llm_handler
HandlerInit == api \in Apis /\ Init

HandlerNext ==
    /\ UNCHANGED api
    /\ \/ api # "any" /\ Common
       \/ api = "completions" /\ Completions!Step
       \/ api = "responses" /\ Responses!Step
       \/ /\ api = "any" /\ Custom!Next
          /\ UNCHANGED <<adapterVars, pc, streamVars, asked, streams>>

Spec == HandlerInit /\ [][HandlerNext]_vars

-----------------------------------------------------------------------------
\* Any adapter: the assembler accepts the chunks that follow the protocol, all
\* of them and nothing else.
ProtocolEnforced == api = "any" => Custom!ProtocolEnforced

\* Any adapter: each block is put together from its own deltas.
BlocksAssembled == api = "any" => Custom!BlocksAssembled

Finished == pc = "ended" /\ asm.finish \in {"stop", "tool-calls", "max-tokens"}

\* PRD-B2-llm-adapter.md:135-138, but for the ends of calls: the assembler
\* refuses no chunk of the two adapters (indexes count up, deltas and ends are
\* of an open block, nothing follows the finish); a stream the task was not
\* cancelled in has a finish, one that fails too; and one that finishes
\* normally has ended its texts and reasoning.  Chat items may come in any
\* order; the provider of a Responses stream keeps its own protocol, if
\* Conformant (GatewayWithoutIds is the other case).
ProtocolKept ==
    api # "any" =>
      /\ ~refused
      /\ pc = "ended" => asm.finish # None
      /\ Finished => \A i \in Indexes : asm.open[i] \in {None, "tool-call"}

\* A stream that finishes normally is complete for the assembler exactly if
\* the provider has named, or closed, the calls it began.
ValidIfCallsClosed ==
    api # "any" /\ Finished =>
      (Valid(asm) <=> IF api = "completions" THEN Completions!CallsClosed ELSE Responses!CallsClosed)

\* What the assembler put together is what the provider sent.
NothingLost ==
    api # "any" /\ Finished /\ Valid(asm) =>
      IF api = "completions" THEN Completions!NothingLost ELSE Responses!NothingLost

-----------------------------------------------------------------------------
(* Refuted: the divergences of README.md.                                  *)

\* PRD-B2-llm-adapter.md:135: every block-start has its block-end, also in a
\* stream with a call that never gets a name, or is never done.
EveryBlockEnds == api # "any" /\ Finished => \A i \in Indexes : asm.open[i] = None

\* base.py:114: a stream broken off by cancel() finishes with kind aborted.
CancelledIsAborted ==
    [][pc = "broken" /\ pc' = "ended" => asm'.finish = "aborted"]_vars

\* block_assembler.py:194-195: the content of the block is the one its end
\* carries, and the deltas only serve to check its type.
WireIsAuthority == api = "any" => Custom!WireIsAuthority

=============================================================================
