--------------------------- MODULE MCToolHandler ---------------------------
(* Batches with distinct ids, and one where the model repeats an id.       *)
EXTENDS ToolHandler

MCDistinct == [c \in Batch |-> c]
MCRepeated == [c \in Batch |-> 1]

=============================================================================
