------------------------- MODULE MCPermissionEngine ------------------------
(***************************************************************************)
(* One argument, whose value may be the number 1 or the string "1": the    *)
(* same text.  One pattern matches it and one does not compile.            *)
(***************************************************************************)
EXTENDS PermissionEngine, TLC

CONSTANTS one, oneString, other, textOne, textOther, exact, broken

MCText == [v \in Values |-> IF v = other THEN textOther ELSE textOne]
MCFullmatch == [p \in Patterns |-> {textOne}]

=============================================================================
