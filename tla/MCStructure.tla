---------------------------- MODULE MCStructure ----------------------------
(* Instances of Structure for TLC.                                          *)
EXTENDS Structure, TLC

\* A definition that requires a place, one that requires them all: the bare
\* organism, local.embedded, requires none.
CONSTANTS bare, full

AllOrNone == [d \in Definitions |-> IF d = full THEN Ids ELSE {}]

Symmetry == Permutations(Ids)
=============================================================================
