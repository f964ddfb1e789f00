---------------------------- MODULE MCWorkPlane ----------------------------
(***************************************************************************)
(* Instances of WorkPlane for TLC.                                         *)
(***************************************************************************)
EXTENDS WorkPlane, TLC

CONSTANTS i1, i2, i3, k, w1, w2

\* Two intents share a coalesce key, the third has none.
TwoOfOneKey == [i \in Intents |-> IF i = i3 THEN NoKey ELSE k]
AllOfOneKey == [i \in Intents |-> k]

\* Background workers have an id each.
OwnIds == [w \in Workers |-> w]
=============================================================================
