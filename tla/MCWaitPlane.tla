---------------------------- MODULE MCWaitPlane ----------------------------
(***************************************************************************)
(* Instances of WaitPlane for TLC.                                         *)
(***************************************************************************)
EXTENDS WaitPlane, TLC

CONSTANTS outer, inner

\* A root flow and its nested flow.
Nested == [j \in Jobs |-> IF j = outer THEN {inner} ELSE {}]

\* Only the nested flow is answered, or each of them once.
InnerAnswered == [j \in Jobs |-> IF j = inner THEN 1 ELSE 0]
EachAnswered  == [j \in Jobs |-> 1]
=============================================================================
