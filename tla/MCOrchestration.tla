-------------------------- MODULE MCOrchestration --------------------------
(* Orchestration for TLC: the sets of identical jobs, threads and callers.  *)
EXTENDS Orchestration, TLC

\* Jobs that may raise or exhaust their budget are told apart from others only
\* when all of them are, or none is.
Symmetry == Permutations(Jobs) \cup Permutations(Workers) \cup Permutations(Callers)
=============================================================================
