--------------------------- MODULE MCSessionPlane ---------------------------
(* Sessions and threads are interchangeable.                                *)
EXTENDS SessionPlane

Symmetry == Permutations(Sessions) \cup Permutations(Instances)
              \cup Permutations(Threads)
=============================================================================
