--------------------------- MODULE MCHttpRuntime ---------------------------
(* Instances of HttpRuntime for TLC. *)
EXTENDS HttpRuntime, TLC

CONSTANTS t1, t2, t3, h1, h2, p1, p2, ra1, ra2

Symmetry == Permutations(Threads) \cup Permutations(Permits)
=============================================================================
