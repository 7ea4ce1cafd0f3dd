---------------------------- MODULE MCCoreServer ----------------------------
(* The RPC server with a few clients that call in any order.               *)
EXTENDS CoreServer, TLC

Symmetry == Permutations(Clients) \cup Permutations(Boxes) \cup Permutations(Procs)
=============================================================================
