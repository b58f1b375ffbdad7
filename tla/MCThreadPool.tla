---------------------------- MODULE MCThreadPool ----------------------------
(***************************************************************************)
(* Instances of ThreadPool for TLC.                                        *)
(***************************************************************************)
EXTENDS ThreadPool, TLC

\* The allocator's addresses and the requests are interchangeable.
Symmetry == Permutations(Objs) \union Permutations(Args)
=============================================================================
