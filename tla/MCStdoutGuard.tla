---------------------------- MODULE MCStdoutGuard ----------------------------
(***************************************************************************)
(* Threads are alike, and so are adapters: TLC may permute both.            *)
(***************************************************************************)
EXTENDS StdoutGuard, TLC

Alike == Permutations(Threads) \cup Permutations(Adapters)
=============================================================================
