--------------------------- MODULE MCInterceptFs ---------------------------
(* InterceptFs with interchangeable threads and paths.                      *)
EXTENDS InterceptFs, TLC

FsSymmetry == Permutations(Threads) \cup Permutations(Paths)
=============================================================================
