---------------------------- MODULE GitcmdRepoMC ----------------------------
(***************************************************************************)
(* Small instances of GitcmdRepo for TLC: one handle of one directory, or  *)
(* two handles of two directories.                                         *)
(***************************************************************************)
EXTENDS GitcmdRepo, TLC

CONSTANTS d1, d2, h1, h2

OneDirOf == h1 :> d1
TwoDirsOf == h1 :> d1 @@ h2 :> d2

\* The goroutines are interchangeable: no action and no property names one.
ProcSymmetry == Permutations(Proc)
=============================================================================
