---------------------------- MODULE RemoteAuthMC ----------------------------
(***************************************************************************)
(* Small instances of RemoteAuth for TLC: two calls in one process, with   *)
(* every choice of options.                                                *)
(***************************************************************************)
EXTENDS RemoteAuth, TLC

AllOpts == SUBSET {"ssh", "https"}
OneKind == {{}, {"ssh"}, {"https"}}

CallSymmetry == Permutations(Call)
=============================================================================
