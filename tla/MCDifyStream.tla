----------------------------- MODULE MCDifyStream -----------------------------
(***************************************************************************)
(* An instance of DifyStream for TLC.                                      *)
(***************************************************************************)
EXTENDS DifyStream, TLC

TextSymmetry == Permutations(Texts) \cup Permutations(Ids)
=============================================================================
