---------------------------- MODULE MCGroupManager ----------------------------
(***************************************************************************)
(* Instances of GroupManager for TLC.  The groups share nothing but the    *)
(* phase, so one group with several clients shows what can go wrong within *)
(* one; credentials and keys are interchangeable.                          *)
(***************************************************************************)
EXTENDS GroupManager, TLC

ConfigSymmetry == Permutations(Creds) \cup Permutations(Keys)
=============================================================================
