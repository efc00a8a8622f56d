---------------------------- MODULE MCConversation ----------------------------
(***************************************************************************)
(* Instances of Conversation for TLC.  Three messages suffice for an old   *)
(* answer that comes in between a reset and the next message.              *)
(***************************************************************************)
EXTENDS Conversation, TLC

MessageSymmetry ==
    Permutations(Messages) \cup Permutations(Groups) \cup Permutations(Users)
      \cup Permutations(Keys)
=============================================================================
