---------------------------- MODULE MCConversation ----------------------------
(* Keys are equal to all that a conversation does with them. *)
EXTENDS Conversation, TLC

CONSTANTS k1, k2

AnyKey == Permutations({k1, k2})
=============================================================================
