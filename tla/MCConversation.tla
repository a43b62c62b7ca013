--------------------------- MODULE MCConversation ---------------------------
(* Model values for Conversation.                                          *)
EXTENDS Conversation, TLC

Symmetry == Permutations(Sessions)
=============================================================================
