---------------------------- MODULE MCConversation ----------------------------
(* Conversation for TLC. *)
EXTENDS Conversation
=============================================================================
