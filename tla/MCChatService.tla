---------------------------- MODULE MCChatService ----------------------------
(* A small instance of ChatService for TLC. *)
EXTENDS ChatService
=============================================================================
