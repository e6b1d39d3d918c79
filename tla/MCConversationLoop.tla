------------------------- MODULE MCConversationLoop -------------------------
(* A small instance of ConversationLoop for TLC.                            *)
EXTENDS ConversationLoop
=============================================================================
