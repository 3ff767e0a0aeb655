-------------------------- MODULE MCConversationMode --------------------------
(* A small instance of ConversationMode for TLC. *)
EXTENDS ConversationMode

CONSTANTS l1, l2

\* Calls that fail leave their turn with a registered microphone or with none.
LateFailures == {"media", "start", "state", "answer", "mode"}

NoFailures == {}
=============================================================================
