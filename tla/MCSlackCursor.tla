--------------------------- MODULE MCSlackCursor ---------------------------
(***************************************************************************)
(* Small instances of SlackCursor for TLC.                                 *)
(***************************************************************************)
EXTENDS SlackCursor

CONSTANTS c1, c2

OneConversation  == <<c1>>
TwoConversations == <<c1, c2>>
============================================================================
