--------------------------- MODULE MCMessageQueue ---------------------------
(***************************************************************************)
(* MessageQueue and the channel it implements on a small instance.  In     *)
(* chunks of six slots, three of them kept for the switch message, every   *)
(* second or third allocation changes chunks; counters that wrap at 5      *)
(* overflow within the bound on messages.                                  *)
(***************************************************************************)
EXTENDS MessageQueueChannel
=============================================================================
