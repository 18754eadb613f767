------------------------ MODULE MCScheduledMessages ------------------------
(* Instances of ScheduledMessages; the constants are set in the .cfg files. *)
EXTENDS ScheduledMessages
============================================================================
