---- MODULE MCL4sFeedbackLoop ----
(* Small instances of L4sFeedbackLoop for TLC. *)
EXTENDS L4sFeedbackLoop

MCPacketIds == {-1, 1}
====
