-------------------------- MODULE MC_ScheduleSwap --------------------------
(* TLC instance of ScheduleSwap. *)
EXTENDS ScheduleSwap

=============================================================================
