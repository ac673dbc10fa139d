---------------------------- MODULE MCSchedules ----------------------------
(***************************************************************************)
(* Schedules instances: a row that exists, an id that is still free.       *)
(***************************************************************************)
EXTENDS Schedules
=============================================================================
