----------------------------- MODULE MCRunDrain -----------------------------
(***************************************************************************)
(* RunDrain instances: one run for local_ingest and one for the rail, the  *)
(* poll loop and a kicked drain.                                           *)
(***************************************************************************)
EXTENDS RunDrain
MCRail == {2}
=============================================================================
