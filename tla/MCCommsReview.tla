--------------------------- MODULE MCCommsReview ----------------------------
(***************************************************************************)
(* The instance of CommsReview that TLC checks: one thread with a message  *)
(* that may be read and, in any order, one whose headers say secret.       *)
(***************************************************************************)
EXTENDS CommsReview

CONSTANTS k1, m1, m2

MCOf == [m \in {m1, m2} |-> k1]
=============================================================================
