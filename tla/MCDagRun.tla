------------------------------ MODULE MCDagRun ------------------------------
(***************************************************************************)
(* DagRun instances: two investigators in parallel and a synthesizer, one  *)
(* wave that may be added, and one resume.                                 *)
(***************************************************************************)
EXTENDS DagRun, TLC

CONSTANTS i1, i2, s, x

Fanout == (i1 :> {}) @@ (i2 :> {}) @@ (s :> {i1, i2}) @@ (x :> {})

\* The investigators are interchangeable.
Symmetric == Permutations({i1, i2})
=============================================================================
