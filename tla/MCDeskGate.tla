----------------------------- MODULE MCDeskGate -----------------------------
(***************************************************************************)
(* DeskGate instances: two overlapping runs and a Comms curator on a desk  *)
(* whose floor is scaled down to two seats; one run for the liveness       *)
(* properties; and as many runs as the real floor has seats.               *)
(***************************************************************************)
EXTENDS DeskGate, TLC

CONSTANTS c1, c2, c3, c4, w1, w2, w3, w4, k1, k2, m1, g1, g2

\* A run with a parking worker, and a run with one or two plain workers.
OverlapBoss == (w1 :> c1) @@ (w2 :> c2)
SoloBoss    == (w1 :> c1) @@ (w2 :> c1)
ParkingHost == (k1 :> w1) @@ (k2 :> w1)
SoloHost    == k1 :> w1

\* One worker for each of four runs, nothing nested.
FullBoss == (w1 :> c1) @@ (w2 :> c2) @@ (w3 :> c3) @@ (w4 :> c4)
NoHost   == [k \in {} |-> w1]

\* Gate objects and the two nested workers are interchangeable.
Symmetric == Permutations({g1, g2}) \cup Permutations({k1, k2})
=============================================================================
