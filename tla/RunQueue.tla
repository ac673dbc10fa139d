------------------------------ MODULE RunQueue ------------------------------
(***************************************************************************)
(* What a queue of run files promises, whatever the number of drains.  A   *)
(* run is claimed by one drain at a time and goes back only while it has   *)
(* no runner; it is started at most once; its settlement is final.  When   *)
(* the daemon dies, what was claimed or started settles, goes back if it   *)
(* was not started, or is abandoned for good.  A run whose status could    *)
(* not be saved is lost to the queue: nothing is promised for it.          *)
(***************************************************************************)
CONSTANT Run
VARIABLE phase

Phases == {"absent", "queued", "claimed", "started", "settled", "abandoned", "lost"}

Init == phase = [r \in Run |-> "absent"]

Move(r, from, to) == phase[r] \in from /\ phase' = [phase EXCEPT ![r] = to]

Accept(r) == Move(r, {"absent"}, "queued")
Claim(r)  == Move(r, {"queued"}, "claimed")
Return(r) == Move(r, {"claimed"}, "queued")
Start(r)  == Move(r, {"claimed"}, "started")
Settle(r) == Move(r, {"queued", "claimed", "started"}, "settled")
Lose(r)   == Move(r, {"claimed", "started"}, "lost")

\* Where the daemon's death may leave a run.
Outcomes(s) == CASE s = "queued"  -> {"queued", "settled"}
                 [] s = "claimed" -> {"queued", "settled", "abandoned"}
                 [] s = "started" -> {"settled", "abandoned"}
                 [] OTHER -> {s}

Die == \E after \in [Run -> Phases] :
           /\ \A r \in Run : after[r] \in Outcomes(phase[r])
           /\ phase' = after

Next ==
    \/ \E r \in Run : \/ Accept(r) \/ Claim(r) \/ Return(r) \/ Start(r)
                      \/ Settle(r) \/ Lose(r)
    \/ Die

Spec == Init /\ [][Next]_phase
=============================================================================
