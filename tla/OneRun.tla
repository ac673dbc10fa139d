------------------------------- MODULE OneRun -------------------------------
(***************************************************************************)
(* What one orchestration promises its user, whatever is stopped, killed   *)
(* and resumed.  A node works, and what it worked out may be saved.  Only  *)
(* what is not saved is ever worked on again: after a restart, or within a *)
(* life when it failed or was cut.  A completed run has saved all it       *)
(* worked out, nothing of it goes on, and that is how it stays.            *)
(***************************************************************************)
CONSTANT Node
VARIABLES outcome, node

States == {"waiting", "working", "worked", "saved"}

Init ==
    /\ outcome = "new"
    /\ node = [n \in Node |-> "waiting"]

Becomes(S, state) == node' = [n \in Node |-> IF n \in S THEN state ELSE node[n]]

Begin == outcome = "new" /\ outcome' = "open" /\ UNCHANGED node

Going == outcome = "open" /\ UNCHANGED outcome

Start(S) ==
    /\ Going
    /\ \A n \in S : node[n] = "waiting"
    /\ Becomes(S, "working")

End(n, state) ==
    /\ Going
    /\ node[n] = "working" /\ state \in {"worked", "waiting"}
    /\ Becomes({n}, state)

Save(S) ==
    /\ Going
    /\ \A n \in S : node[n] = "worked"
    /\ Becomes(S, "saved")

\* The daemon dies, perhaps in the midst of a save, or the run is resumed.
Restart(S) ==
    /\ Going
    /\ \A n \in S : node[n] \in {"worked", "saved"}
    /\ \A n \in Node : node[n] = "saved" => n \in S
    /\ node' = [n \in Node |-> IF n \in S THEN "saved" ELSE "waiting"]

Complete ==
    /\ outcome = "open" /\ outcome' = "completed"
    /\ \A n \in Node : node[n] # "working"
    /\ Becomes({n \in Node : node[n] = "worked"}, "saved")

Next ==
    \/ Begin \/ Complete
    \/ \E S \in SUBSET Node : Start(S) \/ Save(S) \/ Restart(S)
    \/ \E n \in Node, state \in States : End(n, state)

Spec == Init /\ [][Next]_<<outcome, node>>
=============================================================================
