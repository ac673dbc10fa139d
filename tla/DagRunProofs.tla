---------------------------- MODULE DagRunProofs ----------------------------
(***************************************************************************)
(* What DagRun guarantees for any plan, any wave and any number of lives.  *)
(***************************************************************************)
EXTENDS DagRun, TLAPS

(***************************************************************************)
(* The inductive invariant.                                                *)
(*   Batch     where the chief's sets of tasks are empty, and that what it *)
(*             collects has ended                                          *)
(*   Verdicts  a node that is in a set again after its record was          *)
(*             interrupted ends as it was recorded                         *)
(*   Reasons   what the locals say about how the loop was left             *)
(*   Complete  nothing is left out of a run that is, or is about to be     *)
(*             saved as, completed                                         *)
(*   Ahead     memory knows every completed node of the checkpoint         *)
(*   Cause     nobody cuts a task but the user, a shutdown or a deadline,  *)
(*             and a cut node fails only as StopFailsNothing says          *)
(***************************************************************************)
Batch ==
    /\ pc \notin {"collect", "final", "ended"} => fresh = {}
    /\ pc \in {"none", "seat", "loop", "pause", "down"} => pend = {}
    /\ pc = "collect" => \A n \in fresh : task[n] \in Ended

Verdicts == \A n \in pend \cup fresh : /\ n \in mem.done => task[n] = "ok"
                                       /\ n \in mem.failed => task[n] = "bad"

Reasons ==
    /\ stop = "budget" => err
    /\ pc \notin {"final", "ended"} => stop \in {"none", "window", "budget"}
    /\ pc \in {"none", "seat", "loop", "pause", "down"} => stop = "none"
    /\ pc \in {"await", "reap", "collect"} /\ after = "break" => stop \in {"window", "budget"}

Complete ==
    /\ pc = "final" /\ ~cancelled /\ stop # "window" /\ ~err => plan \subseteq Settled(mem)
    /\ disk.phase = "completed" => pc \in {"ended", "down"} /\ plan \subseteq Settled(disk)

Ahead == pc # "down" => disk.done \subseteq mem.done

Why == uc \/ shut \/ stop \in {"window", "budget"}

Cause ==
    /\ sig \/ cancelled => uc \/ shut
    /\ \A n \in Node : task[n] \in {"cutting", "cut"} => Why
    /\ \A n \in mem.failed \ disk.failed :
          /\ task[n] \in {"bad", "cut"}
          /\ task[n] = "cut" => ud \/ shut \/ stop \in {"window", "budget"}

IInv == TypeOK /\ OneVerdict /\ Batch /\ Verdicts /\ Reasons /\ Complete /\ Ahead /\ Cause

LEMMA InitInv == Init => IInv
  <1> SUFFICES ASSUME Init PROVE IInv
    OBVIOUS
  <1>1. TypeOK
    <2>1. disk \in Checkpoint({"none"}) /\ mem \in [done : SUBSET Node, failed : SUBSET Node,
                                                     results : SUBSET Node]
      BY DEF Init, Checkpoint
    <2>2. disk \in Checkpoint({"none", "running", "waiting_limits", "quiet", "cancelled",
                               "interrupted", "completed"})
      BY <2>1 DEF Checkpoint
    <2>3. needs \in [Node -> SUBSET Node] /\ 0 \in 0..MaxLives
      BY PlanAssumption DEF Init
    <2>4. task \in [Node -> {"idle", "run", "cutting"} \cup Ended]
      BY DEF Init
    <2> QED BY <2>1, <2>2, <2>3, <2>4 DEF Init, TypeOK
  <1>2. OneVerdict /\ Batch /\ Verdicts /\ Reasons /\ Complete /\ Ahead /\ Cause
    BY DEF Init, OneVerdict, Batch, Verdicts, Reasons, Complete, Ahead, Cause, Settled
  <1> QED BY <1>1, <1>2 DEF IInv

LEMMA LaunchKeeps ==
    ASSUME IInv, Launch
    PROVE  IInv'
  <1> USE PlanAssumption DEF IInv, Launch, Save, files, locals, flags
  <1>1. TypeOK'
    BY DEF TypeOK, Checkpoint, Ended, Batch, Reasons
  <1> USE DEF TypeOK, Checkpoint
  <1>2. OneVerdict'
    BY DEF OneVerdict, Verdicts, Batch, Ended
  <1>3. Batch'
    BY DEF Batch, Ended
  <1>4. Verdicts'
    BY DEF Verdicts, Batch, OneVerdict, Ended
  <1>5. Reasons'
    BY DEF Reasons, Batch
  <1>6. Complete'
    BY DEF Complete, Settled, Reasons, Remaining
  <1>7. Ahead'
    BY DEF Ahead
  <1>8. Cause'
    BY DEF Cause, Why, Reasons, Batch, Ended, Verdicts
  <1> QED BY <1>1, <1>2, <1>3, <1>4, <1>5, <1>6, <1>7, <1>8

LEMMA ResumeKeeps ==
    ASSUME IInv, Resume
    PROVE  IInv'
  <1> USE PlanAssumption DEF IInv, Resume, Repaired, Restored, Blank, files, locals, flags
  <1>1. TypeOK'
    <2>1. /\ disk.done \subseteq Node /\ disk.failed \subseteq Node /\ disk.results \subseteq Node
          /\ needs' \in [Node -> SUBSET Node] /\ life' \in 0..MaxLives
      BY DEF TypeOK, Checkpoint
    <2>2. mem' = [done |-> disk.done, failed |-> disk.failed, results |-> disk.results]
      OBVIOUS
    <2>3. disk' = [phase |-> "running", done |-> disk.done, failed |-> disk.failed,
                   results |-> disk.results]
      BY <2>2
    <2>4. disk' \in Checkpoint({"none", "running", "waiting_limits", "quiet", "cancelled",
                                "interrupted", "completed"})
      BY <2>1, <2>3 DEF Checkpoint
    <2>5. mem' \in [done : SUBSET Node, failed : SUBSET Node, results : SUBSET Node]
      BY <2>1, <2>2
    <2> QED BY <2>1, <2>4, <2>5 DEF TypeOK
  <1> USE DEF TypeOK, Checkpoint
  <1>2. OneVerdict'
    BY DEF OneVerdict, Verdicts, Batch, Ended
  <1>3. Batch'
    BY DEF Batch, Ended
  <1>4. Verdicts'
    BY DEF Verdicts, Batch, OneVerdict, Ended
  <1>5. Reasons'
    BY DEF Reasons, Batch
  <1>6. Complete'
    BY DEF Complete, Settled, Reasons, Remaining
  <1>7. Ahead'
    BY DEF Ahead
  <1>8. Cause'
    BY DEF Cause, Why, Reasons, Batch, Ended, Verdicts
  <1> QED BY <1>1, <1>2, <1>3, <1>4, <1>5, <1>6, <1>7, <1>8

LEMMA GetSeatKeeps ==
    ASSUME IInv, GetSeat
    PROVE  IInv'
  <1> USE PlanAssumption DEF IInv, GetSeat, files, locals, flags
  <1>1. TypeOK'
    BY DEF TypeOK, Checkpoint, Ended, Batch, Reasons
  <1> USE DEF TypeOK, Checkpoint
  <1>2. OneVerdict'
    BY DEF OneVerdict, Verdicts, Batch, Ended
  <1>3. Batch'
    BY DEF Batch, Ended
  <1>4. Verdicts'
    BY DEF Verdicts, Batch, OneVerdict, Ended
  <1>5. Reasons'
    BY DEF Reasons, Batch
  <1>6. Complete'
    BY DEF Complete, Settled, Reasons, Remaining
  <1>7. Ahead'
    BY DEF Ahead
  <1>8. Cause'
    BY DEF Cause, Why, Reasons, Batch, Ended, Verdicts
  <1> QED BY <1>1, <1>2, <1>3, <1>4, <1>5, <1>6, <1>7, <1>8

LEMMA LoseSeatKeeps ==
    ASSUME IInv, LoseSeat
    PROVE  IInv'
  <1> USE PlanAssumption DEF IInv, LoseSeat, files, locals, flags
  <1>1. TypeOK'
    BY DEF TypeOK, Checkpoint, Ended, Batch, Reasons
  <1> USE DEF TypeOK, Checkpoint
  <1>2. OneVerdict'
    BY DEF OneVerdict, Verdicts, Batch, Ended
  <1>3. Batch'
    BY DEF Batch, Ended
  <1>4. Verdicts'
    BY DEF Verdicts, Batch, OneVerdict, Ended
  <1>5. Reasons'
    BY DEF Reasons, Batch
  <1>6. Complete'
    BY DEF Complete, Settled, Reasons, Remaining
  <1>7. Ahead'
    BY DEF Ahead
  <1>8. Cause'
    BY DEF Cause, Why, Reasons, Batch, Ended, Verdicts
  <1> QED BY <1>1, <1>2, <1>3, <1>4, <1>5, <1>6, <1>7, <1>8

LEMMA LeaveKeeps ==
    ASSUME IInv, NEW why \in {"cancelled", "window", "budget", "finished"}, Leave(why)
    PROVE  IInv'
  <1> USE PlanAssumption DEF IInv, Leave, files, locals, flags
  <1>1. TypeOK'
    BY DEF TypeOK, Checkpoint, Ended, Batch, Reasons
  <1> USE DEF TypeOK, Checkpoint
  <1>2. OneVerdict'
    BY DEF OneVerdict, Verdicts, Batch, Ended
  <1>3. Batch'
    BY DEF Batch, Ended
  <1>4. Verdicts'
    BY DEF Verdicts, Batch, OneVerdict, Ended
  <1>5. Reasons'
    BY DEF Reasons, Batch
  <1>6. Complete'
    BY DEF Complete, Settled, Reasons, Remaining
  <1>7. Ahead'
    BY DEF Ahead
  <1>8. Cause'
    BY DEF Cause, Why, Reasons, Batch, Ended, Verdicts
  <1> QED BY <1>1, <1>2, <1>3, <1>4, <1>5, <1>6, <1>7, <1>8

LEMMA ContinueKeeps ==
    ASSUME IInv, Continue
    PROVE  IInv'
  <1> USE PlanAssumption DEF IInv, Continue, files, locals, flags
  <1>1. TypeOK'
    BY DEF TypeOK, Checkpoint, Ended, Batch, Reasons
  <1> USE DEF TypeOK, Checkpoint
  <1>2. OneVerdict'
    BY DEF OneVerdict, Verdicts, Batch, Ended
  <1>3. Batch'
    BY DEF Batch, Ended
  <1>4. Verdicts'
    BY DEF Verdicts, Batch, OneVerdict, Ended
  <1>5. Reasons'
    BY DEF Reasons, Batch
  <1>6. Complete'
    BY DEF Complete, Settled, Reasons, Remaining
  <1>7. Ahead'
    BY DEF Ahead
  <1>8. Cause'
    BY DEF Cause, Why, Reasons, Batch, Ended, Verdicts
  <1> QED BY <1>1, <1>2, <1>3, <1>4, <1>5, <1>6, <1>7, <1>8

LEMMA ExpandKeeps ==
    ASSUME IInv, Expand
    PROVE  IInv'
  <1> USE PlanAssumption DEF IInv, Expand, Save, files, locals, flags
  <1>1. TypeOK'
    BY DEF TypeOK, Checkpoint, Ended, Batch, Reasons
  <1> USE DEF TypeOK, Checkpoint
  <1>2. OneVerdict'
    BY DEF OneVerdict, Verdicts, Batch, Ended
  <1>3. Batch'
    BY DEF Batch, Ended
  <1>4. Verdicts'
    BY DEF Verdicts, Batch, OneVerdict, Ended
  <1>5. Reasons'
    BY DEF Reasons, Batch
  <1>6. Complete'
    BY DEF Complete, Settled, Reasons, Remaining
  <1>7. Ahead'
    BY DEF Ahead
  <1>8. Cause'
    BY DEF Cause, Why, Reasons, Batch, Ended, Verdicts
  <1> QED BY <1>1, <1>2, <1>3, <1>4, <1>5, <1>6, <1>7, <1>8

LEMMA StartBatchKeeps ==
    ASSUME IInv, NEW B \in SUBSET Node, StartBatch(B)
    PROVE  IInv'
  <1> USE PlanAssumption DEF IInv, StartBatch, Ready, Remaining, Settled, files, locals, flags
  <1>1. TypeOK'
    BY DEF TypeOK, Checkpoint, Ended, Batch, Reasons
  <1> USE DEF TypeOK, Checkpoint
  <1>2. OneVerdict'
    BY DEF OneVerdict, Verdicts, Batch, Ended
  <1>3. Batch'
    BY DEF Batch, Ended
  <1>4. Verdicts'
    BY DEF Verdicts, Batch, OneVerdict, Ended
  <1>5. Reasons'
    BY DEF Reasons, Batch
  <1>6. Complete'
    BY DEF Complete, Settled, Reasons, Remaining
  <1>7. Ahead'
    BY DEF Ahead
  <1>8. Cause'
    BY DEF Cause, Why, Reasons, Batch, Ended, Verdicts
  <1> QED BY <1>1, <1>2, <1>3, <1>4, <1>5, <1>6, <1>7, <1>8

LEMMA PauseKeeps ==
    ASSUME IInv, Pause
    PROVE  IInv'
  <1> USE PlanAssumption DEF IInv, Pause, Save, files, locals, flags
  <1>1. TypeOK'
    BY DEF TypeOK, Checkpoint, Ended, Batch, Reasons
  <1> USE DEF TypeOK, Checkpoint
  <1>2. OneVerdict'
    BY DEF OneVerdict, Verdicts, Batch, Ended
  <1>3. Batch'
    BY DEF Batch, Ended
  <1>4. Verdicts'
    BY DEF Verdicts, Batch, OneVerdict, Ended
  <1>5. Reasons'
    BY DEF Reasons, Batch
  <1>6. Complete'
    BY DEF Complete, Settled, Reasons, Remaining
  <1>7. Ahead'
    BY DEF Ahead
  <1>8. Cause'
    BY DEF Cause, Why, Reasons, Batch, Ended, Verdicts
  <1> QED BY <1>1, <1>2, <1>3, <1>4, <1>5, <1>6, <1>7, <1>8

LEMMA ReopenKeeps ==
    ASSUME IInv, Reopen
    PROVE  IInv'
  <1> USE PlanAssumption DEF IInv, Reopen, Save, files, locals, flags
  <1>1. TypeOK'
    BY DEF TypeOK, Checkpoint, Ended, Batch, Reasons
  <1> USE DEF TypeOK, Checkpoint
  <1>2. OneVerdict'
    BY DEF OneVerdict, Verdicts, Batch, Ended
  <1>3. Batch'
    BY DEF Batch, Ended
  <1>4. Verdicts'
    BY DEF Verdicts, Batch, OneVerdict, Ended
  <1>5. Reasons'
    BY DEF Reasons, Batch
  <1>6. Complete'
    BY DEF Complete, Settled, Reasons, Remaining
  <1>7. Ahead'
    BY DEF Ahead
  <1>8. Cause'
    BY DEF Cause, Why, Reasons, Batch, Ended, Verdicts
  <1> QED BY <1>1, <1>2, <1>3, <1>4, <1>5, <1>6, <1>7, <1>8

LEMMA PauseExpiresKeeps ==
    ASSUME IInv, PauseExpires
    PROVE  IInv'
  <1> USE PlanAssumption DEF IInv, PauseExpires, files, locals, flags
  <1>1. TypeOK'
    BY DEF TypeOK, Checkpoint, Ended, Batch, Reasons
  <1> USE DEF TypeOK, Checkpoint
  <1>2. OneVerdict'
    BY DEF OneVerdict, Verdicts, Batch, Ended
  <1>3. Batch'
    BY DEF Batch, Ended
  <1>4. Verdicts'
    BY DEF Verdicts, Batch, OneVerdict, Ended
  <1>5. Reasons'
    BY DEF Reasons, Batch
  <1>6. Complete'
    BY DEF Complete, Settled, Reasons, Remaining
  <1>7. Ahead'
    BY DEF Ahead
  <1>8. Cause'
    BY DEF Cause, Why, Reasons, Batch, Ended, Verdicts
  <1> QED BY <1>1, <1>2, <1>3, <1>4, <1>5, <1>6, <1>7, <1>8

LEMMA EndsKeeps ==
    ASSUME IInv, NEW n \in Node, NEW r \in Ended, Ends(n, r)
    PROVE  IInv'
  <1> USE PlanAssumption DEF IInv, Ends, files, locals, flags
  <1>1. TypeOK'
    BY DEF TypeOK, Checkpoint, Ended, Batch, Reasons
  <1> USE DEF TypeOK, Checkpoint
  <1>2. OneVerdict'
    BY DEF OneVerdict, Verdicts, Batch, Ended
  <1>3. Batch'
    BY DEF Batch, Ended
  <1>4. Verdicts'
    BY DEF Verdicts, Batch, OneVerdict, Ended
  <1>5. Reasons'
    BY DEF Reasons, Batch
  <1>6. Complete'
    BY DEF Complete, Settled, Reasons, Remaining
  <1>7. Ahead'
    BY DEF Ahead
  <1>8. Cause'
    BY DEF Cause, Why, Reasons, Batch, Ended, Verdicts
  <1> QED BY <1>1, <1>2, <1>3, <1>4, <1>5, <1>6, <1>7, <1>8

LEMMA CollectKeeps ==
    ASSUME IInv, Collect
    PROVE  IInv'
  <1> USE PlanAssumption DEF IInv, Collect, files, locals, flags
  <1>1. TypeOK'
    BY DEF TypeOK, Checkpoint, Ended, Batch, Reasons
  <1> USE DEF TypeOK, Checkpoint
  <1>2. OneVerdict'
    BY DEF OneVerdict, Verdicts, Batch, Ended
  <1>3. Batch'
    BY DEF Batch, Ended
  <1>4. Verdicts'
    BY DEF Verdicts, Batch, OneVerdict, Ended
  <1>5. Reasons'
    BY DEF Reasons, Batch
  <1>6. Complete'
    BY DEF Complete, Settled, Reasons, Remaining
  <1>7. Ahead'
    BY DEF Ahead
  <1>8. Cause'
    BY DEF Cause, Why, Reasons, Batch, Ended, Verdicts
  <1> QED BY <1>1, <1>2, <1>3, <1>4, <1>5, <1>6, <1>7, <1>8

LEMMA DeadlineKeeps ==
    ASSUME IInv, NEW why \in {"window", "budget"}, Deadline(why)
    PROVE  IInv'
  <1> USE PlanAssumption DEF IInv, Deadline, Reap, Cut, files, locals, flags
  <1>1. TypeOK'
    BY DEF TypeOK, Checkpoint, Ended, Batch, Reasons
  <1> USE DEF TypeOK, Checkpoint
  <1>2. OneVerdict'
    BY DEF OneVerdict, Verdicts, Batch, Ended
  <1>3. Batch'
    BY DEF Batch, Ended
  <1>4. Verdicts'
    BY DEF Verdicts, Batch, OneVerdict, Ended
  <1>5. Reasons'
    BY DEF Reasons, Batch
  <1>6. Complete'
    BY DEF Complete, Settled, Reasons, Remaining
  <1>7. Ahead'
    BY DEF Ahead
  <1>8. Cause'
    BY DEF Cause, Why, Reasons, Batch, Ended, Verdicts
  <1> QED BY <1>1, <1>2, <1>3, <1>4, <1>5, <1>6, <1>7, <1>8

LEMMA InterruptedKeeps ==
    ASSUME IInv, Interrupted
    PROVE  IInv'
  <1> USE PlanAssumption DEF IInv, Interrupted, Reap, Cut, files, locals, flags
  <1>1. TypeOK'
    BY DEF TypeOK, Checkpoint, Ended, Batch, Reasons
  <1> USE DEF TypeOK, Checkpoint
  <1>2. OneVerdict'
    BY DEF OneVerdict, Verdicts, Batch, Ended
  <1>3. Batch'
    BY DEF Batch, Ended
  <1>4. Verdicts'
    BY DEF Verdicts, Batch, OneVerdict, Ended
  <1>5. Reasons'
    BY DEF Reasons, Batch
  <1>6. Complete'
    BY DEF Complete, Settled, Reasons, Remaining
  <1>7. Ahead'
    BY DEF Ahead
  <1>8. Cause'
    BY DEF Cause, Why, Reasons, Batch, Ended, Verdicts
  <1> QED BY <1>1, <1>2, <1>3, <1>4, <1>5, <1>6, <1>7, <1>8

LEMMA ReapedKeeps ==
    ASSUME IInv, Reaped
    PROVE  IInv'
  <1> USE PlanAssumption DEF IInv, Reaped, files, locals, flags
  <1>1. TypeOK'
    BY DEF TypeOK, Checkpoint, Ended, Batch, Reasons
  <1> USE DEF TypeOK, Checkpoint
  <1>2. OneVerdict'
    BY DEF OneVerdict, Verdicts, Batch, Ended
  <1>3. Batch'
    BY DEF Batch, Ended
  <1>4. Verdicts'
    BY DEF Verdicts, Batch, OneVerdict, Ended
  <1>5. Reasons'
    BY DEF Reasons, Batch
  <1>6. Complete'
    BY DEF Complete, Settled, Reasons, Remaining
  <1>7. Ahead'
    BY DEF Ahead
  <1>8. Cause'
    BY DEF Cause, Why, Reasons, Batch, Ended, Verdicts
  <1> QED BY <1>1, <1>2, <1>3, <1>4, <1>5, <1>6, <1>7, <1>8

\* What the record of a node adds to memory.
Adds(n) ==
    /\ mem' \in [done : SUBSET Node, failed : SUBSET Node, results : SUBSET Node]
    /\ mem'.done = mem.done \cup (IF task[n] = "ok" THEN {n} ELSE {})
    /\ mem'.failed = mem.failed \cup (IF task[n] = "bad" \/ (task[n] = "cut" /\ CutFails)
                                      THEN {n} ELSE {})
    /\ cancelled' \in BOOLEAN /\ (cancelled' => cancelled \/ (task[n] = "cut" /\ stop = "none"))

LEMMA Ingests == ASSUME TypeOK, NEW n \in Node, Ingest(n) PROVE Adds(n)
  <1>1. mem \in [done : SUBSET Node, failed : SUBSET Node, results : SUBSET Node]
        /\ cancelled \in BOOLEAN
    BY DEF TypeOK
  <1>2. CASE task[n] = "cut"
    <2>1. mem' = [mem EXCEPT !.failed = IF CutFails THEN @ \cup {n} ELSE @]
          /\ cancelled' = (cancelled \/ stop = "none")
      BY <1>2 DEF Ingest
    <2>2. /\ mem'.done = mem.done /\ mem'.failed = IF CutFails THEN mem.failed \cup {n} ELSE mem.failed
          /\ mem' \in [done : SUBSET Node, failed : SUBSET Node, results : SUBSET Node]
      BY <1>1, <2>1
    <2> QED BY <1>1, <1>2, <2>1, <2>2 DEF Adds
  <1>3. CASE task[n] # "cut"
    <2>1. /\ mem' = [mem EXCEPT !.results = @ \cup {n},
                                !.done = IF task[n] = "ok" THEN @ \cup {n} ELSE @,
                                !.failed = IF task[n] = "bad" THEN @ \cup {n} ELSE @]
          /\ cancelled' = cancelled
      BY <1>3 DEF Ingest
    <2>2. /\ mem'.done = IF task[n] = "ok" THEN mem.done \cup {n} ELSE mem.done
          /\ mem'.failed = IF task[n] = "bad" THEN mem.failed \cup {n} ELSE mem.failed
          /\ mem' \in [done : SUBSET Node, failed : SUBSET Node, results : SUBSET Node]
      BY <1>1, <2>1
    <2> QED BY <1>1, <1>3, <2>1, <2>2 DEF Adds
  <1> QED BY <1>2, <1>3

LEMMA RecordKeeps ==
    ASSUME IInv, NEW n \in Node, Record(n)
    PROVE  IInv'
  <1> USE PlanAssumption DEF IInv, Record, files, locals, flags
  <1>a. Adds(n)
    BY Ingests
  <1>b. plan' \subseteq Node /\ archived' \subseteq Node
    BY DEF TypeOK, Compacted
  <1>c. /\ n \notin pend \cup fresh' /\ fresh' \subseteq fresh /\ task[n] \in Ended
        /\ (n \in mem.done => task[n] = "ok") /\ (n \in mem.failed => task[n] = "bad")
    BY DEF TypeOK, Batch, Verdicts
  <1>d. /\ UNCHANGED <<disk, needs, pc, task, pend, after, stop, err, uc, ud, sig, shut, life>>
        /\ pc = "collect" /\ ~sig
    OBVIOUS
  <1> HIDE DEF Record
  <1>1. TypeOK'
    BY <1>a, <1>b, <1>c, <1>d DEF TypeOK, Adds
  <1>2. OneVerdict'
    BY <1>a, <1>c, <1>d DEF OneVerdict, Adds
  <1>3. Batch'
    BY <1>c, <1>d DEF Batch
  <1>4. Verdicts'
    BY <1>a, <1>c, <1>d DEF Verdicts, Adds, TypeOK
  <1>5. Reasons' /\ Ahead'
    BY <1>a, <1>d DEF Reasons, Ahead, Adds
  <1>6. Complete'
    BY <1>d DEF Complete
  <1>8. Cause'
    <2>1. cancelled' => uc' \/ shut'
      BY <1>a, <1>d DEF Cause, Adds, Why
    <2>2. ASSUME NEW q \in mem'.failed \ disk.failed
          PROVE  task[q] \in {"bad", "cut"}
                 /\ (task[q] = "cut" => ud \/ shut \/ stop \in {"window", "budget"})
      <3>1. CASE q \in mem.failed
        BY <2>2, <3>1 DEF Cause
      <3>2. CASE q \notin mem.failed
        <4>1. q = n /\ (task[n] = "bad" \/ (task[n] = "cut" /\ CutFails))
          BY <1>a, <2>2, <3>2 DEF Adds
        <4>2. stop \in {"none", "window", "budget"}
          BY <1>d DEF Reasons
        <4> QED BY <4>1, <4>2 DEF CutFails, Cause, Why
      <3> QED BY <3>1, <3>2
    <2> QED BY <1>d, <2>1, <2>2 DEF Cause, Why
  <1> QED BY <1>1, <1>2, <1>3, <1>4, <1>5, <1>6, <1>8

LEMMA RecordInterruptedKeeps ==
    ASSUME IInv, NEW n \in Node, RecordInterrupted(n)
    PROVE  IInv'
  <1> USE PlanAssumption DEF IInv, RecordInterrupted, files, locals, flags
  <1>a. Adds(n)
    BY Ingests
  <1>c. /\ task[n] \in {"ok", "bad"} /\ n \in fresh
        /\ (n \in mem.done => task[n] = "ok") /\ (n \in mem.failed => task[n] = "bad")
    BY DEF Batch, Verdicts, Ended
  <1>d. /\ UNCHANGED <<disk, needs, plan, archived, stop, err, uc, ud, shut, life>>
        /\ pc = "collect" /\ sig /\ ~sig' /\ sig' \in BOOLEAN /\ fresh' = {}
        /\ pend' \subseteq pend \cup fresh
        /\ after' = "raise" \/ after' = after
        /\ pc' \in {"collect", "reap"} /\ (pc' = "reap" => after' = "raise")
    BY DEF Cut
  <1>e. /\ task' \in [Node -> {"idle", "run", "cutting"} \cup Ended]
        /\ \A q \in Node : task'[q] = task[q] \/ (task[q] = "run" /\ task'[q] = "cutting")
    BY DEF Cut, TypeOK
  <1> HIDE DEF RecordInterrupted
  <1>1. TypeOK'
    BY <1>a, <1>d, <1>e DEF TypeOK, Adds
  <1>2. OneVerdict'
    BY <1>a, <1>c, <1>d DEF OneVerdict, Adds
  <1>3. Batch'
    BY <1>d DEF Batch
  <1>4. Verdicts'
    <2> SUFFICES ASSUME NEW q \in pend' PROVE /\ q \in mem'.done => task'[q] = "ok"
                                              /\ q \in mem'.failed => task'[q] = "bad"
      BY <1>d DEF Verdicts
    <2>1. q \in Node /\ q \in pend \cup fresh
      BY <1>d DEF TypeOK
    <2>2. /\ q \in mem'.done => task[q] = "ok"
          /\ q \in mem'.failed => task[q] = "bad"
      BY <1>a, <1>c, <2>1 DEF Verdicts, Adds
    <2> QED BY <1>e, <2>1, <2>2
  <1>5. Reasons' /\ Ahead'
    BY <1>a, <1>d DEF Reasons, Ahead, Adds
  <1>6. Complete'
    BY <1>d DEF Complete
  <1>8. Cause'
    <2>1. uc \/ shut
      BY <1>d DEF Cause
    <2>2. ASSUME NEW q \in mem'.failed \ disk.failed
          PROVE  /\ task'[q] \in {"bad", "cut"}
                 /\ (task'[q] = "cut" => ud \/ shut \/ stop \in {"window", "budget"})
      <3>1. q \in mem.failed \/ (q = n /\ task[n] = "bad")
        BY <1>a, <1>c, <2>2 DEF Adds
      <3>2. q \in Node /\ task[q] \in {"bad", "cut"}
            /\ (task[q] = "cut" => ud \/ shut \/ stop \in {"window", "budget"})
        BY <2>2, <3>1 DEF Cause, TypeOK
      <3> QED BY <1>e, <3>2
    <2> QED BY <1>d, <2>1, <2>2 DEF Cause, Why
  <1> QED BY <1>1, <1>2, <1>3, <1>4, <1>5, <1>6, <1>8

LEMMA ReapInterruptedKeeps ==
    ASSUME IInv, ReapInterrupted
    PROVE  IInv'
  <1> USE PlanAssumption DEF IInv, ReapInterrupted, files, locals, flags
  <1>1. TypeOK'
    BY DEF TypeOK, Checkpoint, Ended, Batch, Reasons
  <1> USE DEF TypeOK, Checkpoint
  <1>2. OneVerdict'
    BY DEF OneVerdict, Verdicts, Batch, Ended
  <1>3. Batch'
    BY DEF Batch, Ended
  <1>4. Verdicts'
    BY DEF Verdicts, Batch, OneVerdict, Ended
  <1>5. Reasons'
    BY DEF Reasons, Batch
  <1>6. Complete'
    BY DEF Complete, Settled, Reasons, Remaining
  <1>7. Ahead'
    BY DEF Ahead
  <1>8. Cause'
    BY DEF Cause, Why, Reasons, Batch, Ended, Verdicts
  <1> QED BY <1>1, <1>2, <1>3, <1>4, <1>5, <1>6, <1>7, <1>8

LEMMA ReapRestKeeps ==
    ASSUME IInv, ReapRest
    PROVE  IInv'
  <1> USE PlanAssumption DEF IInv, ReapRest, Reap, Recorded, Cut, files, locals, flags
  <1>1. TypeOK'
    BY DEF TypeOK, Checkpoint, Ended, Batch, Reasons
  <1> USE DEF TypeOK, Checkpoint
  <1>2. OneVerdict'
    BY DEF OneVerdict, Verdicts, Batch, Ended
  <1>3. Batch'
    BY DEF Batch, Ended
  <1>4. Verdicts'
    BY DEF Verdicts, Batch, OneVerdict, Ended
  <1>5. Reasons'
    BY DEF Reasons, Batch
  <1>6. Complete'
    BY DEF Complete, Settled, Reasons, Remaining
  <1>7. Ahead'
    BY DEF Ahead
  <1>8. Cause'
    BY DEF Cause, Why, Reasons, Batch, Ended, Verdicts
  <1> QED BY <1>1, <1>2, <1>3, <1>4, <1>5, <1>6, <1>7, <1>8

LEMMA FlushKeeps ==
    ASSUME IInv, Flush
    PROVE  IInv'
  <1> USE PlanAssumption DEF IInv, Flush, FlushPhase, Save, Recorded, files, locals, flags
  <1>1. TypeOK'
    BY DEF TypeOK, Checkpoint, Ended, Batch, Reasons
  <1> USE DEF TypeOK, Checkpoint
  <1>2. OneVerdict'
    BY DEF OneVerdict, Verdicts, Batch, Ended
  <1>3. Batch'
    BY DEF Batch, Ended
  <1>4. Verdicts'
    BY DEF Verdicts, Batch, OneVerdict, Ended
  <1>5. Reasons'
    BY DEF Reasons, Batch
  <1>6. Complete'
    BY DEF Complete, Settled, Reasons, Remaining
  <1>7. Ahead'
    BY DEF Ahead
  <1>8. Cause'
    BY DEF Cause, Why, Reasons, Batch, Ended, Verdicts
  <1> QED BY <1>1, <1>2, <1>3, <1>4, <1>5, <1>6, <1>7, <1>8

LEMMA BreakKeeps ==
    ASSUME IInv, Break
    PROVE  IInv'
  <1> USE PlanAssumption DEF IInv, Break, Recorded, files, locals, flags
  <1>1. TypeOK'
    BY DEF TypeOK, Checkpoint, Ended, Batch, Reasons
  <1> USE DEF TypeOK, Checkpoint
  <1>2. OneVerdict'
    BY DEF OneVerdict, Verdicts, Batch, Ended
  <1>3. Batch'
    BY DEF Batch, Ended
  <1>4. Verdicts'
    BY DEF Verdicts, Batch, OneVerdict, Ended
  <1>5. Reasons'
    BY DEF Reasons, Batch
  <1>6. Complete'
    BY DEF Complete, Settled, Reasons, Remaining
  <1>7. Ahead'
    BY DEF Ahead
  <1>8. Cause'
    BY DEF Cause, Why, Reasons, Batch, Ended, Verdicts
  <1> QED BY <1>1, <1>2, <1>3, <1>4, <1>5, <1>6, <1>7, <1>8

LEMMA RaisedKeeps ==
    ASSUME IInv, Raised
    PROVE  IInv'
  <1> USE PlanAssumption DEF IInv, Raised, Recorded, Save, files, locals, flags
  <1>1. TypeOK'
    BY DEF TypeOK, Checkpoint, Ended, Batch, Reasons
  <1> USE DEF TypeOK, Checkpoint
  <1>2. OneVerdict'
    BY DEF OneVerdict, Verdicts, Batch, Ended
  <1>3. Batch'
    BY DEF Batch, Ended
  <1>4. Verdicts'
    BY DEF Verdicts, Batch, OneVerdict, Ended
  <1>5. Reasons'
    BY DEF Reasons, Batch
  <1>6. Complete'
    BY DEF Complete, Settled, Reasons, Remaining
  <1>7. Ahead'
    BY DEF Ahead
  <1>8. Cause'
    BY DEF Cause, Why, Reasons, Batch, Ended, Verdicts
  <1> QED BY <1>1, <1>2, <1>3, <1>4, <1>5, <1>6, <1>7, <1>8

LEMMA FailKeeps ==
    ASSUME IInv, Fail
    PROVE  IInv'
  <1> USE PlanAssumption DEF IInv, Fail, files, locals, flags
  <1>1. TypeOK'
    BY DEF TypeOK, Checkpoint, Ended, Batch, Reasons
  <1> USE DEF TypeOK, Checkpoint
  <1>2. OneVerdict'
    BY DEF OneVerdict, Verdicts, Batch, Ended
  <1>3. Batch'
    BY DEF Batch, Ended
  <1>4. Verdicts'
    BY DEF Verdicts, Batch, OneVerdict, Ended
  <1>5. Reasons'
    BY DEF Reasons, Batch
  <1>6. Complete'
    BY DEF Complete, Settled, Reasons, Remaining
  <1>7. Ahead'
    BY DEF Ahead
  <1>8. Cause'
    BY DEF Cause, Why, Reasons, Batch, Ended, Verdicts
  <1> QED BY <1>1, <1>2, <1>3, <1>4, <1>5, <1>6, <1>7, <1>8

LEMMA FinalizeKeeps ==
    ASSUME IInv, Finalize
    PROVE  IInv'
  <1> USE PlanAssumption DEF IInv, Finalize, EndPhase, Save, files, locals, flags
  <1>1. TypeOK'
    BY DEF TypeOK, Checkpoint, Ended, Batch, Reasons
  <1> USE DEF TypeOK, Checkpoint
  <1>2. OneVerdict'
    BY DEF OneVerdict, Verdicts, Batch, Ended
  <1>3. Batch'
    BY DEF Batch, Ended
  <1>4. Verdicts'
    BY DEF Verdicts, Batch, OneVerdict, Ended
  <1>5. Reasons'
    BY DEF Reasons, Batch
  <1>6. Complete'
    BY DEF Complete, Settled, Reasons, Remaining
  <1>7. Ahead'
    BY DEF Ahead
  <1>8. Cause'
    BY DEF Cause, Why, Reasons, Batch, Ended, Verdicts
  <1> QED BY <1>1, <1>2, <1>3, <1>4, <1>5, <1>6, <1>7, <1>8

LEMMA StopRunKeeps ==
    ASSUME IInv, StopRun
    PROVE  IInv'
  <1> USE PlanAssumption DEF IInv, StopRun, Suspended, files, locals, flags
  <1>1. TypeOK'
    BY DEF TypeOK, Checkpoint, Ended, Batch, Reasons
  <1> USE DEF TypeOK, Checkpoint
  <1>2. OneVerdict'
    BY DEF OneVerdict, Verdicts, Batch, Ended
  <1>3. Batch'
    BY DEF Batch, Ended
  <1>4. Verdicts'
    BY DEF Verdicts, Batch, OneVerdict, Ended
  <1>5. Reasons'
    BY DEF Reasons, Batch
  <1>6. Complete'
    BY DEF Complete, Settled, Reasons, Remaining
  <1>7. Ahead'
    BY DEF Ahead
  <1>8. Cause'
    BY DEF Cause, Why, Reasons, Batch, Ended, Verdicts
  <1> QED BY <1>1, <1>2, <1>3, <1>4, <1>5, <1>6, <1>7, <1>8

LEMMA StopNodeKeeps ==
    ASSUME IInv, NEW n \in Node, StopNode(n)
    PROVE  IInv'
  <1> USE PlanAssumption DEF IInv, StopNode, Suspended, Cut, files, locals, flags
  <1>1. TypeOK'
    BY DEF TypeOK, Checkpoint, Ended, Batch, Reasons
  <1> USE DEF TypeOK, Checkpoint
  <1>2. OneVerdict'
    BY DEF OneVerdict, Verdicts, Batch, Ended
  <1>3. Batch'
    BY DEF Batch, Ended
  <1>4. Verdicts'
    BY DEF Verdicts, Batch, OneVerdict, Ended
  <1>5. Reasons'
    BY DEF Reasons, Batch
  <1>6. Complete'
    BY DEF Complete, Settled, Reasons, Remaining
  <1>7. Ahead'
    BY DEF Ahead
  <1>8. Cause'
    BY DEF Cause, Why, Reasons, Batch, Ended, Verdicts
  <1> QED BY <1>1, <1>2, <1>3, <1>4, <1>5, <1>6, <1>7, <1>8

LEMMA StopDeskKeeps ==
    ASSUME IInv, NEW settle \in {"quiet", "cancelled"}, StopDesk(settle)
    PROVE  IInv'
  <1> USE PlanAssumption DEF IInv, StopDesk, Suspended, Mark, Cut, files, locals, flags
  <1>1. TypeOK'
    BY DEF TypeOK, Checkpoint, Ended, Batch, Reasons
  <1> USE DEF TypeOK, Checkpoint
  <1>2. OneVerdict'
    BY DEF OneVerdict, Verdicts, Batch, Ended
  <1>3. Batch'
    BY DEF Batch, Ended
  <1>4. Verdicts'
    BY DEF Verdicts, Batch, OneVerdict, Ended
  <1>5. Reasons'
    BY DEF Reasons, Batch
  <1>6. Complete'
    BY DEF Complete, Settled, Reasons, Remaining
  <1>7. Ahead'
    BY DEF Ahead
  <1>8. Cause'
    BY DEF Cause, Why, Reasons, Batch, Ended, Verdicts
  <1> QED BY <1>1, <1>2, <1>3, <1>4, <1>5, <1>6, <1>7, <1>8

LEMMA ShutdownKeeps ==
    ASSUME IInv, Shutdown
    PROVE  IInv'
  <1> USE PlanAssumption DEF IInv, Shutdown, Suspended, Cut, files, locals, flags
  <1>1. TypeOK'
    BY DEF TypeOK, Checkpoint, Ended, Batch, Reasons
  <1> USE DEF TypeOK, Checkpoint
  <1>2. OneVerdict'
    BY DEF OneVerdict, Verdicts, Batch, Ended
  <1>3. Batch'
    BY DEF Batch, Ended
  <1>4. Verdicts'
    BY DEF Verdicts, Batch, OneVerdict, Ended
  <1>5. Reasons'
    BY DEF Reasons, Batch
  <1>6. Complete'
    BY DEF Complete, Settled, Reasons, Remaining
  <1>7. Ahead'
    BY DEF Ahead
  <1>8. Cause'
    BY DEF Cause, Why, Reasons, Batch, Ended, Verdicts
  <1> QED BY <1>1, <1>2, <1>3, <1>4, <1>5, <1>6, <1>7, <1>8

LEMMA ExitKeeps ==
    ASSUME IInv, Exit
    PROVE  IInv'
  <1> USE PlanAssumption DEF IInv, Exit, Die, Blank, files, locals, flags
  <1>1. TypeOK'
    BY DEF TypeOK, Checkpoint, Ended, Batch, Reasons
  <1> USE DEF TypeOK, Checkpoint
  <1>2. OneVerdict'
    BY DEF OneVerdict, Verdicts, Batch, Ended
  <1>3. Batch'
    BY DEF Batch, Ended
  <1>4. Verdicts'
    BY DEF Verdicts, Batch, OneVerdict, Ended
  <1>5. Reasons'
    BY DEF Reasons, Batch
  <1>6. Complete'
    BY DEF Complete, Settled, Reasons, Remaining
  <1>7. Ahead'
    BY DEF Ahead
  <1>8. Cause'
    BY DEF Cause, Why, Reasons, Batch, Ended, Verdicts
  <1> QED BY <1>1, <1>2, <1>3, <1>4, <1>5, <1>6, <1>7, <1>8

LEMMA ExitInFlushKeeps ==
    ASSUME IInv, ExitInFlush
    PROVE  IInv'
  <1> USE PlanAssumption DEF IInv, ExitInFlush, Die, Blank, FlushPhase, Recorded, files, locals, flags
  <1>1. TypeOK'
    BY DEF TypeOK, Checkpoint, Ended, Batch, Reasons
  <1> USE DEF TypeOK, Checkpoint
  <1>2. OneVerdict'
    BY DEF OneVerdict, Verdicts, Batch, Ended
  <1>3. Batch'
    BY DEF Batch, Ended
  <1>4. Verdicts'
    BY DEF Verdicts, Batch, OneVerdict, Ended
  <1>5. Reasons'
    BY DEF Reasons, Batch
  <1>6. Complete'
    BY DEF Complete, Settled, Reasons, Remaining
  <1>7. Ahead'
    BY DEF Ahead
  <1>8. Cause'
    BY DEF Cause, Why, Reasons, Batch, Ended, Verdicts
  <1> QED BY <1>1, <1>2, <1>3, <1>4, <1>5, <1>6, <1>7, <1>8
LEMMA StepKeeps == IInv /\ [Next]_vars => IInv'
  <1> SUFFICES ASSUME IInv, [Next]_vars PROVE IInv'
    OBVIOUS
  <1>1. CASE Launch \/ Boot \/ Shutdown \/ Exit \/ ExitInFlush
    BY <1>1, LaunchKeeps, ResumeKeeps, ShutdownKeeps, ExitKeeps, ExitInFlushKeeps DEF Boot
  <1>2. CASE Chief
    <2>1. ASSUME NEW n \in Node, Record(n) \/ RecordInterrupted(n) PROVE IInv'
      BY <2>1, RecordKeeps, RecordInterruptedKeeps
    <2>2. ASSUME NEW B \in SUBSET Node, StartBatch(B) PROVE IInv'
      BY <2>2, StartBatchKeeps
    <2>3. ASSUME NEW why \in {"cancelled", "window", "budget", "finished"}, Leave(why) PROVE IInv'
      BY <2>3, LeaveKeeps
    <2>4. ASSUME NEW why \in {"window", "budget"}, Deadline(why) PROVE IInv'
      BY <2>4, DeadlineKeeps
    <2>5. CASE GetSeat \/ LoseSeat \/ Continue \/ Expand \/ Pause \/ Reopen \/ PauseExpires
      BY <2>5, GetSeatKeeps, LoseSeatKeeps, ContinueKeeps, ExpandKeeps, PauseKeeps, ReopenKeeps,
         PauseExpiresKeeps
    <2>6. CASE \/ Collect \/ Interrupted \/ Reaped \/ ReapInterrupted \/ ReapRest \/ Flush
               \/ Break \/ Raised \/ Fail \/ Finalize
      BY <2>6, CollectKeeps, InterruptedKeeps, ReapedKeeps, ReapInterruptedKeeps, ReapRestKeeps,
         FlushKeeps, BreakKeeps, RaisedKeeps, FailKeeps, FinalizeKeeps
    <2> QED BY <1>2, <2>1, <2>2, <2>3, <2>4, <2>5, <2>6 DEF Chief
  <1>3. ASSUME NEW n \in Node, NEW r \in Ended, Ends(n, r) PROVE IInv'
    BY <1>3, EndsKeeps
  <1>4. CASE User
    <2>1. ASSUME NEW n \in Node, StopNode(n) PROVE IInv'
      BY <2>1, StopNodeKeeps
    <2>2. ASSUME NEW settle \in {"quiet", "cancelled"}, StopDesk(settle) PROVE IInv'
      BY <2>2, StopDeskKeeps
    <2>3. CASE StopRun \/ StartAgain
      BY <2>3, StopRunKeeps, ResumeKeeps DEF StartAgain
    <2> QED BY <1>4, <2>1, <2>2, <2>3 DEF User
  <1>5. CASE UNCHANGED vars
    BY <1>5 DEF vars, IInv, TypeOK, OneVerdict, Batch, Verdicts, Reasons, Complete, Ahead, Cause,
                Why, Settled
  <1> QED BY <1>1, <1>2, <1>3, <1>4, <1>5 DEF Next

LEMMA Invariance == Spec => []IInv
  BY InitInv, StepKeeps, PTL DEF Spec

-----------------------------------------------------------------------------
(***************************************************************************)
(* Why the chief never waits for nothing.  Grounded says that the          *)
(* dependencies form no cycle, as rewired and repaired so far: whatever    *)
(* nodes are left, one of them waits for none of the others.  Known says   *)
(* that a node that is left waits only for nodes of the plan and for nodes *)
(* that are settled already: compaction may drop those, and a resume       *)
(* forgets the dependency together with the settled node.                  *)
(***************************************************************************)
Grounded == \A S \in SUBSET Node : S # {} => \E n \in S : needs[n] \cap S = {}

Known == pc \notin {"none", "down"}
             => \A n \in Remaining : needs[n] \subseteq plan \cup Settled(mem)

\* What is settled stays so within a life.
LEMMA IngestSettles ==
    ASSUME TypeOK, NEW n \in Node, Ingest(n)
    PROVE  Settled(mem) \subseteq Settled(mem')
  <1>1. CASE task[n] = "cut"
    BY <1>1 DEF Ingest, Settled, TypeOK
  <1>2. CASE task[n] # "cut"
    <2>1. PICK R, D, F : /\ mem' = [mem EXCEPT !.results = R, !.done = D, !.failed = F]
                         /\ mem.done \subseteq D /\ mem.failed \subseteq F
      <3>1. /\ mem.done \subseteq (IF task[n] = "ok" THEN mem.done \cup {n} ELSE mem.done)
            /\ mem.failed \subseteq (IF task[n] = "bad" THEN mem.failed \cup {n} ELSE mem.failed)
        OBVIOUS
      <3> QED BY <1>2, <3>1 DEF Ingest
    <2> QED BY <2>1 DEF Settled, TypeOK
  <1> QED BY <1>1, <1>2

\* Compaction drops settled nodes and nothing else.
LEMMA CompactedKeeps ==
    ASSUME NEW m, NEW p \in Compacted(m)
    PROVE  plan \ Settled(m) \subseteq p /\ p \subseteq plan
  BY DEF Compacted

\* A step that rewires nothing, forgets nothing that is settled and drops only
\* that keeps both.
LEMMA Undisturbed ==
    ASSUME Grounded, Known, UNCHANGED needs,
           pc' \notin {"none", "down"} => pc \notin {"none", "down"},
           pc' \notin {"none", "down"} =>
               /\ Settled(mem) \subseteq Settled(mem')
               /\ plan \ Settled(mem') \subseteq plan' /\ plan' \subseteq plan
    PROVE  Grounded' /\ Known'
  BY DEF Grounded, Known, Remaining, Settled

\* A wave waits only for itself, and nothing in it goes round in a circle.
LEMMA WaveGrounded ==
    ASSUME Grounded,
           \A n \in Wave : needs'[n] = needsOf[n],
           \A n \in Node \ Wave : needs'[n] \subseteq Wave \/ needs'[n] = needs[n]
    PROVE  Grounded'
  <1> SUFFICES ASSUME NEW S \in SUBSET Node, S # {} PROVE \E n \in S : needs'[n] \cap S = {}
    BY DEF Grounded
  <1>1. CASE S \cap Wave # {}
    <2>1. PICK n \in S \cap Wave : needsOf[n] \cap (S \cap Wave) = {}
      BY <1>1, PlanAssumption
    <2>2. needsOf[n] \subseteq Wave
      BY PlanAssumption
    <2> QED BY <2>1, <2>2
  <1>2. CASE S \cap Wave = {} /\ \E n \in S : needs'[n] \subseteq Wave
    BY <1>2
  <1>3. CASE S \cap Wave = {} /\ \A n \in S : needs'[n] = needs[n]
    BY <1>3 DEF Grounded
  <1> QED BY <1>1, <1>2, <1>3

LEMMA WaveKnown ==
    ASSUME Known, pc \notin {"none", "down"}, UNCHANGED mem, plan' = plan \cup Wave,
           \A n \in Wave : needs'[n] = needsOf[n],
           \A n \in plan \ Wave : needs'[n] \subseteq Wave \/ needs'[n] = needs[n]
    PROVE  Known'
  BY PlanAssumption DEF Known, Remaining, Settled

LEMMA ResumeUnblocks ==
    ASSUME TypeOK, Grounded, Resume PROVE Grounded' /\ Known'
  <1>1. UNCHANGED plan /\ \A n \in Node : needs'[n] = needs[n] \cap plan
    BY DEF Resume, Repaired
  <1>2. plan \subseteq Node
    BY DEF TypeOK
  <1>3. Grounded'
    BY <1>1 DEF Grounded
  <1>4. Known'
    BY <1>1, <1>2 DEF Known, Remaining
  <1> QED BY <1>3, <1>4

LEMMA ChiefUnblocks ==
    ASSUME TypeOK, Grounded, Known, Chief PROVE Grounded' /\ Known'
  <1>1. CASE Continue
    BY <1>1, WaveGrounded, WaveKnown, PlanAssumption DEF Continue, TypeOK
  <1>2. CASE Expand
    <2> DEFINE verifier == {v \in Wave : \A n \in Wave : v \notin needsOf[n]}
    <2>1. needs' = [n \in Node |-> IF n \in Wave THEN needsOf[n]
                                   ELSE IF n \in Synth \cap plan THEN verifier ELSE needs[n]]
      BY <1>2 DEF Expand
    <2>2. verifier \subseteq Wave /\ plan \subseteq Node /\ Wave \subseteq Node
      BY PlanAssumption DEF TypeOK
    <2> HIDE DEF verifier
    <2>3. /\ \A n \in Wave : needs'[n] = needsOf[n]
          /\ \A n \in Node \ Wave : needs'[n] \subseteq Wave \/ needs'[n] = needs[n]
      BY <2>1, <2>2
    <2>4. pc \notin {"none", "down"} /\ UNCHANGED mem /\ plan' = plan \cup Wave
      BY <1>2 DEF Expand
    <2> QED BY <2>2, <2>3, <2>4, WaveGrounded, WaveKnown
  <1>3. ASSUME NEW n \in Node, Record(n) PROVE Grounded' /\ Known'
    <2>1. Settled(mem) \subseteq Settled(mem') /\ UNCHANGED <<needs, pc>>
      BY <1>3, IngestSettles DEF Record
    <2>2. plan' = plan \/ plan' \in Compacted(mem')
      BY <1>3 DEF Record
    <2>3. plan \ Settled(mem') \subseteq plan' /\ plan' \subseteq plan
      BY <2>2, CompactedKeeps
    <2> QED BY <2>1, <2>3, Undisturbed
  <1>4. ASSUME NEW n \in Node, RecordInterrupted(n) PROVE Grounded' /\ Known'
    <2>1. Settled(mem) \subseteq Settled(mem') /\ UNCHANGED <<needs, plan>> /\ pc = "collect"
      BY <1>4, IngestSettles DEF RecordInterrupted, files
    <2> QED BY <2>1, Undisturbed
  <1>5. CASE \/ GetSeat \/ LoseSeat \/ Pause \/ Reopen \/ PauseExpires
             \/ \E why \in {"cancelled", "window", "budget", "finished"} : Leave(why)
             \/ \E B \in SUBSET Node : StartBatch(B)
    <2>1. UNCHANGED <<needs, plan, mem>> /\ pc \notin {"none", "down"}
      BY <1>5 DEF GetSeat, LoseSeat, Pause, Reopen, PauseExpires, Leave, StartBatch, files
    <2> QED BY <2>1, Undisturbed
  <1>6. CASE \/ Collect \/ Interrupted \/ Reaped \/ ReapInterrupted \/ ReapRest \/ Flush
             \/ Break \/ Raised \/ Fail \/ Finalize
             \/ \E why \in {"window", "budget"} : Deadline(why)
    <2>1. UNCHANGED <<needs, plan, mem>> /\ pc \notin {"none", "down"}
      BY <1>6 DEF Collect, Interrupted, Reaped, ReapInterrupted, ReapRest, Flush, Break, Raised,
                  Fail, Finalize, Deadline, Recorded, files
    <2> QED BY <2>1, Undisturbed
  <1> QED BY <1>1, <1>2, <1>3, <1>4, <1>5, <1>6 DEF Chief

LEMMA UnblockedKeeps ==
    ASSUME TypeOK, Grounded, Known, pc = "none" => needs = needsOf,
           [Next]_vars
    PROVE  Grounded' /\ Known' /\ (pc' = "none" => needs' = needsOf)
  <1>1. pc' = "none" => pc = "none" /\ UNCHANGED needs
    BY DEF Next, Launch, Boot, StartAgain, Resume, Chief, User, GetSeat, LoseSeat, Pause, Reopen,
           PauseExpires, Leave, StartBatch, Continue, Expand, Record, RecordInterrupted, Collect,
           Interrupted, Reaped, ReapInterrupted, ReapRest, Reap, Flush, Break, Raised, Fail, Finalize,
           Deadline, Recorded, Ends, StopRun, StopNode, StopDesk, Shutdown, Exit, ExitInFlush, Die,
           files, vars, Suspended
  <1>2. CASE Launch
    <2>1. pc' = "seat" /\ UNCHANGED <<needs, mem>> /\ plan' = Initial /\ needs = needsOf
      BY <1>2 DEF Launch
    <2>2. Grounded'
      BY <2>1 DEF Grounded
    <2>3. Known'
      BY <2>1, PlanAssumption DEF Known, Remaining
    <2> QED BY <2>1, <2>2, <2>3
  <1>3. CASE Chief
    BY <1>1, <1>3, ChiefUnblocks
  <1>4. CASE Boot \/ StartAgain
    <2>1. Resume
      BY <1>4 DEF Boot, StartAgain
    <2> QED BY <1>1, <2>1, ResumeUnblocks
  <1>5. CASE Shutdown \/ StopRun \/ (\E n \in Node : StopNode(n))
             \/ (\E settle \in {"quiet", "cancelled"} : StopDesk(settle))
             \/ (\E n \in Node, r \in Ended : Ends(n, r)) \/ UNCHANGED vars
    <2>1. UNCHANGED <<needs, plan, mem, pc>>
      BY <1>5 DEF Shutdown, StopRun, StopNode, StopDesk, Ends, files, vars
    <2> QED BY <1>1, <2>1, Undisturbed
  <1>6. CASE Exit \/ ExitInFlush
    <2>1. UNCHANGED needs /\ pc' = "down"
      BY <1>6 DEF Exit, ExitInFlush, Die, files
    <2> QED BY <2>1, Undisturbed
  <1> QED BY <1>2, <1>3, <1>4, <1>5, <1>6 DEF Next, User

-----------------------------------------------------------------------------
\* What a step writes to the checkpoint comes from memory and only adds to what
\* is completed there; and a task that starts is of a node not completed.
Writes ==
    /\ disk'.failed \subseteq mem.failed \cup disk.failed
    /\ disk.done \subseteq disk'.done
Starts == \A n \in Node : task'[n] = "run" => task[n] = "run" \/ n \notin disk.done

LEMMA SaveWrites ==
    ASSUME IInv, pc # "down", NEW ph, Save(ph)
    PROVE  Writes
  BY DEF IInv, Ahead, Save, Writes

LEMMA NextWrites == IInv /\ [Next]_vars => Writes
  <1> SUFFICES ASSUME IInv, [Next]_vars PROVE Writes
    OBVIOUS
  <1>1. CASE UNCHANGED disk
    BY <1>1 DEF Writes
  <1>2. CASE Launch
    BY <1>2, SaveWrites DEF Launch
  <1>3. CASE Boot \/ StartAgain
    <2>1. disk'.done = disk.done /\ disk'.failed = disk.failed
      BY <1>3 DEF Boot, StartAgain, Resume, Restored
    <2> QED BY <2>1 DEF Writes
  <1>4. CASE ExitInFlush
    <2>1. disk.done \subseteq mem.done
      BY <1>4 DEF ExitInFlush, Recorded, IInv, Ahead
    <2>2. disk'.done = mem.done /\ disk'.failed = mem.failed
      BY <1>4 DEF ExitInFlush, IInv, TypeOK, Checkpoint
    <2> QED BY <2>1, <2>2 DEF Writes
  <1>5. CASE Expand \/ Pause \/ Reopen \/ Flush \/ Raised \/ Finalize
    <2>1. pc # "down"
      BY <1>5 DEF Expand, Pause, Reopen, Flush, Raised, Finalize, Recorded
    <2>2. \E ph : Save(ph)
      BY <1>5 DEF Expand, Pause, Reopen, Flush, Raised, Finalize
    <2> QED BY <2>1, <2>2, SaveWrites
  <1>6. CASE Chief /\ ~(Expand \/ Pause \/ Reopen \/ Flush \/ Raised \/ Finalize)
    BY <1>1, <1>6 DEF Chief, files, GetSeat, LoseSeat, Leave, Continue, StartBatch, PauseExpires,
          Collect, Interrupted, Reaped, ReapInterrupted, Deadline, Record, RecordInterrupted,
          ReapRest, Break, Fail
  <1>7. ASSUME NEW settle \in {"quiet", "cancelled"}, StopDesk(settle) PROVE Writes
    <2>1. disk'.done = disk.done /\ disk'.failed = disk.failed
      BY <1>7 DEF StopDesk, Mark, IInv, TypeOK, Checkpoint
    <2> QED BY <2>1 DEF Writes
  <1>8. CASE User /\ ~StartAgain /\ ~\E settle \in {"quiet", "cancelled"} : StopDesk(settle)
    BY <1>1, <1>8 DEF User, StopRun, StopNode, files
  <1>9. CASE Shutdown \/ Exit \/ \E n \in Node, r \in Ended : Ends(n, r)
    BY <1>1, <1>9 DEF Shutdown, Exit, Ends, files
  <1>10. CASE UNCHANGED vars
    BY <1>1, <1>10 DEF vars
  <1> QED BY <1>2, <1>3, <1>4, <1>5, <1>6, <1>7, <1>8, <1>9, <1>10 DEF Next, User

LEMMA NextStarts == IInv /\ [Next]_vars => Starts
  <1> SUFFICES ASSUME IInv, [Next]_vars PROVE Starts
    OBVIOUS
  <1> USE DEF Starts
  <1>1. CASE UNCHANGED task
    BY <1>1
  <1>2. ASSUME NEW B \in SUBSET Node, StartBatch(B) PROVE Starts
    <2>1. \A n \in B : n \notin disk.done
      BY <1>2 DEF StartBatch, Ready, Remaining, Settled, IInv, Ahead
    <2> QED BY <1>2, <2>1 DEF StartBatch
  <1>3. CASE \E S \in SUBSET Node : task' = Cut(S)
    BY <1>3 DEF Cut
  <1>4. CASE Blank
    BY <1>4 DEF Blank
  <1>5. CASE Chief /\ ~\E B \in SUBSET Node : StartBatch(B)
    <2>1. pend \subseteq Node /\ fresh \subseteq Node
      BY DEF IInv, TypeOK
    <2>2. CASE \/ Interrupted \/ ReapRest \/ \E why \in {"window", "budget"} : Deadline(why)
      BY <1>3, <2>1, <2>2 DEF Interrupted, ReapRest, Deadline, Reap
    <2>3. CASE \E n \in Node : RecordInterrupted(n)
      <3>1. UNCHANGED task \/ task' = Cut(pend) \/ task' = Cut(fresh)
        BY <2>3 DEF RecordInterrupted
      <3> QED BY <1>1, <1>3, <2>1, <3>1
    <2>4. CASE \/ GetSeat \/ LoseSeat \/ Continue \/ Expand \/ Pause \/ Reopen \/ PauseExpires
               \/ Collect \/ Reaped \/ ReapInterrupted \/ Flush \/ Break \/ Raised \/ Fail \/ Finalize
               \/ \E why \in {"cancelled", "window", "budget", "finished"} : Leave(why)
               \/ \E n \in Node : Record(n)
      BY <1>1, <2>4 DEF GetSeat, LoseSeat, Continue, Expand, Pause, Reopen, PauseExpires,
            Collect, Reaped, ReapInterrupted, Flush, Break, Raised, Fail, Finalize, Leave, Record
    <2> QED BY <1>5, <2>2, <2>3, <2>4 DEF Chief
  <1>6. CASE User
    <2>1. CASE StopRun
      BY <1>1, <2>1 DEF StopRun
    <2>2. CASE StartAgain
      BY <1>4, <2>2 DEF StartAgain, Resume
    <2>3. ASSUME NEW n \in Node, StopNode(n) PROVE Starts
      BY <1>3, <2>3 DEF StopNode
    <2>4. ASSUME NEW settle \in {"quiet", "cancelled"}, StopDesk(settle) PROVE Starts
      BY <1>3, <2>4 DEF StopDesk
    <2> QED BY <1>6, <2>1, <2>2, <2>3, <2>4 DEF User
  <1>7. CASE Launch \/ UNCHANGED vars
    BY <1>1, <1>7 DEF Launch, vars
  <1>8. CASE Boot \/ Exit \/ ExitInFlush
    BY <1>4, <1>8 DEF Boot, Resume, Exit, ExitInFlush, Die
  <1>9. CASE Shutdown
    BY <1>3, <1>9 DEF Shutdown
  <1>10. ASSUME NEW n \in Node, NEW r \in Ended, Ends(n, r) PROVE Starts
    BY <1>10 DEF Ends, IInv, TypeOK, Ended
  <1> QED BY <1>2, <1>5, <1>6, <1>7, <1>8, <1>9, <1>10 DEF Next

-----------------------------------------------------------------------------
(***************************************************************************)
(* The run as its user sees it.  What OneRun needs to know beyond IInv:    *)
(*   Resting   nobody works before the chief has its seat                  *)
(*   Raising   the reap of the except clause leads out of execute()        *)
(*   Tended    up to there a child that goes on is in the chief's hands,   *)
(*             and so is one that ended well until memory has it           *)
(*   Quiet     when a run is completed nobody works, and all that was      *)
(*             worked out is in memory, then on disk                       *)
(*   Earned    memory calls completed what ended well in this life, or     *)
(*             what the checkpoint has                                     *)
(*   Opened    the checkpoint begins with the run                          *)
(***************************************************************************)
Resting == pc \in {"none", "down", "seat"} => \A n \in Node : task[n] = "idle"

Raising == after = "raise" => pc \in {"reap", "collect", "final", "ended"}

Tended == pc \notin {"final", "ended"} /\ after # "raise" =>
    \A n \in Node : /\ task[n] \in Busy => n \in pend
                    /\ task[n] = "ok" => n \in pend \cup fresh \cup mem.done

Quiet ==
    /\ pc = "final" /\ ~cancelled /\ stop # "window" /\ ~err =>
           \A n \in Node : task[n] \notin Busy /\ (task[n] = "ok" => n \in mem.done)
    /\ disk.phase = "completed" =>
           \A n \in Node : task[n] \notin Busy /\ (task[n] = "ok" => n \in disk.done)

Earned == \A n \in mem.done : /\ task[n] \in {"ok", "idle"}
                              /\ n \notin disk.done => task[n] = "ok"

Opened ==
    /\ pc = "none" <=> disk.phase = "none"
    /\ pc = "none" => disk.done = {}

RInv == Resting /\ Raising /\ Tended /\ Quiet /\ Earned /\ Opened

LEMMA InitRInv == Init => RInv
  BY DEF Init, RInv, Resting, Raising, Tended, Quiet, Earned, Opened, Busy

\* The steps of the chief that leave tasks, memory and checkpoint alone.
LEMMA ChiefMovesKeep ==
    ASSUME IInv, RInv,
           \/ GetSeat \/ LoseSeat \/ Continue \/ PauseExpires \/ Collect \/ Reaped
           \/ ReapInterrupted \/ Break \/ Fail
           \/ \E why \in {"cancelled", "window", "budget", "finished"} : Leave(why)
    PROVE  RInv'
  <1> USE DEF IInv, RInv, files, locals, flags
  <1>a. UNCHANGED <<disk, mem, task>>
    BY DEF GetSeat, LoseSeat, Continue, PauseExpires, Collect, Reaped, ReapInterrupted, Break, Fail, Leave
  <1> USE DEF GetSeat, LoseSeat, Continue, PauseExpires, Collect, Reaped, ReapInterrupted, Break, Fail,
              Leave, Recorded
  <1>1. Resting' /\ Raising'
    BY DEF Resting, Raising
  <1>2. Tended'
    <2>1. CASE Collect \/ Reaped
      <3>1. Busy \cap Ended = {}
        BY DEF Busy, Ended
      <3>2. fresh = {} /\ after' = after /\ pend \subseteq pend' \cup fresh'
        BY <2>1 DEF Batch
      <3>3. \A n \in fresh' : task[n] \in Ended
        BY <2>1
      <3>4. Tended => pc \notin {"final", "ended"} /\ (after # "raise" => \A n \in Node :
                /\ task[n] \in Busy => n \in pend
                /\ task[n] = "ok" => n \in pend \cup fresh \cup mem.done)
        BY <2>1 DEF Tended
      <3> QED BY <1>a, <3>1, <3>2, <3>3, <3>4 DEF Tended
    <2>2. CASE ReapInterrupted
      BY <2>2 DEF Tended
    <2>3. CASE GetSeat \/ Continue
      BY <2>3 DEF Tended, Batch
    <2>4. CASE pc' \in {"final", "ended"}
      BY <2>4 DEF Tended
    <2> QED BY <2>1, <2>2, <2>3, <2>4
  <1>3. Quiet'
    BY DEF Quiet, Tended, Raising, Batch, Reasons
  <1>4. Earned' /\ Opened'
    BY DEF Earned, Opened
  <1> QED BY <1>1, <1>2, <1>3, <1>4

\* Those that save a checkpoint.
LEMMA ChiefSavesKeep ==
    ASSUME IInv, RInv, Expand \/ Pause \/ Reopen \/ Flush \/ Raised \/ Finalize
    PROVE  RInv'
  <1> USE DEF IInv, RInv, files, locals, flags
  <1>a. /\ UNCHANGED <<mem, task, pend, fresh, after>>
        /\ disk'.done = mem.done
    BY DEF Expand, Pause, Reopen, Flush, Raised, Finalize, Save
  <1>b. disk'.phase # "none" /\ (disk'.phase = "completed" => Finalize /\ EndPhase = "completed")
    BY DEF Expand, Pause, Reopen, Flush, Raised, Finalize, Save, EndPhase, FlushPhase
  <1>c. pc \notin {"none", "seat", "down"} /\ pc' \notin {"none", "seat", "down"}
    BY DEF Expand, Pause, Reopen, Flush, Raised, Finalize, Recorded
  <1>1. Resting' /\ Earned' /\ Opened'
    BY <1>a, <1>b, <1>c DEF Resting, Earned, Opened
  <1>2. Raising'
    BY <1>a DEF Raising, Expand, Pause, Reopen, Flush, Raised, Finalize, Recorded
  <1>3. Tended'
    BY <1>a DEF Tended, Expand, Pause, Reopen, Flush, Raised, Finalize, Recorded
  <1>4. Quiet'
    <2>1. Finalize /\ EndPhase = "completed" =>
              \A n \in Node : task[n] \notin Busy /\ (task[n] = "ok" => n \in mem.done)
      BY DEF Finalize, EndPhase, Quiet
    <2>2. pc' = "final" => cancelled' \/ err' \/ stop' = "window"
      BY DEF Expand, Pause, Reopen, Flush, Raised, Finalize, Reasons, Recorded
    <2> QED BY <1>a, <1>b, <2>1, <2>2 DEF Quiet
  <1> QED BY <1>1, <1>2, <1>3, <1>4

\* Those that start or cut children.
LEMMA ChiefCutsKeep ==
    ASSUME IInv, RInv,
           \/ \E B \in SUBSET Node : StartBatch(B)
           \/ \E why \in {"window", "budget"} : Deadline(why)
           \/ Interrupted \/ ReapRest
    PROVE  RInv'
  <1> USE DEF IInv, RInv, files, locals, flags, Busy
  <1>a. UNCHANGED <<disk, mem>>
    BY DEF StartBatch, Deadline, Interrupted, ReapRest
  <1>1. ASSUME NEW B \in SUBSET Node, StartBatch(B) PROVE RInv'
    <2> USE <1>a, <1>1 DEF StartBatch
    <2>a. \A n \in B : n \notin mem.done
      BY DEF Ready, Remaining, Settled
    <2>1. Resting' /\ Raising' /\ Opened'
      BY DEF Resting, Raising, Opened
    <2>2. Tended'
      BY DEF Tended, Raising, Batch, Ready, Remaining
    <2>3. Quiet'
      BY DEF Quiet, Complete
    <2>4. Earned'
      BY <2>a DEF Earned, TypeOK
    <2> QED BY <2>1, <2>2, <2>3, <2>4
  <1>2. ASSUME task' = Cut(pend), pc' = "reap", pc \in {"await", "reap", "collect"}, UNCHANGED <<pend, fresh>>,
               after' \in {"none", "flush", "break", "raise"}, after' # "raise" => after # "raise"
        PROVE  RInv'
    <2> USE <1>a, <1>2 DEF Cut
    <2>1. Resting' /\ Raising' /\ Opened'
      BY DEF Resting, Raising, Opened
    <2>2. Tended'
      BY DEF Tended
    <2>3. Quiet'
      BY DEF Quiet, Complete
    <2>4. Earned'
      BY DEF Earned, TypeOK
    <2> QED BY <2>1, <2>2, <2>3, <2>4
  <1>3. CASE (\E why \in {"window", "budget"} : Deadline(why)) \/ Interrupted \/ ReapRest
    <2>1. /\ task' = Cut(pend) /\ pc' = "reap" /\ pc \in {"await", "reap", "collect"}
          /\ UNCHANGED <<pend, fresh>> /\ after' \in {"flush", "break", "raise"}
          /\ after' # "raise" => after # "raise"
      BY <1>3 DEF Deadline, Interrupted, ReapRest, Reap, Recorded, TypeOK, Raising, Batch, Reasons
    <2> QED BY <1>2, <2>1
  <1> QED BY <1>1, <1>3

\* Those that record a child.
LEMMA ChiefRecordsKeep ==
    ASSUME IInv, RInv, NEW n \in Node, Record(n) \/ RecordInterrupted(n)
    PROVE  RInv'
  <1> USE DEF IInv, RInv
  <1>1. UNCHANGED disk /\ pc = "collect" /\ pc' \in {"collect", "reap"} /\ disk.phase # "completed"
    BY DEF Record, RecordInterrupted, files, Complete
  <1>2. mem'.done = mem.done \cup (IF task[n] = "ok" THEN {n} ELSE {})
    BY Ingests DEF Record, RecordInterrupted, Adds
  <1>3. \A m \in Node : task'[m] = task[m] \/ (task[m] = "run" /\ task'[m] = "cutting")
    BY DEF Record, RecordInterrupted, Cut
  <1>4. Resting' /\ Quiet' /\ Opened'
    BY <1>1 DEF Resting, Quiet, Opened
  <1>5. Earned'
    BY <1>1, <1>2, <1>3 DEF Earned, TypeOK
  <1>6. CASE Record(n)
    <2>1. UNCHANGED <<task, pend, after, pc>> /\ fresh' = fresh \ {n}
      BY <1>6 DEF Record
    <2>2. Raising' /\ Tended'
      BY <1>2, <2>1 DEF Raising, Tended
    <2> QED BY <1>4, <1>5, <2>2
  <1>7. CASE RecordInterrupted(n)
    <2>1. after' = "raise"
      BY <1>7 DEF RecordInterrupted
    <2>2. Raising' /\ Tended'
      BY <1>1, <2>1 DEF Raising, Tended
    <2> QED BY <1>4, <1>5, <2>2
  <1> QED BY <1>6, <1>7

\* A child ends, or is cut by the user or the shutdown.
LEMMA ChildrenKeep ==
    ASSUME IInv, RInv,
           \/ \E n \in Node, r \in Ended : Ends(n, r)
           \/ \E n \in Node : StopNode(n)
           \/ \E settle \in {"quiet", "cancelled"} : StopDesk(settle)
           \/ Shutdown \/ StopRun
    PROVE  RInv'
  <1> USE DEF IInv, RInv
  <1>1. UNCHANGED <<pc, mem, pend, fresh, after, cancelled, stop, err>>
    BY DEF Ends, StopNode, StopDesk, Shutdown, StopRun, locals
  <1>2. /\ disk'.done = disk.done
        /\ disk'.phase = "completed" <=> disk.phase = "completed"
        /\ disk'.phase = "none" => disk.phase = "none"
    BY DEF Ends, StopNode, StopDesk, Shutdown, StopRun, files, Mark, TypeOK, Checkpoint
  <1>3. pc = "none" => UNCHANGED disk
    BY DEF Ends, StopDesk, StopNode, Shutdown, StopRun, files, Suspended
  <1>4. \A n \in Node : \/ task'[n] = task[n]
                        \/ task[n] = "run" /\ task'[n] \in {"cutting", "ok", "bad"}
                        \/ task[n] = "cutting" /\ task'[n] = "cut"
    <2>1. ASSUME NEW n \in Node, NEW r \in Ended, Ends(n, r)
          PROVE  \A m \in Node : \/ task'[m] = task[m]
                                 \/ task[m] = "run" /\ task'[m] \in {"ok", "bad"}
                                 \/ task[m] = "cutting" /\ task'[m] = "cut"
      BY <2>1 DEF Ends, TypeOK
    <2>2. CASE UNCHANGED task \/ \E S \in SUBSET Node : task' = Cut(S)
      BY <2>2 DEF Cut
    <2>3. ASSUME NEW n \in Node, StopNode(n) PROVE \E S \in SUBSET Node : task' = Cut(S)
      BY <2>3 DEF StopNode
    <2>4. CASE Shutdown \/ \E settle \in {"quiet", "cancelled"} : StopDesk(settle)
      BY <2>2, <2>4 DEF Shutdown, StopDesk
    <2> QED BY <2>1, <2>2, <2>3, <2>4 DEF StopRun
  <1>5. Resting' /\ Raising'
    BY <1>1, <1>4 DEF Resting, Raising
  <1>6. Earned' /\ Opened'
    <2>1. mem.done \subseteq Node
      BY DEF TypeOK
    <2>2. Earned'
      BY <1>1, <1>2, <1>4, <2>1 DEF Earned
    <2>3. Opened'
      BY <1>1, <1>2, <1>3 DEF Opened
    <2> QED BY <2>2, <2>3
  <1>7. Tended'
    BY <1>1, <1>4 DEF Tended, Busy
  <1>8. Quiet'
    BY <1>1, <1>2, <1>4 DEF Quiet, Busy
  <1> QED BY <1>5, <1>6, <1>7, <1>8

\* The run begins, a life ends, or another one begins.
LEMMA LivesKeep ==
    ASSUME IInv, RInv, Launch \/ Boot \/ StartAgain \/ Exit \/ ExitInFlush
    PROVE  RInv'
  <1> USE DEF IInv, RInv
  <1>1. CASE Launch
    <2>1. /\ pc = "none" /\ pc' = "seat" /\ UNCHANGED <<mem, task, after>>
          /\ disk'.done = mem.done /\ disk'.phase = "running"
      BY <1>1 DEF Launch, Save
    <2>2. after # "raise" /\ \A n \in Node : task'[n] = "idle"
      BY <2>1 DEF Resting, Raising
    <2> QED BY <2>1, <2>2 DEF Resting, Raising, Tended, Quiet, Earned, Opened, Busy
  <1>2. CASE Boot \/ StartAgain
    <2>1. /\ pc' = "seat" /\ after' = "none" /\ \A n \in Node : task'[n] = "idle"
          /\ mem'.done = disk.done /\ disk'.done = disk.done /\ disk'.phase = "running"
          /\ disk.done \subseteq Node
      BY <1>2 DEF Boot, StartAgain, Resume, Restored, Blank, TypeOK, Checkpoint
    <2> QED BY <2>1 DEF Resting, Raising, Tended, Quiet, Earned, Opened, Busy
  <1>3. CASE Exit \/ ExitInFlush
    <2>1. /\ pc # "none" /\ pc' = "down" /\ after' = "none" /\ \A n \in Node : task'[n] = "idle"
          /\ mem'.done = {}
      BY <1>3 DEF Exit, ExitInFlush, Die, Blank, Recorded
    <2>2. CASE Exit
      BY <2>1, <2>2 DEF Exit, files, Resting, Raising, Tended, Quiet, Earned, Opened, Busy
    <2>3. CASE ExitInFlush
      <3>1. disk'.phase = FlushPhase
        BY <2>3 DEF ExitInFlush, TypeOK, Checkpoint
      <3>2. disk'.phase \notin {"none", "completed"}
        BY <3>1 DEF FlushPhase
      <3> QED BY <2>1, <3>2 DEF Resting, Raising, Tended, Quiet, Earned, Opened, Busy
    <2> QED BY <1>3, <2>2, <2>3
  <1> QED BY <1>1, <1>2, <1>3

LEMMA OneRunKeeps == IInv /\ RInv /\ [Next]_vars => RInv'
  <1> SUFFICES ASSUME IInv, RInv, [Next]_vars PROVE RInv'
    OBVIOUS
  <1>1. CASE Chief
    <2>1. ASSUME NEW n \in Node, Record(n) \/ RecordInterrupted(n) PROVE RInv'
      BY <2>1, ChiefRecordsKeep
    <2> QED BY <1>1, <2>1, ChiefMovesKeep, ChiefSavesKeep, ChiefCutsKeep DEF Chief
  <1>2. CASE UNCHANGED vars
    BY <1>2 DEF RInv, Resting, Raising, Tended, Quiet, Earned, Opened, vars
  <1> QED BY <1>1, <1>2, ChildrenKeep, LivesKeep DEF Next, User

\* The step of OneRun, or none, that a step of the run is to its user.
RunStep == [Run!Next]_<<Outcome, [n \in Node |-> NodeState(n)]>>

LEMMA StandsStill ==
    ASSUME Outcome' = Outcome, \A n \in Node : NodeState(n)' = NodeState(n)
    PROVE  RunStep
  BY DEF RunStep

\* The nodes of S go on to another state and the others stand still.
LEMMA MoveOn ==
    ASSUME NEW S \in SUBSET Node, NEW state, Outcome = "open", Outcome' = "open",
           \A n \in Node : NodeState(n)' = IF n \in S THEN state ELSE NodeState(n),
           \/ state = "working" /\ \A n \in S : NodeState(n) = "waiting"
           \/ state = "saved" /\ \A n \in S : NodeState(n) = "worked"
           \/ /\ state \in {"worked", "waiting"}
              /\ \E n \in Node : S = {n} /\ NodeState(n) = "working"
    PROVE  RunStep
  <1> DEFINE node == [n \in Node |-> NodeState(n)]
  <1>1. node' = [n \in Node |-> IF n \in S THEN state ELSE node[n]]
    OBVIOUS
  <1>2. \A n \in Node : node[n] = NodeState(n)
    OBVIOUS
  <1> HIDE DEF node
  <1>3. CASE state = "working" /\ \A n \in S : NodeState(n) = "waiting"
    <2>1. Run!Start(S)
      BY <1>1, <1>2, <1>3 DEF node, Run!Start, Run!Going, Run!Becomes
    <2> QED BY <2>1 DEF RunStep, Run!Next
  <1>4. CASE state = "saved" /\ \A n \in S : NodeState(n) = "worked"
    <2>1. Run!Save(S)
      BY <1>1, <1>2, <1>4 DEF node, Run!Save, Run!Going, Run!Becomes
    <2> QED BY <2>1 DEF RunStep, Run!Next
  <1>5. ASSUME NEW n \in Node, S = {n}, NodeState(n) = "working", state \in {"worked", "waiting"}
        PROVE  RunStep
    <2>1. Run!End(n, state)
      BY <1>1, <1>2, <1>5 DEF node, Run!End, Run!Going, Run!Becomes
    <2>2. state \in Run!States
      BY <1>5 DEF Run!States
    <2> QED BY <2>1, <2>2 DEF RunStep, Run!Next
  <1> QED BY <1>3, <1>4, <1>5

\* While execute() is under way the run is open; and nobody works on a node
\* that the checkpoint has.
LEMMA UnderWay ==
    ASSUME IInv, RInv, pc \notin {"none", "ended", "down"}
    PROVE  Outcome = "open"
  BY DEF IInv, Complete, RInv, Opened, Outcome

LEMMA SavedRests ==
    ASSUME IInv, RInv, NEW n \in disk.done
    PROVE  n \in Node /\ task[n] \in {"ok", "idle"} /\ NodeState(n) = "saved"
  <1>1. n \in Node
    BY DEF IInv, TypeOK, Checkpoint
  <1>2. task[n] \in {"ok", "idle"}
    BY <1>1 DEF IInv, Ahead, RInv, Earned, Resting
  <1> QED BY <1>1, <1>2 DEF NodeState, Busy

LEMMA EarnedState ==
    ASSUME IInv, RInv, NEW n \in mem.done \ disk.done
    PROVE  n \in Node /\ NodeState(n) = "worked"
  <1>1. n \in Node /\ task[n] = "ok"
    BY DEF IInv, TypeOK, RInv, Earned
  <1> QED BY <1>1 DEF NodeState, Busy

\* The steps the user does not see: no child starts or ends, nothing is saved.
LEMMA InnerStep ==
    ASSUME Outcome' = Outcome, disk'.done = disk.done,
           \A n \in Node : task'[n] = task[n] \/ (task[n] = "run" /\ task'[n] = "cutting")
    PROVE  RunStep
  BY StandsStill DEF NodeState, Busy

LEMMA SaveStep ==
    ASSUME IInv, RInv, UNCHANGED task, disk'.done = mem.done, pc \notin {"none", "ended", "down"},
           Outcome' = "open"
    PROVE  RunStep
  <1> DEFINE S == mem.done \ disk.done
  <1>1. S \in SUBSET Node /\ \A n \in S : NodeState(n) = "worked"
    BY EarnedState
  <1>2. Outcome = "open"
    BY UnderWay
  <1>3. disk.done \subseteq mem.done
    BY DEF IInv, Ahead
  <1>4. \A n \in S : task[n] \notin Busy
    BY <1>1 DEF NodeState
  <1>5. \A n \in Node : NodeState(n)' = IF n \in S THEN "saved" ELSE NodeState(n)
    BY <1>3, <1>4 DEF NodeState
  <1> HIDE DEF S
  <1>6. PICK state : state = "saved"
    OBVIOUS
  <1>7. RunStep
    BY <1>1, <1>2, <1>5, <1>6, MoveOn
  <1> QED BY <1>7

LEMMA CompleteStep ==
    ASSUME IInv, RInv, Finalize, EndPhase = "completed"
    PROVE  RunStep
  <1> DEFINE node == [n \in Node |-> NodeState(n)]
  <1>1. /\ UNCHANGED task /\ disk'.done = mem.done /\ pc = "final"
        /\ Outcome' = "completed" /\ Outcome = "open"
    BY UnderWay DEF Finalize, Save, Outcome
  <1>2. \A n \in Node : task[n] \notin Busy /\ (task[n] = "ok" => n \in mem.done)
    BY DEF Finalize, EndPhase, RInv, Quiet
  <1>3. disk.done \subseteq mem.done /\ \A n \in mem.done \ disk.done : task[n] = "ok"
    BY <1>1 DEF IInv, Ahead, RInv, Earned
  <1>4. \A n \in Node : NodeState(n) # "working"
                        /\ NodeState(n)' = IF NodeState(n) = "worked" THEN "saved" ELSE NodeState(n)
    BY <1>1, <1>2, <1>3 DEF NodeState
  <1>5. /\ \A n \in Node : node[n] # "working"
        /\ node' = [n \in Node |-> IF n \in {m \in Node : node[m] = "worked"} THEN "saved" ELSE node[n]]
    BY <1>4
  <1> HIDE DEF node
  <1>6. Run!Complete
    BY <1>1, <1>5 DEF node, Run!Complete, Run!Becomes
  <1> QED BY <1>6 DEF RunStep, Run!Next

\* A life ends or begins: of what the last one worked out the checkpoint stays.
LEMMA RestartStep ==
    ASSUME IInv, RInv, \A n \in Node : task'[n] = "idle",
           Outcome = "open", Outcome' = "open",
           disk.done \subseteq disk'.done, disk'.done \subseteq disk.done \cup mem.done
    PROVE  RunStep
  <1> DEFINE node == [n \in Node |-> NodeState(n)]
             S == disk'.done
  <1>1. S \in SUBSET Node /\ \A n \in S : NodeState(n) \in {"worked", "saved"}
    BY SavedRests, EarnedState
  <1>2. \A n \in Node : NodeState(n) = "saved" => n \in S
    BY DEF NodeState
  <1>3. \A n \in Node : NodeState(n)' = IF n \in S THEN "saved" ELSE "waiting"
    BY DEF NodeState, Busy
  <1>4. node' = [n \in Node |-> IF n \in S THEN "saved" ELSE "waiting"]
    BY <1>3
  <1>5. \A n \in Node : node[n] = NodeState(n)
    OBVIOUS
  <1> HIDE DEF node, S
  <1>6. Run!Restart(S)
    BY <1>1, <1>2, <1>4, <1>5 DEF node, Run!Restart, Run!Going
  <1> QED BY <1>1, <1>6 DEF RunStep, Run!Next

LEMMA ChiefRuns ==
    ASSUME IInv, RInv, Chief
    PROVE  RunStep
  <1>1. ASSUME NEW B \in SUBSET Node, StartBatch(B) PROVE RunStep
    <2>1. UNCHANGED disk /\ pc = "loop" /\ pend = {} /\ fresh = {} /\ after # "raise" /\ pc # "down"
      BY <1>1 DEF StartBatch, files, IInv, Batch, RInv, Raising
    <2>2. \A n \in B : n \notin mem.done
      BY <1>1 DEF StartBatch, Ready, Remaining, Settled
    <2>3. \A n \in B : NodeState(n) = "waiting"
      BY <2>1, <2>2 DEF IInv, Ahead, RInv, Tended, NodeState
    <2>4. \A n \in Node : NodeState(n)' = IF n \in B THEN "working" ELSE NodeState(n)
      BY <1>1, <2>1 DEF StartBatch, NodeState, Busy
    <2>5. Outcome = "open" /\ Outcome' = "open"
      BY <2>1, UnderWay DEF Outcome
    <2>6. PICK state : state = "working"
      OBVIOUS
    <2> QED BY <2>3, <2>4, <2>5, <2>6, MoveOn
  <1>2. CASE Expand \/ Pause \/ Reopen \/ Flush \/ Raised \/ (Finalize /\ EndPhase # "completed")
    <2>1. UNCHANGED task /\ disk'.done = mem.done /\ pc \notin {"none", "ended", "down"}
      BY <1>2 DEF Expand, Pause, Reopen, Flush, Raised, Finalize, Save, Recorded
    <2>2. disk'.phase \notin {"none", "completed"}
      BY <1>2 DEF Expand, Pause, Reopen, Flush, Raised, Finalize, Save, EndPhase, FlushPhase
    <2> QED BY <2>1, <2>2, SaveStep DEF Outcome
  <1>3. CASE Finalize /\ EndPhase = "completed"
    BY <1>3, CompleteStep
  <1>4. CASE UNCHANGED disk /\ (UNCHANGED task \/ \E S \in SUBSET Node : task' = Cut(S))
    BY <1>4, InnerStep DEF Outcome, Cut
  <1>5. ASSUME NEW n \in Node, Record(n) \/ RecordInterrupted(n) PROVE RunStep
    <2>1. pend \subseteq Node /\ fresh \subseteq Node
      BY DEF IInv, TypeOK
    <2>2. UNCHANGED disk /\ (UNCHANGED task \/ task' = Cut(pend) \/ task' = Cut(fresh))
      BY <1>5 DEF Record, RecordInterrupted, files
    <2> QED BY <1>4, <2>1, <2>2
  <1>6. CASE \/ GetSeat \/ LoseSeat \/ Continue \/ PauseExpires \/ Collect \/ Interrupted \/ Reaped
             \/ ReapInterrupted \/ ReapRest \/ Break \/ Fail
             \/ \E why \in {"window", "budget"} : Deadline(why)
             \/ \E why \in {"cancelled", "window", "budget", "finished"} : Leave(why)
    <2>1. pend \subseteq Node
      BY DEF IInv, TypeOK
    <2>2. UNCHANGED disk /\ (UNCHANGED task \/ task' = Cut(pend))
      BY <1>6 DEF GetSeat, LoseSeat, Continue, PauseExpires, Collect, Interrupted, Reaped,
                  ReapInterrupted, ReapRest, Reap, Break, Fail, Deadline, Leave, files
    <2> QED BY <1>4, <2>1, <2>2
  <1> QED BY <1>1, <1>2, <1>3, <1>5, <1>6 DEF Chief

LEMMA ChildRuns ==
    ASSUME IInv, RInv, NEW n \in Node, NEW r \in Ended, Ends(n, r)
    PROVE  RunStep
  <1>1. /\ UNCHANGED disk /\ pc \notin {"none", "ended", "down"}
        /\ task[n] \in Busy /\ task' = [task EXCEPT ![n] = r] /\ task \in [Node -> {"idle", "run", "cutting"} \cup Ended]
    BY DEF Ends, files, IInv, TypeOK, Busy
  <1>2. n \notin disk.done
    BY <1>1, SavedRests DEF Busy
  <1>3. PICK state \in {"worked", "waiting"} : state = IF r = "ok" THEN "worked" ELSE "waiting"
    OBVIOUS
  <1>4. NodeState(n) = "working" /\ NodeState(n)' = state
    BY <1>1, <1>2, <1>3 DEF NodeState, Busy, Ended
  <1>5. \A m \in Node \ {n} : NodeState(m)' = NodeState(m)
    BY <1>1 DEF NodeState
  <1>6. Outcome = "open" /\ Outcome' = "open"
    BY <1>1, UnderWay DEF Outcome
  <1>7. PICK S \in SUBSET Node : S = {n}
    OBVIOUS
  <1>8. \A m \in Node : NodeState(m)' = IF m \in S THEN state ELSE NodeState(m)
    BY <1>4, <1>5, <1>7
  <1> QED BY <1>3, <1>4, <1>6, <1>7, <1>8, MoveOn

LEMMA LivesRun ==
    ASSUME IInv, RInv, Launch \/ Boot \/ StartAgain \/ Exit \/ ExitInFlush
    PROVE  RunStep
  <1>1. CASE Launch
    <2>1. /\ pc = "none" /\ UNCHANGED task /\ disk'.done = mem.done /\ disk'.phase = "running"
      BY <1>1 DEF Launch, Save
    <2>2. disk.phase = "none" /\ disk.done = {} /\ \A n \in Node : task[n] = "idle"
      BY <2>1 DEF RInv, Opened, Resting
    <2>3. mem.done = {}
      BY <2>2 DEF IInv, TypeOK, RInv, Earned
    <2>4. Outcome = "new" /\ Outcome' = "open" /\ \A n \in Node : NodeState(n)' = NodeState(n)
      BY <2>1, <2>2, <2>3 DEF Outcome, NodeState
    <2>5. Run!Begin
      BY <2>4 DEF Run!Begin
    <2> QED BY <2>5 DEF RunStep, Run!Next
  <1>2. CASE Boot \/ StartAgain
    <2>1. /\ \A n \in Node : task'[n] = "idle"
          /\ disk'.done = disk.done /\ disk'.phase = "running"
      BY <1>2 DEF Boot, StartAgain, Resume, Restored, Blank
    <2>2. disk.phase \notin {"none", "completed"}
      BY <1>2 DEF Boot, StartAgain, Resumable
    <2> QED BY <2>1, <2>2, RestartStep DEF Outcome
  <1>3. CASE Exit \/ ExitInFlush
    <2>1. (\A n \in Node : task'[n] = "idle") /\ disk.phase # "none"
      BY <1>3 DEF Exit, ExitInFlush, Die, Blank, Recorded, RInv, Opened
    <2>2. CASE Exit /\ disk.phase # "completed"
      BY <2>1, <2>2, RestartStep DEF Outcome, Exit, files
    <2>3. CASE Exit /\ disk.phase = "completed"
      <3>1. UNCHANGED disk
        BY <2>3 DEF Exit, files
      <3>2. \A n \in Node : task[n] \notin Busy /\ (task[n] = "ok" => n \in disk.done)
        BY <2>3 DEF RInv, Quiet
      <3> QED BY <2>1, <3>1, <3>2, StandsStill DEF Outcome, NodeState, Busy
    <2>4. CASE ExitInFlush
      <3>1. disk'.phase = FlushPhase /\ disk'.done = mem.done /\ pc = "collect"
        BY <2>4 DEF ExitInFlush, Recorded, IInv, TypeOK, Checkpoint
      <3>2. disk'.phase \notin {"none", "completed"} /\ Outcome = "open" /\ disk.done \subseteq mem.done
        BY <3>1, UnderWay DEF FlushPhase, IInv, Ahead
      <3> QED BY <2>1, <3>1, <3>2, RestartStep DEF Outcome
    <2> QED BY <1>3, <2>2, <2>3, <2>4
  <1> QED BY <1>1, <1>2, <1>3

LEMMA NextRuns == IInv /\ RInv /\ [Next]_vars => RunStep
  <1> SUFFICES ASSUME IInv, RInv, [Next]_vars PROVE RunStep
    OBVIOUS
  <1>1. CASE UNCHANGED disk /\ (UNCHANGED task \/ \E S \in SUBSET Node : task' = Cut(S))
    BY <1>1, InnerStep DEF Outcome, Cut
  <1>2. ASSUME NEW settle \in {"quiet", "cancelled"}, StopDesk(settle) PROVE RunStep
    <2>1. task' = Cut(Node) /\ disk.phase # "none"
      BY <1>2 DEF StopDesk, Suspended, RInv, Opened
    <2>2. disk'.done = disk.done /\ (disk' = disk \/ (disk.phase # "completed" /\ disk'.phase = settle))
      BY <1>2 DEF StopDesk, Mark, IInv, TypeOK, Checkpoint
    <2> QED BY <2>1, <2>2, InnerStep DEF Outcome, Cut
  <1>3. CASE StopRun \/ Shutdown \/ (\E n \in Node : StopNode(n)) \/ UNCHANGED vars
    BY <1>1, <1>3 DEF StopRun, Shutdown, StopNode, files, vars
  <1> QED BY <1>2, <1>3, ChiefRuns, ChildRuns, LivesRun DEF Next, User

-----------------------------------------------------------------------------
\* Checkpoint, memory, tasks and flags have their shapes in every life of a run,
\* and no task is waited for and recorded at once.
THEOREM TypeCorrect == Spec => []TypeOK
  BY Invariance, PTL DEF IInv

\* Through interrupted records, reaps and resumes no node is both completed and
\* failed, in memory or in the checkpoint.
THEOREM OneVerdictHolds == Spec => []OneVerdict
  BY Invariance, PTL DEF IInv

\* No way out of the loop saves "completed" while the plan has work left.
THEOREM CompletedMeansSettledHolds == Spec => []CompletedMeansSettled
  <1>1. IInv => CompletedMeansSettled
    BY DEF IInv, Complete, CompletedMeansSettled
  <1> QED BY <1>1, Invariance, PTL

\* "skip finished nodes": no life of the run starts a node again that an
\* earlier checkpoint has as completed, and no checkpoint forgets one.
THEOREM NoRebillHolds == Spec => NoRebill
  <1> DEFINE A == \A n \in disk.done : n \in disk'.done /\ (task'[n] = "run" => task[n] = "run")
  <1>1. IInv /\ [Next]_vars => [A]_vars
    <2> SUFFICES ASSUME IInv, [Next]_vars PROVE A
      OBVIOUS
    <2>1. disk.done \subseteq Node
      BY DEF IInv, TypeOK, Checkpoint
    <2> QED BY <2>1, NextWrites, NextStarts DEF Writes, Starts
  <1> QED BY <1>1, Invariance, PTL DEF Spec, NoRebill

\* Stop leaves what was in flight pending: the checkpoint calls a cut node
\* failed only after a Dismiss, a deadline or a shutdown.
THEOREM StopFailsNothingHolds == Spec => StopFailsNothing
  <1> DEFINE A == \A n \in disk'.failed \ disk.failed :
                     task[n] = "cut" => ud \/ shut \/ stop \in {"window", "budget"}
  <1>1. IInv /\ [Next]_vars => [A]_vars
    BY NextWrites DEF Writes, IInv, Cause
  <1> QED BY <1>1, Invariance, PTL DEF Spec, StopFailsNothing

\* Whatever was compacted, expanded, interrupted and repaired before: work that
\* remains always has a ready node.
THEOREM NeverUnresolvedHolds == Spec => []NeverUnresolved
  <1> DEFINE J == Grounded /\ Known /\ (pc = "none" => needs = needsOf)
  <1>1. Init => J
    BY PlanAssumption DEF Init, Grounded, Known
  <1>2. IInv /\ J /\ [Next]_vars => J'
    BY UnblockedKeeps DEF IInv
  <1>3. IInv /\ J => NeverUnresolved
    <2> SUFFICES ASSUME IInv, J, pc = "loop", Remaining # {} PROVE Ready # {}
      BY DEF NeverUnresolved
    <2>1. Remaining \in SUBSET Node
      BY DEF IInv, TypeOK, Remaining
    <2>2. PICK n \in Remaining : needs[n] \cap Remaining = {}
      BY <2>1 DEF Grounded
    <2>3. needs[n] \subseteq Settled(mem)
      BY <2>2 DEF Known, Remaining
    <2> QED BY <2>2, <2>3 DEF Ready
  <1> QED BY <1>1, <1>2, <1>3, Invariance, PTL DEF Spec

\* Through every stop, failure, kill and resume: what a checkpoint has as
\* completed is never worked on again, nothing is saved that no child worked
\* out, and a completed run has saved all and stays so.
THEOREM ImplementsRunHolds == Spec => ImplementsRun
  <1>1. Init => Run!Init
    BY DEF Init, Run!Init, Outcome, NodeState, Busy
  <1>2. Spec => [](IInv /\ RInv)
    BY InitInv, StepKeeps, InitRInv, OneRunKeeps, PTL DEF Spec
  <1>3. IInv /\ RInv /\ [Next]_vars => [Run!Next]_<<Outcome, [n \in Node |-> NodeState(n)]>>
    BY NextRuns DEF RunStep
  <1> QED BY <1>1, <1>2, <1>3, PTL DEF Spec, ImplementsRun, Run!Spec
=============================================================================
