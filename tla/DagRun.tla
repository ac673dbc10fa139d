------------------------------- MODULE DagRun -------------------------------
(***************************************************************************)
(* One orchestration across stops, failures and daemon restarts:           *)
(* agents/orchestration.py execute(), its checkpoint files, and the        *)
(* dashboard's Stop, Dismiss and Start as far as they touch them.          *)
(*                                                                         *)
(*   disk   status.json and results.json of the run's directory            *)
(*   plan, needs, archived   plan.json, which memory never runs ahead of:  *)
(*          every change to the plan is persisted in the step it is made   *)
(*   mem    execute()'s completed, failed and results_by_id                *)
(*                                                                         *)
(* An action is what the chief does between two awaits.  pc is where it    *)
(* waits: "seat" for its own live seat, "loop" at the top of its loop,     *)
(* "pause" for a provider channel, "await" for its batch, "collect" among  *)
(* the awaits of _record, "reap" for the children it cancelled, "final"    *)
(* after the except clauses; "ended" once execute() returned, "down" once  *)
(* the daemon is gone.  What a node computes is left out.                  *)
(***************************************************************************)
EXTENDS Naturals, FiniteSets

CONSTANTS Node,
          Initial,       \* the nodes of the first plan
          Wave,          \* the nodes an expansion or a continue wave adds
          Synth,         \* synthesize nodes
          Producing,     \* nodes whose result counts as output
          needsOf,       \* PlanNode.dependencies
          LiveNodes,     \* compaction threshold, 8 in the code
          MaxLives       \* bound: how often the run is resumed

\* validate_plan refuses a plan with a cycle: whatever nodes one looks at, one
\* of them depends on none of the others.
ASSUME PlanAssumption ==
    /\ IsFiniteSet(Node)
    /\ Initial \subseteq Node /\ Wave = Node \ Initial
    /\ Synth \subseteq Node /\ Producing \subseteq Node
    /\ needsOf \in [Node -> SUBSET Node]
    /\ \A n \in Initial : needsOf[n] \subseteq Initial
    /\ \A n \in Wave : needsOf[n] \subseteq Wave
    /\ \A S \in SUBSET Node : S # {} => \E n \in S : needsOf[n] \cap S = {}
    /\ LiveNodes \in Nat /\ MaxLives \in Nat

VARIABLES disk, plan, needs, archived,   \* files
          pc, mem, task,                 \* execute() and its child tasks
          pend, fresh,                   \* asyncio's pending and done sets
          after,                         \* where the records of a reap lead
          cancelled, stop, err,          \* execute()'s locals
          uc, ud,                        \* user_cancel, user_dismiss of the row
          sig,                           \* a CancelledError is under way
          shut,                          \* the daemon is shutting down
          life

files == <<disk, plan, needs, archived>>
locals == <<cancelled, stop, err>>
flags == <<uc, ud, shut, life>>
vars == <<disk, plan, needs, archived, pc, mem, task, pend, fresh, after,
          cancelled, stop, err, uc, ud, sig, shut, life>>

-----------------------------------------------------------------------------
Settled(c)  == c.done \cup c.failed
\* Variant: failed nodes count as remaining.
RemainingOrFailed == plan \ mem.done

Remaining   == plan \ Settled(mem)
Ended       == {"ok", "bad", "cut"}

\* Where somebody else can run: the chief is at an await.  Its cancellation
\* then surfaces at that await and nowhere else.
Suspended ==
    \/ pc \in {"seat", "pause", "await", "final"}
    \/ pc = "loop" /\ Remaining # {}
    \/ pc = "collect" /\ \E n \in fresh : task[n] # "cut"
    \/ pc = "reap" /\ \E n \in pend : task[n] = "cutting"

\* ready_nodes: pending nodes whose dependencies are settled, well or badly.
Ready == {n \in Remaining : needs[n] \subseteq Settled(mem)}

\* persist_checkpoint.
Save(ph) == disk' = [phase |-> ph, done |-> mem.done, failed |-> mem.failed,
                     results |-> mem.results]

\* Task.cancel() on the running ones of S.
Cut(S) == [n \in Node |-> IF n \in S /\ task[n] = "run" THEN "cutting" ELSE task[n]]

\* compact_plan_nodes once m is settled: a large plan keeps its unsettled
\* nodes, and a settled synthesizer if no other is left.
Compacted(m) ==
    LET live  == plan \ Settled(m)
        synth == plan \cap Synth
        large == Cardinality(plan) > LiveNodes \/ Cardinality(m.done) >= LiveNodes
    IN  IF ~large THEN {plan}
        ELSE IF live \cap Synth # {} \/ synth = {} THEN {live}
        ELSE {live \cup {s} : s \in synth}

Init ==
    /\ disk = [phase |-> "none", done |-> {}, failed |-> {}, results |-> {}]
    /\ plan = {} /\ needs = needsOf /\ archived = {}
    /\ pc = "none"
    /\ mem = [done |-> {}, failed |-> {}, results |-> {}]
    /\ task = [n \in Node |-> "idle"]
    /\ pend = {} /\ fresh = {} /\ after = "none"
    /\ cancelled = FALSE /\ stop = "none" /\ err = FALSE
    /\ uc = FALSE /\ ud = FALSE /\ sig = FALSE /\ shut = FALSE
    /\ life = 0

-----------------------------------------------------------------------------
(* Beginning and resuming.                                                 *)

\* A fresh execute(): validated plan, first checkpoint, then the chief asks
\* for its seat.
Launch ==
    /\ pc = "none"
    /\ plan' = Initial /\ Save("running")
    /\ pc' = "seat"
    /\ UNCHANGED <<needs, archived, mem, task, pend, fresh, after, locals, flags, sig>>

Resumable(phase) == phase \notin {"none", "completed", "cancelled", "quiet"}

\* repair_plan: dependencies that are not in the plan any more are dropped.
\* Variant: they stay.
Unrepaired == needs

Repaired == [n \in Node |-> needs[n] \cap plan]

\* What a resumed execute() takes from the checkpoint.
\* Variant: only nodes that left a result count as finished.
RestoredFromResults == [done |-> disk.done \cap disk.results, failed |-> disk.failed,
                        results |-> disk.results]

Restored == [done |-> disk.done, failed |-> disk.failed, results |-> disk.results]

\* A new execute() has fresh locals and a fresh registry row.
Blank ==
    /\ task' = [n \in Node |-> "idle"]
    /\ pend' = {} /\ fresh' = {} /\ after' = "none"
    /\ cancelled' = FALSE /\ stop' = "none" /\ err' = FALSE
    /\ uc' = FALSE /\ ud' = FALSE /\ sig' = FALSE /\ shut' = FALSE

\* execute(resume=True): plan.json is written back repaired, the checkpoint
\* says "running" again, a new registry row has no flags.
Resume ==
    /\ life < MaxLives /\ life' = life + 1
    /\ needs' = Repaired
    /\ mem' = Restored
    /\ disk' = [phase |-> "running", done |-> mem'.done, failed |-> mem'.failed,
                results |-> mem'.results]
    /\ pc' = "seat" /\ Blank
    /\ UNCHANGED <<plan, archived>>

\* The daemon starts and resumes what list_interrupted finds.
Boot == pc = "down" /\ Resumable(disk.phase) /\ Resume

\* The user's Start, or POST /api/orchestration/{id}/resume.
StartAgain ==
    /\ pc \in {"ended", "down"} /\ ~(pc = "ended" /\ shut)
    /\ Resumable(disk.phase) \/ disk.phase = "quiet"
    /\ Resume

-----------------------------------------------------------------------------
(* The chief's loop.                                                       *)

GetSeat ==
    /\ pc = "seat" /\ ~sig
    /\ pc' = "loop"
    /\ UNCHANGED <<files, mem, task, pend, fresh, after, locals, flags, sig>>

\* acquire() is outside execute()'s try: nothing is saved.
LoseSeat ==
    /\ pc = "seat" /\ sig
    /\ pc' = "ended" /\ sig' = FALSE
    /\ UNCHANGED <<files, mem, task, pend, fresh, after, locals, flags>>

\* The ways out of the loop between two batches: the row's flags, the curate
\* window, the wall-clock budget, nothing left to do.
Leave(why) ==
    /\ pc = "loop" /\ ~sig
    /\ \/ why = "cancelled" /\ uc
       \/ why \in {"window", "budget"} /\ ~uc
       \/ why = "finished" /\ ~uc /\ Remaining = {}
    /\ stop' = why
    /\ cancelled' = (why = "cancelled")
    /\ err' = (why = "budget")
    /\ pc' = "final"
    /\ UNCHANGED <<files, mem, task, pend, fresh, after, flags, sig>>

\* _maybe_continue: nothing remains, another wave is added.
Continue ==
    /\ pc = "loop" /\ ~sig /\ ~uc /\ Remaining = {} /\ Wave \cap (plan \cup archived) = {}
    /\ Wave # {}
    /\ plan' = plan \cup Wave
    /\ needs' = [n \in Node |-> IF n \in Wave THEN needsOf[n] ELSE needs[n]]
    /\ UNCHANGED <<disk, archived, pc, mem, task, pend, fresh, after, locals, flags, sig>>

\* _add_expansion_nodes after a batch with a verify node, which is any batch
\* here: every synthesizer of the plan now waits for the new verifier.
Expand ==
    LET verifier == {v \in Wave : \A n \in Wave : v \notin needsOf[n]} IN
    /\ pc = "loop" /\ ~sig /\ pend = {} /\ mem.results # {}
    /\ Wave \cap (plan \cup archived) = {} /\ Wave # {}
    /\ plan' = plan \cup Wave
    /\ needs' = [n \in Node |-> IF n \in Wave THEN needsOf[n]
                               ELSE IF n \in Synth \cap plan THEN verifier ELSE needs[n]]
    /\ Save(IF ud THEN "cancelled" ELSE IF uc THEN "quiet" ELSE "running")
    /\ UNCHANGED <<archived, pc, mem, task, pend, fresh, after, locals, flags, sig>>

StartBatch(B) ==
    /\ pc = "loop" /\ ~sig /\ ~uc
    /\ B # {} /\ B \subseteq Ready
    /\ task' = [n \in Node |-> IF n \in B THEN "run" ELSE task[n]]
    /\ pend' = B /\ after' = "none"
    /\ pc' = "await"
    /\ UNCHANGED <<files, mem, fresh, locals, flags, sig>>

\* _wait_for_channels: no provider for any ready node.
Pause ==
    /\ pc = "loop" /\ ~sig /\ ~uc /\ Ready # {}
    /\ Save("waiting_limits") /\ pc' = "pause"
    /\ UNCHANGED <<plan, needs, archived, mem, task, pend, fresh, after, locals, flags, sig>>

Reopen ==
    /\ pc = "pause" /\ ~sig
    /\ Save("running") /\ pc' = "loop"
    /\ UNCHANGED <<plan, needs, archived, mem, task, pend, fresh, after, locals, flags, sig>>

PauseExpires ==
    /\ pc = "pause" /\ ~sig
    /\ stop' = "window" /\ pc' = "final"
    /\ UNCHANGED <<files, mem, task, pend, fresh, after, cancelled, err, flags, sig>>

-----------------------------------------------------------------------------
(* A batch.                                                                *)

\* A node's task returns with r; one that was cancelled raises.  Nobody reads
\* how a task ends that outlives its chief.
Ends(n, r) ==
    /\ pc \in {"await", "collect", "reap"}
    /\ \/ task[n] = "run" /\ r \in {"ok", "bad"}
       \/ task[n] = "cutting" /\ r = "cut"
    /\ task' = [task EXCEPT ![n] = r]
    /\ UNCHANGED <<files, pc, mem, pend, fresh, after, locals, flags, sig>>

\* asyncio.wait returned with whatever is done.
Collect ==
    /\ pc = "await" /\ ~sig
    /\ fresh' = {n \in pend : task[n] \in Ended} /\ fresh' # {}
    /\ pend' = pend \ fresh'
    /\ pc' = "collect"
    /\ UNCHANGED <<files, mem, task, after, locals, flags, sig>>

\* _reap_pending: cancel what is left, wait for it, then record it.  `to` is
\* what comes next: "flush" the batch, "break" out of it, "raise" on.
Reap(to) ==
    /\ pc' = "reap" /\ after' = to
    /\ task' = Cut(pend)

\* The batch deadline: the curate window or the wall-clock budget.
Deadline(why) ==
    /\ pc = "await" /\ ~sig /\ why \in {"window", "budget"}
    /\ stop' = why /\ err' = (why = "budget")
    /\ Reap("break")
    /\ UNCHANGED <<files, mem, pend, fresh, cancelled, flags, sig>>

\* CancelledError in asyncio.wait, or in the wait of a reap: the siblings
\* are cancelled, unless that is what was interrupted.
Interrupted ==
    /\ pc \in {"await", "reap"} /\ sig /\ after # "raise"
    /\ sig' = FALSE
    /\ Reap("raise")
    /\ UNCHANGED <<files, mem, pend, fresh, locals, flags>>

\* pending.clear().  Variant: it is forgotten.
ReapedKeepingPending ==
    /\ pc = "reap" /\ ~sig /\ \A n \in pend : task[n] \in Ended
    /\ fresh' = pend /\ pc' = "collect"
    /\ UNCHANGED <<files, mem, task, pend, after, locals, flags, sig>>

Reaped ==
    /\ pc = "reap" /\ ~sig /\ \A n \in pend : task[n] \in Ended
    /\ fresh' = pend /\ pend' = {}
    /\ pc' = "collect"
    /\ UNCHANGED <<files, mem, task, after, locals, flags, sig>>

\* Whether _record counts a cancelled node as failed: not when the user
\* pressed Stop, so that Start retries it.  Variant: always.
CutFailsAlways == TRUE

CutFails == stop # "none" \/ ~uc \/ ud

\* _record of one node and _ingest; the plan is compacted and persisted once
\* the awaits in between are over.
Ingest(n) ==
    IF task[n] = "cut"
    THEN /\ cancelled' = (cancelled \/ stop = "none")
         /\ mem' = [mem EXCEPT !.failed = IF CutFails THEN @ \cup {n} ELSE @]
    ELSE /\ mem' = [mem EXCEPT !.results = @ \cup {n},
                               !.done = IF task[n] = "ok" THEN @ \cup {n} ELSE @,
                               !.failed = IF task[n] = "bad" THEN @ \cup {n} ELSE @]
         /\ UNCHANGED cancelled

Record(n) ==
    /\ pc = "collect" /\ n \in fresh /\ ~sig
    /\ Ingest(n)
    /\ IF task[n] = "cut" THEN UNCHANGED <<plan, archived>>
       ELSE /\ plan' \in Compacted(mem')
            /\ archived' = archived \cup (plan \ plan')
    /\ fresh' = fresh \ {n}
    /\ UNCHANGED <<disk, needs, pc, task, pend, after, stop, err, flags, sig>>

\* CancelledError in an await of _record.  From the wait loop the other done
\* tasks are never recorded; from a reap they are reaped once more; from the
\* reap of the except clause they are lost.
RecordInterrupted(n) ==
    /\ pc = "collect" /\ n \in fresh /\ task[n] # "cut" /\ sig
    /\ Ingest(n)
    /\ sig' = FALSE /\ fresh' = {}
    /\ IF after = "raise"
       THEN UNCHANGED <<pc, pend, task, after>>
       ELSE /\ pend' = IF after = "none" THEN pend ELSE fresh
            /\ pc' = "reap" /\ after' = "raise" /\ task' = Cut(pend')
    /\ UNCHANGED <<files, stop, err, flags>>

\* A further CancelledError while the except clause waits for its reap.
ReapInterrupted ==
    /\ pc = "reap" /\ sig /\ after = "raise"
    /\ pc' = "collect" /\ pend' = {} /\ fresh' = {} /\ sig' = FALSE
    /\ UNCHANGED <<files, mem, task, after, locals, flags>>

Recorded == pc = "collect" /\ fresh = {}

\* A child was cancelled by itself: the rest of the batch follows.
ReapRest ==
    /\ Recorded /\ after = "none" /\ cancelled /\ pend # {}
    /\ Reap("flush")
    /\ UNCHANGED <<files, mem, pend, fresh, locals, flags, sig>>

FlushPhase == IF ud THEN "cancelled" ELSE IF uc THEN "quiet"
              ELSE IF cancelled THEN "cancelled" ELSE "running"

\* _flush_board, and on with the batch, the next one, or out of the loop.
Flush ==
    /\ Recorded /\ after \in {"none", "flush"} /\ ~(cancelled /\ pend # {})
    /\ Save(FlushPhase)
    /\ pc' = IF cancelled \/ stop # "none" THEN "final"
             ELSE IF pend # {} THEN "await" ELSE "loop"
    /\ UNCHANGED <<plan, needs, archived, mem, task, pend, fresh, after, locals, flags, sig>>

\* After the reap of a deadline nothing is flushed.
Break ==
    /\ Recorded /\ after = "break"
    /\ pc' = "final"
    /\ UNCHANGED <<files, mem, task, pend, fresh, after, locals, flags, sig>>

\* The outer except CancelledError: Stop, or the daemon stops.
Raised ==
    /\ \/ pc \in {"loop", "pause"} /\ sig
       \/ Recorded /\ after = "raise"
    /\ err' = TRUE /\ cancelled' = uc
    /\ Save(IF ud THEN "cancelled" ELSE IF uc THEN "quiet" ELSE "interrupted")
    /\ pc' = "final" /\ sig' = FALSE
    /\ UNCHANGED <<plan, needs, archived, mem, task, pend, fresh, after, stop, flags>>

\* Any other exception, as from a write that fails: children go on without
\* their chief.  In the last lines it leaves execute() itself.
Fail ==
    /\ pc \in {"loop", "await", "collect", "final"}
    /\ err' = TRUE
    /\ pc' = IF pc = "final" THEN "ended" ELSE "final"
    /\ UNCHANGED <<files, mem, task, pend, fresh, after, cancelled, stop, flags, sig>>

\* end_phase.  Variant: an error does not matter once there is output.
Produced == mem.done \cap mem.results \cap Producing # {}

EndPhaseIgnoringError ==
    IF cancelled THEN IF ud \/ ~uc THEN "cancelled" ELSE "quiet"
    ELSE IF stop = "window" THEN "quiet"
    ELSE IF Produced THEN "completed" ELSE "interrupted"

EndPhase ==
    IF cancelled THEN IF ud \/ ~uc THEN "cancelled" ELSE "quiet"
    ELSE IF stop = "window" THEN "quiet"
    ELSE IF Produced /\ ~err THEN "completed" ELSE "interrupted"

\* The snapshot task is awaited, which swallows a late cancel; then the last
\* checkpoint is written.
Finalize ==
    /\ pc = "final"
    /\ Save(EndPhase)
    /\ pc' = "ended" /\ sig' = FALSE
    /\ UNCHANGED <<plan, needs, archived, mem, task, pend, fresh, after, locals, flags>>

-----------------------------------------------------------------------------
(* The dashboard and the daemon.                                           *)

\* Stop on the run's row (handle_run_cancel).
StopRun ==
    /\ Suspended /\ ~sig
    /\ uc' = TRUE /\ sig' = TRUE
    /\ UNCHANGED <<files, pc, mem, task, pend, fresh, after, locals, ud, shut, life>>

\* Stop on the row of a node, which lingers once the node is done: its parent
\* is marked, not cancelled.
StopNode(n) ==
    /\ Suspended /\ task[n] \in {"run", "ok", "bad"} /\ ~uc
    /\ uc' = TRUE /\ task' = Cut({n})
    /\ UNCHANGED <<files, pc, mem, pend, fresh, after, locals, ud, sig, shut, life>>

\* Stop (settle "quiet") or Dismiss ("cancelled") on the desk: the checkpoint
\* is marked first, then all rows of the run are cancelled (_cancel_ce_runs).
Mark(settle) ==
    disk' = IF disk.phase \in {"completed", "cancelled"} THEN disk
            ELSE [disk EXCEPT !.phase = settle]

StopDesk(settle) ==
    /\ Suspended
    /\ \/ ~uc
       \/ settle = "cancelled" /\ ~ud
    /\ Mark(settle)
    /\ uc' = TRUE /\ ud' = (ud \/ settle = "cancelled") /\ sig' = TRUE
    /\ task' = Cut(Node)
    /\ UNCHANGED <<plan, needs, archived, pc, mem, pend, fresh, after, locals, shut, life>>

\* _cleanup_children: every task of the registry is cancelled.
Shutdown ==
    /\ Suspended /\ ~shut
    /\ shut' = TRUE /\ sig' = TRUE /\ task' = Cut(Node)
    /\ UNCHANGED <<files, pc, mem, pend, fresh, after, locals, uc, ud, life>>

Die ==
    /\ pc' = "down" /\ Blank
    /\ mem' = [done |-> {}, failed |-> {}, results |-> {}]

\* The process ends: killed at any await, or idle.
Exit ==
    /\ pc \notin {"none", "down"}
    /\ Die
    /\ UNCHANGED <<files, life>>

\* Killed between the two files of a flush.
ExitInFlush ==
    /\ Recorded /\ after = "none" /\ ~(cancelled /\ pend # {})
    /\ disk' = [disk EXCEPT !.phase = FlushPhase, !.done = mem.done, !.failed = mem.failed]
    /\ Die
    /\ UNCHANGED <<plan, needs, archived, life>>

-----------------------------------------------------------------------------
Chief ==
    \/ GetSeat \/ LoseSeat
    \/ \E why \in {"cancelled", "window", "budget", "finished"} : Leave(why)
    \/ Continue \/ Expand
    \/ \E B \in SUBSET Node : StartBatch(B)
    \/ Pause \/ Reopen \/ PauseExpires
    \/ Collect \/ Interrupted \/ Reaped \/ ReapInterrupted
    \/ \E why \in {"window", "budget"} : Deadline(why)
    \/ \E n \in Node : Record(n) \/ RecordInterrupted(n)
    \/ ReapRest \/ Flush \/ Break \/ Raised \/ Fail \/ Finalize

User ==
    \/ StopRun \/ StartAgain
    \/ \E n \in Node : StopNode(n)
    \/ \E settle \in {"quiet", "cancelled"} : StopDesk(settle)

Next ==
    \/ Launch \/ Boot \/ Chief
    \/ \E n \in Node, r \in Ended : Ends(n, r)
    \/ User \/ Shutdown \/ Exit \/ ExitInFlush

Spec == Init /\ [][Next]_vars

-----------------------------------------------------------------------------
(* Properties.                                                             *)

Checkpoint(Phases) == [phase : Phases, done : SUBSET Node, failed : SUBSET Node,
                       results : SUBSET Node]

\* Types; and a task of the batch is never both among those to wait for and
\* among those being recorded.
TypeOK ==
    /\ disk \in Checkpoint({"none", "running", "waiting_limits", "quiet", "cancelled",
                            "interrupted", "completed"})
    /\ plan \subseteq Node /\ archived \subseteq Node
    /\ needs \in [Node -> SUBSET Node]
    /\ pc \in {"none", "seat", "loop", "pause", "await", "collect", "reap", "final",
               "ended", "down"}
    /\ mem \in [done : SUBSET Node, failed : SUBSET Node, results : SUBSET Node]
    /\ task \in [Node -> {"idle", "run", "cutting"} \cup Ended]
    /\ pend \subseteq Node /\ fresh \subseteq Node /\ pend \cap fresh = {}
    /\ after \in {"none", "flush", "break", "raise"}
    /\ stop \in {"none", "cancelled", "window", "budget", "finished"}
    /\ {cancelled, err, uc, ud, sig, shut} \subseteq BOOLEAN
    /\ life \in 0..MaxLives

\* "skip finished nodes": once a node is in the checkpoint as completed no
\* later life of the run starts it again, whatever was stopped or killed.
NoRebill ==
    [][\A n \in disk.done : n \in disk'.done /\ (task'[n] = "run" => task[n] = "run")]_vars

\* "completed" on disk means no node of the plan was left out: every way out
\* of the loop with work remaining ends in another phase.
CompletedMeansSettled ==
    disk.phase = "completed" => plan \subseteq Settled(disk)

\* Stop leaves the nodes in flight pending so that Start retries them: a node
\* that was cut is saved as failed only by Dismiss, a deadline or a shutdown.
StopFailsNothing ==
    [][\A n \in disk'.failed \ disk.failed :
          task[n] = "cut" => ud \/ shut \/ stop \in {"window", "budget"}]_vars

\* "Deadlock (shouldn't happen after validation)": work that remains has a
\* ready node, also after compaction, a resume from a plan that lost nodes or a
\* rewired synthesizer.  The branch that fails the rest is never taken.
NeverUnresolved == pc = "loop" /\ Remaining # {} => Ready # {}

\* A completed node is never also a failed one, in memory and on disk, through
\* records made twice, cut children and resumes.
OneVerdict == mem.done \cap mem.failed = {} /\ disk.done \cap disk.failed = {}

\* What the user's view of the run is made of: the stored phase, the children
\* that go on, the checkpoint, and what ended well since.
Outcome == CASE disk.phase = "none" -> "new"
             [] disk.phase = "completed" -> "completed"
             [] OTHER -> "open"

Busy == {"run", "cutting"}

NodeState(n) ==
    IF task[n] \in Busy THEN "working"
    ELSE IF n \in disk.done THEN "saved"
    ELSE IF task[n] = "ok" THEN "worked"
    ELSE "waiting"

Run == INSTANCE OneRun WITH outcome <- Outcome, node <- [n \in Node |-> NodeState(n)]

\* Through every stop, failure, kill and resume the run goes as OneRun says: a
\* node that a checkpoint has as completed is never worked on again, nothing is
\* saved that was not worked out, and a completed run stays as it is.
ImplementsRun == Run!Spec
=============================================================================
