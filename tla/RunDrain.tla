------------------------------ MODULE RunDrain ------------------------------
(***************************************************************************)
(* The queue of run files that Curiosity Engine (or the upload dialog)     *)
(* writes and the daemon drains: .workbench/ingest-runs and, with every    *)
(* run on the rail, .workbench/pack-runs.                                  *)
(*                                                                         *)
(* A drain lists the queued files in a thread and then takes them one by   *)
(* one; between its awaits other drains run.  What keeps a run from being  *)
(* executed twice is the set of runs in flight, the second look at the     *)
(* file, and that the file says "running" before its runner exists.        *)
(*                                                                         *)
(* A file is its status: write_run_status loads and saves in a thread, but *)
(* the status it saves does not depend on what it loaded.                  *)
(***************************************************************************)
EXTENDS Naturals, FiniteSets

CONSTANTS N,           \* run files, in the order of their names
          Rail,        \* runs that opt into the rail (wants_rail; all packs)
          Poll,        \* the drain of the poll loop
          Kick,        \* drains of kick_drain and of the HTTP endpoints
          MaxFaults,   \* bound: writes that fail
          MaxDeaths    \* bound: shutdowns and crashes of the daemon

Run == 1..N
Drain == Kick \cup {Poll}

ASSUME DrainAssumption ==
    /\ N \in Nat /\ Rail \subseteq Run
    /\ MaxFaults \in Nat /\ MaxDeaths \in Nat

VARIABLES file,        \* status of each run file ("queued" is also "accepted")
          inflight,    \* app["ingest_run_inflight"]
          drain,       \* drain_once tasks
          runner,      \* the task that executes a run
          faults, deaths,
          ran,         \* history: how often a runner of this run was started
          completed,   \* history: runs whose execution completed
          lost,        \* history: runs a write of whose status was lost
          cut          \* history: runs in flight when the daemon died

budget == <<faults, deaths>>
history == <<completed, lost, cut>>
vars == <<file, inflight, drain, runner, ran, budget, history>>

\* A drain: what it does, the listed runs it has not come to, the one it is at.
State(pc, todo, at) == [pc |-> pc, todo |-> todo, at |-> at]
Idle == State("idle", {}, 0)
DrainState == [pc : {"idle", "listing", "loop", "marking", "marked", "refusing"},
               todo : SUBSET Run, at : 0..N]

Init ==
    /\ file = [r \in Run |-> "absent"]
    /\ inflight = {}
    /\ drain = [d \in Drain |-> Idle]
    /\ runner = [r \in Run |-> "none"]
    /\ ran = [r \in Run |-> 0]
    /\ faults = 0 /\ deaths = 0
    /\ completed = {} /\ lost = {} /\ cut = {}

Queued(f) == {r \in Run : f[r] = "queued"}

\* enqueue_run, or Curiosity Engine.
Enqueue(r) ==
    /\ file[r] = "absent"
    /\ file' = [file EXCEPT ![r] = "queued"]
    /\ UNCHANGED <<inflight, drain, runner, ran, budget, history>>

----------------------------------------------------------------------------
(* drain_once *)

Becomes(d, s) == drain' = [drain EXCEPT ![d] = s]

\* The poll interval has passed, a file changed, or a client asked.
Start(d) ==
    /\ drain[d].pc = "idle"
    /\ Becomes(d, State("listing", {}, 0))
    /\ UNCHANGED <<file, inflight, runner, ran, budget, history>>

\* list_queued_runs, in a thread.
List(d) ==
    /\ drain[d].pc = "listing"
    /\ Becomes(d, State("loop", Queued(file), 0))
    /\ UNCHANGED <<file, inflight, runner, ran, budget, history>>

\* The loop comes to the next listed run.
AtNext(d, r) ==
    /\ drain[d].pc = "loop"
    /\ r \in drain[d].todo /\ \A q \in drain[d].todo : r <= q
After(d, r) == State("loop", drain[d].todo \ {r}, 0)
At(d, r, pc) == State(pc, drain[d].todo \ {r}, r)

ClaimableUnseen(r) == r \notin inflight     \* mutant: no second look

\* Neither in flight nor, on the second look, taken by somebody else.
Claimable(r) == r \notin inflight /\ file[r] = "queued"

Skip(d, r) ==
    /\ AtNext(d, r) /\ ~Claimable(r)
    /\ Becomes(d, After(d, r))
    /\ UNCHANGED <<file, inflight, runner, ran, budget, history>>

\* The record does not validate, or the staged file is not there.
Refuse(d, r) ==
    /\ AtNext(d, r) /\ Claimable(r)
    /\ Becomes(d, At(d, r, "refusing"))
    /\ UNCHANGED <<file, inflight, runner, ran, budget, history>>

Claim(d, r) ==
    /\ AtNext(d, r) /\ Claimable(r)
    /\ inflight' = inflight \cup {r}
    /\ Becomes(d, At(d, r, "marking"))
    /\ UNCHANGED <<file, runner, ran, budget, history>>

\* The thread that marks the claimed run "running".
Mark(d) ==
    /\ drain[d].pc = "marking"
    /\ file' = [file EXCEPT ![drain[d].at] = "running"]
    /\ Becomes(d, [drain[d] EXCEPT !.pc = "marked"])
    /\ UNCHANGED <<inflight, runner, ran, budget, history>>

Fault == faults < MaxFaults /\ faults' = faults + 1 /\ UNCHANGED deaths

\* write_run_status could not read the file: it returns None, and nobody looks.
MarkLost(d) ==
    /\ drain[d].pc = "marking" /\ Fault
    /\ lost' = lost \cup {drain[d].at}
    /\ Becomes(d, [drain[d] EXCEPT !.pc = "marked"])
    /\ UNCHANGED <<file, inflight, runner, ran, completed, cut>>

MarkFailsKeepingClaim(d) ==     \* mutant: it stays in flight
    /\ drain[d].pc = "marking" /\ Fault
    /\ Becomes(d, After(d, drain[d].at))
    /\ UNCHANGED <<file, inflight, runner, ran, history>>

\* It could not save: the run goes back to the next poll.
MarkFails(d) ==
    /\ drain[d].pc = "marking" /\ Fault
    /\ inflight' = inflight \ {drain[d].at}
    /\ Becomes(d, After(d, drain[d].at))
    /\ UNCHANGED <<file, runner, ran, history>>

StartRunner(d) ==
    LET r == drain[d].at IN
    /\ drain[d].pc = "marked"
    /\ runner' = [runner EXCEPT ![r] = "work"]
    /\ ran' = [ran EXCEPT ![r] = @ + 1]
    /\ Becomes(d, After(d, r))
    /\ UNCHANGED <<file, inflight, budget, history>>

\* A refused run is not in flight while the thread writes "failed".
Refused(d) ==
    /\ drain[d].pc = "refusing"
    /\ file' = [file EXCEPT ![drain[d].at] = "failed"]
    /\ Becomes(d, After(d, drain[d].at))
    /\ UNCHANGED <<inflight, runner, ran, budget, history>>

\* An exception here leaves the loop: the rest waits for the next drain.
RefuseFails(d) ==
    /\ drain[d].pc = "refusing" /\ Fault
    /\ Becomes(d, Idle)
    /\ UNCHANGED <<file, inflight, runner, ran, history>>

Finish(d) ==
    /\ drain[d].pc = "loop" /\ drain[d].todo = {}
    /\ Becomes(d, Idle)
    /\ UNCHANGED <<file, inflight, runner, ran, budget, history>>

----------------------------------------------------------------------------
(* The runners and their done callbacks, which the loop calls when the     *)
(* task has ended.                                                         *)

\* _on_done: no longer in flight, then the verdict; a failing write is logged.
Done(r, verdict) ==
    /\ inflight' = inflight \ {r}
    /\ runner' = [runner EXCEPT ![r] = "none"]
    /\ \/ /\ file' = [file EXCEPT ![r] = verdict]
          /\ UNCHANGED <<budget, lost>>
       \/ /\ Fault
          /\ lost' = lost \cup {r}
          /\ UNCHANGED file
    /\ UNCHANGED <<drain, ran, cut>>

\* The chat ran to its end, or local_ingest was ok and left no summary.
Completes(r) ==
    /\ runner[r] = "work"
    /\ completed' = completed \cup {r}
    /\ Done(r, "done")

GivesUpUnsettled(r) ==          \* mutant: the result None is the status
    runner[r] = "work" /\ r \in Rail /\ Done(r, "none") /\ UNCHANGED completed

\* _dispatch_chat gave up early or met a provider error: it returns None.
DispatchGivesUp(r) ==
    /\ runner[r] = "work" /\ r \in Rail
    /\ Done(r, "done")
    /\ UNCHANGED completed

\* local_ingest was ok: a thread adds its summary, again under "running".
Ingested(r) ==
    /\ runner[r] = "work" /\ r \notin Rail
    /\ runner' = [runner EXCEPT ![r] = "summary"]
    /\ completed' = completed \cup {r}
    /\ UNCHANGED <<file, inflight, drain, ran, budget, lost, cut>>

SummaryWritten(r) ==
    /\ runner[r] = "summary"
    /\ file' = [file EXCEPT ![r] = "running"]
    /\ runner' = [runner EXCEPT ![r] = "summarised"]
    /\ UNCHANGED <<inflight, drain, ran, budget, history>>

SummaryDone(r) ==
    /\ runner[r] = "summarised"
    /\ Done(r, "done")
    /\ UNCHANGED completed

FailsSilently(r) ==             \* mutant: a cancelled run gets no verdict
    /\ runner[r] \in {"work", "summary"}
    /\ inflight' = inflight \ {r}
    /\ runner' = [runner EXCEPT ![r] = "none"]
    /\ UNCHANGED <<file, drain, ran, budget, history>>

\* An exception, a local_ingest that was not ok, a summary that could not be
\* saved, or a Stop of the rail's run.
Fails(r) ==
    /\ runner[r] \in {"work", "summary"}
    /\ Done(r, "failed")
    /\ UNCHANGED completed

----------------------------------------------------------------------------
\* What the daemon was at when it died: claimed runs and their runners.
Marking == {r \in Run : \E d \in Drain :
                drain[d].at = r /\ drain[d].pc \in {"marking", "marked"}}
Live == {r \in Run : runner[r] # "none"}

Dies(after) ==
    /\ deaths < MaxDeaths /\ deaths' = deaths + 1
    /\ file' = after
    /\ inflight' = {}
    /\ drain' = [d \in Drain |-> Idle]
    /\ runner' = [r \in Run |-> "none"]
    /\ cut' = cut \cup Marking \cup Live
    /\ UNCHANGED <<ran, faults, completed, lost>>

Crash == Dies(file)

\* The status a pending thread is still to write to r's file.
LateWrites(r) ==
    (IF runner[r] = "summary" THEN {"running"} ELSE {})
    \cup {IF drain[d].pc = "marking" THEN "running" ELSE "failed" :
             d \in {e \in Drain : drain[e].at = r /\ drain[e].pc \in {"marking", "refusing"}}}

\* An orderly end cancels the runners, whose callbacks write "failed"; the
\* executor's threads still finish, before the callbacks or after them.
Shutdown ==
    \E after \in [Run -> {"absent", "queued", "running", "done", "failed"}] :
        /\ \A r \in Run :
               IF r \in Live THEN after[r] \in {"failed"} \cup LateWrites(r)
               ELSE IF LateWrites(r) # {} THEN after[r] \in LateWrites(r)
               ELSE after[r] = file[r]
        /\ Dies(after)

DrainStep(d) ==
    \/ List(d) \/ Mark(d) \/ MarkLost(d) \/ MarkFails(d) \/ StartRunner(d)
    \/ Refused(d) \/ RefuseFails(d) \/ Finish(d)
    \/ \E r \in Run : Skip(d, r) \/ Refuse(d, r) \/ Claim(d, r)

RunnerStep(r) ==
    \/ Completes(r) \/ DispatchGivesUp(r) \/ Fails(r)
    \/ Ingested(r) \/ SummaryWritten(r) \/ SummaryDone(r)

Next ==
    \/ \E r \in Run : Enqueue(r) \/ RunnerStep(r)
    \/ \E d \in Drain : Start(d) \/ DrainStep(d)
    \/ Crash \/ Shutdown

\* The poll loop drains again every 4 s; tasks and threads go on; a chat ends.
Fairness ==
    /\ WF_vars(Start(Poll))
    /\ \A d \in Drain : WF_vars(DrainStep(d))
    /\ \A r \in Run : WF_vars(RunnerStep(r))

Spec == Init /\ [][Next]_vars /\ Fairness

----------------------------------------------------------------------------
TypeOK ==
    /\ file \in [Run -> {"absent", "queued", "running", "done", "failed"}]
    /\ inflight \subseteq Run
    /\ drain \in [Drain -> DrainState]
    /\ runner \in [Run -> {"none", "work", "summary", "summarised"}]
    /\ ran \in [Run -> Nat]
    /\ faults \in 0..MaxFaults /\ deaths \in 0..MaxDeaths
    /\ completed \subseteq Run /\ lost \subseteq Run /\ cut \subseteq Run

\* However many drains overlap, and across crashes, a run is executed once,
\* unless a write of its own status was lost.
ExecutedOnce == \A r \in Run : ran[r] <= 1 \/ r \in lost

\* ingest_run_inflight names exactly the runs a drain is claiming or a runner
\* executes: no claim leaks (the run would never be drained), none is dropped.
InflightExact == inflight = Marking \cup Live

\* A file that says "running" has a runner or is being claimed, unless the
\* daemon died or a write was lost: no other path strands it there.
RunningIsOwned == \A r \in Run : file[r] = "running" => r \in inflight \cup cut \cup lost

\* Every queued run settles, or is caught by the daemon's death: nothing takes
\* up a file that says "running" when the daemon starts again.
Settles == \A r \in Run :
    file[r] = "queued" ~> (file[r] \in {"done", "failed"} \/ r \in cut \cup lost)

\* Where a run is for the queue's abstract specification.
Phase(r) ==
    IF r \in lost THEN "lost"
    ELSE IF runner[r] # "none" THEN "started"
    ELSE IF r \in inflight THEN "claimed"
    ELSE IF file[r] = "running" THEN "abandoned"
    ELSE IF file[r] \in {"done", "failed"} THEN "settled"
    ELSE file[r]

Queue == INSTANCE RunQueue WITH phase <- [r \in Run |-> Phase(r)]

\* Whatever drains, threads, callbacks and deaths do to it, every run goes
\* through the queue as RunQueue says: in particular a run whose runner was
\* started never comes back, and none leaves a verdict to run again.
ImplementsQueue == Queue!Spec

\* _dispatch_chat: "None tells programmatic callers (A2A) the run did not
\* complete".  A file says "done" only when its execution completed.
DoneMeansCompleted == \A r \in Run : file[r] = "done" => r \in completed
=============================================================================
