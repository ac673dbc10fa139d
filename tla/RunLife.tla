------------------------------ MODULE RunLife -------------------------------
(***************************************************************************)
(* The runs of one standing desk as daemon.py keeps them: the registry     *)
(* app["runs"], the desk record (kernel/desk.py), the tracked launch       *)
(* (app["desk_launches"]), the checkpoint's phase, and the asyncio tasks   *)
(* that launch a run and resume it.                                        *)
(*                                                                         *)
(* A run is named by the launch that made its id.  An action is what a     *)
(* task does between two awaits; pc is the await it is at:                 *)
(*   "new"    created, not started       "prep"  before its row exists     *)
(*   "load"   of a resume, reading the checkpoint   "pass"  it may go on   *)
(*   "reg"    row registered, not yet in its try                           *)
(*   "plan", "enter"  in the try, before execute() saved anything          *)
(*   "exec"   in execute()               "tail"  reporting its result      *)
(*   "except", "fail"  in its CancelledError or another except clause      *)
(*   "boot"   the boot task between two runs                               *)
(*   "leaked" ended outside its try: its row stays                         *)
(* DagRun has what happens inside execute().                               *)
(***************************************************************************)
EXTENDS FiniteSets

CONSTANTS Launch,    \* _run_desk tasks; also the run ids they make
          Resume,    \* _resume_orchestration tasks, used again when idle
          NoTask, NoRun

ASSUME TasksAssumption ==
    /\ Launch \cap Resume = {}
    /\ NoTask \notin Launch \cup Resume /\ NoRun \notin Launch

Task == Launch \cup Resume
Run  == Launch

VARIABLES pc, of,          \* where a task is, and for which run
          sig,             \* Task.cancel() was called, CancelledError is due
          row,             \* runs[o]: the task that registered the row
          st, uc, ud,      \* that row's status, user_cancel, user_dismiss
          timers,          \* _drop_cancelled tasks
          desk, tracked,   \* the desk record and its launch
          listed,          \* the record a dashboard request has read
          phase,           \* status.json
          dismissing,      \* dismiss requests between their write and the rest
          boot, queue,     \* the boot task and the runs it still has to resume
          lost             \* history: runs whose live row another task removed or marked

rows == <<row, st, uc, ud, lost>>
desks == <<desk, tracked, listed>>
daemon == <<boot, queue>>
vars == <<pc, of, sig, rows, timers, desks, phase, dismissing, daemon>>

NoDesk == [state |-> "none", run |-> NoRun]

Alive(t) == t # NoTask /\ pc[t] \notin {"idle", "done", "leaked"}
Busy(o)  == row[o] # NoTask /\ st[row[o]] = "busy"

\* checkpoint_resumable.  "open" is any phase of a run that neither ended nor
\* was stopped: running, waiting_limits, interrupted.
Resumable(ph) == ph = "open"

Init ==
    /\ pc = [t \in Task |-> "idle"]
    /\ of = [t \in Task |-> IF t \in Launch THEN t ELSE NoRun]
    /\ sig = [t \in Task |-> FALSE]
    /\ row = [o \in Run |-> NoTask]
    /\ st = [t \in Task |-> "busy"]
    /\ uc = [t \in Task |-> FALSE] /\ ud = [t \in Task |-> FALSE]
    /\ timers = {} /\ lost = {}
    /\ desk = NoDesk /\ tracked = NoTask /\ listed = NoDesk
    /\ phase = [o \in Run |-> "none"]
    /\ dismissing = {}
    /\ boot = NoTask /\ queue = {}

-----------------------------------------------------------------------------
(* kernel/desk.py.                                                         *)

\* quiet() without and with a run id.
QuietAnybody(d, keep) ==
    IF d.state \in {"none", "dismissed"} THEN d
    ELSE [state |-> "quiet", run |-> IF keep THEN d.run ELSE NoRun]

Quiet(d, o, keep) ==
    IF d.run \notin {NoRun, o} THEN d ELSE QuietAnybody(d, keep)

\* set_working.  Variant: also for a dismissed desk.
SetWorkingAlways(d, o) == [state |-> "working", run |-> IF o = NoRun THEN d.run ELSE o]

SetWorking(d, o) ==
    IF d.state \in {"none", "dismissed"} THEN d
    ELSE [state |-> "working", run |-> IF o = NoRun THEN d.run ELSE o]

\* quiet_run, dismiss_run.
QuietRun(d, o) == IF d.run = o /\ d.state = "working" THEN Quiet(d, o, TRUE) ELSE d
\* dismiss.  Variant: the run's id is kept.
DismissedKeepingRun == [state |-> "dismissed", run |-> desk.run]

Dismissed == [state |-> "dismissed", run |-> NoRun]

-----------------------------------------------------------------------------
(* The registry.                                                           *)

\* runs.pop(o) by t, which is over or never had a row.  A record that nobody
\* refers to any more is as new.
Pop(o, t) ==
    LET gone == {t} \cup (IF Alive(row[o]) THEN {} ELSE {row[o]}) IN
    /\ row' = [row EXCEPT ![o] = NoTask]
    /\ st' = [u \in Task |-> IF u \in gone THEN "busy" ELSE st[u]]
    /\ uc' = [u \in Task |-> uc[u] /\ u \notin gone]
    /\ ud' = [u \in Task |-> ud[u] /\ u \notin gone]
    /\ lost' = IF row[o] # t /\ Alive(row[o]) THEN lost \cup {o} ELSE lost

\* runs[o] = {...} of t.
SetRow(o, t) ==
    /\ row' = [row EXCEPT ![o] = t]
    /\ st' = [st EXCEPT ![t] = "busy"]
    /\ uc' = [uc EXCEPT ![t] = FALSE] /\ ud' = [ud EXCEPT ![t] = FALSE]

\* status "cancelled" and user_cancel, by t on whatever row the run has now.
MarkRow(o, t) ==
    /\ st' = [u \in Task |-> IF u = row[o] THEN "cancelled" ELSE st[u]]
    /\ uc' = [u \in Task |-> IF u = row[o] THEN TRUE ELSE uc[u]]
    /\ lost' = IF row[o] # t /\ Alive(row[o]) THEN lost \cup {o} ELSE lost

\* _cancel_run_ids: flags on the rows of O, cancel() on their tasks and on X.
RowTasks(O) == {row[o] : o \in O} \ {NoTask}
CancelRows(O, dismiss, X) ==
    /\ uc' = [t \in Task |-> uc[t] \/ t \in RowTasks(O)]
    /\ ud' = [t \in Task |-> ud[t] \/ (dismiss /\ t \in RowTasks(O))]
    /\ sig' = [t \in Task |-> sig[t] \/ (t \in RowTasks(O) \cup X /\ Alive(t))]

-----------------------------------------------------------------------------
(* A launch: _launch_desk, _run_desk, _dispatch_auto.                      *)

\* _cancel_desk_launch; _track_desk_launch.
\* Variant: the launch is only forgotten.
TrackedUncancelled == {}
Tracked == {tracked} \ {NoTask}

Track(l) ==
    /\ tracked' = l
    /\ sig' = [t \in Task |-> sig[t] \/ (t \in Tracked \ {l} /\ Alive(t))]

\* The desk stands before the task starts, keeping a live run's id.
LaunchDesk(l) ==
    /\ pc[l] = "idle"
    /\ pc' = [pc EXCEPT ![l] = "new"]
    /\ desk' = [state |-> "working",
                run |-> IF desk.state = "working" THEN desk.run ELSE NoRun]
    /\ Track(l)
    /\ UNCHANGED <<of, rows, timers, listed, phase, dismissing, daemon>>

\* The end of _run_desk.  Without a run id a placeholder seat is torn down.
EndLaunch(l, named, end) ==
    /\ pc' = [pc EXCEPT ![l] = end] /\ sig' = [sig EXCEPT ![l] = FALSE]
    /\ tracked' = IF tracked = l THEN NoTask ELSE tracked
    /\ desk' = IF ~named /\ desk.state = "working" /\ desk.run = NoRun
               THEN QuietAnybody(desk, FALSE) ELSE desk

\* A task cancelled before its first step runs no line of it.
NeverStarts(l) ==
    /\ pc[l] = "new" /\ sig[l]
    /\ pc' = [pc EXCEPT ![l] = "done"] /\ sig' = [sig EXCEPT ![l] = FALSE]
    /\ UNCHANGED <<of, rows, timers, desks, phase, dismissing, daemon>>

\* The task tracks itself again.
Begin(l) ==
    /\ pc[l] = "new" /\ ~sig[l] /\ desk.state # "dismissed"
    /\ pc' = [pc EXCEPT ![l] = "prep"]
    /\ Track(l)
    /\ UNCHANGED <<of, rows, timers, desk, listed, phase, dismissing, daemon>>

\* No desk any more, no key, a cancellation: no row yet.
GiveUp(l) ==
    /\ \/ pc[l] = "new" /\ ~sig[l] /\ desk.state = "dismissed"
       \/ pc[l] = "prep"
    /\ EndLaunch(l, FALSE, "done")
    /\ UNCHANGED <<of, rows, timers, listed, phase, dismissing, daemon>>

RegisterLaunch(l) ==
    /\ pc[l] = "prep" /\ ~sig[l]
    /\ SetRow(l, l)
    /\ pc' = [pc EXCEPT ![l] = "reg"]
    /\ UNCHANGED <<of, sig, lost, timers, desks, phase, dismissing, daemon>>

\* Cancelled between the row and the try.
LeakLaunch(l) ==
    /\ pc[l] = "reg" /\ sig[l]
    /\ EndLaunch(l, FALSE, "leaked")
    /\ UNCHANGED <<of, rows, timers, listed, phase, dismissing, daemon>>

\* A shell thread, or a thread with a run.
ThreadBusy(l) ==
    /\ pc[l] = "reg" /\ ~sig[l]
    /\ Pop(l, l)
    /\ EndLaunch(l, FALSE, "done")
    /\ UNCHANGED <<of, timers, listed, phase, dismissing, daemon>>

Plan(l) ==
    /\ pc[l] = "reg" /\ ~sig[l]
    /\ pc' = [pc EXCEPT ![l] = "plan"]
    /\ UNCHANGED <<of, sig, rows, timers, desks, phase, dismissing, daemon>>

\* seat() under the run's id.
SeatDesk(l) ==
    /\ pc[l] = "plan" /\ ~sig[l]
    /\ desk' = [state |-> "working", run |-> l]
    /\ pc' = [pc EXCEPT ![l] = "enter"]
    /\ UNCHANGED <<of, sig, rows, timers, tracked, listed, phase, dismissing, daemon>>

-----------------------------------------------------------------------------
(* execute(), as its caller sees it.                                       *)

Execute(t) ==
    /\ pc[t] = "enter" /\ ~sig[t]
    /\ phase' = [phase EXCEPT ![of[t]] = "open"]
    /\ pc' = [pc EXCEPT ![t] = "exec"]
    /\ UNCHANGED <<of, sig, rows, timers, desks, dismissing, daemon>>

StoppedPhase(t) == IF ud[t] THEN "cancelled" ELSE IF uc[t] THEN "quiet" ELSE "open"

\* A checkpoint after a batch.
FlushBoard(t) ==
    /\ pc[t] = "exec"
    /\ phase' = [phase EXCEPT ![of[t]] = StoppedPhase(t)]
    /\ UNCHANGED <<pc, of, sig, rows, timers, desks, dismissing, daemon>>

\* execute() returns: `ph` is what it saved last.  It ends by itself, also
\* when a late cancellation was swallowed, or by the cancellation.
Returns(t, ph, cancelled) ==
    \/ ~cancelled /\ ph \in {"completed", "open", "quiet"}
    \/ sig[t] /\ cancelled = uc[t] /\ ph = StoppedPhase(t)

\* A launch quiets its desk at once; "quiet" without a Stop is the end of the
\* curate window.
LaunchReturns(l, ph, cancelled) ==
    /\ pc[l] = "exec" /\ Returns(l, ph, cancelled)
    /\ phase' = [phase EXCEPT ![l] = ph]
    /\ desk' = Quiet(desk, l, cancelled \/ ph = "quiet")
    /\ IF cancelled THEN MarkRow(l, l) ELSE UNCHANGED <<st, uc, lost>>
    /\ pc' = [pc EXCEPT ![l] = "tail"] /\ sig' = [sig EXCEPT ![l] = FALSE]
    /\ UNCHANGED <<of, row, ud, timers, tracked, listed, dismissing, daemon>>

ResumeReturns(r, ph, cancelled) ==
    /\ pc[r] = "exec" /\ Returns(r, ph, cancelled)
    /\ phase' = [phase EXCEPT ![of[r]] = ph]
    /\ pc' = [pc EXCEPT ![r] = "tail"] /\ sig' = [sig EXCEPT ![r] = FALSE]
    /\ UNCHANGED <<of, rows, timers, desks, dismissing, daemon>>

\* CancelledError inside the try: before or after execute(), or raised out of
\* it by a chief that waits for its seat.
Except(t) ==
    /\ pc[t] \in {"plan", "enter", "exec", "tail"} /\ sig[t]
    /\ MarkRow(of[t], t)
    /\ desk' = IF t \in Launch THEN Quiet(desk, t, TRUE) ELSE desk
    /\ pc' = [pc EXCEPT ![t] = "except"] /\ sig' = [sig EXCEPT ![t] = FALSE]
    /\ UNCHANGED <<of, row, ud, timers, tracked, listed, phase, dismissing, daemon>>

\* Any other exception in the try.  The single run a launch falls back to is
\* not modelled.
LaunchFails(l) ==
    /\ pc[l] \in {"plan", "enter", "exec"} /\ ~sig[l]
    /\ desk' = Quiet(desk, l, FALSE)
    /\ pc' = [pc EXCEPT ![l] = "fail"]
    /\ UNCHANGED <<of, sig, rows, timers, tracked, listed, phase, dismissing, daemon>>

ResumeFails(r) ==
    /\ pc[r] \in {"enter", "exec"} /\ ~sig[r]
    /\ pc' = [pc EXCEPT ![r] = "fail"]
    /\ UNCHANGED <<of, sig, rows, timers, desks, phase, dismissing, daemon>>

\* The finally clauses; a cancellation goes on from there.
Ending(t) == pc[t] \in {"except", "fail"} \/ (pc[t] = "tail" /\ ~sig[t])
Raises(t) == pc[t] = "except" \/ sig[t]

\* The row of a cancelled launch lingers for eight seconds.
LaunchEnds(l) ==
    /\ Ending(l)
    /\ IF row[l] # NoTask /\ st[row[l]] = "cancelled"
       THEN timers' = timers \cup {l} /\ UNCHANGED rows
       ELSE Pop(l, l) /\ UNCHANGED timers
    /\ EndLaunch(l, ~Raises(l), "done")
    /\ UNCHANGED <<of, listed, phase, dismissing, daemon>>

DropCancelled(o) ==
    /\ o \in timers
    /\ timers' = timers \ {o}
    /\ Pop(o, NoTask)
    /\ UNCHANGED <<pc, of, sig, desks, phase, dismissing, daemon>>

-----------------------------------------------------------------------------
(* A resume: Start on a quiet desk, the resume request, the boot task.     *)

CreateResume(r, o) ==
    /\ pc[r] = "idle" /\ \A q \in Run : row[q] # r
    /\ pc' = [pc EXCEPT ![r] = "load"] /\ of' = [of EXCEPT ![r] = o]

\* _maybe_resume_quiet_desk.
StartDesk(r, o) ==
    /\ desk = [state |-> "quiet", run |-> o]
    /\ phase[o] \in {"quiet", "open"}
    /\ CreateResume(r, o)
    /\ desk' = SetWorking(desk, o)
    /\ UNCHANGED <<sig, rows, timers, tracked, listed, phase, dismissing, daemon>>

ResumeRequest(r, o) ==
    /\ phase[o] # "none"
    /\ CreateResume(r, o)
    /\ UNCHANGED <<sig, rows, timers, desks, phase, dismissing, daemon>>

Load(r) ==
    /\ pc[r] = "load" /\ phase[of[r]] \in {"quiet", "open"}
    /\ pc' = [pc EXCEPT ![r] = "pass"]
    /\ UNCHANGED <<of, sig, rows, timers, desks, phase, dismissing, daemon>>

\* The task ends, unless it is the boot task, which goes on to the next run
\* and ends only by raising.
EndResume(r, end, raised) ==
    /\ of' = [of EXCEPT ![r] = NoRun] /\ sig' = [sig EXCEPT ![r] = FALSE]
    /\ pc' = [pc EXCEPT ![r] = IF r = boot /\ ~raised THEN "boot" ELSE end]
    /\ boot' = IF r = boot /\ raised THEN NoTask ELSE boot
    /\ queue' = IF r = boot /\ raised THEN {} ELSE queue

\* No longer resumable, or no provider with a key.
Refuse(r) ==
    /\ \/ pc[r] = "load" /\ phase[of[r]] \notin {"quiet", "open"}
       \/ pc[r] = "pass"
    /\ desk' = Quiet(desk, of[r], FALSE)
    /\ EndResume(r, "idle", FALSE)
    /\ UNCHANGED <<rows, timers, tracked, listed, phase, dismissing>>

AlreadyRunning(r) ==
    /\ pc[r] = "pass" /\ Busy(of[r])
    /\ EndResume(r, "idle", FALSE)
    /\ UNCHANGED <<rows, timers, desks, phase, dismissing>>

\* Checked and registered without an await in between.  Variant: unchecked.
RegisterUnchecked(r) ==
    /\ pc[r] = "pass"
    /\ SetRow(of[r], r)
    /\ pc' = [pc EXCEPT ![r] = "reg"]
    /\ UNCHANGED <<of, sig, lost, timers, desks, phase, dismissing, daemon>>

RegisterResume(r) ==
    /\ pc[r] = "pass" /\ ~Busy(of[r])
    /\ SetRow(of[r], r)
    /\ pc' = [pc EXCEPT ![r] = "reg"]
    /\ UNCHANGED <<of, sig, lost, timers, desks, phase, dismissing, daemon>>

LeakResume(r) ==
    /\ pc[r] = "reg" /\ sig[r]
    /\ EndResume(r, "leaked", TRUE)
    /\ UNCHANGED <<rows, timers, desks, phase, dismissing>>

EnterResume(r) ==
    /\ pc[r] = "reg" /\ ~sig[r]
    /\ pc' = [pc EXCEPT ![r] = "enter"]
    /\ UNCHANGED <<of, sig, rows, timers, desks, phase, dismissing, daemon>>

\* Whether the desk keeps the run is read off the row the run has by now.
CancelledRow(o) == row[o] # NoTask /\ (st[row[o]] = "cancelled" \/ uc[row[o]])

\* That row is removed.  Variant: it is not.
ResumeEndsKeepingRow(r) ==
    /\ Ending(r)
    /\ desk' = Quiet(desk, of[r], CancelledRow(of[r]))
    /\ EndResume(r, "idle", Raises(r))
    /\ UNCHANGED <<rows, timers, tracked, listed, phase, dismissing>>

ResumeEnds(r) ==
    /\ Ending(r)
    /\ desk' = Quiet(desk, of[r], CancelledRow(of[r]))
    /\ Pop(of[r], r)
    /\ EndResume(r, "idle", Raises(r))
    /\ UNCHANGED <<timers, tracked, listed, phase, dismissing>>

-----------------------------------------------------------------------------
(* What the user asks for.                                                 *)

\* handle_run_cancel.
StopRun(o) ==
    /\ row[o] # NoTask
    /\ CancelRows({o}, FALSE, {})
    /\ desk' = QuietRun(desk, o)
    /\ UNCHANGED <<pc, of, row, st, lost, timers, tracked, listed, phase, dismissing, daemon>>

\* _cancel_ce_runs finds the rows of launches: a resumed run's has no command.
Matched == {o \in Run : row[o] \in Launch}
Settle(O, ph) ==
    phase' = [o \in Run |-> IF o \in O /\ phase[o] \notin {"none", "completed", "cancelled"}
                            THEN ph ELSE phase[o]]

\* _quiet_desk.
StopDesk ==
    /\ desk.state # "none"
    /\ Settle(Matched, "quiet")
    /\ CancelRows(Matched \cup ({desk.run} \cap Run), FALSE, Tracked)
    /\ tracked' = NoTask
    /\ desk' = QuietAnybody(desk, TRUE)
    /\ UNCHANGED <<pc, of, row, st, lost, timers, listed, dismissing, daemon>>

\* _dismiss_desk.
DismissDesk ==
    /\ desk.state # "none"
    /\ Settle(Matched, "cancelled")
    /\ CancelRows(Matched \cup ({desk.run} \cap Run), TRUE, Tracked)
    /\ tracked' = NoTask
    /\ desk' = Dismissed
    /\ UNCHANGED <<pc, of, row, st, lost, timers, listed, dismissing, daemon>>

\* handle_orchestration_dismiss: a checkpoint there is gets written in a
\* thread, the run is cancelled afterwards.
DismissWrites(o) ==
    /\ o \notin dismissing
    /\ phase' = [phase EXCEPT ![o] = IF @ = "none" THEN @ ELSE "cancelled"]
    /\ dismissing' = dismissing \cup {o}
    /\ UNCHANGED <<pc, of, sig, rows, timers, desks, daemon>>

DismissCancels(o) ==
    /\ o \in dismissing
    /\ dismissing' = dismissing \ {o}
    /\ CancelRows({o}, FALSE, {})
    /\ desk' = IF desk.run = o /\ desk.state # "dismissed" THEN Dismissed ELSE desk
    /\ UNCHANGED <<pc, of, row, st, lost, timers, tracked, listed, phase, daemon>>

\* handle_desks_list reads the standing desks in a thread and reconciles
\* what it read (_reconcile_desk_state).
ListDesks ==
    /\ listed = NoDesk /\ desk.state \in {"working", "quiet"}
    /\ listed' = desk
    /\ UNCHANGED <<pc, of, sig, rows, timers, desk, tracked, phase, dismissing, daemon>>

HasLiveWork(d) ==
    \/ d.run # NoRun /\ Busy(d.run)
    \/ tracked # NoTask /\ Alive(tracked)

Reconcile ==
    /\ listed # NoDesk
    /\ desk' = IF HasLiveWork(listed)
               THEN IF listed.state = "working" THEN desk ELSE SetWorking(desk, listed.run)
               ELSE IF listed.state # "working" THEN desk
               ELSE IF listed.run = NoRun THEN QuietAnybody(desk, FALSE)
               ELSE Quiet(desk, listed.run, phase[listed.run] \notin {"none", "completed"})
    /\ listed' = NoDesk
    /\ UNCHANGED <<pc, of, sig, rows, timers, tracked, phase, dismissing, daemon>>

-----------------------------------------------------------------------------
(* The daemon.                                                             *)

\* The process ends, in whatever state it is, and a new one starts.
Restart(b) ==
    /\ pc' = [t \in Task |-> IF t = b THEN "boot"
                             ELSE IF t \in Launch /\ pc[t] # "idle" THEN "done" ELSE "idle"]
    /\ of' = [t \in Task |-> IF t \in Launch THEN t ELSE NoRun]
    /\ sig' = [t \in Task |-> FALSE]
    /\ row' = [o \in Run |-> NoTask]
    /\ st' = [t \in Task |-> "busy"]
    /\ uc' = [t \in Task |-> FALSE] /\ ud' = [t \in Task |-> FALSE]
    /\ timers' = {} /\ lost' = {} /\ dismissing' = {}
    /\ tracked' = NoTask /\ listed' = NoDesk
    /\ boot' = b /\ queue' = {o \in Run : Resumable(phase[o])}
    /\ UNCHANGED <<desk, phase>>

\* _resume_interrupted_on_boot takes one run after the other.
BootNext(r, o) ==
    /\ pc[r] = "boot" /\ o \in queue
    /\ queue' = queue \ {o}
    /\ pc' = [pc EXCEPT ![r] = "load"] /\ of' = [of EXCEPT ![r] = o]
    /\ UNCHANGED <<sig, rows, timers, desks, phase, dismissing, boot>>

BootEnds(r) ==
    /\ pc[r] = "boot" /\ queue = {}
    /\ pc' = [pc EXCEPT ![r] = "idle"] /\ boot' = NoTask
    /\ UNCHANGED <<of, sig, rows, timers, desks, phase, dismissing, queue>>

-----------------------------------------------------------------------------
Endings == {"completed", "open", "quiet", "cancelled"}

LaunchStep(l) ==
    \/ NeverStarts(l) \/ Begin(l) \/ GiveUp(l) \/ RegisterLaunch(l) \/ LeakLaunch(l)
    \/ ThreadBusy(l) \/ Plan(l) \/ SeatDesk(l) \/ LaunchFails(l) \/ LaunchEnds(l)
    \/ \E ph \in Endings, c \in BOOLEAN : LaunchReturns(l, ph, c)

ResumeStep(r) ==
    \/ Load(r) \/ Refuse(r) \/ AlreadyRunning(r) \/ RegisterResume(r) \/ LeakResume(r)
    \/ EnterResume(r) \/ ResumeFails(r) \/ ResumeEnds(r) \/ BootEnds(r)
    \/ \E o \in Run : BootNext(r, o)
    \/ \E ph \in Endings, c \in BOOLEAN : ResumeReturns(r, ph, c)

User ==
    \/ \E l \in Launch : LaunchDesk(l)
    \/ \E r \in Resume, o \in Run : StartDesk(r, o) \/ ResumeRequest(r, o)
    \/ \E o \in Run : StopRun(o) \/ DismissWrites(o) \/ DismissCancels(o)
    \/ StopDesk \/ DismissDesk \/ ListDesks \/ Reconcile

Next ==
    \/ \E l \in Launch : LaunchStep(l)
    \/ \E r \in Resume : ResumeStep(r) \/ Restart(r)
    \/ \E t \in Task : Execute(t) \/ FlushBoard(t) \/ Except(t)
    \/ \E o \in Run : DropCancelled(o)
    \/ User

Spec == Init /\ [][Next]_vars

-----------------------------------------------------------------------------
(* Properties.                                                             *)

Places == {"idle", "new", "prep", "load", "pass", "reg", "plan", "enter",
           "exec", "tail", "except", "fail", "boot", "leaked", "done"}
Desk == [state : {"none", "working", "quiet", "dismissed"}, run : Run \cup {NoRun}]

\* Types; a dismissed desk has no run, only the boot task has a queue.
TypeOK ==
    /\ pc \in [Task -> Places]
    /\ of \in [Task -> Run \cup {NoRun}]
    /\ sig \in [Task -> BOOLEAN]
    /\ row \in [Run -> Task \cup {NoTask}]
    /\ st \in [Task -> {"busy", "cancelled"}]
    /\ uc \in [Task -> BOOLEAN] /\ ud \in [Task -> BOOLEAN]
    /\ timers \subseteq Run /\ lost \subseteq Run /\ dismissing \subseteq Run
    /\ desk \in Desk /\ listed \in Desk /\ tracked \in Launch \cup {NoTask}
    /\ phase \in [Run -> {"none"} \cup Endings]
    /\ boot \in Resume \cup {NoTask} /\ queue \subseteq Run
    /\ desk.state \in {"none", "dismissed"} => desk.run = NoRun
    /\ boot = NoTask => queue = {}
    /\ \A t \in Task : pc[t] = "boot" => t = boot

\* One task executes a run, however Start, the resume request and the boot
\* overlap, as long as nobody removed the row of a task that was still going.
OneExecutor ==
    \A t, u \in Task : pc[t] = "exec" /\ pc[u] = "exec" /\ of[t] = of[u]
                         => t = u \/ of[t] \in lost

\* A task that ended leaves no busy row behind, which would block every later
\* resume of the run, unless it was cancelled between its row and its try.
RowsEnd == \A o \in Run : Busy(o) => Alive(row[o]) \/ pc[row[o]] = "leaked"

\* Only the desk's current launch seats it: a launch that was stopped,
\* dismissed or replaced while it was planning does not take the desk back.
OneSeater ==
    [][\A l \in Launch : pc[l] = "plan" /\ pc'[l] = "enter" => tracked = l]_vars

\* docs/concepts-and-data-flow.md: "dismissed only when you drop the row", and
\* working again only by a launch: no late Stop, end of a run, resume or
\* dashboard request revives the desk.
DismissedStays ==
    [][desk.state = "dismissed" /\ desk'.state # "dismissed"
         => \E l \in Launch : pc[l] # pc'[l] /\ pc'[l] \in {"new", "enter"}]_vars
=============================================================================
