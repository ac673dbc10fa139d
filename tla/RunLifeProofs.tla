--------------------------- MODULE RunLifeProofs ----------------------------
(***************************************************************************)
(* What RunLife guarantees for any number of launches and resumes.         *)
(***************************************************************************)
EXTENDS RunLife, TLAPS

(***************************************************************************)
(* The inductive invariant.  Placed says where each kind of task can be;   *)
(* Fresh that nobody resumes a run before its launch got going; Registered *)
(* whose row is in the registry, and Unique that no task has two; Owned    *)
(* that a task between its row and the end of execute() still has that     *)
(* row, busy, unless another task took it away; Current that a launch      *)
(* which is not the tracked one has been cancelled.                        *)
(***************************************************************************)
Working == {"reg", "plan", "enter", "exec"}
Ends    == {"tail", "except", "fail"}

Placed ==
    /\ \A l \in Launch : of[l] = l /\ pc[l] \notin {"load", "pass", "boot"}
    /\ \A r \in Resume :
        /\ pc[r] \notin {"new", "prep", "plan", "done"}
        /\ pc[r] \in {"load", "pass"} \cup Working \cup Ends => of[r] \in Run

Started(o) == pc[o] \notin {"idle", "new", "prep"}

Fresh ==
    /\ \A o \in Run : phase[o] # "none" \/ o \in queue => Started(o)
    /\ \A r \in Resume : of[r] \in Run => Started(of[r])

Registered ==
    \A o \in Run, t \in Task : row[o] = t =>
        /\ t \in Launch => t = o
        /\ t \in Resume => pc[t] = "leaked" \/ of[t] = o
        /\ \/ pc[t] \in Working \cup Ends \cup {"leaked"}
           \/ pc[t] = "done" /\ st[t] = "cancelled"

Unique == \A o, q \in Run : row[o] = row[q] /\ row[o] # NoTask => o = q

Owned ==
    \A t \in Task : pc[t] \in Working /\ of[t] \notin lost
                      => row[of[t]] = t /\ st[t] = "busy"

Current ==
    \A l \in Launch : pc[l] \in {"new", "prep", "reg", "plan"} /\ ~sig[l] => tracked = l

IInv == TypeOK /\ Placed /\ Fresh /\ Registered /\ Unique /\ Owned /\ Current

-----------------------------------------------------------------------------
\* What quiet, set_working and quiet_run make of a desk record is one again.
Records == {d \in Desk : d.state \in {"none", "dismissed"} => d.run = NoRun}

LEMMA DeskRecords ==
    ASSUME NEW d \in Records, NEW o \in Run \cup {NoRun}, NEW keep \in BOOLEAN
    PROVE  /\ QuietAnybody(d, keep) \in Records /\ Quiet(d, o, keep) \in Records
           /\ SetWorking(d, o) \in Records /\ QuietRun(d, o) \in Records
  BY DEF Records, Desk, QuietAnybody, Quiet, SetWorking, QuietRun

RowsOK ==
    /\ row \in [Run -> Task \cup {NoTask}]
    /\ st \in [Task -> {"busy", "cancelled"}]
    /\ uc \in [Task -> BOOLEAN] /\ ud \in [Task -> BOOLEAN]
    /\ lost \subseteq Run

\* The operations on the registry keep its types.
LEMMA RowTypes ==
    ASSUME TypeOK, NEW o \in Run, NEW t \in Task \cup {NoTask}
    PROVE  /\ Pop(o, t) => RowsOK'
           /\ SetRow(o, t) /\ t \in Task /\ UNCHANGED lost => RowsOK'
           /\ MarkRow(o, t) /\ UNCHANGED <<row, ud>> => RowsOK'
           /\ UNCHANGED rows => RowsOK'
  <1>1. Pop(o, t) => RowsOK'
    BY DEF Pop, RowsOK, TypeOK
  <1>2. SetRow(o, t) /\ t \in Task /\ UNCHANGED lost => RowsOK'
    BY DEF SetRow, RowsOK, TypeOK
  <1>3. MarkRow(o, t) /\ UNCHANGED <<row, ud>> => RowsOK'
    BY DEF MarkRow, RowsOK, TypeOK
  <1>4. UNCHANGED rows => RowsOK'
    BY DEF rows, RowsOK, TypeOK
  <1> QED BY <1>1, <1>2, <1>3, <1>4

LEMMA CancelTypes ==
    ASSUME TypeOK, NEW O, NEW X, NEW dismiss \in BOOLEAN, CancelRows(O, dismiss, X)
    PROVE  uc' \in [Task -> BOOLEAN] /\ ud' \in [Task -> BOOLEAN] /\ sig' \in [Task -> BOOLEAN]
  BY DEF CancelRows, TypeOK

\* A desk with no launch, no run and no task.
LEMMA InitInv == Init => IInv
  <1> SUFFICES ASSUME Init PROVE IInv
    OBVIOUS
  <1> USE TasksAssumption DEF Init, Run, Task
  <1>1. TypeOK
    BY DEF TypeOK, Desk, NoDesk, Places, Endings
  <1>2. Placed /\ Fresh
    BY DEF Placed, Fresh, Started, Working, Ends
  <1>3. Registered /\ Unique
    BY DEF Registered, Unique
  <1>4. Owned /\ Current
    BY DEF Owned, Current, Working
  <1> QED BY <1>1, <1>2, <1>3, <1>4 DEF IInv

-----------------------------------------------------------------------------
\* Every step keeps the types: a launch's steps.
LEMMA TypeLaunch ==
    ASSUME IInv, NEW l \in Launch, LaunchStep(l) \/ LaunchDesk(l)
    PROVE  TypeOK'
  <1> USE DEF IInv, Places, Endings, rows, desks, daemon
  <1>a. l \in Task /\ l \in Run /\ desk \in Records
    BY DEF Task, Run, TypeOK, Records
  <1>b. ASSUME RowsOK' PROVE /\ row' \in [Run -> Task \cup {NoTask}]
                             /\ st' \in [Task -> {"busy", "cancelled"}]
                             /\ uc' \in [Task -> BOOLEAN] /\ ud' \in [Task -> BOOLEAN]
                             /\ lost' \subseteq Run
    BY <1>b DEF RowsOK
  <1>c. ASSUME desk' \in Records
        PROVE  desk' \in Desk /\ (desk'.state \in {"none", "dismissed"} => desk'.run = NoRun)
    BY <1>c DEF Records
  <1>d. ASSUME NEW named \in BOOLEAN, NEW end \in Places \ {"boot"}, EndLaunch(l, named, end)
        PROVE  /\ pc' \in [Task -> Places] /\ sig' \in [Task -> BOOLEAN]
               /\ tracked' \in Launch \cup {NoTask} /\ desk' \in Records
               /\ \A t \in Task : pc'[t] = "boot" => t = boot
    <2>1. desk' \in Records
      BY <1>a, <1>d, DeskRecords DEF EndLaunch
    <2> QED BY <1>a, <1>d, <2>1 DEF EndLaunch, TypeOK
  <1>1. CASE NeverStarts(l) \/ Begin(l) \/ Plan(l)
    BY <1>1, <1>a DEF NeverStarts, Begin, Plan, Track, TypeOK
  <1>2. CASE GiveUp(l)
    BY <1>2, <1>a, <1>c, <1>d DEF GiveUp, TypeOK
  <1>3. CASE RegisterLaunch(l)
    <2>1. RowsOK'
      BY <1>3, <1>a, RowTypes DEF RegisterLaunch
    <2> QED BY <1>3, <1>a, <1>b, <2>1 DEF RegisterLaunch, TypeOK
  <1>4. CASE LeakLaunch(l)
    BY <1>4, <1>a, <1>c, <1>d DEF LeakLaunch, TypeOK
  <1>5. CASE ThreadBusy(l)
    <2>1. RowsOK'
      BY <1>5, <1>a, RowTypes DEF ThreadBusy
    <2> QED BY <1>5, <1>a, <1>b, <1>c, <1>d, <2>1 DEF ThreadBusy, TypeOK
  <1>6. CASE SeatDesk(l)
    BY <1>6, <1>a DEF SeatDesk, TypeOK, Desk
  <1>7. CASE LaunchFails(l)
    <2>1. desk' \in Records
      BY <1>7, <1>a, DeskRecords DEF LaunchFails
    <2> QED BY <1>7, <1>a, <1>c, <2>1 DEF LaunchFails, TypeOK
  <1>8. CASE LaunchEnds(l)
    <2>1. RowsOK' /\ timers' \subseteq Run
      BY <1>8, <1>a, RowTypes DEF LaunchEnds, TypeOK
    <2>2. Raises(l) \in BOOLEAN
      BY <1>a DEF Raises, TypeOK
    <2> QED BY <1>8, <1>a, <1>b, <1>c, <1>d, <2>1, <2>2 DEF LaunchEnds, TypeOK
  <1>9. ASSUME NEW ph \in Endings, NEW c \in BOOLEAN, LaunchReturns(l, ph, c) PROVE TypeOK'
    <2>1. RowsOK'
      BY <1>9, <1>a, RowTypes DEF LaunchReturns
    <2>2. (c \/ ph = "quiet") \in BOOLEAN
      OBVIOUS
    <2>3. desk' \in Records
      BY <1>9, <1>a, <2>2, DeskRecords DEF LaunchReturns
    <2> QED BY <1>9, <1>a, <1>b, <1>c, <2>1, <2>3 DEF LaunchReturns, TypeOK
  <1>10. CASE LaunchDesk(l)
    BY <1>10, <1>a DEF LaunchDesk, Track, TypeOK, Desk
  <1> QED BY <1>1, <1>2, <1>3, <1>4, <1>5, <1>6, <1>7, <1>8, <1>9, <1>10 DEF LaunchStep

\* A resume's steps.
LEMMA TypeResume ==
    ASSUME IInv, NEW r \in Resume,
           ResumeStep(r) \/ Restart(r) \/ \E o \in Run : StartDesk(r, o) \/ ResumeRequest(r, o)
    PROVE  TypeOK'
  <1> USE DEF IInv, Places, Endings, rows, desks, daemon
  <1>a. r \in Task /\ r \notin Launch /\ desk \in Records
    BY TasksAssumption DEF Task, TypeOK, Records
  <1>b. ASSUME RowsOK' PROVE /\ row' \in [Run -> Task \cup {NoTask}]
                             /\ st' \in [Task -> {"busy", "cancelled"}]
                             /\ uc' \in [Task -> BOOLEAN] /\ ud' \in [Task -> BOOLEAN]
                             /\ lost' \subseteq Run
    BY <1>b DEF RowsOK
  <1>c. ASSUME desk' \in Records
        PROVE  desk' \in Desk /\ (desk'.state \in {"none", "dismissed"} => desk'.run = NoRun)
    BY <1>c DEF Records
  <1>d. ASSUME NEW raised \in BOOLEAN, NEW end \in {"idle", "leaked"}, EndResume(r, end, raised),
               pc[r] # "boot"
        PROVE  /\ pc' \in [Task -> Places] /\ sig' \in [Task -> BOOLEAN]
               /\ of' \in [Task -> Run \cup {NoRun}]
               /\ boot' \in Resume \cup {NoTask} /\ queue' \subseteq Run
               /\ boot' = NoTask => queue' = {}
               /\ \A t \in Task : pc'[t] = "boot" => t = boot'
    BY <1>a, <1>d DEF EndResume, TypeOK
  <1>1. CASE Load(r) \/ EnterResume(r) \/ ResumeFails(r)
    BY <1>1, <1>a DEF Load, EnterResume, ResumeFails, TypeOK
  <1>11. CASE AlreadyRunning(r)
    BY <1>11, <1>a, <1>d DEF AlreadyRunning, TypeOK
  <1>12. CASE BootEnds(r)
    BY <1>12, <1>a DEF BootEnds, TypeOK
  <1>2. CASE Refuse(r)
    <2>1. desk' \in Records
      BY <1>2, <1>a, DeskRecords DEF Refuse, TypeOK
    <2> QED BY <1>2, <1>a, <1>c, <1>d, <2>1 DEF Refuse, TypeOK
  <1>3. CASE RegisterResume(r)
    <2>1. of[r] \in Run
      BY <1>3 DEF RegisterResume, Placed
    <2>2. RowsOK'
      BY <1>3, <1>a, <2>1, RowTypes DEF RegisterResume
    <2> QED BY <1>3, <1>a, <1>b, <2>2 DEF RegisterResume, TypeOK
  <1>4. CASE LeakResume(r)
    BY <1>4, <1>a, <1>d DEF LeakResume, TypeOK
  <1>5. CASE ResumeEnds(r)
    <2>1. of[r] \in Run
      BY <1>5 DEF ResumeEnds, Ending, Placed, Ends
    <2>2. RowsOK'
      BY <1>5, <1>a, <2>1, RowTypes DEF ResumeEnds
    <2>3. CancelledRow(of[r]) \in BOOLEAN /\ Raises(r) \in BOOLEAN
      BY <1>a DEF CancelledRow, Raises, TypeOK
    <2>4. desk' \in Records
      BY <1>5, <1>a, <2>1, <2>3, DeskRecords DEF ResumeEnds
    <2> QED BY <1>5, <1>a, <1>b, <1>c, <1>d, <2>2, <2>3, <2>4
            DEF ResumeEnds, Ending, TypeOK
  <1>6. ASSUME NEW o \in Run, BootNext(r, o) PROVE TypeOK'
    BY <1>6, <1>a DEF BootNext, TypeOK
  <1>7. ASSUME NEW ph \in Endings, NEW c \in BOOLEAN, ResumeReturns(r, ph, c) PROVE TypeOK'
    BY <1>7, <1>a DEF ResumeReturns, TypeOK
  <1>8. ASSUME NEW o \in Run, StartDesk(r, o) PROVE TypeOK'
    <2>1. desk' \in Records
      BY <1>8, <1>a, DeskRecords DEF StartDesk
    <2> QED BY <1>8, <1>a, <1>c, <2>1 DEF StartDesk, CreateResume, TypeOK
  <1>9. ASSUME NEW o \in Run, ResumeRequest(r, o) PROVE TypeOK'
    BY <1>9, <1>a DEF ResumeRequest, CreateResume, TypeOK
  <1>10. CASE Restart(r)
    <2>1. pc' \in [Task -> Places] /\ of' \in [Task -> Run \cup {NoRun}]
      BY <1>10, <1>a DEF Restart, Run
    <2>2. boot' # NoTask
      BY <1>10, TasksAssumption DEF Restart
    <2> QED BY <1>10, <1>a, <2>1, <2>2 DEF Restart, TypeOK, NoDesk, Desk
  <1> QED BY <1>1, <1>2, <1>3, <1>4, <1>5, <1>6, <1>7, <1>8, <1>9, <1>10, <1>11, <1>12
          DEF ResumeStep

\* The steps launches and resumes share, the timers and the other requests.
LEMMA TypeOther ==
    ASSUME IInv,
           \/ \E t \in Task : Execute(t) \/ FlushBoard(t) \/ Except(t)
           \/ \E o \in Run : \/ DropCancelled(o) \/ StopRun(o)
                             \/ DismissWrites(o) \/ DismissCancels(o)
           \/ StopDesk \/ DismissDesk \/ ListDesks \/ Reconcile
    PROVE  TypeOK'
  <1> USE DEF IInv, Places, Endings, rows, desks, daemon
  <1>a. desk \in Records
    BY DEF TypeOK, Records
  <1>b. ASSUME RowsOK' PROVE /\ row' \in [Run -> Task \cup {NoTask}]
                             /\ st' \in [Task -> {"busy", "cancelled"}]
                             /\ uc' \in [Task -> BOOLEAN] /\ ud' \in [Task -> BOOLEAN]
                             /\ lost' \subseteq Run
    BY <1>b DEF RowsOK
  <1>c. ASSUME desk' \in Records
        PROVE  desk' \in Desk /\ (desk'.state \in {"none", "dismissed"} => desk'.run = NoRun)
    BY <1>c DEF Records
  <1>d. \A O : \A ph \in Endings : Settle(O, ph) => phase' \in [Run -> {"none"} \cup Endings]
    BY DEF Settle, TypeOK
  <1>e. Dismissed \in Records
    BY DEF Records, Desk, Dismissed
  <1>1. ASSUME NEW t \in Task, Execute(t) \/ FlushBoard(t) PROVE TypeOK'
    BY <1>1 DEF Execute, FlushBoard, StoppedPhase, TypeOK
  <1>2. ASSUME NEW t \in Task, Except(t) PROVE TypeOK'
    <2>1. of[t] \in Run
      BY <1>2 DEF Except, Placed, Working, Ends, Task, Run
    <2>2. RowsOK'
      BY <1>2, <2>1, RowTypes DEF Except
    <2>3. desk' \in Records
      BY <1>2, <1>a, DeskRecords DEF Except, Run
    <2> QED BY <1>2, <1>b, <1>c, <2>2, <2>3 DEF Except, TypeOK
  <1>3. ASSUME NEW o \in Run, DropCancelled(o) PROVE TypeOK'
    <2>1. RowsOK'
      BY <1>3, RowTypes DEF DropCancelled
    <2> QED BY <1>3, <1>b, <2>1 DEF DropCancelled, TypeOK
  <1>4. ASSUME NEW o \in Run, StopRun(o) PROVE TypeOK'
    <2>1. desk' \in Records
      BY <1>4, <1>a, DeskRecords DEF StopRun
    <2> QED BY <1>4, <1>c, <2>1, CancelTypes DEF StopRun, TypeOK
  <1>5. ASSUME NEW o \in Run, DismissWrites(o) PROVE TypeOK'
    BY <1>5 DEF DismissWrites, TypeOK
  <1>6. ASSUME NEW o \in Run, DismissCancels(o) PROVE TypeOK'
    BY <1>6, <1>a, <1>c, <1>e, CancelTypes DEF DismissCancels, TypeOK
  <1>7. CASE StopDesk
    <2>1. desk' \in Records
      BY <1>7, <1>a, DeskRecords DEF StopDesk
    <2> QED BY <1>7, <1>c, <1>d, <2>1, CancelTypes DEF StopDesk, TypeOK
  <1>8. CASE DismissDesk
    BY <1>8, <1>c, <1>d, <1>e, CancelTypes DEF DismissDesk, TypeOK
  <1>9. CASE ListDesks
    BY <1>9 DEF ListDesks, TypeOK
  <1>10. CASE Reconcile
    <2>1. listed.run \in Run \cup {NoRun}
      BY DEF TypeOK, Desk
    <2>2. (phase[listed.run] \notin {"none", "completed"}) \in BOOLEAN
      OBVIOUS
    <2>3. desk' \in Records
      BY <1>10, <1>a, <2>1, <2>2, DeskRecords DEF Reconcile
    <2> QED BY <1>10, <1>c, <2>3 DEF Reconcile, TypeOK, NoDesk, Desk
  <1> QED BY <1>1, <1>2, <1>3, <1>4, <1>5, <1>6, <1>7, <1>8, <1>9, <1>10

LEMMA TypeStep == IInv /\ [Next]_vars => TypeOK'
  <1> SUFFICES ASSUME IInv, [Next]_vars PROVE TypeOK'
    OBVIOUS
  <1>1. CASE UNCHANGED vars
    BY <1>1 DEF IInv, TypeOK, vars, rows, desks, daemon
  <1>2. CASE Next
    BY <1>2, TypeLaunch, TypeResume, TypeOther DEF Next, User
  <1> QED BY <1>1, <1>2

-----------------------------------------------------------------------------
\* The steps that no task takes: timers, requests, and none at all.
Aside ==
    \/ \E o \in Run : DropCancelled(o) \/ StopRun(o) \/ DismissWrites(o) \/ DismissCancels(o)
    \/ StopDesk \/ DismissDesk \/ ListDesks \/ Reconcile \/ UNCHANGED vars

\* They move no task and start no run.
LEMMA AsideKeeps ==
    ASSUME TypeOK, Aside
    PROVE  /\ UNCHANGED <<pc, of, queue>>
           /\ \A o \in Run : phase[o] = "none" => phase'[o] = "none"
  <1> USE DEF TypeOK, daemon
  <1>1. CASE \E o \in Run : \/ DropCancelled(o) \/ StopRun(o)
                            \/ DismissWrites(o) \/ DismissCancels(o)
    BY <1>1 DEF DropCancelled, StopRun, DismissWrites, DismissCancels
  <1>2. CASE StopDesk \/ DismissDesk
    BY <1>2 DEF StopDesk, DismissDesk, Settle
  <1>3. CASE ListDesks \/ Reconcile
    BY <1>3 DEF ListDesks, Reconcile
  <1>4. CASE UNCHANGED vars
    BY <1>4 DEF vars
  <1> QED BY <1>1, <1>2, <1>3, <1>4, Zenon DEF Aside

\* Who takes a step.
LEMMA Steps ==
    ASSUME [Next]_vars
    PROVE  \/ \E l \in Launch : LaunchStep(l) \/ LaunchDesk(l)
           \/ \E r \in Resume : ResumeStep(r)
           \/ \E r \in Resume, o \in Run : StartDesk(r, o) \/ ResumeRequest(r, o)
           \/ \E r \in Resume : Restart(r)
           \/ \E t \in Task : Execute(t) \/ FlushBoard(t) \/ Except(t)
           \/ Aside
  BY Zenon DEF Next, User, Aside

\* Every step leaves a task where its kind can be.
LEMMA PlacedStep == IInv /\ [Next]_vars => Placed'
  <1> SUFFICES ASSUME IInv, [Next]_vars PROVE Placed'
    OBVIOUS
  <1> USE TasksAssumption DEF IInv, TypeOK, Placed, Task, Run, Working, Ends
  <1>1. ASSUME NEW l \in Launch, LaunchStep(l) \/ LaunchDesk(l) PROVE Placed'
    <2>1. of' = of /\ \E p \in Places \ {"load", "pass", "boot"} : pc' = [pc EXCEPT ![l] = p]
      BY <1>1 DEF LaunchStep, LaunchDesk, NeverStarts, Begin, GiveUp, RegisterLaunch,
         LeakLaunch, ThreadBusy, Plan, SeatDesk, LaunchFails, LaunchEnds, LaunchReturns,
         EndLaunch, Places
    <2> QED BY <2>1
  <1>2. ASSUME NEW r \in Resume, ResumeStep(r) PROVE Placed'
    <2>1. ASSUME NEW end \in {"idle", "leaked"}, NEW raised \in BOOLEAN,
                 EndResume(r, end, raised)
          PROVE  Placed'
      BY <2>1 DEF EndResume
    <2>2. ASSUME Refuse(r) \/ AlreadyRunning(r) \/ LeakResume(r) \/ ResumeEnds(r) PROVE Placed'
      <3>1. Raises(r) \in BOOLEAN
        BY DEF Raises
      <3> QED BY <2>1, <2>2, <3>1 DEF Refuse, AlreadyRunning, LeakResume, ResumeEnds
    <2>3. ASSUME NEW o \in Run, BootNext(r, o) PROVE Placed'
      BY <2>3 DEF BootNext
    <2>4. ASSUME NEW ph \in Endings, NEW c \in BOOLEAN, ResumeReturns(r, ph, c) PROVE Placed'
      BY <2>4 DEF ResumeReturns
    <2>5. CASE Load(r) \/ RegisterResume(r) \/ EnterResume(r) \/ ResumeFails(r) \/ BootEnds(r)
      BY <2>5 DEF Load, RegisterResume, EnterResume, ResumeFails, BootEnds
    <2> QED BY <1>2, <2>2, <2>3, <2>4, <2>5 DEF ResumeStep
  <1>3. ASSUME NEW r \in Resume, NEW o \in Run, StartDesk(r, o) \/ ResumeRequest(r, o)
        PROVE  Placed'
    BY <1>3 DEF StartDesk, ResumeRequest, CreateResume
  <1>4. ASSUME NEW r \in Resume, Restart(r) PROVE Placed'
    BY <1>4 DEF Restart
  <1>5. ASSUME NEW t \in Task, Execute(t) \/ FlushBoard(t) \/ Except(t) PROVE Placed'
    <2>1. CASE Execute(t)
      BY <2>1 DEF Execute
    <2>2. CASE FlushBoard(t)
      BY <2>2 DEF FlushBoard
    <2>3. CASE Except(t)
      BY <2>3 DEF Except
    <2> QED BY <1>5, <2>1, <2>2, <2>3
  <1>6. ASSUME Aside PROVE Placed'
    BY <1>6, AsideKeeps
  <1> QED BY <1>1, <1>2, <1>3, <1>4, <1>5, <1>6, Steps

\* Every step keeps it that a run is resumed only after its launch began.
LEMMA FreshStep == IInv /\ [Next]_vars => Fresh'
  <1> SUFFICES ASSUME IInv, [Next]_vars PROVE Fresh'
    OBVIOUS
  <1> USE TasksAssumption DEF IInv, TypeOK, Placed, Fresh, Started, Task, Run, Working, Ends,
                              daemon
  <1>1. ASSUME NEW l \in Launch, LaunchStep(l) \/ LaunchDesk(l) PROVE Fresh'
    <2>1. ASSUME NEW p \in Places \ {"idle", "new", "prep"}, pc' = [pc EXCEPT ![l] = p],
                 UNCHANGED <<of, queue, phase>>
          PROVE  Fresh'
      BY <2>1
    <2>2. CASE NeverStarts(l) \/ RegisterLaunch(l) \/ Plan(l) \/ SeatDesk(l) \/ LaunchFails(l)
      BY <2>1, <2>2 DEF NeverStarts, RegisterLaunch, Plan, SeatDesk, LaunchFails, Places
    <2>3. CASE GiveUp(l) \/ LeakLaunch(l) \/ ThreadBusy(l) \/ LaunchEnds(l)
      BY <2>1, <2>3 DEF GiveUp, LeakLaunch, ThreadBusy, LaunchEnds, EndLaunch, Places
    <2>4. CASE Begin(l) \/ LaunchDesk(l)
      BY <2>4 DEF Begin, LaunchDesk
    <2>5. ASSUME NEW ph \in Endings, NEW c \in BOOLEAN, LaunchReturns(l, ph, c) PROVE Fresh'
      BY <2>5 DEF LaunchReturns
    <2> QED BY <1>1, <2>2, <2>3, <2>4, <2>5 DEF LaunchStep
  <1>2. ASSUME NEW r \in Resume, ResumeStep(r) PROVE Fresh'
    <2>0. ASSUME NEW end \in {"idle", "leaked"}, NEW raised \in BOOLEAN,
                 EndResume(r, end, raised), phase' = phase
          PROVE  Fresh'
      BY <2>0 DEF EndResume
    <2>1. ASSUME Refuse(r) \/ AlreadyRunning(r) \/ LeakResume(r) \/ ResumeEnds(r) PROVE Fresh'
      <3>1. Raises(r) \in BOOLEAN
        BY DEF Raises
      <3> QED BY <2>0, <2>1, <3>1 DEF Refuse, AlreadyRunning, LeakResume, ResumeEnds
    <2>2. ASSUME NEW o \in Run, BootNext(r, o) PROVE Fresh'
      BY <2>2 DEF BootNext
    <2>3. ASSUME NEW ph \in Endings, NEW c \in BOOLEAN, ResumeReturns(r, ph, c) PROVE Fresh'
      BY <2>3 DEF ResumeReturns
    <2>4. CASE \/ Load(r) \/ RegisterResume(r) \/ EnterResume(r) \/ ResumeFails(r) \/ BootEnds(r)
      BY <2>4 DEF Load, RegisterResume, EnterResume, ResumeFails, BootEnds
    <2> QED BY <1>2, <2>1, <2>2, <2>3, <2>4 DEF ResumeStep
  <1>3. ASSUME NEW r \in Resume, NEW o \in Run, StartDesk(r, o) \/ ResumeRequest(r, o)
        PROVE  Fresh'
    BY <1>3 DEF StartDesk, ResumeRequest, CreateResume
  <1>4. ASSUME NEW r \in Resume, Restart(r) PROVE Fresh'
    BY <1>4 DEF Restart, Resumable
  <1>5. ASSUME NEW t \in Task, Execute(t) \/ FlushBoard(t) \/ Except(t) PROVE Fresh'
    <2>1. CASE Execute(t)
      BY <2>1 DEF Execute
    <2>2. CASE FlushBoard(t)
      BY <2>2 DEF FlushBoard
    <2>3. CASE Except(t)
      BY <2>3 DEF Except
    <2> QED BY <1>5, <2>1, <2>2, <2>3
  <1>6. ASSUME Aside PROVE Fresh'
    BY <1>6, AsideKeeps
  <1> QED BY <1>1, <1>2, <1>3, <1>4, <1>5, <1>6, Steps

-----------------------------------------------------------------------------
\* Every step registers at most one row, of the task that takes it.
LEMMA RegisteredStep == IInv /\ [Next]_vars => (Registered /\ Unique)'
  <1> SUFFICES ASSUME IInv, [Next]_vars PROVE (Registered /\ Unique)'
    OBVIOUS
  <1> USE TasksAssumption DEF IInv, TypeOK, Placed, Task, Run, Working, Ends, rows, desks,
                              daemon, Registered, Unique
  <1>1. ASSUME NEW l \in Launch, LaunchStep(l) \/ LaunchDesk(l) PROVE (Registered /\ Unique)'
    <2>1. CASE NeverStarts(l) \/ Begin(l)
      BY <2>1 DEF NeverStarts, Begin, Track, Tracked
    <2>2. CASE GiveUp(l)
      BY <2>2 DEF GiveUp, EndLaunch
    <2>3. CASE RegisterLaunch(l)
      BY <2>3 DEF RegisterLaunch, SetRow
    <2>4. CASE LeakLaunch(l)
      BY <2>4 DEF LeakLaunch, EndLaunch
    <2>5. CASE ThreadBusy(l)
      BY <2>5 DEF ThreadBusy, Pop, EndLaunch
    <2>6. CASE Plan(l)
      BY <2>6 DEF Plan
    <2>7. CASE SeatDesk(l)
      BY <2>7 DEF SeatDesk
    <2>8. CASE LaunchFails(l)
      BY <2>8 DEF LaunchFails
    <2>9. CASE LaunchEnds(l)
      BY <2>9 DEF LaunchEnds, Pop, EndLaunch, Ending
    <2>10. CASE LaunchDesk(l)
      BY <2>10 DEF LaunchDesk, Track, Tracked
    <2>11. ASSUME NEW ph \in Endings, NEW c \in BOOLEAN, LaunchReturns(l, ph, c) 
          PROVE  (Registered /\ Unique)'
      <3>1. CASE c
        BY <2>11, <3>1 DEF LaunchReturns, MarkRow
      <3>2. CASE ~c
        BY <2>11, <3>2 DEF LaunchReturns
      <3> QED BY <3>1, <3>2
    <2> QED BY <1>1, <2>1, <2>2, <2>3, <2>4, <2>5, <2>6, <2>7, <2>8, <2>9, <2>10, <2>11
            DEF LaunchStep
  <1>2. ASSUME NEW r \in Resume, ResumeStep(r) PROVE (Registered /\ Unique)'
    <2>1. CASE Load(r) \/ EnterResume(r) \/ ResumeFails(r)
      BY <2>1 DEF Load, EnterResume, ResumeFails
    <2>2. CASE Refuse(r)
      BY <2>2 DEF Refuse, EndResume
    <2>3. CASE AlreadyRunning(r)
      BY <2>3 DEF AlreadyRunning, EndResume
    <2>4. CASE RegisterResume(r)
      BY <2>4 DEF RegisterResume, SetRow, Busy
    <2>5. CASE LeakResume(r)
      BY <2>5 DEF LeakResume, EndResume
    <2>6. CASE ResumeEnds(r)
      BY <2>6 DEF ResumeEnds, Pop, EndResume, Ending
    <2>7. CASE BootEnds(r)
      BY <2>7 DEF BootEnds
    <2>8. ASSUME NEW o \in Run, BootNext(r, o) PROVE (Registered /\ Unique)'
      BY <2>8 DEF BootNext
    <2>9. ASSUME NEW ph \in Endings, NEW c \in BOOLEAN, ResumeReturns(r, ph, c)
          PROVE  (Registered /\ Unique)'
      BY <2>9 DEF ResumeReturns
    <2> QED BY <1>2, <2>1, <2>2, <2>3, <2>4, <2>5, <2>6, <2>7, <2>8, <2>9 DEF ResumeStep
  <1>3. ASSUME NEW r \in Resume, NEW o \in Run, StartDesk(r, o) \/ ResumeRequest(r, o)
        PROVE  (Registered /\ Unique)'
    BY <1>3 DEF StartDesk, ResumeRequest, CreateResume
  <1>4. ASSUME NEW r \in Resume, Restart(r) PROVE (Registered /\ Unique)'
    BY <1>4 DEF Restart
  <1>5. ASSUME NEW t \in Task, Execute(t) \/ FlushBoard(t) \/ Except(t)
        PROVE  (Registered /\ Unique)'
    <2>1. CASE Execute(t) \/ FlushBoard(t)
      BY <2>1 DEF Execute, FlushBoard
    <2>2. CASE Except(t)
      BY <2>2 DEF Except, MarkRow
    <2> QED BY <1>5, <2>1, <2>2
  <1>6. ASSUME NEW o \in Run, DropCancelled(o) PROVE (Registered /\ Unique)'
    BY <1>6 DEF DropCancelled, Pop
  <1>7. ASSUME NEW o \in Run, StopRun(o) \/ DismissWrites(o) \/ DismissCancels(o)
        PROVE  (Registered /\ Unique)'
    BY <1>7 DEF StopRun, DismissWrites, DismissCancels, CancelRows
  <1>8. CASE StopDesk
    BY <1>8 DEF StopDesk, CancelRows, Tracked
  <1>9. CASE DismissDesk
    BY <1>9 DEF DismissDesk, CancelRows, Tracked
  <1>10. CASE ListDesks
    BY <1>10 DEF ListDesks
  <1>11. CASE Reconcile
    BY <1>11 DEF Reconcile
  <1>12. CASE UNCHANGED vars
    BY <1>12 DEF vars
  <1> QED BY <1>1, <1>2, <1>3, <1>4, <1>5, <1>6, <1>7, <1>8, <1>9, <1>10, <1>11, <1>12, Steps
          DEF Aside

\* Every step leaves the rows of the tasks at work, or marks their runs lost.
LEMMA OwnedStep == IInv /\ [Next]_vars => Owned'
  <1> SUFFICES ASSUME IInv, [Next]_vars PROVE Owned'
    OBVIOUS
  <1> USE TasksAssumption DEF IInv, TypeOK, Placed, Task, Run, Working, Ends, rows, desks,
                              daemon, Registered, Unique, Owned, Fresh, Started, Alive
  <1>1. ASSUME NEW l \in Launch, LaunchStep(l) \/ LaunchDesk(l) PROVE Owned'
    <2>1. CASE NeverStarts(l) \/ Begin(l)
      BY <2>1 DEF NeverStarts, Begin, Track, Tracked
    <2>2. CASE GiveUp(l)
      BY <2>2 DEF GiveUp, EndLaunch
    <2>3. CASE RegisterLaunch(l)
      BY <2>3 DEF RegisterLaunch, SetRow
    <2>4. CASE LeakLaunch(l)
      BY <2>4 DEF LeakLaunch, EndLaunch
    <2>5. CASE ThreadBusy(l)
      BY <2>5 DEF ThreadBusy, Pop, EndLaunch
    <2>6. CASE Plan(l)
      BY <2>6 DEF Plan
    <2>7. CASE SeatDesk(l)
      BY <2>7 DEF SeatDesk
    <2>8. CASE LaunchFails(l)
      BY <2>8 DEF LaunchFails
    <2>9. CASE LaunchEnds(l)
      BY <2>9 DEF LaunchEnds, Pop, EndLaunch, Ending
    <2>10. CASE LaunchDesk(l)
      BY <2>10 DEF LaunchDesk, Track, Tracked
    <2>11. ASSUME NEW ph \in Endings, NEW c \in BOOLEAN, LaunchReturns(l, ph, c) 
          PROVE  Owned'
      <3>1. CASE c
        BY <2>11, <3>1 DEF LaunchReturns, MarkRow
      <3>2. CASE ~c
        BY <2>11, <3>2 DEF LaunchReturns
      <3> QED BY <3>1, <3>2
    <2> QED BY <1>1, <2>1, <2>2, <2>3, <2>4, <2>5, <2>6, <2>7, <2>8, <2>9, <2>10, <2>11
            DEF LaunchStep
  <1>2. ASSUME NEW r \in Resume, ResumeStep(r) PROVE Owned'
    <2>1. CASE Load(r) \/ EnterResume(r) \/ ResumeFails(r)
      BY <2>1 DEF Load, EnterResume, ResumeFails
    <2>2. CASE Refuse(r)
      BY <2>2 DEF Refuse, EndResume
    <2>3. CASE AlreadyRunning(r)
      BY <2>3 DEF AlreadyRunning, EndResume
    <2>4. CASE RegisterResume(r)
      BY <2>4 DEF RegisterResume, SetRow, Busy
    <2>5. CASE LeakResume(r)
      BY <2>5 DEF LeakResume, EndResume
    <2>6. CASE ResumeEnds(r)
      BY <2>6 DEF ResumeEnds, Pop, EndResume, Ending
    <2>7. CASE BootEnds(r)
      BY <2>7 DEF BootEnds
    <2>8. ASSUME NEW o \in Run, BootNext(r, o) PROVE Owned'
      BY <2>8 DEF BootNext
    <2>9. ASSUME NEW ph \in Endings, NEW c \in BOOLEAN, ResumeReturns(r, ph, c) PROVE Owned'
      BY <2>9 DEF ResumeReturns
    <2> QED BY <1>2, <2>1, <2>2, <2>3, <2>4, <2>5, <2>6, <2>7, <2>8, <2>9 DEF ResumeStep
  <1>3. ASSUME NEW r \in Resume, NEW o \in Run, StartDesk(r, o) \/ ResumeRequest(r, o)
        PROVE  Owned'
    BY <1>3 DEF StartDesk, ResumeRequest, CreateResume
  <1>4. ASSUME NEW r \in Resume, Restart(r) PROVE Owned'
    BY <1>4 DEF Restart
  <1>5. ASSUME NEW t \in Task, Execute(t) \/ FlushBoard(t) \/ Except(t) PROVE Owned'
    <2>1. CASE Execute(t) \/ FlushBoard(t)
      BY <2>1 DEF Execute, FlushBoard
    <2>2. CASE Except(t)
      BY <2>2 DEF Except, MarkRow
    <2> QED BY <1>5, <2>1, <2>2
  <1>6. ASSUME NEW o \in Run, DropCancelled(o) PROVE Owned'
    BY <1>6 DEF DropCancelled, Pop
  <1>7. ASSUME NEW o \in Run, StopRun(o) \/ DismissWrites(o) \/ DismissCancels(o) PROVE Owned'
    BY <1>7 DEF StopRun, DismissWrites, DismissCancels, CancelRows
  <1>8. CASE StopDesk
    BY <1>8 DEF StopDesk, CancelRows, Tracked
  <1>9. CASE DismissDesk
    BY <1>9 DEF DismissDesk, CancelRows, Tracked
  <1>10. CASE ListDesks
    BY <1>10 DEF ListDesks
  <1>11. CASE Reconcile
    BY <1>11 DEF Reconcile
  <1>12. CASE UNCHANGED vars
    BY <1>12 DEF vars
  <1> QED BY <1>1, <1>2, <1>3, <1>4, <1>5, <1>6, <1>7, <1>8, <1>9, <1>10, <1>11, <1>12, Steps
          DEF Aside

\* Every step that tracks another launch, or none, cancels the tracked one.
LEMMA CurrentStep == IInv /\ [Next]_vars => Current'
  <1> SUFFICES ASSUME IInv, [Next]_vars PROVE Current'
    OBVIOUS
  <1> USE TasksAssumption DEF IInv, TypeOK, Task, Run, rows, desks, daemon, Current, Alive
  <1>1. ASSUME NEW l \in Launch, LaunchStep(l) \/ LaunchDesk(l) PROVE Current'
    <2>1. CASE NeverStarts(l) \/ Begin(l)
      BY <2>1 DEF NeverStarts, Begin, Track, Tracked
    <2>2. CASE GiveUp(l)
      BY <2>2 DEF GiveUp, EndLaunch
    <2>3. CASE RegisterLaunch(l)
      BY <2>3 DEF RegisterLaunch, SetRow
    <2>4. CASE LeakLaunch(l)
      BY <2>4 DEF LeakLaunch, EndLaunch
    <2>5. CASE ThreadBusy(l)
      BY <2>5 DEF ThreadBusy, Pop, EndLaunch
    <2>6. CASE Plan(l)
      BY <2>6 DEF Plan
    <2>7. CASE SeatDesk(l)
      BY <2>7 DEF SeatDesk
    <2>8. CASE LaunchFails(l)
      BY <2>8 DEF LaunchFails
    <2>9. CASE LaunchEnds(l)
      BY <2>9 DEF LaunchEnds, Pop, EndLaunch, Ending
    <2>10. CASE LaunchDesk(l)
      BY <2>10 DEF LaunchDesk, Track, Tracked
    <2>11. ASSUME NEW ph \in Endings, NEW c \in BOOLEAN, LaunchReturns(l, ph, c) 
          PROVE  Current'
      <3>1. CASE c
        BY <2>11, <3>1 DEF LaunchReturns, MarkRow
      <3>2. CASE ~c
        BY <2>11, <3>2 DEF LaunchReturns
      <3> QED BY <3>1, <3>2
    <2> QED BY <1>1, <2>1, <2>2, <2>3, <2>4, <2>5, <2>6, <2>7, <2>8, <2>9, <2>10, <2>11
            DEF LaunchStep
  <1>2. ASSUME NEW r \in Resume, ResumeStep(r) PROVE Current'
    <2>1. CASE Load(r) \/ EnterResume(r) \/ ResumeFails(r)
      BY <2>1 DEF Load, EnterResume, ResumeFails
    <2>2. CASE Refuse(r)
      BY <2>2 DEF Refuse, EndResume
    <2>3. CASE AlreadyRunning(r)
      BY <2>3 DEF AlreadyRunning, EndResume
    <2>4. CASE RegisterResume(r)
      BY <2>4 DEF RegisterResume, SetRow, Busy
    <2>5. CASE LeakResume(r)
      BY <2>5 DEF LeakResume, EndResume
    <2>6. CASE ResumeEnds(r)
      BY <2>6 DEF ResumeEnds, Pop, EndResume, Ending
    <2>7. CASE BootEnds(r)
      BY <2>7 DEF BootEnds
    <2>8. ASSUME NEW o \in Run, BootNext(r, o) PROVE Current'
      BY <2>8 DEF BootNext
    <2>9. ASSUME NEW ph \in Endings, NEW c \in BOOLEAN, ResumeReturns(r, ph, c) PROVE Current'
      BY <2>9 DEF ResumeReturns
    <2> QED BY <1>2, <2>1, <2>2, <2>3, <2>4, <2>5, <2>6, <2>7, <2>8, <2>9 DEF ResumeStep
  <1>3. ASSUME NEW r \in Resume, NEW o \in Run, StartDesk(r, o) \/ ResumeRequest(r, o)
        PROVE  Current'
    BY <1>3 DEF StartDesk, ResumeRequest, CreateResume
  <1>4. ASSUME NEW r \in Resume, Restart(r) PROVE Current'
    BY <1>4 DEF Restart
  <1>5. ASSUME NEW t \in Task, Execute(t) \/ FlushBoard(t) \/ Except(t) PROVE Current'
    <2>1. CASE Execute(t) \/ FlushBoard(t)
      BY <2>1 DEF Execute, FlushBoard
    <2>2. CASE Except(t)
      BY <2>2 DEF Except, MarkRow
    <2> QED BY <1>5, <2>1, <2>2
  <1>6. ASSUME NEW o \in Run, DropCancelled(o) PROVE Current'
    BY <1>6 DEF DropCancelled, Pop
  <1>7. ASSUME NEW o \in Run, StopRun(o) \/ DismissWrites(o) \/ DismissCancels(o) PROVE Current'
    BY <1>7 DEF StopRun, DismissWrites, DismissCancels, CancelRows
  <1>8. CASE StopDesk
    BY <1>8 DEF StopDesk, CancelRows, Tracked
  <1>9. CASE DismissDesk
    BY <1>9 DEF DismissDesk, CancelRows, Tracked
  <1>10. CASE ListDesks
    BY <1>10 DEF ListDesks
  <1>11. CASE Reconcile
    BY <1>11 DEF Reconcile
  <1>12. CASE UNCHANGED vars
    BY <1>12 DEF vars
  <1> QED BY <1>1, <1>2, <1>3, <1>4, <1>5, <1>6, <1>7, <1>8, <1>9, <1>10, <1>11, <1>12, Steps
          DEF Aside

-----------------------------------------------------------------------------
\* The invariant is inductive.
THEOREM Invariance == Spec => []IInv
  <1>1. IInv /\ [Next]_vars => IInv'
    BY TypeStep, PlacedStep, FreshStep, RegisteredStep, OwnedStep, CurrentStep DEF IInv
  <1> QED BY InitInv, <1>1, PTL DEF Spec

\* Types, in every reachable state; a dismissed desk has no run.
THEOREM TypeCorrect == Spec => []TypeOK
  BY Invariance, PTL DEF IInv

\* One task executes a run whose live row nobody took away.
THEOREM OneExecutorHolds == Spec => []OneExecutor
  <1>1. IInv => OneExecutor
    BY DEF IInv, TypeOK, Placed, Owned, OneExecutor, Working, Task
  <1> QED BY <1>1, Invariance, PTL

\* A task that ended leaves no busy row, unless it was cancelled between its
\* row and its try.
THEOREM RowsEndHolds == Spec => []RowsEnd
  <1>1. IInv => RowsEnd
    BY DEF IInv, TypeOK, Registered, RowsEnd, Busy, Alive, Working, Ends
  <1> QED BY <1>1, Invariance, PTL

\* A launch that seats the desk is the one the desk tracks, also when newer
\* launches replace older ones.
THEOREM OneSeaterHolds == Spec => OneSeater
  <1> DEFINE A == \A l \in Launch : pc[l] = "plan" /\ pc'[l] = "enter" => tracked = l
  <1>1. ASSUME IInv, [Next]_vars, NEW l \in Launch, pc[l] = "plan", pc'[l] = "enter"
        PROVE  tracked = l
    <2> USE TasksAssumption, <1>1 DEF IInv, TypeOK, Task
    <2>1. ASSUME NEW k \in Launch, LaunchStep(k) \/ LaunchDesk(k) PROVE tracked = l
      <3>1. CASE SeatDesk(k)
        BY <3>1 DEF SeatDesk, Current
      <3>2. ASSUME NEW p \in Places \ {"enter"}, pc' = [pc EXCEPT ![k] = p] PROVE FALSE
        BY <3>2
      <3> QED BY <2>1, <3>1, <3>2
              DEF LaunchStep, LaunchDesk, NeverStarts, Begin, GiveUp, RegisterLaunch, LeakLaunch,
                  ThreadBusy, Plan, LaunchFails, LaunchEnds, LaunchReturns, EndLaunch, Places
    <2>2. ASSUME NEW r \in Resume, \E v : pc' = [pc EXCEPT ![r] = v] PROVE FALSE
      BY <2>2
    <2>3. ASSUME NEW r \in Resume, ResumeStep(r) PROVE FALSE
      BY <2>2, <2>3
         DEF ResumeStep, Load, Refuse, AlreadyRunning, RegisterResume, LeakResume, EnterResume,
             ResumeFails, ResumeEnds, BootEnds, BootNext, ResumeReturns, EndResume
    <2>4. ASSUME NEW r \in Resume, NEW o \in Run, StartDesk(r, o) \/ ResumeRequest(r, o)
          PROVE  FALSE
      BY <2>2, <2>4 DEF StartDesk, ResumeRequest, CreateResume
    <2>5. ASSUME NEW r \in Resume, Restart(r) PROVE FALSE
      BY <2>5 DEF Restart
    <2>6. ASSUME NEW t \in Task, Execute(t) \/ FlushBoard(t) \/ Except(t) PROVE FALSE
      BY <2>6 DEF Execute, FlushBoard, Except
    <2>7. ASSUME Aside PROVE FALSE
      BY <2>7, AsideKeeps
    <2> QED BY <2>1, <2>3, <2>4, <2>5, <2>6, <2>7, Steps
  <1>2. IInv /\ [Next]_vars => [A]_vars
    BY <1>1
  <1> QED BY <1>2, Invariance, PTL DEF Spec, OneSeater

\* Nothing but a launch makes a dismissed desk stand again.
THEOREM DismissedStaysHolds == Spec => DismissedStays
  <1> DEFINE A == desk.state = "dismissed" /\ desk'.state # "dismissed"
                    => \E l \in Launch : pc[l] # pc'[l] /\ pc'[l] \in {"new", "enter"}
  <1>1. ASSUME IInv, [Next]_vars, desk.state = "dismissed", desk'.state # "dismissed"
        PROVE  \E l \in Launch : pc[l] # pc'[l] /\ pc'[l] \in {"new", "enter"}
    <2> USE <1>1 DEF IInv, TypeOK, Task, desks
    <2>a. /\ \A o, k : QuietAnybody(desk, k) = desk /\ Quiet(desk, o, k) = desk
          /\ \A o : SetWorking(desk, o) = desk /\ QuietRun(desk, o) = desk
      BY DEF QuietAnybody, Quiet, SetWorking, QuietRun
    <2>b. desk' # desk
      OBVIOUS
    <2>1. ASSUME NEW l \in Launch, LaunchStep(l) \/ LaunchDesk(l)
          PROVE  pc[l] # pc'[l] /\ pc'[l] \in {"new", "enter"}
      <3>1. CASE SeatDesk(l) \/ LaunchDesk(l)
        BY <3>1 DEF SeatDesk, LaunchDesk
      <3> QED BY <2>1, <2>a, <2>b, <3>1
              DEF LaunchStep, NeverStarts, Begin, GiveUp, RegisterLaunch, LeakLaunch,
                  ThreadBusy, Plan, LaunchFails, LaunchEnds, LaunchReturns, EndLaunch
    <2>2. ASSUME NEW r \in Resume, ResumeStep(r) PROVE FALSE
      BY <2>2, <2>a, <2>b
         DEF ResumeStep, Load, Refuse, AlreadyRunning, RegisterResume, LeakResume, EnterResume,
             ResumeFails, ResumeEnds, BootEnds, BootNext, ResumeReturns
    <2>3. ASSUME NEW r \in Resume, NEW o \in Run,
                 StartDesk(r, o) \/ ResumeRequest(r, o)
          PROVE  FALSE
      BY <2>3, <2>a, <2>b DEF StartDesk, ResumeRequest
    <2>4. ASSUME NEW t \in Task, Execute(t) \/ FlushBoard(t) \/ Except(t) PROVE FALSE
      BY <2>4, <2>a, <2>b DEF Execute, FlushBoard, Except
    <2>5. ASSUME Aside PROVE FALSE
      <3>1. ASSUME NEW o \in Run, DropCancelled(o) \/ StopRun(o) \/ DismissWrites(o) \/ DismissCancels(o)
            PROVE  FALSE
        BY <3>1, <2>a, <2>b DEF DropCancelled, StopRun, DismissWrites, DismissCancels
      <3>2. CASE StopDesk
        BY <3>2, <2>a, <2>b DEF StopDesk
      <3>5. CASE DismissDesk
        BY <3>5 DEF DismissDesk, Dismissed
      <3>3. CASE ListDesks \/ UNCHANGED vars
        BY <3>3, <2>b DEF ListDesks, vars
      <3>4. CASE Reconcile
        BY <3>4, <2>a, <2>b DEF Reconcile
      <3> QED BY <2>5, <3>1, <3>2, <3>3, <3>4, <3>5 DEF Aside
    <2>6. ASSUME NEW r \in Resume, Restart(r) PROVE FALSE
      BY <2>6, <2>b DEF Restart
    <2> QED BY <2>1, <2>2, <2>3, <2>4, <2>5, <2>6, Steps
  <1>2. IInv /\ [Next]_vars => [A]_vars
    BY <1>1
  <1> QED BY <1>2, Invariance, PTL DEF Spec, DismissedStays

=============================================================================
