--------------------------- MODULE RunDrainProofs ---------------------------
(***************************************************************************)
(* What RunDrain guarantees for any number of run files and drains.        *)
(***************************************************************************)
EXTENDS RunDrain, TLAPS

(***************************************************************************)
(* The inductive invariant.  A drain holds a run from its claim to the     *)
(* start of its runner; Alone says that nobody else holds or executes it   *)
(* then, Claimed that it has not been executed and is not yet marked, and  *)
(* Marked that a run whose runner exists, or is about to, is not queued:   *)
(* together they are why the second look at the file is enough.            *)
(***************************************************************************)
Holds(d, r) == drain[d].at = r /\ drain[d].pc \in {"marking", "marked"}

Placed == \A d \in Drain : drain[d].pc \in {"marking", "marked", "refusing"}
                              => drain[d].at \in Run

Alone == \A d \in Drain, r \in Run : Holds(d, r) =>
            /\ runner[r] = "none"
            /\ \A e \in Drain : Holds(e, r) => e = d

Claimed == \A d \in Drain, r \in Run : Holds(d, r) =>
            /\ ran[r] = 0 \/ r \in lost
            /\ drain[d].pc = "marking" => file[r] # "running"

Marked ==
    /\ \A r \in Run : ran[r] > 0 /\ r \notin lost => file[r] \notin {"absent", "queued"}
    /\ \A d \in Drain, r \in Run :
          drain[d].pc = "marked" /\ drain[d].at = r /\ r \notin lost
             => file[r] \notin {"absent", "queued"}

\* InflightExact, run by run.
Tracked == \A r \in Run : r \in inflight <=> runner[r] # "none" \/ \E d \in Drain : Holds(d, r)

IInv == TypeOK /\ Placed /\ Alone /\ Claimed /\ Marked /\ Tracked
        /\ ExecutedOnce /\ RunningIsOwned

LEMMA InitInv == Init => IInv
  <1> SUFFICES ASSUME Init PROVE IInv
    OBVIOUS
  <1> USE DrainAssumption DEF Init
  <1>1. TypeOK
    BY DEF TypeOK, DrainState, Idle, State, Run
  <1>2. Placed /\ Alone /\ Claimed /\ Marked /\ Tracked
    BY DEF Placed, Alone, Claimed, Marked, Tracked, Holds, Idle, State, Run
  <1>3. ExecutedOnce /\ RunningIsOwned
    BY DEF ExecutedOnce, RunningIsOwned
  <1> QED BY <1>1, <1>2, <1>3 DEF IInv

-----------------------------------------------------------------------------
\* The states a drain takes are drain states, with the fields they name.
Pcs == {"idle", "listing", "loop", "marking", "marked", "refusing"}

LEMMA States ==
    ASSUME NEW p \in Pcs, NEW T \in SUBSET Run, NEW a \in Run \cup {0}
    PROVE  /\ State(p, T, a) \in DrainState
           /\ State(p, T, a).pc = p /\ State(p, T, a).at = a
  <1>1. a \in 0..N
    BY DrainAssumption DEF Run
  <1> QED BY <1>1 DEF State, DrainState, Pcs

LEMMA DrainRecords ==
    ASSUME TypeOK, NEW d \in Drain
    PROVE  /\ \A r \in Run : /\ After(d, r) \in DrainState /\ After(d, r).pc = "loop"
                             /\ At(d, r, "marking") \in DrainState
                             /\ At(d, r, "marking").pc = "marking" /\ At(d, r, "marking").at = r
                             /\ At(d, r, "refusing") \in DrainState
                             /\ At(d, r, "refusing").pc = "refusing" /\ At(d, r, "refusing").at = r
           /\ LET s == [drain[d] EXCEPT !.pc = "marked"]
              IN  s \in DrainState /\ s.pc = "marked" /\ s.at = drain[d].at
           /\ \A T \in SUBSET Run : /\ State("loop", T, 0) \in DrainState
                                    /\ State("loop", T, 0).pc = "loop"
           /\ Idle \in DrainState /\ Idle.pc = "idle"
           /\ State("listing", {}, 0) \in DrainState /\ State("listing", {}, 0).pc = "listing"
           /\ Run \subseteq 0..N
  <1>1. /\ {"idle", "listing", "loop", "marking", "marked", "refusing"} \subseteq Pcs
        /\ Run \subseteq 0..N
    BY DrainAssumption DEF Run, Pcs
  <1>2. drain[d] \in DrainState /\ drain[d].todo \in SUBSET Run
    BY DEF TypeOK, DrainState
  <1>3. ASSUME NEW r \in Run
        PROVE  /\ After(d, r) \in DrainState /\ After(d, r).pc = "loop"
               /\ At(d, r, "marking") \in DrainState
               /\ At(d, r, "marking").pc = "marking" /\ At(d, r, "marking").at = r
               /\ At(d, r, "refusing") \in DrainState
               /\ At(d, r, "refusing").pc = "refusing" /\ At(d, r, "refusing").at = r
    <2>1. drain[d].todo \ {r} \in SUBSET Run
      BY <1>2
    <2> QED BY <1>1, <2>1, States DEF After, At
  <1>4. LET s == [drain[d] EXCEPT !.pc = "marked"]
        IN  s \in DrainState /\ s.pc = "marked" /\ s.at = drain[d].at
    BY <1>2 DEF DrainState
  <1>5. /\ \A T \in SUBSET Run : /\ State("loop", T, 0) \in DrainState
                                 /\ State("loop", T, 0).pc = "loop"
        /\ Idle \in DrainState /\ Idle.pc = "idle"
        /\ State("listing", {}, 0) \in DrainState /\ State("listing", {}, 0).pc = "listing"
    BY <1>1, States DEF Idle
  <1> QED BY <1>1, <1>3, <1>4, <1>5

\* The steps of a drain before and beside a claim.
LEMMA LooksKeep ==
    ASSUME IInv, NEW d \in Drain,
           \/ Start(d) \/ List(d) \/ Finish(d) \/ Refused(d) \/ RefuseFails(d)
           \/ \E r \in Run : Skip(d, r) \/ Refuse(d, r)
    PROVE  IInv'
  <1> USE DrainAssumption DEF IInv, Becomes, Fault, budget, history
  <1>r. TypeOK /\ Run \subseteq 0..N
    BY DrainRecords
  <1>s. /\ \/ UNCHANGED file
           \/ drain[d].at \in Run /\ file' = [file EXCEPT ![drain[d].at] = "failed"]
        /\ UNCHANGED <<inflight, runner, ran, lost, completed, cut, deaths>>
        /\ faults' \in 0..MaxFaults
    BY DEF Start, List, Finish, Skip, Refuse, Refused, RefuseFails, TypeOK, Placed
  <1>t. \E s \in DrainState : /\ drain' = [drain EXCEPT ![d] = s]
                              /\ s.pc \notin {"marking", "marked"}
                              /\ s.pc = "refusing" => s.at \in Run
    <2>1. CASE Start(d) \/ List(d) \/ Finish(d) \/ RefuseFails(d)
      <3>1. \/ drain' = [drain EXCEPT ![d] = Idle]
            \/ drain' = [drain EXCEPT ![d] = State("listing", {}, 0)]
            \/ drain' = [drain EXCEPT ![d] = State("loop", Queued(file), 0)]
        BY <2>1 DEF Start, List, Finish, RefuseFails
      <3>2. Queued(file) \in SUBSET Run
        BY DEF Queued
      <3>3. /\ State("loop", Queued(file), 0) \in DrainState
            /\ State("loop", Queued(file), 0).pc = "loop"
            /\ Idle \in DrainState /\ Idle.pc = "idle"
            /\ State("listing", {}, 0) \in DrainState
            /\ State("listing", {}, 0).pc = "listing"
        BY <3>2, DrainRecords
      <3> QED BY <3>1, <3>3
    <2>2. CASE Refused(d)
      <3>1. drain' = [drain EXCEPT ![d] = After(d, drain[d].at)] /\ drain[d].at \in Run
        BY <2>2 DEF Refused, Placed
      <3>2. After(d, drain[d].at) \in DrainState /\ After(d, drain[d].at).pc = "loop"
        BY <3>1, DrainRecords
      <3> QED BY <3>1, <3>2
    <2>3. CASE \E r \in Run : Skip(d, r) \/ Refuse(d, r)
      <3>1. PICK r \in Run : drain' = [drain EXCEPT ![d] = After(d, r)]
                              \/ drain' = [drain EXCEPT ![d] = At(d, r, "refusing")]
        BY <2>3 DEF Skip, Refuse
      <3>2. After(d, r) \in DrainState /\ After(d, r).pc = "loop"
            /\ At(d, r, "refusing") \in DrainState
            /\ At(d, r, "refusing").pc = "refusing" /\ At(d, r, "refusing").at = r
        BY DrainRecords
      <3> QED BY <3>1, <3>2
    <2> QED BY <2>1, <2>2, <2>3
  <1>u. drain[d].pc \notin {"marking", "marked"}
    BY DEF Start, List, Finish, Skip, Refuse, AtNext, Refused, RefuseFails
  <1>0. \A e \in Drain : drain'[e].pc \in {"marking", "marked"} => drain'[e] = drain[e]
    BY <1>t DEF TypeOK
  <1>a. \A e \in Drain : drain[e].pc \in {"marking", "marked"} => drain'[e] = drain[e]
    BY <1>t, <1>u DEF TypeOK
  <1>b. /\ UNCHANGED <<inflight, runner, ran, lost, cut>>
        /\ \A q \in Run : file'[q] = file[q] \/ file'[q] = "failed"
    BY <1>s DEF TypeOK
  <1>1. TypeOK'
    BY <1>s, <1>t DEF TypeOK
  <1>2. Placed'
    BY <1>t DEF Placed, TypeOK
  <1>3. \A e \in Drain, q \in Run : Holds(e, q)' <=> Holds(e, q)
    BY <1>0, <1>a DEF Holds
  <1>4. Alone' /\ Tracked'
    BY <1>3, <1>b DEF Alone, Tracked
  <1>5. Claimed' /\ Marked'
    BY <1>0, <1>a, <1>b, <1>3 DEF Claimed, Marked, Holds
  <1>6. ExecutedOnce' /\ RunningIsOwned'
    BY <1>b DEF ExecutedOnce, RunningIsOwned
  <1> QED BY <1>1, <1>2, <1>4, <1>5, <1>6

\* A claim is of a run nobody holds, executes or has executed.
LEMMA ClaimKeeps ==
    ASSUME IInv, NEW d \in Drain, NEW r \in Run, Claim(d, r)
    PROVE  IInv'
  <1> USE DrainAssumption DEF IInv, Becomes, budget, history, Claim, AtNext, Claimable
  <1>r. drain' = [drain EXCEPT ![d] = At(d, r, "marking")] /\ At(d, r, "marking") \in DrainState
    BY DrainRecords
  <1>q. At(d, r, "marking").pc = "marking" /\ At(d, r, "marking").at = r
    BY DrainRecords
  <1>a. /\ drain'[d].pc = "marking" /\ drain'[d].at = r
        /\ \A e \in Drain \ {d} : drain'[e] = drain[e]
        /\ drain[d].pc = "loop"
        /\ UNCHANGED <<file, runner, ran, lost, cut>>
    BY <1>r, <1>q DEF TypeOK
  <1>b. runner[r] = "none" /\ \A e \in Drain : ~Holds(e, r)
    BY DEF Tracked
  <1>1. TypeOK'
    BY <1>r DEF TypeOK
  <1>2. Placed'
    BY <1>a DEF Placed
  <1>3. \A e \in Drain, q \in Run : Holds(e, q)' <=> Holds(e, q) \/ (e = d /\ q = r)
    BY <1>a DEF Holds
  <1>4. Alone' /\ Tracked'
    BY <1>a, <1>b, <1>3 DEF Alone, Tracked
  <1>5. Claimed'
    <2>1. file[r] = "queued" /\ ran[r] \in Nat
      BY DEF TypeOK
    <2>2. ran[r] = 0 \/ r \in lost
      BY <2>1 DEF Marked
    <2>3. \A e \in Drain, q \in Run : Holds(e, q) => (drain'[e].pc = "marking" => drain[e].pc = "marking")
      BY <1>a DEF Holds
    <2> QED BY <1>a, <1>3, <2>1, <2>2, <2>3 DEF Claimed
  <1>6. Marked'
    BY <1>a DEF Marked
  <1>7. ExecutedOnce' /\ RunningIsOwned'
    BY <1>a DEF ExecutedOnce, RunningIsOwned
  <1> QED BY <1>1, <1>2, <1>4, <1>5, <1>6, <1>7

\* The marking of the claimed run, done or silently lost.
LEMMA MarkKeeps ==
    ASSUME IInv, NEW d \in Drain, Mark(d) \/ MarkLost(d)
    PROVE  IInv'
  <1> USE DrainAssumption DEF IInv, Becomes, Fault, budget, history, Mark, MarkLost
  <1> DEFINE r == drain[d].at
  <1>a. /\ drain[d].pc = "marking" /\ drain'[d].pc = "marked" /\ drain'[d].at = r
        /\ \A e \in Drain \ {d} : drain'[e] = drain[e]
        /\ UNCHANGED <<inflight, runner, ran, cut>>
        /\ r \in Run /\ Holds(d, r)
    BY DEF TypeOK, DrainState, Placed, Holds
  <1>b. \/ UNCHANGED lost /\ file' = [file EXCEPT ![r] = "running"]
        \/ UNCHANGED file /\ lost' = lost \cup {r}
    OBVIOUS
  <1>1. TypeOK'
    BY <1>a, <1>b DEF TypeOK, DrainState
  <1>2. Placed'
    BY <1>a DEF Placed
  <1>3. \A e \in Drain, q \in Run : Holds(e, q)' <=> Holds(e, q)
    BY <1>a DEF Holds
  <1>4. Alone' /\ Tracked'
    BY <1>a, <1>3 DEF Alone, Tracked
  <1>5. Claimed'
    BY <1>a, <1>b, <1>3 DEF Claimed, Alone, Holds, TypeOK
  <1>6. Marked'
    BY <1>a, <1>b DEF Marked, TypeOK
  <1>7. ExecutedOnce' /\ RunningIsOwned'
    BY <1>a, <1>b DEF ExecutedOnce, RunningIsOwned, Tracked, TypeOK
  <1> QED BY <1>1, <1>2, <1>4, <1>5, <1>6, <1>7

\* The end of a claim: a marking that fails, or the start of the runner.
LEMMA ClaimEnds ==
    ASSUME IInv, NEW d \in Drain, MarkFails(d) \/ StartRunner(d)
    PROVE  IInv'
  <1> USE DrainAssumption DEF IInv, Becomes, Fault, budget, history, MarkFails, StartRunner
  <1> DEFINE r == drain[d].at
  <1>a. /\ drain'[d].pc = "loop" /\ \A e \in Drain \ {d} : drain'[e] = drain[e]
        /\ UNCHANGED <<file, lost, cut>>
        /\ r \in Run /\ Holds(d, r)
    <2>1. r \in Run /\ Holds(d, r)
      BY DEF Placed, Holds
    <2>2. drain' = [drain EXCEPT ![d] = After(d, r)]
      OBVIOUS
    <2>3. After(d, r).pc = "loop"
      BY <2>1, DrainRecords
    <2>4. UNCHANGED <<file, lost, cut>>
      OBVIOUS
    <2> QED BY <2>1, <2>2, <2>3, <2>4 DEF TypeOK
  <1>b. \/ /\ drain[d].pc = "marking" /\ inflight' = inflight \ {r}
           /\ UNCHANGED <<runner, ran>>
        \/ /\ drain[d].pc = "marked" /\ UNCHANGED inflight
           /\ runner' = [runner EXCEPT ![r] = "work"] /\ ran' = [ran EXCEPT ![r] = @ + 1]
    OBVIOUS
  <1>1. TypeOK'
    <2>1. After(d, r) \in DrainState /\ drain' = [drain EXCEPT ![d] = After(d, r)]
      BY <1>a, DrainRecords
    <2>2. drain' \in [Drain -> DrainState]
      BY <2>1 DEF TypeOK
    <2>3. ran' \in [Run -> Nat] /\ runner' \in [Run -> {"none", "work", "summary", "summarised"}]
      BY <1>a, <1>b DEF TypeOK
    <2>4. inflight' \subseteq Run /\ faults' \in 0..MaxFaults /\ deaths' \in 0..MaxDeaths
      BY <1>b DEF TypeOK
    <2>5. completed' = completed
      OBVIOUS
    <2> QED BY <1>a, <2>2, <2>3, <2>4, <2>5 DEF TypeOK
  <1>2. Placed'
    BY <1>a DEF Placed
  <1>3. \A e \in Drain, q \in Run : Holds(e, q)' <=> Holds(e, q) /\ e # d
    BY <1>a DEF Holds
  <1>c. \A e \in Drain : Holds(e, r) => e = d
    BY <1>a DEF Alone
  <1>d. \A q \in Run \ {r} : runner'[q] = runner[q] /\ (q \in inflight' <=> q \in inflight)
    BY <1>b DEF TypeOK
  <1>e. /\ drain[d].pc = "marking" => runner'[r] = "none" /\ r \notin inflight'
        /\ drain[d].pc = "marked" => runner'[r] # "none" /\ r \in inflight'
    BY <1>a, <1>b DEF TypeOK, Alone, Tracked
  <1>f. drain[d].pc \in {"marking", "marked"}
    BY <1>a DEF Holds
  <1>4. Alone' /\ Tracked'
    <2>1. \A q \in Run : (\E e \in Drain : Holds(e, q)') <=> q # r /\ (\E e \in Drain : Holds(e, q))
      BY <1>a, <1>3, <1>c DEF Holds
    <2>2. Tracked'
      BY <1>d, <1>e, <1>f, <2>1 DEF Tracked
    <2>3. Alone'
      BY <1>3, <1>c, <1>d DEF Alone
    <2> QED BY <2>2, <2>3
  <1>5. Claimed'
    BY <1>a, <1>b, <1>3 DEF Claimed, Alone, TypeOK
  <1>6. Marked'
    BY <1>a, <1>b DEF Marked, TypeOK
  <1>7. ExecutedOnce'
    BY <1>a, <1>b DEF ExecutedOnce, Claimed, TypeOK
  <1>8. RunningIsOwned'
    BY <1>a, <1>b DEF RunningIsOwned, Claimed
  <1> QED BY <1>1, <1>2, <1>4, <1>5, <1>6, <1>7, <1>8

-----------------------------------------------------------------------------
\* A runner's steps and its done callback.
LEMMA RunnerKeeps ==
    ASSUME IInv, NEW r \in Run, RunnerStep(r)
    PROVE  IInv'
  <1> USE DrainAssumption DEF IInv, Fault, budget, history
  <1>a. /\ UNCHANGED <<drain, ran, cut>> /\ runner[r] # "none"
        /\ \A d \in Drain : ~Holds(d, r)
    BY DEF RunnerStep, Completes, DispatchGivesUp, Fails, Ingested, SummaryWritten,
           SummaryDone, Done, Alone
  <1>1. CASE Ingested(r) \/ SummaryWritten(r)
    <2>a. /\ UNCHANGED <<inflight, lost>> /\ \A q \in Run : (runner'[q] = "none") <=> (runner[q] = "none")
          /\ \A q \in Run : file'[q] = file[q] \/ (q = r /\ file'[q] = "running")
      BY <1>1 DEF Ingested, SummaryWritten, TypeOK
    <2>1. TypeOK'
      BY <1>1, <1>a DEF Ingested, SummaryWritten, TypeOK
    <2>2. Placed' /\ Alone' /\ Tracked'
      BY <1>a, <2>a DEF Placed, Alone, Tracked, Holds
    <2>3. Claimed' /\ Marked'
      BY <1>a, <2>a DEF Claimed, Marked, Holds
    <2>4. ExecutedOnce' /\ RunningIsOwned'
      BY <1>a, <2>a DEF ExecutedOnce, RunningIsOwned, Tracked
    <2> QED BY <2>1, <2>2, <2>3, <2>4
  <1>2. CASE Done(r, "done") \/ Done(r, "failed")
    <2>a. /\ inflight' = inflight \ {r} /\ runner' = [runner EXCEPT ![r] = "none"]
          /\ \/ UNCHANGED lost /\ (file' = [file EXCEPT ![r] = "done"] \/ file' = [file EXCEPT ![r] = "failed"])
             \/ UNCHANGED file /\ lost' = lost \cup {r}
      BY <1>2 DEF Done
    <2>1. TypeOK'
      <3>1. completed' \subseteq Run
        BY DEF RunnerStep, Completes, DispatchGivesUp, Fails, Ingested, SummaryWritten,
               SummaryDone, TypeOK
      <3>2. faults' \in 0..MaxFaults /\ deaths' = deaths
        BY <1>2 DEF Done, TypeOK
      <3> QED BY <1>a, <2>a, <3>1, <3>2 DEF TypeOK
    <2>2. Placed' /\ Alone' /\ Tracked'
      BY <1>a, <2>a DEF Placed, Alone, Tracked, Holds, TypeOK
    <2>3. Claimed' /\ Marked'
      BY <1>a, <2>a DEF Claimed, Marked, Holds, TypeOK
    <2>4. ExecutedOnce' /\ RunningIsOwned'
      BY <1>a, <2>a DEF ExecutedOnce, RunningIsOwned, TypeOK
    <2> QED BY <2>1, <2>2, <2>3, <2>4
  <1> QED BY <1>1, <1>2 DEF RunnerStep, Completes, DispatchGivesUp, Fails, SummaryDone

LEMMA EnqueueKeeps ==
    ASSUME IInv, NEW r \in Run, Enqueue(r)
    PROVE  IInv'
  <1> USE DrainAssumption DEF IInv, Enqueue, budget, history
  <1>1. TypeOK' /\ Placed'
    BY DEF TypeOK, Placed
  <1>2. Alone' /\ Tracked' /\ Claimed' /\ Marked'
    BY DEF TypeOK, Alone, Tracked, Claimed, Marked, Holds
  <1>3. ExecutedOnce' /\ RunningIsOwned'
    BY DEF TypeOK, ExecutedOnce, RunningIsOwned
  <1> QED BY <1>1, <1>2, <1>3

\* The daemon dies: what it was at is cut, and nothing is in flight.
LEMMA DeathKeeps ==
    ASSUME IInv, Crash \/ Shutdown
    PROVE  IInv'
  <1> USE DrainAssumption DEF IInv, Dies
  <1>1. PICK after \in [Run -> {"absent", "queued", "running", "done", "failed"}] :
           /\ Dies(after)
           /\ \A r \in Run : after[r] = file[r] \/ after[r] = "failed"
                               \/ (after[r] = "running" /\ r \in Marking \cup Live)
    <2>1. CASE Crash
      BY <2>1 DEF Crash, TypeOK
    <2>2. CASE Shutdown
      <3>1. \A r \in Run : LateWrites(r) \subseteq {"running", "failed"}
        BY DEF LateWrites
      <3>2. \A r \in Run : "running" \in LateWrites(r) => r \in Marking \cup Live
        BY DEF LateWrites, Marking, Live
      <3> QED BY <2>2, <3>1, <3>2 DEF Shutdown
    <2> QED BY <2>1, <2>2
  <1>2. TypeOK'
    <2>1. Marking \subseteq Run /\ Live \subseteq Run
      BY DEF Marking, Live
    <2>2. deaths' \in 0..MaxDeaths
      BY <1>1 DEF TypeOK
    <2>3. drain' \in [Drain -> DrainState]
      BY <1>1, DrainRecords DEF Idle, State, DrainState
    <2> QED BY <1>1, <2>1, <2>2, <2>3 DEF TypeOK
  <1>3. Placed' /\ Alone' /\ Tracked' /\ Claimed'
    BY <1>1 DEF Placed, Alone, Tracked, Claimed, Holds, Idle, State
  <1>4. Marked' /\ ExecutedOnce'
    BY <1>1 DEF Marked, ExecutedOnce, Idle, State
  <1>5. RunningIsOwned'
    BY <1>1 DEF RunningIsOwned, Tracked, Marking, Live, Holds
  <1> QED BY <1>2, <1>3, <1>4, <1>5

-----------------------------------------------------------------------------
LEMMA Invariance == Spec => []IInv
  <1>1. IInv /\ [Next]_vars => IInv'
    <2> SUFFICES ASSUME IInv, [Next]_vars PROVE IInv'
      OBVIOUS
    <2>1. ASSUME NEW d \in Drain, Start(d) \/ DrainStep(d) PROVE IInv'
      <3>1. ASSUME NEW r \in Run, Skip(d, r) \/ Refuse(d, r) \/ Claim(d, r) PROVE IInv'
        BY <3>1, LooksKeep, ClaimKeeps
      <3>2. CASE Start(d) \/ List(d) \/ Finish(d) \/ Refused(d) \/ RefuseFails(d)
        BY <3>2, LooksKeep
      <3> QED BY <2>1, <3>1, <3>2, MarkKeeps, ClaimEnds DEF DrainStep
    <2>2. ASSUME NEW r \in Run, Enqueue(r) \/ RunnerStep(r) PROVE IInv'
      BY <2>2, EnqueueKeeps, RunnerKeeps
    <2>3. CASE Crash \/ Shutdown
      BY <2>3, DeathKeeps
    <2>4. CASE UNCHANGED vars
      BY <2>4 DEF vars, budget, history, IInv, TypeOK, Placed, Alone, Claimed, Marked, Tracked,
                  Holds, ExecutedOnce, RunningIsOwned
    <2> QED BY <2>1, <2>2, <2>3, <2>4 DEF Next
  <1> QED BY <1>1, InitInv, PTL DEF Spec

\* Every value a run file, a drain or a runner takes is one the code knows.
THEOREM TypeCorrect == Spec => []TypeOK
  BY Invariance, PTL DEF IInv

\* However many drains overlap, a run whose status writes were kept is
\* executed once, over any number of crashes and restarts.
THEOREM ExecutedOnceHolds == Spec => []ExecutedOnce
  BY Invariance, PTL DEF IInv

\* A file that says "running" is in flight, unless a death or a lost write
\* stranded it.
THEOREM RunningIsOwnedHolds == Spec => []RunningIsOwned
  BY Invariance, PTL DEF IInv

\* The in-flight set is exactly what drains hold and runners execute.
THEOREM InflightExactHolds == Spec => []InflightExact
  <1>1. IInv => InflightExact
    BY DEF IInv, TypeOK, Tracked, InflightExact, Holds, Marking, Live
  <1> QED BY <1>1, Invariance, PTL

-----------------------------------------------------------------------------
\* How far the finding drain_done goes: only a run that was sent to the rail
\* can be recorded as done without having completed.
LocalDone == \A r \in Run \ Rail : file[r] = "done" => r \in completed

\* local_ingest is called complete before its summary is written.
Summarised == \A r \in Run : runner[r] \in {"summary", "summarised"} => r \in completed

LEMMA LocalDoneStep == IInv /\ LocalDone /\ Summarised /\ [Next]_vars => LocalDone' /\ Summarised'
  <1> SUFFICES ASSUME IInv, LocalDone, Summarised, [Next]_vars PROVE LocalDone' /\ Summarised'
    OBVIOUS
  <1> USE DEF IInv, TypeOK, LocalDone, Summarised, budget, history
  <1>1. ASSUME NEW r \in Run, RunnerStep(r) PROVE LocalDone' /\ Summarised'
    <2>1. CASE Completes(r) \/ DispatchGivesUp(r) \/ SummaryDone(r) \/ Fails(r)
      <3>1. /\ completed \subseteq completed'
            /\ \A q \in Run : runner'[q] = runner[q] \/ runner'[q] = "none"
            /\ \A q \in Run : \/ file'[q] = file[q] \/ file'[q] = "failed"
                              \/ q = r /\ r \in Rail \cup completed'
        BY <2>1 DEF Completes, DispatchGivesUp, SummaryDone, Fails, Done
      <3> QED BY <3>1
    <2>2. CASE Ingested(r) \/ SummaryWritten(r)
      BY <2>2 DEF Ingested, SummaryWritten
    <2> QED BY <1>1, <2>1, <2>2 DEF RunnerStep
  <1>2. ASSUME NEW d \in Drain, Start(d) \/ DrainStep(d) PROVE LocalDone' /\ Summarised'
    <2>1. UNCHANGED completed
      BY <1>2 DEF DrainStep, Start, List, Mark, MarkLost, MarkFails, StartRunner, Refused,
                  RefuseFails, Finish, Skip, Refuse, Claim
    <2>2. \A q \in Run : runner'[q] = runner[q] \/ runner'[q] = "work"
      BY <1>2 DEF DrainStep, Start, List, Mark, MarkLost, MarkFails, StartRunner, Refused,
                  RefuseFails, Finish, Skip, Refuse, Claim
    <2>3. \A q \in Run : file'[q] = file[q] \/ file'[q] \in {"running", "failed"}
      BY <1>2 DEF DrainStep, Start, List, Mark, MarkLost, MarkFails, StartRunner, Refused,
                  RefuseFails, Finish, Skip, Refuse, Claim
    <2> QED BY <2>1, <2>2, <2>3
  <1>3. CASE Crash \/ Shutdown
    <2>1. PICK after \in [Run -> {"absent", "queued", "running", "done", "failed"}] :
             Dies(after) /\ \A r \in Run : after[r] = file[r] \/ after[r] \in {"running", "failed"}
      <3>1. \A r \in Run : LateWrites(r) \subseteq {"running", "failed"}
        BY DEF LateWrites
      <3> QED BY <1>3, <3>1 DEF Crash, Shutdown
    <2> QED BY <2>1 DEF Dies
  <1>4. ASSUME NEW r \in Run, Enqueue(r) PROVE LocalDone' /\ Summarised'
    BY <1>4 DEF Enqueue
  <1>5. CASE UNCHANGED vars
    BY <1>5 DEF vars
  <1> QED BY <1>1, <1>2, <1>3, <1>4, <1>5 DEF Next

\* A file of a run that goes to local_ingest says "done" only when the ingest
\* completed, through refused files, failing summaries, crashes and shutdowns
\* with threads still writing.
THEOREM LocalDoneHolds == Spec => []LocalDone
  <1>1. Init => LocalDone /\ Summarised
    BY DEF Init, LocalDone, Summarised
  <1> QED BY <1>1, LocalDoneStep, Invariance, PTL DEF Spec
=============================================================================
