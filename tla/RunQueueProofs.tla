--------------------------- MODULE RunQueueProofs ---------------------------
(***************************************************************************)
(* RunDrain implements RunQueue, for any number of run files and drains.   *)
(***************************************************************************)
EXTENDS RunDrainProofs

(***************************************************************************)
(* Beyond the invariant of RunDrain: a file nobody wrote is at no drain    *)
(* (Known), the file a drain is about to fail is queued, settled or in     *)
(* flight again (Refusals), and a runner that exists was started (Begun).  *)
(***************************************************************************)
Known == \A r \in Run : file[r] = "absent" => r \notin inflight \cup lost

Refusals == \A d \in Drain, r \in Run : drain[d].pc = "refusing" /\ drain[d].at = r =>
               /\ file[r] # "absent"
               /\ file[r] = "running" => r \in inflight \cup lost

Begun == \A r \in Run : runner[r] # "none" => ran[r] > 0

KInv == IInv /\ Known /\ Refusals /\ Begun

Moves(r) == <<Phase(r), Phase(r)'>>
Still(r) == Phase(r)' = Phase(r)

QueueStep == [Queue!Next]_([r \in Run |-> Phase(r)])

\* One run takes a step of the queue and the others stand still.
LEMMA OneMoves ==
    ASSUME NEW r \in Run, \A q \in Run \ {r} : Still(q),
           \/ Still(r)
           \/ Moves(r) \in {<<"absent", "queued">>, <<"queued", "claimed">>, <<"claimed", "queued">>,
                            <<"claimed", "started">>, <<"claimed", "lost">>, <<"started", "lost">>}
           \/ Phase(r) \in {"queued", "claimed", "started"} /\ Phase(r)' = "settled"
    PROVE  QueueStep
  <1> DEFINE ph == [q \in Run |-> Phase(q)]
  <1>1. ph' = [ph EXCEPT ![r] = Phase(r)'] /\ ph[r] = Phase(r)
    BY DEF Still
  <1>2. CASE Still(r)
    BY <1>1, <1>2 DEF Still, QueueStep
  <1> HIDE DEF ph
  <1>3. CASE ~Still(r)
    <2>1. \/ Phase(r) = "absent" /\ Phase(r)' = "queued"
          \/ Phase(r) = "queued" /\ Phase(r)' = "claimed"
          \/ Phase(r) = "claimed" /\ Phase(r)' = "queued"
          \/ Phase(r) = "claimed" /\ Phase(r)' = "started"
          \/ Phase(r) \in {"claimed", "started"} /\ Phase(r)' = "lost"
          \/ Phase(r) \in {"queued", "claimed", "started"} /\ Phase(r)' = "settled"
      BY <1>3 DEF Moves
    <2>2. \/ Queue!Accept(r) \/ Queue!Claim(r) \/ Queue!Return(r) \/ Queue!Start(r)
          \/ Queue!Settle(r) \/ Queue!Lose(r)
      BY <1>1, <2>1 DEF ph, Queue!Accept, Queue!Claim, Queue!Return, Queue!Start, Queue!Settle,
                        Queue!Lose, Queue!Move
    <2> QED BY <2>2 DEF QueueStep, Queue!Next
  <1> QED BY <1>2, <1>3
\* A run whose file, claim, runner and loss stand still does so itself.
LEMMA Stays ==
    ASSUME NEW q \in Run, file'[q] = file[q], q \in inflight' <=> q \in inflight,
           q \in lost' <=> q \in lost, runner'[q] # "none" <=> runner[q] # "none"
    PROVE  Still(q)
  BY DEF Still, Phase

LEMMA InitSteps == Init => KInv /\ Queue!Init
  <1> SUFFICES ASSUME Init PROVE KInv /\ Queue!Init
    OBVIOUS
  <1>1. Known /\ Refusals /\ Begun
    BY DEF Init, Known, Refusals, Begun, Idle, State
  <1>2. \A r \in Run : Phase(r) = "absent"
    BY DEF Init, Phase
  <1> QED BY <1>1, <1>2, InitInv DEF KInv, Queue!Init

\* The steps of a drain beside its claims: only the refused run may move.
LEMMA LooksStep ==
    ASSUME KInv, NEW d \in Drain,
           \/ Start(d) \/ List(d) \/ Finish(d) \/ Refused(d) \/ RefuseFails(d)
           \/ \E r \in Run : Skip(d, r) \/ Refuse(d, r)
    PROVE  Known' /\ Refusals' /\ Begun' /\ QueueStep
  <1> USE DEF KInv, IInv, Becomes, Fault, budget, history
  <1>a. UNCHANGED <<inflight, runner, ran, lost>>
    BY DEF Start, List, Finish, Skip, Refuse, Refused, RefuseFails
  <1>1. CASE Refused(d)
    <2>r. PICK r \in Run : r = drain[d].at
      BY <1>1 DEF Refused, Placed
    <2>a. /\ drain[d].pc = "refusing" /\ drain[d].at = r
          /\ file' = [file EXCEPT ![r] = "failed"]
          /\ drain' = [drain EXCEPT ![d] = After(d, r)] /\ After(d, r).pc = "loop"
      BY <1>1, <2>r, DrainRecords DEF Refused
    <2>1. Known' /\ Begun'
      BY <1>a, <2>a DEF Known, Begun, TypeOK
    <2>2. Refusals'
      BY <1>a, <2>a DEF Refusals, TypeOK
    <2>3. \A q \in Run \ {r} : Still(q)
      BY <1>a, <2>a, Stays DEF TypeOK
    <2>4. Still(r) \/ (Phase(r) \in {"queued", "claimed", "started"} /\ Phase(r)' = "settled")
      <3>1. file[r] # "absent" /\ (file[r] = "running" => r \in inflight \cup lost)
        BY <2>a DEF Refusals
      <3>2. file'[r] = "failed"
        BY <2>a DEF TypeOK
      <3>3. file[r] \in {"absent", "queued", "running", "done", "failed"}
        BY <2>a DEF TypeOK
      <3> QED BY <1>a, <3>1, <3>2, <3>3 DEF Still, Phase
    <2> QED BY <2>a, <2>1, <2>2, <2>3, <2>4, OneMoves
  <1>2. CASE ~Refused(d)
    <2>a. UNCHANGED file
      BY <1>2 DEF Start, List, Finish, Skip, Refuse, RefuseFails
    <2>1. Known' /\ Begun'
      BY <1>a, <2>a DEF Known, Begun
    <2>2. \A q \in Run : Still(q)
      BY <1>a, <2>a, Stays
    <2>3. QueueStep
      BY <2>2 DEF Still, QueueStep
    <2>4. Refusals'
      <3>1. PICK s \in DrainState :
               /\ drain' = [drain EXCEPT ![d] = s]
               /\ s.pc = "refusing" => (s.at \in Run => file[s.at] = "queued")
        <4>1. CASE Start(d) \/ List(d) \/ Finish(d) \/ RefuseFails(d)
          <5>1. Queued(file) \in SUBSET Run
            BY DEF Queued
          <5>2. PICK s \in DrainState : drain' = [drain EXCEPT ![d] = s] /\ s.pc # "refusing"
            <6>1. CASE Start(d)
              BY <6>1, DrainRecords DEF Start
            <6>2. CASE List(d)
              BY <5>1, <6>2, DrainRecords DEF List
            <6>3. CASE Finish(d) \/ RefuseFails(d)
              BY <6>3, DrainRecords DEF Finish, RefuseFails
            <6> QED BY <4>1, <6>1, <6>2, <6>3
          <5> QED BY <5>2
        <4>2. ASSUME NEW r \in Run, Refuse(d, r)
              PROVE  \E s \in DrainState : /\ drain' = [drain EXCEPT ![d] = s]
                                           /\ s.pc = "refusing" => (s.at \in Run => file[s.at] = "queued")
          <5>1. /\ At(d, r, "refusing") \in DrainState /\ At(d, r, "refusing").at = r
                /\ drain' = [drain EXCEPT ![d] = At(d, r, "refusing")] /\ file[r] = "queued"
            BY <4>2, DrainRecords DEF Refuse, Claimable
          <5> QED BY <5>1
        <4>3. ASSUME NEW r \in Run, Skip(d, r)
              PROVE  \E s \in DrainState : drain' = [drain EXCEPT ![d] = s] /\ s.pc # "refusing"
          <5>1. /\ After(d, r) \in DrainState /\ After(d, r).pc = "loop"
                /\ drain' = [drain EXCEPT ![d] = After(d, r)]
            BY <4>3, DrainRecords DEF Skip
          <5> QED BY <5>1
        <4> QED BY <1>2, <4>1, <4>2, <4>3
      <3> QED BY <1>a, <2>a, <3>1 DEF Refusals, TypeOK
    <2> QED BY <2>1, <2>3, <2>4
  <1> QED BY <1>1, <1>2
LEMMA ClaimStep ==
    ASSUME KInv, NEW d \in Drain, NEW r \in Run, Claim(d, r)
    PROVE  Known' /\ Refusals' /\ Begun' /\ QueueStep
  <1> USE DEF KInv, IInv, Becomes, budget, history
  <1>a. /\ UNCHANGED <<file, runner, ran, lost>> /\ inflight' = inflight \cup {r}
        /\ r \notin inflight /\ file[r] = "queued"
        /\ drain' = [drain EXCEPT ![d] = At(d, r, "marking")] /\ At(d, r, "marking").pc = "marking"
    BY DrainRecords DEF Claim, Claimable
  <1>1. Known' /\ Begun'
    BY <1>a DEF Known, Begun
  <1>2. Refusals'
    BY <1>a DEF Refusals, TypeOK
  <1>3. runner[r] = "none"
    BY <1>a DEF Tracked
  <1>4. Still(r) \/ Moves(r) = <<"queued", "claimed">>
    BY <1>a, <1>3 DEF Still, Moves, Phase
  <1>5. \A q \in Run \ {r} : Still(q)
    BY <1>a, Stays
  <1> QED BY <1>1, <1>2, <1>4, <1>5, OneMoves

\* Marking a claim, and its end.
LEMMA HeldStep ==
    ASSUME KInv, NEW d \in Drain,
           Mark(d) \/ MarkLost(d) \/ MarkFails(d) \/ StartRunner(d)
    PROVE  Known' /\ Refusals' /\ Begun' /\ QueueStep
  <1> USE DEF KInv, IInv, Becomes, Fault, budget, history
  <1>r. PICK r \in Run : r = drain[d].at
    BY DEF Placed, Mark, MarkLost, MarkFails, StartRunner
  <1>a. /\ Holds(d, r) /\ runner[r] = "none" /\ r \in inflight /\ file[r] # "absent"
        /\ drain[d].pc = "marking" => file[r] # "running"
    BY <1>r DEF Mark, MarkLost, MarkFails, StartRunner, Holds, Alone, Tracked, Known, Claimed
  <1>b. /\ drain'[d].pc # "refusing" /\ \A e \in Drain \ {d} : drain'[e] = drain[e]
    <2>1. CASE Mark(d) \/ MarkLost(d)
      BY <2>1, DrainRecords DEF Mark, MarkLost, TypeOK
    <2>2. CASE MarkFails(d) \/ StartRunner(d)
      <3>1. drain' = [drain EXCEPT ![d] = After(d, r)] /\ After(d, r).pc = "loop"
        BY <1>r, <2>2, DrainRecords DEF MarkFails, StartRunner
      <3> QED BY <3>1 DEF TypeOK
    <2> QED BY <2>1, <2>2
  <1>1. CASE Mark(d)
    <2>1. file' = [file EXCEPT ![r] = "running"] /\ UNCHANGED <<inflight, runner, ran, lost>>
      BY <1>r, <1>1 DEF Mark
    <2>2. Known' /\ Refusals' /\ Begun'
      BY <1>a, <1>b, <2>1 DEF Known, Refusals, Begun, TypeOK
    <2>3. Still(r)
      BY <1>a, <2>1 DEF Still, Phase
    <2>4. \A q \in Run \ {r} : Still(q)
      BY <2>1, Stays DEF TypeOK
    <2> QED BY <2>2, <2>3, <2>4, OneMoves
  <1>2. CASE MarkLost(d)
    <2>1. lost' = lost \cup {r} /\ UNCHANGED <<file, inflight, runner, ran>>
      BY <1>r, <1>2 DEF MarkLost
    <2>2. Known' /\ Refusals' /\ Begun'
      BY <1>a, <1>b, <2>1 DEF Known, Refusals, Begun
    <2>3. Still(r) \/ Moves(r) = <<"claimed", "lost">>
      BY <1>a, <2>1 DEF Still, Moves, Phase
    <2>4. \A q \in Run \ {r} : Still(q)
      BY <2>1, Stays
    <2> QED BY <2>2, <2>3, <2>4, OneMoves
  <1>3. CASE MarkFails(d)
    <2>1. inflight' = inflight \ {r} /\ UNCHANGED <<file, runner, ran, lost>>
      BY <1>r, <1>3 DEF MarkFails
    <2>2. drain[d].pc = "marking"
      BY <1>3 DEF MarkFails
    <2>3. Known' /\ Begun'
      BY <2>1 DEF Known, Begun
    <2>4. Refusals'
      BY <1>a, <1>b, <2>1, <2>2 DEF Refusals
    <2>5. \/ Still(r) \/ Moves(r) = <<"claimed", "queued">>
          \/ Phase(r) = "claimed" /\ Phase(r)' = "settled"
      <3>1. file[r] \in {"queued", "done", "failed"}
        BY <1>a, <2>2 DEF TypeOK
      <3> QED BY <1>a, <2>1, <3>1 DEF Still, Moves, Phase
    <2>6. \A q \in Run \ {r} : Still(q)
      BY <2>1, Stays
    <2> QED BY <2>3, <2>4, <2>5, <2>6, OneMoves
  <1>4. CASE StartRunner(d)
    <2>1. /\ runner' = [runner EXCEPT ![r] = "work"] /\ ran' = [ran EXCEPT ![r] = @ + 1]
          /\ UNCHANGED <<file, inflight, lost>>
      BY <1>r, <1>4 DEF StartRunner
    <2>2. Known' /\ Refusals' /\ Begun'
      BY <1>b, <2>1 DEF Known, Refusals, Begun, TypeOK
    <2>3. Still(r) \/ Moves(r) = <<"claimed", "started">>
      <3>1. runner'[r] = "work"
        BY <2>1 DEF TypeOK
      <3> QED BY <1>a, <2>1, <3>1 DEF Still, Moves, Phase
    <2>4. \A q \in Run \ {r} : Still(q)
      BY <2>1, Stays DEF TypeOK
    <2> QED BY <2>2, <2>3, <2>4, OneMoves
  <1> QED BY <1>1, <1>2, <1>3, <1>4

LEMMA RunnerStepStep ==
    ASSUME KInv, NEW r \in Run, RunnerStep(r)
    PROVE  Known' /\ Refusals' /\ Begun' /\ QueueStep
  <1> USE DEF KInv, IInv, Fault, budget, history
  <1>a. UNCHANGED <<drain, ran>> /\ runner[r] # "none" /\ r \in inflight /\ file[r] # "absent"
    BY DEF RunnerStep, Completes, DispatchGivesUp, Fails, Ingested, SummaryWritten,
           SummaryDone, Done, Tracked, Known
  <1>1. CASE Ingested(r) \/ SummaryWritten(r)
    <2>1. /\ UNCHANGED <<inflight, lost>>
          /\ \A q \in Run : (runner'[q] = "none") <=> (runner[q] = "none")
          /\ \A q \in Run \ {r} : file'[q] = file[q]
          /\ file'[r] \in {file[r], "running"}
      BY <1>1 DEF Ingested, SummaryWritten, TypeOK
    <2>2. Known' /\ Refusals' /\ Begun'
      BY <1>a, <2>1 DEF Known, Refusals, Begun
    <2>3. Still(r)
      BY <1>a, <2>1 DEF Still, Phase
    <2>4. \A q \in Run \ {r} : Still(q)
      BY <2>1, Stays
    <2> QED BY <2>2, <2>3, <2>4, OneMoves
  <1>2. CASE Done(r, "done") \/ Done(r, "failed")
    <2>1. /\ inflight' = inflight \ {r} /\ runner'[r] = "none"
          /\ \A q \in Run \ {r} : runner'[q] = runner[q] /\ file'[q] = file[q]
          /\ \/ UNCHANGED lost /\ file'[r] \in {"done", "failed"}
             \/ file'[r] = file[r] /\ lost' = lost \cup {r}
      BY <1>2 DEF Done, TypeOK
    <2>2. Known' /\ Refusals' /\ Begun'
      BY <1>a, <2>1 DEF Known, Refusals, Begun
    <2>3. \/ Still(r) \/ Moves(r) = <<"started", "lost">>
          \/ Phase(r) = "started" /\ Phase(r)' = "settled"
      BY <1>a, <2>1 DEF Still, Moves, Phase
    <2>4. \A q \in Run \ {r} : Still(q)
      BY <2>1, Stays
    <2> QED BY <2>2, <2>3, <2>4, OneMoves
  <1> QED BY <1>1, <1>2 DEF RunnerStep, Completes, DispatchGivesUp, Fails, SummaryDone

LEMMA EnqueueStep ==
    ASSUME KInv, NEW r \in Run, Enqueue(r)
    PROVE  Known' /\ Refusals' /\ Begun' /\ QueueStep
  <1> USE DEF KInv, IInv, budget, history
  <1>a. /\ file[r] = "absent" /\ file' = [file EXCEPT ![r] = "queued"]
        /\ UNCHANGED <<drain, inflight, lost, runner, ran>>
    BY DEF Enqueue
  <1>b. r \notin inflight /\ r \notin lost /\ runner[r] = "none"
    BY <1>a DEF Known, Tracked
  <1>1. Known' /\ Refusals' /\ Begun'
    BY <1>a DEF Known, Refusals, Begun, TypeOK
  <1>2. Moves(r) = <<"absent", "queued">>
    <2>1. file'[r] = "queued"
      BY <1>a DEF TypeOK
    <2> QED BY <1>a, <1>b, <2>1 DEF Moves, Phase
  <1>3. \A q \in Run \ {r} : Still(q)
    BY <1>a, Stays DEF TypeOK
  <1> QED BY <1>1, <1>2, <1>3, OneMoves

LEMMA DeathStep ==
    ASSUME KInv, Crash \/ Shutdown
    PROVE  Known' /\ Refusals' /\ Begun' /\ QueueStep
  <1> USE DEF KInv, IInv
  <1>1. PICK after \in [Run -> {"absent", "queued", "running", "done", "failed"}] :
           /\ Dies(after)
           /\ \A r \in Run : \/ after[r] = file[r]
                             \/ after[r] = "failed" /\ (r \in Live \cup Marking \/
                                   \E d \in Drain : drain[d].pc = "refusing" /\ drain[d].at = r)
                             \/ after[r] = "running" /\ r \in Marking \cup Live
    <2>1. CASE Crash
      BY <2>1 DEF Crash, TypeOK
    <2>2. CASE Shutdown
      <3>1. \A r \in Run : LateWrites(r) \subseteq {"running", "failed"}
        BY DEF LateWrites
      <3>2. \A r \in Run : "running" \in LateWrites(r) => r \in Marking \cup Live
        BY DEF LateWrites, Marking, Live
      <3>3. \A r \in Run : "failed" \in LateWrites(r) =>
                \E d \in Drain : drain[d].pc = "refusing" /\ drain[d].at = r
        BY DEF LateWrites
      <3> QED BY <2>2, <3>1, <3>2, <3>3 DEF Shutdown
    <2> QED BY <2>1, <2>2
  <1>a. /\ file' = after /\ inflight' = {} /\ UNCHANGED <<ran, lost>>
        /\ \A d \in Drain : drain'[d] = Idle
        /\ \A r \in Run : runner'[r] = "none"
    BY <1>1 DEF Dies
  <1>2. Known' /\ Refusals' /\ Begun'
    <2>1. \A r \in Run : file'[r] = "absent" => file[r] = "absent"
      BY <1>1, <1>a
    <2> QED BY <1>a, <2>1 DEF Known, Refusals, Begun, Idle, State
  <1>3. ASSUME NEW r \in Run PROVE Phase(r)' \in Queue!Outcomes(Phase(r))
    <2>1. file[r] \in {"absent", "queued", "running", "done", "failed"} /\ ran[r] \in Nat
      BY DEF TypeOK
    <2>2. r \in Marking \cup Live <=> r \in inflight
      BY DEF Tracked, Marking, Live, Holds
    <2>3. runner[r] # "none" => r \in inflight
      BY DEF Tracked
    <2>4. r \in inflight /\ r \notin lost => file[r] # "absent"
      BY DEF Known
    <2>5. runner[r] # "none" /\ r \notin lost => file[r] # "queued"
      BY <2>1 DEF Begun, Marked
    <2>6. /\ after[r] \in {file[r], "failed", "running"}
          /\ after[r] = "running" => file[r] = "running" \/ r \in inflight
          /\ after[r] = "failed" => \/ file[r] \in {"failed", "done", "queued"} \/ r \in inflight \cup lost
      BY <1>1, <2>1, <2>2 DEF Refusals
    <2>7. Phase(r)' = IF r \in lost THEN "lost" ELSE IF after[r] = "running" THEN "abandoned"
                      ELSE IF after[r] \in {"done", "failed"} THEN "settled" ELSE after[r]
      BY <1>a DEF Phase
    <2>8. Phase(r) = IF r \in lost THEN "lost" ELSE IF runner[r] # "none" THEN "started"
                     ELSE IF r \in inflight THEN "claimed" ELSE IF file[r] = "running" THEN "abandoned"
                     ELSE IF file[r] \in {"done", "failed"} THEN "settled" ELSE file[r]
      BY DEF Phase
    <2>9. CASE r \in lost
      BY <2>7, <2>8, <2>9 DEF Queue!Outcomes
    <2>10. CASE r \notin lost /\ runner[r] # "none"
      BY <2>1, <2>3, <2>4, <2>5, <2>6, <2>7, <2>8, <2>10 DEF Queue!Outcomes
    <2>11. CASE r \notin lost /\ runner[r] = "none" /\ r \in inflight
      BY <2>1, <2>4, <2>6, <2>7, <2>8, <2>11 DEF Queue!Outcomes
    <2>12. CASE r \notin lost /\ runner[r] = "none" /\ r \notin inflight
      BY <2>1, <2>6, <2>7, <2>8, <2>12 DEF Queue!Outcomes
    <2> QED BY <2>9, <2>10, <2>11, <2>12
  <1>4. QueueStep
    <2>1. \A r \in Run : Phase(r)' \in Queue!Phases
      BY <1>1, <1>a DEF Phase, Queue!Phases
    <2>2. [r \in Run |-> Phase(r)'] \in [Run -> Queue!Phases]
      BY <2>1
    <2>3. Queue!Die
      BY <1>3, <2>2 DEF Queue!Die
    <2> QED BY <2>3 DEF QueueStep, Queue!Next
  <1> QED BY <1>2, <1>4

\* Every run goes through the queue as its abstract specification says, for any
\* number of runs and drains, and any number of faults and deaths.
THEOREM ImplementsQueueHolds == Spec => ImplementsQueue
  <1>1. KInv /\ IInv' /\ [Next]_vars => KInv' /\ QueueStep
    <2> SUFFICES ASSUME KInv, IInv', [Next]_vars PROVE Known' /\ Refusals' /\ Begun' /\ QueueStep
      BY DEF KInv
    <2>1. ASSUME NEW d \in Drain, Start(d) \/ DrainStep(d)
          PROVE  Known' /\ Refusals' /\ Begun' /\ QueueStep
      <3>1. ASSUME NEW r \in Run, Skip(d, r) \/ Refuse(d, r) \/ Claim(d, r)
            PROVE  Known' /\ Refusals' /\ Begun' /\ QueueStep
        BY <3>1, LooksStep, ClaimStep
      <3>2. CASE Start(d) \/ List(d) \/ Finish(d) \/ Refused(d) \/ RefuseFails(d)
        BY <3>2, LooksStep
      <3> QED BY <2>1, <3>1, <3>2, HeldStep DEF DrainStep
    <2>2. ASSUME NEW r \in Run, Enqueue(r) \/ RunnerStep(r)
          PROVE  Known' /\ Refusals' /\ Begun' /\ QueueStep
      BY <2>2, EnqueueStep, RunnerStepStep
    <2>3. CASE Crash \/ Shutdown
      BY <2>3, DeathStep
    <2>4. CASE UNCHANGED vars
      <3>1. UNCHANGED <<file, inflight, drain, runner, ran, lost>>
        BY <2>4 DEF vars, history
      <3>2. \A r \in Run : Phase(r)' = Phase(r)
        BY <3>1 DEF Phase
      <3> QED BY <3>1, <3>2 DEF KInv, Known, Refusals, Begun, QueueStep
    <2> QED BY <2>1, <2>2, <2>3, <2>4 DEF Next
  <1>2. QueueStep => [Queue!Next]_([r \in Run |-> Phase(r)])
    BY DEF QueueStep
  <1> QED BY <1>1, <1>2, InitSteps, Invariance, PTL DEF Spec, ImplementsQueue, Queue!Spec
=============================================================================
