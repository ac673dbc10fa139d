--------------------------- MODULE DeskGateProofs ---------------------------
(***************************************************************************)
(* What DeskGate guarantees for any number of runs, workers and settings.  *)
(***************************************************************************)
EXTENDS DeskGate, TLAPS, FiniteSetTheorems

(***************************************************************************)
(* The inductive invariant.  Place says which kind of task can be where    *)
(* and that a task refers to a gate exactly while it needs one; Home that  *)
(* every reference of a run, a leaked one included, is to the registered   *)
(* gate; Family that children use the gate of a run that is still there.   *)
(***************************************************************************)
Place ==
    \A t \in Task :
        /\ pc[t] \in {"loop", "await", "reap", "leaked"} => t \in Chief
        /\ pc[t] \in {"nest", "unpark"} => t \in Worker
        /\ pc[t] = "work" => t \notin Chief
        /\ pc[t] \in {"idle", "done"} <=> gateOf[t] = NoGate

Home == \A o \in Owner : gateOf[o] # NoGate => gateOf[o] = registered

Family ==
    /\ \A w \in Worker : Active(w) /\ Active(boss[w]) => gateOf[w] = gateOf[boss[w]]
    /\ \A k \in Nested : Active(k) /\ Active(boss[host[k]])
                            => gateOf[k] = gateOf[boss[host[k]]]
    /\ \A w \in Worker : Active(w) => pc[boss[w]] # "idle"
    /\ \A k \in Nested : Active(k) => pc[boss[host[k]]] # "idle"

IInv == TypeOK /\ Place /\ NoSeatLeak /\ Home /\ RefsCountRuns /\ Family

-----------------------------------------------------------------------------
\* effective_live_cap: never below the floor nor above the hard maximum,
\* whatever the user and the admin ask for.
LEMMA LiveCapBounds ==
    ASSUME NEW u \in Int, NEW a \in Int \cup {NoCeiling}
    PROVE  EffectiveLiveCap(u, a) \in MinLiveSeats..Hard
  BY CapAssumption DEF EffectiveLiveCap, Clamped, Hard, Lesser, Greater

\* effective_live_cap: admin policy only tightens.  With a ceiling the cap is
\* never above what the same user gets without one, nor above that ceiling
\* unless the ceiling is below the floor.
THEOREM AdminOnlyTightens ==
    ASSUME NEW u \in Int, NEW a \in Int
    PROVE  /\ EffectiveLiveCap(u, a) <= EffectiveLiveCap(u, NoCeiling)
           /\ EffectiveLiveCap(u, a) <= Greater(MinLiveSeats, a)
  BY CapAssumption DEF EffectiveLiveCap, Clamped, Hard, Lesser, Greater

\* The cap in force is within its bounds in every state.
LEMMA LiveCapType == TypeOK => LiveCap \in MinLiveSeats..Hard
  <1>1. ASSUME TypeOK PROVE user \in Int /\ admin \in Int \cup {NoCeiling}
    BY <1>1, CapAssumption DEF TypeOK
  <1> QED BY <1>1, LiveCapBounds DEF LiveCap

\* The floor itself is an allowed cap.
LEMMA FloorType == MinLiveSeats \in Nat /\ MinLiveSeats \in MinLiveSeats..Hard /\ Hard \in Int
  BY CapAssumption DEF Hard, Greater

\* A daemon that has just started, with nobody on the desk.
LEMMA InitInv == Init => IInv
  <1> SUFFICES ASSUME Init PROVE IInv
    OBVIOUS
  <1>1. TypeOK
    BY FloorType DEF Init, TypeOK
  <1>2. Place /\ NoSeatLeak /\ Home /\ Family
    BY CapAssumption, TasksAssumption DEF Init, Place, NoSeatLeak, Home, Family, Active, Owner, Task
  <1>3. RefsCountRuns
    <2> SUFFICES ASSUME NEW g \in Gate
                 PROVE  refs[g] = Cardinality({o \in Owner : gateOf[o] = g})
      BY DEF RefsCountRuns
    <2>1. {o \in Owner : gateOf[o] = g} = {}
      BY CapAssumption DEF Init, Owner, Task
    <2> QED BY <2>1, FS_EmptySet DEF Init
  <1> QED BY <1>1, <1>2, <1>3 DEF IInv

-----------------------------------------------------------------------------
\* Every step keeps the types.
LEMMA TypeStep == IInv /\ [Next]_vars => TypeOK'
  <1> SUFFICES ASSUME IInv, [Next]_vars PROVE TypeOK'
    OBVIOUS
  <1> USE DEF IInv, TypeOK
  <1>0. LiveCap \in MinLiveSeats..Hard
    BY LiveCapType
  <1>a. ASSUME NEW t \in Task, DropSlot(t)
        PROVE  held' \in [Gate -> SUBSET Task] /\ parked' \in [Gate -> SUBSET Task]
    BY <1>a DEF DropSlot
  <1>b. ASSUME NEW o \in Owner, ReleaseDomain(o)
        PROVE  refs' \in [Gate -> Nat] /\ registered' \in Gate \cup {NoGate}
    <2>1. \A g \in Gate : Greater(0, refs[g] - 1) \in Nat
      BY DEF Greater
    <2>2. refs' \in [Gate -> Nat]
      BY <1>b, <2>1 DEF ReleaseDomain
    <2>3. registered' \in Gate \cup {NoGate}
      BY <1>b DEF ReleaseDomain
    <2> QED BY <2>2, <2>3
  <1>c. ASSUME NEW S PROVE Signalled(S) \in [Task -> {"none", "pending", "raised", "overdue", "expired"}]
    BY DEF Signalled
  <1>1. CASE ChangeSettings
    BY <1>1 DEF ChangeSettings
  <1>2. ASSUME NEW t \in Owner, Open(t) PROVE TypeOK'
    BY <1>0, <1>2 DEF Open, Task
  <1>3. ASSUME NEW t \in Task, Admit(t) PROVE TypeOK'
    BY <1>0, <1>3 DEF Admit
  <1>4. ASSUME NEW t \in Task, Refresh(t) PROVE TypeOK'
    BY <1>0, <1>4 DEF Refresh
  <1>5. ASSUME NEW t \in Task, Abandon(t) PROVE TypeOK'
    BY <1>5, <1>b DEF Abandon, Owner
  <1>6. ASSUME NEW t \in Task, Leave(t) PROVE TypeOK'
    BY <1>6, <1>a, <1>b DEF Leave, Owner
  <1>7. ASSUME NEW c \in Chief, NEW B \in SUBSET Crew(c), StartBatch(c, B) PROVE TypeOK'
    BY <1>0, <1>7 DEF StartBatch, Crew, Task, Owner
  <1>8. ASSUME NEW c \in Chief, Collect(c) PROVE TypeOK'
    BY <1>8 DEF Collect
  <1>9. ASSUME NEW c \in Chief, Reap(c) PROVE TypeOK'
    BY <1>9, <1>c DEF Reap
  <1>10. ASSUME NEW c \in Chief, Finish(c) PROVE TypeOK'
    BY <1>10, <1>a, <1>b DEF Finish, Owner, Task
  <1>11. ASSUME NEW w \in Worker, NEW K \in SUBSET Kids(w), NEW Q \in SUBSET K,
                Dispatch(w, K, Q)
         PROVE  TypeOK'
    <2>1. gateOf[w] \in Gate \cup {NoGate} /\ w \in Task
      BY DEF Task
    <2> QED BY <1>11, <2>1 DEF Dispatch, Park, Kids, Task
  <1>12. ASSUME NEW w \in Worker, Gathered(w) PROVE TypeOK'
    BY <1>12 DEF Gathered
  <1>13. ASSUME NEW w \in Worker, DropLease(w) PROVE TypeOK'
    BY <1>13, <1>a DEF DropLease, Task
  <1>14. ASSUME NEW t \in Task, Stop(t) PROVE TypeOK'
    BY <1>14, <1>c DEF Stop
  <1>15. ASSUME NEW c \in Chief, StopDesk(c) PROVE TypeOK'
    BY <1>15, <1>c DEF StopDesk
  <1>17. ASSUME NEW w \in Worker, TimeOut(w) PROVE TypeOK'
    BY <1>17, <1>c DEF TimeOut, Task
  <1>16. CASE UNCHANGED vars
    BY <1>16 DEF vars
  <1> QED
    BY <1>1, <1>2, <1>3, <1>4, <1>5, <1>6, <1>7, <1>8, <1>9, <1>10, <1>11, <1>12, <1>13,
       <1>14, <1>15, <1>16, <1>17
       DEF Next, ChiefStep, WorkerStep, NestedStep, CommsStep, Owner, Task

-----------------------------------------------------------------------------
\* Every step leaves each kind of task only where it can be.
LEMMA PlaceStep == IInv /\ [Next]_vars => Place'
  <1> SUFFICES ASSUME IInv, [Next]_vars PROVE Place'
    OBVIOUS
  <1> USE CapAssumption, TasksAssumption DEF IInv, TypeOK
  <1>1. CASE ChangeSettings
    BY <1>1 DEF ChangeSettings, Place
  <1>2. ASSUME NEW t \in Owner, Open(t) PROVE Place'
    BY <1>2 DEF Open, Place, Task, Owner
  <1>3. ASSUME NEW t \in Task, Admit(t) PROVE Place'
    BY <1>3 DEF Admit, Place, Task, Owner
  <1>4. ASSUME NEW t \in Task, Refresh(t) PROVE Place'
    BY <1>4 DEF Refresh, Place, Task, Owner
  <1>5. ASSUME NEW t \in Task, Abandon(t) PROVE Place'
    BY <1>5 DEF Abandon, Place, Task, Owner
  <1>6. ASSUME NEW t \in Task, Leave(t) PROVE Place'
    BY <1>6 DEF Leave, Place, Task, Owner
  <1>7. ASSUME NEW c \in Chief, NEW B \in SUBSET Crew(c), StartBatch(c, B) PROVE Place'
    BY <1>7 DEF StartBatch, Crew, Place, Task, Owner
  <1>8. ASSUME NEW c \in Chief, Collect(c) PROVE Place'
    BY <1>8 DEF Collect, Place, Task, Owner
  <1>9. ASSUME NEW c \in Chief, Reap(c) PROVE Place'
    BY <1>9 DEF Reap, Place, Task, Owner
  <1>10. ASSUME NEW c \in Chief, Finish(c) PROVE Place'
    BY <1>10 DEF Finish, Place, Task, Owner
  <1>11. ASSUME NEW w \in Worker, NEW K \in SUBSET Kids(w), NEW Q \in SUBSET K, Dispatch(w, K, Q) PROVE Place'
    BY <1>11 DEF Dispatch, Kids, Place, Task, Owner
  <1>12. ASSUME NEW w \in Worker, Gathered(w) PROVE Place'
    BY <1>12 DEF Gathered, Place, Task, Owner
  <1>13. ASSUME NEW w \in Worker, DropLease(w) PROVE Place'
    BY <1>13 DEF DropLease, Place, Task, Owner
  <1>14. ASSUME NEW t \in Task, Stop(t) PROVE Place'
    BY <1>14 DEF Stop, Place, Task, Owner
  <1>15. ASSUME NEW c \in Chief, StopDesk(c) PROVE Place'
    BY <1>15 DEF StopDesk, Place, Task, Owner
  <1>17. ASSUME NEW w \in Worker, TimeOut(w) PROVE Place'
    BY <1>17 DEF TimeOut, Place, Task, Owner
  <1>16. CASE UNCHANGED vars
    BY <1>16 DEF vars, Place
  <1> QED
    BY <1>1, <1>2, <1>3, <1>4, <1>5, <1>6, <1>7, <1>8,
       <1>9, <1>10, <1>11, <1>12, <1>13, <1>14, <1>15, <1>16, <1>17
       DEF Next, ChiefStep, WorkerStep, NestedStep, CommsStep, Owner, Task

\* Every step gives and takes seats and parked leases with the task's place.
LEMMA SeatStep == IInv /\ [Next]_vars => NoSeatLeak'
  <1> SUFFICES ASSUME IInv, [Next]_vars PROVE NoSeatLeak'
    OBVIOUS
  <1> USE CapAssumption, TasksAssumption DEF IInv, TypeOK
  <1>1. CASE ChangeSettings
    BY <1>1 DEF ChangeSettings, NoSeatLeak
  <1>2. ASSUME NEW t \in Owner, Open(t) PROVE NoSeatLeak'
    BY <1>2 DEF Open, NoSeatLeak, Place, Task, Owner
  <1>3. ASSUME NEW t \in Task, Admit(t) PROVE NoSeatLeak'
    BY <1>3 DEF Admit, NoSeatLeak, Place, Task, Owner
  <1>4. ASSUME NEW t \in Task, Refresh(t) PROVE NoSeatLeak'
    BY <1>4 DEF Refresh, NoSeatLeak, Place, Task, Owner
  <1>5. ASSUME NEW t \in Task, Abandon(t) PROVE NoSeatLeak'
    BY <1>5 DEF Abandon, NoSeatLeak, Place, Task, Owner
  <1>6. ASSUME NEW t \in Task, Leave(t) PROVE NoSeatLeak'
    BY <1>6 DEF Leave, DropSlot, NoSeatLeak, Place, Task, Owner
  <1>7. ASSUME NEW c \in Chief, NEW B \in SUBSET Crew(c), StartBatch(c, B) PROVE NoSeatLeak'
    BY <1>7 DEF StartBatch, Crew, NoSeatLeak, Place, Task, Owner
  <1>8. ASSUME NEW c \in Chief, Collect(c) PROVE NoSeatLeak'
    BY <1>8 DEF Collect, NoSeatLeak, Place, Task, Owner
  <1>9. ASSUME NEW c \in Chief, Reap(c) PROVE NoSeatLeak'
    BY <1>9 DEF Reap, NoSeatLeak, Place, Task, Owner
  <1>10. ASSUME NEW c \in Chief, Finish(c) PROVE NoSeatLeak'
    BY <1>10 DEF Finish, Leaving, DropSlot, NoSeatLeak, Place, Task, Owner
  <1>11. ASSUME NEW w \in Worker, NEW K \in SUBSET Kids(w), NEW Q \in SUBSET K, Dispatch(w, K, Q) PROVE NoSeatLeak'
    BY <1>11 DEF Dispatch, Park, Kids, NoSeatLeak, Place, Task, Owner
  <1>12. ASSUME NEW w \in Worker, Gathered(w) PROVE NoSeatLeak'
    BY <1>12 DEF Gathered, NoSeatLeak, Place, Task, Owner
  <1>13. ASSUME NEW w \in Worker, DropLease(w) PROVE NoSeatLeak'
    BY <1>13 DEF DropLease, DropSlot, NoSeatLeak, Place, Task, Owner
  <1>14. ASSUME NEW t \in Task, Stop(t) PROVE NoSeatLeak'
    BY <1>14 DEF Stop, NoSeatLeak, Place, Task, Owner
  <1>15. ASSUME NEW c \in Chief, StopDesk(c) PROVE NoSeatLeak'
    BY <1>15 DEF StopDesk, NoSeatLeak, Place, Task, Owner
  <1>17. ASSUME NEW w \in Worker, TimeOut(w) PROVE NoSeatLeak'
    BY <1>17 DEF TimeOut, NoSeatLeak, Place, Task, Owner
  <1>16. CASE UNCHANGED vars
    BY <1>16 DEF vars, NoSeatLeak
  <1> QED
    BY <1>1, <1>2, <1>3, <1>4, <1>5, <1>6, <1>7, <1>8,
       <1>9, <1>10, <1>11, <1>12, <1>13, <1>14, <1>15, <1>16, <1>17
       DEF Next, ChiefStep, WorkerStep, NestedStep, CommsStep, Owner, Task

-----------------------------------------------------------------------------
(* Reference counting.  Runs(g) are the runs that refer to g. *)
Runs(g) == {o \in Owner : gateOf[o] = g}

\* Only finitely many runs refer to a gate.
LEMMA RunsFinite == \A g : IsFiniteSet(Runs(g))
  <1> SUFFICES ASSUME NEW g PROVE IsFiniteSet(Runs(g))
    OBVIOUS
  <1>1. Runs(g) \subseteq Task
    BY DEF Runs, Task
  <1> QED BY <1>1, TasksAssumption, FS_Subset

\* A run that gives its reference back leaves the count exact, and the gate
\* is forgotten only when nobody refers to it.
LEMMA ReleaseCounts ==
    ASSUME IInv, NEW o \in Owner, gateOf[o] \in Gate, ReleaseDomain(o),
           gateOf' = [gateOf EXCEPT ![o] = NoGate]
    PROVE  Home' /\ RefsCountRuns'
  <1> USE DEF IInv, TypeOK
  <1>1. o \in Task /\ o \in Runs(gateOf[o])
    BY DEF Task, Runs
  <1>2. \A g \in Gate : Runs(g)' = IF g = gateOf[o] THEN Runs(g) \ {o} ELSE Runs(g)
    BY <1>1, CapAssumption DEF Runs, Owner, Task
  <1>3. \A g \in Gate : refs[g] = Cardinality(Runs(g))
    BY DEF RefsCountRuns, Runs
  <1>4. Cardinality(Runs(gateOf[o]) \ {o}) = Cardinality(Runs(gateOf[o])) - 1
    <2>1. IsFiniteSet(Runs(gateOf[o]))
      BY RunsFinite
    <2> QED BY <1>1, <2>1, FS_RemoveElement, Zenon
  <1>5. Cardinality(Runs(gateOf[o]) \ {o}) \in Nat
    BY RunsFinite, FS_RemoveElement, FS_CardinalityType
  <1>6. Greater(0, refs[gateOf[o]] - 1) = Cardinality(Runs(gateOf[o]) \ {o})
    BY <1>3, <1>4, <1>5 DEF Greater
  <1>7. \A g \in Gate : refs'[g] = Cardinality(Runs(g)')
    BY <1>2, <1>3, <1>6 DEF ReleaseDomain
  <1>8. RefsCountRuns'
    BY <1>7 DEF RefsCountRuns, Runs
  <1>9. ASSUME NEW q \in Owner, gateOf'[q] # NoGate PROVE gateOf'[q] = registered'
    <2>1. q # o /\ gateOf'[q] = gateOf[q] /\ q \in Task
      BY <1>9, <1>1 DEF Task, Owner
    <2>2. PICK g \in Gate : gateOf[q] = g /\ registered = g
      BY <1>9, <2>1 DEF Home
    <2>3. q \in Runs(g)'
      BY <2>1, <2>2 DEF Runs
    <2>4. IsFiniteSet(Runs(g)')
      <3>1. IsFiniteSet(Runs(g)) /\ IsFiniteSet(Runs(g) \ {o})
        BY RunsFinite, FS_RemoveElement
      <3> QED BY <1>2, <3>1
    <2>5. refs'[g] # 0
      BY <1>7, <2>2, <2>3, <2>4, FS_EmptySet
    <2> QED BY <2>1, <2>2, <2>5 DEF ReleaseDomain
  <1> QED BY <1>8, <1>9 DEF Home

\* A run that opens the desk is counted once, on the registered gate.
LEMMA OpenCounts ==
    ASSUME IInv, NEW o \in Owner, Open(o)
    PROVE  Home' /\ RefsCountRuns'
  <1> USE DEF IInv, TypeOK
  <1>1. PICK g \in Gate :
            /\ \/ registered = g
               \/ registered = NoGate /\ \A t \in Task : gateOf[t] # g
            /\ registered' = g
            /\ refs' = [refs EXCEPT ![g] = @ + 1]
            /\ gateOf' = [gateOf EXCEPT ![o] = g]
    BY DEF Open
  <1>2. o \in Task /\ gateOf[o] = NoGate
    BY DEF Open, Place, Task
  <1>3. \A h \in Gate : Runs(h)' = IF h = g THEN Runs(h) \cup {o} ELSE Runs(h)
    BY <1>1, <1>2, CapAssumption DEF Runs, Owner, Task
  <1>4. o \notin Runs(g)
    BY <1>2, CapAssumption DEF Runs, Owner
  <1>5. Cardinality(Runs(g) \cup {o}) = Cardinality(Runs(g)) + 1
    BY <1>4, RunsFinite, FS_AddElement
  <1>6. \A h \in Gate : refs[h] = Cardinality(Runs(h))
    BY DEF RefsCountRuns, Runs
  <1>7. \A h \in Gate : refs'[h] = Cardinality(Runs(h)')
    BY <1>1, <1>3, <1>5, <1>6
  <1>8. RefsCountRuns'
    BY <1>7 DEF RefsCountRuns, Runs
  <1>9. Home'
    BY <1>1, <1>2 DEF Home, Owner, Task
  <1> QED BY <1>8, <1>9

\* Every step keeps the reference counts exact and the runs on one gate.
LEMMA CountStep == IInv /\ [Next]_vars => Home' /\ RefsCountRuns'
  <1> SUFFICES ASSUME IInv, [Next]_vars PROVE Home' /\ RefsCountRuns'
    OBVIOUS
  <1> USE CapAssumption, TasksAssumption DEF IInv, TypeOK
  \* Most steps move no reference of a run.
  <1>s. ASSUME refs' = refs, registered' = registered,
               \A o \in Owner : gateOf'[o] = gateOf[o]
        PROVE  Home' /\ RefsCountRuns'
    <2>1. \A g \in Gate : {o \in Owner : gateOf'[o] = g} = {o \in Owner : gateOf[o] = g}
      BY <1>s
    <2>2. RefsCountRuns'
      BY <1>s, <2>1 DEF RefsCountRuns
    <2> QED BY <1>s, <2>2 DEF Home
  <1>1. CASE ChangeSettings
    BY <1>1, <1>s DEF ChangeSettings
  <1>2. ASSUME NEW t \in Owner, Open(t) PROVE Home' /\ RefsCountRuns'
    BY <1>2, OpenCounts
  <1>3. ASSUME NEW t \in Task, Admit(t) PROVE Home' /\ RefsCountRuns'
    BY <1>3, <1>s DEF Admit
  <1>4. ASSUME NEW t \in Task, Refresh(t) PROVE Home' /\ RefsCountRuns'
    BY <1>4, <1>s DEF Refresh
  <1>5. ASSUME NEW t \in Task, Abandon(t) PROVE Home' /\ RefsCountRuns'
    <2>1. CASE t \in Comms
      <3>1. gateOf[t] \in Gate
        BY <1>5 DEF Abandon, Place
      <3>2. gateOf' = [gateOf EXCEPT ![t] = NoGate]
        BY <1>5, <2>1 DEF Abandon
      <3> QED BY <1>5, <2>1, <3>1, <3>2, ReleaseCounts DEF Abandon, Owner
    <2>2. CASE t \notin Comms
      <3>1. \A o \in Owner : gateOf'[o] = gateOf[o]
        BY <1>5, <2>2 DEF Abandon, Owner, Task
      <3> QED BY <1>5, <2>2, <3>1, <1>s DEF Abandon
    <2> QED BY <2>1, <2>2
  <1>6. ASSUME NEW t \in Task, Leave(t) PROVE Home' /\ RefsCountRuns'
    <2>1. CASE t \in Comms
      <3>1. gateOf[t] \in Gate
        BY <1>6 DEF Leave, Place
      <3>2. gateOf' = [gateOf EXCEPT ![t] = NoGate]
        BY <1>6 DEF Leave
      <3> QED BY <1>6, <2>1, <3>1, <3>2, ReleaseCounts DEF Leave, Owner
    <2>2. CASE t \notin Comms
      <3>1. \A o \in Owner : gateOf'[o] = gateOf[o]
        BY <1>6, <2>2 DEF Leave, Owner, Task
      <3> QED BY <1>6, <2>2, <3>1, <1>s DEF Leave
    <2> QED BY <2>1, <2>2
  <1>7. ASSUME NEW c \in Chief, NEW B \in SUBSET Crew(c), StartBatch(c, B)
        PROVE  Home' /\ RefsCountRuns'
    <2>1. \A o \in Owner : gateOf'[o] = gateOf[o]
      BY <1>7 DEF StartBatch, Crew, Owner, Task
    <2> QED BY <1>7, <2>1, <1>s DEF StartBatch
  <1>8. ASSUME NEW c \in Chief, Collect(c) PROVE Home' /\ RefsCountRuns'
    BY <1>8, <1>s DEF Collect
  <1>9. ASSUME NEW c \in Chief, Reap(c) PROVE Home' /\ RefsCountRuns'
    BY <1>9, <1>s DEF Reap
  <1>10. ASSUME NEW c \in Chief, Finish(c) PROVE Home' /\ RefsCountRuns'
    <2>1. c \in Owner /\ c \in Task
      BY DEF Owner, Task
    <2>2. gateOf[c] \in Gate
      BY <1>10, <2>1 DEF Finish, Leaving, Place
    <2>3. ReleaseDomain(c) /\ gateOf' = [gateOf EXCEPT ![c] = NoGate]
      BY <1>10 DEF Finish
    <2> QED BY <2>1, <2>2, <2>3, ReleaseCounts
  <1>11. ASSUME NEW w \in Worker, NEW K \in SUBSET Kids(w), NEW Q \in SUBSET K,
                Dispatch(w, K, Q)
         PROVE  Home' /\ RefsCountRuns'
    <2>1. \A o \in Owner : gateOf'[o] = gateOf[o]
      BY <1>11 DEF Dispatch, Kids, Owner, Task
    <2> QED BY <1>11, <2>1, <1>s DEF Dispatch
  <1>12. ASSUME NEW w \in Worker, Gathered(w) PROVE Home' /\ RefsCountRuns'
    BY <1>12, <1>s DEF Gathered
  <1>13. ASSUME NEW w \in Worker, DropLease(w) PROVE Home' /\ RefsCountRuns'
    <2>1. \A o \in Owner : gateOf'[o] = gateOf[o]
      BY <1>13 DEF DropLease, Owner, Task
    <2> QED BY <1>13, <2>1, <1>s DEF DropLease
  <1>14. ASSUME NEW t \in Task, Stop(t) PROVE Home' /\ RefsCountRuns'
    BY <1>14, <1>s DEF Stop
  <1>15. ASSUME NEW c \in Chief, StopDesk(c) PROVE Home' /\ RefsCountRuns'
    BY <1>15, <1>s DEF StopDesk
  <1>17. ASSUME NEW w \in Worker, TimeOut(w) PROVE Home' /\ RefsCountRuns'
    BY <1>17, <1>s DEF TimeOut
  <1>16. CASE UNCHANGED vars
    BY <1>16, <1>s DEF vars
  <1> QED
    BY <1>1, <1>2, <1>3, <1>4, <1>5, <1>6, <1>7, <1>8,
       <1>9, <1>10, <1>11, <1>12, <1>13, <1>14, <1>15, <1>16, <1>17
       DEF Next, ChiefStep, WorkerStep, NestedStep, CommsStep, Owner, Task

-----------------------------------------------------------------------------
\* Every step keeps children on the gate of their run.
LEMMA FamilyStep == IInv /\ [Next]_vars => Family'
  <1> SUFFICES ASSUME IInv, [Next]_vars PROVE Family'
    OBVIOUS
  <1> USE CapAssumption, TasksAssumption DEF IInv, TypeOK, Family, Active, Place, Task, Owner
  <1>1. CASE ChangeSettings
    BY <1>1 DEF ChangeSettings
  <1>2. ASSUME NEW t \in Owner, Open(t) PROVE Family'
    BY <1>2 DEF Open
  <1>3. ASSUME NEW t \in Task, Admit(t) PROVE Family'
    BY <1>3 DEF Admit
  <1>4. ASSUME NEW t \in Task, Refresh(t) PROVE Family'
    BY <1>4 DEF Refresh
  <1>5. ASSUME NEW t \in Task, Abandon(t) PROVE Family'
    BY <1>5 DEF Abandon
  <1>6. ASSUME NEW t \in Task, Leave(t) PROVE Family'
    BY <1>6 DEF Leave
  <1>7. ASSUME NEW c \in Chief, NEW B \in SUBSET Crew(c), StartBatch(c, B) PROVE Family'
    BY <1>7 DEF StartBatch, Crew
  <1>8. ASSUME NEW c \in Chief, Collect(c) PROVE Family'
    BY <1>8 DEF Collect
  <1>9. ASSUME NEW c \in Chief, Reap(c) PROVE Family'
    BY <1>9 DEF Reap
  <1>10. ASSUME NEW c \in Chief, Finish(c) PROVE Family'
    BY <1>10 DEF Finish, Leaving
  <1>11. ASSUME NEW w \in Worker, NEW K \in SUBSET Kids(w), NEW Q \in SUBSET K,
                Dispatch(w, K, Q)
         PROVE  Family'
    BY <1>11 DEF Dispatch, Kids
  <1>12. ASSUME NEW w \in Worker, Gathered(w) PROVE Family'
    BY <1>12 DEF Gathered
  <1>13. ASSUME NEW w \in Worker, DropLease(w) PROVE Family'
    BY <1>13 DEF DropLease
  <1>14. ASSUME NEW t \in Task, Stop(t) PROVE Family'
    BY <1>14 DEF Stop
  <1>15. ASSUME NEW c \in Chief, StopDesk(c) PROVE Family'
    BY <1>15 DEF StopDesk
  <1>17. ASSUME NEW w \in Worker, TimeOut(w) PROVE Family'
    BY <1>17 DEF TimeOut
  <1>16. CASE UNCHANGED vars
    BY <1>16 DEF vars
  <1> QED
    BY <1>1, <1>2, <1>3, <1>4, <1>5, <1>6, <1>7, <1>8,
       <1>9, <1>10, <1>11, <1>12, <1>13, <1>14, <1>15, <1>16, <1>17
       DEF Next, ChiefStep, WorkerStep, NestedStep, CommsStep

-----------------------------------------------------------------------------
\* The inductive invariant holds in every reachable state.
THEOREM Inductive == Spec => []IInv
  <1>1. IInv /\ [Next]_vars => IInv'
    BY TypeStep, PlaceStep, SeatStep, CountStep, FamilyStep DEF IInv
  <1> QED BY InitInv, <1>1, PTL DEF Spec

\* Type correctness, with the bounds of every gate's cap.
THEOREM TypeCorrect == Spec => []TypeOK
  BY Inductive, PTL DEF IInv

\* No run, worker or nested worker leaves a seat or a parked lease behind.
THEOREM SeatsNeverLeak == Spec => []NoSeatLeak
  BY Inductive, PTL DEF IInv

\* The reference count of a gate is the number of runs on it.
THEOREM RefsExact == Spec => []RefsCountRuns
  BY Inductive, PTL DEF IInv

\* Overlapping runs of a desk share one gate, whatever is stopped or fails.
THEOREM SharedGate == Spec => []OneGatePerDesk
  <1>1. IInv => OneGatePerDesk
    <2> SUFFICES ASSUME IInv, NEW o \in Owner, Active(o) PROVE gateOf[o] = registered
      BY DEF OneGatePerDesk
    <2> QED BY DEF IInv, Place, Home, Active, Task
  <1> QED BY Inductive, <1>1, PTL

\* Seats on a forgotten gate belong to tasks whose run is over.
THEOREM ForgottenGateHasOrphans == Spec => []OnlyOrphansElsewhere
  <1>1. IInv => OnlyOrphansElsewhere
    <2> SUFFICES ASSUME IInv, NEW g \in Gate \ {registered},
                        NEW t \in held[g] \cup parked[g]
                 PROVE  \/ t \in Worker /\ ~Active(boss[t])
                        \/ t \in Nested /\ ~Active(boss[host[t]])
      BY DEF OnlyOrphansElsewhere
    <2>1. t \in Task /\ gateOf[t] = g /\ Active(t)
      BY DEF IInv, TypeOK, NoSeatLeak, Active
    <2>2. \A o \in Owner : Active(o) => gateOf[o] = registered
      BY DEF IInv, Place, Home, Active, Task
    <2>3. t \in Worker \cup Nested
      BY <2>1, <2>2 DEF Task
    <2> QED BY <2>1, <2>2, <2>3, TasksAssumption DEF IInv, Family, Owner
  <1> QED BY Inductive, <1>1, PTL

-----------------------------------------------------------------------------
\* Only a step of acquire() or unpark() adds a seat, and it found one free.
THEOREM CapRespected == Spec => AdmitUnderCap
  <1>1. IInv /\ [Next]_vars =>
            (\A g \in Gate : ~(held'[g] \subseteq held[g])
                              => Cardinality(held'[g]) <= LiveCap)
    <2> SUFFICES ASSUME IInv, [Next]_vars, NEW g \in Gate, ~(held'[g] \subseteq held[g])
                 PROVE  Cardinality(held'[g]) <= LiveCap
      OBVIOUS
    <2> USE DEF IInv, TypeOK
    <2>a. \A t \in Task : DropSlot(t) => held'[g] \subseteq held[g]
      BY DEF DropSlot
    <2>b. \A w \in Worker : Park(w) => held'[g] \subseteq held[g]
      BY DEF Park
    <2>1. PICK t \in Task : Admit(t)
      <3>1. CASE \E t \in Task : Admit(t)
        BY <3>1
      <3>2. CASE \E t \in Task : Leave(t) \/ Abandon(t) \/ Refresh(t) \/ Stop(t)
        BY <3>2, <2>a DEF Leave, Abandon, Refresh, Stop
      <3>3. CASE \E c \in Chief : Collect(c) \/ Reap(c) \/ Finish(c) \/ StopDesk(c)
        BY <3>3, <2>a DEF Collect, Reap, Finish, StopDesk, Task, Owner
      <3>4. CASE \E c \in Chief : \E B \in SUBSET Crew(c) : StartBatch(c, B)
        BY <3>4 DEF StartBatch
      <3>5. CASE \E w \in Worker : Gathered(w) \/ TimeOut(w) \/ DropLease(w)
        BY <3>5, <2>a DEF Gathered, TimeOut, DropLease, Task
      <3>6. CASE \E w \in Worker : \E K \in SUBSET Kids(w) : \E Q \in SUBSET K :
                    Dispatch(w, K, Q)
        BY <3>6, <2>b DEF Dispatch
      <3>7. CASE ChangeSettings \/ UNCHANGED vars \/ \E o \in Owner : Open(o)
        BY <3>7 DEF ChangeSettings, vars, Open
      <3> QED BY <3>1, <3>2, <3>3, <3>4, <3>5, <3>6, <3>7
              DEF Next, ChiefStep, WorkerStep, NestedStep, CommsStep, Owner, Task
    <2>2. held'[g] = held[g] \cup {t} /\ Cardinality(held[g]) < LiveCap
      BY <2>1 DEF Admit, Room
    <2>3. IsFiniteSet(held[g])
      BY TasksAssumption, FS_Subset
    <2>4. Cardinality(held[g]) \in Nat /\ LiveCap \in Int
      BY <2>3, FS_CardinalityType, LiveCapType, FloorType
    <2>5. Cardinality(held[g] \cup {t}) =
              IF t \in held[g] THEN Cardinality(held[g]) ELSE Cardinality(held[g]) + 1
      BY <2>3, FS_AddElement
    <2> QED BY <2>2, <2>4, <2>5
  <1> QED BY Inductive, <1>1, PTL DEF Spec, AdmitUnderCap

\* Workers park while they wait for the children they dispatched, so with
\* fewer runs than the floor has seats a full desk always has a holder that is
\* not waiting for a waiter.  Chiefs do not park: the assumption is needed.
THEOREM NoWedgeBelowFloor ==
    ASSUME Cardinality(Chief) < MinLiveSeats
    PROVE  Spec => []NoHolderWedge
  <1>1. IInv => NoHolderWedge
    <2> SUFFICES ASSUME IInv, NEW g \in Gate, HolderWedge(g) PROVE FALSE
      BY DEF NoHolderWedge
    <2>1. held[g] \subseteq Chief
      BY DEF HolderWedge, Stuck, Nesting, IInv, TypeOK, NoSeatLeak
    <2>2. IsFiniteSet(Chief)
      BY TasksAssumption, FS_Subset DEF Task, Owner
    <2>3. Cardinality(held[g]) <= Cardinality(Chief) /\ Cardinality(held[g]) \in Nat
      BY <2>1, <2>2, FS_Subset, FS_CardinalityType
    <2>4. LiveCap \in MinLiveSeats..Hard /\ Cardinality(Chief) \in Nat
      BY <2>2, LiveCapType, FS_CardinalityType DEF IInv
    <2> QED BY <2>3, <2>4, FloorType DEF HolderWedge, Room
  <1> QED BY Inductive, <1>1, PTL

-----------------------------------------------------------------------------
\* _reap_pending: what is left of a batch is cancelled before it is waited for.
\* Every worker the chief still waits for then has been cancelled or timed out.
Reaping == \A c \in Chief : pc[c] = "reap" =>
               \A w \in Crew(c) : Active(w) => sig[w] # "none"

Progeny(c) == Crew(c) \cup {k \in Nested : boss[host[k]] = c}

LEMMA ReapingStep == IInv /\ Reaping /\ [Next]_vars => Reaping'
  <1> SUFFICES ASSUME IInv, Reaping, [Next]_vars,
                      NEW c \in Chief, NEW w \in Worker, boss[w] = c,
                      pc'[c] = "reap", Active(w)'
               PROVE  sig'[w] # "none"
    BY DEF Reaping, Crew
  <1> USE TasksAssumption DEF IInv, TypeOK, Active, Place, Task, Owner
  <1>a. c \in Task /\ w \in Task /\ c # w
    OBVIOUS
  <1>b. Reaping => (pc[c] = "reap" /\ Active(w) => sig[w] # "none")
    BY DEF Reaping, Crew
  <1>1. ASSUME Reap(c) PROVE sig'[w] # "none"
    <2>1. w \in Pending(c)
      BY <1>1, <1>a DEF Reap, Pending, Crew
    <2> QED BY <1>1, <1>a, <2>1 DEF Reap, Signalled
  <1>2. ASSUME NEW d \in Chief, Reap(d), d # c PROVE sig'[w] # "none"
    BY <1>2, <1>a, <1>b DEF Reap, Signalled
  <1>3. ASSUME NEW t \in Task, Admit(t) \/ Refresh(t) \/ Abandon(t) PROVE sig'[w] # "none"
    BY <1>3, <1>a, <1>b DEF Admit, Refresh, Abandon
  <1>4. ASSUME NEW t \in Task, Leave(t) PROVE sig'[w] # "none"
    BY <1>4, <1>a, <1>b DEF Leave
  <1>5. ASSUME NEW o \in Owner, Open(o) PROVE sig'[w] # "none"
    BY <1>5, <1>a, <1>b DEF Open
  <1>6. ASSUME NEW d \in Chief, NEW B \in SUBSET Crew(d), StartBatch(d, B)
        PROVE  sig'[w] # "none"
    <2>1. pc[c] = "reap" /\ d # c /\ w \notin B
      BY <1>6, <1>a DEF StartBatch, Crew
    <2> QED BY <1>6, <1>a, <1>b, <2>1 DEF StartBatch
  <1>7. ASSUME NEW d \in Chief, Collect(d) \/ Finish(d) PROVE sig'[w] # "none"
    BY <1>7, <1>a, <1>b DEF Collect, Finish
  <1>8. ASSUME NEW v \in Worker, NEW K \in SUBSET Kids(v), NEW Q \in SUBSET K, Dispatch(v, K, Q)
        PROVE  sig'[w] # "none"
    BY <1>8, <1>a, <1>b DEF Dispatch, Kids
  <1>9. ASSUME NEW v \in Worker, Gathered(v) \/ DropLease(v) PROVE sig'[w] # "none"
    BY <1>9, <1>a, <1>b DEF Gathered, DropLease
  <1>10. ASSUME NEW v \in Worker, TimeOut(v) PROVE sig'[w] # "none"
    BY <1>10, <1>a, <1>b DEF TimeOut, Signalled
  <1>11. ASSUME NEW t \in Task, Stop(t) PROVE sig'[w] # "none"
    BY <1>11, <1>a, <1>b DEF Stop, Signalled
  <1>12. ASSUME NEW d \in Chief, StopDesk(d) PROVE sig'[w] # "none"
    BY <1>12, <1>a, <1>b DEF StopDesk, Signalled
  <1>13. CASE ChangeSettings \/ UNCHANGED vars
    BY <1>13, <1>b DEF ChangeSettings, vars
  <1> QED
    BY <1>1, <1>2, <1>3, <1>4, <1>5, <1>6, <1>7, <1>8, <1>9, <1>10, <1>11, <1>12, <1>13
       DEF Next, ChiefStep, WorkerStep, NestedStep, CommsStep

\* Once a chief reaps, because of a Stop, a child that was cancelled or a
\* deadline, none of its workers or their nested workers begins any more: a
\* cancelled parent dispatches nothing, and what the chief waits for only gets
\* less.  The safety core of StopEnds.
StoppedStartsNothing ==
    [][\A c \in Chief : pc[c] = "reap" =>
           \A t \in Progeny(c) : ~Active(t) => ~Active(t)']_vars

THEOREM StoppedStartsNothingHolds == Spec => StoppedStartsNothing
  <1>1. Init => Reaping
    BY DEF Init, Reaping, Task, Owner
  <1>2. IInv /\ Reaping /\ [Next]_vars =>
            \A c \in Chief : pc[c] = "reap" => \A t \in Progeny(c) : ~Active(t) => ~Active(t)'
    <2> SUFFICES ASSUME IInv, Reaping, [Next]_vars, NEW c \in Chief, pc[c] = "reap",
                        NEW t \in Progeny(c), ~Active(t)
                 PROVE  ~Active(t)'
      OBVIOUS
    <2> USE TasksAssumption DEF IInv, TypeOK, Active
    <2>a. /\ t \in Task /\ t \in Worker \cup Nested
          /\ t \in Worker => boss[t] = c
          /\ t \in Nested => host[t] \in Crew(c)
      BY DEF Progeny, Crew, Task
    <2>b. pc[t] \in {"idle", "done", "leaked"}
      OBVIOUS
    <2>1. ASSUME NEW d \in Chief, NEW B \in SUBSET Crew(d), StartBatch(d, B) PROVE ~Active(t)'
      <3>1. d # c /\ d \in Task
        BY <2>1 DEF StartBatch, Task, Owner
      <3>2. t \notin B /\ t # d
        BY <2>a, <3>1 DEF Crew
      <3> QED BY <2>1, <2>a, <3>2 DEF StartBatch
    <2>2. ASSUME NEW v \in Worker, NEW K \in SUBSET Kids(v), NEW Q \in SUBSET K, Dispatch(v, K, Q)
          PROVE  ~Active(t)'
      <3>1. sig[v] = "none" /\ pc[v] = "work" /\ v \in Task
        BY <2>2 DEF Dispatch, Task
      <3>2. v \notin Crew(c)
        BY <3>1 DEF Reaping
      <3>3. t \notin K /\ t # v
        BY <2>a, <2>b, <3>1, <3>2 DEF Kids
      <3> QED BY <2>2, <2>a, <3>3 DEF Dispatch
    <2>3. ASSUME NEW s \in Task, Admit(s) \/ Refresh(s) \/ Abandon(s) \/ Leave(s)
          PROVE  ~Active(t)'
      BY <2>3, <2>a, <2>b DEF Admit, Refresh, Abandon, Leave
    <2>4. ASSUME NEW o \in Owner, Open(o) PROVE ~Active(t)'
      BY <2>4, <2>a, <2>b DEF Open, Task, Owner
    <2>5. ASSUME NEW d \in Chief, Collect(d) \/ Finish(d) \/ Reap(d) PROVE ~Active(t)'
      BY <2>5, <2>a, <2>b DEF Collect, Finish, Reap, Task, Owner
    <2>6. ASSUME NEW v \in Worker, Gathered(v) \/ DropLease(v) \/ TimeOut(v) PROVE ~Active(t)'
      BY <2>6, <2>a, <2>b DEF Gathered, DropLease, TimeOut, Task
    <2>7. ASSUME (\E s \in Task : Stop(s)) \/ (\E d \in Chief : StopDesk(d)) \/ ChangeSettings \/ UNCHANGED vars
          PROVE  ~Active(t)'
      BY <2>7, <2>b DEF Stop, StopDesk, ChangeSettings, vars
    <2> QED BY <2>1, <2>2, <2>3, <2>4, <2>5, <2>6, <2>7
            DEF Next, ChiefStep, WorkerStep, NestedStep, CommsStep, Task, Owner
  <1>3. Spec => []Reaping
    BY <1>1, ReapingStep, Inductive, PTL DEF Spec
  <1> QED BY <1>2, <1>3, Inductive, PTL DEF Spec, StoppedStartsNothing
=============================================================================
