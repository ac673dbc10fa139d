------------------------------ MODULE DeskGate ------------------------------
(***************************************************************************)
(* Live-seat admission for one desk: agents/desk_admission.py and the      *)
(* asyncio tasks that use it.                                              *)
(*                                                                         *)
(*   Chief   one orchestration.execute() per member, overlapping on a desk *)
(*   Worker  a plan node run by execute()._run_one, of the chief boss[w]   *)
(*   Nested  a ce_dispatch_worker child of the worker host[k]              *)
(*   Comms   one daemon._curate_into() per member, on the same desk        *)
(*                                                                         *)
(* A task's lease is named after the task (slot_id is unique per run and   *)
(* node), so a slot and its task are the same value.  All of this runs on  *)
(* one event loop: an action is what a task does between two awaits, and   *)
(* the gate's Condition is never held across one, so each gate operation   *)
(* is a single step.  A sleeping acquire() is re-tried by notify_all or by *)
(* its poll timeout: Admit and Refresh are the two outcomes of a retry.    *)
(*                                                                         *)
(* sig[t] is the task's cancellation: "pending" once Task.cancel() was     *)
(* called, "raised" once CancelledError was delivered; "overdue" and       *)
(* "expired" are the same for the cancel that a node's timeout makes from  *)
(* inside, after which the node ends as an ordinary failure.               *)
(***************************************************************************)
EXTENDS Integers, FiniteSets

CONSTANTS Chief, Worker, Nested, Comms,
          boss,          \* [Worker -> Chief]
          host,          \* [Nested -> Worker]
          MinLiveSeats,  \* MIN_LIVE_SEATS
          HardMax,       \* policy.HARD_MAX_CONCURRENCY
          UserPrefs,     \* what Settings may hold for desk_max_live_workers
          Ceilings,      \* what admin policy may hold; NoCeiling is "unset"
          NoCeiling,
          Gate,          \* identities of DeskGate objects
          NoGate

Owner == Chief \cup Comms
Task  == Owner \cup Worker \cup Nested

ASSUME TasksAssumption ==
    /\ IsFiniteSet(Task)
    /\ Chief \cap Worker = {} /\ Chief \cap Nested = {} /\ Chief \cap Comms = {}
    /\ Worker \cap Nested = {} /\ Worker \cap Comms = {} /\ Nested \cap Comms = {}
    /\ boss \in [Worker -> Chief]
    /\ host \in [Nested -> Worker]
ASSUME CapAssumption ==
    /\ MinLiveSeats \in Nat \ {0}
    /\ HardMax \in Int
    /\ UserPrefs \subseteq Int
    /\ Ceilings \subseteq Int \cup {NoCeiling}
    /\ NoCeiling \notin Int
    /\ NoGate \notin Gate

VARIABLES user, admin,    \* Settings preference and admin ceiling
          registered,     \* _GATES[domain], or NoGate
          cap, refs,      \* DeskGate._cap, DeskGate._refs
          held, parked,   \* keys of DeskGate._held and DeskGate._parked
          pc, sig,        \* where each task is, and its cancellation
          gateOf          \* the gate object a task holds a reference to

settings == <<user, admin>>
vars == <<user, admin, registered, cap, refs, held, parked, pc, sig, gateOf>>

-----------------------------------------------------------------------------
(* effective_live_cap: the user's number, tightened by admin policy and by *)
(* the code's hard maximum, never below the floor.                         *)

Lesser(a, b)  == IF a < b THEN a ELSE b
Greater(a, b) == IF a > b THEN a ELSE b

Hard == Greater(MinLiveSeats, HardMax)
Clamped(n) == Greater(MinLiveSeats, Lesser(n, Hard))

\* Variant: the admin's number is taken as it is.
UnclampedLiveCap(u, a) ==
    IF a = NoCeiling THEN Clamped(u) ELSE Lesser(Clamped(u), a)

EffectiveLiveCap(u, a) ==
    Clamped(IF a = NoCeiling THEN Clamped(u) ELSE Lesser(Clamped(u), Clamped(a)))

LiveCap == EffectiveLiveCap(user, admin)

\* The admission test of acquire() and unpark(), made after refresh_cap().
\* Variant: the cap the gate read last time.
StaleRoom(g) == Cardinality(held[g]) < cap[g]

Room(g) == Cardinality(held[g]) < LiveCap

-----------------------------------------------------------------------------
Active(t)  == pc[t] \notin {"idle", "done", "leaked"}
Crew(c)    == {w \in Worker : boss[w] = c}
Kids(w)    == {k \in Nested : host[k] = w}
Cancelling(t) == sig[t] \in {"pending", "overdue"}
Pending(c) == {w \in Crew(c) : Active(w)}
CrewCancelled(c) == \E w \in Crew(c) : pc[w] = "done" /\ sig[w] = "raised"

\* Task.cancel() on every member of S; a gather() passes it on to its children.
Signalled(S) ==
    [t \in Task |->
        IF /\ Active(t)
           /\ \/ t \in S
              \/ t \in Nested /\ host[t] \in S /\ pc[host[t]] = "nest"
        THEN "pending" ELSE sig[t]]

Init ==
    /\ user \in UserPrefs /\ admin \in Ceilings
    /\ registered = NoGate
    /\ cap = [g \in Gate |-> MinLiveSeats]
    /\ refs = [g \in Gate |-> 0]
    /\ held = [g \in Gate |-> {}]
    /\ parked = [g \in Gate |-> {}]
    /\ pc = [t \in Task |-> "idle"]
    /\ sig = [t \in Task |-> "none"]
    /\ gateOf = [t \in Task |-> NoGate]

\* Someone edits Settings, or admin policy is re-read.
ChangeSettings ==
    /\ user' \in UserPrefs /\ admin' \in Ceilings
    /\ UNCHANGED <<registered, cap, refs, held, parked, pc, sig, gateOf>>

-----------------------------------------------------------------------------
(* gate_for + retain.  A gate object nobody refers to any more is as good  *)
(* as a new one.                                                           *)
Open(o) ==
    /\ pc[o] = "idle"
    /\ \E g \in Gate :
        /\ \/ registered = g
           \/ registered = NoGate /\ \A t \in Task : gateOf[t] # g
        /\ registered' = g
        /\ cap' = [cap EXCEPT ![g] = LiveCap]
        /\ refs' = [refs EXCEPT ![g] = @ + 1]
        /\ gateOf' = [gateOf EXCEPT ![o] = g]
    /\ pc' = [pc EXCEPT ![o] = "wait"]
    /\ UNCHANGED <<user, admin, held, parked, sig>>

\* acquire(), or the restoring half of unpark(), finding a seat free.
Admit(t) ==
    LET g == gateOf[t] IN
    /\ \/ pc[t] = "wait" /\ sig[t] = "none"
       \/ pc[t] = "unpark" /\ ~Cancelling(t)
    /\ Room(g)
    /\ cap' = [cap EXCEPT ![g] = LiveCap]
    /\ held' = [held EXCEPT ![g] = @ \cup {t}]
    /\ pc' = [pc EXCEPT ![t] = IF t \in Chief THEN "loop" ELSE "work"]
    /\ UNCHANGED <<user, admin, registered, refs, parked, sig, gateOf>>

\* A retry that finds the desk full still re-reads the cap.
Refresh(t) ==
    LET g == gateOf[t] IN
    /\ pc[t] \in {"wait", "unpark"} /\ ~Cancelling(t)
    /\ ~Room(g) /\ cap[g] # LiveCap
    /\ cap' = [cap EXCEPT ![g] = LiveCap]
    /\ UNCHANGED <<user, admin, registered, refs, held, parked, pc, sig, gateOf>>

-----------------------------------------------------------------------------
(* The lease table.                                                        *)

\* _drop_slot.  Variant: a cancelled task does not reach its release().
DropSlotUnlessCancelled(t) ==
    LET gone == IF sig[t] = "pending" THEN {} ELSE {t} IN
    /\ held' = [held EXCEPT ![gateOf[t]] = @ \ gone]
    /\ parked' = [parked EXCEPT ![gateOf[t]] = @ \ gone]

DropSlot(t) ==
    /\ held' = [held EXCEPT ![gateOf[t]] = @ \ {t}]
    /\ parked' = [parked EXCEPT ![gateOf[t]] = @ \ {t}]

\* park.  Variant: the parent is remembered but its seat stays counted.
ParkKeepingSeat(w) ==
    /\ parked' = [parked EXCEPT ![gateOf[w]] = @ \cup {w}]
    /\ UNCHANGED held

Park(w) ==
    /\ held' = [held EXCEPT ![gateOf[w]] = @ \ {w}]
    /\ parked' = [parked EXCEPT ![gateOf[w]] = @ \cup {w}]

\* release_domain: drop the reference, then drop_gate.
\* Variants: an empty gate is forgotten while runs still refer to it; the
\* reference stays while somebody else has a seat.
ReleaseDomainWhenEmpty(o) ==
    /\ refs' = [refs EXCEPT ![gateOf[o]] = Greater(0, @ - 1)]
    /\ registered' = IF held'[gateOf[o]] = {} THEN NoGate ELSE registered

ReleaseDomainIgnoringSeats(o) ==
    /\ refs' = [refs EXCEPT ![gateOf[o]] = Greater(0, @ - 1)]
    /\ registered' = NoGate

ReleaseDomainWhenLast(o) ==
    /\ refs' = [refs EXCEPT ![gateOf[o]] = IF held'[gateOf[o]] = {} THEN 0 ELSE @]
    /\ registered' = IF held'[gateOf[o]] = {} THEN NoGate ELSE registered

ReleaseDomain(o) ==
    /\ refs' = [refs EXCEPT ![gateOf[o]] = Greater(0, @ - 1)]
    /\ registered' =
        IF /\ registered # NoGate
           /\ refs'[registered] = 0
           /\ held'[registered] = {} /\ parked'[registered] = {}
        THEN NoGate ELSE registered

\* The batch loop: workers for some ready nodes, no more than there are free
\* seats, but one even when the desk is full.
StartBatch(c, B) ==
    LET g == gateOf[c] IN
    /\ pc[c] = "loop" /\ sig[c] = "none"
    /\ B # {} /\ \A w \in B : pc[w] = "idle"
    /\ Cardinality(B) <= Greater(1, LiveCap - Cardinality(held[g]))
    /\ cap' = [cap EXCEPT ![g] = LiveCap]
    /\ pc' = [t \in Task |-> IF t = c THEN "await" ELSE IF t \in B THEN "wait" ELSE pc[t]]
    /\ gateOf' = [t \in Task |-> IF t \in B THEN g ELSE gateOf[t]]
    /\ UNCHANGED <<user, admin, registered, refs, held, parked, sig>>

\* Every task of the batch returned and none was cancelled.
Collect(c) ==
    /\ pc[c] = "await" /\ sig[c] = "none"
    /\ Pending(c) = {} /\ ~CrewCancelled(c)
    /\ pc' = [pc EXCEPT ![c] = "loop"]
    /\ UNCHANGED <<user, admin, registered, cap, refs, held, parked, sig, gateOf>>

\* _reap_pending: on Stop, on a cancelled child, or at a deadline the chief
\* cancels what is left of the batch and waits for it.
Reap(c) ==
    /\ pc[c] = "await"
    /\ pc' = [pc EXCEPT ![c] = "reap"]
    /\ sig' = [Signalled(Pending(c)) EXCEPT
                ![c] = IF @ = "pending" THEN "raised" ELSE @]
    /\ UNCHANGED <<user, admin, registered, cap, refs, held, parked, gateOf>>

\* When execute() leaves its loop: finished or stopped between two batches;
\* reaped; a second cancel while reaping; an exception (a checkpoint that
\* could not be written) while workers still run.
Leaving(c) ==
    \/ pc[c] = "loop"
    \/ pc[c] = "reap" /\ (Pending(c) = {} \/ sig[c] = "pending")
    \/ pc[c] = "await" /\ sig[c] = "none"

Finish(c) ==
    /\ Leaving(c)
    /\ DropSlot(c)
    /\ ReleaseDomain(c)
    /\ pc' = [pc EXCEPT ![c] = "done"]
    /\ gateOf' = [gateOf EXCEPT ![c] = NoGate]
    /\ UNCHANGED <<user, admin, cap, sig>>

-----------------------------------------------------------------------------
(* A worker or nested worker cancelled in acquire() holds nothing.  A      *)
(* chief cancelled there is outside execute()'s try: its reference stays.  *)
(* _curate_into gives its reference back.                                  *)
Abandon(t) ==
    /\ pc[t] = "wait" /\ sig[t] = "pending"
    /\ sig' = [sig EXCEPT ![t] = "raised"]
    /\ pc' = [pc EXCEPT ![t] = IF t \in Chief THEN "leaked" ELSE "done"]
    /\ gateOf' = [gateOf EXCEPT ![t] = IF t \in Chief THEN @ ELSE NoGate]
    /\ UNCHANGED <<user, admin, cap, held, parked>>
    /\ IF t \in Comms THEN ReleaseDomain(t) ELSE UNCHANGED <<refs, registered>>

\* The finally of _run_one, run_from_tool and _curate_into.
Leave(t) ==
    /\ pc[t] = "work" /\ t \notin Chief
    /\ DropSlot(t)
    /\ pc' = [pc EXCEPT ![t] = "done"]
    /\ sig' = [sig EXCEPT ![t] = IF @ = "pending" THEN "raised"
                                ELSE IF @ = "expired" THEN "none" ELSE @]
    /\ gateOf' = [gateOf EXCEPT ![t] = NoGate]
    /\ UNCHANGED <<user, admin, cap>>
    /\ IF t \in Comms THEN ReleaseDomain(t) ELSE UNCHANGED <<refs, registered>>

\* A worker's turn asks for nested workers K: it parks its seat and gathers
\* them.  Those outside Q return before they ask for a seat.
Dispatch(w, K, Q) ==
    LET g == gateOf[w] IN
    /\ pc[w] = "work" /\ sig[w] = "none"
    /\ K # {} /\ Q \subseteq K /\ \A k \in K : pc[k] = "idle"
    /\ Park(w)
    /\ pc' = [t \in Task |-> IF t = w THEN "nest" ELSE IF t \in Q THEN "wait"
                             ELSE IF t \in K THEN "done" ELSE pc[t]]
    /\ gateOf' = [t \in Task |-> IF t \in Q THEN g ELSE gateOf[t]]
    /\ UNCHANGED <<user, admin, registered, cap, refs, sig>>

\* gather() returns once all children did, or raises at the first cancelled
\* one; then unpark() takes the lease out of _parked and asks for a seat.
Gathered(w) ==
    LET cut == \E k \in Kids(w) : pc[k] = "done" /\ sig[k] = "raised" IN
    /\ pc[w] = "nest"
    /\ cut \/ \A k \in Kids(w) : ~Active(k)
    /\ parked' = [parked EXCEPT ![gateOf[w]] = @ \ {w}]
    /\ pc' = [pc EXCEPT ![w] = "unpark"]
    /\ sig' = [sig EXCEPT ![w] = IF @ = "overdue" THEN "expired"
                                ELSE IF cut \/ @ = "pending" THEN "raised" ELSE @]
    /\ UNCHANGED <<user, admin, registered, cap, refs, held, gateOf>>

\* The node's timeout (worker_timeout), once.  While the worker runs with a
\* seat it ends there, by Leave.
TimeOut(w) ==
    /\ pc[w] \in {"nest", "unpark"} /\ sig[w] \in {"none", "raised"}
    /\ sig' = [Signalled({w}) EXCEPT ![w] = "overdue"]
    /\ UNCHANGED <<user, admin, registered, cap, refs, held, parked, pc, gateOf>>

\* unpark() cancelled while it waits: the lease is dropped on both sides.
DropLease(w) ==
    /\ pc[w] = "unpark" /\ Cancelling(w)
    /\ DropSlot(w)
    /\ pc' = [pc EXCEPT ![w] = "done"]
    /\ sig' = [sig EXCEPT ![w] = IF @ = "pending" THEN "raised" ELSE "none"]
    /\ gateOf' = [gateOf EXCEPT ![w] = NoGate]
    /\ UNCHANGED <<user, admin, registered, cap, refs>>

-----------------------------------------------------------------------------
(* The runs registry of the dashboard.  A node has a row once it has a     *)
(* seat, so one that still waits for its seat cannot be stopped by itself. *)
InRuns(t) == Active(t) /\ (t \in Owner \/ pc[t] # "wait")

\* Stop on one row (handle_run_cancel), any number of times.
Stop(t) ==
    /\ InRuns(t) /\ sig[t] # "pending"
    /\ sig' = Signalled({t})
    /\ UNCHANGED <<user, admin, registered, cap, refs, held, parked, pc, gateOf>>

\* Stop on a desk: the run and all its rows at once (_cancel_run_ids).
StopDesk(c) ==
    LET rows == {c} \cup Crew(c) \cup {k \in Nested : boss[host[k]] = c} IN
    /\ InRuns(c)
    /\ sig' = Signalled({t \in rows : InRuns(t)})
    /\ UNCHANGED <<user, admin, registered, cap, refs, held, parked, pc, gateOf>>

\* What a task does by itself, everything but the user and the settings.
ChiefStep(c) ==
    \/ Open(c) \/ Admit(c) \/ Refresh(c) \/ Abandon(c)
    \/ \E B \in SUBSET Crew(c) : StartBatch(c, B)
    \/ Collect(c) \/ Reap(c) \/ Finish(c)

WorkerStep(w) ==
    \/ Admit(w) \/ Refresh(w) \/ Abandon(w) \/ Leave(w)
    \/ \E K \in SUBSET Kids(w) : \E Q \in SUBSET K : Dispatch(w, K, Q)
    \/ Gathered(w) \/ TimeOut(w) \/ DropLease(w)

NestedStep(k) == Admit(k) \/ Refresh(k) \/ Abandon(k) \/ Leave(k)
CommsStep(m)  == Open(m) \/ Admit(m) \/ Refresh(m) \/ Abandon(m) \/ Leave(m)

Next ==
    \/ ChangeSettings
    \/ \E c \in Chief : ChiefStep(c) \/ StopDesk(c)
    \/ \E w \in Worker : WorkerStep(w)
    \/ \E k \in Nested : NestedStep(k)
    \/ \E m \in Comms : CommsStep(m)
    \/ \E t \in Task : Stop(t)

Spec == Init /\ [][Next]_vars

(* Scheduling: the event loop runs every task that can go on, a sleeping   *)
(* acquire is re-tried by its poll, and a worker's model call ends.  Users *)
(* need not press Stop, chiefs need not begin a batch or meet a deadline.  *)
MustReap(c)   == Reap(c) /\ (sig[c] = "pending" \/ CrewCancelled(c))
MustFinish(c) == Finish(c) /\ (pc[c] = "reap" \/ sig[c] = "pending")

Fairness ==
    /\ \A c \in Chief : /\ WF_vars(Collect(c))
                        /\ WF_vars(MustReap(c))
                        /\ WF_vars(MustFinish(c))
    /\ \A w \in Worker : WF_vars(Gathered(w)) /\ WF_vars(DropLease(w))
    /\ \A t \in Task : /\ WF_vars(Admit(t))
                       /\ WF_vars(Abandon(t))
                       /\ WF_vars(Leave(t))

FairSpec == Spec /\ Fairness

-----------------------------------------------------------------------------
(* Properties.                                                             *)

\* Types; the cap a gate goes by is within the floor and the hard maximum
\* whatever Settings and admin policy hold.
TypeOK ==
    /\ user \in UserPrefs /\ admin \in Ceilings
    /\ registered \in Gate \cup {NoGate}
    /\ cap \in [Gate -> MinLiveSeats..Hard]
    /\ refs \in [Gate -> Nat]
    /\ held \in [Gate -> SUBSET Task]
    /\ parked \in [Gate -> SUBSET Task]
    /\ pc \in [Task -> {"idle", "wait", "loop", "await", "reap", "work", "nest",
                        "unpark", "done", "leaked"}]
    /\ sig \in [Task -> {"none", "pending", "raised", "overdue", "expired"}]
    /\ gateOf \in [Task -> Gate \cup {NoGate}]

\* A task occupies a live seat exactly while it runs with one, and a parked
\* lease exactly while it waits for the workers it dispatched; on whatever
\* path it ends (Stop, reap, a dying unpark) nothing of it stays in the gate.
NoSeatLeak ==
    \A g \in Gate, t \in Task :
        /\ t \in held[g] <=>
              gateOf[t] = g /\ pc[t] \in {"loop", "await", "reap", "work"}
        /\ t \in parked[g] <=> gateOf[t] = g /\ pc[t] = "nest"

\* Between retain() and release_domain() of any run the gate it uses is the
\* one _GATES holds: overlapping runs never count their seats on two gates.
OneGatePerDesk ==
    \A o \in Owner : Active(o) => gateOf[o] = registered

\* A gate's reference count is the number of runs that opened it and did not
\* give it back, the chiefs cancelled while they waited for a seat included:
\* a gate is forgotten only when its last run is over.
RefsCountRuns ==
    \A g \in Gate : refs[g] = Cardinality({o \in Owner : gateOf[o] = g})

\* Whoever holds a seat on a gate that _GATES forgot has lost its run: its
\* chief returned (a second Stop, a failed write) while it was still going.
OnlyOrphansElsewhere ==
    \A g \in Gate \ {registered} : \A t \in held[g] \cup parked[g] :
        \/ t \in Worker /\ ~Active(boss[t])
        \/ t \in Nested /\ ~Active(boss[host[t]])

\* No step seats a task beyond the number Settings and admin policy allow at
\* that moment, also right after the cap was lowered under live seats.
AdmitUnderCap ==
    [][\A g \in Gate : ~(held'[g] \subseteq held[g])
                         => Cardinality(held'[g]) <= LiveCap]_vars

\* Every holder of a full desk waits for tasks that themselves wait for a seat.
Starved(t) == pc[t] = "wait" \/ (pc[t] = "unpark" /\ ~Cancelling(t))
AllStarved(S) == S # {} /\ \A t \in S : Starved(t)
Nesting(w) == pc[w] = "nest" /\ AllStarved({k \in Kids(w) : Active(k)})
Stuck(t) ==
    \/ t \in Worker /\ Nesting(t)
    \/ /\ t \in Chief /\ pc[t] = "await" /\ Pending(t) # {}
       /\ \A w \in Pending(t) : Starved(w) \/ Nesting(w)
HolderWedge(g) == ~Room(g) /\ \A t \in held[g] : Stuck(t)

\* desk_admission.py: "the desk cannot deadlock when every holder is a waiter".
NoHolderWedge == \A g \in Gate : ~HolderWedge(g)

\* Whoever asks for a seat, for the first time or back from parking, gets it
\* or is cancelled.
SeatGranted ==
    \A t \in Task : pc[t] \in {"wait", "unpark"} ~> pc[t] \notin {"wait", "unpark"}

\* A stopped run ends, its workers and their parked parents included.
StopEnds == \A c \in Chief : Active(c) /\ sig[c] = "pending" ~> ~Active(c)
=============================================================================
