-------------------------- MODULE SchedulesProofs --------------------------
(***************************************************************************)
(* Types, and OncePerInterval, of Schedules, for any ids, tasks, handlers  *)
(* and bounds.                                                             *)
(***************************************************************************)
EXTENDS Schedules, TLAPS

\* A fire's run goes on only while it has targets left, and no cancel has
\* reached a fire that has not begun its run.
Uncancelled(g) ==
    /\ g.pc \in {"new", "mark", "run"} => g.cancels = 0 /\ g.left > 0
    /\ g.cancels > 0 => g.left = 0
FiresOK == \A f \in Fire : Uncancelled(fire[f])
WebOK == \A w \in Web : web[w].pc \in {"load", "save"} => web[w].op # "none"

Creation == {"create", "create and run", "move"}
Move == {"move", "rename"}
Creating(w) == web[w].op \in Creation
Moving(w) == web[w].op \in Move

\* The ids this file has held are recorded, and one being created is nobody
\* else's.
Known == \A s \in Sched : store[s].in \/ ticker.items[s].in \/ firedIn[s] # Never => s \in used
New(w) ==
    LET s == web[w].sid IN
    s \in used /\ ~store[s].in /\ ~ticker.items[s].in /\ firedIn[s] = Never
News == \A w \in Web : Creating(w) => New(w)
Apart == \A v, w \in Web : Creating(v) =>
            /\ Creating(w) /\ v # w => web[v].sid # web[w].sid
            /\ Moving(w) => web[v].sid # web[w].tmp
Movers == \A w \in Web : Moving(w) => web[w].tmp \in used

\* The last firing of a row is in its last_run_at, or a task is about to
\* write it there; no tick is under way in the second case.
Recorded(s) == store[s].in => store[s].last >= firedIn[s]
Marks(f, s) == /\ fire[f].sid = s
               /\ fire[f].pc = "new" \/ (fire[f].pc = "mark" /\ fire[f].file[s].in)
Marking(s) == ticker.pc = "rest" /\ \E f \in Fire : Marks(f, s)
Tracked == \A s \in Sched : Recorded(s) \/ Marking(s)
Listed == \A s \in Sched : ticker.items[s].in => ticker.items[s].last >= firedIn[s]
Past == \A s \in Sched : firedIn[s] <= now

Ids == Known /\ News /\ Apart /\ Movers
Whole == Ids /\ Tracked /\ Listed /\ Past /\ refired = {}
IInv == TypeOK /\ FiresOK /\ WebOK /\ (torn \/ Whole)

----------------------------------------------------------------------------
(* TypeOK by parts.                                                        *)

FirePc == {"idle", "run", "new", "set", "finset", "fin", "mark", "setting", "finsetting",
           "finishing"}
FireState == [pc : FirePc, sid : Sched, file : File, left : 0..Targets, rid : BOOLEAN,
              cancels : 0..2]
TickState == [pc : {"rest", "clear", "list", "expire", "expiring", "fire"},
              file : File, items : File]
Ops == {"none", "update", "delete", "stop", "stopped", "create", "create and run", "move",
        "rename"}
WebState == [pc : {"idle", "load", "save", "cancel"}, op : Ops, sid : Sched, tmp : Sched,
             file : File, patch : Row]
BoundsOK == global \in BOOLEAN /\ now \in 0..MaxNow /\ events \in 0..MaxEvents
HistoryOK == /\ used \subseteq Sched /\ refired \subseteq Sched
             /\ firedIn \in [Sched -> {Never} \cup 0..MaxNow]
StoreOK == store \in File /\ torn \in BOOLEAN
TasksOK == ticker \in TickState /\ fire \in [Fire -> FireState] /\ web \in [Web -> WebState]

\* The job that each waiting fire goes on to.
LEMMA Jobs ==
    /\ DOMAIN JobOf = {"new", "set", "finset", "fin"}
    /\ JobOf["new"] = "mark" /\ JobOf["set"] = "setting"
    /\ JobOf["finset"] = "finsetting" /\ JobOf["fin"] = "finishing"
  BY DEF JobOf

\* TypeOK says that every part is well formed.
LEMMA TypeParts == TypeOK <=> StoreOK /\ TasksOK /\ BoundsOK /\ HistoryOK
  <1>1. {"idle", "run"} \cup DOMAIN JobOf \cup {JobOf[j] : j \in DOMAIN JobOf} = FirePc
    BY Jobs DEF FirePc
  <1>2. TypeOK <=>
          /\ store \in File /\ torn \in BOOLEAN
          /\ ticker \in TickState
          /\ fire \in [Fire -> FireState]
          /\ web \in [Web -> WebState]
          /\ BoundsOK /\ HistoryOK
    BY <1>1, Zenon DEF TypeOK, FireState, TickState, WebState, Ops, BoundsOK, HistoryOK
  <1> QED BY <1>2 DEF StoreOK, TasksOK

\* The rows and files the actions write.
LEMMA Written ==
    /\ Gone \in Row /\ NoFile \in File /\ AnySched \in Sched
    /\ \A e \in BOOLEAN : NewRow(e) \in Row
    /\ IdleTicker \in TickState /\ IdleFire \in FireState /\ IdleWeb \in WebState
  <1>1. Gone \in Row
    BY SchedAssumption DEF Gone, Row, NoWindow, Never
  <1>2. NoFile \in File
    BY <1>1 DEF NoFile, File
  <1>3. AnySched \in Sched
    BY SchedAssumption DEF AnySched
  <1>4. ASSUME NEW e \in BOOLEAN PROVE NewRow(e) \in Row
    BY <1>1 DEF NewRow, Row
  <1>5. IdleTicker \in TickState /\ IdleFire \in FireState /\ IdleWeb \in WebState
    BY <1>1, <1>2, <1>3, SchedAssumption
       DEF IdleTicker, IdleFire, IdleWeb, TickState, FireState, FirePc, WebState, Ops
  <1> QED BY <1>1, <1>2, <1>3, <1>4, <1>5

LEMMA FileWrites ==
    ASSUME NEW f \in File, NEW s \in Sched, NEW row \in Row, BoundsOK
    PROVE  /\ Change(f, s, row) \in File
           /\ Started(f, s) \in File
           /\ \A rid \in {"none", "pending", "ended"} : Running(f, s, rid) \in File
           /\ StaleCleared(f) \in File /\ WindowsExpired(f) \in File
  <1>1. ASSUME NEW r \in Row PROVE Change(f, s, r) \in File
    BY DEF Change, File
  <1>2. f[s] \in Row
    BY DEF File
  <1>3. [f[s] EXCEPT !.last = now, !.running = "pending"] \in Row
    BY <1>2 DEF Row, BoundsOK
  <1>4. \A rid \in {"none", "pending", "ended"} : [f[s] EXCEPT !.running = rid] \in Row
    BY <1>2 DEF Row
  <1>5. StaleCleared(f) \in File
    BY DEF StaleCleared, File, Row
  <1>6. WindowsExpired(f) \in File
    BY DEF WindowsExpired, File, Row
  <1> QED BY <1>1, <1>3, <1>4, <1>5, <1>6 DEF Started, Running

LEMMA SaveTypes ==
    ASSUME StoreOK, NEW old \in File, NEW new \in File, NEW found \in BOOLEAN,
           Save(old, new, found)
    PROVE  StoreOK'
  BY DEF Save, StoreOK

LEMMA MadeType ==
    ASSUME NEW v \in WebState, BoundsOK, v.op # "none"
    PROVE  Made(v) \in File
  <1> DEFINE f == v.file
             r == f[v.sid]
  <1>1. f \in File /\ v.sid \in Sched /\ v.tmp \in Sched /\ v.patch \in Row
    BY DEF WebState
  <1>2. r \in Row
    BY <1>1 DEF File
  <1>3. [r EXCEPT !.enabled = v.patch.enabled] \in Row /\ [r EXCEPT !.until = v.patch.until] \in Row
        /\ [r EXCEPT !.enabled = FALSE] \in Row
    BY <1>1, <1>2 DEF Row
  <1>4. CASE v.op \in {"update", "delete", "stop"}
    BY <1>1, <1>3, <1>4, FileWrites, Written DEF Made
  <1>5. CASE v.op = "stopped"
    BY <1>1, <1>5, FileWrites, Written DEF Made
  <1>6. CASE v.op \in {"create", "create and run", "move"}
    BY <1>1, <1>6 DEF Made, File
  <1>7. CASE v.op = "rename"
    BY <1>1, <1>2, <1>7, Written DEF Made, File
  <1> QED BY <1>4, <1>5, <1>6, <1>7 DEF WebState, Ops

----------------------------------------------------------------------------
(* Every action keeps the types.                                           *)

TInv == TypeOK /\ FiresOK /\ WebOK

\* A task that only one fire has moved.
LEMMA OneFire ==
    ASSUME TInv, NEW f \in Fire, NEW g \in FireState, Uncancelled(g), Becomes(f, g)
    PROVE  fire' \in [Fire -> FireState] /\ FiresOK'
  <1>1. fire \in [Fire -> FireState] /\ FiresOK
    BY TypeParts DEF TInv, TasksOK
  <1> QED BY <1>1 DEF Becomes, FiresOK

LEMMA SpawnedType ==
    ASSUME BoundsOK, NEW s \in Sched
    PROVE  Spawned(s) \in FireState /\ Uncancelled(Spawned(s)) /\ Spawned(s).pc = "new"
           /\ Spawned(s).sid = s
  <1> DEFINE n == IF global THEN Targets ELSE 1
  <1>1. n \in 0..Targets /\ n > 0
    BY SchedAssumption
  <1>2. Spawned(s) = [IdleFire EXCEPT !.pc = "new", !.sid = s, !.left = n]
    BY DEF Spawned
  <1> HIDE DEF n
  <1>3. [IdleFire EXCEPT !.pc = "new", !.sid = s, !.left = n] \in FireState
    BY <1>1, Written DEF FireState, FirePc
  <1> QED BY <1>1, <1>2, <1>3 DEF IdleFire, Uncancelled

\* A fire with a target left goes on with its run, and any other ends it.
LEMMA UnfinishedType ==
    ASSUME NEW g
    PROVE  /\ Unfinished(g) \in {"run", "finset", "fin"}
           /\ Unfinished(g) = "run" => g.left > 0
           /\ ~(g.left > 0) => Unfinished(g) \in {"finset", "fin"}
  BY DEF Unfinished

LEMMA CancelledType ==
    ASSUME NEW g \in FireState, Uncancelled(g), Cancellable(g)
    PROVE  Cancelled(g) \in FireState /\ Uncancelled(Cancelled(g))
  <1> DEFINE u == Unfinished([g EXCEPT !.left = 0])
             n == IF g.pc = "run" THEN u ELSE g.pc
             c == g.cancels + 1
  <1>1. u \in {"finset", "fin"}
    <2>1. [g EXCEPT !.left = 0].left = 0
      BY DEF FireState
    <2>2. ~([g EXCEPT !.left = 0].left > 0)
      BY <2>1
    <2> HIDE DEF u
    <2>3. \A h : ~(h.left > 0) => Unfinished(h) \in {"finset", "fin"}
      BY UnfinishedType
    <2> QED BY <2>2, <2>3 DEF u
  <1>2. c \in 1..2 /\ n \in FirePc \ {"new", "mark", "run"}
    BY <1>1 DEF Cancellable, Uncancelled, FireState, FirePc
  <1>3. Cancelled(g) = [g EXCEPT !.cancels = c, !.left = 0, !.pc = n]
    BY DEF Cancelled
  <1> HIDE DEF n, c, u
  <1>4. [g EXCEPT !.cancels = c, !.left = 0, !.pc = n] \in FireState
    <2>1. 0 \in 0..Targets /\ c \in 0..2 /\ n \in FirePc
      BY <1>2, SchedAssumption
    <2> QED BY <2>1 DEF FireState
  <1>5. Uncancelled([g EXCEPT !.cancels = c, !.left = 0, !.pc = n])
    BY <1>2 DEF FireState, Uncancelled
  <1> QED BY <1>3, <1>4, <1>5

LEMMA FireTypes ==
    ASSUME TInv, NEW f \in Fire, FireSteps(f) \/ FireStopped(f)
    PROVE  TInv'
  <1> DEFINE g == fire[f]
  <1>1. StoreOK /\ TasksOK /\ BoundsOK /\ HistoryOK /\ FiresOK /\ WebOK
    BY TypeParts DEF TInv
  <1>2. g \in FireState /\ Uncancelled(g)
    BY <1>1 DEF TasksOK, FiresOK
  <1>3. g.file \in File /\ g.sid \in Sched /\ g.file[g.sid].in \in BOOLEAN
    BY <1>2 DEF FireState, File, Row
  <1>4. /\ g.pc \in {"new", "set", "finset", "fin"} => JobOf[g.pc] \in FirePc \ {"run", "new", "idle"}
        /\ g.pc # "new" => JobOf[g.pc] # "mark" \/ g.pc \notin {"set", "finset", "fin"}
    BY Jobs DEF FirePc
  <1>5. UNCHANGED <<ticker, web, bounds, hist>>
    BY DEF FireSteps, FireLoad, FireMarked, FireReturned, FireSet, FireFinished, FireStopped
  <1>6. /\ StoreOK'
        /\ \E h \in FireState : Uncancelled(h) /\ Becomes(f, h)
    <2>1. CASE FireLoad(f)
      <3> DEFINE h == [g EXCEPT !.pc = JobOf[@], !.file = store]
      <3>1. h \in FireState
        BY <1>1, <1>2, <1>4, <2>1, Jobs DEF FireLoad, FireState, StoreOK
      <3>2. Uncancelled(h)
        BY <1>2, <1>4, <2>1, Jobs DEF FireLoad, Uncancelled, FireState, FirePc
      <3> QED BY <1>1, <2>1, <3>1, <3>2 DEF FireLoad, StoreOK
    <2>2. CASE FireMarked(f)
      <3> DEFINE h == [g EXCEPT !.pc = "run", !.file = NoFile]
      <3>1. h \in FireState /\ Uncancelled(h)
        BY <1>2, <2>2, Written DEF FireMarked, FireState, FirePc, Uncancelled
      <3>2. StoreOK'
        BY <1>1, <1>3, <2>2, FileWrites, SaveTypes, Written DEF FireMarked, SaveRow
      <3> QED BY <2>2, <3>1, <3>2 DEF FireMarked
    <2>3. CASE FireReturned(f)
      <3> DEFINE h == [g EXCEPT !.left = @ - 1]
      <3>1. g.left \in 1..Targets /\ g.cancels = 0 /\ g.pc = "run"
        BY <1>2, <2>3, SchedAssumption DEF FireReturned, Uncancelled, FireState
      <3>2. h \in FireState
        BY <1>2, <3>1, SchedAssumption DEF FireState
      <3>3. h.cancels = 0
        BY <1>2, <3>1 DEF FireState
      <3> HIDE DEF g, h
      <3>4. [h EXCEPT !.pc = "set", !.rid = TRUE] \in FireState
            /\ Uncancelled([h EXCEPT !.pc = "set", !.rid = TRUE])
        <4>1. [h EXCEPT !.pc = "set", !.rid = TRUE] \in FireState
          BY <3>2 DEF FireState, FirePc
        <4>2. Uncancelled([h EXCEPT !.pc = "set", !.rid = TRUE])
          BY <3>2, <3>3 DEF FireState, Uncancelled
        <4> QED BY <4>1, <4>2
      <3>5. [h EXCEPT !.pc = Unfinished(h)] \in FireState
            /\ Uncancelled([h EXCEPT !.pc = Unfinished(h)])
        BY <3>2, <3>3, UnfinishedType DEF FireState, FirePc, Uncancelled
      <3> QED BY <1>1, <2>3, <3>4, <3>5 DEF FireReturned, StoreOK, g, h
    <2>4. CASE FireSet(f)
      <3> DEFINE h == [g EXCEPT !.file = NoFile,
                                !.pc = IF @ = "setting" THEN Unfinished(g) ELSE "fin"]
      <3>1. h \in FireState /\ Uncancelled(h)
        <4> DEFINE n == IF g.pc = "setting" THEN Unfinished(g) ELSE "fin"
        <4>1. n \in {"run", "finset", "fin"} /\ (n = "run" => g.left > 0)
          BY UnfinishedType
        <4>2. h = [g EXCEPT !.file = NoFile, !.pc = n]
          OBVIOUS
        <4> HIDE DEF n, h, g
        <4>3. h \in FireState
          BY <1>2, <4>1, <4>2, Written DEF FireState, FirePc
        <4>4. h.pc = n /\ h.cancels = g.cancels /\ h.left = g.left
          BY <1>2, <4>2 DEF FireState
        <4>5. g.cancels \in 0..2 /\ g.left \in Nat
          BY <1>2, SchedAssumption DEF FireState
        <4> QED BY <1>2, <4>1, <4>3, <4>4, <4>5 DEF Uncancelled
      <3>2. StoreOK'
        BY <1>1, <1>3, <2>4, FileWrites, SaveTypes, Written DEF FireSet, SaveRow
      <3>3. Uncancelled(IdleFire)
        BY DEF IdleFire, Uncancelled
      <3> QED BY <2>4, <3>1, <3>2, <3>3, Written DEF FireSet
    <2>5. CASE FireFinished(f)
      <3>1. StoreOK'
        BY <1>1, <1>3, <2>5, FileWrites, SaveTypes, Written DEF FireFinished, SaveRow
      <3>2. Uncancelled(IdleFire)
        BY DEF IdleFire, Uncancelled
      <3> QED BY <2>5, <3>1, <3>2, Written DEF FireFinished
    <2>6. CASE FireStopped(f)
      BY <1>1, <1>2, <2>6, CancelledType DEF FireStopped, StoreOK
    <2> QED BY <2>1, <2>2, <2>3, <2>4, <2>5, <2>6 DEF FireSteps
  <1>7. fire' \in [Fire -> FireState] /\ FiresOK'
    BY <1>6, OneFire
  <1>8. TasksOK' /\ BoundsOK' /\ HistoryOK' /\ WebOK'
    BY <1>1, <1>5, <1>7 DEF TasksOK, BoundsOK, HistoryOK, WebOK, bounds, hist
  <1>9. TypeOK'
    <2>1. (StoreOK /\ TasksOK /\ BoundsOK /\ HistoryOK)' => TypeOK'
      BY TypeParts, PTL
    <2> QED BY <1>6, <1>8, <2>1
  <1> QED BY <1>7, <1>8, <1>9 DEF TInv

LEMMA TickerTypes ==
    ASSUME TInv, TickerSteps
    PROVE  TInv'
  <1>1. StoreOK /\ TasksOK /\ BoundsOK /\ HistoryOK /\ FiresOK /\ WebOK
    BY TypeParts DEF TInv
  <1>2. ticker.file \in File /\ ticker.items \in File /\ ticker \in TickState
    BY <1>1 DEF TasksOK, TickState
  <1>3. StaleCleared(ticker.file) \in File /\ WindowsExpired(ticker.file) \in File
    BY <1>1, <1>2, FileWrites, Written
  <1>4. (StoreOK /\ TasksOK /\ BoundsOK /\ HistoryOK)' => TypeOK'
    BY TypeParts, PTL
  <1>5. CASE ~TickFired
    <2>1. UNCHANGED <<fire, web, bounds, hist>>
      BY <1>5 DEF TickerSteps, TickClearLoad, TickCleared, TickListed, TickExpireLoad, TickExpired
    <2>2. StoreOK' /\ ticker' \in TickState
      <3>1. CASE TickClearLoad
        BY <1>1, <1>2, <3>1 DEF TickClearLoad, StoreOK, TickState
      <3>2. CASE TickCleared
        BY <1>1, <1>2, <1>3, <3>2, SaveTypes, Written DEF TickCleared, SaveChanged, TickState
      <3>3. CASE TickListed
        BY <1>1, <1>2, <3>3 DEF TickListed, StoreOK, TickState
      <3>4. CASE TickExpireLoad
        BY <1>1, <1>2, <3>4 DEF TickExpireLoad, StoreOK, TickState
      <3>5. CASE TickExpired
        BY <1>1, <1>2, <1>3, <3>5, SaveTypes, Written DEF TickExpired, SaveChanged, TickState
      <3> QED BY <1>5, <3>1, <3>2, <3>3, <3>4, <3>5 DEF TickerSteps
    <2> QED BY <1>1, <1>4, <2>1, <2>2 DEF TInv, TasksOK, BoundsOK, HistoryOK, FiresOK, WebOK, bounds, hist
  <1>6. CASE TickFired
    <2>0. PICK fired \in SUBSET Sched : \E to \in [fired -> Free] :
             /\ fire' = [f \in Fire |-> IF \E s \in fired : to[s] = f
                                        THEN Spawned(CHOOSE s \in fired : to[s] = f)
                                        ELSE fire[f]]
             /\ firedIn' = [s \in Sched |-> IF s \in fired THEN now ELSE firedIn[s]]
             /\ refired' = refired \cup {s \in fired : firedIn[s] = now}
      BY <1>6 DEF TickFired
    <2>1. PICK to \in [fired -> Free] :
             /\ fire' = [f \in Fire |-> IF \E s \in fired : to[s] = f
                                        THEN Spawned(CHOOSE s \in fired : to[s] = f)
                                        ELSE fire[f]]
             /\ firedIn' = [s \in Sched |-> IF s \in fired THEN now ELSE firedIn[s]]
             /\ refired' = refired \cup {s \in fired : firedIn[s] = now}
      BY <2>0
    <2>2. ASSUME NEW f \in Fire PROVE fire'[f] \in FireState /\ Uncancelled(fire'[f])
      <3>1. CASE \E s \in fired : to[s] = f
        <4>1. (CHOOSE s \in fired : to[s] = f) \in Sched
          BY <3>1
        <4> QED BY <1>1, <2>1, <3>1, <4>1, SpawnedType
      <3>2. CASE ~\E s \in fired : to[s] = f
        BY <1>1, <2>1, <3>2 DEF TasksOK, FiresOK
      <3> QED BY <3>1, <3>2
    <2>3. HistoryOK'
      BY <1>1, <1>6, <2>1 DEF HistoryOK, BoundsOK, TickFired
    <2>4. TasksOK' /\ FiresOK'
      BY <1>1, <1>6, <2>1, <2>2, Written DEF TasksOK, FiresOK, TickFired
    <2>5. StoreOK' /\ BoundsOK' /\ WebOK'
      BY <1>1, <1>6 DEF TickFired, StoreOK, BoundsOK, WebOK, bounds
    <2> QED BY <1>4, <2>3, <2>4, <2>5 DEF TInv
  <1> QED BY <1>5, <1>6

\* The handler that starts with the value v.
LEMMA BeginTypes ==
    ASSUME TInv, NEW w \in Web, NEW v \in WebState, Begins(w, v), v.op # "none",
           used' \in SUBSET Sched, UNCHANGED <<firedIn, refired>>
    PROVE  TInv'
  <1>1. StoreOK /\ TasksOK /\ BoundsOK /\ HistoryOK /\ FiresOK /\ WebOK
    BY TypeParts DEF TInv
  <1>2. (StoreOK /\ TasksOK /\ BoundsOK /\ HistoryOK)' => TypeOK'
    BY TypeParts, PTL
  <1>3. TasksOK' /\ WebOK'
    BY <1>1 DEF Begins, TasksOK, WebOK
  <1>4. StoreOK' /\ BoundsOK' /\ FiresOK' /\ HistoryOK'
    BY <1>1, SchedAssumption DEF Begins, StoreOK, BoundsOK, FiresOK, HistoryOK
  <1> QED BY <1>2, <1>3, <1>4 DEF TInv

LEMMA HandlesType ==
    ASSUME NEW op \in Ops, NEW s \in Sched
    PROVE  Handles(op, s) \in WebState /\ Handles(op, s).op = op /\ Handles(op, s).sid = s
  <1>1. IdleWeb \in WebState
    BY Written
  <1>2. Handles(op, s) = [IdleWeb EXCEPT !.pc = "load", !.op = op, !.sid = s]
    BY DEF Handles
  <1> QED BY <1>1, <1>2 DEF WebState

LEMMA RequestTypes ==
    ASSUME TInv, NEW w \in Web, Requests(w)
    PROVE  TInv'
  <1>1. StoreOK /\ TasksOK /\ BoundsOK /\ HistoryOK /\ FiresOK /\ WebOK
    BY TypeParts DEF TInv
  <1>2. (StoreOK /\ TasksOK /\ BoundsOK /\ HistoryOK)' => TypeOK'
    BY TypeParts, PTL
  <1>3. PICK s \in Sched : WebUpdate(w, s) \/ WebDelete(w, s) \/ WebStop(w, s) \/ WebCreate(w, s)
                              \/ WebRun(w, s) \/ \E t \in Sched : WebMoveIn(w, s, t)
    BY DEF Requests
  <1>4. CASE WebUpdate(w, s)
    <2>1. PICK p \in {NewRow(TRUE), NewRow(FALSE), [Gone EXCEPT !.until = now]} :
             Begins(w, [Handles("update", s) EXCEPT !.patch = p])
      BY <1>4 DEF WebUpdate
    <2>2. p \in Row
      <3>1. [Gone EXCEPT !.until = now] \in Row
        BY <1>1, Written, SchedAssumption DEF Row, BoundsOK, NoWindow
      <3> QED BY <2>1, <3>1, Written
    <2>3. [Handles("update", s) EXCEPT !.patch = p] \in WebState
          /\ [Handles("update", s) EXCEPT !.patch = p].op = "update"
      <3>1. Handles("update", s) \in WebState /\ Handles("update", s).op = "update"
        <4>1. "update" \in Ops
          BY DEF Ops
        <4> QED BY <4>1, HandlesType
      <3> QED BY <2>2, <3>1 DEF WebState
    <2>4. used' \in SUBSET Sched /\ UNCHANGED <<firedIn, refired>>
      BY <1>1, <1>4 DEF WebUpdate, hist, HistoryOK
    <2> QED BY <2>1, <2>3, <2>4, BeginTypes
  <1>5. CASE WebDelete(w, s) \/ WebStop(w, s)
    <2>1. \E op \in {"delete", "stop"} : Begins(w, Handles(op, s))
      BY <1>5 DEF WebDelete, WebStop
    <2>2. used' \in SUBSET Sched /\ UNCHANGED <<firedIn, refired>>
      BY <1>1, <1>5 DEF WebDelete, WebStop, hist, HistoryOK
    <2>3. \A op \in {"delete", "stop"} : Handles(op, s) \in WebState /\ Handles(op, s).op # "none"
      BY HandlesType DEF Ops
    <2> QED BY <2>1, <2>2, <2>3, BeginTypes
  <1>6. CASE WebCreate(w, s)
    <2>1. PICK e \in BOOLEAN, op \in {"create", "create and run"} :
             Begins(w, [Handles(op, s) EXCEPT !.patch = NewRow(e)])
      BY <1>6 DEF WebCreate
    <2>2. Handles(op, s) \in WebState /\ Handles(op, s).op = op /\ NewRow(e) \in Row
      <3>1. op \in Ops
        BY DEF Ops
      <3> QED BY <3>1, HandlesType, Written
    <2>3. [Handles(op, s) EXCEPT !.patch = NewRow(e)] \in WebState
          /\ [Handles(op, s) EXCEPT !.patch = NewRow(e)].op # "none"
      BY <2>2 DEF WebState
    <2>4. used' \in SUBSET Sched /\ UNCHANGED <<firedIn, refired>>
      BY <1>1, <1>6 DEF WebCreate, HistoryOK
    <2> QED BY <2>1, <2>3, <2>4, BeginTypes
  <1>7. ASSUME NEW t \in Sched, WebMoveIn(w, s, t) PROVE TInv'
    <2> DEFINE v == [Handles("move", t) EXCEPT !.tmp = s, !.patch = NewRow(TRUE)]
    <2>1. Begins(w, v)
      BY <1>7 DEF WebMoveIn
    <2>2. Handles("move", t) \in WebState /\ Handles("move", t).op = "move" /\ NewRow(TRUE) \in Row
      <3>1. "move" \in Ops
        BY DEF Ops
      <3> QED BY <3>1, HandlesType, Written
    <2>3. v \in WebState /\ v.op # "none"
      BY <2>2 DEF WebState
    <2>4. used' \in SUBSET Sched /\ UNCHANGED <<firedIn, refired>>
      BY <1>1, <1>7 DEF WebMoveIn, HistoryOK
    <2> QED BY <2>1, <2>3, <2>4, BeginTypes
  <1>8. CASE WebRun(w, s)
    <2>1. PICK f \in Fire : Becomes(f, Spawned(s))
      BY <1>8 DEF WebRun, Free
    <2>2. fire' \in [Fire -> FireState] /\ FiresOK'
      BY <1>1, <2>1, SpawnedType, OneFire
    <2>3. TasksOK' /\ StoreOK' /\ BoundsOK' /\ HistoryOK' /\ WebOK'
      BY <1>1, <1>8, <2>2, SchedAssumption
         DEF WebRun, TasksOK, StoreOK, BoundsOK, HistoryOK, WebOK, hist
    <2> QED BY <1>2, <2>2, <2>3 DEF TInv
  <1> QED BY <1>3, <1>4, <1>5, <1>6, <1>7, <1>8

LEMMA WebTypes ==
    ASSUME TInv, NEW w \in Web, WebSteps(w)
    PROVE  TInv'
  <1> DEFINE v == web[w]
  <1>1. StoreOK /\ TasksOK /\ BoundsOK /\ HistoryOK /\ FiresOK /\ WebOK
    BY TypeParts DEF TInv
  <1>2. (StoreOK /\ TasksOK /\ BoundsOK /\ HistoryOK)' => TypeOK'
    BY TypeParts, PTL
  <1>3. v \in WebState
    BY <1>1 DEF TasksOK
  <1>4. CASE WebLoad(w)
    <2>1. v.op # "none"
      BY <1>1, <1>4 DEF WebLoad, WebOK
    <2>2. web' \in [Web -> WebState] /\ WebOK'
      BY <1>1, <1>3, <1>4, <2>1 DEF WebLoad, TasksOK, StoreOK, WebOK, WebState
    <2> QED BY <1>1, <1>2, <1>4, <2>2
            DEF WebLoad, TInv, TasksOK, StoreOK, BoundsOK, HistoryOK, FiresOK, bounds, hist
  <1>5. CASE WebCancels(w)
    <2>1. web' \in [Web -> WebState] /\ WebOK'
      BY <1>1, <1>3, <1>5 DEF WebCancels, TasksOK, WebOK, WebState, Ops
    <2>2. ASSUME NEW f \in Fire PROVE fire'[f] \in FireState /\ Uncancelled(fire'[f])
      BY <1>1, <1>5, CancelledType DEF WebCancels, TasksOK, FiresOK
    <2>3. fire' \in [Fire -> FireState] /\ FiresOK'
      BY <1>5, <2>2 DEF WebCancels, FiresOK
    <2> QED BY <1>1, <1>2, <1>5, <2>1, <2>3
            DEF WebCancels, TInv, TasksOK, StoreOK, BoundsOK, HistoryOK, bounds, hist
  <1>6. CASE WebSaved(w)
    <2>1. v.op # "none" /\ v.pc = "save"
      BY <1>1, <1>6 DEF WebSaved, WebOK
    <2>2. Made(v) \in File /\ v.file \in File /\ v.sid \in Sched /\ v.tmp \in Sched
      BY <1>1, <1>3, <2>1, MadeType DEF WebState
    <2>3. v.file[v.sid].in \in BOOLEAN
      BY <2>2 DEF File, Row
    <2>4. StoreOK'
      BY <1>1, <1>6, <2>2, <2>3, SaveTypes DEF WebSaved
    <2>5. web' \in [Web -> WebState] /\ WebOK'
      <3>1. /\ [v EXCEPT !.pc = "cancel", !.file = NoFile] \in WebState
            /\ [v EXCEPT !.pc = "cancel", !.file = NoFile].pc = "cancel"
        BY <1>3, Written DEF WebState
      <3>2. /\ [v EXCEPT !.pc = "load", !.op = "rename", !.file = NoFile] \in WebState
            /\ [v EXCEPT !.pc = "load", !.op = "rename", !.file = NoFile].op = "rename"
        BY <1>3, Written DEF WebState, Ops
      <3>3. IdleWeb \in WebState /\ IdleWeb.pc = "idle"
        BY Written DEF IdleWeb
      <3>4. PICK x \in WebState : /\ web' = [web EXCEPT ![w] = x]
                                  /\ x.pc \in {"load", "save"} => x.op # "none"
        <4>1. CASE v.op = "stop"
          BY <1>6, <3>1, <4>1 DEF WebSaved
        <4>2. CASE v.op = "move"
          BY <1>6, <3>2, <4>2 DEF WebSaved
        <4>3. CASE v.op \notin {"stop", "move"}
          BY <1>6, <3>3, <4>3 DEF WebSaved
        <4> QED BY <4>1, <4>2, <4>3
      <3> QED BY <1>1, <3>4 DEF TasksOK, WebOK
    <2>6. fire' \in [Fire -> FireState] /\ FiresOK'
      <3>1. CASE v.op = "create and run"
        <4>1. PICK f \in Fire : Becomes(f, Spawned(v.sid))
          BY <1>6, <3>1 DEF WebSaved, Free
        <4> QED BY <1>1, <2>2, <4>1, SpawnedType, OneFire
      <3>2. CASE v.op # "create and run"
        BY <1>1, <1>6, <3>2 DEF WebSaved, TasksOK, FiresOK
      <3> QED BY <3>1, <3>2
    <2>7. HistoryOK'
      BY <1>1, <1>6, <2>2 DEF WebSaved, HistoryOK
    <2> QED BY <1>1, <1>2, <1>6, <2>4, <2>5, <2>6, <2>7
            DEF WebSaved, TInv, TasksOK, BoundsOK, bounds
  <1> QED BY <1>4, <1>5, <1>6 DEF WebSteps

LEMMA RestartTypes ==
    ASSUME TInv, DaemonRestarts
    PROVE  TInv'
  <1>1. StoreOK /\ TasksOK /\ BoundsOK /\ HistoryOK /\ FiresOK /\ WebOK
    BY TypeParts DEF TInv
  <1>2. (StoreOK /\ TasksOK /\ BoundsOK /\ HistoryOK)' => TypeOK'
    BY TypeParts, PTL
  <1>3. TasksOK'
    BY Written DEF DaemonRestarts, TasksOK
  <1>4. FiresOK' /\ WebOK'
    BY DEF DaemonRestarts, FiresOK, WebOK, IdleFire, IdleWeb, Uncancelled
  <1>5. StoreOK' /\ BoundsOK' /\ HistoryOK'
    BY <1>1, SchedAssumption DEF DaemonRestarts, StoreOK, BoundsOK, HistoryOK
  <1> QED BY <1>2, <1>3, <1>4, <1>5 DEF TInv

LEMMA IntervalTypes ==
    ASSUME TInv, IntervalPasses \/ UNCHANGED vars
    PROVE  TInv'
  <1>1. StoreOK /\ TasksOK /\ BoundsOK /\ HistoryOK /\ FiresOK /\ WebOK
    BY TypeParts DEF TInv
  <1>2. (StoreOK /\ TasksOK /\ BoundsOK /\ HistoryOK)' => TypeOK'
    BY TypeParts, PTL
  <1>3. (StoreOK /\ TasksOK /\ BoundsOK /\ HistoryOK /\ FiresOK /\ WebOK)'
    BY <1>1, SchedAssumption
       DEF IntervalPasses, vars, bounds, hist, StoreOK, TasksOK, BoundsOK, HistoryOK, FiresOK, WebOK
  <1> QED BY <1>2, <1>3 DEF TInv

LEMMA InitTypes == Init => TInv
  <1> SUFFICES ASSUME Init PROVE TInv
    OBVIOUS
  <1>1. store \in File
    BY Written DEF Init, File
  <1>2. HistoryOK /\ BoundsOK
    BY SchedAssumption DEF Init, HistoryOK, BoundsOK
  <1>3. TasksOK /\ FiresOK /\ WebOK
    BY Written DEF Init, TasksOK, FiresOK, WebOK, IdleFire, IdleWeb, Uncancelled
  <1> QED BY <1>1, <1>2, <1>3, TypeParts DEF TInv, StoreOK, Init

LEMMA TypesKept ==
    ASSUME TInv, [Next]_vars
    PROVE  TInv'
  <1>1. CASE Next
    BY <1>1, FireTypes, TickerTypes, RequestTypes, WebTypes, RestartTypes, IntervalTypes DEF Next
  <1> QED BY <1>1, IntervalTypes

\* The file, what each process holds of it, and the histories are well formed
\* in every state (TypeOK), for any ids, fires, handlers and bounds.
THEOREM TypeCorrect == Spec => []TypeOK
  <1>1. TInv => TypeOK
    BY DEF TInv
  <1> QED BY <1>1, InitTypes, TypesKept, PTL DEF Spec

----------------------------------------------------------------------------
(* While no save has torn the file, a save wrote what it made of the very  *)
(* file it overwrote.                                                      *)

LEMMA Untorn ==
    ASSUME StoreOK, NEW old, NEW new, NEW found \in BOOLEAN, Save(old, new, found), ~torn'
    PROVE  /\ ~torn
           /\ \/ found /\ store = old /\ store' = new
              \/ ~found /\ store' = store
  BY DEF Save, StoreOK

\* A file that adds no row and moves no last_run_at.
Gentle(old, new) == \A q \in Sched : new[q].in => old[q].in /\ new[q].last = old[q].last

LEMMA GentleWrites ==
    ASSUME NEW f \in File, NEW s \in Sched
    PROVE  /\ \A rid \in {"none", "pending", "ended"} : Gentle(f, Running(f, s, rid))
           /\ Gentle(f, StaleCleared(f)) /\ Gentle(f, WindowsExpired(f)) /\ Gentle(f, f)
  <1>1. \A q \in Sched : f[q] \in Row
    BY DEF File
  <1>2. Gentle(f, StaleCleared(f))
    BY <1>1 DEF Gentle, StaleCleared, Row
  <1>3. Gentle(f, WindowsExpired(f))
    BY <1>1 DEF Gentle, WindowsExpired, Row
  <1>4. ASSUME NEW rid \in {"none", "pending", "ended"} PROVE Gentle(f, Running(f, s, rid))
    BY <1>1 DEF Gentle, Running, Change, File, Row
  <1> QED BY <1>2, <1>3, <1>4 DEF Gentle

\* What a row's last firing rests on stays, unless the firing is forgotten.
LEMMA TrackedKept ==
    ASSUME TInv, TInv', Tracked,
           \A s \in Sched :
              \/ firedIn'[s] = Never
              \/ /\ firedIn'[s] = firedIn[s]
                 /\ store'[s].in => store[s].in /\ store'[s].last = store[s].last
                 /\ Marking(s) => Marking(s)' \/ Recorded(s)'
    PROVE  Tracked'
  <1> SUFFICES ASSUME NEW s \in Sched PROVE Recorded(s)' \/ Marking(s)'
    BY DEF Tracked
  <1>1. CASE firedIn'[s] = Never
    <2>1. store'[s].last \in {Never} \cup 0..MaxNow
      BY TypeParts DEF TInv, TypeOK, File, Row
    <2> QED BY <1>1, <2>1 DEF Recorded, Never
  <1>2. CASE firedIn'[s] # Never
    BY <1>2 DEF Tracked, Recorded
  <1> QED BY <1>1, <1>2

\* The fires that have yet to mark their row stay as they are.
Waiting(f) == fire[f].pc \in {"new", "mark"}
LEMMA MarkingKept ==
    ASSUME \A f \in Fire : Waiting(f) => fire'[f] = fire[f], ticker'.pc = ticker.pc,
           NEW s \in Sched, Marking(s)
    PROVE  Marking(s)'
  BY DEF Marking, Marks, Waiting

\* A step in which no handler starts to create a row.
LEMMA Quiet ==
    ASSUME TInv, TInv', Whole, Tracked', Listed',
           \A s \in Sched : store'[s].in =>
              store[s].in \/ (s \in used /\ \A v \in Web : web'[v].op \in Creation => web'[v].sid # s),
           \A s \in Sched : ticker'.items[s].in => ticker.items[s].in \/ store[s].in,
           \A v \in Web :
              /\ web'[v].op \in Creation => web[v].op \in Creation /\ web'[v].sid = web[v].sid
              /\ web'[v].op \in Move => web[v].op \in Move /\ web'[v].tmp = web[v].tmp,
           \A s \in Sched : firedIn'[s] \in {firedIn[s], Never},
           UNCHANGED <<used, refired>>, now' >= now
    PROVE  Whole'
  <1>1. firedIn \in [Sched -> {Never} \cup 0..MaxNow] /\ now \in Nat /\ now' \in Nat
    <2>1. BoundsOK /\ HistoryOK
      BY TypeParts DEF TInv
    <2>2. BoundsOK'
      BY TypeParts, PTL DEF TInv
    <2> QED BY <2>1, <2>2 DEF BoundsOK, HistoryOK
  <1>2. \A w \in Web : web[w].sid \in Sched
    BY TypeParts DEF TInv, TasksOK, WebState
  <1>3. Known'
    BY DEF Whole, Ids, Known
  <1>4. News'
    <2> SUFFICES ASSUME NEW w \in Web, Creating(w)' PROVE New(w)'
      BY DEF News
    <2>1. Creating(w) /\ web'[w].sid = web[w].sid /\ web[w].sid \in Sched /\ New(w)
      BY <1>2 DEF Whole, Ids, News, Creating
    <2> QED BY <2>1 DEF New, Creating
  <1>5. Apart'
    BY DEF Whole, Ids, Apart, Creating, Moving
  <1>6. Movers'
    BY DEF Whole, Ids, Movers, Moving
  <1>7. Past'
    BY <1>1 DEF Whole, Past, Never
  <1> QED BY <1>3, <1>4, <1>5, <1>6, <1>7 DEF Whole, Ids

----------------------------------------------------------------------------
(* Every action keeps Whole, while no save has torn the file.              *)

LEMMA FireWhole ==
    ASSUME TInv, TInv', torn \/ Whole, ~torn', NEW f \in Fire, FireSteps(f) \/ FireStopped(f)
    PROVE  Whole'
  <1> DEFINE g == fire[f]
  <1>1. StoreOK /\ TasksOK /\ BoundsOK /\ HistoryOK /\ FiresOK
    BY TypeParts DEF TInv
  <1>2. g \in FireState /\ Uncancelled(g) /\ g.file \in File /\ g.sid \in Sched
        /\ g.file[g.sid].in \in BOOLEAN
    BY <1>1 DEF TasksOK, FiresOK, FireState, File, Row
  <1>3. UNCHANGED <<ticker, web, bounds, hist>> /\ UNCHANGED <<now, used, refired, firedIn>>
    BY DEF FireSteps, FireLoad, FireMarked, FireReturned, FireSet, FireFinished, FireStopped,
           bounds, hist
  <1>4. fire \in [Fire -> FireState] /\ store \in File
    BY <1>1 DEF TasksOK, StoreOK
  <1>5. Whole /\ \A s \in Sched :
           /\ store'[s].in => store[s].in
           /\ Recorded(s) \/ Marking(s) => Recorded(s)' \/ Marking(s)'
    <2>1. CASE FireLoad(f)
      <3>1. Whole /\ store' = store
        BY <2>1 DEF FireLoad
      <3>2. ASSUME NEW s \in Sched, Marking(s) PROVE Recorded(s)' \/ Marking(s)'
        <4>1. PICK h \in Fire : Marks(h, s) /\ ticker.pc = "rest"
          BY <3>2 DEF Marking
        <4>2. CASE h # f
          <5>1. fire'[h] = fire[h]
            BY <2>1, <4>2, <1>4 DEF FireLoad, Becomes
          <5> QED BY <1>3, <4>1, <5>1 DEF Marking, Marks
        <4>3. CASE h = f
          <5>1. g.pc = "new" /\ g.sid = s
            BY <2>1, <4>1, <4>3, Jobs DEF FireLoad, Marks
          <5>2. fire'[f].pc = "mark" /\ fire'[f].sid = s /\ fire'[f].file = store
            BY <1>2, <1>4, <2>1, <5>1, Jobs DEF FireLoad, Becomes, FireState
          <5>3. CASE store[s].in
            BY <1>3, <4>1, <5>2, <5>3 DEF Marking, Marks
          <5>4. CASE ~store[s].in
            BY <3>1, <5>4 DEF Recorded
          <5> QED BY <5>3, <5>4
        <4> QED BY <4>2, <4>3
      <3> QED BY <1>3, <3>1, <3>2 DEF Recorded
    <2>2. CASE FireMarked(f)
      <3>0. PICK k \in Sched : k = g.sid
        BY <1>2
      <3>1. /\ ~torn
            /\ \/ g.file[k].in /\ store = g.file /\ store' = Started(g.file, k)
               \/ ~g.file[k].in /\ store' = store
        BY <1>1, <1>2, <2>2, <3>0, Untorn DEF FireMarked, SaveRow
      <3>2. ASSUME NEW s \in Sched, s # k PROVE store'[s] = store[s]
        BY <1>2, <3>0, <3>1, <3>2 DEF Started, Change, File
      <3>3. g.file[k].in => Recorded(k)' /\ store[k].in
        <4> SUFFICES ASSUME g.file[k].in PROVE Recorded(k)' /\ store[k].in
          OBVIOUS
        <4>1. store = g.file /\ store' = [store EXCEPT ![k] = [@ EXCEPT !.last = now,
                                                                    !.running = "pending"]]
          BY <3>1 DEF Started, Change
        <4>2. store[k] \in Row
          BY <1>2, <1>4 DEF File
        <4>3. store'[k].last = now
          BY <1>2, <1>4, <4>1, <4>2 DEF File, Row
        <4>4. firedIn[k] <= now
          BY <1>2, <3>0, <3>1 DEF Whole, Past
        <4>5. now \in Int /\ firedIn[k] \in Int
          BY <1>1, <1>2 DEF BoundsOK, HistoryOK, Never
        <4> QED BY <1>3, <4>1, <4>3, <4>4, <4>5 DEF Recorded
      <3>4. ASSUME NEW s \in Sched, Marking(s) PROVE Recorded(s)' \/ Marking(s)'
        <4>1. PICK h \in Fire : Marks(h, s) /\ ticker.pc = "rest"
          BY <3>4 DEF Marking
        <4>2. CASE h # f
          <5>1. fire'[h] = fire[h]
            BY <2>2, <4>2, <1>4 DEF FireMarked, Becomes
          <5> QED BY <1>3, <4>1, <5>1 DEF Marking, Marks
        <4>3. CASE h = f
          BY <2>2, <3>0, <3>3, <4>1, <4>3 DEF FireMarked, Marks
        <4> QED BY <4>2, <4>3
      <3>5. ASSUME NEW s \in Sched, Recorded(s) PROVE Recorded(s)'
        <4>1. CASE s = k /\ g.file[k].in
          BY <3>3, <4>1
        <4>2. CASE ~(s = k /\ g.file[k].in)
          <5>1. store'[s] = store[s]
            BY <3>1, <3>2, <4>2
          <5> QED BY <1>3, <3>5, <5>1 DEF Recorded
        <4> QED BY <4>1, <4>2
      <3>6. ASSUME NEW s \in Sched, store'[s].in PROVE store[s].in
        BY <3>1, <3>2, <3>3, <3>6
      <3> QED BY <3>1, <3>4, <3>5, <3>6
    <2>3. CASE FireReturned(f) \/ FireSet(f) \/ FireFinished(f) \/ FireStopped(f)
      <3>1. ~torn /\ Gentle(store, store')
        <4>1. CASE FireReturned(f) \/ FireStopped(f)
          BY <1>1, <1>2, <1>4, <4>1, GentleWrites DEF FireReturned, FireStopped, StoreOK
        <4>2. CASE FireSet(f)
          BY <1>1, <1>2, <1>4, <4>2, Untorn, GentleWrites DEF FireSet, SaveRow
        <4>3. CASE FireFinished(f)
          BY <1>1, <1>2, <1>4, <4>3, Untorn, GentleWrites DEF FireFinished, SaveRow
        <4> QED BY <2>3, <4>1, <4>2, <4>3
      <3>2. ~Waiting(f) /\ \A h \in Fire : h # f => fire'[h] = fire[h]
        BY <1>2, <1>4, <2>3 DEF FireReturned, FireSet, FireFinished, FireStopped, Becomes,
                                Waiting, Uncancelled, Cancellable
      <3>3. \A s \in Sched : Marking(s) => Marking(s)'
        <4>1. \A h \in Fire : Waiting(h) => fire'[h] = fire[h]
          BY <3>2
        <4> QED BY <1>3, <4>1, MarkingKept
      <3> QED BY <1>3, <3>1, <3>3 DEF Gentle, Recorded
    <2> QED BY <2>1, <2>2, <2>3 DEF FireSteps
  <1>6. Tracked' /\ Listed'
    BY <1>3, <1>5 DEF Whole, Tracked, Listed
  <1>7. now \in Int
    BY <1>1 DEF BoundsOK
  <1> QED BY <1>3, <1>5, <1>6, <1>7, Quiet

LEMMA TickerWhole ==
    ASSUME TInv, TInv', torn \/ Whole, ~torn', TickerSteps
    PROVE  Whole'
  <1>1. StoreOK /\ TasksOK /\ BoundsOK /\ HistoryOK
    BY TypeParts DEF TInv
  <1>2. ticker.file \in File /\ ticker.items \in File /\ store \in File /\ ticker \in TickState
    BY <1>1 DEF TasksOK, TickState, StoreOK
  <1>3. now \in Int /\ \A s \in Sched : firedIn[s] \in Int /\ store[s].last \in Int
    BY <1>1, <1>2 DEF BoundsOK, HistoryOK, File, Row, Never
  <1>4. CASE ~TickFired
    <2>1. UNCHANGED <<fire, web, bounds, hist>> /\ UNCHANGED <<now, used, refired, firedIn>>
      BY <1>4 DEF TickerSteps, TickClearLoad, TickCleared, TickListed, TickExpireLoad, TickExpired,
                  bounds, hist
    <2>2. Whole /\ Gentle(store, store')
      <3> DEFINE cleared == StaleCleared(ticker.file)
                 expired == WindowsExpired(ticker.file)
      <3>0. Gentle(ticker.file, cleared) /\ Gentle(ticker.file, expired) /\ Gentle(store, store)
        BY <1>2, SchedAssumption, GentleWrites
      <3>1. CASE TickCleared
        <4>1. Save(ticker.file, cleared, cleared # ticker.file)
          BY <3>1 DEF TickCleared, SaveChanged
        <4> QED BY <1>1, <3>0, <4>1, Untorn
      <3>2. CASE TickExpired
        <4>1. Save(ticker.file, expired, expired # ticker.file)
          BY <3>2 DEF TickExpired, SaveChanged
        <4> QED BY <1>1, <3>0, <4>1, Untorn
      <3>3. CASE TickClearLoad \/ TickListed \/ TickExpireLoad
        BY <3>0, <3>3 DEF TickClearLoad, TickListed, TickExpireLoad
      <3> QED BY <1>4, <3>1, <3>2, <3>3 DEF TickerSteps
    <2>3. \A s \in Sched : ~Marking(s) \/ TickClearLoad
      BY <1>4 DEF TickerSteps, Marking, TickCleared, TickListed, TickExpireLoad, TickExpired
    <2>4. TickClearLoad => \A s \in Sched : ~Marking(s)
      BY DEF TickClearLoad, Marking, Marks
    <2>5. \A s \in Sched : Recorded(s)
      BY <2>2, <2>3, <2>4 DEF Whole, Tracked
    <2>6. Tracked'
      BY <2>1, <2>2, <2>5 DEF Tracked, Recorded, Gentle
    <2>7. ticker'.items = ticker.items \/ ticker'.items = store
      BY <1>2, <1>4 DEF TickerSteps, TickClearLoad, TickCleared, TickListed, TickExpireLoad,
                        TickExpired, TickState
    <2>8. Listed'
      BY <2>1, <2>2, <2>5, <2>7 DEF Whole, Listed, Recorded
    <2> QED BY <1>3, <2>1, <2>2, <2>6, <2>7, <2>8, Quiet DEF Gentle
  <1>5. CASE TickFired
    <2> DEFINE due == {s \in Sched : IsDue(ticker.items[s])}
    <2>1. PICK fired \in SUBSET due : \E to \in [fired -> Free] :
             /\ \A s, t \in fired : s # t => to[s] # to[t]
             /\ fire' = [f \in Fire |-> IF \E s \in fired : to[s] = f
                                        THEN Spawned(CHOOSE s \in fired : to[s] = f)
                                        ELSE fire[f]]
             /\ firedIn' = [s \in Sched |-> IF s \in fired THEN now ELSE firedIn[s]]
             /\ refired' = refired \cup {s \in fired : firedIn[s] = now}
      BY <1>5 DEF TickFired
    <2>2. PICK to \in [fired -> Free] :
             /\ \A s, t \in fired : s # t => to[s] # to[t]
             /\ fire' = [f \in Fire |-> IF \E s \in fired : to[s] = f
                                        THEN Spawned(CHOOSE s \in fired : to[s] = f)
                                        ELSE fire[f]]
             /\ firedIn' = [s \in Sched |-> IF s \in fired THEN now ELSE firedIn[s]]
             /\ refired' = refired \cup {s \in fired : firedIn[s] = now}
      BY <2>1
    <2>3. Whole /\ ticker' = IdleTicker /\ ticker.pc = "fire"
          /\ UNCHANGED <<store, web, used, now>>
      BY <1>5 DEF TickFired, bounds
    \* A row fired in this interval was listed with this interval in last.
    <2>4. \A s \in fired : ticker.items[s].in /\ firedIn[s] # now
      <3> SUFFICES ASSUME NEW s \in fired PROVE ticker.items[s].in /\ firedIn[s] # now
        OBVIOUS
      <3>1. s \in Sched /\ IsDue(ticker.items[s])
        BY <2>1
      <3>2. ticker.items[s].in /\ (ticker.items[s].last = Never \/ now - ticker.items[s].last >= 1)
        BY <3>1 DEF IsDue
      <3>3. ticker.items[s].last \in Int /\ ticker.items[s].last >= firedIn[s]
        BY <1>2, <2>3, <3>1, <3>2 DEF Whole, Listed, File, Row, Never
      <3>4. now >= 0
        BY <1>1 DEF BoundsOK
      <3> QED BY <1>3, <3>1, <3>2, <3>3, <3>4 DEF Never
    <2>5. refired' = {}
      BY <2>2, <2>3, <2>4 DEF Whole
    <2>6. \A s \in Sched : ~ticker'.items[s].in
      BY <2>3 DEF IdleTicker, NoFile, Gone
    <2>7. Known'
      BY <2>2, <2>3, <2>4, <2>6 DEF Whole, Ids, Known
    <2>8. News'
      BY <1>1, <2>2, <2>3, <2>4, <2>6
         DEF Whole, Ids, News, New, Creating, TasksOK, WebState
    <2>9. Apart' /\ Movers'
      BY <2>3 DEF Whole, Ids, Apart, Movers, Creating, Moving
    <2>10. Past'
      BY <1>3, <2>2, <2>3 DEF Whole, Past
    <2>11. Tracked'
      <3> SUFFICES ASSUME NEW s \in Sched PROVE Recorded(s)' \/ Marking(s)'
        BY DEF Tracked
      <3>1. CASE s \in fired
        <4>1. to[s] \in Fire /\ \E t \in fired : to[t] = to[s]
          BY <3>1 DEF Free
        <4>2. (CHOOSE t \in fired : to[t] = to[s]) = s
          BY <2>2, <3>1
        <4>3. fire'[to[s]] = Spawned(s)
          BY <2>2, <4>1, <4>2
        <4>4. PICK f \in Fire : fire'[f].pc = "new" /\ fire'[f].sid = s
          BY <1>1, <4>1, <4>3, SpawnedType
        <4> QED BY <2>3, <4>4 DEF Marking, Marks, IdleTicker
      <3>2. CASE s \notin fired
        BY <2>2, <2>3, <3>2 DEF Whole, Tracked, Marking, Recorded
      <3> QED BY <3>1, <3>2
    <2>12. Listed'
      BY <2>6 DEF Listed
    <2> QED BY <2>5, <2>7, <2>8, <2>9, <2>10, <2>11, <2>12 DEF Whole, Ids
  <1> QED BY <1>4, <1>5

LEMMA RequestWhole ==
    ASSUME TInv, TInv', torn \/ Whole, ~torn', NEW w \in Web, Requests(w)
    PROVE  Whole'
  <1>1. StoreOK /\ TasksOK /\ BoundsOK /\ HistoryOK
    BY TypeParts DEF TInv
  <1>2. now \in Int /\ \A v \in Web : web[v] \in WebState /\ web[v].sid \in Sched
    BY <1>1 DEF BoundsOK, TasksOK, WebState
  <1>3. PICK s \in Sched : WebUpdate(w, s) \/ WebDelete(w, s) \/ WebStop(w, s) \/ WebCreate(w, s)
                              \/ WebRun(w, s) \/ \E t \in Sched : WebMoveIn(w, s, t)
    BY DEF Requests
  <1>4. Whole /\ UNCHANGED <<store, ticker, now, refired, firedIn>>
    BY <1>3 DEF WebUpdate, WebDelete, WebStop, WebCreate, WebRun, WebMoveIn, Begins, hist
  <1>5. \A q \in Sched : Marking(q) => Marking(q)'
    <2>1. \A f \in Fire : Waiting(f) => fire'[f] = fire[f]
      <3>1. CASE ~WebRun(w, s)
        BY <1>3, <3>1 DEF WebUpdate, WebDelete, WebStop, WebCreate, WebMoveIn, Begins
      <3>2. CASE WebRun(w, s)
        BY <1>1, <3>2 DEF WebRun, Free, Becomes, Waiting, TasksOK
      <3> QED BY <3>1, <3>2
    <2> QED BY <1>4, <2>1, MarkingKept
  <1>6. Tracked' /\ Listed' /\ Past'
    BY <1>4, <1>5 DEF Whole, Tracked, Listed, Past, Recorded
  <1>7. CASE WebUpdate(w, s) \/ WebDelete(w, s) \/ WebStop(w, s)
    <2>1. PICK v : Begins(w, v) /\ v.op \in {"update", "delete", "stop"}
      <3>1. CASE WebUpdate(w, s)
        <4>1. PICK p : Begins(w, [Handles("update", s) EXCEPT !.patch = p])
          BY <3>1 DEF WebUpdate
        <4>2. [Handles("update", s) EXCEPT !.patch = p].op = "update"
          BY DEF Handles, IdleWeb
        <4> QED BY <4>1, <4>2
      <3>2. CASE WebDelete(w, s) \/ WebStop(w, s)
        <4>1. \E op \in {"delete", "stop"} : Begins(w, Handles(op, s))
          BY <3>2 DEF WebDelete, WebStop
        <4>2. \A op \in {"delete", "stop"} : Handles(op, s).op = op
          BY DEF Handles, IdleWeb
        <4> QED BY <4>1, <4>2
      <3> QED BY <1>7, <3>1, <3>2
    <2>2. UNCHANGED used
      BY <1>7 DEF WebUpdate, WebDelete, WebStop, hist
    <2>3. web' = [web EXCEPT ![w] = v]
      BY <2>1 DEF Begins
    <2>4. \A u \in Web : /\ web'[u].op \in Creation => web'[u] = web[u]
                         /\ web'[u].op \in Move => web'[u] = web[u]
      BY <1>1, <2>1, <2>3 DEF TasksOK, Creation, Move
    <2>5. \A u \in Web :
             /\ web'[u].op \in Creation => web[u].op \in Creation /\ web'[u].sid = web[u].sid
             /\ web'[u].op \in Move => web[u].op \in Move /\ web'[u].tmp = web[u].tmp
      <3> SUFFICES ASSUME NEW u \in Web
                   PROVE  /\ web'[u].op \in Creation =>
                                web[u].op \in Creation /\ web'[u].sid = web[u].sid
                          /\ web'[u].op \in Move =>
                                web[u].op \in Move /\ web'[u].tmp = web[u].tmp
        OBVIOUS
      <3>1. CASE web'[u] = web[u]
        BY <3>1, Zenon
      <3>2. CASE web'[u] # web[u]
        BY <2>4, <3>2, Zenon
      <3> QED BY <3>1, <3>2
    <2>6. (\A q \in Sched : firedIn'[q] \in {firedIn[q], Never}) /\ now' >= now
      BY <1>2, <1>4
    <2> QED BY <1>4, <1>6, <2>2, <2>5, <2>6, Quiet
  <1>8. CASE WebRun(w, s)
    <2>1. UNCHANGED <<used, web>>
      BY <1>8 DEF WebRun, hist
    <2> QED BY <1>2, <1>4, <1>6, <2>1, Quiet
  \* The id of a new row was never in the file; a moved row's, not now.
  <1>9. CASE WebCreate(w, s) \/ \E t \in Sched : WebMoveIn(w, s, t)
    <2>0. PICK v : \E k, old \in Sched :
             /\ web' = [web EXCEPT ![w] = v] /\ v.sid = k /\ v.op \in Creation
             /\ k \notin used /\ k \in used' /\ used \subseteq used'
             /\ v.op \in Move => /\ v.tmp = old /\ old # k /\ old \in used'
                                 /\ \A u \in Web : web[u].op \in Creation => web[u].sid # old
      <3>1. CASE WebCreate(w, s)
        <4>1. PICK e \in BOOLEAN, op \in {"create", "create and run"} :
                 Begins(w, [Handles(op, s) EXCEPT !.patch = NewRow(e)])
          BY <3>1 DEF WebCreate
        <4> DEFINE v == [Handles(op, s) EXCEPT !.patch = NewRow(e)]
        <4>2. v.sid = s /\ v.op = op
          BY DEF Handles, IdleWeb
        <4>3. web' = [web EXCEPT ![w] = v]
          BY <4>1 DEF Begins
        <4>4. s \notin used /\ s \in used' /\ used \subseteq used'
          BY <3>1 DEF WebCreate
        <4>5. v.op \in Creation /\ v.op \notin Move
          BY <4>2 DEF Creation, Move
        <4> HIDE DEF v
        <4> QED BY <4>2, <4>3, <4>4, <4>5, Zenon
      <3>2. ASSUME NEW t \in Sched, WebMoveIn(w, s, t)
            PROVE  \E v : \E k, old \in Sched :
                     /\ web' = [web EXCEPT ![w] = v] /\ v.sid = k /\ v.op \in Creation
                     /\ k \notin used /\ k \in used' /\ used \subseteq used'
                     /\ v.op \in Move => /\ v.tmp = old /\ old # k /\ old \in used'
                                         /\ \A u \in Web : web[u].op \in Creation => web[u].sid # old
        <4> DEFINE v == [Handles("move", t) EXCEPT !.tmp = s, !.patch = NewRow(TRUE)]
        <4>1. v.sid = t /\ v.op = "move" /\ v.tmp = s
          BY DEF Handles, IdleWeb
        <4>2. web' = [web EXCEPT ![w] = v]
          BY <3>2 DEF WebMoveIn, Begins
        <4>3. t \notin used /\ t \in used' /\ used \subseteq used' /\ s # t /\ s \in used'
          BY <3>2 DEF WebMoveIn
        <4>4. \A u \in Web : web[u].op \in Creation => web[u].sid # s
          BY <3>2 DEF WebMoveIn, Creation
        <4>5. v.op \in Creation
          BY <4>1 DEF Creation
        <4> HIDE DEF v
        <4> QED BY <4>1, <4>2, <4>3, <4>4, <4>5, Zenon
      <3> QED BY <1>9, <3>1, <3>2
    <2>1. PICK k, old \in Sched :
             /\ web' = [web EXCEPT ![w] = v] /\ v.sid = k /\ v.op \in Creation
             /\ k \notin used /\ k \in used' /\ used \subseteq used'
             /\ v.op \in Move => /\ v.tmp = old /\ old # k /\ old \in used'
                                 /\ \A u \in Web : web[u].op \in Creation => web[u].sid # old
      BY <2>0
    <2>2. \A u \in Web : web'[u] = IF u = w THEN v ELSE web[u]
      BY <1>1, <2>1 DEF TasksOK
    <2>3. Known'
      BY <1>4, <2>1 DEF Whole, Ids, Known
    <2>4. New(w)'
      <3>1. ~store[k].in /\ ~ticker.items[k].in /\ firedIn[k] = Never
        BY <1>4, <2>1 DEF Whole, Ids, Known
      <3> QED BY <1>4, <2>1, <2>2, <3>1 DEF New
    <2>5. \A u \in Web : u # w => (web'[u].op \in Creation => New(u)')
      BY <1>4, <2>1, <2>2 DEF Whole, Ids, News, New, Creating
    <2>6. News'
      BY <2>4, <2>5 DEF News, Creating
    <2>7. Movers'
      BY <1>4, <2>1, <2>2 DEF Whole, Ids, Movers, Moving
    <2>8. Apart'
      <3>1. \A u \in Web : /\ web[u].op \in Creation => web[u].sid \in used
                           /\ web[u].op \in Move => web[u].tmp \in used
        BY <1>4 DEF Whole, Ids, News, New, Movers, Creating, Moving
      <3>2. ASSUME NEW u \in Web, NEW x \in Web, web'[u].op \in Creation
            PROVE  /\ web'[x].op \in Creation /\ u # x => web'[u].sid # web'[x].sid
                   /\ web'[x].op \in Move => web'[u].sid # web'[x].tmp
        <4>1. CASE u = w
          <5>1. web'[u] = v /\ (x = w => web'[x] = v) /\ (x # w => web'[x] = web[x])
            BY <2>2, <4>1
          <5>2. CASE x = w
            BY <2>1, <3>1, <5>1, <5>2
          <5>3. CASE x # w
            BY <2>1, <3>1, <5>1, <5>3
          <5> QED BY <5>2, <5>3
        <4>2. CASE u # w /\ x = w
          <5>1. web'[x] = v /\ web'[u] = web[u]
            BY <2>2, <4>2
          <5>2. web[u].op \in Creation /\ web'[u].sid = web[u].sid
            BY <3>2, <5>1, Zenon
          <5>3. web'[x].op \in Move => web'[x].tmp = old /\ web[u].sid # old
            BY <2>1, <5>1, <5>2
          <5>4. web'[x].sid = k /\ web[u].sid \in used /\ k \notin used
            BY <2>1, <3>1, <5>1, <5>2
          <5> QED BY <5>2, <5>3, <5>4
        <4>3. CASE u # w /\ x # w
          BY <1>4, <2>2, <3>2, <4>3 DEF Whole, Ids, Apart, Creating, Moving
        <4> QED BY <4>1, <4>2, <4>3
      <3> QED BY <3>2 DEF Apart, Creating, Moving
    <2> QED BY <1>4, <1>6, <2>3, <2>6, <2>7, <2>8 DEF Whole, Ids
  <1> QED BY <1>3, <1>7, <1>8, <1>9

\* The handler that saves: what it makes of the file it has loaded.
LEMMA MadeRows ==
    ASSUME NEW v \in WebState, v.op # "none"
    PROVE  /\ v.op \in {"update", "delete", "stop", "stopped"} => Gentle(v.file, Made(v))
           /\ v.op \in Creation => \A q \in Sched : q # v.sid => Made(v)[q] = v.file[q]
           /\ v.op = "rename" => \A q \in Sched : q # v.tmp =>
                 (Made(v)[q].in => v.file[q].in /\ Made(v)[q].last = v.file[q].last)
  <1> DEFINE f == v.file
             r == f[v.sid]
  <1>1. f \in File /\ v.sid \in Sched /\ v.tmp \in Sched /\ v.patch \in Row
    BY DEF WebState
  <1>2. \A q \in Sched : f[q] \in Row
    BY <1>1 DEF File
  <1>3. v.op = "update" => Gentle(f, Made(v))
    BY <1>1, <1>2 DEF Gentle, Made, Change, File, Row
  <1>4. v.op = "delete" => Gentle(f, Made(v))
    BY <1>1, <1>2 DEF Gentle, Made, Change, File, Gone
  <1>5. v.op = "stop" => Gentle(f, Made(v))
    BY <1>1, <1>2 DEF Gentle, Made, Change, File, Row
  <1>6. v.op = "stopped" => Gentle(f, Made(v))
    BY <1>1, GentleWrites DEF Made
  <1>7. v.op \in Creation => \A q \in Sched : q # v.sid => Made(v)[q] = f[q]
    BY <1>1 DEF Made, Creation, File
  <1>8. v.op = "rename" => \A q \in Sched : q # v.tmp =>
           (Made(v)[q].in => f[q].in /\ Made(v)[q].last = f[q].last)
    BY <1>1 DEF Made, File, Gone
  <1> QED BY <1>3, <1>4, <1>5, <1>6, <1>7, <1>8

LEMMA SavedWhole ==
    ASSUME TInv, TInv', torn \/ Whole, ~torn', NEW w \in Web, WebSaved(w)
    PROVE  Whole'
  <1>1. StoreOK /\ TasksOK /\ BoundsOK /\ HistoryOK
    BY TypeParts DEF TInv
  <1>2. PICK v \in WebState : v = web[w]
    BY <1>1 DEF TasksOK
  <1>3. v.op # "none" /\ v.pc = "save" /\ v.op \in Ops
    BY <1>2 DEF WebSaved, TInv, WebOK, WebState
  <1>4. v.file \in File /\ v.sid \in Sched /\ v.tmp \in Sched /\ v.file[v.sid].in \in BOOLEAN
    BY DEF WebState, File, Row
  <1>5. Whole /\ (store' = store \/ (store = v.file /\ store' = Made(v)))
    BY <1>1, <1>2, <1>4, Untorn DEF WebSaved
  <1>6. UNCHANGED <<ticker, now, used, refired>> /\ now \in Int
    <2>1. UNCHANGED <<ticker, bounds, used, refired>>
      BY DEF WebSaved
    <2> QED BY <1>1, <2>1 DEF bounds, BoundsOK
  <1>7. firedIn' = IF v.op = "rename" THEN [firedIn EXCEPT ![v.tmp] = Never] ELSE firedIn
    BY <1>2 DEF WebSaved
  <1>8. \A s \in Sched : firedIn'[s] \in {firedIn[s], Never}
    BY <1>1, <1>4, <1>7 DEF HistoryOK
  \* Of its file: a row it adds is one that this handler creates or moves.
  <1>9. \A s \in Sched : \/ store'[s].in => store[s].in /\ store'[s].last = store[s].last
                         \/ v.op \in Creation /\ s = v.sid
                         \/ v.op = "rename" /\ s = v.tmp
    BY <1>3, <1>5, MadeRows DEF Ops, Creation, Gentle
  <1>10. web' = [web EXCEPT ![w] =
                   CASE v.op = "stop" -> [v EXCEPT !.pc = "cancel", !.file = NoFile]
                     [] v.op = "move" -> [v EXCEPT !.pc = "load", !.op = "rename", !.file = NoFile]
                     [] OTHER -> IdleWeb]
    BY <1>2 DEF WebSaved
  <1>11. \A u \in Web : u # w => web'[u] = web[u]
    BY <1>1, <1>10 DEF TasksOK
  <1>12. web'[w].op \notin Creation
    <2>1. CASE v.op = "stop"
      BY <1>1, <1>10, <2>1 DEF TasksOK, WebState, Creation
    <2>2. CASE v.op = "move"
      BY <1>1, <1>10, <2>2 DEF TasksOK, WebState, Creation
    <2>3. CASE v.op \notin {"stop", "move"}
      BY <1>1, <1>10, <2>3 DEF TasksOK, IdleWeb, Creation
    <2> QED BY <2>1, <2>2, <2>3
  <1>13. web'[w].op \in Move => v.op \in Move /\ web'[w].tmp = v.tmp
    <2>1. CASE v.op = "stop"
      BY <1>1, <1>10, <2>1 DEF TasksOK, WebState, Move
    <2>2. CASE v.op = "move"
      BY <1>1, <1>10, <2>2 DEF TasksOK, WebState, Move
    <2>3. CASE v.op \notin {"stop", "move"}
      BY <1>1, <1>10, <2>3 DEF TasksOK, IdleWeb, Move
    <2> QED BY <2>1, <2>2, <2>3
  <1>14. \A u \in Web :
            /\ web'[u].op \in Creation => web[u].op \in Creation /\ web'[u].sid = web[u].sid
            /\ web'[u].op \in Move => web[u].op \in Move /\ web'[u].tmp = web[u].tmp
    BY <1>2, <1>11, <1>12, <1>13
  <1>15. \A s \in Sched : Marking(s) => Marking(s)'
    <2>1. \A f \in Fire : Waiting(f) => fire'[f] = fire[f]
      BY <1>1 DEF WebSaved, Free, Becomes, Waiting, TasksOK
    <2> QED BY <1>6, <2>1, MarkingKept
  <1>16. Tracked'
    <2>1. ASSUME NEW s \in Sched
          PROVE  \/ firedIn'[s] = Never
                 \/ /\ firedIn'[s] = firedIn[s]
                    /\ store'[s].in => store[s].in /\ store'[s].last = store[s].last
                    /\ Marking(s) => Marking(s)' \/ Recorded(s)'
      <3>1. CASE v.op \in Creation /\ s = v.sid
        BY <1>2, <1>5, <1>8, <3>1 DEF Whole, Ids, News, New, Creating
      <3>2. CASE v.op = "rename" /\ s = v.tmp
        BY <1>1, <1>7, <3>2 DEF HistoryOK
      <3>3. CASE ~(v.op \in Creation /\ s = v.sid) /\ ~(v.op = "rename" /\ s = v.tmp)
        BY <1>8, <1>9, <1>15, <3>3
      <3> QED BY <3>1, <3>2, <3>3
    <2> QED BY <1>5, <2>1, TrackedKept DEF Whole
  <1>17. Listed'
    <2> SUFFICES ASSUME NEW s \in Sched, ticker.items[s].in
                 PROVE  ticker.items[s].last >= firedIn'[s]
      BY <1>6 DEF Listed
    <2>1. ticker.items[s].last \in {Never} \cup 0..MaxNow
      BY <1>1 DEF TasksOK, TickState, File, Row
    <2>2. ticker.items[s].last >= firedIn[s]
      BY <1>5 DEF Whole, Listed
    <2> QED BY <1>8, <2>1, <2>2 DEF Never
  <1>18. \A s \in Sched : store'[s].in =>
            store[s].in \/ (s \in used /\ \A u \in Web : web'[u].op \in Creation => web'[u].sid # s)
    <2> SUFFICES ASSUME NEW s \in Sched, store'[s].in, ~store[s].in
                 PROVE  s \in used /\ \A u \in Web : web'[u].op \in Creation => web'[u].sid # s
      OBVIOUS
    <2>1. CASE v.op \in Creation /\ s = v.sid
      <3>1. s \in used
        BY <1>2, <1>5, <2>1 DEF Whole, Ids, News, New, Creating
      <3>2. ASSUME NEW u \in Web, web'[u].op \in Creation PROVE web'[u].sid # s
        BY <1>2, <1>5, <1>12, <1>14, <2>1, <3>2 DEF Whole, Ids, Apart, Creating
      <3> QED BY <3>1, <3>2
    <2>2. CASE v.op = "rename" /\ s = v.tmp
      <3>1. Moving(w) /\ s \in used
        BY <1>2, <1>5, <2>2 DEF Whole, Ids, Movers, Moving, Move
      <3>2. ASSUME NEW u \in Web, web'[u].op \in Creation PROVE web'[u].sid # s
        BY <1>2, <1>5, <1>14, <2>2, <3>1, <3>2 DEF Whole, Ids, Apart, Creating
      <3> QED BY <3>1, <3>2
    <2> QED BY <1>9, <2>1, <2>2
  <1> QED BY <1>5, <1>6, <1>8, <1>14, <1>16, <1>17, <1>18, Quiet

LEMMA WebWhole ==
    ASSUME TInv, TInv', torn \/ Whole, ~torn', NEW w \in Web, WebLoad(w) \/ WebCancels(w)
    PROVE  Whole'
  <1>1. TasksOK /\ FiresOK /\ BoundsOK
    BY TypeParts DEF TInv
  <1>2. Whole /\ UNCHANGED <<store, ticker>> /\ UNCHANGED <<now, used, refired, firedIn>>
    BY DEF WebLoad, WebCancels, bounds, hist
  <1>3. \A f \in Fire : Waiting(f) => fire'[f] = fire[f]
    <2>1. \A f \in Fire : Waiting(f) => ~Cancellable(fire[f])
      BY <1>1 DEF FiresOK, Uncancelled, Waiting, Cancellable
    <2>2. CASE WebLoad(w)
      BY <2>2 DEF WebLoad
    <2>3. CASE WebCancels(w)
      BY <2>1, <2>3 DEF WebCancels
    <2> QED BY <2>2, <2>3
  <1>4. Tracked' /\ Listed'
    <2>1. \A s \in Sched : Marking(s) => Marking(s)'
      BY <1>2, <1>3, MarkingKept
    <2> QED BY <1>2, <2>1 DEF Whole, Tracked, Listed, Recorded
  <1>5. \A u \in Web :
           /\ web'[u].op \in Creation => web[u].op \in Creation /\ web'[u].sid = web[u].sid
           /\ web'[u].op \in Move => web[u].op \in Move /\ web'[u].tmp = web[u].tmp
    <2>1. CASE WebLoad(w)
      BY <1>1, <2>1 DEF WebLoad, TasksOK, WebState
    <2>2. CASE WebCancels(w)
      BY <1>1, <2>2 DEF WebCancels, TasksOK, WebState, Creation, Move
    <2> QED BY <2>1, <2>2
  <1>6. now \in Int
    BY <1>1 DEF BoundsOK
  <1> QED BY <1>2, <1>4, <1>5, <1>6, Quiet

LEMMA RestartWhole ==
    ASSUME TInv, TInv', torn \/ Whole, ~torn', DaemonRestarts
    PROVE  Whole'
  <1>1. TasksOK /\ HistoryOK /\ BoundsOK /\ StoreOK
    BY TypeParts DEF TInv
  <1>2. Whole /\ UNCHANGED <<store, now, used, refired>> /\ now \in Int
    BY <1>1 DEF DaemonRestarts, BoundsOK
  \* A firing whose row is yet to be marked is forgotten.
  <1>3. \A s \in Sched : firedIn'[s] = IF Unmarked(s) THEN Never ELSE firedIn[s]
    BY DEF DaemonRestarts
  <1>4. Tracked'
    <2>1. \A s \in Sched : Marking(s) => Unmarked(s)
      BY DEF Marking, Marks, Unmarked
    <2>2. ASSUME NEW s \in Sched
          PROVE  \/ firedIn'[s] = Never
                 \/ /\ firedIn'[s] = firedIn[s]
                    /\ store'[s].in => store[s].in /\ store'[s].last = store[s].last
                    /\ Marking(s) => Marking(s)' \/ Recorded(s)'
      BY <1>2, <1>3, <2>1
    <2> QED BY <1>2, <2>2, TrackedKept DEF Whole
  <1>5. \A s \in Sched : ~ticker'.items[s].in
    BY DEF DaemonRestarts, IdleTicker, NoFile, Gone
  <1>6. Listed'
    BY <1>5 DEF Listed
  <1>7. \A u \in Web : web'[u].op \notin Creation /\ web'[u].op \notin Move
    BY DEF DaemonRestarts, IdleWeb, Creation, Move
  <1>8. \A s \in Sched : firedIn'[s] \in {firedIn[s], Never}
    BY <1>3
  <1> QED BY <1>2, <1>4, <1>5, <1>6, <1>7, <1>8, Quiet

LEMMA IntervalWhole ==
    ASSUME TInv, TInv', torn \/ Whole, ~torn', IntervalPasses \/ UNCHANGED vars
    PROVE  Whole'
  <1>1. now \in Int
    BY TypeParts DEF TInv, BoundsOK
  <1>2. Whole /\ UNCHANGED <<store, ticker, fire, web, used, refired, firedIn>> /\ now' >= now
    BY <1>1 DEF IntervalPasses, vars, bounds, hist
  <1>3. Tracked' /\ Listed'
    BY <1>2 DEF Whole, Tracked, Listed, Recorded, Marking, Marks
  <1> QED BY <1>2, <1>3, Quiet

LEMMA InitWhole == Init => Whole
  <1> SUFFICES ASSUME Init PROVE Whole
    OBVIOUS
  <1>1. Known
    <2>1. PICK held \in SUBSET Rows :
             store = [s \in Sched |-> IF s \in held THEN NewRow(TRUE) ELSE Gone]
      BY DEF Init
    <2> QED BY <2>1 DEF Init, Known, IdleTicker, NoFile, Gone
  <1>2. News /\ Apart /\ Movers
    BY DEF Init, News, Apart, Movers, Creating, Moving, Creation, Move, IdleWeb
  <1>3. \A s \in Sched : store[s].last = Never /\ firedIn[s] = Never /\ ~ticker.items[s].in
    BY DEF Init, NewRow, Gone, IdleTicker, NoFile
  <1>4. Tracked /\ Listed
    BY <1>3 DEF Tracked, Listed, Recorded, Never
  <1>5. Past /\ refired = {}
    BY <1>3 DEF Init, Past, Never
  <1> QED BY <1>1, <1>2, <1>4, <1>5 DEF Whole, Ids

LEMMA Inductive ==
    ASSUME IInv, [Next]_vars
    PROVE  IInv'
  <1>1. TInv /\ TInv'
    BY TypesKept DEF IInv, TInv
  <1>2. CASE torn'
    BY <1>1, <1>2 DEF IInv, TInv
  <1>3. CASE ~torn'
    <2>1. torn \/ Whole
      BY DEF IInv
    <2>2. Whole'
      <3>1. CASE \E f \in Fire : FireSteps(f) \/ FireStopped(f)
        BY <1>1, <1>3, <2>1, <3>1, FireWhole
      <3>2. CASE TickerSteps
        BY <1>1, <1>3, <2>1, <3>2, TickerWhole
      <3>3. CASE \E w \in Web : WebSteps(w) \/ Requests(w)
        BY <1>1, <1>3, <2>1, <3>3, RequestWhole, WebWhole, SavedWhole DEF WebSteps
      <3>4. CASE DaemonRestarts
        BY <1>1, <1>3, <2>1, <3>4, RestartWhole
      <3>5. CASE IntervalPasses \/ UNCHANGED vars
        BY <1>1, <1>3, <2>1, <3>5, IntervalWhole
      <3> QED BY <3>1, <3>2, <3>3, <3>4, <3>5 DEF Next
    <2> QED BY <1>1, <2>2 DEF IInv, TInv
  <1> QED BY <1>2, <1>3

\* The ticker fires no row twice in one interval unless some save has
\* overwritten a change it had not seen (OncePerInterval).
THEOREM OncePerIntervalHolds == Spec => []OncePerInterval
  <1>1. Init => IInv
    BY InitTypes, InitWhole DEF IInv, TInv
  <1>2. IInv => OncePerInterval
    BY DEF IInv, Whole, OncePerInterval
  <1> QED BY <1>1, <1>2, Inductive, PTL DEF Spec

=============================================================================
