----------------------------- MODULE Schedules -----------------------------
(***************************************************************************)
(* One schedules.json and everything in the daemon that writes it: the     *)
(* ticker, its fire tasks and the HTTP handlers.                           *)
(*                                                                         *)
(* Every writer of schedules.py loads the whole file and saves it whole,   *)
(* in a worker thread (asyncio.to_thread), so that other threads write     *)
(* between the load and the save.  A job is such a read-modify-write,      *)
(* taken in two steps.  "torn" records that a save has overwritten a       *)
(* change made since its load.                                             *)
(*                                                                         *)
(* Time is counted in intervals: a row run in interval n is due in n + 1.  *)
(* What a run does is DagRun; titles and prompts are left out.             *)
(***************************************************************************)
EXTENDS Integers, FiniteSets

CONSTANTS Sched,     \* schedule ids
          Fire,      \* _fire_schedule tasks; a slot is used again when idle
          Web,       \* HTTP handlers, used again when idle
          Rows,      \* the ids the file has held so far
          Targets,   \* the workspaces a global schedule runs in
          MaxNow, MaxEvents     \* bounds; an event is a request or a crash

ASSUME SchedAssumption ==
    /\ Sched # {} /\ Rows \subseteq Sched
    /\ Targets \in Nat \ {0}
    /\ MaxNow \in Nat /\ MaxEvents \in Nat

VARIABLES store,     \* the file: a row for every id, in it or not
          global,    \* it is the global store, not a workspace's
          now,
          ticker,    \* _schedule_loop
          fire, web,
          events,    \* requests and crashes so far
          used,      \* history: ids this file has held
          torn,      \* history: some save overwrote another's change
          firedIn,   \* history: the interval in which a tick last fired a row
          refired    \* history: rows the ticker fired twice in one interval

bounds == <<global, now, events>>
hist == <<used, firedIn, refired>>
vars == <<store, torn, ticker, fire, web, bounds, hist>>

Never == -1
NoWindow == MaxNow + 1        \* until_at is not set
Row == [in : BOOLEAN, enabled : BOOLEAN, until : 0..NoWindow,
        last : {Never} \cup 0..MaxNow, running : {"none", "pending", "ended"}]
File == [Sched -> Row]

Gone == [in |-> FALSE, enabled |-> FALSE, until |-> NoWindow,
         last |-> Never, running |-> "none"]
NewRow(e) == [Gone EXCEPT !.in = TRUE, !.enabled = e]

IsDue(r) ==
    /\ r.in /\ r.enabled
    /\ r.running = "none"
    /\ now < r.until
    /\ r.last = Never \/ now - r.last >= 1

\* What schedules.py changes in a file it has loaded; a row that is not in it
\* is not added by a change.
Change(f, s, row) == IF f[s].in THEN [f EXCEPT ![s] = row] ELSE f
StartedKeepingLast(f, s) ==              \* mutant: last_run_at stays
    Change(f, s, [f[s] EXCEPT !.running = "pending"])
Started(f, s) == Change(f, s, [f[s] EXCEPT !.last = now, !.running = "pending"])
Running(f, s, rid) == Change(f, s, [f[s] EXCEPT !.running = rid])

StaleClearedButPending(f) ==             \* mutant: "pending" is kept
    [s \in Sched |-> IF f[s].running = "pending" THEN f[s]
                     ELSE [f[s] EXCEPT !.running = "none"]]

\* clear_stale_running.  A stored id is "pending", or that of a run that has
\* returned and whose row app["runs"] no longer holds: neither is live.
StaleCleared(f) == [s \in Sched |-> [f[s] EXCEPT !.running = "none"]]

WindowsExpired(f) ==
    [s \in Sched |-> IF f[s].in /\ now >= f[s].until
                     THEN [f[s] EXCEPT !.enabled = FALSE, !.running = "none"]
                     ELSE f[s]]

\* A job saves what it made of the file it loaded: when it found its row
\* (whatever it changed there), or when it changed any.
Save(old, new, found) ==
    IF found
    THEN store' = new /\ torn' = (torn \/ store # old)
    ELSE UNCHANGED <<store, torn>>
SaveRow(old, new, s) == Save(old, new, old[s].in)
SaveChanged(old, new) == Save(old, new, new # old)

AnySched == CHOOSE s \in Sched : TRUE
NoFile == [s \in Sched |-> Gone]
IdleTicker == [pc |-> "rest", file |-> NoFile, items |-> NoFile]
IdleFire == [pc |-> "idle", sid |-> AnySched, file |-> NoFile,
             left |-> 0, rid |-> FALSE, cancels |-> 0]
IdleWeb == [pc |-> "idle", op |-> "none", sid |-> AnySched, tmp |-> AnySched,
            file |-> NoFile, patch |-> Gone]

Init ==
    /\ \E held \in SUBSET Rows :
           store = [s \in Sched |-> IF s \in held THEN NewRow(TRUE) ELSE Gone]
    /\ torn = FALSE
    /\ ticker = IdleTicker
    /\ fire = [f \in Fire |-> IdleFire]
    /\ web = [w \in Web |-> IdleWeb]
    /\ global \in BOOLEAN /\ now = 0 /\ events = 0
    /\ used = Rows
    /\ firedIn = [s \in Sched |-> Never]
    /\ refired = {}

----------------------------------------------------------------------------
(* _fire_schedule.  It marks the row "pending", runs the prompt in every   *)
(* target, and stores the run's id only once that run has returned.        *)

Free == {f \in Fire : fire[f].pc = "idle"}
Spawned(s) == [IdleFire EXCEPT !.pc = "new", !.sid = s,
                               !.left = IF global THEN Targets ELSE 1]
Becomes(f, g) == fire' = [fire EXCEPT ![f] = g]
Unfinished(g) == IF g.left > 0 THEN "run" ELSE IF g.rid THEN "finset" ELSE "fin"

\* The thread of its next job loads the file.
JobOf == [new |-> "mark", set |-> "setting", finset |-> "finsetting",
          fin |-> "finishing"]
FireLoad(f) ==
    /\ fire[f].pc \in DOMAIN JobOf
    /\ Becomes(f, [fire[f] EXCEPT !.pc = JobOf[@], !.file = store])
    /\ UNCHANGED <<store, torn, ticker, web, bounds, hist>>

FireMarked(f) ==
    LET g == fire[f] IN
    /\ g.pc = "mark"
    /\ SaveRow(g.file, Started(g.file, g.sid), g.sid)
    /\ Becomes(f, [g EXCEPT !.pc = "run", !.file = NoFile])
    /\ UNCHANGED <<ticker, web, bounds, hist>>

\* The run in one target returned an id, or none: refused, failed or raised.
FireReturned(f) ==
    LET g == [fire[f] EXCEPT !.left = @ - 1] IN
    /\ fire[f].pc = "run"
    /\ \/ Becomes(f, [g EXCEPT !.pc = "set", !.rid = TRUE])
       \/ Becomes(f, [g EXCEPT !.pc = Unfinished(g)])
    /\ UNCHANGED <<store, torn, ticker, web, bounds, hist>>

\* A second cancel, in its finally, ends the fire after the job in flight.
FireSet(f) ==
    LET g == fire[f] IN
    /\ g.pc \in {"setting", "finsetting"}
    /\ SaveRow(g.file, Running(g.file, g.sid, "ended"), g.sid)
    /\ Becomes(f, IF g.cancels = 2 THEN IdleFire
                  ELSE [g EXCEPT !.file = NoFile,
                                 !.pc = IF @ = "setting" THEN Unfinished(g) ELSE "fin"])
    /\ UNCHANGED <<ticker, web, bounds, hist>>

FireFinished(f) ==
    LET g == fire[f] IN
    /\ g.pc = "finishing"
    /\ SaveRow(g.file, Running(g.file, g.sid, "none"), g.sid)
    /\ Becomes(f, IdleFire)
    /\ UNCHANGED <<ticker, web, bounds, hist>>

CancellableAlways(g) == g.pc # "idle"    \* mutant: also while no row leads to it

\* A fire's task is found through the row of its run: while that run goes on,
\* and, once cancelled, for the 8 s its row is kept.
Cancellable(g) == g.pc = "run" \/ g.cancels = 1
Cancelled(g) == [g EXCEPT !.cancels = @ + 1, !.left = 0,
                          !.pc = IF @ = "run" THEN Unfinished([g EXCEPT !.left = 0])
                                              ELSE @]

\* A Stop of its run from the dashboard.
FireStopped(f) ==
    /\ Cancellable(fire[f])
    /\ Becomes(f, Cancelled(fire[f]))
    /\ UNCHANGED <<store, torn, ticker, web, bounds, hist>>

----------------------------------------------------------------------------
(* _tick_schedules: clear_stale_running, list_items and expire_windows in  *)
(* a thread each (the global store expires before it lists), then one      *)
(* task for every listed row that is due.  20 s pass between two ticks,    *)
(* which is more than a created task needs to mark its row.                *)

TickClearLoad ==
    /\ ticker.pc = "rest"
    /\ \A f \in Fire : fire[f].pc \notin {"new", "mark"}
    /\ ticker' = [ticker EXCEPT !.pc = "clear", !.file = store]
    /\ UNCHANGED <<store, torn, fire, web, bounds, hist>>

TickCleared ==
    /\ ticker.pc = "clear"
    /\ SaveChanged(ticker.file, StaleCleared(ticker.file))
    /\ ticker' = [ticker EXCEPT !.pc = IF global THEN "expire" ELSE "list",
                                !.file = NoFile]
    /\ UNCHANGED <<fire, web, bounds, hist>>

\* A workspace's rows are listed before its windows expire.
TickListed ==
    /\ ticker.pc = "list"
    /\ ticker' = [ticker EXCEPT !.pc = IF global THEN "fire" ELSE "expire",
                                !.items = store]
    /\ UNCHANGED <<store, torn, fire, web, bounds, hist>>

TickExpireLoad ==
    /\ ticker.pc = "expire"
    /\ ticker' = [ticker EXCEPT !.pc = "expiring", !.file = store]
    /\ UNCHANGED <<store, torn, fire, web, bounds, hist>>

TickExpired ==
    /\ ticker.pc = "expiring"
    /\ SaveChanged(ticker.file, WindowsExpired(ticker.file))
    /\ ticker' = [ticker EXCEPT !.pc = IF global THEN "list" ELSE "fire",
                                !.file = NoFile]
    /\ UNCHANGED <<fire, web, bounds, hist>>

\* All due rows fire; when Fire has too few slots (a bound), as many as fit.
TickFired ==
    LET due == {s \in Sched : IsDue(ticker.items[s])} IN
    /\ ticker.pc = "fire"
    /\ \E fired \in SUBSET due : \E to \in [fired -> Free] :
           /\ fired = due \/ Cardinality(fired) = Cardinality(Free)
           /\ \A s, t \in fired : s # t => to[s] # to[t]
           /\ fire' = [f \in Fire |-> IF \E s \in fired : to[s] = f
                                      THEN Spawned(CHOOSE s \in fired : to[s] = f)
                                      ELSE fire[f]]
           /\ firedIn' = [s \in Sched |-> IF s \in fired THEN now ELSE firedIn[s]]
           /\ refired' = refired \cup {s \in fired : firedIn[s] = now}
    /\ ticker' = IdleTicker
    /\ UNCHANGED <<store, torn, web, bounds, used>>

----------------------------------------------------------------------------
(* The HTTP handlers.  Every one but create locates its row first; what it *)
(* changes it loads again.                                                 *)

Begins(w, v) ==
    /\ web[w].pc = "idle" /\ events < MaxEvents
    /\ events' = events + 1
    /\ web' = [web EXCEPT ![w] = v]
    /\ UNCHANGED <<store, torn, ticker, fire, global, now>>

Handles(op, s) == [IdleWeb EXCEPT !.pc = "load", !.op = op, !.sid = s]

WebUpdate(w, s) ==
    /\ store[s].in
    /\ \E p \in {NewRow(TRUE), NewRow(FALSE), [Gone EXCEPT !.until = now]} :
           Begins(w, [Handles("update", s) EXCEPT !.patch = p])
    /\ UNCHANGED hist

\* Also the first half of a move to another store.
WebDelete(w, s) == store[s].in /\ Begins(w, Handles("delete", s)) /\ UNCHANGED hist
WebStop(w, s)   == store[s].in /\ Begins(w, Handles("stop", s)) /\ UNCHANGED hist

WebCreate(w, s) ==
    /\ s \notin used /\ used' = used \cup {s}
    /\ \E e \in BOOLEAN, op \in {"create", "create and run"} :
           Begins(w, [Handles(op, s) EXCEPT !.patch = NewRow(e)])
    /\ UNCHANGED <<firedIn, refired>>

\* A move from another store: a new row, which then takes the old id, not that
\* of a row still being created.
WebMoveIn(w, s, t) ==
    /\ s # t /\ ~store[s].in /\ t \notin used /\ used' = used \cup {s, t}
    /\ \A v \in Web : web[v].op \in {"create", "create and run", "move"} => web[v].sid # s
    /\ Begins(w, [Handles("move", t) EXCEPT !.tmp = s, !.patch = NewRow(TRUE)])
    /\ UNCHANGED <<firedIn, refired>>

WebRun(w, s) ==
    /\ store[s].in
    /\ web[w].pc = "idle" /\ events < MaxEvents /\ events' = events + 1
    /\ \E f \in Free : Becomes(f, Spawned(s))
    /\ UNCHANGED <<store, torn, ticker, web, global, now, hist>>

WebLoad(w) ==
    /\ web[w].pc = "load"
    /\ web' = [web EXCEPT ![w].pc = "save", ![w].file = store]
    /\ UNCHANGED <<store, torn, ticker, fire, bounds, hist>>

\* What the handler makes of the file it has loaded.
Made(v) ==
    LET f == v.file
        r == f[v.sid]
    IN CASE v.op = "update" ->
              Change(f, v.sid, IF v.patch.in THEN [r EXCEPT !.enabled = v.patch.enabled]
                                             ELSE [r EXCEPT !.until = v.patch.until])
         [] v.op = "delete" -> Change(f, v.sid, Gone)
         [] v.op = "stop" -> Change(f, v.sid, [r EXCEPT !.enabled = FALSE])
         [] v.op = "stopped" -> Running(f, v.sid, "none")
         [] v.op \in {"create", "create and run", "move"} ->
              [f EXCEPT ![v.sid] = v.patch]
         [] v.op = "rename" -> IF r.in THEN [f EXCEPT ![v.tmp] = r, ![v.sid] = Gone]
                                       ELSE f

WebSaved(w) ==
    LET v == web[w] IN
    /\ v.pc = "save"
    /\ Save(v.file, Made(v),
            v.file[v.sid].in \/ v.op \in {"create", "create and run", "move", "rename"})
    /\ web' = [web EXCEPT ![w] =
                 CASE v.op = "stop" -> [v EXCEPT !.pc = "cancel", !.file = NoFile]
                   [] v.op = "move" -> [v EXCEPT !.pc = "load", !.op = "rename",
                                                 !.file = NoFile]
                   [] OTHER -> IdleWeb]
    /\ IF v.op = "create and run"
       THEN \E f \in Free : Becomes(f, Spawned(v.sid))
       ELSE UNCHANGED fire
    /\ firedIn' = IF v.op = "rename" THEN [firedIn EXCEPT ![v.tmp] = Never] ELSE firedIn
    /\ UNCHANGED <<ticker, bounds, used, refired>>

\* handle_schedules_stop between its two jobs.  The id it located is not that
\* of a live run (see StaleCleared), so _cancel_run_ids finds no row; for a
\* global row the runs of its prompt are cancelled.
WebCancels(w) ==
    LET v == web[w] IN
    /\ v.pc = "cancel"
    /\ fire' = [f \in Fire |-> IF global /\ Cancellable(fire[f]) /\ fire[f].sid = v.sid
                               THEN Cancelled(fire[f]) ELSE fire[f]]
    /\ web' = [web EXCEPT ![w].pc = "load", ![w].op = "stopped"]
    /\ UNCHANGED <<store, torn, ticker, bounds, hist>>

----------------------------------------------------------------------------
IntervalPasses ==
    /\ now < MaxNow /\ now' = now + 1
    /\ UNCHANGED <<store, torn, ticker, fire, web, global, events, hist>>

\* The daemon dies; the file stays.  A fire that dies before it has marked
\* its row has run nothing.
Unmarked(s) == \E f \in Fire : fire[f].sid = s /\ fire[f].pc \in {"new", "mark"}
DaemonRestarts ==
    /\ events < MaxEvents /\ events' = events + 1
    /\ ticker' = IdleTicker
    /\ fire' = [f \in Fire |-> IdleFire]
    /\ web' = [w \in Web |-> IdleWeb]
    /\ firedIn' = [s \in Sched |-> IF Unmarked(s) THEN Never ELSE firedIn[s]]
    /\ UNCHANGED <<store, torn, global, now, used, refired>>

FireSteps(f) == FireLoad(f) \/ FireMarked(f) \/ FireReturned(f) \/ FireSet(f)
                \/ FireFinished(f)
TickerSteps == TickClearLoad \/ TickCleared \/ TickListed \/ TickExpireLoad
               \/ TickExpired \/ TickFired
WebSteps(w) == WebLoad(w) \/ WebSaved(w) \/ WebCancels(w)
Requests(w) == \E s \in Sched : WebUpdate(w, s) \/ WebDelete(w, s) \/ WebStop(w, s)
                   \/ WebCreate(w, s) \/ WebRun(w, s)
                   \/ \E t \in Sched : WebMoveIn(w, s, t)

Next ==
    \/ \E f \in Fire : FireSteps(f) \/ FireStopped(f)
    \/ TickerSteps
    \/ \E w \in Web : WebSteps(w) \/ Requests(w)
    \/ IntervalPasses \/ DaemonRestarts

\* The ticker loops for ever, threads and handlers go on, and a run ends (so
\* that a slot of Fire comes free).
Fairness ==
    /\ WF_vars(TickerSteps)
    /\ \A f \in Fire : WF_vars(FireSteps(f))
    /\ \A w \in Web : WF_vars(WebSteps(w))

Spec == Init /\ [][Next]_vars /\ Fairness

----------------------------------------------------------------------------
\* The file, what each process holds of it, and the histories are well formed.
TypeOK ==
    /\ store \in File /\ torn \in BOOLEAN
    /\ ticker \in [pc : {"rest", "clear", "list", "expire", "expiring", "fire"},
                    file : File, items : File]
    /\ fire \in [Fire -> [pc : {"idle", "run"} \cup DOMAIN JobOf
                                 \cup {JobOf[j] : j \in DOMAIN JobOf},
                          sid : Sched, file : File, left : 0..Targets,
                          rid : BOOLEAN, cancels : 0..2]]
    /\ web \in [Web -> [pc : {"idle", "load", "save", "cancel"},
                        op : {"none", "update", "delete", "stop", "stopped", "create",
                              "create and run", "move", "rename"},
                        sid : Sched, tmp : Sched, file : File, patch : Row]]
    /\ global \in BOOLEAN /\ now \in 0..MaxNow /\ events \in 0..MaxEvents
    /\ used \subseteq Sched /\ refired \subseteq Sched
    /\ firedIn \in [Sched -> {Never} \cup 0..MaxNow]

\* The daemon's ticker fires a row twice in one interval only after some save
\* overwrote a change it had not seen: the stale list it fires from and a
\* delayed mark_started are not enough.
OncePerInterval == refired # {} => torn

\* A row's running_run_id never blocks it for good, whatever was lost: a
\* crash in mid-fire, a fire that a second cancel cut short, an overwritten
\* mark_finished.
NeverBlocked == \A s \in Sched : store[s].running # "none" ~> store[s].running = "none"

\* handle_schedules_stop: "Disable the schedule and cancel its live Auto
\* run(s)".  No run of the schedule goes on past the step that cancels.
StopCancels ==
    [][\A w \in Web, f \in Fire :
          (web[w].pc = "cancel" /\ web'[w].pc = "load"
           /\ fire[f].pc = "run" /\ fire[f].sid = web[w].sid)
              => fire'[f].pc # "run"]_vars
=============================================================================
