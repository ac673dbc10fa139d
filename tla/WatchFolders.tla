---------------------------- MODULE WatchFolders ----------------------------
(***************************************************************************)
(* One watched folder: its entry in watch-folders.json, the machine's      *)
(* seen and pending indexes, the beat that scans it, the handoffs of the   *)
(* files a beat picked, and the HTTP handlers that add, remove, pause and  *)
(* resume it.                                                              *)
(*                                                                         *)
(* What runs under _INDEX_LOCK is one step.  The folder's entry is not     *)
(* under that lock.  Time is counted in beats of 60 s.  A file is its rank *)
(* by modification time; symbolic links, settling and file sizes are left  *)
(* out (a file that may not be ingested is Unfit).                         *)
(***************************************************************************)
EXTENDS Naturals, FiniteSets

CONSTANTS N,           \* files, the oldest first
          Cloud,       \* files that arrive as placeholders
          Broken,      \* files whose ingest always fails
          Unfit,       \* files a scan marks seen: too large, or no extractor
          Cap,         \* MAX_PER_BEAT
          Web,         \* HTTP handlers, used again when idle
          MaxAttempts, \* bound: attempts are counted up to here
          MaxFailures, \* bound: failures of files that are not Broken
          MaxEvents    \* bound: requests and crashes

File == 1..N

ASSUME WatchAssumption ==
    /\ N \in Nat /\ Cap \in Nat /\ Cap >= 2
    /\ Cloud \subseteq File /\ Broken \subseteq File /\ Unfit \subseteq File
    /\ MaxAttempts \in Nat \ {0} /\ MaxFailures \in Nat /\ MaxEvents \in Nat

VARIABLES entry,       \* the folder in watch-folders.json
          there,       \* the files in the folder
          local,       \* those with their bytes on this machine
          seen,        \* watch-seen.json
          pending,     \* watch-pending.json: attempts, and beats to skip
          beat,        \* _watch_folders_loop
          hand,        \* the handoff thread of each file
          web,
          failures, events,
          ingests,     \* history: how often a file was ingested
          baselined,   \* history: files marked seen by a baseline
          redo         \* history: files ingested whose handoff did not end well

budget == <<failures, events>>
history == <<ingests, baselined, redo>>
vars == <<entry, there, local, seen, pending, beat, hand, web, budget, history>>

NotPending == [tries |-> 0, skip |-> 0]
IdleWeb == [pc |-> "idle", op |-> "none"]

Init ==
    /\ entry \in {"none", "on", "off"} /\ there = {} /\ local = {} /\ seen = {}
    /\ pending = [f \in File |-> NotPending]
    /\ beat = "rest"
    /\ hand = [f \in File |-> "none"]
    /\ web = [w \in Web |-> IdleWeb]
    /\ failures = 0 /\ events = 0
    /\ baselined = {} /\ redo = {}
    /\ ingests = [f \in File |-> 0]

\* The modification times are those of the arrivals.
Arrive(f) ==
    /\ f \notin there /\ \A g \in File : g < f => g \in there
    /\ there' = there \cup {f}
    /\ local' = IF f \in Cloud THEN local ELSE local \cup {f}
    /\ UNCHANGED <<entry, seen, pending, beat, hand, web, budget,
                   ingests, baselined, redo>>

----------------------------------------------------------------------------
(* add_folder, remove_folder, set_enabled: the entries are loaded and      *)
(* saved without a lock; then, if the folder is now on, its contents are   *)
(* marked seen under the lock.                                             *)

Accepts(op, e) == CASE op = "add" -> e = "none"
                    [] op = "remove" -> e # "none"
                    [] op \in {"pause", "resume"} -> e # "none"

Request(w, op) ==
    /\ web[w].pc = "idle" /\ Accepts(op, entry)
    /\ events < MaxEvents /\ events' = events + 1
    /\ web' = [web EXCEPT ![w] = [pc |-> "save", op |-> op]]
    /\ UNCHANGED <<entry, there, local, seen, pending, beat, hand, failures, history>>

SaveEntry(w) ==
    LET op == web[w].op IN
    /\ web[w].pc = "save"
    /\ entry' = CASE op \in {"add", "resume"} -> "on"
                  [] op = "remove" -> "none"
                  [] op = "pause" -> "off"
    /\ web' = [web EXCEPT ![w] = IF op \in {"add", "resume"}
                                 THEN [@ EXCEPT !.pc = "baseline"] ELSE IdleWeb]
    /\ UNCHANGED <<there, local, seen, pending, beat, hand, budget, history>>

Baseline(w) ==
    /\ web[w].pc = "baseline"
    /\ seen' = seen \cup there
    /\ baselined' = baselined \cup there
    /\ web' = [web EXCEPT ![w] = IdleWeb]
    /\ UNCHANGED <<entry, there, local, pending, beat, hand, budget,
                   ingests, redo>>

----------------------------------------------------------------------------
(* One beat.  scan_candidates reads the folders, then, under the lock,     *)
(* the folder's contents and both indexes; the loop waits for the handoffs *)
(* of the files it picked before it sleeps again.                          *)

BackoffUnclipped(tries) == (15 * 2^tries) \div 60     \* mutant: MAX_BACKOFF is lost
NoBackoff(tries) == 0          \* mutant: a failing file is due at every beat

\* _backoff is min(300, 15 * 2^(tries - 1)) seconds: the beats it skips.
BackoffBeats(tries) == CASE tries <= 3 -> 0
                         [] tries = 4 -> 1
                         [] tries = 5 -> 3
                         [] OTHER -> 4

PickAll(ready, due) == ready \cup due     \* mutant: no cap

Least(S, n) == {f \in S : Cardinality({g \in S : g < f}) < n}
Lower(a, b) == IF a < b THEN a ELSE b
Higher(a, b) == IF a > b THEN a ELSE b

\* _fair_pick of the ready and the due, each oldest first.
FairPick(ready, due) ==
    LET dueTake == IF ready = {} THEN Cap
                   ELSE Lower(Cardinality(due), Higher(1, Cap \div 2))
        readyTake == Lower(Cardinality(ready), Cap - dueTake)
        first == Least(ready, readyTake) \cup Least(due, dueTake)
        extra == Least(ready \ first, Cap - Cardinality(first))
        more == first \cup extra
    IN  IF due = {} THEN Least(ready, Cap)
        ELSE more \cup Least(due \ more, Cap - Cardinality(more))

ScanFolders ==
    /\ beat = "rest" /\ entry = "on"
    /\ beat' = "scan"
    /\ UNCHANGED <<entry, there, local, seen, pending, hand, web, budget, history>>

Fit == (there \ seen) \ Unfit
Ready == {f \in Fit : pending[f].tries = 0 /\ f \in local}
Due == {f \in Fit : IF pending[f].tries = 0 THEN f \notin local ELSE pending[f].skip = 0}

\* Another beat has passed for every pending file.
ScanFiles ==
    /\ beat = "scan"
    /\ seen' = seen \cup (there \cap Unfit)
    /\ pending' = [f \in File |-> [pending[f] EXCEPT !.skip = IF @ > 0 THEN @ - 1 ELSE 0]]
    /\ hand' = [f \in File |-> IF f \in FairPick(Ready, Due) THEN "start" ELSE hand[f]]
    /\ beat' = "gather"
    /\ UNCHANGED <<entry, there, local, web, budget, history>>

Gathered ==
    /\ beat = "gather" /\ \A f \in File : hand[f] = "none"
    /\ beat' = "rest"
    /\ UNCHANGED <<entry, there, local, seen, pending, hand, web, budget, history>>

----------------------------------------------------------------------------
(* handoff, in a thread of its own.  handoff_allowed reads the entry again *)
(* at the start, after hydration and after staging.                        *)

At(f, pc) == hand[f] = pc
Goes(f, pc) == hand' = [hand EXCEPT ![f] = pc]

\* Go on if the folder is still watched; otherwise the file is skipped.
Allowed(f, pc) == Goes(f, IF entry = "on" THEN pc ELSE "none")

\* record_pending
Capped(n) == Lower(n, MaxAttempts)
RecordPending(f) ==
    LET tries == Capped(pending[f].tries + 1)
    IN  pending' = [pending EXCEPT ![f] = [tries |-> tries, skip |-> BackoffBeats(tries)]]

\* mark_seen: seen, and no longer pending.
MarkSeen(f) ==
    /\ seen' = seen \cup {f}
    /\ pending' = [pending EXCEPT ![f] = NotPending]

MayFail(f) ==
    IF f \in Broken THEN UNCHANGED failures
    ELSE failures < MaxFailures /\ failures' = failures + 1

Begin(f) ==
    /\ At(f, "start")
    /\ Allowed(f, IF f \in local THEN "stage" ELSE "hydrate")
    /\ UNCHANGED <<entry, there, local, seen, pending, beat, web, budget, history>>

Hydrated(f) ==
    /\ At(f, "hydrate")
    /\ local' = local \cup {f}
    /\ Allowed(f, "stage")
    /\ UNCHANGED <<entry, there, seen, pending, beat, web, budget, history>>

Staged(f) ==
    /\ At(f, "stage")
    /\ Allowed(f, "ingest")
    /\ UNCHANGED <<entry, there, local, seen, pending, beat, web, budget, history>>

FailsForGood(f) ==             \* mutant: a failure marks the file seen
    /\ hand[f] \in {"hydrate", "stage", "ingest"} /\ MayFail(f)
    /\ MarkSeen(f) /\ Goes(f, "none")
    /\ UNCHANGED <<entry, there, local, beat, web, events, history>>

\* Not hydrated in time, not to be copied, or rejected by the extractor.
Fails(f) ==
    /\ hand[f] \in {"hydrate", "stage", "ingest"}
    /\ f \in Broken => At(f, "ingest")
    /\ MayFail(f)
    /\ RecordPending(f)
    /\ Goes(f, "none")
    /\ UNCHANGED <<entry, there, local, seen, beat, web, events, history>>

Ingested(f) ==
    /\ At(f, "ingest") /\ f \notin Broken
    /\ ingests' = [ingests EXCEPT ![f] = @ + 1]
    /\ Goes(f, "stamp")
    /\ UNCHANGED <<entry, there, local, seen, pending, beat, web, budget,
                   baselined, redo>>

SucceedsUnmarked(f) ==         \* mutant: seen is not saved
    /\ At(f, "stamp") /\ Goes(f, "none")
    /\ UNCHANGED <<entry, there, local, seen, pending, beat, web, budget, history>>

\* The provenance was stamped and indexed.
Succeeds(f) ==
    /\ At(f, "stamp")
    /\ MarkSeen(f)
    /\ Goes(f, "none")
    /\ UNCHANGED <<entry, there, local, beat, web, budget, history>>

\* IndexSyncError: the extract stays, and the file is ingested again.
StampFails(f) ==
    /\ At(f, "stamp")
    /\ MayFail(f)
    /\ RecordPending(f)
    /\ redo' = redo \cup {f}
    /\ Goes(f, "none")
    /\ UNCHANGED <<entry, there, local, seen, beat, web, events,
                   ingests, baselined>>

----------------------------------------------------------------------------
DaemonRestarts ==
    /\ events < MaxEvents /\ events' = events + 1
    /\ beat' = "rest"
    /\ hand' = [f \in File |-> "none"]
    /\ web' = [w \in Web |-> IdleWeb]
    /\ redo' = redo \cup {f \in File : At(f, "stamp")}
    /\ UNCHANGED <<entry, there, local, seen, pending, failures, ingests, baselined>>

Handoff(f) == \/ Begin(f) \/ Hydrated(f) \/ Staged(f) \/ Fails(f)
              \/ Ingested(f) \/ Succeeds(f) \/ StampFails(f)
Beat == ScanFolders \/ ScanFiles \/ Gathered
WebSteps(w) == SaveEntry(w) \/ Baseline(w)

Next ==
    \/ \E f \in File : Arrive(f) \/ Handoff(f)
    \/ Beat
    \/ \E w \in Web : WebSteps(w)
                      \/ \E op \in {"add", "remove", "pause", "resume"} : Request(w, op)
    \/ DaemonRestarts

\* The loop beats for ever; hydration, copy and ingest have timeouts.
Fairness ==
    /\ WF_vars(Beat)
    /\ \A f \in File : WF_vars(Handoff(f))
    /\ \A w \in Web : WF_vars(WebSteps(w))

Spec == Init /\ [][Next]_vars /\ Fairness

----------------------------------------------------------------------------
TypeOK ==
    /\ entry \in {"none", "on", "off"}
    /\ there \subseteq File /\ local \subseteq there /\ seen \subseteq there
    /\ pending \in [File -> [tries : 0..MaxAttempts, skip : 0..4]]
    /\ beat \in {"rest", "scan", "gather"}
    /\ hand \in [File -> {"none", "start", "hydrate", "stage", "ingest", "stamp"}]
    /\ web \in [Web -> [pc : {"idle", "save", "baseline"},
                        op : {"none", "add", "remove", "pause", "resume"}]]
    /\ failures \in 0..MaxFailures /\ events \in 0..MaxEvents
    /\ baselined \subseteq there /\ redo \subseteq there
    /\ ingests \in [File -> Nat]

\* A beat never has more than MAX_PER_BEAT files in the hands of threads,
\* however slow they are: the next beat waits for them.
CapPerBeat == Cardinality({f \in File : hand[f] # "none"}) <= Cap

\* "Crash/download/staging failure must not permanently lose the file": a
\* file is only ever marked seen because it was ingested, was baselined or may
\* not be ingested.
SeenIsDealtWith ==
    \A f \in seen : ingests[f] > 0 \/ f \in baselined \/ f \in Unfit

\* A file is ingested a second time only after a crash or a failing stamp
\* between its ingest and mark_seen.
IngestedOnce == \A f \in File : ingests[f] > 1 => f \in redo

\* Neither placeholders nor files whose ingest always fails starve the others:
\* a fit file of a folder that stays watched is dealt with in the end.
NotStarved == \A f \in File \ Broken :
    f \in there /\ entry = "on" ~> (f \in seen \/ entry # "on")
=============================================================================
