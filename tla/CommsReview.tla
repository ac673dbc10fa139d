---------------------------- MODULE CommsReview ----------------------------
(***************************************************************************)
(* One mail account: the review store of its sources (email threads), the  *)
(* account's workspace allowlist, the transit buffer with its receipts and *)
(* its quarantine file, and the coroutines that poll, fetch bodies, deliver*)
(* them into transit and curate them into the allowlisted wikis.           *)
(*                                                                         *)
(* What the loop's thread does between two awaits is one step, and so is   *)
(* what runs under the review store's lock.  consume_transit runs in a     *)
(* worker thread: its read and its write of the buffer are two steps.  An  *)
(* event is a message and the workspace it was fetched for.  The caps of   *)
(* the buffer and of a batch, and the seat a curation takes on its desk    *)
(* (module DeskGate), are left out.                                        *)
(***************************************************************************)
EXTENDS Naturals, FiniteSets

CONSTANTS Source,       \* keys of the review store
          Message,
          Of,           \* the source a message belongs to
          Secret,       \* messages whose own headers classify them
          Workspace,
          Loop, Web,    \* _stream_poll_loop; HTTP handlers, used again when idle
          AutoCurate,   \* the account's setting
          MaxDecisions, \* bound: approve, reject, revoke and routing requests
          MaxFaults     \* bound: failing polls, fetches and curations, and crashes

ASSUME CommsAssumption ==
    /\ Of \in [Message -> Source] /\ Secret \subseteq Message
    /\ Source # {} /\ Workspace # {}
    /\ Loop \notin Web /\ AutoCurate \in BOOLEAN
    /\ MaxDecisions \in Nat /\ MaxFaults \in Nat

Proc == {Loop} \cup Web
Event == Message \X Workspace

VARIABLES
    status, approved, refs, revoked,   \* comms-review.json
    allow,                             \* the account's allowlist
    mail,                              \* messages in the mailbox
    transit, quarantine, receipts,     \* the account's files
    pc,          \* where a coroutine is
    then,        \* what follows its fetches
    todo,        \* the sources and workspaces it has yet to fetch for
    acct,        \* the allowlist of the account it read when it began
    key, ws,     \* the source and the workspace it is at
    msgs, asked, \* the messages it has yet to fetch, and the one it is at
    held,        \* the events in its hands
    left,        \* the workspaces it has yet to curate into
    gone, snap,  \* what it consumes, and what it will write back
    decisions, faults,
    granted,     \* history: every approval the user gave
    settled,     \* history: events committed to a wiki, or purged before
    clobbered    \* history: events a concurrent write dropped from transit

store == <<status, approved, refs, revoked>>
files == <<transit, quarantine, receipts>>
fetching == <<key, msgs, asked>>
consuming == <<gone, snap>>
locals == <<pc, then, todo, acct, ws, held, left, fetching, consuming>>
budget == <<decisions, faults>>
history == <<granted, settled, clobbered>>
vars == <<store, allow, mail, files, locals, budget, history>>

\* What an idle coroutine has in its locals does not matter.
NoKey == CHOOSE k \in Source : TRUE
NoWs == CHOOSE w \in Workspace : TRUE

Init ==
    /\ status = [k \in Source |-> "none"]
    /\ approved = [k \in Source |-> {}]
    /\ refs = {} /\ revoked = {} /\ mail = {}
    /\ allow \in SUBSET Workspace
    /\ transit = {} /\ quarantine = {} /\ receipts = {}
    /\ pc = [p \in Proc |-> "idle"]
    /\ then = [p \in Proc |-> "end"]
    /\ todo = [p \in Proc |-> {}] /\ acct = [p \in Proc |-> {}]
    /\ key = [p \in Proc |-> NoKey] /\ ws = [p \in Proc |-> NoWs]
    /\ msgs = [p \in Proc |-> {}]
    /\ asked = [p \in Proc |-> {}]
    /\ held = [p \in Proc |-> {}]
    /\ left = [p \in Proc |-> {}]
    /\ gone = [p \in Proc |-> {}]
    /\ snap = [p \in Proc |-> {}]
    /\ decisions = 0 /\ faults = 0
    /\ granted = {} /\ settled = {} /\ clobbered = {}

At(p, s) == pc[p] = s
Goes(p, s) == pc' = [pc EXCEPT ![p] = s]
Reads(p) == acct' = [acct EXCEPT ![p] = allow]
Ends(p) == Goes(p, "idle") /\ acct' = [acct EXCEPT ![p] = {}]

Decide == decisions < MaxDecisions /\ decisions' = decisions + 1 /\ UNCHANGED faults
Fail == faults < MaxFaults /\ faults' = faults + 1 /\ UNCHANGED decisions

Arrive(m) ==
    /\ m \notin mail
    /\ mail' = mail \cup {m}
    /\ UNCHANGED <<store, allow, files, locals, budget, history>>

-----------------------------------------------------------------------------
(* The review store.                                                       *)

\* is_revoked and the auth-only part of authorize_content_fetch.
Authorised(k, w) ==
    /\ k \notin revoked
    /\ w \in allow /\ w \in approved[k]
    /\ status[k] = "approved"

Surfaced(k, m) == IF k \in revoked THEN "revoked"
                  ELSE IF m \in Secret THEN "blocked"
                  ELSE IF status[k] = "approved" THEN "approved" ELSE "pending"

\* upsert_discovery: an approval stays, a rejected thread surfaces again.
Upsert(m) ==
    /\ status' = [status EXCEPT ![Of[m]] = Surfaced(Of[m], m)]
    /\ refs' = IF Of[m] \in revoked THEN refs ELSE refs \cup {m}
    /\ UNCHANGED <<approved, revoked>>

RevocationKeeping(k, s) ==     \* mutant: the workspaces stay in the item
    /\ revoked' = revoked \cup {k}
    /\ status' = [status EXCEPT ![k] = s]
    /\ UNCHANGED <<approved, refs>>

\* The user, or a fetch whose fresh headers say secret.
Revocation(k, s) ==
    /\ revoked' = revoked \cup {k}
    /\ status' = [status EXCEPT ![k] = s]
    /\ approved' = [approved EXCEPT ![k] = {}]
    /\ UNCHANGED refs

Approve(p, k, w) ==
    /\ p \in Web /\ At(p, "idle") /\ Decide
    /\ w \in allow /\ k \notin revoked /\ status[k] \notin {"none", "blocked"}
    /\ approved' = [approved EXCEPT ![k] = @ \cup {w}]
    /\ status' = [status EXCEPT ![k] = "approved"]
    /\ granted' = granted \cup {<<k, w>>}
    /\ todo' = [todo EXCEPT ![p] = {<<k, w>>}]
    /\ then' = [then EXCEPT ![p] = "if new"]
    /\ Goes(p, "fetch") /\ Reads(p)
    /\ UNCHANGED <<refs, revoked, allow, mail, files, ws, held, left, fetching, consuming,
                   settled, clobbered>>

\* The workspaces it was approved for stay in the item.
Reject(k) ==
    /\ status[k] # "none" /\ k \notin revoked /\ Decide
    /\ status' = [status EXCEPT ![k] = "rejected"]
    /\ UNCHANGED <<approved, refs, revoked, allow, mail, files, locals, history>>

Revoke(k) ==
    /\ status[k] # "none" /\ k \notin revoked /\ Decide
    /\ Revocation(k, "revoked")
    /\ UNCHANGED <<allow, mail, files, locals, history>>

SetAllow(ok) ==
    /\ ok # allow /\ Decide
    /\ allow' = ok
    /\ UNCHANGED <<store, mail, files, locals, history>>

-----------------------------------------------------------------------------
(* poll_account: the buffer is quarantined, the listed messages are        *)
(* recorded (an older one may be listed again), approved threads fetched.  *)

Approvals == {a \in Source \X Workspace :
                 /\ a[1] \notin revoked /\ status[a[1]] = "approved"
                 /\ a[2] \in approved[a[1]] \cap allow}

Poll(p) ==
    /\ At(p, "idle")
    /\ quarantine' = quarantine \cup transit
    /\ transit' = {}
    /\ then' = [then EXCEPT ![p] = IF p = Loop /\ AutoCurate THEN "curate" ELSE "end"]
    /\ Goes(p, "discover") /\ Reads(p)
    /\ UNCHANGED <<store, allow, mail, receipts, todo, ws, held, left, fetching, consuming,
                   budget, history>>

Discovered(p, m) ==
    /\ At(p, "discover") /\ m \in mail
    /\ Upsert(m)
    /\ UNCHANGED <<allow, mail, files, locals, budget, history>>

ListedOnly(p) ==               \* mutant: a poll only discovers
    /\ At(p, "discover")
    /\ \A m \in mail : m \in refs \/ Of[m] \in revoked
    /\ Goes(p, "fetch")
    /\ UNCHANGED <<store, allow, mail, files, then, todo, acct, ws, held, left, fetching, consuming,
                   budget, history>>

Listed(p) ==
    /\ At(p, "discover")
    /\ \A m \in mail : m \in refs \/ Of[m] \in revoked
    /\ todo' = [todo EXCEPT ![p] = Approvals]
    /\ Goes(p, "fetch")
    /\ UNCHANGED <<store, allow, mail, files, then, acct, ws, held, left, fetching, consuming,
                   budget, history>>

PollFails(p) ==
    /\ At(p, "discover") /\ Fail
    /\ Ends(p)
    /\ UNCHANGED <<store, allow, mail, files, then, todo, ws, held, left, fetching, consuming,
                   history>>

\* handle_streams_curate
Curate(p) ==
    /\ p \in Web /\ At(p, "idle")
    /\ todo' = [todo EXCEPT ![p] = Approvals]
    /\ then' = [then EXCEPT ![p] = "curate"]
    /\ Goes(p, "fetch") /\ Reads(p)
    /\ UNCHANGED <<store, allow, mail, files, ws, held, left, fetching, consuming, budget, history>>

-----------------------------------------------------------------------------
(* fetch_approved_thread, for one source and workspace after the other.    *)

Begin(p, k, w) ==
    /\ At(p, "fetch") /\ <<k, w>> \in todo[p]
    /\ todo' = [todo EXCEPT ![p] = @ \ {<<k, w>>}]
    /\ IF Authorised(k, w)
       THEN /\ key' = [key EXCEPT ![p] = k] /\ ws' = [ws EXCEPT ![p] = w]
            /\ msgs' = [msgs EXCEPT ![p] = {m \in refs : Of[m] = k}]
            /\ Goes(p, "headers")
       ELSE UNCHANGED <<key, ws, msgs, pc>>
    /\ UNCHANGED <<store, allow, mail, files, then, acct, asked, held, left, consuming, budget, history>>

\* The fetch of this source is over.
Leave(p) ==
    /\ Goes(p, "fetch")
    /\ key' = [key EXCEPT ![p] = NoKey] /\ ws' = [ws EXCEPT ![p] = NoWs]
    /\ msgs' = [msgs EXCEPT ![p] = {}] /\ asked' = [asked EXCEPT ![p] = {}]
    /\ held' = [held EXCEPT ![p] = {}]

\* classify_metadata, of the message's fresh headers.
SaysPublic(m) == FALSE         \* mutant: the listing's classification is trusted
SaysSecret(m) == m \in Secret

\* A message that has its receipt, or is not authorised now, is passed over.
Headers(p, m) ==
    LET k == key[p]
        wanted == Authorised(k, ws[p]) /\ <<m, ws[p]>> \notin receipts
    IN  /\ At(p, "headers") /\ m \in msgs[p]
        /\ \/ /\ wanted /\ SaysSecret(m)
              /\ Revocation(k, "blocked") /\ Leave(p)
           \/ /\ wanted /\ ~SaysSecret(m)
              /\ asked' = [asked EXCEPT ![p] = {m}]
              /\ Goes(p, "body")
              /\ UNCHANGED <<store, key, ws, msgs, held>>
           \/ /\ k \in revoked
              /\ Leave(p) /\ UNCHANGED store
           \/ /\ k \notin revoked /\ ~wanted
              /\ msgs' = [msgs EXCEPT ![p] = @ \ {m}]
              /\ UNCHANGED <<store, pc, key, ws, asked, held>>
        /\ UNCHANGED <<allow, mail, files, then, todo, acct, left, consuming, budget, history>>

\* The body has arrived: the source is checked again before it is parsed.
Body(p) ==
    /\ At(p, "body")
    /\ IF Authorised(key[p], ws[p])
       THEN /\ held' = [held EXCEPT ![p] = @ \cup (asked[p] \X {ws[p]})]
            /\ msgs' = [msgs EXCEPT ![p] = @ \ asked[p]]
            /\ asked' = [asked EXCEPT ![p] = {}]
            /\ Goes(p, "headers")
            /\ UNCHANGED <<key, ws>>
       ELSE Leave(p)
    /\ UNCHANGED <<store, allow, mail, files, then, todo, acct, left, consuming, budget, history>>

FetchFails(p) ==
    /\ pc[p] \in {"headers", "body"} /\ Fail
    /\ Leave(p)
    /\ UNCHANGED <<store, allow, mail, files, then, todo, acct, left, consuming, history>>

New(p) == held[p] \ receipts

Delivered(p) ==
    /\ transit' = transit \cup New(p)
    /\ receipts' = receipts \cup New(p)
    /\ then' = [then EXCEPT ![p] = IF @ = "if new" /\ New(p) # {} THEN "curate" ELSE @]

DeliverUnchecked(p) ==         \* mutant: revocation is not checked again
    /\ At(p, "headers") /\ msgs[p] = {}
    /\ Delivered(p)
    /\ Leave(p)
    /\ UNCHANGED <<store, allow, mail, quarantine, todo, acct, left, consuming, budget, history>>

\* The last check, the transit buffer and the receipts.
Deliver(p) ==
    /\ At(p, "headers") /\ msgs[p] = {}
    /\ IF Authorised(key[p], ws[p]) THEN Delivered(p) ELSE UNCHANGED <<transit, receipts, then>>
    /\ Leave(p)
    /\ UNCHANGED <<store, allow, mail, quarantine, todo, acct, left, consuming, budget, history>>

\* handle_comms_review_act curates only if its fetch brought something.
Fetched(p) ==
    /\ At(p, "fetch") /\ todo[p] = {}
    /\ IF then[p] = "curate" THEN Goes(p, "select") /\ UNCHANGED acct ELSE Ends(p)
    /\ then' = [then EXCEPT ![p] = "end"]
    /\ UNCHANGED <<store, allow, mail, files, todo, ws, held, left, fetching, consuming,
                   budget, history>>

-----------------------------------------------------------------------------
(* _run_stream_curation and _curate_into.                                  *)

Workspaces(events) == {e[2] : e \in events}
AnyRevoked(events) == \E e \in events : Of[e[1]] \in revoked
Share(p, w) == {e \in held[p] : e[2] = w}

\* The item's status is not looked at, only its workspaces and revocation; and
\* the allowlist is that of the account as it was when the coroutine began.
Curable(p, e) == Of[e[1]] \notin revoked /\ e[2] \in acct[p] /\ e[2] \in approved[Of[e[1]]]

Select(p) ==
    LET keep == {e \in transit : Curable(p, e)}
        bad == transit \ keep
    IN  /\ At(p, "select")
        /\ IF acct[p] = {} \/ transit = {}
           THEN Ends(p) /\ UNCHANGED <<held, left, gone, settled>>
           ELSE /\ held' = [held EXCEPT ![p] = keep]
                /\ left' = [left EXCEPT ![p] = Workspaces(keep)]
                /\ gone' = [gone EXCEPT ![p] = bad]
                /\ settled' = settled \cup bad
                /\ Goes(p, IF bad = {} THEN "curate" ELSE "purge")
                /\ UNCHANGED acct
        /\ UNCHANGED <<store, allow, mail, files, then, todo, ws, fetching, snap, budget,
                       granted, clobbered>>

Handoff(p, w) ==
    /\ At(p, "curate") /\ w \in left[p]
    /\ left' = [left EXCEPT ![p] = @ \ {w}]
    /\ IF AnyRevoked(Share(p, w)) \/ w \notin allow
       THEN UNCHANGED <<pc, ws>>
       ELSE Goes(p, "handoff") /\ ws' = [ws EXCEPT ![p] = w]
    /\ UNCHANGED <<store, allow, mail, files, then, todo, acct, held, fetching, consuming, budget, history>>

Following(p) == Goes(p, "curate") /\ ws' = [ws EXCEPT ![p] = NoWs]

HandsOver(p) ==                \* mutant: no check after the wait for a seat
    /\ At(p, "handoff")
    /\ Goes(p, "curating")
    /\ UNCHANGED <<store, allow, mail, files, then, todo, acct, ws, held, left, fetching, consuming,
                   budget, history>>

\* After the wait for a seat: the last checks, and the curator's prompt.
Send(p) ==
    /\ At(p, "handoff")
    /\ IF AnyRevoked(Share(p, ws[p])) \/ ws[p] \notin allow
       THEN Following(p)
       ELSE Goes(p, "curating") /\ UNCHANGED ws
    /\ UNCHANGED <<store, allow, mail, files, then, todo, acct, held, left, fetching, consuming,
                   budget, history>>

\* A commit of the wiki counts unless a source was revoked meanwhile.
Committed(p) ==
    LET won == IF AnyRevoked(Share(p, ws[p])) THEN {} ELSE Share(p, ws[p]) IN
    /\ At(p, "curating")
    /\ settled' = settled \cup won
    /\ gone' = [gone EXCEPT ![p] = @ \cup won]
    /\ Following(p)
    /\ UNCHANGED <<store, allow, mail, files, then, todo, acct, held, left, fetching, snap, budget,
                   granted, clobbered>>

FailsConsuming(p) ==           \* mutant: the events are consumed all the same
    /\ At(p, "curating") /\ Fail
    /\ gone' = [gone EXCEPT ![p] = @ \cup Share(p, ws[p])]
    /\ Following(p)
    /\ UNCHANGED <<store, allow, mail, files, then, todo, acct, held, left, fetching, snap, history>>

\* No commit, or an error of the provider.
CurationFails(p) ==
    /\ At(p, "curating") /\ Fail
    /\ Following(p)
    /\ UNCHANGED <<store, allow, mail, files, then, todo, acct, held, left, fetching, consuming,
                   history>>

RestsHolding(p) == Ends(p) /\ UNCHANGED held     \* mutant: the bodies are kept
Rests(p) == held' = [held EXCEPT ![p] = {}] /\ Ends(p)

Curated(p) ==
    /\ At(p, "curate") /\ left[p] = {}
    /\ IF gone[p] = {} THEN Rests(p) ELSE Goes(p, "consume") /\ UNCHANGED <<held, acct>>
    /\ UNCHANGED <<store, allow, mail, files, then, todo, ws, left, fetching, consuming,
                   budget, history>>

\* consume_transit, of the purged events and then of the curated ones.
ConsumeRead(p) ==
    /\ pc[p] \in {"purge", "consume"}
    /\ snap' = [snap EXCEPT ![p] = transit \ gone[p]]
    /\ Goes(p, IF At(p, "purge") THEN "purging" ELSE "consuming")
    /\ UNCHANGED <<store, allow, mail, files, then, todo, acct, ws, held, left, fetching, gone,
                   budget, history>>

ConsumeWrite(p) ==
    /\ pc[p] \in {"purging", "consuming"}
    /\ transit' = snap[p]
    /\ clobbered' = clobbered \cup (transit \ (snap[p] \cup gone[p]))
    /\ gone' = [gone EXCEPT ![p] = {}]
    /\ snap' = [snap EXCEPT ![p] = {}]
    /\ IF At(p, "purging") THEN Goes(p, "curate") /\ UNCHANGED <<held, acct>> ELSE Rests(p)
    /\ UNCHANGED <<store, allow, mail, quarantine, receipts, then, todo, ws, left, fetching,
                   budget, granted, settled>>

-----------------------------------------------------------------------------
\* A crash between the write of the buffer and the write of the receipts
\* leaves events without their receipts.
Crash ==
    /\ Fail
    /\ \/ UNCHANGED transit
       \/ \E p \in Proc : /\ At(p, "headers") /\ msgs[p] = {} /\ Authorised(key[p], ws[p])
                          /\ transit' = transit \cup New(p)
    /\ pc' = [p \in Proc |-> "idle"]
    /\ then' = [p \in Proc |-> "end"]
    /\ todo' = [p \in Proc |-> {}] /\ acct' = [p \in Proc |-> {}]
    /\ key' = [p \in Proc |-> NoKey] /\ ws' = [p \in Proc |-> NoWs]
    /\ msgs' = [p \in Proc |-> {}] /\ asked' = [p \in Proc |-> {}]
    /\ held' = [p \in Proc |-> {}] /\ left' = [p \in Proc |-> {}]
    /\ gone' = [p \in Proc |-> {}] /\ snap' = [p \in Proc |-> {}]
    /\ UNCHANGED <<store, allow, mail, quarantine, receipts, history>>

Fetch(p) ==
    \/ \E k \in Source, w \in Workspace : Begin(p, k, w)
    \/ \E m \in Message : Headers(p, m)
    \/ Body(p) \/ Deliver(p) \/ Fetched(p)

Curation(p) ==
    \/ Select(p) \/ Send(p) \/ Committed(p) \/ Curated(p)
    \/ \E w \in Workspace : Handoff(p, w)
    \/ ConsumeRead(p) \/ ConsumeWrite(p)

Discovery(p) == Listed(p) \/ \E m \in Message : Discovered(p, m)

Step(p) == Discovery(p) \/ Fetch(p) \/ Curation(p)

User ==
    \/ \E k \in Source : Reject(k) \/ Revoke(k)
    \/ \E ok \in SUBSET Workspace : SetAllow(ok)
    \/ \E p \in Web : Curate(p) \/ Poll(p)
                      \/ \E k \in Source, w \in Workspace : Approve(p, k, w)

Fails(p) == PollFails(p) \/ FetchFails(p) \/ CurationFails(p)

Next ==
    \/ \E m \in Message : Arrive(m)
    \/ User
    \/ Poll(Loop)
    \/ \E p \in Proc : Step(p) \/ Fails(p)
    \/ Crash

\* The loop polls for ever; a coroutine that is not waiting for the user
\* goes on (every network call has a timeout).
Fairness ==
    /\ WF_vars(Poll(Loop))
    /\ \A p \in Proc : WF_vars(Step(p))

Spec == Init /\ [][Next]_vars /\ Fairness

-----------------------------------------------------------------------------
StoreOK ==
    /\ status \in [Source -> {"none", "pending", "approved", "rejected", "revoked", "blocked"}]
    /\ approved \in [Source -> SUBSET Workspace]
    /\ refs \subseteq mail /\ mail \subseteq Message /\ revoked \subseteq Source
    /\ allow \subseteq Workspace
    /\ granted \subseteq Source \X Workspace

FilesOK ==
    /\ transit \subseteq Event /\ quarantine \subseteq Event /\ receipts \subseteq Event
    /\ settled \subseteq Event /\ clobbered \subseteq Event

FetchingOK ==
    /\ todo \in [Proc -> SUBSET (Source \X Workspace)]
    /\ acct \in [Proc -> SUBSET Workspace]
    /\ key \in [Proc -> Source] /\ ws \in [Proc -> Workspace]
    /\ msgs \in [Proc -> SUBSET Message] /\ asked \in [Proc -> SUBSET Message]

CuratingOK ==
    /\ held \in [Proc -> SUBSET Event] /\ left \in [Proc -> SUBSET Workspace]
    /\ gone \in [Proc -> SUBSET Event] /\ snap \in [Proc -> SUBSET Event]

ControlOK ==
    /\ pc \in [Proc -> {"idle", "discover", "fetch", "headers", "body", "select", "purge",
                        "purging", "curate", "handoff", "curating", "consume", "consuming"}]
    /\ then \in [Proc -> {"end", "if new", "curate"}]
    /\ decisions \in 0..MaxDecisions /\ faults \in 0..MaxFaults

\* A coroutine between two requests, or two beats, holds on to no body.
IdleHoldsNothing ==
    \A p \in Proc : pc[p] = "idle" => held[p] = {} /\ todo[p] = {} /\ gone[p] = {}

TypeOK == StoreOK /\ FilesOK /\ FetchingOK /\ CuratingOK /\ ControlOK /\ IdleHoldsNothing

\* "Revocation is durable": whatever is discovered, approved, rejected or
\* classified later, a revoked source is approved for no workspace.
RevokedForGood ==
    \A k \in revoked : approved[k] = {} /\ status[k] \in {"revoked", "blocked"}

\* comms_review's docstring: a body is held, kept and sent on only for a
\* workspace the user approved its source for, and never if the message's own
\* headers say secret, through every path from the fetch to the curator.
OnlyGranted ==
    \A e \in transit \cup quarantine \cup UNION {held[p] : p \in Proc} :
        <<Of[e[1]], e[2]>> \in granted /\ e[1] \notin Secret

\* A receipt means the event is never fetched again: it must still be in a
\* file, or have been purged, or be in the wiki.  The one exception is the
\* write of another coroutine's consume_transit over its delivery.
AccountedFor == receipts \subseteq transit \cup quarantine \cup settled \cup clobbered

HandedOver == UNION {IF pc[p] = "handoff" /\ pc'[p] = "curating" THEN Share(p, ws[p]) ELSE {}
                        : p \in Proc}

\* "wins races with polling/queued work": nothing is receipted or handed to
\* a curator once its source is revoked or its workspace is off the list.
RevocationWins ==
    [][\A e \in (receipts' \ receipts) \cup HandedOver :
           Of[e[1]] \notin revoked /\ e[2] \in allow]_vars

\* A message of an approved thread reaches the transit buffer although polls,
\* fetches and the daemon fail, for as long as the thread stays approved.
ApprovedFlows ==
    \A m \in Message \ Secret, w \in Workspace :
        (m \in mail /\ Authorised(Of[m], w)) ~> (<<m, w>> \in receipts \/ ~Authorised(Of[m], w))

\* consume_transit: "Anything not consumed ... stays for the next pass instead
\* of being silently dropped."
StaysPending == [][transit \ transit' \subseteq settled' \cup clobbered']_vars
=============================================================================
