---------------------------- MODULE CommsProofs -----------------------------
(***************************************************************************)
(* What CommsReview guarantees for any number of sources, messages,        *)
(* workspaces and HTTP handlers.                                           *)
(***************************************************************************)
EXTENDS CommsReview, TLAPS

(***************************************************************************)
(* The inductive invariant.  Granted: the store approves nothing the user  *)
(* did not.  Focus: a coroutine that fetches has only messages and bodies  *)
(* of the source and workspace it was authorised for, and otherwise        *)
(* nothing is left of an earlier fetch.  Clean: so whatever carries bodies *)
(* carries only granted ones, the buffer a consume_transit will write back *)
(* included.  Settled: what it removes was committed or purged.            *)
(***************************************************************************)
Good(e) == <<Of[e[1]], e[2]>> \in granted /\ e[1] \notin Secret

Granted == \A k \in Source, w \in Workspace : w \in approved[k] => <<k, w>> \in granted

FocusOf(p) ==
    /\ \A m \in msgs[p] \cup asked[p] : Of[m] = key[p]
    /\ \A m \in asked[p] : m \notin Secret
    /\ pc[p] = "body" \/ asked[p] = {}
    /\ pc[p] \in {"headers", "body"} => \A e \in held[p] : Of[e[1]] = key[p] /\ e[2] = ws[p]
    /\ pc[p] \in {"idle", "discover", "fetch", "select"} => held[p] = {}
    /\ pc[p] \in {"idle", "discover", "fetch", "headers", "body", "select"} => gone[p] = {}
    /\ pc[p] \in {"fetch", "headers", "body"} \/ todo[p] = {}
Focus == \A p \in Proc : FocusOf(p)

Clean ==
    /\ \A e \in transit \cup quarantine : Good(e)
    /\ \A p \in Proc : \A e \in held[p] \cup snap[p] : Good(e)

Settled == \A p \in Proc : gone[p] \subseteq settled

Rest == Granted /\ Settled /\ RevokedForGood /\ AccountedFor

IInv == TypeOK /\ Focus /\ Clean /\ Rest

LEMMA Defaults == NoKey \in Source /\ NoWs \in Workspace
  BY CommsAssumption DEF NoKey, NoWs

\* The bounds count up to their limits.
LEMMA Counting ==
    ASSUME ControlOK, Decide \/ Fail
    PROVE  decisions' \in 0..MaxDecisions /\ faults' \in 0..MaxFaults
  <1>1. /\ MaxDecisions \in Nat /\ MaxFaults \in Nat
        /\ decisions \in 0..MaxDecisions /\ faults \in 0..MaxFaults
    BY CommsAssumption DEF ControlOK
  <1>2. CASE Decide
    BY <1>1, <1>2 DEF Decide
  <1>3. CASE Fail
    BY <1>1, <1>3 DEF Fail
  <1> QED BY <1>2, <1>3

LEMMA Pair == ASSUME NEW S, NEW T, NEW a \in S, NEW b \in T PROVE <<a, b>> \in S \X T
  OBVIOUS

LEMMA InitInv == Init => IInv
  <1> SUFFICES ASSUME Init PROVE IInv
    OBVIOUS
  <1>1. TypeOK
    BY CommsAssumption, Defaults DEF Init, TypeOK, StoreOK, FilesOK, FetchingOK, CuratingOK,
                                     ControlOK, IdleHoldsNothing
  <1>2. Focus /\ Clean
    BY DEF Init, Focus, FocusOf, Clean
  <1>3. Rest
    BY DEF Init, Rest, Granted, Settled, RevokedForGood, AccountedFor
  <1> QED BY <1>1, <1>2, <1>3 DEF IInv

LEMMA ArriveKeeps ==
    ASSUME IInv, NEW m \in Message, Arrive(m)
    PROVE  IInv'
  <1> USE DEF Arrive, store, files, locals, fetching, consuming, budget, history
  <1> USE DEF IInv
  <1>1. TypeOK'
    <2>1. StoreOK' /\ FilesOK'
      BY DEF TypeOK, StoreOK, FilesOK, CuratingOK, FetchingOK, Event
    <2>2. FetchingOK' /\ CuratingOK'
      BY Defaults DEF TypeOK, FetchingOK, CuratingOK, StoreOK, FilesOK, Event
    <2>3. ControlOK'
      BY Counting DEF TypeOK, ControlOK
    <2>4. IdleHoldsNothing'
      BY DEF TypeOK, IdleHoldsNothing, Focus, FocusOf, ControlOK, FetchingOK, CuratingOK
    <2> QED BY <2>1, <2>2, <2>3, <2>4 DEF TypeOK
  <1> USE DEF TypeOK, StoreOK, FilesOK, FetchingOK, CuratingOK, ControlOK
  <1>2. Focus'
    <2> SUFFICES ASSUME NEW q \in Proc PROVE FocusOf(q)'
      BY DEF Focus
    <2>1. FocusOf(q)
      BY DEF Focus
    <2> QED BY <2>1 DEF FocusOf
  <1>3. Clean'
    <2>1. \A e \in (transit \cup quarantine)' : Good(e)'
      BY DEF Clean, Good
    <2>2. \A q \in Proc : \A e \in (held[q] \cup snap[q])' : Good(e)'
      BY DEF Clean, Good, Rest, Granted, Event
    <2> QED BY <2>1, <2>2 DEF Clean, Good
  <1>4. Rest'
    <2>1. Granted'
      BY DEF Rest, Granted
    <2>2. Settled'
      BY DEF Rest, Settled
    <2>3. RevokedForGood'
      BY DEF Rest, RevokedForGood
    <2>4. AccountedFor'
      BY DEF Rest, Settled, AccountedFor
    <2> QED BY <2>1, <2>2, <2>3, <2>4 DEF Rest
  <1> QED BY <1>1, <1>2, <1>3, <1>4

LEMMA ApproveKeeps ==
    ASSUME IInv, NEW p \in Proc, NEW k \in Source, NEW w \in Workspace, Approve(p, k, w)
    PROVE  IInv'
  <1> USE DEF Approve, At, Goes, Reads, store, files, locals, fetching, consuming, budget, history
  <1> USE DEF IInv
  <1>1. TypeOK'
    <2>1. StoreOK' /\ FilesOK'
      <3>1. approved' \in [Source -> SUBSET Workspace]
        BY DEF TypeOK, StoreOK
      <3>2. status' \in [Source -> {"none", "pending", "approved", "rejected", "revoked", "blocked"}]
        BY DEF TypeOK, StoreOK
      <3>3. granted' = granted \cup {<<k, w>>} /\ granted \subseteq Source \X Workspace
        BY DEF TypeOK, StoreOK
      <3>4. granted' \subseteq Source \X Workspace
        <4> HIDE DEF Approve, IInv
        <4> QED BY <3>3, Pair
      <3> QED BY <3>1, <3>2, <3>4 DEF TypeOK, StoreOK, FilesOK
    <2>2. FetchingOK' /\ CuratingOK'
      <3>1. todo' = [todo EXCEPT ![p] = {<<k, w>>}] /\ <<k, w>> \in Source \X Workspace
        BY Pair
      <3>2. todo' \in [Proc -> SUBSET (Source \X Workspace)]
        <4> HIDE DEF Approve, IInv
        <4>1. todo \in [Proc -> SUBSET (Source \X Workspace)]
          BY DEF IInv, TypeOK, FetchingOK
        <4> QED BY <3>1, <4>1
      <3>3. acct' \in [Proc -> SUBSET Workspace]
        BY DEF TypeOK, StoreOK, FetchingOK
      <3> QED BY <3>2, <3>3 DEF TypeOK, FetchingOK, CuratingOK
    <2>3. ControlOK'
      BY Counting DEF TypeOK, ControlOK
    <2>4. IdleHoldsNothing'
      BY DEF TypeOK, IdleHoldsNothing, Focus, FocusOf, ControlOK, FetchingOK, CuratingOK
    <2> QED BY <2>1, <2>2, <2>3, <2>4 DEF TypeOK
  <1> USE DEF TypeOK, StoreOK, FilesOK, FetchingOK, CuratingOK, ControlOK
  <1>2. Focus'
    <2> SUFFICES ASSUME NEW q \in Proc PROVE FocusOf(q)'
      BY DEF Focus
    <2>1. FocusOf(q)
      BY DEF Focus
    <2>2. CASE q = p
      BY <2>1, <2>2 DEF FocusOf, Event, Good
    <2>3. CASE q # p
      BY <2>1, <2>3 DEF FocusOf
    <2> QED BY <2>2, <2>3
  <1>3. Clean'
    <2>1. \A e \in (transit \cup quarantine)' : Good(e)'
      BY DEF Clean, Good
    <2>2. \A q \in Proc : \A e \in (held[q] \cup snap[q])' : Good(e)'
      BY DEF Clean, Good, Rest, Granted, Event
    <2> QED BY <2>1, <2>2 DEF Clean, Good
  <1>4. Rest'
    <2>1. Granted'
      BY DEF Rest, Granted
    <2>2. Settled'
      BY DEF Rest, Settled
    <2>3. RevokedForGood'
      BY DEF Rest, RevokedForGood
    <2>4. AccountedFor'
      BY DEF Rest, Settled, AccountedFor
    <2> QED BY <2>1, <2>2, <2>3, <2>4 DEF Rest
  <1> QED BY <1>1, <1>2, <1>3, <1>4

LEMMA RejectKeeps ==
    ASSUME IInv, NEW k \in Source, Reject(k)
    PROVE  IInv'
  <1> USE DEF Reject, store, files, locals, fetching, consuming, budget, history
  <1> USE DEF IInv
  <1>1. TypeOK'
    <2>1. StoreOK' /\ FilesOK'
      BY DEF TypeOK, StoreOK, FilesOK, CuratingOK, FetchingOK, Event
    <2>2. FetchingOK' /\ CuratingOK'
      BY Defaults DEF TypeOK, FetchingOK, CuratingOK, StoreOK, FilesOK, Event
    <2>3. ControlOK'
      BY Counting DEF TypeOK, ControlOK
    <2>4. IdleHoldsNothing'
      BY DEF TypeOK, IdleHoldsNothing, Focus, FocusOf, ControlOK, FetchingOK, CuratingOK
    <2> QED BY <2>1, <2>2, <2>3, <2>4 DEF TypeOK
  <1> USE DEF TypeOK, StoreOK, FilesOK, FetchingOK, CuratingOK, ControlOK
  <1>2. Focus'
    <2> SUFFICES ASSUME NEW q \in Proc PROVE FocusOf(q)'
      BY DEF Focus
    <2>1. FocusOf(q)
      BY DEF Focus
    <2> QED BY <2>1 DEF FocusOf
  <1>3. Clean'
    <2>1. \A e \in (transit \cup quarantine)' : Good(e)'
      BY DEF Clean, Good
    <2>2. \A q \in Proc : \A e \in (held[q] \cup snap[q])' : Good(e)'
      BY DEF Clean, Good, Rest, Granted, Event
    <2> QED BY <2>1, <2>2 DEF Clean, Good
  <1>4. Rest'
    <2>1. Granted'
      BY DEF Rest, Granted
    <2>2. Settled'
      BY DEF Rest, Settled
    <2>3. RevokedForGood'
      BY DEF Rest, RevokedForGood
    <2>4. AccountedFor'
      BY DEF Rest, Settled, AccountedFor
    <2> QED BY <2>1, <2>2, <2>3, <2>4 DEF Rest
  <1> QED BY <1>1, <1>2, <1>3, <1>4

LEMMA RevokeKeeps ==
    ASSUME IInv, NEW k \in Source, Revoke(k)
    PROVE  IInv'
  <1> USE DEF Revoke, Revocation, store, files, locals, fetching, consuming, budget, history
  <1> USE DEF IInv
  <1>1. TypeOK'
    <2>1. StoreOK' /\ FilesOK'
      BY DEF TypeOK, StoreOK, FilesOK, CuratingOK, FetchingOK, Event
    <2>2. FetchingOK' /\ CuratingOK'
      BY Defaults DEF TypeOK, FetchingOK, CuratingOK, StoreOK, FilesOK, Event
    <2>3. ControlOK'
      BY Counting DEF TypeOK, ControlOK
    <2>4. IdleHoldsNothing'
      BY DEF TypeOK, IdleHoldsNothing, Focus, FocusOf, ControlOK, FetchingOK, CuratingOK
    <2> QED BY <2>1, <2>2, <2>3, <2>4 DEF TypeOK
  <1> USE DEF TypeOK, StoreOK, FilesOK, FetchingOK, CuratingOK, ControlOK
  <1>2. Focus'
    <2> SUFFICES ASSUME NEW q \in Proc PROVE FocusOf(q)'
      BY DEF Focus
    <2>1. FocusOf(q)
      BY DEF Focus
    <2> QED BY <2>1 DEF FocusOf
  <1>3. Clean'
    <2>1. \A e \in (transit \cup quarantine)' : Good(e)'
      BY DEF Clean, Good
    <2>2. \A q \in Proc : \A e \in (held[q] \cup snap[q])' : Good(e)'
      BY DEF Clean, Good, Rest, Granted, Event
    <2> QED BY <2>1, <2>2 DEF Clean, Good
  <1>4. Rest'
    <2>1. Granted'
      BY DEF Rest, Granted
    <2>2. Settled'
      BY DEF Rest, Settled
    <2>3. RevokedForGood'
      BY DEF Rest, RevokedForGood
    <2>4. AccountedFor'
      BY DEF Rest, Settled, AccountedFor
    <2> QED BY <2>1, <2>2, <2>3, <2>4 DEF Rest
  <1> QED BY <1>1, <1>2, <1>3, <1>4

LEMMA AllowKeeps ==
    ASSUME IInv, NEW ok \in SUBSET Workspace, SetAllow(ok)
    PROVE  IInv'
  <1> USE DEF SetAllow, store, files, locals, fetching, consuming, budget, history
  <1> USE DEF IInv
  <1>1. TypeOK'
    <2>1. StoreOK' /\ FilesOK'
      BY DEF TypeOK, StoreOK, FilesOK, CuratingOK, FetchingOK, Event
    <2>2. FetchingOK' /\ CuratingOK'
      BY Defaults DEF TypeOK, FetchingOK, CuratingOK, StoreOK, FilesOK, Event
    <2>3. ControlOK'
      BY Counting DEF TypeOK, ControlOK
    <2>4. IdleHoldsNothing'
      BY DEF TypeOK, IdleHoldsNothing, Focus, FocusOf, ControlOK, FetchingOK, CuratingOK
    <2> QED BY <2>1, <2>2, <2>3, <2>4 DEF TypeOK
  <1> USE DEF TypeOK, StoreOK, FilesOK, FetchingOK, CuratingOK, ControlOK
  <1>2. Focus'
    <2> SUFFICES ASSUME NEW q \in Proc PROVE FocusOf(q)'
      BY DEF Focus
    <2>1. FocusOf(q)
      BY DEF Focus
    <2> QED BY <2>1 DEF FocusOf
  <1>3. Clean'
    <2>1. \A e \in (transit \cup quarantine)' : Good(e)'
      BY DEF Clean, Good
    <2>2. \A q \in Proc : \A e \in (held[q] \cup snap[q])' : Good(e)'
      BY DEF Clean, Good, Rest, Granted, Event
    <2> QED BY <2>1, <2>2 DEF Clean, Good
  <1>4. Rest'
    <2>1. Granted'
      BY DEF Rest, Granted
    <2>2. Settled'
      BY DEF Rest, Settled
    <2>3. RevokedForGood'
      BY DEF Rest, RevokedForGood
    <2>4. AccountedFor'
      BY DEF Rest, Settled, AccountedFor
    <2> QED BY <2>1, <2>2, <2>3, <2>4 DEF Rest
  <1> QED BY <1>1, <1>2, <1>3, <1>4

LEMMA PollKeeps ==
    ASSUME IInv, NEW p \in Proc, Poll(p)
    PROVE  IInv'
  <1> USE DEF Poll, At, Goes, Reads, store, files, locals, fetching, consuming, budget, history
  <1> USE DEF IInv
  <1>1. TypeOK'
    <2>1. StoreOK' /\ FilesOK'
      BY DEF TypeOK, StoreOK, FilesOK, CuratingOK, FetchingOK, Event
    <2>2. FetchingOK' /\ CuratingOK'
      BY Defaults DEF TypeOK, FetchingOK, CuratingOK, StoreOK, FilesOK, Event
    <2>3. ControlOK'
      BY Counting DEF TypeOK, ControlOK
    <2>4. IdleHoldsNothing'
      BY DEF TypeOK, IdleHoldsNothing, Focus, FocusOf, ControlOK, FetchingOK, CuratingOK
    <2> QED BY <2>1, <2>2, <2>3, <2>4 DEF TypeOK
  <1> USE DEF TypeOK, StoreOK, FilesOK, FetchingOK, CuratingOK, ControlOK
  <1>2. Focus'
    <2> SUFFICES ASSUME NEW q \in Proc PROVE FocusOf(q)'
      BY DEF Focus
    <2>1. FocusOf(q)
      BY DEF Focus
    <2>2. CASE q = p
      BY <2>1, <2>2 DEF FocusOf, Event
    <2>3. CASE q # p
      BY <2>1, <2>3 DEF FocusOf
    <2> QED BY <2>2, <2>3
  <1>3. Clean'
    <2>1. \A e \in (transit \cup quarantine)' : Good(e)'
      BY DEF Clean, Good
    <2>2. \A q \in Proc : \A e \in (held[q] \cup snap[q])' : Good(e)'
      BY DEF Clean, Good, Rest, Granted, Event
    <2> QED BY <2>1, <2>2 DEF Clean, Good
  <1>4. Rest'
    <2>1. Granted'
      BY DEF Rest, Granted
    <2>2. Settled'
      BY DEF Rest, Settled
    <2>3. RevokedForGood'
      BY DEF Rest, RevokedForGood
    <2>4. AccountedFor'
      BY DEF Rest, Settled, AccountedFor
    <2> QED BY <2>1, <2>2, <2>3, <2>4 DEF Rest
  <1> QED BY <1>1, <1>2, <1>3, <1>4

LEMMA DiscoveredKeeps ==
    ASSUME IInv, NEW p \in Proc, NEW m \in Message, Discovered(p, m)
    PROVE  IInv'
  <1> USE DEF Discovered, Upsert, Surfaced, At, store, files, locals, fetching, consuming, budget, history
  <1> USE DEF IInv
  <1>1. TypeOK'
    <2>1. StoreOK' /\ FilesOK'
      BY DEF TypeOK, StoreOK, FilesOK, CuratingOK, FetchingOK, Event
    <2>2. FetchingOK' /\ CuratingOK'
      BY Defaults DEF TypeOK, FetchingOK, CuratingOK, StoreOK, FilesOK, Event
    <2>3. ControlOK'
      BY Counting DEF TypeOK, ControlOK
    <2>4. IdleHoldsNothing'
      BY DEF TypeOK, IdleHoldsNothing, Focus, FocusOf, ControlOK, FetchingOK, CuratingOK
    <2> QED BY <2>1, <2>2, <2>3, <2>4 DEF TypeOK
  <1> USE DEF TypeOK, StoreOK, FilesOK, FetchingOK, CuratingOK, ControlOK
  <1>2. Focus'
    <2> SUFFICES ASSUME NEW q \in Proc PROVE FocusOf(q)'
      BY DEF Focus
    <2>1. FocusOf(q)
      BY DEF Focus
    <2>2. CASE q = p
      BY <2>1, <2>2 DEF FocusOf, Event
    <2>3. CASE q # p
      BY <2>1, <2>3 DEF FocusOf
    <2> QED BY <2>2, <2>3
  <1>3. Clean'
    <2>1. \A e \in (transit \cup quarantine)' : Good(e)'
      BY DEF Clean, Good
    <2>2. \A q \in Proc : \A e \in (held[q] \cup snap[q])' : Good(e)'
      BY DEF Clean, Good, Rest, Granted, Event
    <2> QED BY <2>1, <2>2 DEF Clean, Good
  <1>4. Rest'
    <2>1. Granted'
      BY DEF Rest, Granted
    <2>2. Settled'
      BY DEF Rest, Settled
    <2>3. RevokedForGood'
      BY DEF Rest, RevokedForGood
    <2>4. AccountedFor'
      BY DEF Rest, Settled, AccountedFor
    <2> QED BY <2>1, <2>2, <2>3, <2>4 DEF Rest
  <1> QED BY <1>1, <1>2, <1>3, <1>4

LEMMA ListedKeeps ==
    ASSUME IInv, NEW p \in Proc, Listed(p)
    PROVE  IInv'
  <1> USE DEF Listed, At, Goes, Approvals, store, files, locals, fetching, consuming, budget, history
  <1> USE DEF IInv
  <1>1. TypeOK'
    <2>1. StoreOK' /\ FilesOK'
      BY DEF TypeOK, StoreOK, FilesOK, CuratingOK, FetchingOK, Event
    <2>2. FetchingOK' /\ CuratingOK'
      BY Defaults DEF TypeOK, FetchingOK, CuratingOK, StoreOK, FilesOK, Event
    <2>3. ControlOK'
      BY Counting DEF TypeOK, ControlOK
    <2>4. IdleHoldsNothing'
      BY DEF TypeOK, IdleHoldsNothing, Focus, FocusOf, ControlOK, FetchingOK, CuratingOK
    <2> QED BY <2>1, <2>2, <2>3, <2>4 DEF TypeOK
  <1> USE DEF TypeOK, StoreOK, FilesOK, FetchingOK, CuratingOK, ControlOK
  <1>2. Focus'
    <2> SUFFICES ASSUME NEW q \in Proc PROVE FocusOf(q)'
      BY DEF Focus
    <2>1. FocusOf(q)
      BY DEF Focus
    <2>2. CASE q = p
      BY <2>1, <2>2 DEF FocusOf, Event
    <2>3. CASE q # p
      BY <2>1, <2>3 DEF FocusOf
    <2> QED BY <2>2, <2>3
  <1>3. Clean'
    <2>1. \A e \in (transit \cup quarantine)' : Good(e)'
      BY DEF Clean, Good
    <2>2. \A q \in Proc : \A e \in (held[q] \cup snap[q])' : Good(e)'
      BY DEF Clean, Good, Rest, Granted, Event
    <2> QED BY <2>1, <2>2 DEF Clean, Good
  <1>4. Rest'
    <2>1. Granted'
      BY DEF Rest, Granted
    <2>2. Settled'
      BY DEF Rest, Settled
    <2>3. RevokedForGood'
      BY DEF Rest, RevokedForGood
    <2>4. AccountedFor'
      BY DEF Rest, Settled, AccountedFor
    <2> QED BY <2>1, <2>2, <2>3, <2>4 DEF Rest
  <1> QED BY <1>1, <1>2, <1>3, <1>4

LEMMA PollFailsKeeps ==
    ASSUME IInv, NEW p \in Proc, PollFails(p)
    PROVE  IInv'
  <1> USE DEF PollFails, At, Goes, Ends, store, files, locals, fetching, consuming, budget, history
  <1> USE DEF IInv
  <1>1. TypeOK'
    <2>1. StoreOK' /\ FilesOK'
      BY DEF TypeOK, StoreOK, FilesOK, CuratingOK, FetchingOK, Event
    <2>2. FetchingOK' /\ CuratingOK'
      BY Defaults DEF TypeOK, FetchingOK, CuratingOK, StoreOK, FilesOK, Event
    <2>3. ControlOK'
      BY Counting DEF TypeOK, ControlOK
    <2>4. IdleHoldsNothing'
      BY DEF TypeOK, IdleHoldsNothing, Focus, FocusOf, ControlOK, FetchingOK, CuratingOK
    <2> QED BY <2>1, <2>2, <2>3, <2>4 DEF TypeOK
  <1> USE DEF TypeOK, StoreOK, FilesOK, FetchingOK, CuratingOK, ControlOK
  <1>2. Focus'
    <2> SUFFICES ASSUME NEW q \in Proc PROVE FocusOf(q)'
      BY DEF Focus
    <2>1. FocusOf(q)
      BY DEF Focus
    <2>2. CASE q = p
      BY <2>1, <2>2 DEF FocusOf, Event
    <2>3. CASE q # p
      BY <2>1, <2>3 DEF FocusOf
    <2> QED BY <2>2, <2>3
  <1>3. Clean'
    <2>1. \A e \in (transit \cup quarantine)' : Good(e)'
      BY DEF Clean, Good
    <2>2. \A q \in Proc : \A e \in (held[q] \cup snap[q])' : Good(e)'
      BY DEF Clean, Good, Rest, Granted, Event
    <2> QED BY <2>1, <2>2 DEF Clean, Good
  <1>4. Rest'
    <2>1. Granted'
      BY DEF Rest, Granted
    <2>2. Settled'
      BY DEF Rest, Settled
    <2>3. RevokedForGood'
      BY DEF Rest, RevokedForGood
    <2>4. AccountedFor'
      BY DEF Rest, Settled, AccountedFor
    <2> QED BY <2>1, <2>2, <2>3, <2>4 DEF Rest
  <1> QED BY <1>1, <1>2, <1>3, <1>4

LEMMA CurateKeeps ==
    ASSUME IInv, NEW p \in Proc, Curate(p)
    PROVE  IInv'
  <1> USE DEF Curate, At, Goes, Reads, Approvals, store, files, locals, fetching, consuming, budget, history
  <1> USE DEF IInv
  <1>1. TypeOK'
    <2>1. StoreOK' /\ FilesOK'
      BY DEF TypeOK, StoreOK, FilesOK, CuratingOK, FetchingOK, Event
    <2>2. FetchingOK' /\ CuratingOK'
      BY Defaults DEF TypeOK, FetchingOK, CuratingOK, StoreOK, FilesOK, Event
    <2>3. ControlOK'
      BY Counting DEF TypeOK, ControlOK
    <2>4. IdleHoldsNothing'
      BY DEF TypeOK, IdleHoldsNothing, Focus, FocusOf, ControlOK, FetchingOK, CuratingOK
    <2> QED BY <2>1, <2>2, <2>3, <2>4 DEF TypeOK
  <1> USE DEF TypeOK, StoreOK, FilesOK, FetchingOK, CuratingOK, ControlOK
  <1>2. Focus'
    <2> SUFFICES ASSUME NEW q \in Proc PROVE FocusOf(q)'
      BY DEF Focus
    <2>1. FocusOf(q)
      BY DEF Focus
    <2>2. CASE q = p
      BY <2>1, <2>2 DEF FocusOf, Event
    <2>3. CASE q # p
      BY <2>1, <2>3 DEF FocusOf
    <2> QED BY <2>2, <2>3
  <1>3. Clean'
    <2>1. \A e \in (transit \cup quarantine)' : Good(e)'
      BY DEF Clean, Good
    <2>2. \A q \in Proc : \A e \in (held[q] \cup snap[q])' : Good(e)'
      BY DEF Clean, Good, Rest, Granted, Event
    <2> QED BY <2>1, <2>2 DEF Clean, Good
  <1>4. Rest'
    <2>1. Granted'
      BY DEF Rest, Granted
    <2>2. Settled'
      BY DEF Rest, Settled
    <2>3. RevokedForGood'
      BY DEF Rest, RevokedForGood
    <2>4. AccountedFor'
      BY DEF Rest, Settled, AccountedFor
    <2> QED BY <2>1, <2>2, <2>3, <2>4 DEF Rest
  <1> QED BY <1>1, <1>2, <1>3, <1>4

LEMMA BeginKeeps ==
    ASSUME IInv, NEW p \in Proc, NEW k \in Source, NEW w \in Workspace, Begin(p, k, w)
    PROVE  IInv'
  <1> USE DEF Begin, At, Goes, store, files, locals, fetching, consuming, budget, history
  <1> USE DEF IInv
  <1>1. TypeOK'
    <2>1. StoreOK' /\ FilesOK'
      BY DEF TypeOK, StoreOK, FilesOK, CuratingOK, FetchingOK, Event
    <2>2. FetchingOK' /\ CuratingOK'
      BY Defaults DEF TypeOK, FetchingOK, CuratingOK, StoreOK, FilesOK, Event
    <2>3. ControlOK'
      BY Counting DEF TypeOK, ControlOK
    <2>4. IdleHoldsNothing'
      BY DEF TypeOK, IdleHoldsNothing, Focus, FocusOf, ControlOK, FetchingOK, CuratingOK
    <2> QED BY <2>1, <2>2, <2>3, <2>4 DEF TypeOK
  <1> USE DEF TypeOK, StoreOK, FilesOK, FetchingOK, CuratingOK, ControlOK
  <1>2. Focus'
    <2> SUFFICES ASSUME NEW q \in Proc PROVE FocusOf(q)'
      BY DEF Focus
    <2>1. FocusOf(q)
      BY DEF Focus
    <2>2. CASE q = p
      <3>1. CASE Authorised(k, w)
        <4>1. /\ key'[p] = k /\ ws'[p] = w /\ pc'[p] = "headers"
              /\ msgs'[p] = {m \in refs : Of[m] = k} /\ asked'[p] = asked[p]
              /\ held'[p] = held[p] /\ gone'[p] = gone[p]
          BY <3>1
        <4>2. asked[p] = {} /\ held[p] = {} /\ gone[p] = {}
          <5>1. pc[p] = "fetch"
            OBVIOUS
          <5> HIDE DEF Begin
          <5> QED BY <2>1, <2>2, <5>1 DEF FocusOf
        <4> QED BY <2>2, <4>1, <4>2 DEF FocusOf
      <3>2. CASE ~Authorised(k, w)
        BY <2>1, <2>2, <3>2 DEF FocusOf
      <3> QED BY <3>1, <3>2
    <2>3. CASE q # p
      BY <2>1, <2>3 DEF FocusOf
    <2> QED BY <2>2, <2>3
  <1>3. Clean'
    <2>1. \A e \in (transit \cup quarantine)' : Good(e)'
      BY DEF Clean, Good
    <2>2. \A q \in Proc : \A e \in (held[q] \cup snap[q])' : Good(e)'
      BY DEF Clean, Good, Rest, Granted, Event
    <2> QED BY <2>1, <2>2 DEF Clean, Good
  <1>4. Rest'
    <2>1. Granted'
      BY DEF Rest, Granted
    <2>2. Settled'
      BY DEF Rest, Settled
    <2>3. RevokedForGood'
      BY DEF Rest, RevokedForGood
    <2>4. AccountedFor'
      BY DEF Rest, Settled, AccountedFor
    <2> QED BY <2>1, <2>2, <2>3, <2>4 DEF Rest
  <1> QED BY <1>1, <1>2, <1>3, <1>4

LEMMA HeadersKeeps ==
    ASSUME IInv, NEW p \in Proc, NEW m \in Message, Headers(p, m)
    PROVE  IInv'
  <1> USE DEF Headers, At, Goes, Leave, Revocation, SaysSecret, store, files, locals, fetching, consuming, budget, history
  <1> USE DEF IInv
  <1>1. TypeOK'
    <2>1. StoreOK' /\ FilesOK'
      <3>1. key[p] \in Source
        BY DEF TypeOK, FetchingOK
      <3>2. /\ UNCHANGED <<refs, mail, allow, granted, transit, quarantine, receipts, settled, clobbered>>
            /\ \/ UNCHANGED <<status, approved, revoked>>
               \/ /\ revoked' = revoked \cup {key[p]}
                  /\ status' = [status EXCEPT ![key[p]] = "blocked"]
                  /\ approved' = [approved EXCEPT ![key[p]] = {}]
        OBVIOUS
      <3>3. FilesOK'
        BY <3>2 DEF TypeOK, FilesOK
      <3>4. StoreOK'
        BY <3>1, <3>2 DEF TypeOK, StoreOK
      <3> QED BY <3>3, <3>4
    <2>2. FetchingOK' /\ CuratingOK'
      <3>1. FetchingOK'
        BY Defaults DEF TypeOK, FetchingOK
      <3>2. CuratingOK'
        BY DEF TypeOK, CuratingOK, Event
      <3> QED BY <3>1, <3>2
    <2>3. ControlOK'
      BY Counting DEF TypeOK, ControlOK
    <2>4. IdleHoldsNothing'
      BY DEF TypeOK, IdleHoldsNothing, Focus, FocusOf, ControlOK, FetchingOK, CuratingOK
    <2> QED BY <2>1, <2>2, <2>3, <2>4 DEF TypeOK
  <1> USE DEF TypeOK, StoreOK, FilesOK, FetchingOK, CuratingOK, ControlOK
  <1>2. Focus'
    <2> SUFFICES ASSUME NEW q \in Proc PROVE FocusOf(q)'
      BY DEF Focus
    <2>1. FocusOf(q)
      BY DEF Focus
    <2>2. CASE q = p
      <3>1. UNCHANGED <<todo, gone>> /\ pc[p] = "headers"
        OBVIOUS
      <3>2. CASE pc'[p] = "fetch" /\ msgs'[p] = {} /\ asked'[p] = {} /\ held'[p] = {}
        BY <2>1, <2>2, <3>1, <3>2 DEF FocusOf
      <3>3. CASE /\ pc'[p] = "body" /\ asked'[p] = {m} /\ m \notin Secret
                 /\ UNCHANGED <<key, ws, msgs, held>>
        <4>1. m \in msgs[p]
          OBVIOUS
        <4> HIDE DEF Headers
        <4> QED BY <2>1, <2>2, <3>1, <3>3, <4>1 DEF FocusOf
      <3>4. CASE msgs'[p] = msgs[p] \ {m} /\ UNCHANGED <<pc, key, ws, asked, held>>
        BY <2>1, <2>2, <3>1, <3>4 DEF FocusOf
      <3> QED BY <3>2, <3>3, <3>4
    <2>3. CASE q # p
      BY <2>1, <2>3 DEF FocusOf
    <2> QED BY <2>2, <2>3
  <1>3. Clean'
    <2>1. \A e \in (transit \cup quarantine)' : Good(e)'
      BY DEF Clean, Good
    <2>2. \A q \in Proc : \A e \in (held[q] \cup snap[q])' : Good(e)'
      BY DEF Clean, Good, Rest, Granted, Event
    <2> QED BY <2>1, <2>2 DEF Clean, Good
  <1>4. Rest'
    <2>1. Granted'
      BY DEF Rest, Granted
    <2>2. Settled'
      BY DEF Rest, Settled
    <2>3. RevokedForGood'
      <3>1. CASE UNCHANGED store
        BY <3>1 DEF Rest, RevokedForGood
      <3>2. CASE Revocation(key[p], "blocked")
        <4> HIDE DEF Headers
        <4>1. /\ revoked' = revoked \cup {key[p]}
              /\ \A k \in Source : status'[k] = IF k = key[p] THEN "blocked" ELSE status[k]
              /\ \A k \in Source : approved'[k] = IF k = key[p] THEN {} ELSE approved[k]
          BY <3>2
        <4>2. SUFFICES ASSUME NEW k \in revoked' PROVE approved'[k] = {} /\ status'[k] \in {"revoked", "blocked"}
          BY DEF RevokedForGood
        <4>3. CASE k = key[p]
          BY <4>1, <4>3
        <4>4. CASE k # key[p]
          <5>1. k \in revoked /\ k \in Source
            BY <4>1, <4>4
          <5> QED BY <4>1, <4>4, <5>1 DEF Rest, RevokedForGood
        <4> QED BY <4>3, <4>4
      <3> QED BY <3>1, <3>2
    <2>4. AccountedFor'
      BY DEF Rest, Settled, AccountedFor
    <2> QED BY <2>1, <2>2, <2>3, <2>4 DEF Rest
  <1> QED BY <1>1, <1>2, <1>3, <1>4

LEMMA BodyKeeps ==
    ASSUME IInv, NEW p \in Proc, Body(p)
    PROVE  IInv'
  <1> USE DEF Body, At, Goes, Leave, Authorised, store, files, locals, fetching, consuming, budget, history
  <1> USE DEF IInv
  <1>1. TypeOK'
    <2>1. StoreOK' /\ FilesOK'
      BY DEF TypeOK, StoreOK, FilesOK, CuratingOK, FetchingOK, Event
    <2>2. FetchingOK' /\ CuratingOK'
      BY Defaults DEF TypeOK, FetchingOK, CuratingOK, StoreOK, FilesOK, Event
    <2>3. ControlOK'
      BY Counting DEF TypeOK, ControlOK
    <2>4. IdleHoldsNothing'
      <3>1. pc'[p] \in {"headers", "fetch"} /\ \A q \in Proc : q # p => pc'[q] = pc[q] /\ held'[q] = held[q]
        BY DEF TypeOK, ControlOK, CuratingOK
      <3> QED BY <3>1 DEF TypeOK, IdleHoldsNothing
    <2> QED BY <2>1, <2>2, <2>3, <2>4 DEF TypeOK
  <1> USE DEF TypeOK, StoreOK, FilesOK, FetchingOK, CuratingOK, ControlOK
  <1>5. /\ At(p, "body") /\ UNCHANGED <<todo, gone, snap>>
        /\ \A q \in Proc : q # p => UNCHANGED <<pc[q], key[q], ws[q], msgs[q], asked[q], held[q]>>
        /\ Authorised(key[p], ws[p]) =>
              /\ held'[p] = held[p] \cup (asked[p] \X {ws[p]})
              /\ msgs'[p] = msgs[p] \ asked[p] /\ asked'[p] = {} /\ pc'[p] = "headers"
              /\ UNCHANGED <<key, ws>>
        /\ ~Authorised(key[p], ws[p]) =>
              held'[p] = {} /\ msgs'[p] = {} /\ asked'[p] = {} /\ pc'[p] = "fetch"
    <2>1. CASE Authorised(key[p], ws[p])
      <3> HIDE DEF Authorised, IInv
      <3>1. /\ At(p, "body") /\ UNCHANGED <<todo, gone, snap, key, ws>>
            /\ held' = [held EXCEPT ![p] = held[p] \cup (asked[p] \X {ws[p]})]
            /\ msgs' = [msgs EXCEPT ![p] = msgs[p] \ asked[p]]
            /\ asked' = [asked EXCEPT ![p] = {}] /\ pc' = [pc EXCEPT ![p] = "headers"]
        BY <2>1
      <3> HIDE DEF Body
      <3>2. DOMAIN held = Proc /\ DOMAIN msgs = Proc /\ DOMAIN asked = Proc /\ DOMAIN pc = Proc
        BY DEF IInv
      <3> QED BY <2>1, <3>1, <3>2
    <2>2. CASE ~Authorised(key[p], ws[p])
      <3> HIDE DEF Authorised, IInv
      <3>1. /\ At(p, "body") /\ UNCHANGED <<todo, gone, snap>>
            /\ held' = [held EXCEPT ![p] = {}] /\ msgs' = [msgs EXCEPT ![p] = {}]
            /\ asked' = [asked EXCEPT ![p] = {}] /\ pc' = [pc EXCEPT ![p] = "fetch"]
            /\ key' = [key EXCEPT ![p] = NoKey] /\ ws' = [ws EXCEPT ![p] = NoWs]
        BY <2>2
      <3> HIDE DEF Body
      <3>2. /\ DOMAIN held = Proc /\ DOMAIN msgs = Proc /\ DOMAIN asked = Proc /\ DOMAIN pc = Proc
            /\ DOMAIN key = Proc /\ DOMAIN ws = Proc
        BY DEF IInv
      <3> QED BY <2>2, <3>1, <3>2
    <2> QED BY <2>1, <2>2
  <1>2. Focus'
    <2> HIDE DEF Body, Authorised
    <2> SUFFICES ASSUME NEW q \in Proc PROVE FocusOf(q)'
      BY DEF Focus
    <2>1. FocusOf(q)
      BY DEF Focus
    <2>2. CASE q = p
      <3>1. CASE Authorised(key[p], ws[p])
        <4>1. /\ held'[p] = held[p] \cup (asked[p] \X {ws[p]})
              /\ msgs'[p] = msgs[p] \ asked[p] /\ asked'[p] = {} /\ pc'[p] = "headers"
              /\ pc[p] = "body" /\ key' = key /\ ws' = ws /\ todo' = todo /\ gone' = gone
          BY <1>5, <3>1
        <4>2. \A e \in held'[p] : Of[e[1]] = key[p] /\ e[2] = ws[p]
          <5>1. \A e \in asked[p] \X {ws[p]} : Of[e[1]] = key[p] /\ e[2] = ws[p]
            BY <2>1, <2>2 DEF FocusOf
          <5> QED BY <2>1, <2>2, <4>1, <5>1 DEF FocusOf
        <4> QED BY <2>1, <2>2, <4>1, <4>2 DEF FocusOf
      <3>2. CASE ~Authorised(key[p], ws[p])
        <4>1. /\ held'[p] = {} /\ msgs'[p] = {} /\ asked'[p] = {} /\ pc'[p] = "fetch"
              /\ pc[p] = "body" /\ todo' = todo /\ gone' = gone
          BY <1>5, <3>2
        <4> QED BY <2>1, <2>2, <4>1 DEF FocusOf
      <3> QED BY <3>1, <3>2
    <2>3. CASE q # p
      BY <1>5, <2>1, <2>3 DEF FocusOf
    <2> QED BY <2>2, <2>3
  <1>3. Clean'
    <2>1. \A e \in (transit \cup quarantine)' : Good(e)'
      BY DEF Clean, Good
    <2>2. \A q \in Proc : \A e \in (held[q] \cup snap[q])' : Good(e)'
      <3> SUFFICES ASSUME NEW q \in Proc, NEW e \in held'[q] \cup snap'[q] PROVE Good(e)'
        OBVIOUS
      <3>1. CASE e \in held[q] \cup snap[q]
        BY <3>1 DEF Clean, Good
      <3>2. CASE e \notin held[q] \cup snap[q]
        <4>1. q = p /\ e \in asked[p] \X {ws[p]} /\ Authorised(key[p], ws[p])
          <5> HIDE DEF Body, Authorised
          <5> QED BY <1>5, <3>2
        <4>2. e[1] \in asked[p] /\ e[2] = ws[p] /\ Of[e[1]] = key[p] /\ e[1] \notin Secret
          BY <4>1 DEF Focus, FocusOf
        <4>3. <<key[p], ws[p]>> \in granted
          BY <4>1 DEF Rest, Granted
        <4> QED BY <4>2, <4>3 DEF Good
      <3> QED BY <3>1, <3>2
    <2> QED BY <2>1, <2>2 DEF Clean, Good
  <1>4. Rest'
    <2>1. Granted'
      BY DEF Rest, Granted
    <2>2. Settled'
      BY DEF Rest, Settled
    <2>3. RevokedForGood'
      BY DEF Rest, RevokedForGood
    <2>4. AccountedFor'
      BY DEF Rest, Settled, AccountedFor
    <2> QED BY <2>1, <2>2, <2>3, <2>4 DEF Rest
  <1> QED BY <1>1, <1>2, <1>3, <1>4

LEMMA FetchFailsKeeps ==
    ASSUME IInv, NEW p \in Proc, FetchFails(p)
    PROVE  IInv'
  <1> USE DEF FetchFails, Goes, Leave, store, files, locals, fetching, consuming, budget, history
  <1> USE DEF IInv
  <1>1. TypeOK'
    <2>1. StoreOK' /\ FilesOK'
      BY DEF TypeOK, StoreOK, FilesOK, CuratingOK, FetchingOK, Event
    <2>2. FetchingOK' /\ CuratingOK'
      BY Defaults DEF TypeOK, FetchingOK, CuratingOK, StoreOK, FilesOK, Event
    <2>3. ControlOK'
      BY Counting DEF TypeOK, ControlOK
    <2>4. IdleHoldsNothing'
      BY DEF TypeOK, IdleHoldsNothing, Focus, FocusOf, ControlOK, FetchingOK, CuratingOK
    <2> QED BY <2>1, <2>2, <2>3, <2>4 DEF TypeOK
  <1> USE DEF TypeOK, StoreOK, FilesOK, FetchingOK, CuratingOK, ControlOK
  <1>2. Focus'
    <2> SUFFICES ASSUME NEW q \in Proc PROVE FocusOf(q)'
      BY DEF Focus
    <2>1. FocusOf(q)
      BY DEF Focus
    <2>2. CASE q = p
      BY <2>1, <2>2 DEF FocusOf, Event
    <2>3. CASE q # p
      BY <2>1, <2>3 DEF FocusOf
    <2> QED BY <2>2, <2>3
  <1>3. Clean'
    <2>1. \A e \in (transit \cup quarantine)' : Good(e)'
      BY DEF Clean, Good
    <2>2. \A q \in Proc : \A e \in (held[q] \cup snap[q])' : Good(e)'
      BY DEF Clean, Good, Rest, Granted, Event
    <2> QED BY <2>1, <2>2 DEF Clean, Good
  <1>4. Rest'
    <2>1. Granted'
      BY DEF Rest, Granted
    <2>2. Settled'
      BY DEF Rest, Settled
    <2>3. RevokedForGood'
      BY DEF Rest, RevokedForGood
    <2>4. AccountedFor'
      BY DEF Rest, Settled, AccountedFor
    <2> QED BY <2>1, <2>2, <2>3, <2>4 DEF Rest
  <1> QED BY <1>1, <1>2, <1>3, <1>4

LEMMA DeliverKeeps ==
    ASSUME IInv, NEW p \in Proc, Deliver(p)
    PROVE  IInv'
  <1> USE DEF Deliver, Delivered, New, At, Goes, Leave, store, files, locals, fetching, consuming, budget, history
  <1> USE DEF IInv
  <1>1. TypeOK'
    <2>1. StoreOK' /\ FilesOK'
      BY DEF TypeOK, StoreOK, FilesOK, CuratingOK, FetchingOK, Event
    <2>2. FetchingOK' /\ CuratingOK'
      BY Defaults DEF TypeOK, FetchingOK, CuratingOK, StoreOK, FilesOK, Event
    <2>3. ControlOK'
      BY Counting DEF TypeOK, ControlOK
    <2>4. IdleHoldsNothing'
      BY DEF TypeOK, IdleHoldsNothing, Focus, FocusOf, ControlOK, FetchingOK, CuratingOK
    <2> QED BY <2>1, <2>2, <2>3, <2>4 DEF TypeOK
  <1> USE DEF TypeOK, StoreOK, FilesOK, FetchingOK, CuratingOK, ControlOK
  <1>2. Focus'
    <2> SUFFICES ASSUME NEW q \in Proc PROVE FocusOf(q)'
      BY DEF Focus
    <2>1. FocusOf(q)
      BY DEF Focus
    <2>2. CASE q = p
      BY <2>1, <2>2 DEF FocusOf, Event
    <2>3. CASE q # p
      BY <2>1, <2>3 DEF FocusOf
    <2> QED BY <2>2, <2>3
  <1>3. Clean'
    <2>1. \A e \in (transit \cup quarantine)' : Good(e)'
      BY DEF Clean, Good
    <2>2. \A q \in Proc : \A e \in (held[q] \cup snap[q])' : Good(e)'
      BY DEF Clean, Good, Rest, Granted, Event
    <2> QED BY <2>1, <2>2 DEF Clean, Good
  <1>4. Rest'
    <2>1. Granted'
      BY DEF Rest, Granted
    <2>2. Settled'
      BY DEF Rest, Settled
    <2>3. RevokedForGood'
      BY DEF Rest, RevokedForGood
    <2>4. AccountedFor'
      BY DEF Rest, Settled, AccountedFor
    <2> QED BY <2>1, <2>2, <2>3, <2>4 DEF Rest
  <1> QED BY <1>1, <1>2, <1>3, <1>4

LEMMA FetchedKeeps ==
    ASSUME IInv, NEW p \in Proc, Fetched(p)
    PROVE  IInv'
  <1> USE DEF Fetched, At, Goes, Ends, store, files, locals, fetching, consuming, budget, history
  <1> USE DEF IInv
  <1>1. TypeOK'
    <2>1. StoreOK' /\ FilesOK'
      BY DEF TypeOK, StoreOK, FilesOK, CuratingOK, FetchingOK, Event
    <2>2. FetchingOK' /\ CuratingOK'
      BY Defaults DEF TypeOK, FetchingOK, CuratingOK, StoreOK, FilesOK, Event
    <2>3. ControlOK'
      BY Counting DEF TypeOK, ControlOK
    <2>4. IdleHoldsNothing'
      BY DEF TypeOK, IdleHoldsNothing, Focus, FocusOf, ControlOK, FetchingOK, CuratingOK
    <2> QED BY <2>1, <2>2, <2>3, <2>4 DEF TypeOK
  <1> USE DEF TypeOK, StoreOK, FilesOK, FetchingOK, CuratingOK, ControlOK
  <1>2. Focus'
    <2> SUFFICES ASSUME NEW q \in Proc PROVE FocusOf(q)'
      BY DEF Focus
    <2>1. FocusOf(q)
      BY DEF Focus
    <2>2. CASE q = p
      BY <2>1, <2>2 DEF FocusOf, Event
    <2>3. CASE q # p
      BY <2>1, <2>3 DEF FocusOf
    <2> QED BY <2>2, <2>3
  <1>3. Clean'
    <2>1. \A e \in (transit \cup quarantine)' : Good(e)'
      BY DEF Clean, Good
    <2>2. \A q \in Proc : \A e \in (held[q] \cup snap[q])' : Good(e)'
      BY DEF Clean, Good, Rest, Granted, Event
    <2> QED BY <2>1, <2>2 DEF Clean, Good
  <1>4. Rest'
    <2>1. Granted'
      BY DEF Rest, Granted
    <2>2. Settled'
      BY DEF Rest, Settled
    <2>3. RevokedForGood'
      BY DEF Rest, RevokedForGood
    <2>4. AccountedFor'
      BY DEF Rest, Settled, AccountedFor
    <2> QED BY <2>1, <2>2, <2>3, <2>4 DEF Rest
  <1> QED BY <1>1, <1>2, <1>3, <1>4

LEMMA SelectKeeps ==
    ASSUME IInv, NEW p \in Proc, Select(p)
    PROVE  IInv'
  <1> USE DEF Select, At, Goes, Ends, Workspaces, store, files, locals, fetching, consuming, budget, history
  <1> USE DEF IInv
  <1>1. TypeOK'
    <2>1. StoreOK' /\ FilesOK'
      BY DEF TypeOK, StoreOK, FilesOK, CuratingOK, FetchingOK, Event
    <2>2. FetchingOK' /\ CuratingOK'
      BY Defaults DEF TypeOK, FetchingOK, CuratingOK, StoreOK, FilesOK, Event
    <2>3. ControlOK'
      BY Counting DEF TypeOK, ControlOK
    <2>4. IdleHoldsNothing'
      BY DEF TypeOK, IdleHoldsNothing, Focus, FocusOf, ControlOK, FetchingOK, CuratingOK
    <2> QED BY <2>1, <2>2, <2>3, <2>4 DEF TypeOK
  <1> USE DEF TypeOK, StoreOK, FilesOK, FetchingOK, CuratingOK, ControlOK
  <1>5. /\ UNCHANGED <<transit, granted, snap>>
        /\ \A q \in Proc : q # p => UNCHANGED <<held[q], gone[q]>>
        /\ held'[p] \subseteq held[p] \cup transit
        /\ gone'[p] \subseteq gone[p] \cup settled' /\ settled \subseteq settled'
    <2>1. CASE acct[p] = {} \/ transit = {}
      BY <2>1
    <2>2. CASE ~(acct[p] = {} \/ transit = {})
      <3>1. PICK keep \in SUBSET transit :
                 /\ held' = [held EXCEPT ![p] = keep]
                 /\ gone' = [gone EXCEPT ![p] = transit \ keep]
                 /\ settled' = settled \cup (transit \ keep)
        BY <2>2
      <3> HIDE DEF Select
      <3>2. UNCHANGED <<transit, granted, snap>>
        BY DEF Select
      <3> QED BY <3>1, <3>2
    <2> QED BY <2>1, <2>2
  <1>2. Focus'
    <2> SUFFICES ASSUME NEW q \in Proc PROVE FocusOf(q)'
      BY DEF Focus
    <2>1. FocusOf(q)
      BY DEF Focus
    <2>2. CASE q = p
      BY <2>1, <2>2 DEF FocusOf, Event
    <2>3. CASE q # p
      BY <2>1, <2>3 DEF FocusOf
    <2> QED BY <2>2, <2>3
  <1>3. Clean'
    <2>1. \A e \in (transit \cup quarantine)' : Good(e)'
      BY DEF Clean, Good
    <2>2. \A q \in Proc : \A e \in (held[q] \cup snap[q])' : Good(e)'
      <3>1. \A q \in Proc : held'[q] \subseteq held[q] \cup transit
        BY <1>5
      <3> HIDE DEF Select
      <3> QED BY <1>5, <3>1 DEF Clean, Good
    <2> QED BY <2>1, <2>2 DEF Clean, Good
  <1>4. Rest'
    <2>1. Granted'
      BY DEF Rest, Granted
    <2>2. Settled'
      <3> HIDE DEF Select
      <3> QED BY <1>5 DEF Rest, Settled
    <2>3. RevokedForGood'
      BY DEF Rest, RevokedForGood
    <2>4. AccountedFor'
      BY DEF Rest, Settled, AccountedFor
    <2> QED BY <2>1, <2>2, <2>3, <2>4 DEF Rest
  <1> QED BY <1>1, <1>2, <1>3, <1>4

LEMMA HandoffKeeps ==
    ASSUME IInv, NEW p \in Proc, NEW w \in Workspace, Handoff(p, w)
    PROVE  IInv'
  <1> USE DEF Handoff, At, Goes, store, files, locals, fetching, consuming, budget, history
  <1> USE DEF IInv
  <1>1. TypeOK'
    <2>1. StoreOK' /\ FilesOK'
      BY DEF TypeOK, StoreOK, FilesOK, CuratingOK, FetchingOK, Event
    <2>2. FetchingOK' /\ CuratingOK'
      BY Defaults DEF TypeOK, FetchingOK, CuratingOK, StoreOK, FilesOK, Event
    <2>3. ControlOK'
      BY Counting DEF TypeOK, ControlOK
    <2>4. IdleHoldsNothing'
      BY DEF TypeOK, IdleHoldsNothing, Focus, FocusOf, ControlOK, FetchingOK, CuratingOK
    <2> QED BY <2>1, <2>2, <2>3, <2>4 DEF TypeOK
  <1> USE DEF TypeOK, StoreOK, FilesOK, FetchingOK, CuratingOK, ControlOK
  <1>2. Focus'
    <2> SUFFICES ASSUME NEW q \in Proc PROVE FocusOf(q)'
      BY DEF Focus
    <2>1. FocusOf(q)
      BY DEF Focus
    <2>2. CASE q = p
      <3>1. pc[p] = "curate" /\ pc'[p] \in {"curate", "handoff"}
        BY DEF TypeOK, ControlOK
      <3>2. UNCHANGED <<msgs, asked, key, held, gone, todo>>
        OBVIOUS
      <3> HIDE DEF Handoff, IInv, TypeOK
      <3> QED BY <2>1, <2>2, <3>1, <3>2 DEF FocusOf
    <2>3. CASE q # p
      BY <2>1, <2>3 DEF FocusOf
    <2> QED BY <2>2, <2>3
  <1>3. Clean'
    <2>1. \A e \in (transit \cup quarantine)' : Good(e)'
      BY DEF Clean, Good
    <2>2. \A q \in Proc : \A e \in (held[q] \cup snap[q])' : Good(e)'
      BY DEF Clean, Good, Rest, Granted, Event
    <2> QED BY <2>1, <2>2 DEF Clean, Good
  <1>4. Rest'
    <2>1. Granted'
      BY DEF Rest, Granted
    <2>2. Settled'
      BY DEF Rest, Settled
    <2>3. RevokedForGood'
      BY DEF Rest, RevokedForGood
    <2>4. AccountedFor'
      BY DEF Rest, Settled, AccountedFor
    <2> QED BY <2>1, <2>2, <2>3, <2>4 DEF Rest
  <1> QED BY <1>1, <1>2, <1>3, <1>4

LEMMA SendKeeps ==
    ASSUME IInv, NEW p \in Proc, Send(p)
    PROVE  IInv'
  <1> USE DEF Send, At, Goes, Following, store, files, locals, fetching, consuming, budget, history
  <1> USE DEF IInv
  <1>1. TypeOK'
    <2>1. StoreOK' /\ FilesOK'
      BY DEF TypeOK, StoreOK, FilesOK, CuratingOK, FetchingOK, Event
    <2>2. FetchingOK' /\ CuratingOK'
      BY Defaults DEF TypeOK, FetchingOK, CuratingOK, StoreOK, FilesOK, Event
    <2>3. ControlOK'
      BY Counting DEF TypeOK, ControlOK
    <2>4. IdleHoldsNothing'
      BY DEF TypeOK, IdleHoldsNothing, Focus, FocusOf, ControlOK, FetchingOK, CuratingOK
    <2> QED BY <2>1, <2>2, <2>3, <2>4 DEF TypeOK
  <1> USE DEF TypeOK, StoreOK, FilesOK, FetchingOK, CuratingOK, ControlOK
  <1>2. Focus'
    <2> SUFFICES ASSUME NEW q \in Proc PROVE FocusOf(q)'
      BY DEF Focus
    <2>1. FocusOf(q)
      BY DEF Focus
    <2>2. CASE q = p
      BY <2>1, <2>2 DEF FocusOf, Event
    <2>3. CASE q # p
      BY <2>1, <2>3 DEF FocusOf
    <2> QED BY <2>2, <2>3
  <1>3. Clean'
    <2>1. \A e \in (transit \cup quarantine)' : Good(e)'
      BY DEF Clean, Good
    <2>2. \A q \in Proc : \A e \in (held[q] \cup snap[q])' : Good(e)'
      BY DEF Clean, Good, Rest, Granted, Event
    <2> QED BY <2>1, <2>2 DEF Clean, Good
  <1>4. Rest'
    <2>1. Granted'
      BY DEF Rest, Granted
    <2>2. Settled'
      BY DEF Rest, Settled
    <2>3. RevokedForGood'
      BY DEF Rest, RevokedForGood
    <2>4. AccountedFor'
      BY DEF Rest, Settled, AccountedFor
    <2> QED BY <2>1, <2>2, <2>3, <2>4 DEF Rest
  <1> QED BY <1>1, <1>2, <1>3, <1>4

LEMMA CommittedKeeps ==
    ASSUME IInv, NEW p \in Proc, Committed(p)
    PROVE  IInv'
  <1> USE DEF Committed, Share, At, Goes, Following, store, files, locals, fetching, consuming, budget, history
  <1> USE DEF IInv
  <1>1. TypeOK'
    <2>1. StoreOK' /\ FilesOK'
      BY DEF TypeOK, StoreOK, FilesOK, CuratingOK, FetchingOK, Event
    <2>2. FetchingOK' /\ CuratingOK'
      BY Defaults DEF TypeOK, FetchingOK, CuratingOK, StoreOK, FilesOK, Event
    <2>3. ControlOK'
      BY Counting DEF TypeOK, ControlOK
    <2>4. IdleHoldsNothing'
      BY DEF TypeOK, IdleHoldsNothing, Focus, FocusOf, ControlOK, FetchingOK, CuratingOK
    <2> QED BY <2>1, <2>2, <2>3, <2>4 DEF TypeOK
  <1> USE DEF TypeOK, StoreOK, FilesOK, FetchingOK, CuratingOK, ControlOK
  <1>2. Focus'
    <2> SUFFICES ASSUME NEW q \in Proc PROVE FocusOf(q)'
      BY DEF Focus
    <2>1. FocusOf(q)
      BY DEF Focus
    <2>2. CASE q = p
      BY <2>1, <2>2 DEF FocusOf, Event
    <2>3. CASE q # p
      BY <2>1, <2>3 DEF FocusOf
    <2> QED BY <2>2, <2>3
  <1>3. Clean'
    <2>1. \A e \in (transit \cup quarantine)' : Good(e)'
      BY DEF Clean, Good
    <2>2. \A q \in Proc : \A e \in (held[q] \cup snap[q])' : Good(e)'
      BY DEF Clean, Good, Rest, Granted, Event
    <2> QED BY <2>1, <2>2 DEF Clean, Good
  <1>4. Rest'
    <2>1. Granted'
      BY DEF Rest, Granted
    <2>2. Settled'
      BY DEF Rest, Settled
    <2>3. RevokedForGood'
      BY DEF Rest, RevokedForGood
    <2>4. AccountedFor'
      BY DEF Rest, Settled, AccountedFor
    <2> QED BY <2>1, <2>2, <2>3, <2>4 DEF Rest
  <1> QED BY <1>1, <1>2, <1>3, <1>4

LEMMA CurationFailsKeeps ==
    ASSUME IInv, NEW p \in Proc, CurationFails(p)
    PROVE  IInv'
  <1> USE DEF CurationFails, At, Goes, Following, store, files, locals, fetching, consuming, budget, history
  <1> USE DEF IInv
  <1>1. TypeOK'
    <2>1. StoreOK' /\ FilesOK'
      BY DEF TypeOK, StoreOK, FilesOK, CuratingOK, FetchingOK, Event
    <2>2. FetchingOK' /\ CuratingOK'
      BY Defaults DEF TypeOK, FetchingOK, CuratingOK, StoreOK, FilesOK, Event
    <2>3. ControlOK'
      BY Counting DEF TypeOK, ControlOK
    <2>4. IdleHoldsNothing'
      BY DEF TypeOK, IdleHoldsNothing, Focus, FocusOf, ControlOK, FetchingOK, CuratingOK
    <2> QED BY <2>1, <2>2, <2>3, <2>4 DEF TypeOK
  <1> USE DEF TypeOK, StoreOK, FilesOK, FetchingOK, CuratingOK, ControlOK
  <1>2. Focus'
    <2> SUFFICES ASSUME NEW q \in Proc PROVE FocusOf(q)'
      BY DEF Focus
    <2>1. FocusOf(q)
      BY DEF Focus
    <2>2. CASE q = p
      BY <2>1, <2>2 DEF FocusOf, Event
    <2>3. CASE q # p
      BY <2>1, <2>3 DEF FocusOf
    <2> QED BY <2>2, <2>3
  <1>3. Clean'
    <2>1. \A e \in (transit \cup quarantine)' : Good(e)'
      BY DEF Clean, Good
    <2>2. \A q \in Proc : \A e \in (held[q] \cup snap[q])' : Good(e)'
      BY DEF Clean, Good, Rest, Granted, Event
    <2> QED BY <2>1, <2>2 DEF Clean, Good
  <1>4. Rest'
    <2>1. Granted'
      BY DEF Rest, Granted
    <2>2. Settled'
      BY DEF Rest, Settled
    <2>3. RevokedForGood'
      BY DEF Rest, RevokedForGood
    <2>4. AccountedFor'
      BY DEF Rest, Settled, AccountedFor
    <2> QED BY <2>1, <2>2, <2>3, <2>4 DEF Rest
  <1> QED BY <1>1, <1>2, <1>3, <1>4

LEMMA CuratedKeeps ==
    ASSUME IInv, NEW p \in Proc, Curated(p)
    PROVE  IInv'
  <1> USE DEF Curated, Rests, At, Goes, Ends, store, files, locals, fetching, consuming, budget, history
  <1> USE DEF IInv
  <1>1. TypeOK'
    <2>1. StoreOK' /\ FilesOK'
      BY DEF TypeOK, StoreOK, FilesOK, CuratingOK, FetchingOK, Event
    <2>2. FetchingOK' /\ CuratingOK'
      BY Defaults DEF TypeOK, FetchingOK, CuratingOK, StoreOK, FilesOK, Event
    <2>3. ControlOK'
      BY Counting DEF TypeOK, ControlOK
    <2>4. IdleHoldsNothing'
      BY DEF TypeOK, IdleHoldsNothing, Focus, FocusOf, ControlOK, FetchingOK, CuratingOK
    <2> QED BY <2>1, <2>2, <2>3, <2>4 DEF TypeOK
  <1> USE DEF TypeOK, StoreOK, FilesOK, FetchingOK, CuratingOK, ControlOK
  <1>2. Focus'
    <2> SUFFICES ASSUME NEW q \in Proc PROVE FocusOf(q)'
      BY DEF Focus
    <2>1. FocusOf(q)
      BY DEF Focus
    <2>2. CASE q = p
      BY <2>1, <2>2 DEF FocusOf, Event
    <2>3. CASE q # p
      BY <2>1, <2>3 DEF FocusOf
    <2> QED BY <2>2, <2>3
  <1>3. Clean'
    <2>1. \A e \in (transit \cup quarantine)' : Good(e)'
      BY DEF Clean, Good
    <2>2. \A q \in Proc : \A e \in (held[q] \cup snap[q])' : Good(e)'
      BY DEF Clean, Good, Rest, Granted, Event
    <2> QED BY <2>1, <2>2 DEF Clean, Good
  <1>4. Rest'
    <2>1. Granted'
      BY DEF Rest, Granted
    <2>2. Settled'
      BY DEF Rest, Settled
    <2>3. RevokedForGood'
      BY DEF Rest, RevokedForGood
    <2>4. AccountedFor'
      BY DEF Rest, Settled, AccountedFor
    <2> QED BY <2>1, <2>2, <2>3, <2>4 DEF Rest
  <1> QED BY <1>1, <1>2, <1>3, <1>4

LEMMA ReadKeeps ==
    ASSUME IInv, NEW p \in Proc, ConsumeRead(p)
    PROVE  IInv'
  <1> USE DEF ConsumeRead, At, Goes, store, files, locals, fetching, consuming, budget, history
  <1> USE DEF IInv
  <1>1. TypeOK'
    <2>1. StoreOK' /\ FilesOK'
      BY DEF TypeOK, StoreOK, FilesOK, CuratingOK, FetchingOK, Event
    <2>2. FetchingOK' /\ CuratingOK'
      BY Defaults DEF TypeOK, FetchingOK, CuratingOK, StoreOK, FilesOK, Event
    <2>3. ControlOK'
      BY Counting DEF TypeOK, ControlOK
    <2>4. IdleHoldsNothing'
      BY DEF TypeOK, IdleHoldsNothing, Focus, FocusOf, ControlOK, FetchingOK, CuratingOK
    <2> QED BY <2>1, <2>2, <2>3, <2>4 DEF TypeOK
  <1> USE DEF TypeOK, StoreOK, FilesOK, FetchingOK, CuratingOK, ControlOK
  <1>2. Focus'
    <2> SUFFICES ASSUME NEW q \in Proc PROVE FocusOf(q)'
      BY DEF Focus
    <2>1. FocusOf(q)
      BY DEF Focus
    <2>2. CASE q = p
      BY <2>1, <2>2 DEF FocusOf, Event
    <2>3. CASE q # p
      BY <2>1, <2>3 DEF FocusOf
    <2> QED BY <2>2, <2>3
  <1>3. Clean'
    <2>1. \A e \in (transit \cup quarantine)' : Good(e)'
      BY DEF Clean, Good
    <2>2. \A q \in Proc : \A e \in (held[q] \cup snap[q])' : Good(e)'
      BY DEF Clean, Good, Rest, Granted, Event
    <2> QED BY <2>1, <2>2 DEF Clean, Good
  <1>4. Rest'
    <2>1. Granted'
      BY DEF Rest, Granted
    <2>2. Settled'
      BY DEF Rest, Settled
    <2>3. RevokedForGood'
      BY DEF Rest, RevokedForGood
    <2>4. AccountedFor'
      BY DEF Rest, Settled, AccountedFor
    <2> QED BY <2>1, <2>2, <2>3, <2>4 DEF Rest
  <1> QED BY <1>1, <1>2, <1>3, <1>4

LEMMA WriteKeeps ==
    ASSUME IInv, NEW p \in Proc, ConsumeWrite(p)
    PROVE  IInv'
  <1> USE DEF ConsumeWrite, Rests, At, Goes, Ends, store, files, locals, fetching, consuming, budget, history
  <1> USE DEF IInv
  <1>1. TypeOK'
    <2>1. StoreOK' /\ FilesOK'
      BY DEF TypeOK, StoreOK, FilesOK, CuratingOK, FetchingOK, Event
    <2>2. FetchingOK' /\ CuratingOK'
      BY Defaults DEF TypeOK, FetchingOK, CuratingOK, StoreOK, FilesOK, Event
    <2>3. ControlOK'
      BY Counting DEF TypeOK, ControlOK
    <2>4. IdleHoldsNothing'
      BY DEF TypeOK, IdleHoldsNothing, Focus, FocusOf, ControlOK, FetchingOK, CuratingOK
    <2> QED BY <2>1, <2>2, <2>3, <2>4 DEF TypeOK
  <1> USE DEF TypeOK, StoreOK, FilesOK, FetchingOK, CuratingOK, ControlOK
  <1>2. Focus'
    <2> SUFFICES ASSUME NEW q \in Proc PROVE FocusOf(q)'
      BY DEF Focus
    <2>1. FocusOf(q)
      BY DEF Focus
    <2>2. CASE q = p
      BY <2>1, <2>2 DEF FocusOf, Event
    <2>3. CASE q # p
      BY <2>1, <2>3 DEF FocusOf
    <2> QED BY <2>2, <2>3
  <1>3. Clean'
    <2>1. \A e \in (transit \cup quarantine)' : Good(e)'
      BY DEF Clean, Good
    <2>2. \A q \in Proc : \A e \in (held[q] \cup snap[q])' : Good(e)'
      BY DEF Clean, Good, Rest, Granted, Event
    <2> QED BY <2>1, <2>2 DEF Clean, Good
  <1>4. Rest'
    <2>1. Granted'
      BY DEF Rest, Granted
    <2>2. Settled'
      BY DEF Rest, Settled
    <2>3. RevokedForGood'
      BY DEF Rest, RevokedForGood
    <2>4. AccountedFor'
      BY DEF Rest, Settled, AccountedFor
    <2> QED BY <2>1, <2>2, <2>3, <2>4 DEF Rest
  <1> QED BY <1>1, <1>2, <1>3, <1>4

LEMMA CrashKeeps ==
    ASSUME IInv, Crash
    PROVE  IInv'
  <1> USE DEF Crash, New, At, store, files, locals, fetching, consuming, budget, history
  <1> USE DEF IInv
  <1>1. TypeOK'
    <2>1. StoreOK' /\ FilesOK'
      BY DEF TypeOK, StoreOK, FilesOK, CuratingOK, FetchingOK, Event
    <2>2. FetchingOK' /\ CuratingOK'
      BY Defaults DEF TypeOK, FetchingOK, CuratingOK, StoreOK, FilesOK, Event
    <2>3. ControlOK'
      BY Counting DEF TypeOK, ControlOK
    <2>4. IdleHoldsNothing'
      BY DEF TypeOK, IdleHoldsNothing, Focus, FocusOf, ControlOK, FetchingOK, CuratingOK
    <2> QED BY <2>1, <2>2, <2>3, <2>4 DEF TypeOK
  <1> USE DEF TypeOK, StoreOK, FilesOK, FetchingOK, CuratingOK, ControlOK
  <1>2. Focus'
    <2> SUFFICES ASSUME NEW q \in Proc PROVE FocusOf(q)'
      BY DEF Focus
    <2>1. FocusOf(q)
      BY DEF Focus
    <2> QED BY <2>1 DEF FocusOf
  <1>3. Clean'
    <2>1. \A e \in (transit \cup quarantine)' : Good(e)'
      BY DEF Clean, Good
    <2>2. \A q \in Proc : \A e \in (held[q] \cup snap[q])' : Good(e)'
      BY DEF Clean, Good, Rest, Granted, Event
    <2> QED BY <2>1, <2>2 DEF Clean, Good
  <1>4. Rest'
    <2>1. Granted'
      BY DEF Rest, Granted
    <2>2. Settled'
      BY DEF Rest, Settled
    <2>3. RevokedForGood'
      BY DEF Rest, RevokedForGood
    <2>4. AccountedFor'
      BY DEF Rest, Settled, AccountedFor
    <2> QED BY <2>1, <2>2, <2>3, <2>4 DEF Rest
  <1> QED BY <1>1, <1>2, <1>3, <1>4

LEMMA Invariance == Spec => []IInv
  <1>1. ASSUME IInv, [Next]_vars PROVE IInv'
    <2>1. ASSUME NEW m \in Message, Arrive(m) PROVE IInv'
      BY <1>1, <2>1, ArriveKeeps
    <2>2. CASE User
      <3>1. ASSUME NEW k \in Source, Reject(k) \/ Revoke(k) PROVE IInv'
        BY <1>1, <3>1, RejectKeeps, RevokeKeeps
      <3>2. ASSUME NEW ok \in SUBSET Workspace, SetAllow(ok) PROVE IInv'
        BY <1>1, <3>2, AllowKeeps
      <3>3. ASSUME NEW p \in Web, Curate(p) \/ Poll(p) PROVE IInv'
        BY <1>1, <3>3, CurateKeeps, PollKeeps DEF Proc
      <3>4. ASSUME NEW p \in Web, NEW k \in Source, NEW w \in Workspace, Approve(p, k, w)
            PROVE  IInv'
        BY <1>1, <3>4, ApproveKeeps DEF Proc
      <3> QED BY <2>2, <3>1, <3>2, <3>3, <3>4 DEF User
    <2>3. CASE Poll(Loop)
      BY <1>1, <2>3, PollKeeps DEF Proc
    <2>4. ASSUME NEW p \in Proc, Discovery(p) PROVE IInv'
      BY <1>1, <2>4, ListedKeeps, DiscoveredKeeps DEF Discovery
    <2>5. ASSUME NEW p \in Proc, Fetch(p) PROVE IInv'
      BY <1>1, <2>5, BeginKeeps, HeadersKeeps, BodyKeeps, DeliverKeeps, FetchedKeeps DEF Fetch
    <2>6. ASSUME NEW p \in Proc, Curation(p) PROVE IInv'
      BY <1>1, <2>6, SelectKeeps, SendKeeps, CommittedKeeps, CuratedKeeps, HandoffKeeps,
         ReadKeeps, WriteKeeps DEF Curation
    <2>7. ASSUME NEW p \in Proc, Fails(p) PROVE IInv'
      BY <1>1, <2>7, PollFailsKeeps, FetchFailsKeeps, CurationFailsKeeps DEF Fails
    <2>8. CASE Crash
      BY <1>1, <2>8, CrashKeeps
    <2>9. CASE UNCHANGED vars
      <3> USE <2>9 DEF vars, store, files, locals, fetching, consuming, budget, history
      <3>1. TypeOK'
        BY <1>1 DEF IInv, TypeOK, StoreOK, FilesOK, FetchingOK, CuratingOK, ControlOK,
                    IdleHoldsNothing
      <3>2. Focus' /\ Clean'
        BY <1>1 DEF IInv, Focus, FocusOf, Clean, Good
      <3>3. Rest'
        BY <1>1 DEF IInv, Rest, Granted, Settled, RevokedForGood, AccountedFor
      <3> QED BY <3>1, <3>2, <3>3 DEF IInv
    <2> QED BY <1>1, <2>1, <2>2, <2>3, <2>4, <2>5, <2>6, <2>7, <2>8, <2>9 DEF Next, Step
  <1> QED BY InitInv, <1>1, PTL DEF Spec

\* Every state of the review store, of the account's files and of the
\* coroutines has the declared shape, and an idle coroutine holds no body.
THEOREM TypeCorrect == Spec => []TypeOK
  BY Invariance, PTL DEF IInv

\* "Revocation is durable": no discovery, approval, rejection or
\* classification that comes later gives a revoked source a workspace again.
THEOREM RevokedForGoodHolds == Spec => []RevokedForGood
  <1>1. IInv => RevokedForGood
    BY DEF IInv, Rest
  <1> QED BY <1>1, Invariance, PTL

\* Through fetch, transit, quarantine, curation and the late write of a
\* consume_transit, a body is only ever where the user granted its source,
\* and no message whose headers classify it is held at all.
THEOREM OnlyGrantedHolds == Spec => []OnlyGranted
  <1>1. IInv => OnlyGranted
    BY DEF IInv, Clean, Good, OnlyGranted
  <1> QED BY <1>1, Invariance, PTL

\* No receipt stands for a message that is lost, but for the overwritten
\* delivery of another coroutine.
THEOREM AccountedForHolds == Spec => []AccountedFor
  <1>1. IInv => AccountedFor
    BY DEF IInv, Rest
  <1> QED BY <1>1, Invariance, PTL

\* A step that writes no receipt and hands nothing to a curator.
Quiet == receipts' = receipts /\ \A p \in Proc : ~(pc[p] = "handoff" /\ pc'[p] = "curating")

NothingNew == \A e \in (receipts' \ receipts) \cup HandedOver : Of[e[1]] \notin revoked /\ e[2] \in allow

LEMMA QuietIsFine == Quiet => NothingNew
  BY DEF Quiet, NothingNew, HandedOver

LEMMA MostAreQuiet ==
    ASSUME ControlOK,
           \/ \E m \in Message : Arrive(m)
           \/ User \/ Poll(Loop) \/ Crash \/ UNCHANGED vars
           \/ \E p \in Proc : \/ Discovery(p) \/ Fails(p) \/ Body(p) \/ Fetched(p)
                              \/ Select(p) \/ Committed(p) \/ Curated(p)
                              \/ ConsumeRead(p) \/ ConsumeWrite(p)
    PROVE  Quiet
  <1> USE DEF Quiet, ControlOK, Goes, At, store, files, locals, fetching, consuming, budget, history
  <1>1. ASSUME NEW m \in Message, Arrive(m) PROVE Quiet
    BY <1>1 DEF Arrive
  <1>2. CASE User
    <2>1. ASSUME NEW k \in Source, Reject(k) \/ Revoke(k) PROVE Quiet
      BY <2>1 DEF Reject, Revoke
    <2>2. ASSUME NEW ok \in SUBSET Workspace, SetAllow(ok) PROVE Quiet
      BY <2>2 DEF SetAllow
    <2>3. ASSUME NEW p \in Web, Curate(p) \/ Poll(p) PROVE Quiet
      BY <2>3 DEF Curate, Poll
    <2>4. ASSUME NEW p \in Web, NEW k \in Source, NEW w \in Workspace, Approve(p, k, w)
          PROVE  Quiet
      BY <2>4 DEF Approve
    <2> QED BY <1>2, <2>1, <2>2, <2>3, <2>4 DEF User
  <1>3. CASE Poll(Loop)
    BY <1>3 DEF Poll
  <1>4. CASE Crash
    BY <1>4 DEF Crash
  <1>5. CASE UNCHANGED vars
    BY <1>5 DEF vars
  <1>6. ASSUME NEW p \in Proc, Discovery(p) \/ Fails(p) PROVE Quiet
    <2>1. CASE Discovery(p)
      BY <2>1 DEF Discovery, Listed, Discovered
    <2>2. CASE Fails(p)
      BY <2>2 DEF Fails, PollFails, FetchFails, CurationFails, Leave, Following, Ends
    <2> QED BY <1>6, <2>1, <2>2
  <1>7. ASSUME NEW p \in Proc, Body(p) \/ Fetched(p) PROVE Quiet
    BY <1>7 DEF Body, Fetched, Leave, Ends
  <1>8. ASSUME NEW p \in Proc, Select(p) \/ Committed(p) \/ Curated(p) PROVE Quiet
    BY <1>8 DEF Select, Committed, Curated, Following, Rests, Ends
  <1>9. ASSUME NEW p \in Proc, ConsumeRead(p) \/ ConsumeWrite(p) PROVE Quiet
    BY <1>9 DEF ConsumeRead, ConsumeWrite, Rests, Ends
  <1> QED BY <1>1, <1>2, <1>3, <1>4, <1>5, <1>6, <1>7, <1>8, <1>9

\* "wins races with polling/queued work": whatever the user decides between
\* two awaits of a fetch or of a curation, no receipt is written and nothing is
\* handed to a curator for a revoked source or a workspace off the list.
THEOREM RevocationWinsHolds == Spec => RevocationWins
  <1>1. ASSUME IInv, [Next]_vars PROVE NothingNew
    <2> USE DEF Goes, At, store, files, locals, fetching, consuming, budget, history
    <2>0. ControlOK
      BY <1>1 DEF IInv, TypeOK
    <2>1. ASSUME NEW p \in Proc, Deliver(p) PROVE NothingNew
      <3>1. CASE Authorised(key[p], ws[p])
        <4>1. receipts' \ receipts \subseteq held[p]
          BY <2>1, <3>1 DEF Deliver, Delivered, New
        <4>2. \A e \in held[p] : Of[e[1]] = key[p] /\ e[2] = ws[p]
          BY <1>1, <2>1 DEF Deliver, IInv, Focus, FocusOf
        <4>3. key[p] \notin revoked /\ ws[p] \in allow
          BY <3>1 DEF Authorised
        <4>4. HandedOver = {}
          BY <2>0, <2>1 DEF Deliver, Leave, HandedOver, ControlOK
        <4> QED BY <4>1, <4>2, <4>3, <4>4 DEF NothingNew
      <3>2. CASE ~Authorised(key[p], ws[p])
        <4>1. Quiet
          BY <2>0, <2>1, <3>2 DEF Deliver, Leave, Quiet, ControlOK
        <4> QED BY <4>1, QuietIsFine
      <3> QED BY <3>1, <3>2
    <2>2. ASSUME NEW p \in Proc, Send(p) PROVE NothingNew
      <3>1. CASE AnyRevoked(Share(p, ws[p])) \/ ws[p] \notin allow
        <4>1. Quiet
          BY <2>0, <2>2, <3>1 DEF Send, Following, Quiet, ControlOK
        <4> QED BY <4>1, QuietIsFine
      <3>2. CASE ~(AnyRevoked(Share(p, ws[p])) \/ ws[p] \notin allow)
        <4>1. receipts' = receipts
          BY <2>2 DEF Send
        <4>2. \A q \in Proc : pc[q] = "handoff" /\ pc'[q] = "curating" => q = p
          BY <2>0, <2>2, <3>2 DEF Send, ControlOK
        <4>3. HandedOver \subseteq Share(p, ws[p])
          BY <4>2 DEF HandedOver
        <4>4. \A e \in Share(p, ws[p]) : e[2] = ws[p]
          BY DEF Share
        <4> QED BY <3>2, <4>1, <4>3, <4>4 DEF NothingNew, AnyRevoked
      <3> QED BY <3>1, <3>2
    <2>3. ASSUME NEW p \in Proc, NEW k \in Source, NEW w \in Workspace, Begin(p, k, w)
          PROVE  NothingNew
      <3>1. Quiet
        BY <2>0, <2>3 DEF Begin, Quiet, ControlOK
      <3> QED BY <3>1, QuietIsFine
    <2>4. ASSUME NEW p \in Proc, NEW m \in Message, Headers(p, m) PROVE NothingNew
      <3>1. Quiet
        BY <2>0, <2>4 DEF Headers, Leave, Quiet, ControlOK
      <3> QED BY <3>1, QuietIsFine
    <2>5. ASSUME NEW p \in Proc, NEW w \in Workspace, Handoff(p, w) PROVE NothingNew
      <3>1. Quiet
        BY <2>0, <2>5 DEF Handoff, Quiet, ControlOK
      <3> QED BY <3>1, QuietIsFine
    <2> QED BY <1>1, <2>0, <2>1, <2>2, <2>3, <2>4, <2>5, MostAreQuiet, QuietIsFine
            DEF Next, Step, Fetch, Curation
  <1>2. NothingNew => [\A e \in (receipts' \ receipts) \cup HandedOver :
                          Of[e[1]] \notin revoked /\ e[2] \in allow]_vars
    BY DEF NothingNew
  <1>3. IInv /\ [Next]_vars => [\A e \in (receipts' \ receipts) \cup HandedOver :
                          Of[e[1]] \notin revoked /\ e[2] \in allow]_vars
    BY <1>1, <1>2
  <1> QED BY <1>3, Invariance, PTL DEF Spec, RevocationWins

\* How far the finding comms_dropped goes: the quarantine of a poll is the only
\* step that takes an event out of the buffer which was neither committed nor
\* purged, except what a concurrent consume_transit overwrites.
OnlyPollsDrop ==
    [][(\A p \in Proc : ~Poll(p)) => transit \ transit' \subseteq settled' \cup clobbered']_vars

THEOREM OnlyPollsDropHolds == Spec => OnlyPollsDrop
  <1>1. IInv /\ [Next]_vars =>
            ((\A p \in Proc : ~Poll(p)) => transit \ transit' \subseteq settled' \cup clobbered')
    <2> SUFFICES ASSUME IInv, [Next]_vars, \A p \in Proc : ~Poll(p)
                 PROVE  transit \ transit' \subseteq settled' \cup clobbered'
      OBVIOUS
    <2> USE DEF store, files, locals, fetching, consuming, budget, history
    <2>1. ASSUME NEW p \in Proc, ConsumeWrite(p)
          PROVE  transit \ transit' \subseteq settled' \cup clobbered'
      <3>1. transit' = snap[p] /\ clobbered' = clobbered \cup (transit \ (snap[p] \cup gone[p]))
            /\ settled' = settled
        BY <2>1 DEF ConsumeWrite
      <3>2. gone[p] \subseteq settled
        BY DEF IInv, Rest, Settled
      <3> QED BY <3>1, <3>2
    <2>2. ASSUME transit \subseteq transit'
          PROVE  transit \ transit' \subseteq settled' \cup clobbered'
      BY <2>2
    <2>3. ASSUME NEW p \in Proc, Discovery(p) \/ Fetch(p) \/ Fails(p) PROVE transit \subseteq transit'
      BY <2>3 DEF Discovery, Discovered, Listed, Fetch, Begin, Headers, Body, Deliver, Delivered,
                  Fetched, Fails, PollFails, FetchFails, CurationFails
    <2>4. ASSUME NEW p \in Proc, Curation(p), ~ConsumeWrite(p) PROVE transit \subseteq transit'
      BY <2>4 DEF Curation, Select, Send, Committed, Curated, Handoff, ConsumeRead
    <2>5. CASE User
      BY <2>5 DEF User, Reject, Revoke, SetAllow, Curate, Approve, Proc
    <2>6. CASE Crash \/ (\E m \in Message : Arrive(m)) \/ UNCHANGED vars
      BY <2>6 DEF Crash, Arrive, vars
    <2> QED BY <2>1, <2>2, <2>3, <2>4, <2>5, <2>6 DEF Next, Step, Proc
  <1> QED BY <1>1, Invariance, PTL DEF Spec, OnlyPollsDrop
=============================================================================
