---------------------------- MODULE WatchProofs -----------------------------
(***************************************************************************)
(* What WatchFolders guarantees for any number of files and handlers.      *)
(***************************************************************************)
EXTENDS WatchFolders, FiniteSetTheorems, TLAPS

(***************************************************************************)
(* The inductive invariant.  AtRest says that between two beats no file is *)
(* in a thread's hands, Stamping that a file being stamped was ingested,   *)
(* and Kept that a file ingested once, whose handoff did not fail after    *)
(* it, is on its way to the seen index or in it: it is not picked again.   *)
(***************************************************************************)
AtRest == beat # "gather" => \A f \in File : hand[f] = "none"

Stamping == \A f \in File : hand[f] = "stamp" => ingests[f] > 0

Kept == \A f \in File : ingests[f] > 0 /\ f \notin redo
            => hand[f] = "stamp" \/ (f \in seen /\ hand[f] = "none")

InFolder == \A f \in File : hand[f] # "none" => f \in there
WebBusy == \A w \in Web : web[w].pc # "idle" => web[w].op # "none"

IInv == TypeOK /\ InFolder /\ WebBusy /\ AtRest /\ Stamping /\ Kept /\ SeenIsDealtWith /\ IngestedOnce

Hands == {"none", "start", "hydrate", "stage", "ingest", "stamp"}

LEMMA Backoff == \A n : BackoffBeats(n) \in 0..4
  BY DEF BackoffBeats

-----------------------------------------------------------------------------
(* What a beat picks.  A file is its rank, so the oldest of a set are those *)
(* with few files below them.                                              *)

\* Files, if there are any, have an oldest.
LEMMA Oldest ==
    ASSUME NEW S \in SUBSET File, S # {}
    PROVE  \E f \in S : \A g \in S : f <= g
  <1> DEFINE R == OpToRel(<, Nat)
  <1>1. IsWellFoundedOn(R, Nat)
    BY NatLessThanWellFounded
  <1>2. S \subseteq Nat
    BY WatchAssumption DEF File
  <1>3. \A x, y \in Nat : y < x => <<y, x>> \in R
    BY DEF OpToRel
  <1> HIDE DEF R
  <1>4. PICK f \in S : \A g \in S : <<g, f>> \notin R
    BY <1>1, <1>2, WFMin
  <1>5. \A g \in S : ~(g < f)
    BY <1>2, <1>3, <1>4, Zenon
  <1> QED BY <1>2, <1>5

\* The files of S older than f.
Below(S, f) == {g \in S : g < f}

LEMMA FilesFinite ==
    ASSUME NEW S \in SUBSET File
    PROVE  IsFiniteSet(S) /\ S \subseteq Nat
  <1>1. IsFiniteSet(1..N)
    BY WatchAssumption, FS_Interval
  <1>2. IsFiniteSet(S)
    BY <1>1, FS_Subset DEF File
  <1>3. S \subseteq Nat
    BY WatchAssumption DEF File
  <1> QED BY <1>2, <1>3

\* A later file has more files below it, so that their number tells files apart.
LEMMA BelowGrows ==
    ASSUME NEW S \in SUBSET File
    PROVE  /\ IsFiniteSet(S)
           /\ \A f \in S : Cardinality(Below(S, f)) \in Nat
           /\ \A f, h \in S : f < h => Cardinality(Below(S, f)) < Cardinality(Below(S, h))
  <1>1. IsFiniteSet(S) /\ S \subseteq Nat
    BY FilesFinite
  <1>2. \A f : IsFiniteSet(Below(S, f)) /\ Cardinality(Below(S, f)) \in Nat
    BY <1>1, FS_Subset, FS_CardinalityType DEF Below
  <1>3. ASSUME NEW f \in S, NEW h \in S, f < h
        PROVE  Cardinality(Below(S, f)) < Cardinality(Below(S, h))
    <2>a. f \in Nat /\ h \in Nat
      BY <1>1
    <2>b. \A g \in S : g < f => g < h
      BY <1>1, <1>3, <2>a
    <2>c. ~(f < f)
      BY <2>a
    <2>1. Below(S, f) \in SUBSET Below(S, h) /\ f \in Below(S, h) \ Below(S, f)
      BY <2>b, <2>c, <1>3, Zenon DEF Below
    <2>2. /\ Cardinality(Below(S, f)) <= Cardinality(Below(S, h))
          /\ Cardinality(Below(S, f)) # Cardinality(Below(S, h))
      BY <1>2, <2>1, FS_Subset
    <2> QED BY <1>2, <2>2
  <1> QED BY <1>1, <1>2, <1>3

LEMMA LeastInSet == \A S, n : Least(S, n) \subseteq S
  BY DEF Least

\* The n oldest of S are at most n: no two of them have as many files below.
LEMMA LeastBound ==
    ASSUME NEW S \in SUBSET File, NEW n \in Nat
    PROVE  /\ Least(S, n) \subseteq S
           /\ IsFiniteSet(Least(S, n))
           /\ Cardinality(Least(S, n)) \in 0..n
  <1> DEFINE L == Least(S, n)
             T == 0..(n - 1)
             rank == [f \in L |-> Cardinality(Below(S, f))]
  <1>1. L \subseteq S /\ IsFiniteSet(L) /\ Cardinality(L) \in Nat
    BY BelowGrows, FS_Subset, FS_CardinalityType DEF Least
  <1>2. IsFiniteSet(T) /\ Cardinality(T) = n
    BY FS_Interval
  <1>3. rank \in [L -> T]
    <2>1. \A f \in L : Cardinality(Below(S, f)) \in Nat /\ Cardinality(Below(S, f)) < n
      BY <1>1, BelowGrows DEF Least, Below
    <2>2. \A f \in L : Cardinality(Below(S, f)) \in T
      BY <2>1
    <2> HIDE DEF T, L
    <2> QED BY <2>2
  <1>4. \A f, h \in L : f # h => rank[f] # rank[h]
    <2>1. \A f, h \in Nat : f < h \/ h < f \/ f = h
      OBVIOUS
    <2>2. L \subseteq Nat
      BY <1>1, FilesFinite
    <2> HIDE DEF L
    <2> QED BY <1>1, <2>1, <2>2, BelowGrows
  <1>5. ~(Cardinality(T) < Cardinality(L))
    <2> HIDE DEF rank, T, L
    <2> QED BY <1>1, <1>2, <1>3, <1>4, FS_PigeonHole
  <1> QED BY <1>1, <1>2, <1>5

\* Fewer than n means all of S: the oldest that is left out has n below it.
LEMMA LeastFull ==
    ASSUME NEW S \in SUBSET File, NEW n \in Nat, Cardinality(Least(S, n)) < n
    PROVE  Least(S, n) = S
  <1> SUFFICES ASSUME S \ Least(S, n) # {} PROVE FALSE
    BY DEF Least
  <1>1. PICK f \in S \ Least(S, n) : \A g \in S \ Least(S, n) : f <= g
    BY Oldest
  <1>2. Below(S, f) \in SUBSET Least(S, n)
    <2>1. \A g \in Nat : g < f => ~(f <= g)
      BY <1>1, FilesFinite
    <2> QED BY <1>1, <2>1, FilesFinite, Zenon DEF Below
  <1>3. Cardinality(Below(S, f)) <= Cardinality(Least(S, n))
    BY <1>2, LeastBound, FS_Subset
  <1>4. ~(Cardinality(Below(S, f)) < n)
    BY <1>1 DEF Least, Below
  <1>5. Cardinality(Below(S, f)) \in Nat /\ Cardinality(Least(S, n)) \in Nat
    BY <1>1, BelowGrows, LeastBound
  <1> QED BY <1>3, <1>4, <1>5

LEMMA LeastHasOldest ==
    ASSUME NEW S \in SUBSET File, NEW n \in Nat \ {0}, NEW f \in S, \A g \in S : f <= g
    PROVE  f \in Least(S, n)
  <1>1. \A g \in S : ~(g < f)
    BY FilesFinite
  <1>2. {g \in S : g < f} = {}
    BY <1>1
  <1> QED BY <1>2, FS_EmptySet DEF Least

LEMMA DisjointCount ==
    ASSUME NEW S \in SUBSET File, NEW T \in SUBSET File
    PROVE  /\ Cardinality(S) \in Nat /\ Cardinality(T) \in Nat /\ Cardinality(S \cup T) \in Nat
           /\ Cardinality(S \cup T) <= Cardinality(S) + Cardinality(T)
           /\ S \cap T = {} => Cardinality(S \cup T) = Cardinality(S) + Cardinality(T)
  <1>1. IsFiniteSet(S) /\ IsFiniteSet(T) /\ IsFiniteSet(S \cap T) /\ IsFiniteSet(S \cup T)
    BY FilesFinite, FS_Intersection, FS_Union
  <1>2. /\ Cardinality(S) \in Nat /\ Cardinality(T) \in Nat
        /\ Cardinality(S \cap T) \in Nat /\ Cardinality(S \cup T) \in Nat
    BY <1>1, FS_CardinalityType
  <1>3. Cardinality(S \cup T) = Cardinality(S) + Cardinality(T) - Cardinality(S \cap T)
    BY <1>1, FS_Union
  <1>4. S \cap T = {} => Cardinality(S \cap T) = 0
    BY FS_EmptySet
  <1> QED BY <1>2, <1>3, <1>4

\* Filling up with the oldest of S: no more than Cap, and less only with all of S.
LEMMA TopUp ==
    ASSUME NEW S \in SUBSET File, NEW M \in SUBSET File, Cardinality(M) <= Cap
    PROVE  LET all == M \cup Least(S \ M, Cap - Cardinality(M))
           IN  /\ M \subseteq all /\ all \subseteq M \cup S
               /\ Cardinality(M) <= Cardinality(all) /\ Cardinality(all) <= Cap
               /\ Cardinality(all) < Cap => S \subseteq all
  <1> DEFINE n == Cap - Cardinality(M)
             L == Least(S \ M, n)
  <1>1. n \in Nat /\ n = Cap - Cardinality(M) /\ Cardinality(M) \in Nat
    BY DisjointCount, WatchAssumption
  <1> HIDE DEF n
  <1>2. L \subseteq S \ M /\ Cardinality(L) \in 0..n /\ (Cardinality(L) < n => L = S \ M)
    BY <1>1, LeastBound, LeastFull
  <1>3. Cardinality(M \cup L) = Cardinality(M) + Cardinality(L)
    BY <1>2, DisjointCount
  <1> HIDE DEF L
  <1>4. /\ Cardinality(M) <= Cardinality(M \cup L) /\ Cardinality(M \cup L) <= Cap
        /\ Cardinality(M \cup L) < Cap => Cardinality(L) < n
    BY <1>1, <1>2, <1>3, WatchAssumption
  <1> QED BY <1>2, <1>4 DEF n, L

\* Neither share of a beat is nothing, and together they fit.
LEMMA Shares ==
    ASSUME NEW ready \in SUBSET File, NEW due \in SUBSET File, due # {},
           NEW dueTake, NEW readyTake,
           dueTake = IF ready = {} THEN Cap ELSE Lower(Cardinality(due), Higher(1, Cap \div 2)),
           readyTake = Lower(Cardinality(ready), Cap - dueTake)
    PROVE  /\ dueTake \in 1..Cap /\ readyTake \in Nat /\ readyTake + dueTake <= Cap
           /\ ready # {} => readyTake >= 1
  <1>1. Cap \div 2 \in Nat /\ Higher(1, Cap \div 2) \in 1..(Cap - 1) /\ Cap \in Nat /\ Cap >= 2
    BY WatchAssumption DEF Higher
  <1>2. /\ Cardinality(due) \in Nat \ {0} /\ Cardinality(ready) \in Nat
        /\ ready # {} => Cardinality(ready) # 0
    BY FilesFinite, DisjointCount, FS_EmptySet
  <1>3. CASE ready = {}
    BY <1>1, <1>2, <1>3, FS_EmptySet DEF Lower
  <1>4. CASE ready # {}
    BY <1>1, <1>2, <1>4 DEF Lower
  <1> QED BY <1>3, <1>4

\* _fair_pick: at most Cap files, fewer only when there are no more, and the
\* oldest of either kind is always among them.
LEMMA FairPicked ==
    ASSUME NEW ready \in SUBSET File, NEW due \in SUBSET File
    PROVE  LET picked == FairPick(ready, due)
           IN  /\ Cardinality(picked) <= Cap
               /\ Cardinality(picked) < Cap => ready \cup due \subseteq picked
               /\ \A f \in ready : (\A g \in ready : f <= g) => f \in picked
               /\ \A f \in due : (\A g \in due : f <= g) => f \in picked
  <1> USE DEF FairPick
  <1>1. CASE due = {}
    <2>1. /\ Cardinality(Least(ready, Cap)) \in 0..Cap
          /\ Cardinality(Least(ready, Cap)) < Cap => Least(ready, Cap) = ready
          /\ \A f \in ready : (\A g \in ready : f <= g) => f \in Least(ready, Cap)
      BY WatchAssumption, LeastBound, LeastFull, LeastHasOldest
    <2>2. FairPick(ready, due) = Least(ready, Cap)
      BY <1>1
    <2>3. Cardinality(Least(ready, Cap)) <= Cap
      BY <2>1, WatchAssumption
    <2> HIDE DEF FairPick
    <2> QED BY <1>1, <2>1, <2>2, <2>3
  <1>2. CASE due # {}
    <2> DEFINE dueTake == IF ready = {} THEN Cap
                          ELSE Lower(Cardinality(due), Higher(1, Cap \div 2))
               readyTake == Lower(Cardinality(ready), Cap - dueTake)
               first == Least(ready, readyTake) \cup Least(due, dueTake)
               more == first \cup Least(ready \ first, Cap - Cardinality(first))
               all == more \cup Least(due \ more, Cap - Cardinality(more))
    <2>1. FairPick(ready, due) = all
      BY <1>2
    <2>2. /\ dueTake \in 1..Cap /\ readyTake \in Nat /\ readyTake + dueTake <= Cap
          /\ ready # {} => readyTake >= 1
      BY <1>2, Shares
    <2> HIDE DEF dueTake, readyTake, FairPick
    <2>3. /\ Least(ready, readyTake) \in SUBSET File /\ Least(due, dueTake) \in SUBSET File
          /\ Cardinality(Least(ready, readyTake)) \in 0..readyTake
          /\ Cardinality(Least(due, dueTake)) \in 0..dueTake
      BY <2>2, LeastBound
    <2>4. first \in SUBSET File /\ Cardinality(first) <= Cap
      <3>1. /\ Cardinality(first) \in Nat
            /\ Cardinality(first) <= Cardinality(Least(ready, readyTake))
                                     + Cardinality(Least(due, dueTake))
        BY <2>3, DisjointCount
      <3> HIDE DEF first
      <3>2. Cardinality(first) <= Cap
        BY <2>2, <2>3, <3>1, WatchAssumption
      <3> QED BY <2>3, <3>2 DEF first
    <2>5. /\ \A f \in ready : (\A g \in ready : f <= g) => f \in first
          /\ \A f \in due : (\A g \in due : f <= g) => f \in first
      <3>1. dueTake \in Nat \ {0} /\ (ready # {} => readyTake \in Nat \ {0})
        BY <2>2
      <3> QED BY <3>1, LeastHasOldest
    <2> HIDE DEF first
    <2>6. /\ first \subseteq more /\ more \subseteq first \cup ready /\ Cardinality(more) <= Cap
          /\ Cardinality(more) < Cap => ready \subseteq more
      BY <2>4, TopUp
    <2> HIDE DEF more
    <2>7. /\ more \subseteq all /\ Cardinality(more) <= Cardinality(all) /\ Cardinality(all) <= Cap
          /\ Cardinality(all) < Cap => due \subseteq all
      BY <2>4, <2>6, TopUp
    <2>8. Cardinality(all) < Cap => Cardinality(more) < Cap
      <3>1. more \in SUBSET File /\ all \in SUBSET File
        BY <2>4, <2>6, LeastInSet
      <3>2. Cardinality(more) \in Nat /\ Cardinality(all) \in Nat
        BY <3>1, DisjointCount
      <3> HIDE DEF all
      <3> QED BY <2>7, <3>2, WatchAssumption
    <2> HIDE DEF all
    <2> QED BY <2>1, <2>5, <2>6, <2>7, <2>8
  <1> QED BY <1>1, <1>2

-----------------------------------------------------------------------------
\* A beat picks among the files it was offered.
LEMMA PickedAmong ==
    ASSUME NEW ready, NEW due
    PROVE  FairPick(ready, due) \subseteq ready \cup due
  <1>1. \A S, n : Least(S, n) \subseteq S
    BY DEF Least
  <1> QED BY <1>1 DEF FairPick

\* The pending index keeps its type.
LEMMA PendingTypes ==
    ASSUME TypeOK, NEW f \in File
    PROVE  /\ RecordPending(f) => pending' \in [File -> [tries : 0..MaxAttempts, skip : 0..4]]
           /\ MarkSeen(f) => pending' \in [File -> [tries : 0..MaxAttempts, skip : 0..4]]
  <1>1. Capped(pending[f].tries + 1) \in 0..MaxAttempts
    <2>1. pending[f].tries \in 0..MaxAttempts
      BY DEF TypeOK
    <2> QED BY <2>1, WatchAssumption DEF Capped, Lower
  <1>2. RecordPending(f) => pending' \in [File -> [tries : 0..MaxAttempts, skip : 0..4]]
    BY <1>1, Backoff DEF RecordPending, TypeOK
  <1>3. MarkSeen(f) => pending' \in [File -> [tries : 0..MaxAttempts, skip : 0..4]]
    BY WatchAssumption DEF MarkSeen, NotPending, TypeOK
  <1> QED BY <1>2, <1>3

LEMMA InitInv == Init => IInv
  <1> SUFFICES ASSUME Init PROVE IInv
    OBVIOUS
  <1> USE WatchAssumption DEF Init
  <1>1. TypeOK
    BY DEF TypeOK, NotPending, IdleWeb
  <1>2. InFolder /\ WebBusy /\ AtRest /\ Stamping /\ Kept
    BY DEF InFolder, WebBusy, IdleWeb, AtRest, Stamping, Kept
  <1>3. SeenIsDealtWith /\ IngestedOnce
    BY DEF SeenIsDealtWith, IngestedOnce
  <1> QED BY <1>1, <1>2, <1>3 DEF IInv

-----------------------------------------------------------------------------
LEMMA ArriveKeeps ==
    ASSUME IInv, NEW f \in File, Arrive(f) PROVE IInv'
  <1> USE DEF IInv, Arrive, budget
  <1>1. TypeOK'
    BY DEF TypeOK
  <1>2. InFolder' /\ WebBusy' /\ AtRest' /\ Stamping' /\ Kept' /\ SeenIsDealtWith' /\ IngestedOnce'
    BY DEF InFolder, WebBusy, AtRest, Stamping, Kept, SeenIsDealtWith, IngestedOnce
  <1> QED BY <1>1, <1>2

LEMMA WebKeeps ==
    ASSUME IInv, NEW w \in Web, NEW op \in {"add", "remove", "pause", "resume"},
           Request(w, op) \/ SaveEntry(w) \/ Baseline(w)
    PROVE  IInv'
  <1> USE WatchAssumption DEF IInv, budget, history
  <1>1. CASE Request(w, op)
    <2>1. TypeOK'
      BY <1>1 DEF Request, TypeOK
    <2> QED BY <1>1, <2>1 DEF Request, TypeOK, InFolder, WebBusy, AtRest, Stamping, Kept, SeenIsDealtWith, IngestedOnce
  <1>2. CASE SaveEntry(w)
    <2>1. entry' \in {"none", "on", "off"}
      <3>1. web[w].op \in {"add", "resume", "remove", "pause"} \/ web[w].op = "none"
        BY DEF TypeOK
      <3>2. web[w].op = "none" => FALSE
        BY <1>2 DEF SaveEntry, WebBusy
      <3> QED BY <1>2, <3>1, <3>2 DEF SaveEntry
    <2>2. web' \in [Web -> [pc : {"idle", "save", "baseline"},
                            op : {"none", "add", "remove", "pause", "resume"}]]
      BY <1>2 DEF SaveEntry, TypeOK, IdleWeb
    <2>3. TypeOK'
      BY <1>2, <2>1, <2>2 DEF SaveEntry, TypeOK
    <2> QED BY <1>2, <2>3 DEF SaveEntry, TypeOK, IdleWeb, InFolder, WebBusy, AtRest, Stamping, Kept, SeenIsDealtWith, IngestedOnce
  <1>3. CASE Baseline(w)
    <2>1. TypeOK'
      BY <1>3 DEF Baseline, TypeOK, IdleWeb
    <2> QED BY <1>3, <2>1 DEF Baseline, TypeOK, IdleWeb, InFolder, WebBusy, AtRest, Stamping, Kept, SeenIsDealtWith, IngestedOnce
  <1> QED BY <1>1, <1>2, <1>3

LEMMA BeatKeeps ==
    ASSUME IInv, Beat PROVE IInv'
  <1> USE WatchAssumption DEF IInv, budget, history
  <1>1. CASE ScanFolders \/ Gathered
    <2>1. TypeOK'
      BY <1>1 DEF ScanFolders, Gathered, TypeOK
    <2> QED BY <1>1, <2>1 DEF ScanFolders, Gathered, InFolder, WebBusy, AtRest, Stamping, Kept, SeenIsDealtWith, IngestedOnce
  <1>2. CASE ScanFiles
    <2> DEFINE P == FairPick(Ready, Due)
    <2>1. /\ P \subseteq there \ (seen \cup Unfit)
          /\ hand' = [f \in File |-> IF f \in P THEN "start" ELSE hand[f]]
      <3>1. Ready \subseteq Fit /\ Due \subseteq Fit
        BY DEF Ready, Due
      <3>2. P \subseteq Ready \cup Due
        BY PickedAmong
      <3> HIDE DEF P
      <3> QED BY <1>2, <3>1, <3>2 DEF ScanFiles, Fit, P
    <2> HIDE DEF P
    <2>2. /\ beat' = "gather" /\ seen' = seen \cup (there \cap Unfit)
          /\ pending' = [f \in File |-> [pending[f] EXCEPT !.skip = IF @ > 0 THEN @ - 1 ELSE 0]]
          /\ UNCHANGED <<entry, there, local, web, budget, history>>
      BY <1>2 DEF ScanFiles
    <2>3. pending' \in [File -> [tries : 0..MaxAttempts, skip : 0..4]]
      BY <2>2 DEF TypeOK
    <2>4. \A f \in File : hand[f] = "none"
      BY <1>2 DEF ScanFiles, AtRest
    <2>5. TypeOK'
      BY <2>1, <2>2, <2>3 DEF TypeOK
    <2>6. InFolder' /\ WebBusy' /\ AtRest' /\ Stamping' /\ Kept'
      BY <2>1, <2>2, <2>4 DEF InFolder, WebBusy, AtRest, Stamping, Kept
    <2>7. SeenIsDealtWith' /\ IngestedOnce'
      BY <2>2 DEF SeenIsDealtWith, IngestedOnce
    <2> QED BY <2>5, <2>6, <2>7
  <1> QED BY <1>1, <1>2 DEF Beat

\* A handoff's steps.  A file in hand is in the folder.
LEMMA HandoffKeeps ==
    ASSUME IInv, NEW f \in File, Handoff(f) PROVE IInv'
  <1> USE WatchAssumption DEF IInv, budget, history, At, Goes
  <1>a. hand[f] # "none" /\ beat = "gather" /\ f \in there
    BY DEF Handoff, Begin, Hydrated, Staged, Fails, Ingested, Succeeds, StampFails, AtRest, InFolder
  <1>1. CASE Begin(f) \/ Hydrated(f) \/ Staged(f)
    <2>1. /\ \E p \in {"none", "hydrate", "stage", "ingest"} : hand' = [hand EXCEPT ![f] = p]
          /\ hand[f] # "stamp" /\ local' \in {local, local \cup {f}}
          /\ UNCHANGED <<entry, there, seen, pending, beat, web, budget, history>>
      BY <1>1 DEF Begin, Hydrated, Staged, Allowed
    <2>2. TypeOK'
      BY <1>a, <2>1 DEF TypeOK
    <2>3. InFolder' /\ WebBusy' /\ AtRest' /\ Stamping' /\ Kept'
      BY <1>a, <2>1 DEF InFolder, WebBusy, AtRest, Stamping, Kept, TypeOK
    <2> QED BY <2>1, <2>2, <2>3 DEF SeenIsDealtWith, IngestedOnce
  <1>2. CASE Fails(f) \/ StampFails(f)
    <2>1. pending' \in [File -> [tries : 0..MaxAttempts, skip : 0..4]]
      BY <1>2, PendingTypes DEF Fails, StampFails
    <2>2. failures' \in 0..MaxFailures
      BY <1>2 DEF Fails, StampFails, MayFail, TypeOK
    <2>3. /\ hand' = [hand EXCEPT ![f] = "none"]
          /\ redo' = redo \/ redo' = redo \cup {f}
          /\ hand[f] = "stamp" => f \in redo'
          /\ UNCHANGED <<entry, there, local, seen, beat, web, events, ingests, baselined>>
      BY <1>2 DEF Fails, StampFails
    <2>4. TypeOK'
      BY <1>a, <2>1, <2>2, <2>3 DEF TypeOK
    <2>5. InFolder' /\ WebBusy' /\ AtRest' /\ Stamping' /\ Kept'
      BY <1>a, <2>3 DEF InFolder, WebBusy, AtRest, Stamping, Kept, TypeOK
    <2>6. SeenIsDealtWith' /\ IngestedOnce'
      BY <2>3 DEF SeenIsDealtWith, IngestedOnce
    <2> QED BY <2>4, <2>5, <2>6
  <1>3. CASE Ingested(f)
    <2>1. hand[f] = "ingest" /\ (ingests[f] > 0 => f \in redo)
      BY <1>3 DEF Ingested, Kept
    <2>2. TypeOK'
      BY <1>3 DEF Ingested, TypeOK
    <2>3. InFolder' /\ WebBusy' /\ AtRest' /\ Stamping' /\ Kept'
      BY <1>3, <1>a DEF Ingested, InFolder, WebBusy, AtRest, Stamping, Kept, TypeOK
    <2>4. SeenIsDealtWith' /\ IngestedOnce'
      BY <1>3, <2>1 DEF Ingested, SeenIsDealtWith, IngestedOnce, TypeOK
    <2> QED BY <2>2, <2>3, <2>4
  <1>4. CASE Succeeds(f)
    <2>1. pending' \in [File -> [tries : 0..MaxAttempts, skip : 0..4]]
      BY <1>4, PendingTypes DEF Succeeds
    <2>2. /\ hand' = [hand EXCEPT ![f] = "none"] /\ seen' = seen \cup {f} /\ ingests[f] > 0
          /\ UNCHANGED <<entry, there, local, beat, web, budget, history>>
      BY <1>4 DEF Succeeds, MarkSeen, Stamping
    <2>3. TypeOK'
      BY <1>a, <2>1, <2>2 DEF TypeOK
    <2>4. InFolder' /\ WebBusy' /\ AtRest' /\ Stamping' /\ Kept'
      BY <1>a, <2>2 DEF InFolder, WebBusy, AtRest, Stamping, Kept, TypeOK
    <2>5. SeenIsDealtWith' /\ IngestedOnce'
      BY <2>2 DEF SeenIsDealtWith, IngestedOnce
    <2> QED BY <2>3, <2>4, <2>5
  <1> QED BY <1>1, <1>2, <1>3, <1>4 DEF Handoff

LEMMA RestartKeeps ==
    ASSUME IInv, DaemonRestarts PROVE IInv'
  <1> USE WatchAssumption DEF IInv, DaemonRestarts, At
  <1>1. TypeOK'
    BY DEF TypeOK, IdleWeb, InFolder
  <1>2. InFolder' /\ WebBusy' /\ AtRest' /\ Stamping' /\ Kept'
    BY DEF InFolder, WebBusy, IdleWeb, AtRest, Stamping, Kept
  <1>3. SeenIsDealtWith' /\ IngestedOnce'
    BY DEF SeenIsDealtWith, IngestedOnce
  <1> QED BY <1>1, <1>2, <1>3

-----------------------------------------------------------------------------
(* The cap.  Only a scan puts files into hands, and only while no file is  *)
(* in any: AtRest is what the cap of the whole beat rests on.              *)

InHand == {f \in File : hand[f] # "none"}

\* Hands that only empty stay under the cap.
LEMMA FewerHands ==
    ASSUME CapPerBeat, \A f \in File : hand'[f] # "none" => hand[f] # "none"
    PROVE  CapPerBeat'
  <1>1. InHand \in SUBSET File /\ InHand' \in SUBSET InHand
    BY DEF InHand
  <1>2. Cardinality(InHand) \in Nat /\ Cardinality(InHand') \in Nat
    BY <1>1, FilesFinite, FS_Subset, FS_CardinalityType
  <1>3. Cardinality(InHand') <= Cardinality(InHand)
    BY <1>1, FilesFinite, FS_Subset
  <1> QED BY <1>2, <1>3, WatchAssumption DEF CapPerBeat, InHand

\* What a scan does to the hands.
LEMMA ScanPicks ==
    ASSUME IInv, ScanFiles
    PROVE  /\ Ready \in SUBSET File /\ Due \in SUBSET File
           /\ InHand' = FairPick(Ready, Due)
  <1>1. Ready \in SUBSET File /\ Due \in SUBSET File
    BY DEF Ready, Due, Fit, IInv, TypeOK
  <1>2. FairPick(Ready, Due) \subseteq File
    BY <1>1, PickedAmong
  <1>3. \A f \in File : hand[f] = "none"
    BY DEF ScanFiles, IInv, AtRest
  <1> DEFINE P == FairPick(Ready, Due)
  <1>4. hand' = [f \in File |-> IF f \in P THEN "start" ELSE hand[f]]
    BY DEF ScanFiles
  <1> HIDE DEF P
  <1>5. \A f \in File : hand'[f] # "none" <=> f \in P
    BY <1>3, <1>4
  <1>6. InHand' = P
    BY <1>2, <1>5 DEF InHand, P
  <1> QED BY <1>1, <1>6 DEF P

LEMMA CapKeeps ==
    ASSUME IInv, CapPerBeat, [Next]_vars PROVE CapPerBeat'
  <1>1. CASE ScanFiles
    BY <1>1, ScanPicks, FairPicked DEF CapPerBeat, InHand
  <1>2. CASE ~ScanFiles
    <2> USE DEF budget, history
    <2>1. ASSUME NEW f \in File, Arrive(f) PROVE CapPerBeat'
      BY <2>1, FewerHands DEF Arrive
    <2>2. ASSUME NEW f \in File, Handoff(f) PROVE CapPerBeat'
      <3>1. hand[f] # "none" /\ \E p : hand' = [hand EXCEPT ![f] = p]
        BY <2>2 DEF Handoff, Begin, Hydrated, Staged, Fails, Ingested, Succeeds, StampFails,
                    Allowed, At, Goes
      <3> QED BY <3>1, FewerHands DEF IInv, TypeOK
    <2>3. ASSUME NEW w \in Web, WebSteps(w) PROVE CapPerBeat'
      BY <2>3, FewerHands DEF WebSteps, SaveEntry, Baseline
    <2>4. ASSUME NEW w \in Web, NEW op \in {"add", "remove", "pause", "resume"}, Request(w, op)
          PROVE  CapPerBeat'
      BY <2>4, FewerHands DEF Request
    <2>5. CASE Beat \/ DaemonRestarts
      BY <1>2, <2>5, FewerHands DEF Beat, ScanFolders, Gathered, DaemonRestarts
    <2>6. CASE UNCHANGED vars
      BY <2>6, FewerHands DEF vars
    <2> QED BY <2>1, <2>2, <2>3, <2>4, <2>5, <2>6 DEF Next
  <1> QED BY <1>1, <1>2

LEMMA StepKeeps == IInv /\ [Next]_vars => IInv'
  <1> SUFFICES ASSUME IInv, [Next]_vars PROVE IInv'
    OBVIOUS
  <1>1. ASSUME NEW f \in File, Arrive(f) \/ Handoff(f) PROVE IInv'
    BY <1>1, ArriveKeeps, HandoffKeeps
  <1>2. ASSUME NEW w \in Web, WebSteps(w) PROVE IInv'
    BY <1>2, WebKeeps DEF WebSteps
  <1>3. ASSUME NEW w \in Web, NEW op \in {"add", "remove", "pause", "resume"}, Request(w, op)
        PROVE  IInv'
    BY <1>3, WebKeeps
  <1>4. CASE Beat \/ DaemonRestarts
    BY <1>4, BeatKeeps, RestartKeeps
  <1>5. CASE UNCHANGED vars
    BY <1>5 DEF vars, budget, history, IInv, TypeOK, InFolder, WebBusy, AtRest, Stamping, Kept,
                SeenIsDealtWith, IngestedOnce
  <1> QED BY <1>1, <1>2, <1>3, <1>4, <1>5 DEF Next

LEMMA Invariance == Spec => []IInv
  BY InitInv, StepKeeps, PTL DEF Spec

\* Both indexes, the entry and the threads hold only values the code knows.
THEOREM TypeCorrect == Spec => []TypeOK
  BY Invariance, PTL DEF IInv

\* No failure, at any step and any number of times, makes a file seen.
THEOREM SeenIsDealtWithHolds == Spec => []SeenIsDealtWith
  BY Invariance, PTL DEF IInv

\* A second ingest follows only a crash or a failing stamp after the first.
THEOREM IngestedOnceHolds == Spec => []IngestedOnce
  BY Invariance, PTL DEF IInv

\* However slow the handoffs are, and however often the daemon restarts, no
\* more than MAX_PER_BEAT files are in the hands of threads.
THEOREM CapPerBeatHolds == Spec => []CapPerBeat
  <1>1. Init => CapPerBeat
    <2>1. Init => {f \in File : hand[f] # "none"} = {}
      BY DEF Init
    <2> QED BY <2>1, FS_EmptySet, WatchAssumption DEF CapPerBeat
  <1> QED BY <1>1, Invariance, CapKeeps, PTL DEF Spec

\* "Give both ready locals and due retries bounded progress": a beat takes the
\* oldest ready file and the oldest due one, whatever the other kind wants, and
\* it leaves room unused only when it took every file on offer.
OldestServed ==
    [][ScanFiles => /\ Ready \cup Due \subseteq InHand' \/ Cardinality(InHand') = Cap
                    /\ \A f \in Ready : (\A g \in Ready : f <= g) => f \in InHand'
                    /\ \A f \in Due : (\A g \in Due : f <= g) => f \in InHand']_vars

THEOREM OldestServedHolds == Spec => OldestServed
  <1>1. ASSUME IInv, ScanFiles
        PROVE  /\ Ready \cup Due \subseteq InHand' \/ Cardinality(InHand') = Cap
               /\ \A f \in Ready : (\A g \in Ready : f <= g) => f \in InHand'
               /\ \A f \in Due : (\A g \in Due : f <= g) => f \in InHand'
    <2> DEFINE P == FairPick(Ready, Due)
    <2>1. /\ InHand' = P /\ Cardinality(P) <= Cap
          /\ Cardinality(P) < Cap => Ready \cup Due \subseteq P
          /\ \A f \in Ready : (\A g \in Ready : f <= g) => f \in P
          /\ \A f \in Due : (\A g \in Due : f <= g) => f \in P
      BY <1>1, ScanPicks, FairPicked
    <2>2. Cardinality(P) \in Nat
      <3>1. P \in SUBSET File
        BY <1>1, ScanPicks, PickedAmong
      <3> QED BY <3>1, DisjointCount
    <2> HIDE DEF P
    <2> QED BY <2>1, <2>2, WatchAssumption
  <1>2. Spec => [][IInv]_vars
    BY Invariance, PTL
  <1> QED BY <1>1, Invariance, PTL DEF OldestServed
=============================================================================
