------------------------- MODULE RiskBreakers_proofs -------------------------
(***************************************************************************)
(* Proofs about RiskBreakers for every set of threads, window, threshold,  *)
(* position limit and bound.                                               *)
(***************************************************************************)
EXTENDS RiskBreakers, FiniteSetTheorems, SequenceTheorems, WellFoundedInduction, TLAPS

(***************************************************************************)
(* The operators the breakers are built from.                              *)
(***************************************************************************)

(* A set of naturals that is not empty has a least element, Min.           *)
LEMMA LeastElement ==
  ASSUME NEW S, S \subseteq Nat, S # {}
  PROVE  Min(S) \in S /\ \A y \in S : Min(S) <= y
<1> DEFINE Less == {ss \in Nat \X Nat : ss[1] < ss[2]}
<1>1. IsWellFoundedOn(Less, Nat)
  BY NatLessThanWellFounded, Zenon DEF OpToRel
<1>2. PICK x \in S : \A y \in S : <<y, x>> \notin Less
  BY <1>1, WFMin
<1>3. ASSUME NEW y \in S PROVE x <= y
  <2>1. x \in Nat /\ y \in Nat
    OBVIOUS
  <2>2. CASE y < x
    <3>1. <<y, x>> \in Less
      BY <2>1, <2>2
    <3>2. QED
      BY <1>2, <3>1
  <2>3. QED
    BY <2>1, <2>2
<1>4. QED
  BY <1>3 DEF Min

(* Volatility halves the limit but never to 0, and never raises one.       *)
LEMMA ScaledCapBounds ==
  /\ ScaledCap \in Nat \ {0}
  /\ MaxConcurrent > 0 => ScaledCap <= MaxConcurrent
<1> DEFINE half == MaxConcurrent \div 2
<1>1. half \in Nat /\ half <= MaxConcurrent
  BY BoundAssumption
<1>2. \E x \in {1, half} : \A y \in {1, half} : x >= y
  BY <1>1
<1>3. ScaledCap \in {1, half} /\ ScaledCap >= 1
  BY <1>2 DEF ScaledCap, Max
<1>4. QED
  BY <1>1, <1>3, BoundAssumption

LEMMA ReverseSeq ==
  ASSUME NEW S, NEW seq \in Seq(S)
  PROVE  /\ Reverse(seq) \in Seq(S)
         /\ Len(Reverse(seq)) = Len(seq)
         /\ \A i \in 1 .. Len(seq) : Reverse(seq)[i] = seq[(Len(seq) - i) + 1]
<1> DEFINE n == Len(seq)
           back == Reverse(seq)
<1>1. n \in Nat /\ back = [i \in 1 .. n |-> seq[(n - i) + 1]]
  BY LenProperties DEF Reverse
<1>2. back \in [1 .. n -> S]
  <2>1. \A i \in 1 .. n : (n - i) + 1 \in 1 .. n
    BY <1>1
  <2>2. \A i \in 1 .. n : seq[(n - i) + 1] \in S
    BY <2>1, ElementOfSeq
  <2>3. QED
    BY <1>1, <2>2
<1> HIDE DEF n, back
<1>3. back \in Seq(S)
  BY <1>1, <1>2, SeqDef
<1>4. Len(back) = n
  BY <1>1, <1>2, <1>3, LenProperties
<1>5. QED
  BY <1>1, <1>3, <1>4 DEF n, back

(* Eviction drops entries from the front, and only ones before the cutoff. *)
LEMMA EvictedSuffix ==
  ASSUME NEW times \in Seq(0 .. Horizon), NEW cutoff \in Int
  PROVE  /\ Evicted(times, cutoff) \in Seq(0 .. Horizon)
         /\ \E d \in 0 .. Len(times) :
              /\ Len(Evicted(times, cutoff)) = Len(times) - d
              /\ \A i \in 1 .. Len(times) - d : Evicted(times, cutoff)[i] = times[d + i]
              /\ \A i \in 1 .. d : times[i] < cutoff
<1> DEFINE n == Len(times)
           fresh == {i \in 1 .. n : times[i] >= cutoff}
<1>1. n \in Nat /\ \A i \in 1 .. n : times[i] \in 0 .. Horizon
  BY ElementOfSeq, LenProperties
<1>2. CASE fresh = {}
  <2>1. Evicted(times, cutoff) = <<>>
    BY <1>2 DEF Evicted
  <2>2. \A i \in 1 .. n : times[i] < cutoff
    BY <1>1, <1>2, BoundAssumption
  <2>3. n \in 0 .. n /\ n - n = 0
    BY <1>1
  <2>4. QED
    BY <1>1, <2>1, <2>2, <2>3
<1>3. CASE fresh # {}
  <2> DEFINE m == Min(fresh)
  <2>1. m \in fresh /\ \A i \in fresh : m <= i
    <3>1. fresh \subseteq Nat
      BY <1>1
    <3> HIDE DEF fresh
    <3>2. QED
      BY <1>3, <3>1, LeastElement
  <2> HIDE DEF m
  <2>2. m \in 1 .. n
    BY <2>1
  <2>3. \A i \in 1 .. m - 1 : times[i] < cutoff
    BY <1>1, <2>1, <2>2, BoundAssumption
  <2>4. Evicted(times, cutoff) = SubSeq(times, m, n)
    BY <1>3 DEF Evicted, m
  <2>5. \A i \in m .. n : times[i] \in 0 .. Horizon
    BY <1>1, <2>2
  <2>6. /\ SubSeq(times, m, n) \in Seq(0 .. Horizon)
        /\ Len(SubSeq(times, m, n)) = n - m + 1
        /\ \A i \in 1 .. n - m + 1 : SubSeq(times, m, n)[i] = times[m + i - 1]
    BY <1>1, <2>2, <2>5, SubSeqProperties
  <2>7. m - 1 \in 0 .. n /\ n - (m - 1) = n - m + 1
    BY <1>1, <2>2
  <2>8. \A i \in 1 .. n - (m - 1) : Evicted(times, cutoff)[i] = times[(m - 1) + i]
    <3>1. \A i \in 1 .. n - m + 1 : m + i - 1 = (m - 1) + i
      BY <1>1, <2>2
    <3>2. QED
      BY <2>4, <2>6, <2>7, <3>1
  <2>9. QED
    BY <2>3, <2>4, <2>6, <2>7, <2>8
<1>4. QED
  BY <1>2, <1>3

-----------------------------------------------------------------------------
(***************************************************************************)
(* The inductive invariant.                                                *)
(***************************************************************************)

(* A snapshot, with the cap that belongs to its volatility state.          *)
CapOf(high) == IF high THEN ScaledCap ELSE MaxConcurrent

Snapshot == [halted : BOOLEAN, closeOnly : BOOLEAN, scaled : BOOLEAN, cap : Nat]

SavedInv ==
  saved = <<>> \/ \E r \in Snapshot : saved = <<r>> /\ r.cap = CapOf(r.scaled)

(* What the window has dropped is too old to count: some error reported    *)
(* since then is more than Window later.                                   *)
Dropped == Len(reported) - Len(stamps)

WindowInv ==
  /\ Dropped \in Nat
  /\ \A i \in 1 .. Len(stamps) : stamps[i] = reported[Dropped + i]
  /\ \A i \in 1 .. Dropped :
       \E j \in 1 .. Len(reported) : reported[i] < reported[j] - Window

Clocks ==
  /\ now \in 0 .. Horizon
  /\ stamps \in Seq(0 .. Horizon) /\ reported \in Seq(0 .. Horizon)
  /\ readAt \in [Threads -> {NotReporting} \cup 0 .. Horizon]

Flags ==
  /\ clearing \in BOOLEAN /\ halted \in BOOLEAN /\ closeOnly \in BOOLEAN
  /\ scaled \in BOOLEAN /\ excused \in BOOLEAN

Types == Clocks /\ Flags

CapInv == CapMatchesVolatility /\ SavedInv

IInv == Types /\ CapInv /\ WindowInv

LEMMA InitInv == Init => IInv
<1> SUFFICES ASSUME Init PROVE IInv
  OBVIOUS
<1>1. Types
  <2>1. Clocks
    BY BoundAssumption DEF Init, Clocks
  <2>2. Flags
    BY DEF Init, Flags
  <2>3. QED
    BY <2>1, <2>2 DEF Types
<1>2. CapInv
  BY DEF Init, CapInv, CapMatchesVolatility, SavedInv
<1>3. WindowInv
  BY DEF Init, WindowInv, Dropped
<1>4. QED
  BY <1>1, <1>2, <1>3 DEF IInv

LEMMA TypesStep ==
  ASSUME Types, CapInv, [Next]_vars
  PROVE  Types'
<1>1. Clocks'
  <2> USE DEF Types, Clocks
  <2>1. CASE Tick
    BY <2>1, BoundAssumption DEF Tick, window
  <2>2. ASSUME NEW t \in Threads, ReadClock(t) PROVE Clocks'
    BY <2>2 DEF ReadClock, window
  <2>3. ASSUME NEW t \in Threads, ReportApiError(t) PROVE Clocks'
    <3>1. readAt[t] \in 0 .. Horizon
      BY <2>3 DEF ReportApiError
    <3>2. /\ Append(stamps, readAt[t]) \in Seq(0 .. Horizon)
          /\ Append(reported, readAt[t]) \in Seq(0 .. Horizon)
      BY <3>1, AppendProperties
    <3>3. readAt[t] - Window \in Int
      BY <3>1, BoundAssumption
    <3>4. Evicted(Append(stamps, readAt[t]), readAt[t] - Window) \in Seq(0 .. Horizon)
      BY <3>2, <3>3, EvictedSuffix
    <3>5. QED
      BY <2>3, <3>2, <3>4 DEF ReportApiError
  <2>4. CASE EmptyWindow
    BY <2>4, EmptySeq DEF EmptyWindow
  <2>5. CASE RestoreState
    BY <2>5, EmptySeq DEF RestoreState
  <2>6. CASE UNCHANGED <<now, window, readAt>>
    BY <2>6 DEF window
  <2>7. QED
    BY <2>1, <2>2, <2>3, <2>4, <2>5, <2>6
       DEF Next, LowerHalt, SetHaltTrading, ReportLatency, ClearLatencyBreach,
           UpdateLiveVolatility, SnapshotState, vars, window
<1>2. Flags'
  <2> USE DEF Types, Flags
  <2>1. CASE Tick \/ \E t \in Threads : ReadClock(t)
    BY <2>1 DEF Tick, ReadClock, limits
  <2>2. ASSUME NEW t \in Threads, ReportApiError(t) PROVE Flags'
    BY <2>2 DEF ReportApiError, limits
  <2>3. CASE LowerHalt \/ EmptyWindow
    BY <2>3 DEF LowerHalt, EmptyWindow, limits
  <2>4. ASSUME NEW b \in BOOLEAN, SetHaltTrading(b) \/ ReportLatency(b) PROVE Flags'
    BY <2>4 DEF SetHaltTrading, ReportLatency, limits
  <2>5. CASE ClearLatencyBreach \/ SnapshotState
    BY <2>5 DEF ClearLatencyBreach, SnapshotState, limits
  <2>6. ASSUME NEW high \in BOOLEAN, UpdateLiveVolatility(high) PROVE Flags'
    BY <2>6 DEF UpdateLiveVolatility
  <2>7. CASE RestoreState
    <3>1. saved[1] \in Snapshot
      BY <2>7 DEF RestoreState, CapInv, SavedInv
    <3>2. /\ saved[1].halted \in BOOLEAN /\ saved[1].closeOnly \in BOOLEAN
          /\ saved[1].scaled \in BOOLEAN
      BY <3>1 DEF Snapshot
    <3>3. QED
      BY <2>7, <3>2 DEF RestoreState
  <2>8. CASE UNCHANGED vars
    BY <2>8 DEF vars
  <2>9. QED
    BY <2>1, <2>2, <2>3, <2>4, <2>5, <2>6, <2>7, <2>8 DEF Next
<1>3. QED
  BY <1>1, <1>2 DEF Types

LEMMA CapStep ==
  ASSUME Types, CapInv, [Next]_vars
  PROVE  CapInv'
<1> USE DEF CapInv, CapMatchesVolatility
<1>1. ASSUME UNCHANGED <<limits, saved>> PROVE CapInv'
  BY <1>1 DEF limits, SavedInv
<1>2. ASSUME NEW high \in BOOLEAN, UpdateLiveVolatility(high) PROVE CapInv'
  BY <1>2 DEF UpdateLiveVolatility, SavedInv, Types, Flags
<1>3. CASE SnapshotState
  <2> DEFINE r == [halted |-> halted, closeOnly |-> closeOnly, scaled |-> scaled, cap |-> cap]
  <2>1. cap \in Nat
    BY ScaledCapBounds, BoundAssumption
  <2>2. r \in Snapshot /\ r.cap = CapOf(r.scaled)
    BY <2>1 DEF Types, Flags, Snapshot, CapOf
  <2>3. QED
    BY <1>3, <2>2 DEF SnapshotState, SavedInv, limits
<1>4. CASE RestoreState
  <2>1. PICK r \in Snapshot : saved = <<r>> /\ r.cap = CapOf(r.scaled)
    BY <1>4 DEF RestoreState, SavedInv
  <2>2. scaled' = r.scaled /\ cap' = r.cap /\ saved' = saved
    BY <1>4, <2>1 DEF RestoreState
  <2>3. QED
    BY <2>1, <2>2 DEF CapOf, SavedInv
<1>5. QED
  BY <1>1, <1>2, <1>3, <1>4
     DEF Next, Tick, ReadClock, ReportApiError, LowerHalt, EmptyWindow, SetHaltTrading,
         ReportLatency, ClearLatencyBreach, vars, limits

(* A report extends the history and the window by the same entry, and what *)
(* eviction then drops is more than Window before that entry.              *)
LEMMA WindowReports ==
  ASSUME Clocks, WindowInv, NEW t \in Threads, ReportApiError(t)
  PROVE  WindowInv'
<1> DEFINE r == readAt[t]
           n == Len(reported)
           s == Len(stamps)
           all == Append(reported, r)
           kept == Append(stamps, r)
           left == Evicted(kept, r - Window)
<1>1. /\ r \in 0 .. Horizon /\ r - Window \in Int
      /\ stamps \in Seq(0 .. Horizon) /\ reported \in Seq(0 .. Horizon)
      /\ n \in Nat /\ s \in Nat
  BY BoundAssumption DEF Clocks, ReportApiError
<1>2. /\ kept \in Seq(0 .. Horizon) /\ Len(kept) = s + 1 /\ kept[s + 1] = r
      /\ \A i \in 1 .. s : kept[i] = stamps[i]
      /\ Len(all) = n + 1 /\ all[n + 1] = r
      /\ \A i \in 1 .. n : all[i] = reported[i]
  BY <1>1, AppendProperties
<1>3. reported' = all /\ stamps' = left
  BY DEF ReportApiError
<1> DEFINE D == n - s
<1>4. /\ D \in Nat
      /\ \A i \in 1 .. s : stamps[i] = reported[D + i]
      /\ \A i \in 1 .. D : \E j \in 1 .. n : reported[i] < reported[j] - Window
  BY DEF WindowInv, Dropped
<1>5. PICK d \in 0 .. s + 1 :
        /\ Len(left) = s + 1 - d
        /\ \A i \in 1 .. s + 1 - d : left[i] = kept[d + i]
        /\ \A i \in 1 .. d : kept[i] < r - Window
  <2> HIDE DEF kept
  <2>1. \E d \in 0 .. Len(kept) :
          /\ Len(left) = Len(kept) - d
          /\ \A i \in 1 .. Len(kept) - d : left[i] = kept[d + i]
          /\ \A i \in 1 .. d : kept[i] < r - Window
    BY <1>1, <1>2, EvictedSuffix
  <2>2. Len(kept) = s + 1
    BY <1>2
  <2>3. PICK d \in 0 .. Len(kept) :
          /\ Len(left) = Len(kept) - d
          /\ \A i \in 1 .. Len(kept) - d : left[i] = kept[d + i]
          /\ \A i \in 1 .. d : kept[i] < r - Window
    BY <2>1
  <2>4. d \in 0 .. s + 1 /\ Len(left) = s + 1 - d
    BY <2>2, <2>3
  <2>5. \A i \in 1 .. s + 1 - d : left[i] = kept[d + i]
    BY <2>2, <2>3
  <2> HIDE DEF left, r
  <2>6. QED
    BY <2>3, <2>4, <2>5
<1> HIDE DEF left, all, kept
<1>6. Dropped' = D + d
  <2>1. Dropped' = Len(all) - Len(left)
    BY <1>3 DEF Dropped
  <2>2. Len(all) = n + 1 /\ Len(left) = s + 1 - d
    BY <1>2, <1>5
  <2>3. QED
    BY <1>1, <2>1, <2>2
<1>7. ASSUME NEW i \in 1 .. s + 1 PROVE kept[i] = all[D + i]
  <2>1. CASE i = s + 1
    <3>1. D + i = n + 1
      BY <1>1, <2>1
    <3>2. QED
      BY <1>2, <2>1, <3>1
  <2>2. CASE i # s + 1
    <3>1. i \in 1 .. s /\ D + i \in 1 .. n
      BY <1>1, <1>4, <2>2
    <3>2. QED
      BY <1>2, <1>4, <3>1
  <2>3. QED
    BY <2>1, <2>2
<1>8. ASSUME NEW i \in 1 .. Len(left) PROVE left[i] = all[(D + d) + i]
  <2>1. d + i \in 1 .. s + 1 /\ D + (d + i) = (D + d) + i
    BY <1>1, <1>4, <1>5
  <2>2. left[i] = kept[d + i]
    BY <1>5
  <2>3. QED
    BY <1>7, <2>1, <2>2
<1>9. ASSUME NEW i \in 1 .. D + d
      PROVE  \E j \in 1 .. n + 1 : all[i] < all[j] - Window
  <2>1. CASE i <= D
    <3>1. i \in 1 .. D /\ i \in 1 .. n
      BY <1>1, <1>4, <2>1
    <3>2. PICK j \in 1 .. n : reported[i] < reported[j] - Window
      BY <1>4, <3>1
    <3>3. j \in 1 .. n + 1 /\ all[j] = reported[j] /\ all[i] = reported[i]
      BY <1>1, <1>2, <3>1
    <3>4. QED
      BY <3>2, <3>3
  <2>2. CASE i > D
    <3>1. i - D \in 1 .. d /\ i - D \in 1 .. s + 1 /\ D + (i - D) = i
      BY <1>1, <1>4, <1>5, <2>2
    <3>2. all[i] < r - Window
      BY <1>5, <1>7, <3>1
    <3>3. n + 1 \in 1 .. n + 1 /\ all[n + 1] = r
      BY <1>1, <1>2
    <3>4. QED
      BY <3>2, <3>3
  <2>3. QED
    BY <1>4, <2>1, <2>2
<1>10. D + d \in Nat /\ Len(all) = n + 1
  BY <1>2, <1>4, <1>5
<1>11. QED
  BY <1>3, <1>6, <1>8, <1>9, <1>10 DEF WindowInv

(* Errors that count are still in the window.                              *)
LEMMA RecentAreKept ==
  ASSUME Clocks, WindowInv
  PROVE  Cardinality(Recent) \in Nat /\ Cardinality(Recent) <= Len(stamps)
<1> DEFINE n == Len(reported)
           kept == Dropped + 1 .. n
<1>1. n \in Nat /\ Len(stamps) \in Nat /\ Dropped \in Nat /\ n - Dropped = Len(stamps)
  BY DEF Clocks, WindowInv, Dropped
<1>2. Recent \subseteq kept
  <2>1. ASSUME NEW i \in Recent, i \in 1 .. Dropped PROVE FALSE
    <3>1. PICK j \in 1 .. n : reported[i] < reported[j] - Window
      BY <2>1 DEF WindowInv
    <3>2. reported[i] >= reported[j] - Window
      BY <3>1 DEF Recent
    <3>3. \A k \in 1 .. n : reported[k] \in 0 .. Horizon
      BY ElementOfSeq DEF Clocks
    <3>4. Window \in Int
      BY BoundAssumption
    <3>5. i \in 1 .. n
      BY DEF Recent
    <3>6. reported[i] \in Int /\ reported[j] \in Int
      BY <3>3, <3>5
    <3>7. QED
      BY <3>1, <3>2, <3>4, <3>6
  <2>2. QED
    BY <1>1, <2>1 DEF Recent
<1>3. IsFiniteSet(kept) /\ Cardinality(kept) = Len(stamps)
  <2>1. Dropped + 1 \in Int /\ n \in Int
    BY <1>1
  <2>2. /\ IsFiniteSet(kept)
        /\ Cardinality(kept) = IF Dropped + 1 > n THEN 0 ELSE n - (Dropped + 1) + 1
    BY <2>1, FS_Interval
  <2>3. QED
    BY <1>1, <2>2
<1>4. IsFiniteSet(Recent) /\ Cardinality(Recent) <= Len(stamps)
  BY <1>2, <1>3, FS_Subset
<1>5. QED
  BY <1>4, FS_CardinalityType

LEMMA WindowStep ==
  ASSUME Clocks, WindowInv, [Next]_vars
  PROVE  WindowInv'
<1>1. ASSUME NEW t \in Threads, ReportApiError(t) PROVE WindowInv'
  BY <1>1, WindowReports
<1>2. ASSUME stamps' = <<>>, reported' = <<>> PROVE WindowInv'
  BY <1>2 DEF WindowInv, Dropped
<1>3. ASSUME UNCHANGED window PROVE WindowInv'
  BY <1>3 DEF WindowInv, Dropped, window
<1>4. QED
  BY <1>1, <1>2, <1>3
     DEF Next, Tick, ReadClock, LowerHalt, EmptyWindow, SetHaltTrading, ReportLatency,
         ClearLatencyBreach, UpdateLiveVolatility, SnapshotState, RestoreState, vars, window

LEMMA Invariance == Spec => []IInv
<1>1. IInv /\ [Next]_vars => IInv'
  BY TypesStep, CapStep, WindowStep DEF IInv, Types
<1>2. QED
  BY <1>1, InitInv, PTL DEF Spec

-----------------------------------------------------------------------------
(* Every variable keeps its type, and a limited number of positions stays  *)
(* limited: no volatility change or restore makes the effective cap 0.     *)
THEOREM TypeCorrect == Spec => []TypeOK
<1>1. ASSUME IInv PROVE TypeOK
  <2>1. Clocks /\ Flags
    BY <1>1 DEF IInv, Types
  <2>2. cap \in Nat /\ (MaxConcurrent > 0 => cap > 0)
    BY <1>1, ScaledCapBounds, BoundAssumption DEF IInv, CapInv, CapMatchesVolatility
  <2>3. Len(saved) <= 1
    <3>1. saved = <<>> \/ \E r \in Snapshot : saved = <<r>>
      BY <1>1 DEF IInv, CapInv, SavedInv
    <3>2. CASE saved = <<>>
      BY <3>2
    <3>3. ASSUME NEW r \in Snapshot, saved = <<r>> PROVE Len(saved) <= 1
      BY <3>3
    <3>4. QED
      BY <3>1, <3>2, <3>3
  <2>4. QED
    BY <2>1, <2>2, <2>3 DEF TypeOK, Clocks, Flags
<1>2. QED
  BY <1>1, Invariance, PTL

(* updateLiveVolatility changes the cap only when the volatility state     *)
(* changes, and restoreState brings both back: they always agree.          *)
THEOREM CapAgrees == Spec => []CapMatchesVolatility
<1>1. IInv => CapMatchesVolatility
  BY DEF IInv, CapInv
<1>2. QED
  BY <1>1, Invariance, PTL

(* canRestoreSnapshot accepts whatever snapshotState saved, if the number  *)
(* of positions is limited.                                                *)
THEOREM SavedRestores == Spec => []SavedStateRestores
<1>1. ASSUME IInv PROVE SavedStateRestores
  <2> SUFFICES ASSUME MaxConcurrent > 0, saved # <<>> PROVE saved[1].cap <= MaxConcurrent
    BY DEF SavedStateRestores, CanRestore
  <2>1. PICK r \in Snapshot : saved = <<r>> /\ r.cap = CapOf(r.scaled)
    BY <1>1 DEF IInv, CapInv, SavedInv
  <2>2. CapOf(r.scaled) <= MaxConcurrent
    BY ScaledCapBounds, BoundAssumption DEF CapOf
  <2>3. QED
    BY <2>1, <2>2
<1>2. QED
  BY <1>1, Invariance, PTL

(* The window reportApiError keeps is always the end of what was reported  *)
(* since it was last emptied, in whatever order reporters take the lock.   *)
THEOREM WindowSuffix == Spec => []WindowIsSuffix
<1>1. ASSUME IInv PROVE WindowIsSuffix
  <2> DEFINE s == Len(stamps)
             n == Len(reported)
             newest == Reverse(stamps)
             all == Reverse(reported)
  <2>1. /\ stamps \in Seq(0 .. Horizon) /\ reported \in Seq(0 .. Horizon)
        /\ s \in Nat /\ n \in Nat /\ n - s \in Nat
        /\ \A i \in 1 .. s : stamps[i] = reported[(n - s) + i]
    BY <1>1 DEF IInv, Types, Clocks, WindowInv, Dropped
  <2>2. /\ newest \in Seq(0 .. Horizon) /\ Len(newest) = s
        /\ \A i \in 1 .. s : newest[i] = stamps[(s - i) + 1]
    BY <2>1, ReverseSeq
  <2>3. /\ all \in Seq(0 .. Horizon) /\ Len(all) = n
        /\ \A i \in 1 .. n : all[i] = reported[(n - i) + 1]
    BY <2>1, ReverseSeq
  <2> HIDE DEF newest, all
  <2>4. ASSUME NEW i \in 1 .. s PROVE newest[i] = all[i] /\ all[i] \in 0 .. Horizon
    <3>1. /\ (s - i) + 1 \in 1 .. s /\ i \in 1 .. n
          /\ (n - s) + ((s - i) + 1) = (n - i) + 1
      BY <2>1
    <3>2. newest[i] = all[i]
      BY <2>1, <2>2, <2>3, <3>1
    <3>3. QED
      BY <2>3, <3>1, <3>2, ElementOfSeq
  <2>5. SubSeq(newest, 1, s) = newest
    BY <2>2, SubSeqFull
  <2>6. SubSeq(all, 1, s) = newest
    <3>1. /\ SubSeq(all, 1, s) \in Seq(0 .. Horizon)
          /\ Len(SubSeq(all, 1, s)) = IF 1 <= s THEN (s - 1) + 1 ELSE 0
          /\ \A i \in 1 .. (s - 1) + 1 : SubSeq(all, 1, s)[i] = all[(1 + i) - 1]
      BY <2>1, <2>4, SubSeqProperties
    <3>2. Len(SubSeq(all, 1, s)) = s /\ \A i \in 1 .. s : SubSeq(all, 1, s)[i] = all[i]
      BY <2>1, <3>1
    <3>3. QED
      BY <2>2, <2>4, <3>1, <3>2, SeqEqual
  <2>7. QED
    BY <2>1, <2>2, <2>3, <2>5, <2>6 DEF WindowIsSuffix, IsSuffix, IsPrefix, newest, all
<1>2. QED
  BY <1>1, Invariance, PTL

(* More than Threshold errors within one window always halt trading, until *)
(* an operator clears the halt or the feed lowers it (reportApiError,      *)
(* clearHalt, setHaltTrading), although reporters read the clock before    *)
(* they take the lock and so enter it out of order.                        *)
THEOREM BurstsHalt == Spec => []BurstHalts
<1> DEFINE Kept == Cardinality(Recent) \in Nat /\ Cardinality(Recent) <= Len(stamps)
<1>1. IInv => Kept
  BY RecentAreKept DEF IInv, Types
<1>2. ASSUME Clocks, Kept', BurstHalts, [Next]_vars PROVE BurstHalts'
  <2>1. ASSUME NEW t \in Threads, ReportApiError(t) PROVE BurstHalts'
    <3>1. Len(stamps') \in Nat
      BY <1>2
    <3>2. Burst' => Len(stamps') > Threshold
      BY <1>2, <3>1, BoundAssumption DEF Burst
    <3>3. QED
      BY <2>1, <3>2 DEF ReportApiError, BurstHalts
  <2>2. ASSUME reported' = <<>> PROVE BurstHalts'
    <3>1. Recent' = {}
      BY <2>2 DEF Recent
    <3>2. QED
      BY <3>1, FS_EmptySet, BoundAssumption DEF BurstHalts, Burst
  <2>3. ASSUME UNCHANGED <<reported, clearing, halted, excused>> PROVE BurstHalts'
    BY <1>2, <2>3 DEF BurstHalts, Burst, Recent
  <2>4. CASE LowerHalt
    BY <2>4 DEF LowerHalt, BurstHalts
  <2>5. ASSUME NEW halt \in BOOLEAN, SetHaltTrading(halt) PROVE BurstHalts'
    BY <1>2, <2>5 DEF SetHaltTrading, BurstHalts
  <2>6. QED
    BY <1>2, <2>1, <2>2, <2>3, <2>4, <2>5
       DEF Next, Tick, ReadClock, EmptyWindow, ReportLatency, ClearLatencyBreach,
           UpdateLiveVolatility, SnapshotState, RestoreState, vars, window
<1>3. Init => BurstHalts
  <2>1. Init => Recent = {}
    BY DEF Init, Recent
  <2>2. QED
    BY <2>1, FS_EmptySet, BoundAssumption DEF BurstHalts, Burst
<1>4. IInv => Clocks
  BY DEF IInv, Types
<1>5. QED
  BY <1>1, <1>2, <1>3, <1>4, Invariance, PTL DEF Spec

=============================================================================
