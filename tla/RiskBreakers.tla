---------------------------- MODULE RiskBreakers ----------------------------
(***************************************************************************)
(* The circuit breakers of RiskEngine (src/src/RiskEngine.cpp): the HALT   *)
(* that an error rate or the market-data integrity guard sets, the         *)
(* CLOSE_ONLY state, the position cap that volatility scales down, and the *)
(* snapshot they are saved to and restored from.                           *)
(*                                                                         *)
(* reportApiError reads the clock before it takes m_errorMutex, and        *)
(* clearHalt lowers the flag before it takes it, so both are two steps;    *)
(* m_halted and m_closeOnly are atomics that any thread changes between.   *)
(* X_Y is X with one plausible mistake Y, which no action uses.            *)
(***************************************************************************)
EXTENDS Integers, Sequences, FiniteSetsExt, SequencesExt

CONSTANTS
  Threads,        \* threads that report errors
  Window,         \* the sliding window of reportApiError, 60 s in the code
  Threshold,      \* errorRateThresh
  MaxConcurrent,  \* m_maxConcurrentPositions, 0 for no limit
  Horizon,        \* bound on the clock
  MaxReports      \* bound on the errors remembered at a time

ASSUME ThreadAssumption == IsFiniteSet(Threads)
ASSUME BoundAssumption  ==
  /\ Window \in Nat \ {0} /\ Threshold \in Nat
  /\ MaxConcurrent \in Nat /\ Horizon \in Nat /\ MaxReports \in Nat \ {0}

VARIABLES
  now,            \* the steady clock
  stamps,         \* m_errorTimestamps, oldest first
  readAt,         \* of a thread inside reportApiError: the time it read
  clearing,       \* an operator is inside clearHalt, past its first half
  halted,         \* m_halted
  closeOnly,      \* m_closeOnly
  scaled,         \* m_volatilityScaled
  cap,            \* m_effectiveMaxPositions
  saved,          \* the last snapshot written, as a sequence of length 0 or 1
  reported,       \* history: times of the errors since the window was emptied
  excused         \* history: the feed lowered the halt since the last error

vars == <<now, stamps, readAt, clearing, halted, closeOnly, scaled, cap, saved,
          reported, excused>>

window == <<stamps, reported>>
limits == <<scaled, cap>>

NotReporting == -1

ScaledCap == Max({1, MaxConcurrent \div 2})

Init ==
  /\ now = 0 /\ stamps = <<>>
  /\ readAt = [t \in Threads |-> NotReporting]
  /\ clearing = FALSE /\ halted = FALSE /\ closeOnly = FALSE
  /\ scaled = FALSE /\ cap = MaxConcurrent
  /\ saved = <<>> /\ reported = <<>> /\ excused = FALSE

Tick ==
  /\ now < Horizon
  /\ now' = now + 1
  /\ UNCHANGED <<window, readAt, clearing, halted, closeOnly, limits, saved, excused>>

(***************************************************************************)
(* The error rate.                                                         *)
(***************************************************************************)
ReadClock(t) ==
  /\ readAt[t] = NotReporting
  /\ readAt' = [readAt EXCEPT ![t] = now]
  /\ UNCHANGED <<now, window, clearing, halted, closeOnly, limits, saved, excused>>

Evicted_InclusiveCutoff(times, cutoff) ==
  LET fresh == {i \in 1 .. Len(times) : times[i] > cutoff} IN
  IF fresh = {} THEN <<>> ELSE SubSeq(times, Min(fresh), Len(times))

(* Entries are popped from the front until one is not older than cutoff.   *)
Evicted(times, cutoff) ==
  LET fresh == {i \in 1 .. Len(times) : times[i] >= cutoff} IN
  IF fresh = {} THEN <<>> ELSE SubSeq(times, Min(fresh), Len(times))

(* The half of reportApiError under m_errorMutex.                          *)
ReportApiError(t) ==
  /\ readAt[t] # NotReporting
  /\ Len(reported) < MaxReports
  /\ stamps' = Evicted(Append(stamps, readAt[t]), readAt[t] - Window)
  /\ halted' = (halted \/ Len(stamps') > Threshold)
  /\ readAt' = [readAt EXCEPT ![t] = NotReporting]
  /\ reported' = Append(reported, readAt[t])
  /\ excused' = FALSE
  /\ UNCHANGED <<now, clearing, closeOnly, limits, saved>>

EmptyWindow_StampsKept ==
  /\ clearing
  /\ clearing' = FALSE
  /\ reported' = <<>>
  /\ UNCHANGED <<now, stamps, readAt, halted, closeOnly, limits, saved, excused>>

(* clearHalt: the flag first, the window afterwards.                       *)
LowerHalt ==
  /\ ~clearing
  /\ clearing' = TRUE
  /\ halted' = FALSE
  /\ UNCHANGED <<now, window, readAt, closeOnly, limits, saved, excused>>

EmptyWindow ==
  /\ clearing
  /\ clearing' = FALSE
  /\ stamps' = <<>> /\ reported' = <<>>
  /\ UNCHANGED <<now, readAt, halted, closeOnly, limits, saved, excused>>

(* The integrity callback: TRUE when the feed degrades, FALSE when it is   *)
(* restored.                                                               *)
SetHaltTrading(halt) ==
  /\ halted' = halt
  /\ excused' = (excused \/ ~halt)
  /\ UNCHANGED <<now, window, readAt, clearing, closeOnly, limits, saved>>

(***************************************************************************)
(* Latency and volatility.                                                 *)
(***************************************************************************)
ReportLatency(exceeds) ==
  /\ closeOnly' = (closeOnly \/ exceeds)
  /\ UNCHANGED <<now, window, readAt, clearing, halted, limits, saved, excused>>

ClearLatencyBreach ==
  /\ closeOnly' = FALSE
  /\ UNCHANGED <<now, window, readAt, clearing, halted, limits, saved, excused>>

UpdateLiveVolatility_Compounds(high) ==
  /\ scaled' = high
  /\ cap' = IF high THEN cap \div 2 ELSE MaxConcurrent
  /\ UNCHANGED <<now, window, readAt, clearing, halted, closeOnly, saved, excused>>

(* "high": the live ATR exceeds the baseline by more than the threshold.   *)
UpdateLiveVolatility(high) ==
  /\ scaled' = high
  /\ cap' = IF high = scaled THEN cap ELSE IF high THEN ScaledCap ELSE MaxConcurrent
  /\ UNCHANGED <<now, window, readAt, clearing, halted, closeOnly, saved, excused>>

(***************************************************************************)
(* snapshotState, canRestoreSnapshot and restoreState.                     *)
(***************************************************************************)
SnapshotState ==
  /\ saved' = <<[halted |-> halted, closeOnly |-> closeOnly, scaled |-> scaled,
                 cap |-> cap]>>
  /\ UNCHANGED <<now, window, readAt, clearing, halted, closeOnly, limits, excused>>

CanRestore_Strict(snapshot) == snapshot.cap < MaxConcurrent

CanRestore(snapshot) == snapshot.cap <= MaxConcurrent

RestoreState_CapKept ==
  /\ saved # <<>>
  /\ CanRestore(saved[1])
  /\ halted' = saved[1].halted /\ closeOnly' = saved[1].closeOnly
  /\ scaled' = saved[1].scaled /\ cap' = MaxConcurrent
  /\ stamps' = <<>> /\ reported' = <<>> /\ excused' = FALSE
  /\ readAt' = [t \in Threads |-> NotReporting] /\ clearing' = FALSE
  /\ UNCHANGED <<now, saved>>

(* Into a new process: one that reports and clears nothing yet.            *)
RestoreState ==
  /\ saved # <<>>
  /\ CanRestore(saved[1])
  /\ halted' = saved[1].halted /\ closeOnly' = saved[1].closeOnly
  /\ scaled' = saved[1].scaled /\ cap' = saved[1].cap
  /\ stamps' = <<>> /\ reported' = <<>> /\ excused' = FALSE
  /\ readAt' = [t \in Threads |-> NotReporting] /\ clearing' = FALSE
  /\ UNCHANGED <<now, saved>>

Next ==
  \/ Tick
  \/ \E t \in Threads : ReadClock(t) \/ ReportApiError(t)
  \/ LowerHalt \/ EmptyWindow
  \/ \E halt \in BOOLEAN : SetHaltTrading(halt)
  \/ \E exceeds \in BOOLEAN : ReportLatency(exceeds)
  \/ ClearLatencyBreach
  \/ \E high \in BOOLEAN : UpdateLiveVolatility(high)
  \/ SnapshotState \/ RestoreState

Spec == Init /\ [][Next]_vars

-----------------------------------------------------------------------------
(***************************************************************************)
(* Properties.                                                             *)
(***************************************************************************)

(* Every variable has its type; a scaled cap is never 0, which would mean  *)
(* no limit at all.                                                        *)
TypeOK ==
  /\ now \in 0 .. Horizon
  /\ stamps \in Seq(0 .. Horizon) /\ reported \in Seq(0 .. Horizon)
  /\ readAt \in [Threads -> {NotReporting} \cup 0 .. Horizon]
  /\ clearing \in BOOLEAN /\ halted \in BOOLEAN /\ closeOnly \in BOOLEAN
  /\ scaled \in BOOLEAN /\ cap \in Nat /\ (MaxConcurrent > 0 => cap > 0)
  /\ Len(saved) <= 1 /\ excused \in BOOLEAN

(* Errors within the window that ends at the latest one.                   *)
Recent == {i \in 1 .. Len(reported) :
             \A j \in 1 .. Len(reported) : reported[i] >= reported[j] - Window}

Burst == Cardinality(Recent) > Threshold

(* A burst of errors is never missed: whatever order concurrent reporters  *)
(* enter the lock in, more than Threshold errors within one window halt    *)
(* trading, unless an operator is clearing the halt or the feed lowered it *)
(* since the last of them.                                                 *)
BurstHalts == Burst /\ ~clearing /\ ~excused => halted

(* The window forgets only from its old end, and an operator who cleared   *)
(* the halt starts from an empty one.                                      *)
WindowIsSuffix == IsSuffix(stamps, reported)

(* The effective cap is the one that belongs to the volatility state, also *)
(* after any sequence of volatility changes and restarts.                  *)
CapMatchesVolatility == cap = IF scaled THEN ScaledCap ELSE MaxConcurrent

(* Whatever state the engine saves, a process configured the same way can  *)
(* restore.  An unlimited cap (0) is the exception: scaled down it is 1,   *)
(* which canRestoreSnapshot takes for a wider limit than 0.                *)
SavedStateRestores ==
  MaxConcurrent > 0 /\ saved # <<>> => CanRestore(saved[1])

(* RiskEngine.hpp: after a burst canTrade returns false until clearHalt is *)
(* explicitly called.                                                      *)
HaltLatches == Burst /\ ~clearing => halted

=============================================================================
