----------------------- MODULE TradingSession_proofs -----------------------
(***************************************************************************)
(* Proofs about TradingSession: for any candle files, menus, limits and    *)
(* starts, a candle is booked once across deaths and resumptions, the      *)
(* trigger table stays consistent, and a protective trigger leaves it only *)
(* with the position it protects.                                          *)
(***************************************************************************)
EXTENDS TradingSession, FiniteSetTheorems, SequenceTheorems, WellFoundedInduction, TLAPS

(***************************************************************************)
(* The candles.                                                            *)
(***************************************************************************)

(* A history: how often each candle has been booked.                       *)
Counts(history) ==
  /\ DOMAIN history = Symbols
  /\ \A s \in Symbols : history[s] \in [DOMAIN tape[s] -> Nat]

(* The stages in which a candle is booked but still at its stream's head.  *)
InHand == stage \in {"pending", "mark", "saving", "renaming"}

CandleTypes ==
  /\ tape \in Tapes /\ current \in Symbols /\ stage \in Stages
  /\ next \in [Symbols -> Nat \ {0}] /\ Counts(applied)
  /\ session \in [mode : Modes, resume : BOOLEAN, ts : Nat]
  /\ InHand => current \in Live
  /\ stage = "down" => next = [s \in Symbols |-> 1]
  /\ stage \in {"saving", "renaming"} => session.mode = "backtest"
  /\ snapshot.kind = "whole" => snapshot.ts \in Nat /\ Counts(snapshot.applied)

(* Candle i of stream s is one that the checkpoint covers.                 *)
Covered(s, i) == session.resume /\ tape[s][i].ts <= session.ts

(* The merge: nothing behind the heads is later than a head.               *)
Merged ==
  \A s \in Symbols, t \in Live : \A i \in DOMAIN tape[s] :
    i < next[s] => tape[s][i].ts <= Candle(t).ts

(* What is booked at or after a head is covered, or is the candle in hand. *)
AheadIsCovered ==
  \A s \in Symbols : \A i \in DOMAIN tape[s] :
    applied[s][i] = 1 /\ i >= next[s] =>
      Covered(s, i) \/ (InHand /\ s = current /\ i = next[s])

(* The candle in hand is the earliest, and nothing later is booked.        *)
HandIsLatest ==
  InHand =>
    /\ Earliest(current) /\ applied[current][next[current]] = 1
    /\ \A s \in Symbols : \A i \in DOMAIN tape[s] :
         applied[s][i] = 1 => tape[s][i].ts <= Candle(current).ts

NothingMissed ==
  Untied /\ session.mode = "backtest" =>
    \A s \in Symbols : \A i \in DOMAIN tape[s] :
      i < next[s] \/ Covered(s, i) => applied[s][i] = 1

(* A checkpoint has booked nothing later than its time and, where it       *)
(* cannot be told from another's candle, everything up to it.              *)
FileIsCut ==
  snapshot.kind = "whole" =>
    \A s \in Symbols : \A i \in DOMAIN tape[s] :
      /\ snapshot.applied[s][i] <= 1
      /\ snapshot.applied[s][i] = 1 => tape[s][i].ts <= snapshot.ts
      /\ Untied /\ tape[s][i].ts <= snapshot.ts => snapshot.applied[s][i] = 1

AtMostOnce ==
  \A s \in Symbols : \A i \in DOMAIN tape[s] : applied[s][i] <= 1

Ordered ==
  /\ AtMostOnce /\ FileIsCut
  /\ stage # "dying" => Merged /\ AheadIsCovered /\ HandIsLatest /\ NothingMissed

CandleInv == CandleTypes /\ (Chronological => Ordered)

-----------------------------------------------------------------------------
USE DEF stream, queues, engine, counters, Modes

LEMMA Files ==
  ASSUME CandleTypes, NEW s \in Symbols
  PROVE  /\ Len(tape[s]) \in Nat /\ DOMAIN tape[s] = 1 .. Len(tape[s])
         /\ \A i \in DOMAIN tape[s] : tape[s][i].ts \in Nat
         /\ next[s] \in Nat \ {0}
         /\ s \in Live <=> next[s] \in DOMAIN tape[s]
<1> DEFINE Bar == [ts : Nat, low : Int, close : Int, high : Int]
<1>1. tape[s] \in Seq(Bar)
  BY SessionAssumption DEF CandleTypes
<1>2. Len(tape[s]) \in Nat /\ DOMAIN tape[s] = 1 .. Len(tape[s])
  BY <1>1, LenProperties
<1>3. \A i \in DOMAIN tape[s] : tape[s][i] \in Bar
  BY <1>1, <1>2, ElementOfSeq
<1>4. next[s] \in Nat \ {0}
  BY DEF CandleTypes
<1>5. s \in Live <=> next[s] <= Len(tape[s])
  BY DEF Live
<1> QED
  BY <1>2, <1>3, <1>4, <1>5

(* A step that leaves the files, the heads, the history and the checkpoint *)
(* alone may end the process, or go on with the candle in hand, if any.    *)
LEMMA Bystander ==
  ASSUME CandleInv, UNCHANGED <<tape, next, session, snapshot, applied>>,
         current' \in Symbols, stage' \in Stages \ {"down"},
         stage' \in {"saving", "renaming"} => session.mode = "backtest",
         \/ stage' = "dying"
         \/ stage # "dying" /\ InHand' = InHand /\ (InHand => current' = current)
  PROVE  CandleInv'
<1>1. CandleTypes'
  <2>1. InHand' => current' \in Live'
    BY DEF CandleInv, CandleTypes, InHand, Live
  <2> QED
    BY <2>1 DEF CandleInv, CandleTypes, Counts
<1>2. ASSUME Chronological' PROVE Ordered'
  <2>1. Chronological /\ Ordered
    BY <1>2 DEF CandleInv, Chronological
  <2>2. AtMostOnce' /\ FileIsCut'
    BY <2>1 DEF Ordered, AtMostOnce, FileIsCut, Untied
  <2>3. ASSUME stage' # "dying"
        PROVE  Merged' /\ AheadIsCovered' /\ HandIsLatest' /\ NothingMissed'
    <3>1. Merged /\ AheadIsCovered /\ HandIsLatest /\ NothingMissed
      BY <2>1, <2>3 DEF Ordered
    <3>2. Merged'
      BY <3>1 DEF Merged, Live, Candle
    <3>3. AheadIsCovered'
      BY <2>3, <3>1 DEF AheadIsCovered, Covered
    <3>4. HandIsLatest'
      BY <2>3, <3>1 DEF HandIsLatest, Earliest, Live, Candle
    <3>5. NothingMissed'
      BY <3>1 DEF NothingMissed, Untied, Covered
    <3> QED
      BY <3>2, <3>3, <3>4, <3>5
  <2> QED
    BY <2>2, <2>3 DEF Ordered
<1> QED
  BY <1>1, <1>2 DEF CandleInv

(* The earliest head moves on: its candle is booked, covered, or passed    *)
(* over outside BACKTEST.                                                  *)
LEMMA HeadMoves ==
  ASSUME CandleTypes, Chronological, Ordered, stage # "dying", stage' = "next",
         NEW s \in Symbols, Earliest(s), Advance(s), UNCHANGED <<tape, session, applied>>,
         InHand => s = current,
         InHand \/ Resumed(s) \/ session.mode # "backtest"
  PROVE  Merged' /\ AheadIsCovered' /\ HandIsLatest' /\ NothingMissed'
<1>1. Merged /\ AheadIsCovered /\ HandIsLatest /\ NothingMissed
  BY DEF Ordered
<1>2. /\ next' = [next EXCEPT ![s] = next[s] + 1] /\ next[s] \in DOMAIN tape[s]
      /\ \A t \in Symbols : next'[t] = IF t = s THEN next[s] + 1 ELSE next[t]
  BY Files DEF Advance, CandleTypes, Earliest
<1>3. ASSUME NEW t \in Symbols, NEW i \in DOMAIN tape[t], i < next'[t]
      PROVE  i < next[t] \/ (t = s /\ i = next[s])
  BY <1>2, <1>3, Files
<1>4. ~InHand'
  BY DEF InHand
<1>5. Merged'
  <2> SUFFICES ASSUME NEW t \in Symbols, NEW u \in Live', NEW i \in DOMAIN tape[t],
                      i < next'[t]
               PROVE  tape[t][i].ts <= tape[u][next'[u]].ts
    BY DEF Merged, Candle
  <2>1. u \in Symbols /\ next'[u] \in DOMAIN tape[u]
    <3>1. u \in Symbols /\ next'[u] <= Len(tape[u])
      BY DEF Live
    <3> QED
      BY <1>2, <3>1, Files
  <2>2. u \in Live /\ next[u] \in DOMAIN tape[u] /\ next[u] <= next'[u]
    BY <1>2, <2>1, Files
  <2>3. Candle(u).ts <= tape[u][next'[u]].ts
    <3>1. CASE next'[u] = next[u]
      BY <2>1, <3>1, Files DEF Candle
    <3>2. CASE next'[u] # next[u]
      <4>1. next[u] < next'[u]
        BY <1>2, <2>1, <2>2, <3>2, Files
      <4> QED
        BY <2>1, <2>2, <4>1 DEF Chronological, Candle
    <3> QED
      BY <3>1, <3>2
  <2>4. tape[t][i].ts <= Candle(u).ts
    <3>1. CASE i < next[t]
      BY <1>1, <2>2, <3>1 DEF Merged
    <3>2. CASE t = s /\ i = next[s]
      BY <2>2, <3>2 DEF Earliest, Candle
    <3> QED
      BY <1>3, <3>1, <3>2
  <2>5. tape[t][i].ts \in Nat /\ Candle(u).ts \in Nat /\ tape[u][next'[u]].ts \in Nat
    BY <2>1, <2>2, Files DEF Candle
  <2> QED
    BY <2>3, <2>4, <2>5
<1>6. AheadIsCovered'
  <2> SUFFICES ASSUME NEW t \in Symbols, NEW i \in DOMAIN tape[t],
                      applied[t][i] = 1, i >= next'[t]
               PROVE  Covered(t, i)
    BY DEF AheadIsCovered, Covered
  <2>1. i >= next[t] /\ ~(t = s /\ i = next[s])
    BY <1>2, Files
  <2> QED
    BY <1>1, <2>1 DEF AheadIsCovered
<1>7. HandIsLatest'
  BY <1>4 DEF HandIsLatest
<1>8. NothingMissed'
  <2> SUFFICES ASSUME Untied, session.mode = "backtest", NEW t \in Symbols,
                      NEW i \in DOMAIN tape[t], i < next'[t] \/ Covered(t, i)
               PROVE  applied[t][i] = 1
    BY DEF NothingMissed, Untied, Covered
  <2>1. CASE i < next[t] \/ Covered(t, i)
    BY <1>1, <2>1 DEF NothingMissed
  <2>2. CASE t = s /\ i = next[s]
    <3>1. CASE InHand
      BY <1>1, <2>2, <3>1 DEF HandIsLatest
    <3>2. CASE Resumed(s)
      <4>1. Covered(s, next[s])
        BY <3>2 DEF Resumed, Covered, Candle
      <4> QED
        BY <1>1, <1>2, <2>2, <4>1 DEF NothingMissed
    <3> QED
      BY <3>1, <3>2
  <2> QED
    BY <1>3, <2>1, <2>2
<1> QED
  BY <1>5, <1>6, <1>7, <1>8

(* The heads' types after a head has moved on.                             *)
LEMMA HeadTypes ==
  ASSUME CandleTypes, NEW s \in Symbols, Advance(s), stage' = "next",
         UNCHANGED <<tape, session, current, applied>>,
         snapshot' = snapshot \/ (snapshot'.ts \in Nat /\ snapshot'.applied = applied)
  PROVE  CandleTypes'
<1>1. next' \in [Symbols -> Nat \ {0}]
  <2>1. next[s] + 1 \in Nat \ {0}
    BY DEF CandleTypes
  <2> QED
    BY <2>1 DEF Advance, CandleTypes
<1> QED
  BY <1>1 DEF CandleTypes, Counts, Stages, InHand

(* A head that moves on and leaves the checkpoint alone.                   *)
LEMMA HeadKeeps ==
  ASSUME CandleInv, stage # "dying", stage' = "next",
         NEW s \in Symbols, Earliest(s), Advance(s),
         UNCHANGED <<tape, session, current, applied, snapshot>>,
         InHand => s = current,
         InHand \/ Resumed(s) \/ session.mode # "backtest"
  PROVE  CandleInv'
<1>1. CandleTypes'
  BY HeadTypes DEF CandleInv
<1>2. ASSUME Chronological' PROVE Ordered'
  <2>1. Chronological /\ Ordered
    BY <1>2 DEF CandleInv, Chronological
  <2>2. AtMostOnce' /\ FileIsCut'
    BY <2>1 DEF Ordered, AtMostOnce, FileIsCut, Untied
  <2>3. Merged' /\ AheadIsCovered' /\ HandIsLatest' /\ NothingMissed'
    BY <2>1, HeadMoves DEF CandleInv
  <2> QED
    BY <2>2, <2>3 DEF Ordered
<1> QED
  BY <1>1, <1>2 DEF CandleInv

LEMMA PassOverKeeps ==
  ASSUME CandleInv, NEW s \in Symbols, PassOver(s)
  PROVE  CandleInv'
<1>1. stage = "next" /\ ~InHand
  BY DEF PassOver, InHand
<1> QED
  BY <1>1, HeadKeeps DEF PassOver

LEMMA TakeCandleKeeps ==
  ASSUME CandleInv, NEW s \in Symbols, TakeCandle(s)
  PROVE  CandleInv'
<1> DEFINE n == next[s]
<1>1. /\ stage = "next" /\ Earliest(s) /\ ~Resumed(s) /\ stage' = "pending" /\ current' = s
      /\ applied' = [applied EXCEPT ![s][n] = @ + 1]
      /\ UNCHANGED <<tape, next, session, snapshot>>
  BY DEF TakeCandle
<1>2. CandleTypes /\ n \in DOMAIN tape[s] /\ n \in Nat /\ s \in Live
  BY <1>1, Files DEF CandleInv, Earliest
<1>3. /\ DOMAIN applied' = Symbols /\ applied[s][n] \in Nat
      /\ applied'[s] = [applied[s] EXCEPT ![n] = applied[s][n] + 1]
      /\ \A t \in Symbols : t # s => applied'[t] = applied[t]
  BY <1>1, <1>2 DEF CandleTypes, Counts
<1>4. \A t \in Symbols : applied'[t] \in [DOMAIN tape[t] -> Nat]
  <2> SUFFICES ASSUME NEW t \in Symbols PROVE applied'[t] \in [DOMAIN tape[t] -> Nat]
    OBVIOUS
  <2>1. applied[t] \in [DOMAIN tape[t] -> Nat]
    BY <1>2 DEF CandleTypes, Counts
  <2>2. CASE t = s
    <3>1. applied[s][n] + 1 \in Nat
      BY <1>3
    <3> QED
      BY <1>3, <2>1, <2>2, <3>1
  <2>3. CASE t # s
    BY <1>3, <2>1, <2>3
  <2> QED
    BY <2>2, <2>3
<1>5. \A t \in Symbols : \A i \in DOMAIN tape[t] :
        applied'[t][i] = IF t = s /\ i = n THEN applied[s][n] + 1 ELSE applied[t][i]
  BY <1>2, <1>3 DEF CandleTypes, Counts
<1>6. CandleTypes'
  <2>1. current' \in Live'
    BY <1>1, <1>2 DEF Live
  <2> QED
    BY <1>1, <1>2, <1>3, <1>4, <2>1 DEF CandleTypes, Counts, Stages
<1>7. ASSUME Chronological' PROVE Ordered'
  <2>1. Chronological /\ Ordered
    BY <1>1, <1>7 DEF CandleInv, Chronological
  <2>2. AtMostOnce /\ FileIsCut /\ Merged /\ AheadIsCovered /\ NothingMissed /\ ~InHand
    BY <1>1, <2>1 DEF Ordered, InHand
  <2>3. ~Covered(s, n)
    BY <1>1 DEF Resumed, Covered, Candle
  <2>4. applied[s][n] = 0
    <3>1. applied[s][n] # 1
      BY <1>2, <2>2, <2>3 DEF AheadIsCovered
    <3>2. applied[s][n] <= 1
      BY <1>2, <2>2 DEF AtMostOnce
    <3> QED
      BY <1>3, <3>1, <3>2
  <2>5. \A t \in Symbols : \A i \in DOMAIN tape[t] :
          applied'[t][i] = IF t = s /\ i = n THEN 1 ELSE applied[t][i]
    BY <1>5, <2>4
  <2>6. AtMostOnce'
    BY <1>1, <2>2, <2>5 DEF AtMostOnce
  <2>7. FileIsCut'
    BY <1>1, <2>2 DEF FileIsCut, Untied
  <2>8. Merged'
    BY <1>1, <2>2 DEF Merged, Live, Candle
  <2>9. AheadIsCovered'
    <3> SUFFICES ASSUME NEW t \in Symbols, NEW i \in DOMAIN tape[t],
                        applied'[t][i] = 1, i >= next[t]
                 PROVE  Covered(t, i) \/ (t = s /\ i = n)
      BY <1>1 DEF AheadIsCovered, Covered, InHand
    <3> QED
      BY <2>2, <2>5 DEF AheadIsCovered
  <2>10. HandIsLatest'
    <3>1. Earliest(s)' /\ applied'[s][n] = 1
      BY <1>1, <1>2, <2>5 DEF Earliest, Live, Candle
    <3>2. ASSUME NEW t \in Symbols, NEW i \in DOMAIN tape[t], applied'[t][i] = 1
          PROVE  tape[t][i].ts <= tape[s][n].ts
      <4>1. tape[t][i].ts \in Nat /\ tape[s][n].ts \in Nat
        BY <1>2, Files
      <4>2. CASE t = s /\ i = n
        BY <4>1, <4>2
      <4>3. CASE ~(t = s /\ i = n)
        <5>1. applied[t][i] = 1
          BY <2>5, <3>2, <4>3
        <5>2. CASE i < next[t]
          BY <1>2, <2>2, <5>2 DEF Merged, Candle
        <5>3. CASE ~(i < next[t])
          <6>1. Covered(t, i)
            <7>1. i >= next[t]
              BY <1>2, <5>3, Files
            <7> QED
              BY <2>2, <5>1, <7>1 DEF AheadIsCovered
          <6>2. session.resume /\ session.ts \in Nat
            BY <1>2, <6>1 DEF Covered, CandleTypes
          <6>3. ~(tape[s][n].ts <= session.ts) /\ tape[t][i].ts <= session.ts
            BY <2>3, <6>1, <6>2 DEF Covered
          <6> QED
            BY <4>1, <6>2, <6>3
        <5> QED
          BY <5>2, <5>3
      <4> QED
        BY <4>2, <4>3
    <3> QED
      BY <1>1, <3>1, <3>2 DEF HandIsLatest, Candle
  <2>11. NothingMissed'
    <3> SUFFICES ASSUME Untied, session.mode = "backtest", NEW t \in Symbols,
                        NEW i \in DOMAIN tape[t], i < next[t] \/ Covered(t, i)
                 PROVE  applied'[t][i] = 1
      BY <1>1 DEF NothingMissed, Untied, Covered
    <3> QED
      BY <2>2, <2>5 DEF NothingMissed
  <2> QED
    BY <2>6, <2>7, <2>8, <2>9, <2>10, <2>11 DEF Ordered
<1> QED
  BY <1>6, <1>7 DEF CandleInv

(* A checkpoint is taken with its candle in hand, which is the latest one  *)
(* booked; and where no other has its time, every earlier one is booked.   *)
LEMMA RenameKeeps ==
  ASSUME CandleInv, RenameTemporary
  PROVE  CandleInv'
<1>1. /\ stage = "renaming" /\ InHand
      /\ UNCHANGED <<tape, session, current, applied>>
  BY DEF RenameTemporary, InHand
<1>2. CandleTypes
  BY DEF CandleInv
<1>3. CASE Dying("checkpoint") /\ UNCHANGED <<snapshot, lastSaved, next>>
  BY <1>1, <1>2, <1>3, Bystander DEF Dying, CandleTypes, Stages
<1>4. CASE /\ snapshot' = Content /\ stage' = "next" /\ Advance(current)
  <2> DEFINE n == next[current]
  <2>1. /\ snapshot'.kind = "whole" /\ snapshot'.ts = tape[current][n].ts
        /\ snapshot'.applied = applied
    BY <1>4 DEF Content, Candle
  <2>2. ASSUME Chronological' PROVE Ordered'
    <3>1. Chronological /\ Ordered /\ HandIsLatest /\ AtMostOnce /\ NothingMissed
      BY <1>1, <2>2 DEF CandleInv, Chronological, Ordered
    <3>2. /\ Earliest(current) /\ applied[current][n] = 1 /\ n \in DOMAIN tape[current]
          /\ \A s \in Symbols : \A i \in DOMAIN tape[s] :
               applied[s][i] = 1 => tape[s][i].ts <= tape[current][n].ts
      BY <1>1, <1>2, <3>1, Files DEF HandIsLatest, Earliest, Candle, CandleTypes
    <3>3. Merged' /\ AheadIsCovered' /\ HandIsLatest' /\ NothingMissed'
      BY <1>1, <1>2, <1>4, <3>1, <3>2, HeadMoves DEF CandleTypes
    <3>4. AtMostOnce'
      BY <1>1, <3>1 DEF AtMostOnce
    <3>5. ASSUME Untied, NEW s \in Symbols, NEW i \in DOMAIN tape[s],
                 tape[s][i].ts <= tape[current][n].ts
          PROVE  applied[s][i] = 1
      <4>1. CASE i < next[s]
        BY <1>1, <1>2, <3>1, <3>5, <4>1 DEF NothingMissed, CandleTypes
      <4>2. CASE ~(i < next[s])
        <5>1. s \in Live /\ next[s] \in DOMAIN tape[s] /\ (next[s] = i \/ next[s] < i)
          BY <1>2, <3>5, <4>2, Files
        <5>2. tape[s][next[s]].ts <= tape[s][i].ts
          <6>1. CASE next[s] = i
            BY <1>2, <5>1, <6>1, Files
          <6>2. CASE next[s] < i
            BY <3>1, <5>1, <6>2 DEF Chronological
          <6> QED
            BY <5>1, <6>1, <6>2
        <5>3. tape[current][n].ts <= tape[s][next[s]].ts
          BY <3>2, <5>1 DEF Earliest, Candle
        <5>4. tape[s][i].ts = tape[current][n].ts
          <6>1. /\ tape[s][i].ts \in Nat /\ tape[s][next[s]].ts \in Nat
                /\ tape[current][n].ts \in Nat
            BY <1>2, <3>2, <5>1, Files DEF CandleTypes
          <6> QED
            BY <3>5, <5>2, <5>3, <6>1
        <5>5. s = current /\ i = n
          BY <1>2, <3>2, <3>5, <5>4 DEF Untied, CandleTypes
        <5> QED
          BY <3>2, <5>5
      <4> QED
        BY <4>1, <4>2
    <3>6. FileIsCut'
      BY <1>1, <2>1, <3>1, <3>2, <3>5 DEF FileIsCut, AtMostOnce, Untied
    <3> QED
      BY <3>3, <3>4, <3>6 DEF Ordered
  <2>3. CandleTypes'
    <3>1. /\ next' = [next EXCEPT ![current] = next[current] + 1]
          /\ next' \in [Symbols -> Nat \ {0}]
      <4>1. next[current] + 1 \in Nat \ {0}
        BY <1>2 DEF CandleTypes
      <4> QED
        BY <1>2, <1>4, <4>1 DEF Advance, CandleTypes
    <3>2. snapshot'.ts \in Nat
      <4>1. n \in DOMAIN tape[current]
        BY <1>1, <1>2, Files DEF CandleTypes
      <4> QED
        BY <1>2, <2>1, <4>1, Files DEF CandleTypes
    <3> QED
      BY <1>1, <1>2, <1>4, <2>1, <3>1, <3>2 DEF CandleTypes, Counts, Stages, InHand
  <2> QED
    BY <2>2, <2>3 DEF CandleInv
<1> QED
  BY <1>3, <1>4 DEF RenameTemporary

(* The process is gone and nothing is booked; what it left is a file.      *)
LEMMA GoneKeeps ==
  ASSUME CandleInv, Gone, snapshot' = snapshot \/ snapshot' = Torn
  PROVE  CandleInv'
<1>1. CandleTypes
  BY DEF CandleInv
<1>2. /\ stage' = "down" /\ applied' = Untouched /\ UNCHANGED tape
      /\ next' = [s \in Symbols |-> 1]
      /\ session' = [mode |-> "backtest", resume |-> FALSE, ts |-> 0]
  BY DEF Gone
<1>3. \A s \in Symbols : \A i \in DOMAIN tape[s] : applied'[s][i] = 0 /\ i >= next'[s]
  BY <1>1, <1>2, Files DEF Untouched
<1>4. ~InHand'
  BY <1>2 DEF InHand
<1>5. CandleTypes'
  <2>1. current' \in Symbols
    BY <1>1 DEF Gone, CandleTypes
  <2>2. Counts(applied)'
    BY <1>2 DEF Counts, Untouched
  <2>3. snapshot'.kind = "whole" =>
          snapshot'.ts \in Nat /\ Counts(snapshot.applied)'
    BY <1>1, <1>2 DEF CandleTypes, Counts, Torn
  <2> QED
    BY <1>1, <1>2, <1>4, <2>1, <2>2, <2>3 DEF CandleTypes, Stages
<1>6. ASSUME Chronological' PROVE Ordered'
  <2>1. FileIsCut
    BY <1>2, <1>6 DEF CandleInv, Chronological, Ordered
  <2>2. FileIsCut'
    BY <1>2, <2>1 DEF FileIsCut, Untied, Torn
  <2>3. AtMostOnce'
    BY <1>2, <1>3 DEF AtMostOnce
  <2>4. Merged' /\ NothingMissed'
    <3>1. \A s \in Symbols : \A i \in DOMAIN tape[s] : ~(i < next'[s])
      BY <1>1, <1>2, Files
    <3> QED
      BY <1>2, <3>1 DEF Merged, NothingMissed, Covered
  <2>5. AheadIsCovered' /\ HandIsLatest'
    BY <1>2, <1>3, <1>4 DEF AheadIsCovered, HandIsLatest
  <2> QED
    BY <2>2, <2>3, <2>4, <2>5 DEF Ordered
<1> QED
  BY <1>5, <1>6 DEF CandleInv

(* A resumed run takes the history of the checkpoint along.                *)
LEMMA StartKeeps ==
  ASSUME CandleInv, NEW mode \in Modes, NEW resume \in BOOLEAN, NEW unlocked \in BOOLEAN,
         Start(mode, resume, unlocked)
  PROVE  CandleInv'
<1>1. /\ stage' = "next" /\ UNCHANGED <<tape, next, current, snapshot>>
      /\ session' = [mode |-> mode, resume |-> resume, ts |-> IF resume THEN snapshot.ts ELSE 0]
      /\ applied' = IF resume THEN snapshot.applied ELSE Untouched
      /\ resume => mode = "backtest" /\ snapshot.kind = "whole"
  BY DEF Start, Loadable
<1>2. CandleTypes /\ ~InHand'
  BY <1>1 DEF CandleInv, InHand
<1>3. CandleTypes'
  <2>1. session' \in [mode : Modes, resume : BOOLEAN, ts : Nat]
    BY <1>1, <1>2 DEF CandleTypes
  <2>2. Counts(applied)'
    BY <1>1, <1>2 DEF CandleTypes, Counts, Untouched
  <2>3. snapshot'.kind = "whole" => snapshot'.ts \in Nat /\ Counts(snapshot.applied)'
    BY <1>1, <1>2 DEF CandleTypes, Counts
  <2> QED
    BY <1>1, <1>2, <2>1, <2>2, <2>3 DEF CandleTypes, Stages
<1>4. \A s \in Symbols : \A i \in DOMAIN tape[s] : next[s] = 1 /\ ~(i < next[s])
  BY <1>2, Files DEF CandleTypes, Start
<1>5. ASSUME Chronological' PROVE Ordered'
  <2>1. FileIsCut
    BY <1>1, <1>5 DEF CandleInv, Chronological, Ordered
  <2>2. FileIsCut'
    BY <1>1, <2>1 DEF FileIsCut, Untied
  <2>3. Merged' /\ HandIsLatest'
    BY <1>1, <1>2, <1>4 DEF Merged, HandIsLatest
  <2>4. CASE resume
    <3>1. /\ snapshot.kind = "whole" /\ applied' = snapshot.applied
          /\ session'.resume = TRUE /\ session'.ts = snapshot.ts
      BY <1>1, <2>4
    <3>2. AtMostOnce' /\ AheadIsCovered'
      BY <1>1, <2>1, <3>1 DEF FileIsCut, AtMostOnce, AheadIsCovered, Covered
    <3>3. NothingMissed'
      BY <1>1, <1>4, <2>1, <3>1 DEF FileIsCut, NothingMissed, Untied, Covered
    <3> QED
      BY <2>2, <2>3, <3>2, <3>3 DEF Ordered
  <2>5. CASE ~resume
    <3>1. \A s \in Symbols : \A i \in DOMAIN tape[s] : applied'[s][i] = 0
      BY <1>1, <2>5 DEF Untouched
    <3>2. AtMostOnce' /\ AheadIsCovered'
      BY <1>1, <3>1 DEF AtMostOnce, AheadIsCovered
    <3>3. NothingMissed'
      BY <1>1, <1>4, <2>5 DEF NothingMissed, Covered
    <3> QED
      BY <2>2, <2>3, <3>2, <3>3 DEF Ordered
  <2> QED
    BY <2>4, <2>5
<1> QED
  BY <1>3, <1>5 DEF CandleInv

LEMMA CandleInit == Init => CandleInv
<1> SUFFICES ASSUME Init PROVE CandleInv
  OBVIOUS
<1>1. /\ tape \in Tapes /\ stage = "down" /\ current \in Symbols
      /\ session = [mode |-> "backtest", resume |-> FALSE, ts |-> 0]
      /\ next = [s \in Symbols |-> 1] /\ snapshot = NoFile /\ applied = Untouched
  BY SessionAssumption DEF Init
<1>2. CandleTypes
  BY <1>1 DEF CandleTypes, Counts, Untouched, InHand, Stages, NoFile
<1>3. \A s \in Symbols : \A i \in DOMAIN tape[s] : applied[s][i] = 0 /\ ~(i < next[s])
  BY <1>1, <1>2, Files DEF Untouched
<1>4. AtMostOnce /\ Merged /\ AheadIsCovered
  BY <1>3 DEF AtMostOnce, Merged, AheadIsCovered
<1>5. HandIsLatest /\ FileIsCut /\ NothingMissed
  BY <1>1, <1>3 DEF HandIsLatest, InHand, FileIsCut, NoFile, NothingMissed, Covered
<1> QED
  BY <1>2, <1>4, <1>5 DEF CandleInv, Ordered

(* Where a step of the process goes on, when it does not touch the candles.*)
LEMMA BooksGoOn ==
  ASSUME NEW outcome, NEW goOn, Books(outcome, goOn)
  PROVE  stage' \in {goOn, "dying"}
BY DEF Books, Dying

LEMMA MarkKeeps ==
  ASSUME CandleInv, MarkToMarket
  PROVE  CandleInv'
<1>1. /\ stage = "mark" /\ InHand /\ current \in Symbols
      /\ UNCHANGED <<tape, session, current, snapshot, applied>>
  BY DEF MarkToMarket, InHand, CandleInv, CandleTypes
<1>2. CASE Dying("mark") /\ UNCHANGED next
  BY <1>1, <1>2, Bystander DEF Dying, Stages
<1>3. CASE Due(current) /\ stage' = "saving" /\ UNCHANGED next
  BY <1>1, <1>3, Bystander DEF Due, Stages, InHand
<1>4. CASE stage' = "next" /\ Advance(current)
  <2>1. CandleTypes /\ InHand
    BY <1>1 DEF CandleInv
  <2>2. ASSUME Chronological PROVE Earliest(current)
    BY <1>1, <2>2 DEF CandleInv, Ordered, HandIsLatest
  <2>3. CASE Chronological
    BY <1>1, <1>4, <2>2, <2>3, HeadKeeps
  <2>4. CASE ~Chronological
    <3>1. ~Chronological'
      BY <1>1, <2>4 DEF Chronological
    <3>2. CandleTypes'
      BY <1>1, <1>4, <2>1, HeadTypes
    <3> QED
      BY <3>1, <3>2 DEF CandleInv
  <2> QED
    BY <2>3, <2>4
<1> QED
  BY <1>1, <1>2, <1>3, <1>4 DEF MarkToMarket

LEMMA CandleStep ==
  ASSUME CandleInv, [Next]_vars
  PROVE  CandleInv'
<1> USE DEF CandleInv, CandleTypes
<1>1. ASSUME NEW s \in Symbols, PassOver(s) PROVE CandleInv'
  BY <1>1, PassOverKeeps
<1>2. ASSUME NEW s \in Symbols, TakeCandle(s) PROVE CandleInv'
  BY <1>2, TakeCandleKeeps
<1>3. CASE ProcessPendingOrder
  <2>1. stage = "pending" /\ stage' \in {"pending", "dying"}
    BY <1>3, BooksGoOn DEF ProcessPendingOrder
  <2> QED
    BY <1>3, <2>1, Bystander DEF ProcessPendingOrder, InHand, Stages
<1>4. ASSUME NEW signal, DispatchSignal(signal) PROVE CandleInv'
  <2>1. stage = "pending" /\ stage' \in {"mark", "dying"}
    BY <1>4, BooksGoOn DEF DispatchSignal
  <2> QED
    BY <1>4, <2>1, Bystander DEF DispatchSignal, InHand, Stages
<1>5. CASE MarkToMarket
  BY <1>5, MarkKeeps
<1>6. CASE WriteTemporary
  <2>1. stage = "saving" /\ stage' \in {"renaming", "dying"}
    BY <1>6 DEF WriteTemporary, Dying
  <2> QED
    BY <1>6, <2>1, Bystander DEF WriteTemporary, InHand, Stages
<1>7. CASE RenameTemporary
  BY <1>7, RenameKeeps
<1>8. CASE Crash \/ PowerLoss \/ Finish
  BY <1>8, GoneKeeps DEF Crash, PowerLoss, Finish
<1>9. ASSUME NEW mode \in Modes, NEW resume \in BOOLEAN, NEW unlocked \in BOOLEAN,
             Start(mode, resume, unlocked)
      PROVE  CandleInv'
  BY <1>9, StartKeeps
<1>10. ASSUME NEW request, PlacePendingOrder(request) \/ PlaceTrigger(request) PROVE CandleInv'
  <2>1. stage = "next" /\ UNCHANGED <<stage, stream, current, session, snapshot, applied>>
    BY <1>10 DEF PlacePendingOrder, PlaceTrigger
  <2> QED
    BY <2>1, Bystander DEF InHand
<1>11. ASSUME NEW id, CancelPendingOrder(id) PROVE CandleInv'
  <2>1. stage = "next" /\ UNCHANGED <<stage, stream, current, session, snapshot, applied>>
    BY <1>11 DEF CancelPendingOrder
  <2> QED
    BY <2>1, Bystander DEF InHand
<1>12. ASSUME NEW s \in Symbols, NEW quote, EvaluateTriggers(s, quote) PROVE CandleInv'
  BY <1>12, Bystander DEF EvaluateTriggers, InHand, Stages
<1>13. CASE ExecuteTrigger
  <2>1. stage = "triggers" /\ stage' \in {"next", "triggers", "dying"}
    BY <1>13, BooksGoOn DEF ExecuteTrigger, AfterTriggers
  <2> QED
    BY <1>13, <2>1, Bystander DEF ExecuteTrigger, InHand, Stages
<1>14. CASE LateFill
  <2>1. stage = "next" /\ UNCHANGED <<stage, stream, current, session, snapshot, applied>>
    BY <1>14 DEF LateFill
  <2> QED
    BY <2>1, Bystander DEF InHand
<1>15. CASE UNCHANGED vars
  <2>1. UNCHANGED <<stage, stream, current, session, snapshot, applied>>
    BY <1>15 DEF vars
  <2>2. CASE stage = "down"
    <3>1. CandleTypes'
      BY <2>1 DEF Counts, Live, InHand
    <3>2. (Chronological => Ordered)'
      BY <2>1 DEF Chronological, Ordered, AtMostOnce, FileIsCut, Merged, AheadIsCovered,
                  HandIsLatest, NothingMissed, Untied, Covered, Live, Candle, InHand, Earliest
    <3> QED
      BY <3>1, <3>2
  <2>3. CASE stage # "down"
    BY <2>1, <2>3, Bystander DEF InHand
  <2> QED
    BY <2>2, <2>3
<1> HIDE DEF CandleInv, CandleTypes
<1> QED
  BY <1>1, <1>2, <1>3, <1>4, <1>5, <1>6, <1>7, <1>8, <1>9, <1>10, <1>11, <1>12, <1>13,
     <1>14, <1>15
     DEF Next

(* However often a BACKTEST is killed and resumed (main.cpp's loop and its *)
(* test of each candle against the checkpoint), the book sees each candle  *)
(* once at most and, where the cut is unambiguous, leaves none out.        *)
THEOREM EachCandleOnce == Spec => []CandlesAppliedOnce
<1>1. CandleInv => CandlesAppliedOnce
  <2> SUFFICES ASSUME CandleInv, Chronological, session.mode = "backtest"
               PROVE  /\ \A s \in Symbols : \A i \in DOMAIN tape[s] : applied[s][i] <= 1
                      /\ Untied /\ stage = "next" => CandlesComplete
    BY DEF CandlesAppliedOnce
  <2>1. Ordered
    BY DEF CandleInv
  <2> QED
    BY <2>1 DEF Ordered, AtMostOnce, NothingMissed, CandlesComplete
<1> QED
  BY <1>1, CandleInit, CandleStep, PTL DEF Spec

-----------------------------------------------------------------------------
(***************************************************************************)
(* Finite sets and what is collected from them in order.                   *)
(***************************************************************************)

(* Induction on subsets, for a property that is a set.                     *)
LEMMA SubsetInduction ==
  ASSUME NEW S, IsFiniteSet(S), NEW Good,
         \A T \in SUBSET S : (\A U \in SUBSET T : U # T => U \in Good) => T \in Good
  PROVE  \A T \in SUBSET S : T \in Good
<1> DEFINE Bad == {T \in SUBSET S : T \notin Good}
<1> SUFFICES ASSUME Bad # {} PROVE FALSE
  OBVIOUS
<1>1. FiniteSubsetsOf(S) = SUBSET S
  BY FS_FiniteSubsetsOfFinite
<1>2. PICK T \in Bad : \A U \in Bad : <<U, T>> \notin StrictSubsetOrdering(S)
  <2>1. IsWellFoundedOn(StrictSubsetOrdering(S), SUBSET S)
    <3>1. IsWellFoundedOn(StrictSubsetOrdering(S), FiniteSubsetsOf(S))
      BY FS_StrictSubsetOrderingWellFounded
    <3> QED
      BY <1>1, <3>1
  <2>2. Bad \subseteq SUBSET S
    OBVIOUS
  <2> HIDE DEF Bad
  <2>3. \E T \in Bad : \A U \in Bad : ~(<<U, T>> \in StrictSubsetOrdering(S))
    BY <2>1, <2>2, WFMin
  <2> QED
    BY <2>3
<1>3. \A U \in SUBSET T : U # T => U \in Good
  BY <1>2 DEF StrictSubsetOrdering
<1> QED
  BY <1>2, <1>3

LEMMA LargestNumber ==
  ASSUME NEW S, IsFiniteSet(S), S \subseteq Int, S # {}
  PROVE  \E m \in S : \A n \in S : n <= m
<1> DEFINE Good == {T \in SUBSET S : T = {} \/ \E m \in T : \A n \in T : n <= m}
<1>1. \A T \in SUBSET S : (\A U \in SUBSET T : U # T => U \in Good) => T \in Good
  <2> SUFFICES ASSUME NEW T \in SUBSET S, \A U \in SUBSET T : U # T => U \in Good, T # {}
               PROVE  \E m \in T : \A n \in T : n <= m
    OBVIOUS
  <2>1. PICK x \in T : x \in Int
    OBVIOUS
  <2>2. T \ {x} \in Good
    OBVIOUS
  <2>3. CASE T \ {x} = {}
    BY <2>1, <2>3
  <2>4. CASE T \ {x} # {}
    <3>1. PICK y \in T \ {x} : \A n \in T \ {x} : n <= y
      BY <2>2, <2>4
    <3>2. y \in Int /\ \A n \in T : n \in Int
      OBVIOUS
    <3>3. CASE x <= y
      BY <3>1, <3>3
    <3>4. CASE y < x
      BY <2>1, <3>1, <3>2, <3>4
    <3> QED
      BY <2>1, <3>2, <3>3, <3>4
  <2> QED
    BY <2>3, <2>4
<1> HIDE DEF Good
<1>2. S \in Good
  BY <1>1, SubsetInduction
<1> QED
  BY <1>2 DEF Good

(* Every finite set of numbers can be put in order.                        *)
LEMMA InOrder ==
  ASSUME NEW S, IsFiniteSet(S), S \subseteq Int
  PROVE  \E order \in [1 .. Cardinality(S) -> S] :
           \A m, n \in 1 .. Cardinality(S) : m < n => order[m] < order[n]
<1> DEFINE Sorts(o, T) == /\ o \in [1 .. Cardinality(T) -> T]
                          /\ \A m, n \in 1 .. Cardinality(T) : m < n => o[m] < o[n]
           Good == {T \in SUBSET S : \E o : Sorts(o, T)}
<1>1. \A T \in SUBSET S : (\A U \in SUBSET T : U # T => U \in Good) => T \in Good
  <2> SUFFICES ASSUME NEW T \in SUBSET S, \A U \in SUBSET T : U # T => U \in Good
               PROVE  \E o : Sorts(o, T)
    OBVIOUS
  <2>1. IsFiniteSet(T) /\ Cardinality(T) \in Nat
    BY FS_Subset, FS_CardinalityType
  <2>2. CASE T = {}
    <3>1. Cardinality(T) = 0 /\ 1 .. 0 = {}
      BY <2>2, FS_EmptySet
    <3>2. Sorts([n \in {} |-> 0], T)
      BY <3>1
    <3> QED
      BY <3>2
  <2>3. CASE T # {}
    <3>1. PICK x \in T : \A n \in T : n <= x
      BY <2>1, <2>3, LargestNumber
    <3> DEFINE U == T \ {x}
               k == Cardinality(T)
    <3>2. /\ Cardinality(U) = k - 1 /\ k \in Nat \ {0}
          /\ \A n \in 1 .. k : n # k => n \in 1 .. k - 1
          /\ \A n \in 1 .. k - 1 : n < k
      <4>1. Cardinality(U) = k - 1
        BY <2>1, <3>1, FS_RemoveElement
      <4>2. k \in Nat /\ k # 0
        BY <2>1, <2>3, FS_EmptySet
      <4> HIDE DEF k
      <4> QED
        BY <4>1, <4>2
    <3>3. U \in Good
      OBVIOUS
    <3>4. PICK p : Sorts(p, U)
      BY <3>3
    <3> DEFINE o == [n \in 1 .. k |-> IF n = k THEN x ELSE p[n]]
    <3> HIDE DEF k
    <3>5. \A n \in 1 .. k - 1 : p[n] \in U /\ p[n] < x
      <4> TAKE n \in 1 .. k - 1
      <4>1. p[n] \in U
        BY <3>2, <3>4
      <4>2. p[n] \in T /\ p[n] # x /\ p[n] \in Int /\ x \in Int
        BY <4>1
      <4>3. p[n] <= x
        BY <3>1, <4>2
      <4> QED
        BY <4>1, <4>2, <4>3
    <3>6. o \in [1 .. k -> T]
      BY <3>1, <3>2, <3>5
    <3>7. ASSUME NEW m \in 1 .. k, NEW n \in 1 .. k, m < n PROVE o[m] < o[n]
      <4>1. m # k /\ m \in 1 .. k - 1
        BY <3>2, <3>7
      <4>2. CASE n = k
        BY <3>5, <4>1, <4>2
      <4>3. CASE n # k
        <5>1. n \in 1 .. k - 1
          BY <3>2, <4>3
        <5>2. p[m] < p[n]
          BY <3>2, <3>4, <3>7, <4>1, <5>1
        <5> QED
          BY <4>1, <4>3, <5>2
      <4> QED
        BY <4>2, <4>3
    <3> HIDE DEF o
    <3>8. Sorts(o, T)
      BY <3>6, <3>7 DEF k
    <3> QED
      BY <3>8
  <2> QED
    BY <2>2, <2>3
<1> HIDE DEF Good
<1>2. S \in Good
  BY <1>1, SubsetInduction
<1> QED
  BY <1>2 DEF Good

LEMMA AsSequence ==
  ASSUME NEW k \in Nat, NEW e, e = [n \in 1 .. k |-> e[n]]
  PROVE  e \in Seq({e[n] : n \in 1 .. k}) /\ Len(e) = k /\ DOMAIN e = 1 .. k
<1> DEFINE S == {e[n] : n \in 1 .. k}
<1>1. e \in [1 .. k -> S]
  OBVIOUS
<1>2. e \in Seq(S)
  BY <1>1, SeqDef
<1> QED
  BY <1>1, <1>2, LenProperties

(* A list is a sequence of whatever.                                       *)
IsList(e) == Len(e) \in Nat /\ e = [n \in 1 .. Len(e) |-> e[n]]

(* What is collected comes from the places it is collected from.           *)
LEMMA CollectedFrom ==
  ASSUME NEW f, NEW places, IsFiniteSet(places), places \subseteq Int
  PROVE  /\ IsList(Collected(f, places))
         /\ \A n \in 1 .. Len(Collected(f, places)) :
              \E i \in places : Collected(f, places)[n] = f[i]
<1> DEFINE k == Cardinality(places)
           list == Collected(f, places)
<1>1. Ascending(places) \in [1 .. k -> places]
  BY InOrder DEF Ascending
<1>2. k \in Nat
  BY FS_CardinalityType
<1> HIDE DEF k
<1>3. list = [n \in 1 .. k |-> f[Ascending(places)[n]]]
  BY DEF Collected, k
<1> HIDE DEF list
<1>4. list = [n \in 1 .. k |-> list[n]]
  BY <1>3
<1>5. Len(list) = k
  BY <1>2, <1>4, AsSequence
<1>6. IsList(list) /\ \A n \in 1 .. Len(list) : \E i \in places : list[n] = f[i]
  BY <1>1, <1>2, <1>3, <1>4, <1>5 DEF IsList
<1> QED
  BY <1>6 DEF list

-----------------------------------------------------------------------------
(***************************************************************************)
(* The trigger table.                                                      *)
(***************************************************************************)
Numbers(table) == 1 .. table.nextId - 1

(* Every slot is free or holds an order with an id of its own; the free    *)
(* stack holds every free slot once.                                       *)
TableInv(table) ==
  /\ DOMAIN table = {"slots", "free", "active", "nextId"}
  /\ DOMAIN table.slots = Slots /\ table.nextId \in Nat \ {0}
  /\ \A i \in Slots : table.slots[i] = FreeSlot \/ table.slots[i].inUse = TRUE
  /\ \A i \in InUse(table) : table.slots[i].id \in Numbers(table)
  /\ \A i, j \in InUse(table) : table.slots[i].id = table.slots[j].id => i = j
  /\ table.free \in Seq(Slots)
  /\ \A m, n \in DOMAIN table.free : table.free[m] = table.free[n] => m = n
  /\ \A i \in Slots : i \in InUse(table) <=> \A n \in DOMAIN table.free : table.free[n] # i
  /\ table.active = Cardinality(InUse(table))
  /\ Len(table.free) = Capacity - table.active

(* The events of a quote are about orders of its symbol, as long as they   *)
(* are in the table.                                                       *)
EventInv ==
  /\ stage = "triggers" => events # <<>>
  /\ stage \notin {"triggers", "dying"} => events = <<>>
  /\ IsList(events)
  /\ \A n \in 1 .. Len(events), i \in InUse(triggers) :
       triggers.slots[i].id = events[n].id => triggers.slots[i].symbol = current

(* A book has its positions, also one that is read back; no broker holds  *)
(* an order of a BACKTEST.                                                 *)
Shaped(b) == "positions" \in DOMAIN b

BookInv ==
  /\ session.mode = "backtest" => Shaped(book) /\ working = None
  /\ stage = "down" => session.mode = "backtest"
  /\ snapshot.kind = "whole" => Shaped(snapshot.book)

TriggerInv == TableInv(triggers) /\ EventInv /\ BookInv

LEMMA EmptyTableInv == TableInv(EmptyTable)
<1> DEFINE n == Capacity
<1>1. n \in Nat
  BY CapacityAssumption
<1>2. /\ EmptyTable.slots = [i \in Slots |-> FreeSlot] /\ EmptyTable.nextId = 1
      /\ EmptyTable.free = [i \in Slots |-> n + 1 - i] /\ EmptyTable.active = 0
  BY DEF EmptyTable
<1>3. InUse(EmptyTable) = {}
  BY <1>2 DEF InUse, FreeSlot
<1>4. \A i \in Slots : n + 1 - i \in Slots
  BY <1>1 DEF Slots
<1>5. /\ EmptyTable.free \in [1 .. n -> Slots] /\ EmptyTable.free \in Seq(Slots)
      /\ Len(EmptyTable.free) = n /\ DOMAIN EmptyTable.free = Slots
  <2>1. EmptyTable.free \in [1 .. n -> Slots]
    BY <1>2, <1>4 DEF Slots
  <2> QED
    BY <1>1, <2>1, LenProperties DEF Slots
<1>6. \A i, j \in DOMAIN EmptyTable.free : EmptyTable.free[i] = EmptyTable.free[j] => i = j
  BY <1>1, <1>2, <1>5 DEF Slots
<1>7. \A i \in Slots : \E m \in DOMAIN EmptyTable.free : EmptyTable.free[m] = i
  <2> TAKE i \in Slots
  <2>1. n + 1 - i \in Slots /\ n + 1 - (n + 1 - i) = i
    BY <1>1 DEF Slots
  <2> QED
    BY <1>2, <1>5, <2>1
<1>8. /\ DOMAIN EmptyTable = {"slots", "free", "active", "nextId"}
      /\ DOMAIN EmptyTable.slots = Slots
      /\ \A i \in Slots : EmptyTable.slots[i] = FreeSlot
  BY <1>2 DEF EmptyTable
<1>9. EmptyTable.active = Cardinality(InUse(EmptyTable))
  BY <1>2, <1>3, FS_EmptySet
<1>10. Len(EmptyTable.free) = Capacity - EmptyTable.active
  BY <1>1, <1>2, <1>5
<1>11. EmptyTable.nextId \in Nat \ {0}
  BY <1>2
<1> QED
  BY <1>3, <1>5, <1>6, <1>7, <1>8, <1>9, <1>10, <1>11 DEF TableInv

LEMMA UsedSlots ==
  ASSUME NEW table, TableInv(table)
  PROVE  /\ InUse(table) \subseteq Slots /\ IsFiniteSet(InUse(table))
         /\ Cardinality(InUse(table)) \in Nat
<1>1. IsFiniteSet(Slots)
  BY FS_Interval, CapacityAssumption DEF Slots
<1>2. InUse(table) \subseteq Slots
  BY DEF InUse
<1> QED
  BY <1>1, <1>2, FS_Subset, FS_CardinalityType

(* A placed order takes the slot on top of the stack and a new id.         *)
LEMMA PlaceKeeps ==
  ASSUME NEW table, TableInv(table), NEW symbol, NEW type, NEW buy, NEW stop, NEW takeProfit,
         NEW new, new = placeOrder(table, symbol, type, buy, stop, takeProfit)
  PROVE  /\ TableInv(new)
         /\ \A i \in InUse(table) : i \in InUse(new) /\ new.slots[i] = table.slots[i]
<1> DEFINE top == Last(table.free)
           order == [inUse |-> TRUE, id |-> table.nextId, symbol |-> symbol, type |-> type,
                     buy |-> buy, stop |-> stop, takeProfit |-> takeProfit]
<1>1. CASE stop > 0 /\ (type = "OCO" => takeProfit > 0) /\ table.free # <<>>
  <2> DEFINE n == Len(table.free)
  <2>1. /\ DOMAIN new = {"slots", "free", "active", "nextId"}
        /\ new.slots = [table.slots EXCEPT ![top] = order] /\ new.free = Front(table.free)
        /\ new.active = table.active + 1 /\ new.nextId = table.nextId + 1
    BY <1>1 DEF placeOrder
  <2>2. /\ table.free \in Seq(Slots) /\ n \in Nat \ {0} /\ DOMAIN table.free = 1 .. n
        /\ \A m \in 1 .. n : table.free[m] \in Slots
    BY <1>1, EmptySeq, LenProperties, ElementOfSeq DEF TableInv
  <2>3. /\ new.free \in Seq(Slots) /\ Len(new.free) = n - 1 /\ DOMAIN new.free = 1 .. n - 1
        /\ \A m \in 1 .. n - 1 : new.free[m] = table.free[m]
    <3>1. \A m \in 1 .. n - 1 : table.free[m] \in Slots
      BY <2>2
    <3>2. /\ SubSeq(table.free, 1, n - 1) \in Seq(Slots)
          /\ Len(SubSeq(table.free, 1, n - 1)) = IF 1 <= n - 1 THEN n - 1 - 1 + 1 ELSE 0
          /\ \A m \in 1 .. n - 1 - 1 + 1 :
               SubSeq(table.free, 1, n - 1)[m] = table.free[1 + m - 1]
      BY <2>2, <3>1, SubSeqProperties
    <3>3. Len(new.free) = n - 1
      BY <2>1, <2>2, <3>2 DEF Front
    <3>4. \A m \in 1 .. n - 1 : new.free[m] = table.free[m]
      BY <2>1, <2>2, <3>2 DEF Front
    <3> QED
      BY <2>1, <3>2, <3>3, <3>4, LenProperties DEF Front
  <2>4. top = table.free[n] /\ top \in Slots /\ n \in 1 .. n
    BY <2>2 DEF Last
  <2>5. top \notin InUse(table)
    BY <2>2, <2>4 DEF TableInv
  <2> HIDE DEF top
  <2>6. /\ DOMAIN new.slots = Slots /\ new.slots[top] = order
        /\ \A i \in Slots \ {top} : new.slots[i] = table.slots[i]
    BY <2>1, <2>4 DEF TableInv
  <2>7. InUse(new) = InUse(table) \cup {top}
    BY <2>4, <2>6 DEF InUse
  <2>8. Cardinality(InUse(new)) = Cardinality(InUse(table)) + 1
    BY <2>5, <2>7, UsedSlots, FS_AddElement
  <2>9. /\ new.nextId \in Nat \ {0} /\ order.id \in Numbers(new) /\ order.id \notin Numbers(table)
        /\ Numbers(table) \subseteq Numbers(new)
    BY <2>1 DEF TableInv, Numbers
  <2>10. \A i \in Slots : new.slots[i] = FreeSlot \/ new.slots[i].inUse = TRUE
    BY <2>6 DEF TableInv
  <2>11. \A i \in InUse(new) : new.slots[i].id \in Numbers(new)
    BY <2>5, <2>6, <2>7, <2>9, UsedSlots DEF TableInv
  <2>12. \A i, j \in InUse(new) : new.slots[i].id = new.slots[j].id => i = j
    <3>1. \A i \in InUse(table) : new.slots[i].id \in Numbers(table)
                                  /\ new.slots[i].id = table.slots[i].id
      BY <2>5, <2>6, UsedSlots DEF TableInv
    <3>2. new.slots[top].id \notin Numbers(table)
      BY <2>6, <2>9
    <3> QED
      BY <2>7, <3>1, <3>2 DEF TableInv
  <2>13. \A l, m \in DOMAIN new.free : new.free[l] = new.free[m] => l = m
    <3> SUFFICES ASSUME NEW l \in 1 .. n - 1, NEW m \in 1 .. n - 1, new.free[l] = new.free[m]
                 PROVE  l = m
      BY <2>3
    <3>1. n \in Nat
      BY <2>2
    <3>2. l \in 1 .. n /\ m \in 1 .. n
      BY <3>1
    <3>3. table.free[l] = table.free[m]
      BY <2>3
    <3>4. \A i, j \in 1 .. n : table.free[i] = table.free[j] => i = j
      BY <2>2 DEF TableInv
    <3> QED
      BY <3>2, <3>3, <3>4
  <2>14. \A i \in Slots : i \in InUse(new) <=> \A m \in DOMAIN new.free : new.free[m] # i
    <3>1. ASSUME NEW i \in Slots, i # top
          PROVE  i \in InUse(new) <=> \A m \in DOMAIN new.free : new.free[m] # i
      <4>1. i \in InUse(table) <=> \A m \in 1 .. n : table.free[m] # i
        BY <2>2 DEF TableInv
      <4>2. (\A m \in 1 .. n : table.free[m] # i) <=> (\A m \in 1 .. n - 1 : table.free[m] # i)
        BY <2>2, <2>4, <3>1
      <4> QED
        BY <2>3, <2>7, <3>1, <4>1, <4>2
    <3>2. \A m \in DOMAIN new.free : new.free[m] # top
      <4>1. \A m \in 1 .. n - 1 : m \in 1 .. n /\ m # n
        BY <2>2
      <4> QED
        BY <2>2, <2>3, <2>4, <4>1 DEF TableInv
    <3> QED
      BY <2>7, <3>1, <3>2
  <2>15. Len(new.free) = Capacity - new.active
    <3>1. table.active \in Nat /\ n = Capacity - table.active
      <4>1. Cardinality(InUse(table)) \in Nat
        BY UsedSlots
      <4> QED
        BY <4>1 DEF TableInv
    <3> QED
      BY <2>1, <2>2, <2>3, <3>1, CapacityAssumption
  <2>16. new.active = Cardinality(InUse(new))
    BY <2>1, <2>8 DEF TableInv
  <2>17. \A i \in InUse(table) : i \in InUse(new) /\ new.slots[i] = table.slots[i]
    BY <2>5, <2>6, <2>7, UsedSlots
  <2>18. TableInv(new)
    BY <2>1, <2>3, <2>6, <2>9, <2>10, <2>11, <2>12, <2>13, <2>14, <2>15, <2>16 DEF TableInv
  <2> QED
    BY <2>17, <2>18
<1>2. CASE ~(stop > 0 /\ (type = "OCO" => takeProfit > 0) /\ table.free # <<>>)
  BY <1>2 DEF placeOrder
<1> QED
  BY <1>1, <1>2

(* A cancelled order's slot goes back on the stack, and no other does.     *)
LEMMA CancelKeeps ==
  ASSUME NEW table, TableInv(table), NEW id, NEW new, new = cancel(table, id)
  PROVE  /\ TableInv(new)
         /\ InUse(new) = {i \in InUse(table) : table.slots[i].id # id}
         /\ \A i \in InUse(new) : new.slots[i] = table.slots[i]
<1>1. CASE hasOrder(table, id)
  <2> DEFINE out == CHOOSE i \in InUse(table) : table.slots[i].id = id
             n == Len(table.free)
  <2>1. out \in InUse(table) /\ table.slots[out].id = id
    BY <1>1 DEF hasOrder
  <2>2. new = releaseSlot(table, out)
    BY <1>1 DEF cancel
  <2> HIDE DEF out
  <2>3. /\ DOMAIN new = {"slots", "free", "active", "nextId"} /\ new.nextId = table.nextId
        /\ new.slots = [table.slots EXCEPT ![out] = FreeSlot]
        /\ new.free = Append(table.free, out) /\ new.active = table.active - 1
    BY <2>1, <2>2 DEF releaseSlot, TableInv
  <2>4. /\ table.free \in Seq(Slots) /\ n \in Nat /\ DOMAIN table.free = 1 .. n
        /\ out \in Slots
    BY <2>1, LenProperties, UsedSlots DEF TableInv
  <2>5. /\ new.free \in Seq(Slots) /\ Len(new.free) = n + 1 /\ DOMAIN new.free = 1 .. n + 1
        /\ \A m \in 1 .. n : new.free[m] = table.free[m]
        /\ new.free[n + 1] = out
    BY <2>3, <2>4, AppendProperties, LenProperties
  <2>6. \A m \in 1 .. n : table.free[m] # out
    BY <2>1, <2>4 DEF TableInv
  <2>7. /\ DOMAIN new.slots = Slots /\ new.slots[out] = FreeSlot
        /\ \A i \in Slots \ {out} : new.slots[i] = table.slots[i]
    BY <2>3, <2>4 DEF TableInv
  <2>8. InUse(new) = InUse(table) \ {out}
    BY <2>4, <2>7 DEF InUse, FreeSlot
  <2>9. /\ InUse(new) = {i \in InUse(table) : table.slots[i].id # id}
        /\ \A i \in InUse(new) : new.slots[i] = table.slots[i]
    <3>1. \A i \in InUse(table) : table.slots[i].id = id => i = out
      BY <2>1 DEF TableInv
    <3> QED
      BY <2>1, <2>7, <2>8, <3>1, UsedSlots
  <2>10. Cardinality(InUse(new)) = Cardinality(InUse(table)) - 1
    BY <2>1, <2>8, UsedSlots, FS_RemoveElement
  <2>11. \A i \in Slots : new.slots[i] = FreeSlot \/ new.slots[i].inUse = TRUE
    BY <2>7 DEF TableInv
  <2>12. /\ new.nextId \in Nat \ {0} /\ \A i \in InUse(new) : new.slots[i].id \in Numbers(new)
         /\ \A i, j \in InUse(new) : new.slots[i].id = new.slots[j].id => i = j
    BY <2>3, <2>9 DEF TableInv, Numbers
  <2>13. \A l, m \in DOMAIN new.free : new.free[l] = new.free[m] => l = m
    <3> SUFFICES ASSUME NEW l \in 1 .. n + 1, NEW m \in 1 .. n + 1, new.free[l] = new.free[m]
                 PROVE  l = m
      BY <2>5
    <3>1. (l \in 1 .. n \/ l = n + 1) /\ (m \in 1 .. n \/ m = n + 1)
      BY <2>4
    <3>2. CASE l \in 1 .. n /\ m \in 1 .. n
      <4>1. table.free[l] = table.free[m]
        BY <2>5, <3>2
      <4>2. \A i, j \in 1 .. n : table.free[i] = table.free[j] => i = j
        BY <2>4 DEF TableInv
      <4> QED
        BY <3>2, <4>1, <4>2
    <3> QED
      BY <2>5, <2>6, <3>1, <3>2
  <2>14. \A i \in Slots : i \in InUse(new) <=> \A m \in DOMAIN new.free : new.free[m] # i
    <3>1. ASSUME NEW i \in Slots, i # out
          PROVE  i \in InUse(new) <=> \A m \in DOMAIN new.free : new.free[m] # i
      <4>1. i \in InUse(new) <=> \A m \in 1 .. n : table.free[m] # i
        BY <2>4, <2>8, <3>1 DEF TableInv
      <4>2. \A m \in 1 .. n + 1 : m \in 1 .. n \/ m = n + 1
        BY <2>4
      <4>3. \A m \in 1 .. n : m \in 1 .. n + 1
        BY <2>4
      <4> QED
        BY <2>5, <3>1, <4>1, <4>2, <4>3
    <3>2. n + 1 \in DOMAIN new.free /\ out \notin InUse(new)
      BY <2>4, <2>5, <2>8
    <3> QED
      BY <2>5, <3>1, <3>2
  <2>15. Len(new.free) = Capacity - new.active
    <3>1. table.active \in Nat /\ n = Capacity - table.active
      <4>1. Cardinality(InUse(table)) \in Nat
        BY UsedSlots
      <4> QED
        BY <4>1 DEF TableInv
    <3> QED
      BY <2>3, <2>4, <2>5, <3>1, CapacityAssumption
  <2>16. new.active = Cardinality(InUse(new))
    BY <2>3, <2>10 DEF TableInv
  <2>17. TableInv(new)
    BY <2>3, <2>5, <2>7, <2>11, <2>12, <2>13, <2>14, <2>15, <2>16 DEF TableInv
  <2> QED
    BY <2>9, <2>17
<1>2. CASE ~hasOrder(table, id)
  BY <1>2 DEF cancel, hasOrder
<1> QED
  BY <1>1, <1>2

(***************************************************************************)
(* The book of a BACKTEST keeps its fields, whatever is done to it.        *)
(***************************************************************************)
LEMMA SomeValue ==
  ASSUME NEW v
  PROVE  HasValue(Some(v)) /\ ValueOf(Some(v)) = v
BY DEF HasValue, ValueOf, Some, None

LEMMA ValueIn ==
  ASSUME NEW result, HasValue(result)
  PROVE  ValueOf(result) \in result
BY DEF HasValue, ValueOf, None

(* Valuation changes amounts only.                                         *)
LEMMA ValuedKeeps ==
  ASSUME NEW b, NEW v \in Valued(b), Shaped(b)
  PROVE  Shaped(v) /\ v.positions = b.positions
BY DEF Valued, Some, None, Shaped

LEMMA EnteredKeeps ==
  ASSUME NEW b, Shaped(b), NEW s, NEW p, NEW q, NEW f, NEW v \in Entered(b, s, p, q, f)
  PROVE  Shaped(v)
BY ValuedKeeps DEF Entered, None, Shaped

LEMMA OpenLongKeeps ==
  ASSUME NEW b, Shaped(b), NEW s, NEW p, NEW f, NEW c, NEW u, NEW v \in openLong(b, s, p, f, c, u)
  PROVE  Shaped(v)
BY EnteredKeeps DEF openLong, None

(* A sale of everything leaves no position; any other leaves a book too.   *)
LEMMA CloseKeeps ==
  ASSUME NEW b, Shaped(b), NEW s, NEW p, NEW f, NEW v \in closePosition(b, s, p, f, 0)
  PROVE  Shaped(v) /\ ~hasPosition(v, s)
<1>1. CASE ~hasPosition(b, s)
  BY <1>1 DEF closePosition, Some
<1>2. CASE hasPosition(b, s)
  <2> DEFINE q == ValueOf(Some(b.positions[s].quantity))
  <2>1. q = b.positions[s].quantity
    BY SomeValue
  <2>2. ~(0 > 0)
    OBVIOUS
  <2>3. PICK c : Shaped(c) /\ c.positions = Erase(b.positions, s) /\ v \in Valued(c)
    BY <1>2, <2>1, <2>2 DEF closePosition, None, Shaped
  <2> QED
    BY <2>3, ValuedKeeps DEF hasPosition, Erase
<1> QED
  BY <1>1, <1>2

(* What a step of a BACKTEST makes of the book, and of the broker's order. *)
Sound(outcome) == Shaped(outcome.book) /\ outcome.working = None

(* An accepted sale of s has sold all that there was.                      *)
Sold(b, s, outcome) ==
  outcome.accepted => hasPosition(b, s) /\ ~hasPosition(outcome.book, s)

LEMMA RefusedKeeps ==
  ASSUME NEW b, Shaped(b), working = None, NEW s
  PROVE  Sound(Refused(b)) /\ Sold(b, s, Refused(b))
BY DEF Refused, Outcome, Sound, Sold

LEMMA BookEntryKeeps ==
  ASSUME NEW b, Shaped(b), working = None, NEW s, NEW p, NEW e
  PROVE  Sound(BookEntry(b, s, p, e))
<1> DEFINE result == openLong(b, s, toDouble(p), toDouble(e.fee), toDouble(e.debit),
                              toDouble(e.units))
           reason == IF notional(p, e.units) = Some(0) THEN "dust" ELSE "accounting"
<1>1. BookEntry(b, s, p, e) = Booked(b, result, reason)
  BY DEF BookEntry
<1>2. HasValue(result) => Shaped(ValueOf(result))
  BY ValueIn, OpenLongKeeps
<1> HIDE DEF result, reason
<1> QED
  BY <1>1, <1>2 DEF Booked, Outcome, Sound

LEMMA BookExitKeeps ==
  ASSUME NEW b, Shaped(b), working = None, NEW s, hasPosition(b, s), NEW p
  PROVE  Sound(BookExit(b, s, p)) /\ Sold(b, s, BookExit(b, s, p))
<1> DEFINE exitFee == FillFee(p, getPositionQuantity(b, s))
           result == closePosition(b, s, toDouble(p), toDouble(ValueOf(exitFee)), 0)
<1>1. BookExit(b, s, p) = IF HasValue(exitFee) THEN Booked(b, result, "accounting") ELSE Refused(b)
  BY DEF BookExit
<1>2. HasValue(result) => Shaped(ValueOf(result)) /\ ~hasPosition(ValueOf(result), s)
  BY ValueIn, CloseKeeps
<1> HIDE DEF exitFee, result
<1> QED
  BY <1>1, <1>2, RefusedKeeps DEF Booked, Outcome, Sound, Sold

(* ExecutionEngine::execute without a gateway.                             *)
LEMMA ExecuteKeeps ==
  ASSUME session.mode = "backtest", NEW b, Shaped(b), working = None, NEW s, NEW signal,
         NEW market, NEW outcome \in execute(b, s, signal, market)
  PROVE  /\ Sound(outcome)
         /\ signal = "SELL" => Sold(b, s, outcome)
<1>1. CASE outcome = Refused(b)
  BY <1>1, RefusedKeeps
<1>2. CASE signal = "BUY" /\ outcome \in LocalBuys(b, s, market)
  <2> DEFINE Size(atr) == SizedEntry(b, ValueOf(Slipped(market, TRUE)), atr)
             Bought(atr) == BookEntry(b, s, ValueOf(Slipped(market, TRUE)), ValueOf(Size(atr)))
             Fits(atr, varHolds) == /\ ~hasPosition(b, s) /\ b.cash > 0
                                    /\ HasValue(Slipped(market, TRUE))
                                    /\ HasValue(Size(atr)) /\ CanTrade(b, varHolds)
             Result(atr, varHolds) == IF Fits(atr, varHolds) THEN Bought(atr) ELSE Refused(b)
             Sizes == {{}} \cup {{q} : q \in AtrUnits}
  <2>1. LocalBuys(b, s, market) = {Result(atr, varHolds) : atr \in Sizes, varHolds \in BOOLEAN}
    BY DEF LocalBuys
  <2>2. \A atr, varHolds : Sound(Result(atr, varHolds))
    BY RefusedKeeps, BookEntryKeeps
  <2> HIDE DEF Result, Sizes
  <2>3. Sound(outcome)
    BY <1>2, <2>1, <2>2
  <2> QED
    BY <1>2, <2>3
<1>3. CASE outcome \in LocalSells(b, s, market)
  BY <1>3, RefusedKeeps, BookExitKeeps DEF LocalSells
<1> QED
  BY <1>1, <1>2, <1>3 DEF execute

LEMMA PendingKeeps ==
  ASSUME NEW b, Shaped(b), working = None, NEW s, NEW fill,
         NEW outcome \in PendingBuys(b, s, fill) \cup PendingSells(b, s, fill)
  PROVE  Sound(outcome)
<1>1. CASE outcome \in PendingBuys(b, s, fill)
  <2> DEFINE p == ValueOf(applySlippage(fill.price, Slippage, TRUE))
  <2>1. outcome = Refused(b) \/ \E e : outcome = BookEntry(b, s, p, e)
    BY <1>1 DEF PendingBuys
  <2> QED
    BY <2>1, RefusedKeeps, BookEntryKeeps
<1>2. CASE outcome \in PendingSells(b, s, fill)
  BY <1>2, RefusedKeeps, BookExitKeeps DEF PendingSells
<1> QED
  BY <1>1, <1>2

LEMMA MarkedKeeps ==
  ASSUME NEW b, Shaped(b), NEW s, NEW close, NEW v \in updatePnL(b, s, close)
  PROVE  Shaped(v)
BY ValuedKeeps DEF updatePnL, Some, None, Shaped

(* Pending orders are a field of their own.                                *)
LEMMA QueueKeeps ==
  ASSUME NEW b, Shaped(b)
  PROVE  /\ \A request : Shaped(placePendingOrder(b, request))
         /\ \A id : Shaped(cancelPendingOrder(b, id))
         /\ \A s, candle : Shaped(evaluatePendingOrders(b, s, candle).book)
<1>1. \A request : Shaped(placePendingOrder(b, request))
  BY DEF placePendingOrder, Shaped
<1>2. \A id : Shaped(cancelPendingOrder(b, id))
  BY DEF cancelPendingOrder, Shaped
<1>3. \A s, candle : Shaped(evaluatePendingOrders(b, s, candle).book)
  BY DEF evaluatePendingOrders, Shaped
<1> QED
  BY <1>1, <1>2, <1>3

(* What is saved and read back has the fields of the book.                 *)
LEMMA RestoredKeeps ==
  ASSUME NEW b, Shaped(b)
  PROVE  /\ Shaped(snapshotState(b))
         /\ \A v \in restoreState(b) : Shaped(v)
<1>1. Shaped(snapshotState(b))
  BY DEF snapshotState, Converted, Shaped
<1>2. \A v \in restoreState(b) : Shaped(v)
  BY DEF restoreState, Converted, Shaped, Some, None
<1> QED
  BY <1>1, <1>2

(***************************************************************************)
(* The events of a quote.                                                  *)
(***************************************************************************)
LEMMA TailOf ==
  ASSUME NEW e, IsList(e), e # <<>>
  PROVE  /\ Head(e) = e[1] /\ 1 \in 1 .. Len(e)
         /\ IsList(Tail(e)) /\ Len(Tail(e)) = Len(e) - 1
         /\ \A n \in 1 .. Len(Tail(e)) : n + 1 \in 1 .. Len(e) /\ Tail(e)[n] = e[n + 1]
         /\ Len(e) = 1 => Tail(e) = <<>>
         /\ Len(e) # 1 => Tail(e) # <<>>
<1> DEFINE S == {e[n] : n \in 1 .. Len(e)}
<1>1. e \in Seq(S)
  BY AsSequence DEF IsList
<1> HIDE DEF S
<1>2. Head(e) = e[1] /\ Tail(e) \in Seq(S) /\ Len(e) # 0
  BY <1>1, HeadTailProperties, EmptySeq
<1>3. Len(Tail(e)) = Len(e) - 1
  BY <1>1, HeadTailProperties
<1>4. \A n \in 1 .. Len(Tail(e)) : Tail(e)[n] = e[n + 1]
  BY <1>1, HeadTailProperties
<1>5. Tail(e) = [n \in 1 .. Len(Tail(e)) |-> Tail(e)[n]]
  BY <1>2, LenProperties
<1>6. Len(Tail(e)) = 0 <=> Tail(e) = <<>>
  BY <1>2, EmptySeq
<1> QED
  BY <1>2, <1>3, <1>4, <1>5, <1>6 DEF IsList

(* A quote triggers orders of its own symbol only.                         *)
LEMMA EvaluateFinds ==
  ASSUME NEW table, TableInv(table), NEW s, NEW quote,
         NEW found, found = evaluate(table, s, quote)
  PROVE  /\ IsList(found)
         /\ \A n \in 1 .. Len(found) : \E j \in InUse(table) :
              /\ table.slots[j].symbol = s /\ found[n].id = table.slots[j].id
              /\ found[n].price \in {quote.ask, quote.bid}
<1> DEFINE hits == {i \in InUse(table) : /\ table.slots[i].symbol = s
                                         /\ quote.valid /\ Triggered(table.slots[i], quote)}
           event == [i \in hits |->
                       [id |-> table.slots[i].id, buy |-> table.slots[i].buy,
                        price |-> IF table.slots[i].buy THEN quote.ask ELSE quote.bid]]
<1>1. found = Collected(event, hits)
  BY DEF evaluate
<1>2. IsFiniteSet(hits) /\ hits \subseteq Int
  <2>1. hits \subseteq InUse(table) /\ Slots \subseteq Int
    BY DEF Slots
  <2> QED
    BY <2>1, UsedSlots, FS_Subset
<1>3. \A i \in hits : /\ i \in InUse(table) /\ table.slots[i].symbol = s
                      /\ event[i].id = table.slots[i].id
                      /\ event[i].price \in {quote.ask, quote.bid}
  OBVIOUS
<1> HIDE DEF hits, event
<1>4. /\ IsList(Collected(event, hits))
      /\ \A n \in 1 .. Len(Collected(event, hits)) :
           \E i \in hits : Collected(event, hits)[n] = event[i]
  BY <1>2, CollectedFrom
<1>5. IsList(found) /\ \A n \in 1 .. Len(found) : \E i \in hits : found[n] = event[i]
  BY <1>1, <1>4
<1> QED
  BY <1>3, <1>5

-----------------------------------------------------------------------------
(***************************************************************************)
(* The steps.                                                              *)
(***************************************************************************)
LEMMA TableStep ==
  ASSUME TableInv(triggers), [Next]_vars
  PROVE  TableInv(triggers')
<1>1. CASE triggers' = triggers
  BY <1>1
<1>2. CASE Gone
  BY <1>2, EmptyTableInv DEF Gone
<1>3. ASSUME NEW request, PlaceTrigger(request) PROVE TableInv(triggers')
  BY <1>3, PlaceKeeps DEF PlaceTrigger, placeOco, placeStopLoss
<1>4. CASE ExecuteTrigger
  <2>1. triggers' = triggers \/ triggers' = cancel(triggers, Head(events).id)
    BY <1>4 DEF ExecuteTrigger
  <2> QED
    BY <2>1, CancelKeeps
<1>5. [Next]_vars => \/ triggers' = triggers \/ Gone \/ ExecuteTrigger
                     \/ \E request : PlaceTrigger(request)
  BY DEF Next, vars, engine, PassOver, TakeCandle, ProcessPendingOrder, DispatchSignal,
         MarkToMarket, WriteTemporary, RenameTemporary, Crash, PowerLoss, Finish, Start,
         PlacePendingOrder, CancelPendingOrder, EvaluateTriggers, LateFill
<1> QED
  BY <1>1, <1>2, <1>3, <1>4, <1>5

(* The steps that only book, or that touch no book at all.                 *)
LEMMA BooksKeep ==
  ASSUME BookInv, NEW outcome, NEW goOn, goOn # "down", Books(outcome, goOn),
         session.mode = "backtest" => Sound(outcome), UNCHANGED <<session, snapshot>>
  PROVE  BookInv'
BY DEF BookInv, Books, Dying, Sound

LEMMA BookStep ==
  ASSUME CandleInv, BookInv, [Next]_vars
  PROVE  BookInv'
<1>1. CASE UNCHANGED <<session, book, working, snapshot>> /\ stage' # "down"
  BY <1>1 DEF BookInv, Shaped
<1>2. CASE Crash \/ PowerLoss \/ Finish
  BY <1>2 DEF BookInv, Crash, PowerLoss, Finish, Gone, EmptyBook, Shaped, Torn
<1>3. ASSUME NEW s, TakeCandle(s) PROVE BookInv'
  BY <1>3, QueueKeeps DEF BookInv, TakeCandle
<1>4. CASE ProcessPendingOrder
  <2>1. PICK outcome \in PendingBuys(book, current, Head(fills))
                         \cup PendingSells(book, current, Head(fills)) : Books(outcome, "pending")
    BY <1>4 DEF ProcessPendingOrder
  <2>2. session.mode = "backtest" => Sound(outcome)
    BY <2>1, PendingKeeps DEF BookInv
  <2>3. UNCHANGED <<session, snapshot>>
    BY <1>4 DEF ProcessPendingOrder
  <2> QED
    BY <2>1, <2>2, <2>3, BooksKeep
<1>5. ASSUME NEW signal, DispatchSignal(signal) PROVE BookInv'
  <2>1. PICK outcome \in execute(book, current, signal, Candle(current).close) :
          Books(outcome, "mark")
    BY <1>5 DEF DispatchSignal
  <2>2. session.mode = "backtest" => Sound(outcome)
    BY <2>1, ExecuteKeeps DEF BookInv
  <2>3. UNCHANGED <<session, snapshot>>
    BY <1>5 DEF DispatchSignal
  <2> QED
    BY <2>1, <2>2, <2>3, BooksKeep
<1>6. CASE MarkToMarket
  <2> DEFINE marked == updatePnL(book, current, Candle(current).close)
  <2>1. book' = book \/ (HasValue(marked) /\ book' = ValueOf(marked))
    BY <1>6 DEF MarkToMarket
  <2>2. Shaped(book) => Shaped(book')
    BY <2>1, ValueIn, MarkedKeeps
  <2>3. UNCHANGED <<session, working, snapshot>> /\ stage' # "down"
    BY <1>6 DEF MarkToMarket, Dying
  <2> QED
    BY <2>2, <2>3 DEF BookInv
<1>7. CASE RenameTemporary
  <2>1. session.mode = "backtest" /\ UNCHANGED <<session, book, working>> /\ stage' # "down"
        /\ (snapshot' = Content \/ snapshot' = snapshot)
    BY <1>7 DEF RenameTemporary, CandleInv, CandleTypes, Dying
  <2>2. Shaped(Content.book)
    BY <2>1, RestoredKeeps DEF BookInv, Content
  <2> QED
    BY <2>1, <2>2 DEF BookInv
<1>8. ASSUME NEW mode, NEW resume, NEW unlocked, Start(mode, resume, unlocked) PROVE BookInv'
  <2>1. working = None /\ UNCHANGED <<working, snapshot>> /\ stage' # "down"
    BY <1>8 DEF Start, BookInv
  <2>2. Shaped(book')
    <3>1. CASE resume
      <4>1. HasValue(restoreState(snapshot.book)) /\ Shaped(snapshot.book)
            /\ book' = ValueOf(restoreState(snapshot.book))
        BY <1>8, <3>1 DEF Start, Loadable, validate, BookInv
      <4> QED
        BY <4>1, ValueIn, RestoredKeeps
    <3>2. CASE ~resume
      BY <1>8, <3>2 DEF Start, EmptyBook, Shaped
    <3> QED
      BY <3>1, <3>2
  <2> QED
    BY <2>1, <2>2 DEF BookInv
<1>9. ASSUME NEW request, PlacePendingOrder(request) PROVE BookInv'
  BY <1>9, QueueKeeps DEF BookInv, PlacePendingOrder
<1>10. ASSUME NEW id, CancelPendingOrder(id) PROVE BookInv'
  BY <1>10, QueueKeeps DEF BookInv, CancelPendingOrder
<1>11. CASE ExecuteTrigger
  <2>1. PICK outcome \in execute(book, current, "SELL", Head(events).price) :
          Books(outcome, AfterTriggers)
    BY <1>11 DEF ExecuteTrigger
  <2>2. session.mode = "backtest" => Sound(outcome)
    BY <2>1, ExecuteKeeps DEF BookInv
  <2>3. UNCHANGED <<session, snapshot>> /\ AfterTriggers # "down"
    BY <1>11 DEF ExecuteTrigger, AfterTriggers
  <2> QED
    BY <2>1, <2>2, <2>3, BooksKeep
<1>12. CASE LateFill
  BY <1>12 DEF LateFill, BookInv, HasValue
<1>13. CASE UNCHANGED vars
  BY <1>13 DEF vars, engine, BookInv, Shaped
<1>14. ASSUME NEW s, PassOver(s) PROVE BookInv'
  BY <1>14, <1>1 DEF PassOver, engine
<1>15. CASE WriteTemporary
  BY <1>15, <1>1 DEF WriteTemporary, engine, Dying
<1>16. ASSUME NEW request, PlaceTrigger(request) PROVE BookInv'
  BY <1>16, <1>1 DEF PlaceTrigger
<1>17. ASSUME NEW s, NEW quote, EvaluateTriggers(s, quote) PROVE BookInv'
  BY <1>17, <1>1 DEF EvaluateTriggers, engine
<1> QED
  BY <1>2, <1>3, <1>4, <1>5, <1>6, <1>7, <1>8, <1>9, <1>10, <1>11, <1>12, <1>13, <1>14, <1>15,
     <1>16, <1>17 DEF Next

LEMMA NoEvents ==
  ASSUME events' = <<>>, stage' # "triggers"
  PROVE  EventInv'
<1>1. Len(<<>>) = 0 /\ 1 .. 0 = {} /\ <<>> = [n \in 1 .. 0 |-> <<>>[n]]
  OBVIOUS
<1> QED
  BY <1>1 DEF EventInv, IsList

LEMMA EventStep ==
  ASSUME TableInv(triggers), CandleInv, EventInv, [Next]_vars
  PROVE  EventInv'
<1>1. ASSUME stage \in Stages \ {"triggers", "dying"}, UNCHANGED events, stage' # "triggers"
      PROVE  EventInv'
  BY <1>1, NoEvents DEF EventInv
<1>2. CASE Crash \/ PowerLoss \/ Finish
  BY <1>2, NoEvents DEF Crash, PowerLoss, Finish, Gone
<1>3. ASSUME NEW s, NEW quote, EvaluateTriggers(s, quote) PROVE EventInv'
  <2>1. /\ events' = evaluate(triggers, s, quote) /\ events' # <<>>
        /\ stage' = "triggers" /\ current' = s /\ triggers' = triggers
    BY <1>3 DEF EvaluateTriggers, engine
  <2>2. /\ IsList(events')
        /\ \A n \in 1 .. Len(events') : \E j \in InUse(triggers) :
             triggers.slots[j].symbol = s /\ events'[n].id = triggers.slots[j].id
    BY <2>1, EvaluateFinds
  <2>3. \A i, j \in InUse(triggers) : triggers.slots[i].id = triggers.slots[j].id => i = j
    BY DEF TableInv
  <2>4. \A n \in 1 .. Len(events'), i \in InUse(triggers) :
          triggers.slots[i].id = events'[n].id => triggers.slots[i].symbol = s
    BY <2>2, <2>3
  <2> QED
    BY <2>1, <2>2, <2>4 DEF EventInv
<1>4. CASE ExecuteTrigger
  <2>1. /\ stage = "triggers" /\ events' = Tail(events) /\ current' = current
        /\ stage' \in {AfterTriggers, "dying"}
        /\ triggers' = triggers \/ triggers' = cancel(triggers, Head(events).id)
    BY <1>4, BooksGoOn DEF ExecuteTrigger
  <2>2. IsList(events) /\ events # <<>>
    BY <2>1 DEF EventInv
  <2>3. /\ IsList(events')
        /\ \A n \in 1 .. Len(events') : n + 1 \in 1 .. Len(events) /\ events'[n] = events[n + 1]
        /\ Len(events) = 1 => events' = <<>>
        /\ Len(events) # 1 => events' # <<>>
    BY <2>1, <2>2, TailOf
  <2>4. \A i \in InUse(triggers') : i \in InUse(triggers) /\ triggers'.slots[i] = triggers.slots[i]
    BY <2>1, CancelKeeps
  <2>5. \A n \in 1 .. Len(events'), i \in InUse(triggers') :
          triggers'.slots[i].id = events'[n].id => triggers'.slots[i].symbol = current
    BY <2>3, <2>4 DEF EventInv
  <2>6. /\ stage' = "triggers" => events' # <<>>
        /\ stage' \notin {"triggers", "dying"} => events' = <<>>
    BY <2>1, <2>3 DEF AfterTriggers
  <2> QED
    BY <2>1, <2>3, <2>5, <2>6 DEF EventInv
<1>5. CASE UNCHANGED vars
  BY <1>5 DEF vars, engine, queues, EventInv, InUse
<1>6. ASSUME NEW s, PassOver(s) \/ TakeCandle(s) PROVE EventInv'
  BY <1>6, <1>1 DEF PassOver, TakeCandle, queues, Stages
<1>7. CASE ProcessPendingOrder
  <2>1. stage = "pending" /\ stage' \in {"pending", "dying"}
    BY <1>7, BooksGoOn DEF ProcessPendingOrder
  <2> QED
    BY <1>7, <2>1, <1>1 DEF ProcessPendingOrder, Stages
<1>8. ASSUME NEW signal, DispatchSignal(signal) PROVE EventInv'
  <2>1. stage = "pending" /\ stage' \in {"mark", "dying"}
    BY <1>8, BooksGoOn DEF DispatchSignal
  <2> QED
    BY <1>8, <2>1, <1>1 DEF DispatchSignal, queues, Stages
<1>9. CASE MarkToMarket \/ WriteTemporary \/ RenameTemporary
  BY <1>9, <1>1 DEF MarkToMarket, WriteTemporary, RenameTemporary, Dying, queues, Stages
<1>10. ASSUME NEW mode, NEW resume, NEW unlocked, Start(mode, resume, unlocked) PROVE EventInv'
  BY <1>10, <1>1 DEF Start, queues, Stages
<1>11. ASSUME NEW request, PlacePendingOrder(request) \/ PlaceTrigger(request) PROVE EventInv'
  BY <1>11, <1>1 DEF PlacePendingOrder, PlaceTrigger, queues, Stages
<1>12. ASSUME NEW id, CancelPendingOrder(id) PROVE EventInv'
  BY <1>12, <1>1 DEF CancelPendingOrder, queues, Stages
<1>13. CASE LateFill
  BY <1>13, <1>1 DEF LateFill, queues, Stages
<1> QED
  BY <1>2, <1>3, <1>4, <1>5, <1>6, <1>7, <1>8, <1>9, <1>10, <1>11, <1>12, <1>13 DEF Next

LEMMA TriggerInit == Init => TriggerInv
<1> SUFFICES ASSUME Init PROVE TriggerInv
  OBVIOUS
<1>1. TableInv(triggers)
  BY EmptyTableInv DEF Init
<1>2. Len(<<>>) = 0 /\ 1 .. 0 = {} /\ <<>> = [n \in 1 .. 0 |-> <<>>[n]]
  OBVIOUS
<1>3. EventInv
  BY <1>2 DEF Init, EventInv, IsList
<1>4. BookInv
  BY DEF Init, BookInv, Shaped, EmptyBook, NoFile
<1> QED
  BY <1>1, <1>3, <1>4 DEF TriggerInv

LEMMA TriggerStep ==
  ASSUME CandleInv, TriggerInv, [Next]_vars
  PROVE  TriggerInv'
<1>1. TableInv(triggers')
  BY TableStep DEF TriggerInv
<1>2. EventInv'
  BY EventStep DEF TriggerInv
<1>3. BookInv'
  BY BookStep DEF TriggerInv
<1> QED
  BY <1>1, <1>2, <1>3 DEF TriggerInv, TableInv, Numbers, InUse

(* Whatever is placed, cancelled and triggered, the slot of every order is *)
(* off the free stack, and every other slot is on it                       *)
(* (TriggerOrderManager's m_slots, m_freeSlots and m_activeCount).         *)
THEOREM TableStaysConsistent == Spec => []TableConsistent
<1>1. TriggerInv => TableConsistent
  <2> SUFFICES ASSUME TriggerInv PROVE TableConsistent
    OBVIOUS
  <2>1. triggers.free \in Seq(Slots)
    BY DEF TriggerInv, TableInv
  <2>2. \A i \in Slots : Contains(triggers.free, i)
                         <=> \E n \in DOMAIN triggers.free : triggers.free[n] = i
    BY <2>1, LenProperties DEF Contains
  <2> QED
    BY <2>2 DEF TriggerInv, TableInv, TableConsistent
<1> QED
  BY <1>1, CandleInit, CandleStep, TriggerInit, TriggerStep, PTL DEF Spec

(* ExecutionEngine::processTriggerOrders keeps a protective order that it  *)
(* could not execute.                                                      *)
LEMMA RetainStep ==
  ASSUME CandleInv, TriggerInv, [Next]_vars, NEW i \in InUse(triggers),
         session.mode = "backtest", stage' # "down",
         ~hasOrder(triggers', triggers.slots[i].id)
  PROVE  /\ hasPosition(book, triggers.slots[i].symbol)
         /\ ~hasPosition(book', triggers.slots[i].symbol)
<1> DEFINE id == triggers.slots[i].id
<1>1. triggers' # triggers
  BY DEF hasOrder
<1>2. ASSUME NEW request, PlaceTrigger(request) PROVE FALSE
  <2>1. TableInv(triggers)
    BY DEF TriggerInv
  <2>2. PICK symbol, type, buy, stop, takeProfit :
          triggers' = placeOrder(triggers, symbol, type, buy, stop, takeProfit)
    BY <1>2 DEF PlaceTrigger, placeOco, placeStopLoss
  <2>3. i \in InUse(triggers') /\ triggers'.slots[i] = triggers.slots[i]
    BY <2>1, <2>2, PlaceKeeps
  <2> QED
    BY <2>3 DEF hasOrder
<1>3. ExecuteTrigger
  BY <1>1, <1>2
     DEF Next, vars, engine, PassOver, TakeCandle, ProcessPendingOrder, DispatchSignal,
         MarkToMarket, WriteTemporary, RenameTemporary, Crash, PowerLoss, Finish, Gone, Start,
         PlacePendingOrder, CancelPendingOrder, EvaluateTriggers, LateFill
<1>4. PICK outcome \in execute(book, current, "SELL", Head(events).price) :
        /\ book' = outcome.book
        /\ triggers' = IF outcome.accepted THEN cancel(triggers, Head(events).id) ELSE triggers
  BY <1>3 DEF ExecuteTrigger, Books
<1>5. outcome.accepted /\ triggers' = cancel(triggers, Head(events).id)
  BY <1>1, <1>4
<1>6. id = Head(events).id
  <2>1. InUse(triggers') = {j \in InUse(triggers) : triggers.slots[j].id # Head(events).id}
        /\ \A j \in InUse(triggers') : triggers'.slots[j] = triggers.slots[j]
    BY <1>5, CancelKeeps DEF TriggerInv
  <2> QED
    BY <2>1 DEF hasOrder
<1>7. Head(events) = events[1] /\ 1 \in 1 .. Len(events)
  BY <1>3, TailOf DEF TriggerInv, EventInv, ExecuteTrigger
<1>8. triggers.slots[i].symbol = current
  BY <1>6, <1>7 DEF TriggerInv, EventInv
<1>9. Sold(book, current, outcome)
  BY ExecuteKeeps DEF TriggerInv, BookInv
<1> QED
  BY <1>4, <1>5, <1>8, <1>9 DEF Sold

(* A protective order goes only with the position it protects.             *)
THEOREM TriggersRetained == Spec => TriggerRetained
<1>1. CandleInv /\ TriggerInv /\ [Next]_vars =>
        [\A i \in InUse(triggers) :
           LET order == triggers.slots[i] IN
           session.mode = "backtest" /\ stage' # "down" /\ ~hasOrder(triggers', order.id) =>
             hasPosition(book, order.symbol) /\ ~hasPosition(book', order.symbol)]_vars
  BY RetainStep
<1> QED
  BY <1>1, CandleInit, CandleStep, TriggerInit, TriggerStep, PTL DEF Spec, TriggerRetained

=============================================================================
