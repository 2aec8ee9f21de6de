-------------------------- MODULE CTraderGates_proofs --------------------------
(***************************************************************************)
(* Proofs about the cTrader objects, for any number of guards, any         *)
(* evidence and any bounds.  Each object has an inductive invariant of its *)
(* own; the behaviour of one leaves the others alone.                      *)
(***************************************************************************)
EXTENDS CTraderGates, SequenceTheorems, TLAPS

USE DEF Times, States, Matched

-----------------------------------------------------------------------------
(***************************************************************************)
(* The guard.  A live state value is held by one armed guard, which        *)
(* remembers when it was armed, and has not been matched.                  *)
(***************************************************************************)
IsGuard(guard) ==
  /\ guard = [phase |-> guard.phase, decision |-> guard.decision,
              armedAt |-> guard.armedAt, expiresAt |-> guard.expiresAt,
              state |-> guard.state]
  /\ guard.phase \in {"Unarmed", "Armed", "Terminal"}
  /\ guard.armedAt \in Int /\ guard.expiresAt \in Int /\ guard.state \in Int

GuardTypes ==
  /\ guards = [g \in Guards |-> guards[g]] /\ \A g \in Guards : IsGuard(guards[g])
  /\ issued \in Seq(Int) /\ matched \in Seq(Seq(Int)) /\ Len(matched) = Len(issued)

LiveGuard(guard) ==
  /\ guard.state \in 1 .. Len(issued) /\ Len(matched[guard.state]) = 0
  /\ guard.armedAt = issued[guard.state] /\ guard.expiresAt = guard.armedAt + Lifetime

SameState(guard, other) ==
  guard.phase = "Armed" /\ other.phase = "Armed" /\ guard.state = other.state

GuardInv ==
  /\ GuardTypes
  /\ \A g \in Guards : guards[g].phase = "Armed" => LiveGuard(guards[g])
  /\ \A g \in Guards : guards[g].phase # "Armed" => guards[g].state = 0
  /\ \A g, h \in Guards :
       SameState(guards[g], guards[h]) => g = h
  /\ CorrelationMatchedOnce

(* finish leaves a guard without its state value.                          *)
LEMMA FinishedGuard ==
  ASSUME NEW guard, IsGuard(guard), NEW decision
  PROVE  /\ IsGuard(Finished(guard, decision))
         /\ Finished(guard, decision).phase = "Terminal"
         /\ Finished(guard, decision).state = 0
<1> DEFINE new == Finished(guard, decision)
<1>1. /\ new.phase = "Terminal" /\ new.state = 0
      /\ new.armedAt = guard.armedAt /\ new.expiresAt = guard.expiresAt
  BY DEF IsGuard, Finished
<1>2. new = [phase |-> new.phase, decision |-> new.decision, armedAt |-> new.armedAt,
             expiresAt |-> new.expiresAt, state |-> new.state]
  <2> SUFFICES ASSUME NEW n, n = new
               PROVE  n = [phase |-> n.phase, decision |-> n.decision, armedAt |-> n.armedAt,
                           expiresAt |-> n.expiresAt, state |-> n.state]
    OBVIOUS
  <2> QED
    BY DEF IsGuard, Finished
<1> QED
  BY <1>1, <1>2 DEF IsGuard

(* Another decision changes nothing else.                                  *)
LEMMA DecidedGuard ==
  ASSUME NEW guard, IsGuard(guard), NEW decision,
         NEW new, new = [guard EXCEPT !.decision = decision]
  PROVE  /\ IsGuard(new) /\ new.phase = guard.phase /\ new.state = guard.state
         /\ new.armedAt = guard.armedAt /\ new.expiresAt = guard.expiresAt
BY DEF IsGuard

(* A guard that ends takes nothing from the others.                        *)
LEMMA GuardEnds ==
  ASSUME GuardInv, NEW g \in Guards, NEW new, IsGuard(new),
         new.phase # "Armed", new.state = 0,
         guards' = [guards EXCEPT ![g] = new], UNCHANGED <<issued, matched>>
  PROVE  GuardInv'
<1>1. GuardTypes'
  BY DEF GuardInv, GuardTypes
<1>2. \A h \in Guards : guards'[h] = IF h = g THEN new ELSE guards[h]
  BY DEF GuardInv, GuardTypes
<1>3. \A h \in Guards : guards'[h].phase = "Armed" => LiveGuard(guards[h])' /\ h # g
  BY <1>2 DEF GuardInv, LiveGuard
<1>4. \A h \in Guards : guards'[h].phase # "Armed" => guards'[h].state = 0
  BY <1>2 DEF GuardInv
<1>5. \A h, k \in Guards :
       SameState(guards'[h], guards'[k]) => h = k
  BY <1>2, <1>3 DEF GuardInv, SameState
<1>6. CorrelationMatchedOnce'
  BY DEF GuardInv, CorrelationMatchedOnce
<1> QED
  BY <1>1, <1>3, <1>4, <1>5, <1>6 DEF GuardInv

(* A guard that only remembers another decision is as live as before.      *)
LEMMA GuardRemembers ==
  ASSUME GuardInv, NEW g \in Guards, NEW new, IsGuard(new),
         new.phase = guards[g].phase, new.state = guards[g].state,
         new.armedAt = guards[g].armedAt, new.expiresAt = guards[g].expiresAt,
         guards' = [guards EXCEPT ![g] = new], UNCHANGED <<issued, matched>>
  PROVE  GuardInv'
<1>1. GuardTypes'
  BY DEF GuardInv, GuardTypes
<1>2. \A h \in Guards : /\ guards'[h].phase = guards[h].phase
                        /\ guards'[h].state = guards[h].state
                        /\ guards'[h].armedAt = guards[h].armedAt
                        /\ guards'[h].expiresAt = guards[h].expiresAt
  BY DEF GuardInv, GuardTypes
<1>3. \A h \in Guards : guards'[h].phase = "Armed" => LiveGuard(guards[h])'
  BY <1>2 DEF GuardInv, LiveGuard
<1> QED
  BY <1>1, <1>2, <1>3 DEF GuardInv, SameState, CorrelationMatchedOnce

(* What a fresh state value and a match do to the histories.               *)
LEMMA ArmStep ==
  ASSUME GuardInv, NEW g \in Guards, NEW now \in Times, NEW entropy \in BOOLEAN,
         NEW bound \in BOOLEAN, Arm(g, now, entropy, bound)
  PROVE  GuardInv'
<1> DEFINE new == ArmedWith(guards[g], now, entropy, bound, Len(issued) + 1)
<1>1. IsGuard(guards[g])
  BY DEF GuardInv, GuardTypes
<1>2. now \in Int /\ Lifetime \in Nat /\ Len(issued) \in Nat
  BY GuardAssumption, LenProperties DEF GuardInv, GuardTypes
<1>3. CASE new.phase # "Armed"
  <2>1. UNCHANGED <<issued, matched>> /\ guards' = [guards EXCEPT ![g] = new]
    BY <1>3 DEF Arm
  <2>2. CASE guards[g].phase = "Terminal"
    <3>1. new = [guards[g] EXCEPT !.decision = "AlreadyTerminal"]
      BY <2>2 DEF ArmedWith, Replayed
    <3> HIDE DEF new
    <3> QED
      BY <1>1, <2>1, <3>1, DecidedGuard, GuardRemembers
  <2>3. CASE guards[g].phase # "Terminal"
    <3>1. IsGuard(new) /\ new.phase = "Terminal" /\ new.state = 0
      BY <1>1, <1>3, <2>3, FinishedGuard DEF ArmedWith
    <3> HIDE DEF new
    <3> QED
      BY <2>1, <3>1, GuardEnds
  <2> QED
    BY <2>2, <2>3
<1>4. CASE new.phase = "Armed"
  <2>1. /\ guards' = [guards EXCEPT ![g] = new]
        /\ issued' = Append(issued, now) /\ matched' = Append(matched, <<>>)
    BY <1>4 DEF Arm
  <2>2. new = [phase |-> "Armed", decision |-> "Armed", armedAt |-> now,
               expiresAt |-> now + Lifetime, state |-> Len(issued) + 1]
    <3>1. \A d : Finished(guards[g], d).phase = "Terminal"
      BY <1>1, FinishedGuard
    <3>2. guards[g].phase = "Terminal" => Replayed(guards[g]).phase = "Terminal"
      BY <1>1, DecidedGuard DEF Replayed
    <3> QED
      BY <1>4, <3>1, <3>2 DEF ArmedWith
  <2> HIDE DEF new
  <2>3. IsGuard(new)
    BY <1>2, <2>2 DEF IsGuard
  <2>4. <<>> \in Seq(Int) /\ matched \in Seq(Seq(Int)) /\ issued \in Seq(Int)
    BY DEF GuardInv, GuardTypes
  <2>5. /\ issued' \in Seq(Int) /\ Len(issued') = Len(issued) + 1
        /\ \A n \in 1 .. Len(issued) : issued'[n] = issued[n]
        /\ issued'[Len(issued) + 1] = now
    BY <1>2, <2>1, <2>4, AppendProperties
  <2>6. /\ matched' \in Seq(Seq(Int)) /\ Len(matched') = Len(issued) + 1
        /\ \A n \in 1 .. Len(issued) : matched'[n] = matched[n]
        /\ Len(matched'[Len(issued) + 1]) = 0 /\ DOMAIN matched'[Len(issued) + 1] = {}
    BY <2>1, <2>4, AppendProperties DEF GuardInv, GuardTypes
  <2>7. GuardTypes'
    BY <2>1, <2>3, <2>5, <2>6 DEF GuardInv, GuardTypes
  <2>8. \A h \in Guards : guards'[h] = IF h = g THEN new ELSE guards[h]
    BY <2>1 DEF GuardInv, GuardTypes
  <2>9. LiveGuard(guards[g])'
    <3>1. /\ guards'[g].state = Len(issued) + 1 /\ guards'[g].armedAt = now
          /\ guards'[g].expiresAt = now + Lifetime
      BY <2>2, <2>8
    <3>2. Len(issued) + 1 \in 1 .. Len(issued')
      BY <1>2, <2>5
    <3> QED
      BY <2>5, <2>6, <3>1, <3>2 DEF LiveGuard
  <2>10. \A h \in Guards : h # g /\ guards'[h].phase = "Armed" => LiveGuard(guards[h])'
    <3> SUFFICES ASSUME NEW h \in Guards, h # g, guards'[h].phase = "Armed"
                 PROVE  LiveGuard(guards[h])'
      OBVIOUS
    <3>1. guards'[h] = guards[h] /\ LiveGuard(guards[h])
      BY <2>8 DEF GuardInv
    <3>2. guards[h].state \in 1 .. Len(issued) /\ guards[h].state \in 1 .. Len(issued')
      BY <1>2, <2>5, <3>1 DEF LiveGuard
    <3> QED
      BY <2>5, <2>6, <3>1, <3>2 DEF LiveGuard
  <2>11. \A h \in Guards : h # g /\ guards'[h].phase = "Armed" => guards'[h].state # Len(issued) + 1
    BY <1>2, <2>8 DEF GuardInv, LiveGuard
  <2>12. \A h1, h2 \in Guards :
       SameState(guards'[h1], guards'[h2]) => h1 = h2
    BY <2>2, <2>8, <2>11 DEF GuardInv, SameState
  <2>13. \A h \in Guards : guards'[h].phase # "Armed" => guards'[h].state = 0
    BY <2>2, <2>8 DEF GuardInv
  <2>14. CorrelationMatchedOnce'
    <3>1. \A n \in 1 .. Len(issued) + 1 : n = Len(issued) + 1 \/ n \in 1 .. Len(issued)
      BY <1>2
    <3>2. Len(matched'[Len(issued) + 1]) <= 1
      BY <2>6
    <3> QED
      BY <2>5, <2>6, <3>1, <3>2 DEF GuardInv, CorrelationMatchedOnce
  <2> QED
    BY <2>7, <2>9, <2>10, <2>12, <2>13, <2>14 DEF GuardInv
<1> QED
  BY <1>3, <1>4

(* The first callback uses up the state value: where it matches, no guard  *)
(* holds that value any more.                                              *)
LEMMA ConsumeStep ==
  ASSUME GuardInv, NEW g \in Guards, NEW request, NEW now \in Times,
         Consume(g, request, now)
  PROVE  GuardInv'
<1> DEFINE guard == guards[g]
           new == Consumed(guard, request, now)
<1>1. IsGuard(guard) /\ guards' = [guards EXCEPT ![g] = new] /\ UNCHANGED issued
  BY DEF GuardInv, GuardTypes, Consume
<1>2. CASE guard.phase = "Terminal"
  <2>1. new = [guard EXCEPT !.decision = "AlreadyTerminal"] /\ UNCHANGED <<issued, matched>>
    BY <1>1, <1>2 DEF Consume, Consumed, Replayed
  <2> HIDE DEF new
  <2> QED
    BY <1>1, <2>1, DecidedGuard, GuardRemembers
<1>3. ASSUME guard.phase # "Terminal"
      PROVE  IsGuard(new) /\ new.phase = "Terminal" /\ new.state = 0
  BY <1>1, <1>3, FinishedGuard DEF Consumed
<1>4. CASE guard.phase # "Terminal" /\ matched' = matched
  <2> HIDE DEF new
  <2> QED
    BY <1>1, <1>3, <1>4, GuardEnds
<1>5. CASE guard.phase # "Terminal" /\ matched' # matched
  <2> DEFINE n == guard.state
  <2>1. /\ guard.phase = "Armed" /\ Verdict(guard, request, now) = Matched
        /\ matched' = [matched EXCEPT ![n] = Append(@, now)]
    BY <1>5 DEF Consume
  <2>2. LiveGuard(guard) /\ n \in 1 .. Len(issued) /\ Len(matched[n]) = 0
    BY <2>1 DEF GuardInv, LiveGuard
  <2>3. now \in guard.armedAt .. guard.expiresAt - 1
    <3>1. ~(now < guard.armedAt) /\ ~(now >= guard.expiresAt)
      BY <2>1 DEF Verdict
    <3> QED
      BY <1>1, <3>1, GuardAssumption DEF IsGuard
  <2>4. now \in issued[n] .. issued[n] + Lifetime - 1
    <3>1. guard.armedAt = issued[n] /\ guard.expiresAt = guard.armedAt + Lifetime
      BY <2>2 DEF LiveGuard
    <3>2. guard.expiresAt - 1 = issued[n] + Lifetime - 1
      BY <1>1, <3>1, GuardAssumption DEF IsGuard
    <3> QED
      BY <2>3, <3>1, <3>2
  <2>5. now \in Int /\ matched \in Seq(Seq(Int)) /\ DOMAIN matched = 1 .. Len(issued)
    BY GuardAssumption, LenProperties DEF GuardInv, GuardTypes
  <2>6. matched[n] \in Seq(Int)
    BY <2>2, <2>5, ElementOfSeq
  <2>7. /\ Append(matched[n], now) \in Seq(Int) /\ Len(Append(matched[n], now)) = 1
        /\ DOMAIN Append(matched[n], now) = {1} /\ Append(matched[n], now)[1] = now
    <3>1. DOMAIN Append(matched[n], now) = 1 .. 1
      BY <2>2, <2>5, <2>6, AppendProperties, LenProperties
    <3> QED
      BY <2>2, <2>5, <2>6, <3>1, AppendProperties
  <2>8. /\ DOMAIN matched' = 1 .. Len(issued)
        /\ matched'[n] = Append(matched[n], now)
        /\ \A k \in 1 .. Len(issued) : k # n => matched'[k] = matched[k]
    BY <2>1, <2>2, <2>5
  <2>9. matched' \in Seq(Seq(Int)) /\ Len(matched') = Len(issued)
    <3>1. matched' \in Seq(Seq(Int)) /\ Len(matched') = Len(matched)
      BY <2>1, <2>2, <2>5, <2>7, ExceptSeq
    <3> QED
      BY <3>1 DEF GuardInv, GuardTypes
  <2>10. \A h \in Guards : guards'[h] = IF h = g THEN new ELSE guards[h]
    BY <1>1 DEF GuardInv, GuardTypes
  <2>11. GuardTypes'
    BY <1>1, <1>3, <1>5, <2>9 DEF GuardInv, GuardTypes
  <2>12. \A h \in Guards : guards'[h].phase = "Armed" => h # g /\ LiveGuard(guards[h])'
    <3> SUFFICES ASSUME NEW h \in Guards, guards'[h].phase = "Armed"
                 PROVE  h # g /\ LiveGuard(guards[h])'
      OBVIOUS
    <3>1. h # g /\ guards'[h] = guards[h]
      BY <1>3, <1>5, <2>10
    <3>2. LiveGuard(guards[h]) /\ guards[h].state # n
      BY <2>1, <3>1 DEF GuardInv, SameState
    <3> QED
      BY <1>1, <2>8, <3>1, <3>2 DEF LiveGuard
  <2>13. \A h \in Guards : guards'[h].phase # "Armed" => guards'[h].state = 0
    BY <1>3, <1>5, <2>10 DEF GuardInv
  <2>14. \A h, k \in Guards : SameState(guards'[h], guards'[k]) => h = k
    BY <2>10, <2>12 DEF GuardInv, SameState
  <2>15. CorrelationMatchedOnce'
    <3>1. UNCHANGED issued
      BY <1>1
    <3>2. CorrelationMatchedOnce
      BY DEF GuardInv
    <3>3. Len(matched'[n]) = 1 /\ DOMAIN matched'[n] = {1} /\ matched'[n][1] = now
      BY <2>7, <2>8
    <3>4. Len(matched'[n]) <= 1
      BY <3>3
    <3>5. \A i \in DOMAIN matched'[n] :
            matched'[n][i] \in issued[n] .. issued[n] + Lifetime - 1
      <4>1. \A i \in DOMAIN matched'[n] : matched'[n][i] = now
        BY <3>3
      <4> DEFINE window == issued[n] .. issued[n] + Lifetime - 1
      <4>2. now \in window
        BY <2>4
      <4> HIDE DEF window
      <4>3. \A i \in DOMAIN matched'[n] : matched'[n][i] \in window
        BY <4>1, <4>2
      <4> QED
        BY <4>3 DEF window
    <3>6. ASSUME NEW k \in 1 .. Len(issued), k # n
          PROVE  /\ Len(matched'[k]) <= 1
                 /\ \A i \in DOMAIN matched'[k] :
                      matched'[k][i] \in issued[k] .. issued[k] + Lifetime - 1
      <4>1. matched'[k] = matched[k]
        BY <2>8, <3>6
      <4>2. /\ Len(matched[k]) <= 1
            /\ \A i \in DOMAIN matched[k] :
                 matched[k][i] \in issued[k] .. issued[k] + Lifetime - 1
        BY <3>2 DEF CorrelationMatchedOnce
      <4>3. QED
        BY <4>1, <4>2
    <3>7. QED
      BY <3>1, <3>4, <3>5, <3>6 DEF CorrelationMatchedOnce
  <2> QED
    BY <2>11, <2>12, <2>13, <2>14, <2>15 DEF GuardInv
<1> QED
  BY <1>2, <1>4, <1>5

(* A move takes the state value along and leaves the source without it.    *)
LEMMA MoveStep ==
  ASSUME GuardInv, NEW g \in Guards, NEW h \in Guards, Move(g, h)
  PROVE  GuardInv'
<1> DEFINE left == Finished(guards[g], "AlreadyTerminal")
<1>1. IsGuard(left) /\ left.phase = "Terminal" /\ left.state = 0
  BY FinishedGuard DEF GuardInv, GuardTypes
<1>2. g # h /\ guards' = [[guards EXCEPT ![h] = guards[g]] EXCEPT ![g] = left]
  BY DEF Move
<1>3. UNCHANGED <<issued, matched>>
  BY DEF Move
<1> HIDE DEF left
<1>4. \A k \in Guards :
        guards'[k] = IF k = g THEN left ELSE IF k = h THEN guards[g] ELSE guards[k]
  BY <1>2 DEF GuardInv, GuardTypes
<1>5. GuardTypes'
  BY <1>1, <1>2, <1>3, <1>4 DEF GuardInv, GuardTypes
<1>6. \A k \in Guards : guards'[k].phase = "Armed" =>
        k # g /\ LiveGuard(guards[k])'
  BY <1>1, <1>3, <1>4 DEF GuardInv, LiveGuard
<1>7. \A k \in Guards : guards'[k].phase # "Armed" => guards'[k].state = 0
  BY <1>1, <1>4 DEF GuardInv
<1>8. \A k1, k2 \in Guards : SameState(guards'[k1], guards'[k2]) => k1 = k2
  <2> SUFFICES ASSUME NEW k1 \in Guards, NEW k2 \in Guards, SameState(guards'[k1], guards'[k2])
               PROVE  k1 = k2
    OBVIOUS
  <2>1. k1 # g /\ k2 # g
    BY <1>6 DEF SameState
  <2>2. /\ SameState(guards'[k1], guards'[k2])
        /\ guards'[k1] = guards[IF k1 = h THEN g ELSE k1]
        /\ guards'[k2] = guards[IF k2 = h THEN g ELSE k2]
    BY <1>4, <2>1
  <2>3. (IF k1 = h THEN g ELSE k1) = (IF k2 = h THEN g ELSE k2)
    BY <2>2 DEF GuardInv
  <2> QED
    BY <2>1, <2>3
<1>9. CorrelationMatchedOnce'
  BY <1>3 DEF GuardInv, CorrelationMatchedOnce
<1> QED
  BY <1>5, <1>6, <1>7, <1>8, <1>9 DEF GuardInv

LEMMA GuardInitial ==
  ASSUME GuardInit
  PROVE  GuardInv
<1>1. issued = <<>> /\ matched = <<>> /\ Len(issued) = 0 /\ Len(matched) = 0
  BY DEF GuardInit
<1>2. GuardTypes
  BY <1>1 DEF GuardInit, GuardTypes, IsGuard, Unarmed
<1> QED
  BY <1>1, <1>2 DEF GuardInit, GuardInv, Unarmed, SameState, CorrelationMatchedOnce

LEMMA GuardInvariance ==
  ASSUME GuardInv, GuardNext \/ UNCHANGED guardVars
  PROVE  GuardInv'
<1>1. CASE UNCHANGED guardVars
  BY <1>1 DEF guardVars, GuardInv, GuardTypes, LiveGuard, CorrelationMatchedOnce
<1>2. CASE GuardNext
  <2>1. PICK g \in Guards :
          \/ \E now \in Times, entropy, bound \in BOOLEAN : Arm(g, now, entropy, bound)
          \/ \E request \in Callbacks, now \in Times : Consume(g, request, now)
          \/ \E now \in Times : ExpireIfDue(g, now)
          \/ Cancel(g)
          \/ \E h \in Guards : Move(g, h)
    BY <1>2 DEF GuardNext
  <2>2. IsGuard(guards[g])
    BY DEF GuardInv, GuardTypes
  <2>3. ASSUME NEW new, guards' = [guards EXCEPT ![g] = new], UNCHANGED <<issued, matched>>,
               \/ \E d : new = Finished(guards[g], d)
               \/ \E d : new = [guards[g] EXCEPT !.decision = d]
        PROVE  GuardInv'
    <3>1. CASE \E d : new = Finished(guards[g], d)
      BY <2>2, <2>3, <3>1, FinishedGuard, GuardEnds
    <3>2. CASE \E d : new = [guards[g] EXCEPT !.decision = d]
      BY <2>2, <2>3, <3>2, DecidedGuard, GuardRemembers
    <3> QED
      BY <2>3, <3>1, <3>2
  <2>4. CASE \E now \in Times, entropy, bound \in BOOLEAN : Arm(g, now, entropy, bound)
    BY <2>4, ArmStep
  <2>5. CASE \E request \in Callbacks, now \in Times : Consume(g, request, now)
    BY <2>5, ConsumeStep
  <2>6. CASE \E now \in Times : ExpireIfDue(g, now)
    <3>1. PICK now \in Times : ExpireIfDue(g, now)
      BY <2>6
    <3> DEFINE new == Expired(guards[g], now)
    <3>2. /\ guards' = [guards EXCEPT ![g] = new] /\ UNCHANGED <<issued, matched>>
      BY <3>1 DEF ExpireIfDue
    <3>3. \/ \E d : new = Finished(guards[g], d)
          \/ \E d : new = [guards[g] EXCEPT !.decision = d]
      BY DEF Expired, Replayed
    <3> HIDE DEF new
    <3> QED
      BY <2>3, <3>2, <3>3
  <2>7. CASE Cancel(g)
    <3> DEFINE new == IF guards[g].phase = "Terminal" THEN Replayed(guards[g])
                      ELSE Finished(guards[g], "Cancelled")
    <3>1. /\ guards' = [guards EXCEPT ![g] = new] /\ UNCHANGED <<issued, matched>>
      BY <2>7 DEF Cancel
    <3>2. \/ \E d : new = Finished(guards[g], d)
          \/ \E d : new = [guards[g] EXCEPT !.decision = d]
      BY DEF Replayed
    <3> HIDE DEF new
    <3> QED
      BY <2>3, <3>1, <3>2
  <2>8. CASE \E h \in Guards : Move(g, h)
    BY <2>8, MoveStep
  <2> QED
    BY <2>1, <2>4, <2>5, <2>6, <2>7, <2>8
<1> QED
  BY <1>1, <1>2


-----------------------------------------------------------------------------
(***************************************************************************)
(* The account proof.  What each phase has established about the lists and *)
(* the operator's choice.                                                  *)
(***************************************************************************)
IsProof6(proof) ==
  proof = [phase |-> proof.phase, decision |-> proof.decision,
           candidates |-> proof.candidates, title |-> proof.title,
           account |-> proof.account]

Blank6(proof) == proof.candidates = {} /\ proof.title = "" /\ proof.account = 0

Titled(list, title) == {i \in DOMAIN list : list[i].live = "no" /\ list[i].title = title}

OneShown(title) ==
  title # "absent" /\ \E i \in DOMAIN shown : Titled(shown, title) = {i}

OneListed(title, account) ==
  \E i \in DOMAIN listed : Titled(listed, title) = {i} /\ listed[i].id = account

Gate6Inv ==
  /\ IsProof6(gate6)
  /\ confirmed = [title |-> confirmed.title, account |-> confirmed.account]
  /\ Ended6(gate6) => Blank6(gate6)
  /\ gate6.phase = "AwaitingWade" => \A title \in gate6.candidates : OneShown(title)
  /\ gate6.phase \in {"Gate6BReady", "AccountAuthReady"} =>
       gate6.title = confirmed.title /\ OneShown(confirmed.title)
  /\ gate6.phase = "AccountAuthReady" => OneListed(confirmed.title, gate6.account)
  /\ gate6.phase = "Complete" =>
       OneShown(confirmed.title) /\ OneListed(confirmed.title, confirmed.account)

LEMMA FinishedProof6 ==
  ASSUME NEW proof, IsProof6(proof), NEW decision
  PROVE  /\ IsProof6(Finished6(proof, decision)) /\ Blank6(Finished6(proof, decision))
         /\ Finished6(proof, decision).phase = "Terminal"
<1> SUFFICES ASSUME NEW n, n = Finished6(proof, decision)
             PROVE  IsProof6(n) /\ Blank6(n) /\ n.phase = "Terminal"
  OBVIOUS
<1> QED
  BY DEF IsProof6, Finished6, Cleared6, Blank6

LEMMA ReplayedProof6 ==
  ASSUME NEW proof, IsProof6(proof)
  PROVE  /\ IsProof6(Replayed6(proof)) /\ Replayed6(proof).phase = proof.phase
         /\ Blank6(proof) => Blank6(Replayed6(proof))
<1> SUFFICES ASSUME NEW n, n = Replayed6(proof)
             PROVE  IsProof6(n) /\ n.phase = proof.phase /\ (Blank6(proof) => Blank6(n))
  OBVIOUS
<1> QED
  BY DEF IsProof6, Replayed6, Blank6

(* A call that ends the proof, or finds it ended, asks nothing of the      *)
(* lists.                                                                  *)
LEMMA Ends6 ==
  ASSUME Gate6Inv, NEW decision, gate6' = Finished6(gate6, decision), UNCHANGED confirmed
  PROVE  Gate6Inv'
BY FinishedProof6 DEF Gate6Inv, Ended6

LEMMA Again6 ==
  ASSUME Gate6Inv, Ended6(gate6), gate6' = Replayed6(gate6),
         UNCHANGED <<shown, listed, confirmed>>
  PROVE  Gate6Inv'
BY ReplayedProof6 DEF Gate6Inv, Ended6, OneShown, OneListed

(* Only demo accounts without a twin become candidates.                    *)
LEMMA CandidatesAreSingle ==
  ASSUME NEW list, ~Ambiguous(list, Eligible(list)), NEW i \in Eligible(list)
  PROVE  Titled(list, list[i].title) = {i} /\ list[i].title # "absent" /\ i \in DOMAIN list
BY DEF Ambiguous, Eligible, Demo, Titled

LEMMA WantedIsSingle ==
  ASSUME NEW list \in AccountLists, NEW title, title # "absent",
         NEW wanted, wanted = {i \in Eligible(list) : list[i].title = title},
         wanted # {}, ~Ambiguous(list, wanted)
  PROVE  First(wanted) \in DOMAIN list /\ Titled(list, title) = {First(wanted)}
<1>1. PICK i \in wanted : wanted = {i}
  BY DEF Ambiguous
<1>2. i \in DOMAIN list /\ i \in Int
  <2>1. DOMAIN list = 1 .. Len(list) /\ Len(list) \in Nat
    BY Gate6Assumption, LenProperties
  <2> QED
    BY <1>1, <2>1 DEF Eligible
<1>3. First(wanted) = i
  BY <1>1, <1>2 DEF First
<1> QED
  BY <1>1, <1>2, <1>3 DEF Eligible, Demo, Titled


LEMMA Gate6AStep ==
  ASSUME Gate6Inv, NEW doubts, NEW list, AcceptGate6A(doubts, list)
  PROVE  Gate6Inv'
<1> DEFINE found == Eligible(list)
           next == [Cleared6(gate6) EXCEPT !.phase = "AwaitingWade",
                                           !.candidates = {list[i].title : i \in found},
                                           !.decision = "AwaitingWadeCheckpoint"]
<1>1. \/ Ended6(gate6) /\ gate6' = Replayed6(gate6)
      \/ \E d : gate6' = Finished6(gate6, d)
      \/ ~Ambiguous(list, found) /\ gate6' = next
  BY DEF AcceptGate6A, OrExhausted6, acceptGate6A, Ended6
<1>2. UNCHANGED <<listed, confirmed>>
  BY DEF AcceptGate6A
<1>3. CASE Ended6(gate6) /\ gate6' = Replayed6(gate6)
  <2>1. gate6'.phase # "AwaitingWade"
    BY <1>3, ReplayedProof6 DEF Gate6Inv, Ended6
  <2> QED
    BY <1>2, <1>3, <2>1, Again6 DEF AcceptGate6A
<1>4. CASE \E d : gate6' = Finished6(gate6, d)
  BY <1>2, <1>4, Ends6
<1>5. CASE ~Ambiguous(list, found) /\ gate6' = next
  <2>1. /\ IsProof6(gate6)' /\ gate6'.phase = "AwaitingWade"
        /\ gate6'.candidates = {list[i].title : i \in found}
    BY <1>5 DEF Gate6Inv, IsProof6, Cleared6
  <2>2. shown' = list
    BY <2>1 DEF AcceptGate6A
  <2>3. \A title \in gate6'.candidates : OneShown(title)'
    <3> SUFFICES ASSUME NEW i \in found PROVE OneShown(list[i].title)'
      BY <2>1
    <3> QED
      BY <1>5, <2>2, CandidatesAreSingle DEF OneShown
  <2> QED
    BY <1>2, <2>1, <2>3 DEF Gate6Inv, Ended6
<1> QED
  BY <1>1, <1>3, <1>4, <1>5

LEMMA ConfirmStep ==
  ASSUME Gate6Inv, NEW title, ConfirmWadeSelection(title)
  PROVE  Gate6Inv'
<1> DEFINE next == [Cleared6(gate6) EXCEPT !.phase = "Gate6BReady", !.title = title,
                                           !.decision = "ReadyForGate6B"]
<1>1. \/ Ended6(gate6) /\ gate6' = Replayed6(gate6)
      \/ \E d : gate6' = Finished6(gate6, d)
      \/ gate6.phase = "AwaitingWade" /\ title \in gate6.candidates /\ gate6' = next
  BY DEF ConfirmWadeSelection, OrExhausted6, confirmWadeSelection
<1>2. UNCHANGED <<shown, listed>>
  BY DEF ConfirmWadeSelection
<1>3. CASE Ended6(gate6) /\ gate6' = Replayed6(gate6)
  <2>1. gate6'.phase # "Gate6BReady"
    BY <1>3, ReplayedProof6 DEF Gate6Inv, Ended6
  <2> QED
    BY <1>2, <1>3, <2>1, Again6 DEF ConfirmWadeSelection
<1>4. CASE \E d : gate6' = Finished6(gate6, d)
  <2>1. gate6'.phase # "Gate6BReady"
    BY <1>4, FinishedProof6 DEF Gate6Inv
  <2> QED
    BY <1>4, <2>1, Ends6 DEF ConfirmWadeSelection
<1>5. CASE gate6.phase = "AwaitingWade" /\ title \in gate6.candidates /\ gate6' = next
  <2>1. IsProof6(gate6)' /\ gate6'.phase = "Gate6BReady" /\ gate6'.title = title
    BY <1>5 DEF Gate6Inv, IsProof6, Cleared6
  <2>2. confirmed' = [confirmed EXCEPT !.title = title]
    BY <2>1 DEF ConfirmWadeSelection
  <2>3. /\ confirmed'.title = title
        /\ confirmed' = [title |-> confirmed'.title, account |-> confirmed'.account]
    BY <2>2 DEF Gate6Inv
  <2>4. OneShown(title) /\ OneShown(title)'
    BY <1>2, <1>5 DEF Gate6Inv, OneShown
  <2>5. OneShown(confirmed.title)'
    BY <2>3, <2>4 DEF OneShown
  <2> QED
    BY <2>1, <2>3, <2>5 DEF Gate6Inv, Ended6
<1> QED
  BY <1>1, <1>3, <1>4, <1>5

LEMMA Gate6BStep ==
  ASSUME Gate6Inv, NEW doubts, NEW list \in AccountLists, AcceptGate6B(doubts, list)
  PROVE  Gate6Inv'
<1> DEFINE wanted == {i \in Eligible(list) : list[i].title = gate6.title}
           next == [gate6 EXCEPT !.phase = "AccountAuthReady",
                                 !.account = list[First(wanted)].id,
                                 !.decision = "ReadyForAccountAuthentication"]
<1>1. \/ Ended6(gate6) /\ gate6' = Replayed6(gate6)
      \/ \E d : gate6' = Finished6(gate6, d)
      \/ /\ gate6.phase = "Gate6BReady" /\ wanted # {} /\ ~Ambiguous(list, wanted)
         /\ gate6' = next
  BY DEF AcceptGate6B, acceptGate6B
<1>2. UNCHANGED <<shown, confirmed>>
  BY DEF AcceptGate6B
<1>3. CASE Ended6(gate6) /\ gate6' = Replayed6(gate6)
  <2>1. gate6'.phase # "AccountAuthReady"
    BY <1>3, ReplayedProof6 DEF Gate6Inv, Ended6
  <2> QED
    BY <1>2, <1>3, <2>1, Again6 DEF AcceptGate6B
<1>4. CASE \E d : gate6' = Finished6(gate6, d)
  BY <1>2, <1>4, Ends6
<1>5. CASE /\ gate6.phase = "Gate6BReady" /\ wanted # {} /\ ~Ambiguous(list, wanted)
           /\ gate6' = next
  <2>1. /\ IsProof6(gate6)' /\ gate6'.phase = "AccountAuthReady"
        /\ gate6'.title = gate6.title /\ gate6'.account = list[First(wanted)].id
    <3> HIDE DEF wanted
    <3> QED
      BY <1>5 DEF Gate6Inv, IsProof6
  <2>2. listed' = list
    BY <2>1 DEF AcceptGate6B
  <2>3. gate6.title = confirmed.title /\ OneShown(confirmed.title) /\ gate6.title # "absent"
    BY <1>5 DEF Gate6Inv, OneShown
  <2>4. First(wanted) \in DOMAIN list /\ Titled(list, gate6.title) = {First(wanted)}
    BY <1>5, <2>3, WantedIsSingle
  <2>5. OneListed(confirmed.title, gate6.account)'
    <3> HIDE DEF wanted
    <3> QED
      BY <1>2, <2>1, <2>2, <2>3, <2>4 DEF OneListed
  <2>6. OneShown(confirmed.title)'
    BY <1>2, <2>3 DEF OneShown
  <2>7. (confirmed = [title |-> confirmed.title, account |-> confirmed.account])'
    BY <1>2 DEF Gate6Inv
  <2> QED
    BY <1>2, <2>1, <2>3, <2>5, <2>6, <2>7 DEF Gate6Inv, Ended6
<1> QED
  BY <1>1, <1>3, <1>4, <1>5

LEMMA Authentication6Step ==
  ASSUME Gate6Inv, NEW id, AcceptAccountAuthentication6(id)
  PROVE  Gate6Inv'
<1> DEFINE next == [Cleared6(gate6) EXCEPT !.phase = "Complete",
                                           !.decision = "AccountProofSucceeded"]
<1>1. \/ Ended6(gate6) /\ gate6' = Replayed6(gate6)
      \/ \E d : gate6' = Finished6(gate6, d)
      \/ gate6.phase = "AccountAuthReady" /\ id = gate6.account /\ gate6' = next
  BY DEF AcceptAccountAuthentication6, acceptAccountAuthentication6
<1>2. UNCHANGED <<shown, listed>>
  BY DEF AcceptAccountAuthentication6
<1>3. CASE Ended6(gate6) /\ gate6' = Replayed6(gate6)
  <2>1. gate6'.phase = gate6.phase
    BY <1>3, ReplayedProof6 DEF Gate6Inv
  <2> QED
    BY <1>2, <1>3, <2>1, Again6 DEF AcceptAccountAuthentication6
<1>4. CASE \E d : gate6' = Finished6(gate6, d)
  <2>1. gate6'.phase # "Complete"
    BY <1>4, FinishedProof6 DEF Gate6Inv
  <2> QED
    BY <1>4, <2>1, Ends6 DEF AcceptAccountAuthentication6
<1>5. CASE gate6.phase = "AccountAuthReady" /\ id = gate6.account /\ gate6' = next
  <2>1. IsProof6(gate6)' /\ gate6'.phase = "Complete" /\ Blank6(gate6)'
    BY <1>5 DEF Gate6Inv, IsProof6, Cleared6, Blank6
  <2>2. confirmed' = [confirmed EXCEPT !.account = id]
    BY <1>5, <2>1 DEF AcceptAccountAuthentication6
  <2>3. /\ confirmed'.title = confirmed.title /\ confirmed'.account = gate6.account
        /\ confirmed' = [title |-> confirmed'.title, account |-> confirmed'.account]
    BY <1>5, <2>2 DEF Gate6Inv
  <2>4. OneShown(confirmed.title) /\ OneListed(confirmed.title, gate6.account)
    BY <1>5 DEF Gate6Inv
  <2>5. OneShown(confirmed.title)' /\ OneListed(confirmed.title, confirmed.account)'
    BY <1>2, <2>3, <2>4 DEF OneShown, OneListed
  <2> QED
    BY <2>1, <2>3, <2>5 DEF Gate6Inv
<1> QED
  BY <1>1, <1>3, <1>4, <1>5

LEMMA Gate6Initial ==
  ASSUME Gate6Init
  PROVE  Gate6Inv
BY DEF Gate6Init, Gate6Inv, IsProof6, Ended6

LEMMA Gate6Invariance ==
  ASSUME Gate6Inv, Gate6Next \/ UNCHANGED gate6Vars
  PROVE  Gate6Inv'
<1>1. CASE UNCHANGED gate6Vars
  BY <1>1 DEF gate6Vars, Gate6Inv, OneShown, OneListed
<1>2. CASE Cancel6
  <2>1. UNCHANGED <<shown, listed, confirmed>>
    BY <1>2 DEF Cancel6
  <2> QED
    BY <1>2, <2>1, Ends6, Again6 DEF Cancel6, cancel6
<1> QED
  BY <1>1, <1>2, Gate6AStep, ConfirmStep, Gate6BStep, Authentication6Step DEF Gate6Next


-----------------------------------------------------------------------------
(***************************************************************************)
(* The quote proof.  What each accepted answer establishes about the       *)
(* account and the symbol the proof works with.                            *)
(***************************************************************************)
IsProof7(proof) ==
  proof = [generation |-> proof.generation, phase |-> proof.phase,
           decision |-> proof.decision, account |-> proof.account,
           symbol |-> proof.symbol, name |-> proof.name,
           instrument |-> proof.instrument, subscribed |-> proof.subscribed,
           quote |-> proof.quote]

Blank7(proof) ==
  /\ proof.account = 0 /\ proof.symbol = 0 /\ proof.name = {} /\ proof.instrument = {}
  /\ proof.subscribed = FALSE

Vouched(phase) ==
  accepted[phase].link.generation = Generation /\ accepted[phase].link.current

ListAccepted(account) ==
  LET answer == accepted["AccountList"].answer IN
  /\ Vouched("AccountList")
  /\ \E i \in FiboAccounts(answer) : /\ FiboAccounts(answer) = {i}
                                     /\ answer.accounts[i].id = {account}

SymbolsAccepted(account, symbol) ==
  LET answer == accepted["SymbolsList"].answer IN
  /\ Vouched("SymbolsList") /\ answer.account = account
  /\ \E i \in GoldSymbols(answer) : /\ GoldSymbols(answer) = {i}
                                    /\ answer.symbols[i].id = {symbol}

FullAccepted(account, symbol) ==
  LET answer == accepted["FullSymbol"].answer IN
  Vouched("FullSymbol") /\ answer.account = account /\ symbol \notin answer.archivedIds

SubscriptionAccepted(account, symbol) ==
  LET answer == accepted["Subscription"].answer IN
  Vouched("Subscription") /\ answer.account = account /\ answer.symbol = symbol

SpotAccepted(account, symbol) ==
  LET spot == accepted["Spot"].answer IN
  /\ Vouched("Spot") /\ spot.account = account /\ spot.symbol = symbol
  /\ spot.timestamp # {}
  /\ \A t \in spot.timestamp :
       Cardinality({i \in Readings(t) : Fresh(t * Multipliers[i], spot.receipt)}) = 1

Past1(account) ==
  DOMAIN accepted = {"AccountList"} /\ ListAccepted(account)

Past2(account) ==
  /\ DOMAIN accepted = {"AccountList", "AccountAuthentication"}
  /\ ListAccepted(account) /\ accepted["AccountAuthentication"] = account

Past3(account, symbol) ==
  /\ DOMAIN accepted = {"AccountList", "AccountAuthentication", "SymbolsList"}
  /\ ListAccepted(account) /\ accepted["AccountAuthentication"] = account
  /\ SymbolsAccepted(account, symbol)

Past4(account, symbol) ==
  /\ DOMAIN accepted = {"AccountList", "AccountAuthentication", "SymbolsList", "FullSymbol"}
  /\ ListAccepted(account) /\ accepted["AccountAuthentication"] = account
  /\ SymbolsAccepted(account, symbol) /\ FullAccepted(account, symbol)

Past5(account, symbol) ==
  /\ DOMAIN accepted = {"AccountList", "AccountAuthentication", "SymbolsList", "FullSymbol",
                        "Subscription"}
  /\ ListAccepted(account) /\ accepted["AccountAuthentication"] = account
  /\ SymbolsAccepted(account, symbol) /\ FullAccepted(account, symbol)
  /\ SubscriptionAccepted(account, symbol)

Past6(account, symbol) ==
  /\ DOMAIN accepted = {"AccountList", "AccountAuthentication", "SymbolsList", "FullSymbol",
                        "Subscription", "Spot"}
  /\ ListAccepted(account) /\ accepted["AccountAuthentication"] = account
  /\ SymbolsAccepted(account, symbol) /\ FullAccepted(account, symbol)
  /\ SubscriptionAccepted(account, symbol) /\ SpotAccepted(account, symbol)

Gate7Inv ==
  /\ IsProof7(gate7)
  /\ Ended7(gate7) => Blank7(gate7)
  /\ ~Ended7(gate7) => gate7.generation = Generation
  /\ gate7.phase # "Complete" => gate7.quote = {}
  /\ gate7.phase = "Terminal" => gate7.generation = 0
  /\ \A quote \in gate7.quote : quote.bid <= quote.ask /\ quote.spread >= 0
  /\ gate7.phase = "AccountList" => DOMAIN accepted = {}
  /\ gate7.phase = "AccountAuthentication" => Past1(gate7.account)
  /\ gate7.phase = "SymbolsList" => Past2(gate7.account)
  /\ gate7.phase = "FullSymbol" => Past3(gate7.account, gate7.symbol)
  /\ gate7.phase = "Subscription" => Past4(gate7.account, gate7.symbol)
  /\ gate7.phase = "Spot" => Past5(gate7.account, gate7.symbol)
  /\ gate7.phase = "Complete" => \E account, symbol : Past6(account, symbol)

LEMMA FinishedProof7 ==
  ASSUME NEW proof, IsProof7(proof), NEW decision
  PROVE  /\ IsProof7(Finished7(proof, decision)) /\ Blank7(Finished7(proof, decision))
         /\ Finished7(proof, decision).phase = "Terminal"
         /\ Finished7(proof, decision).quote = {}
         /\ Finished7(proof, decision).generation = 0
<1> SUFFICES ASSUME NEW n, n = Finished7(proof, decision)
             PROVE  /\ IsProof7(n) /\ Blank7(n) /\ n.phase = "Terminal"
                    /\ n.quote = {} /\ n.generation = 0
  OBVIOUS
<1> QED
  BY DEF IsProof7, Finished7, Wiped, Blank7

LEMMA Ends7 ==
  ASSUME Gate7Inv, NEW decision, gate7' = Finished7(gate7, decision)
  PROVE  Gate7Inv'
BY FinishedProof7 DEF Gate7Inv, Ended7

(* A call that leaves all but the decision alone.                          *)
LEMMA Stays7 ==
  ASSUME Gate7Inv, UNCHANGED accepted,
         gate7' = gate7 \/ \E d : gate7' = [gate7 EXCEPT !.decision = d]
  PROVE  Gate7Inv'
<1>1. /\ IsProof7(gate7)' /\ gate7'.phase = gate7.phase
      /\ gate7'.generation = gate7.generation
      /\ gate7'.account = gate7.account /\ gate7'.symbol = gate7.symbol
      /\ gate7'.name = gate7.name /\ gate7'.instrument = gate7.instrument
      /\ gate7'.subscribed = gate7.subscribed /\ gate7'.quote = gate7.quote
  BY DEF Gate7Inv, IsProof7
<1> USE DEF Past1, Past2, Past3, Past4, Past5, Past6, ListAccepted, SymbolsAccepted,
            FullAccepted, SubscriptionAccepted, SpotAccepted, Vouched
<1>2. /\ (Ended7(gate7) => Blank7(gate7))' /\ (~Ended7(gate7) => gate7.generation = Generation)'
      /\ (gate7.phase # "Complete" => gate7.quote = {})'
      /\ (gate7.phase = "Terminal" => gate7.generation = 0)'
      /\ (\A quote \in gate7.quote : quote.bid <= quote.ask /\ quote.spread >= 0)'
  BY <1>1 DEF Gate7Inv, Ended7, Blank7
<1>3. /\ (gate7.phase = "AccountList" => DOMAIN accepted = {})'
      /\ (gate7.phase = "AccountAuthentication" => Past1(gate7.account))'
      /\ (gate7.phase = "SymbolsList" => Past2(gate7.account))'
  BY <1>1 DEF Gate7Inv
<1>4. /\ (gate7.phase = "FullSymbol" => Past3(gate7.account, gate7.symbol))'
      /\ (gate7.phase = "Subscription" => Past4(gate7.account, gate7.symbol))'
      /\ (gate7.phase = "Spot" => Past5(gate7.account, gate7.symbol))'
  <2>1. (gate7.phase = "FullSymbol" => Past3(gate7.account, gate7.symbol))'
    BY <1>1 DEF Gate7Inv
  <2>2. (gate7.phase = "Subscription" => Past4(gate7.account, gate7.symbol))'
    BY <1>1 DEF Gate7Inv
  <2>3. (gate7.phase = "Spot" => Past5(gate7.account, gate7.symbol))'
    BY <1>1 DEF Gate7Inv
  <2> QED
    BY <2>1, <2>2, <2>3
<1>5. ASSUME gate7'.phase = "Complete" PROVE \E account, symbol : Past6(account, symbol)'
  <2>1. PICK account, symbol : Past6(account, symbol)
    BY <1>1, <1>5 DEF Gate7Inv
  <2>2. Past6(account, symbol)'
    BY <2>1
  <2> QED
    BY <2>2
<1> QED
  BY <1>1, <1>2, <1>3, <1>4, <1>5 DEF Gate7Inv

(* How the trail of accepted evidence grows.                               *)
Extended(evidence) ==
  /\ DOMAIN accepted' = DOMAIN accepted \cup {gate7.phase}
  /\ accepted'[gate7.phase] = evidence
  /\ \A phase \in DOMAIN accepted : phase # gate7.phase => accepted'[phase] = accepted[phase]

(* A call ends the proof, leaves it alone, or takes it to its next phase.  *)
LEMMA CallStep ==
  ASSUME Gate7Inv, NEW outcome, NEW next, NEW evidence, Call(outcome, evidence),
         \/ outcome = gate7
         \/ \E d : outcome = [gate7 EXCEPT !.decision = d]
         \/ \E d : outcome = Finished7(gate7, d)
         \/ outcome = next /\ next.phase \notin {gate7.phase, "Terminal"}
  PROVE  \/ Gate7Inv'
         \/ outcome = next /\ gate7' = next /\ Extended(evidence)
<1>1. CASE \E d : gate7' = Finished7(gate7, d)
  BY <1>1, Ends7
<1>2. CASE gate7' = gate7 \/ \E d : gate7' = [gate7 EXCEPT !.decision = d]
  <2>1. gate7'.phase = gate7.phase
    BY <1>2 DEF Gate7Inv, IsProof7
  <2>2. UNCHANGED accepted
    BY <2>1 DEF Call, Advances
  <2> QED
    BY <1>2, <2>2, Stays7
<1>3. CASE gate7' = outcome /\ outcome = next /\ next.phase \notin {gate7.phase, "Terminal"}
  <2>1. accepted' = [phase \in DOMAIN accepted \cup {gate7.phase} |->
                       IF phase = gate7.phase THEN evidence ELSE accepted[phase]]
    BY <1>3 DEF Call, Advances
  <2> QED
    BY <1>3, <2>1 DEF Extended
<1> QED
  BY <1>1, <1>2, <1>3 DEF Call


(* The tests that come before those of a handler.                          *)
LEMMA AdmittedOutcome ==
  ASSUME NEW proof, NEW link, NEW phase, NEW outcome
  PROVE  \/ Admitted(proof, link, phase, outcome) = proof
         \/ \E d : Admitted(proof, link, phase, outcome) = Finished7(proof, d)
         \/ /\ Admitted(proof, link, phase, outcome) = outcome /\ ~Ended7(proof)
            /\ proof.phase = phase
            /\ link.current /\ link.generation = proof.generation
BY DEF Admitted, validateTransportEvidence

(* The one value of an optional field that has one.                        *)
LEMMA OptionalValue ==
  ASSUME NEW field, Optional(field), field # {}
  PROVE  field = {The(field)}
BY DEF Optional, The

LEMMA SingleValue ==
  ASSUME NEW places, Single(places)
  PROVE  places = {The(places)} /\ The(places) \in places
BY DEF Single, The

LEMMA AccountListStep ==
  ASSUME Gate7Inv, NEW link, NEW answer \in AccountAnswers, AcceptAccountList(link, answer)
  PROVE  Gate7Inv'
<1> DEFINE matches == FiboAccounts(answer)
           id == The(answer.accounts[The(matches)].id)
           next == [gate7 EXCEPT !.account = id, !.phase = "AccountAuthentication",
                                 !.decision = "AccountAuthenticationReady"]
           outcome == acceptAccountList(gate7, link, answer)
           evidence == [link |-> link, answer |-> answer]
           ready == /\ outcome = next /\ gate7.phase = "AccountList" /\ Single(matches)
                    /\ link.current /\ link.generation = gate7.generation
<1>1. Call(outcome, evidence)
  BY DEF AcceptAccountList
<1>2. outcome = gate7 \/ (\E d : outcome = Finished7(gate7, d)) \/ ready
  BY AdmittedOutcome DEF acceptAccountList
<1>3. /\ IsProof7(next) /\ next.phase = "AccountAuthentication" /\ next.account = id
      /\ next.quote = gate7.quote /\ next.generation = gate7.generation
  <2> HIDE DEF id
  <2> SUFFICES ASSUME NEW n, n = next
               PROVE  /\ IsProof7(n) /\ n.phase = "AccountAuthentication" /\ n.account = id
                      /\ n.quote = gate7.quote /\ n.generation = gate7.generation
    OBVIOUS
  <2> QED
    BY DEF Gate7Inv, IsProof7
<1>4. \/ Gate7Inv'
      \/ ready /\ gate7' = next /\ Extended(evidence)
  <2> HIDE DEF outcome, evidence, next, matches
  <2>1. CASE ready
    BY <1>1, <1>3, <2>1, CallStep
  <2>2. CASE ~ready
    BY <1>1, <1>2, <2>2, CallStep
  <2> QED
    BY <2>1, <2>2
<1>5. ASSUME ready, gate7' = next, Extended(evidence)
      PROVE  Gate7Inv'
  <2>1. matches = {The(matches)} /\ The(matches) \in matches
    BY <1>5, SingleValue
  <2>2. answer.accounts[The(matches)].id = {id}
    <3>1. The(matches) \in DOMAIN answer.accounts /\ answer.accounts[The(matches)].id # {}
      BY <2>1 DEF FiboAccounts, FiboDemo
    <3> HIDE DEF matches
    <3>2. Optional(answer.accounts[The(matches)].id)
      BY <3>1, EvidenceAssumption
    <3> QED
      BY <3>1, <3>2, OptionalValue
  <2>3. /\ DOMAIN accepted' = {"AccountList"} /\ accepted'["AccountList"] = evidence
    BY <1>5 DEF Extended, Gate7Inv
  <2>4. accepted'["AccountList"].link = link /\ accepted'["AccountList"].answer = answer
    BY <2>3
  <2>5. gate7.generation = Generation /\ gate7.quote = {}
    BY <1>5 DEF Gate7Inv, Ended7
  <2>6. /\ IsProof7(gate7)' /\ gate7'.phase = "AccountAuthentication" /\ gate7'.account = id
        /\ gate7'.quote = {} /\ gate7'.generation = Generation
    BY <1>3, <1>5, <2>5
  <2> HIDE DEF id, next, evidence
  <2>7. Past1(gate7.account)'
    BY <1>5, <2>1, <2>2, <2>3, <2>4, <2>5, <2>6 DEF Past1, ListAccepted, Vouched
  <2> QED
    BY <2>6, <2>7 DEF Gate7Inv, Ended7
<1> QED
  BY <1>4, <1>5


LEMMA Authentication7Step ==
  ASSUME Gate7Inv, NEW id, AcceptAccountAuthentication(id)
  PROVE  Gate7Inv'
<1> DEFINE next == [gate7 EXCEPT !.phase = "SymbolsList", !.decision = "SymbolListReady"]
           outcome == acceptAccountAuthentication(gate7, id)
           ready == /\ outcome = next /\ gate7.phase = "AccountAuthentication"
                    /\ id = gate7.account
<1>1. Call(outcome, id)
  BY DEF AcceptAccountAuthentication
<1>2. (\E d : outcome = Finished7(gate7, d)) \/ ready
  BY DEF acceptAccountAuthentication
<1>3. /\ IsProof7(next) /\ next.phase = "SymbolsList" /\ next.account = gate7.account
      /\ next.quote = gate7.quote /\ next.generation = gate7.generation
  <2> SUFFICES ASSUME NEW n, n = next
               PROVE  /\ IsProof7(n) /\ n.phase = "SymbolsList" /\ n.account = gate7.account
                      /\ n.quote = gate7.quote /\ n.generation = gate7.generation
    OBVIOUS
  <2> QED
    BY DEF Gate7Inv, IsProof7
<1>4. Gate7Inv' \/ (ready /\ gate7' = next /\ Extended(id))
  <2> HIDE DEF outcome, next
  <2>1. CASE ready
    BY <1>1, <1>3, <2>1, CallStep
  <2>2. CASE ~ready
    BY <1>1, <1>2, <2>2, CallStep
  <2> QED
    BY <2>1, <2>2
<1>5. ASSUME ready, gate7' = next, Extended(id)
      PROVE  Gate7Inv'
  <2>1. Past1(gate7.account) /\ gate7.generation = Generation /\ gate7.quote = {}
    BY <1>5 DEF Gate7Inv, Ended7
  <2>2. /\ DOMAIN accepted' = {"AccountList", "AccountAuthentication"}
        /\ accepted'["AccountList"] = accepted["AccountList"]
        /\ accepted'["AccountAuthentication"] = gate7.account
    BY <1>5, <2>1 DEF Extended, Past1
  <2>3. /\ IsProof7(gate7)' /\ gate7'.phase = "SymbolsList"
        /\ gate7'.account = gate7.account
        /\ gate7'.quote = {} /\ gate7'.generation = Generation
    BY <1>3, <1>5, <2>1
  <2> HIDE DEF next
  <2>4. Past2(gate7.account)'
    BY <2>1, <2>2, <2>3 DEF Past1, Past2, ListAccepted, Vouched
  <2> QED
    BY <2>3, <2>4 DEF Gate7Inv, Ended7
<1> QED
  BY <1>4, <1>5

LEMMA SymbolsListStep ==
  ASSUME Gate7Inv, NEW link, NEW answer \in SymbolAnswers, AcceptSymbolsList(link, answer)
  PROVE  Gate7Inv'
<1> DEFINE matches == GoldSymbols(answer)
           id == The(answer.symbols[The(matches)].id)
           name == answer.symbols[The(matches)].name
           next == [gate7 EXCEPT !.symbol = id, !.name = name,
                                 !.phase = "FullSymbol", !.decision = "FullSymbolReady"]
           outcome == acceptSymbolsList(gate7, link, answer)
           evidence == [link |-> link, answer |-> answer]
           ready == /\ outcome = next /\ gate7.phase = "SymbolsList" /\ Single(matches)
                    /\ answer.account = gate7.account
                    /\ link.current /\ link.generation = gate7.generation
<1>1. Call(outcome, evidence)
  BY DEF AcceptSymbolsList
<1>2. outcome = gate7 \/ (\E d : outcome = Finished7(gate7, d)) \/ ready
  BY AdmittedOutcome DEF acceptSymbolsList
<1>3. /\ IsProof7(next) /\ next.phase = "FullSymbol" /\ next.account = gate7.account
      /\ next.symbol = id
      /\ next.quote = gate7.quote /\ next.generation = gate7.generation
  <2> HIDE DEF id, name
  <2> SUFFICES ASSUME NEW n, n = next
               PROVE  /\ IsProof7(n) /\ n.phase = "FullSymbol" /\ n.account = gate7.account
                      /\ n.symbol = id
                      /\ n.quote = gate7.quote /\ n.generation = gate7.generation
    OBVIOUS
  <2> QED
    BY DEF Gate7Inv, IsProof7
<1>4. Gate7Inv' \/ (ready /\ gate7' = next /\ Extended(evidence))
  <2> HIDE DEF outcome, evidence, next, matches
  <2>1. CASE ready
    BY <1>1, <1>3, <2>1, CallStep
  <2>2. CASE ~ready
    BY <1>1, <1>2, <2>2, CallStep
  <2> QED
    BY <2>1, <2>2
<1>5. ASSUME ready, gate7' = next, Extended(evidence)
      PROVE  Gate7Inv'
  <2>1. matches = {The(matches)} /\ The(matches) \in matches
    BY <1>5, SingleValue
  <2>2. answer.symbols[The(matches)].id = {id}
    <3>1. The(matches) \in DOMAIN answer.symbols /\ answer.symbols[The(matches)].id # {}
      BY <2>1 DEF GoldSymbols, Tradable
    <3> HIDE DEF matches
    <3>2. Optional(answer.symbols[The(matches)].id)
      BY <3>1, EvidenceAssumption
    <3> QED
      BY <3>1, <3>2, OptionalValue
  <2>3. Past2(gate7.account) /\ gate7.generation = Generation /\ gate7.quote = {}
    BY <1>5 DEF Gate7Inv, Ended7
  <2>4. /\ DOMAIN accepted' = {"AccountList", "AccountAuthentication", "SymbolsList"}
        /\ accepted'["AccountList"] = accepted["AccountList"]
        /\ accepted'["AccountAuthentication"] = accepted["AccountAuthentication"]
        /\ accepted'["SymbolsList"] = evidence
    BY <1>5, <2>3 DEF Extended, Past2
  <2>5. accepted'["SymbolsList"].link = link /\ accepted'["SymbolsList"].answer = answer
    BY <2>4
  <2>6. /\ IsProof7(gate7)' /\ gate7'.phase = "FullSymbol"
        /\ gate7'.account = gate7.account /\ gate7'.symbol = id
        /\ gate7'.quote = {} /\ gate7'.generation = Generation
    BY <1>3, <1>5, <2>3
  <2> HIDE DEF id, next, evidence
  <2>7. SymbolsAccepted(gate7.account, gate7.symbol)'
    BY <1>5, <2>1, <2>2, <2>3, <2>5, <2>6 DEF SymbolsAccepted, Vouched
  <2>8. Past3(gate7.account, gate7.symbol)'
    BY <2>3, <2>4, <2>6, <2>7 DEF Past2, Past3, ListAccepted, Vouched
  <2> QED
    BY <2>6, <2>8 DEF Gate7Inv, Ended7
<1> QED
  BY <1>4, <1>5

LEMMA FullSymbolStep ==
  ASSUME Gate7Inv, NEW link, NEW answer, AcceptFullSymbol(link, answer)
  PROVE  Gate7Inv'
<1> DEFINE named == FullSymbols(answer, gate7.symbol)
           spec == answer.symbols[The(named)].spec
           next == [gate7 EXCEPT !.instrument = spec, !.phase = "Subscription",
                                 !.decision = "SubscriptionReady"]
           outcome == acceptFullSymbol(gate7, link, answer)
           evidence == [link |-> link, answer |-> answer]
           ready == /\ outcome = next /\ gate7.phase = "FullSymbol"
                    /\ answer.account = gate7.account
                    /\ gate7.symbol \notin answer.archivedIds
                    /\ link.current /\ link.generation = gate7.generation
<1>1. Call(outcome, evidence)
  BY DEF AcceptFullSymbol
<1>2. outcome = gate7 \/ (\E d : outcome = Finished7(gate7, d)) \/ ready
  BY DEF acceptFullSymbol, Admitted, validateTransportEvidence
<1>3. /\ IsProof7(next) /\ next.phase = "Subscription" /\ next.account = gate7.account
      /\ next.symbol = gate7.symbol
      /\ next.quote = gate7.quote /\ next.generation = gate7.generation
  <2> HIDE DEF spec
  <2> SUFFICES ASSUME NEW n, n = next
               PROVE  /\ IsProof7(n) /\ n.phase = "Subscription" /\ n.account = gate7.account
                      /\ n.symbol = gate7.symbol
                      /\ n.quote = gate7.quote /\ n.generation = gate7.generation
    OBVIOUS
  <2> QED
    BY DEF Gate7Inv, IsProof7
<1>4. Gate7Inv' \/ (ready /\ gate7' = next /\ Extended(evidence))
  <2> HIDE DEF outcome, evidence, next
  <2>1. CASE ready
    BY <1>1, <1>3, <2>1, CallStep
  <2>2. CASE ~ready
    BY <1>1, <1>2, <2>2, CallStep
  <2> QED
    BY <2>1, <2>2
<1>5. ASSUME ready, gate7' = next, Extended(evidence)
      PROVE  Gate7Inv'
  <2>1. /\ Past3(gate7.account, gate7.symbol) /\ gate7.generation = Generation
        /\ gate7.quote = {}
    BY <1>5 DEF Gate7Inv, Ended7
  <2>2. /\ DOMAIN accepted' = {"AccountList", "AccountAuthentication", "SymbolsList",
                               "FullSymbol"}
        /\ accepted'["AccountList"] = accepted["AccountList"]
        /\ accepted'["AccountAuthentication"] = accepted["AccountAuthentication"]
        /\ accepted'["SymbolsList"] = accepted["SymbolsList"]
        /\ accepted'["FullSymbol"] = evidence
    BY <1>5, <2>1 DEF Extended, Past3
  <2>3. accepted'["FullSymbol"].link = link /\ accepted'["FullSymbol"].answer = answer
    BY <2>2
  <2>4. /\ IsProof7(gate7)' /\ gate7'.phase = "Subscription"
        /\ gate7'.account = gate7.account /\ gate7'.symbol = gate7.symbol
        /\ gate7'.quote = {} /\ gate7'.generation = Generation
    BY <1>3, <1>5, <2>1
  <2> HIDE DEF next, evidence
  <2>5. FullAccepted(gate7.account, gate7.symbol)'
    BY <1>5, <2>1, <2>3, <2>4 DEF FullAccepted, Vouched
  <2>6. Past4(gate7.account, gate7.symbol)'
    BY <2>1, <2>2, <2>4, <2>5 DEF Past3, Past4, ListAccepted, SymbolsAccepted, Vouched
  <2> QED
    BY <2>4, <2>6 DEF Gate7Inv, Ended7
<1> QED
  BY <1>4, <1>5

LEMMA SubscriptionStep ==
  ASSUME Gate7Inv, NEW link, NEW answer, AcceptSubscription(link, answer)
  PROVE  Gate7Inv'
<1> DEFINE next == [gate7 EXCEPT !.subscribed = TRUE, !.phase = "Spot",
                                 !.decision = "SubscriptionReady"]
           outcome == acceptSubscription(gate7, link, answer)
           evidence == [link |-> link, answer |-> answer]
           ready == /\ outcome = next /\ gate7.phase = "Subscription"
                    /\ answer.account = gate7.account /\ answer.symbol = gate7.symbol
                    /\ link.current /\ link.generation = gate7.generation
<1>1. Call(outcome, evidence)
  BY DEF AcceptSubscription
<1>2. outcome = gate7 \/ (\E d : outcome = Finished7(gate7, d)) \/ ready
  BY AdmittedOutcome DEF acceptSubscription
<1>3. /\ IsProof7(next) /\ next.phase = "Spot" /\ next.account = gate7.account
      /\ next.symbol = gate7.symbol
      /\ next.quote = gate7.quote /\ next.generation = gate7.generation
  <2> SUFFICES ASSUME NEW n, n = next
               PROVE  /\ IsProof7(n) /\ n.phase = "Spot" /\ n.account = gate7.account
                      /\ n.symbol = gate7.symbol
                      /\ n.quote = gate7.quote /\ n.generation = gate7.generation
    OBVIOUS
  <2> QED
    BY DEF Gate7Inv, IsProof7
<1>4. Gate7Inv' \/ (ready /\ gate7' = next /\ Extended(evidence))
  <2> HIDE DEF outcome, evidence, next
  <2>1. CASE ready
    BY <1>1, <1>3, <2>1, CallStep
  <2>2. CASE ~ready
    BY <1>1, <1>2, <2>2, CallStep
  <2> QED
    BY <2>1, <2>2
<1>5. ASSUME ready, gate7' = next, Extended(evidence)
      PROVE  Gate7Inv'
  <2>1. /\ Past4(gate7.account, gate7.symbol) /\ gate7.generation = Generation
        /\ gate7.quote = {}
    BY <1>5 DEF Gate7Inv, Ended7
  <2>2. /\ DOMAIN accepted' = {"AccountList", "AccountAuthentication", "SymbolsList",
                               "FullSymbol", "Subscription"}
        /\ accepted'["AccountList"] = accepted["AccountList"]
        /\ accepted'["AccountAuthentication"] = accepted["AccountAuthentication"]
        /\ accepted'["SymbolsList"] = accepted["SymbolsList"]
        /\ accepted'["FullSymbol"] = accepted["FullSymbol"]
        /\ accepted'["Subscription"] = evidence
    BY <1>5, <2>1 DEF Extended, Past4
  <2>3. accepted'["Subscription"].link = link /\ accepted'["Subscription"].answer = answer
    BY <2>2
  <2>4. /\ IsProof7(gate7)' /\ gate7'.phase = "Spot"
        /\ gate7'.account = gate7.account /\ gate7'.symbol = gate7.symbol
        /\ gate7'.quote = {} /\ gate7'.generation = Generation
    BY <1>3, <1>5, <2>1
  <2> HIDE DEF next, evidence
  <2>5. SubscriptionAccepted(gate7.account, gate7.symbol)'
    BY <1>5, <2>1, <2>3, <2>4 DEF SubscriptionAccepted, Vouched
  <2>6. Past5(gate7.account, gate7.symbol)'
    BY <2>1, <2>2, <2>4, <2>5
       DEF Past4, Past5, ListAccepted, SymbolsAccepted, FullAccepted, Vouched
  <2> QED
    BY <2>4, <2>6 DEF Gate7Inv, Ended7
<1> QED
  BY <1>4, <1>5


(* Prices that do not cross make quotes with a spread that is not negative.*)
LEMMA QuotesDoNotCross ==
  ASSUME NEW proof, NEW spot, ~Crossed(Price(proof, spot.bid), Price(proof, spot.ask)),
         NEW b \in Price(proof, spot.bid), NEW a \in Price(proof, spot.ask)
  PROVE  b <= a /\ a - b >= 0
<1>1. ASSUME NEW side, NEW v \in Price(proof, side) PROVE v \in Int
  <2>1. PICK raw \in side, spec \in proof.instrument :
          v \in normalizeSpotPrice(raw, spec.digits)
    BY DEF Price
  <2>2. v \in 0 .. MaxUnits
    BY <2>1 DEF normalizeSpotPrice
  <2> QED
    BY <2>2, Gate7Assumption
<1>2. b \in Int /\ a \in Int
  BY <1>1
<1>3. ~(b > a)
  BY DEF Crossed
<1> QED
  BY <1>2, <1>3

(* A timestamp nothing speaks against has one fresh reading.               *)
LEMMA NoDoubtIsFresh ==
  ASSUME NEW spot, Doubted(spot) = {}, NEW t \in spot.timestamp
  PROVE  Cardinality({i \in Readings(t) : Fresh(t * Multipliers[i], spot.receipt)}) = 1
<1>1. classifyTimestamp(t, spot.receipt) = "Ready"
  BY DEF Doubted
<1> QED
  BY <1>1 DEF classifyTimestamp

LEMMA SpotStep ==
  ASSUME Gate7Inv, NEW link, NEW spot, AcceptSpot(link, spot)
  PROVE  Gate7Inv'
<1> DEFINE bids == Price(gate7, spot.bid)
           asks == Price(gate7, spot.ask)
           quotes == Quotes(bids, asks)
           next == [Wiped(gate7) EXCEPT !.phase = "Complete",
                                        !.decision = "QuoteProofSucceeded",
                                        !.quote = quotes]
           outcome == acceptSpot(gate7, link, spot)
           evidence == [link |-> link, answer |-> spot]
           ready == /\ outcome = next /\ gate7.phase = "Spot"
                    /\ SpotOrigin(gate7, link, spot) = "Ready"
                    /\ ~Crossed(bids, asks) /\ spot.timestamp # {} /\ Doubted(spot) = {}
<1>1. Call(outcome, evidence)
  BY DEF AcceptSpot
<1>2. \/ outcome = gate7 \/ (\E d : outcome = Finished7(gate7, d))
      \/ (\E d : outcome = [gate7 EXCEPT !.decision = d]) \/ ready
  BY DEF acceptSpot
<1>3. /\ IsProof7(next) /\ next.phase = "Complete" /\ next.quote = quotes /\ Blank7(next)
  <2> HIDE DEF quotes
  <2> SUFFICES ASSUME NEW n, n = next
               PROVE  /\ IsProof7(n) /\ n.phase = "Complete" /\ n.quote = quotes /\ Blank7(n)
    OBVIOUS
  <2> QED
    BY DEF Gate7Inv, IsProof7, Wiped, Blank7
<1>4. Gate7Inv' \/ (ready /\ gate7' = next /\ Extended(evidence))
  <2> HIDE DEF outcome, evidence, next
  <2>1. CASE ready
    BY <1>1, <1>3, <2>1, CallStep
  <2>2. CASE ~ready
    BY <1>1, <1>2, <2>2, CallStep
  <2> QED
    BY <2>1, <2>2
<1>5. ASSUME ready, gate7' = next, Extended(evidence)
      PROVE  Gate7Inv'
  <2>1. Past5(gate7.account, gate7.symbol) /\ gate7.generation = Generation
    BY <1>5 DEF Gate7Inv, Ended7
  <2>2. /\ DOMAIN accepted' = {"AccountList", "AccountAuthentication", "SymbolsList",
                               "FullSymbol", "Subscription", "Spot"}
        /\ accepted'["AccountList"] = accepted["AccountList"]
        /\ accepted'["AccountAuthentication"] = accepted["AccountAuthentication"]
        /\ accepted'["SymbolsList"] = accepted["SymbolsList"]
        /\ accepted'["FullSymbol"] = accepted["FullSymbol"]
        /\ accepted'["Subscription"] = accepted["Subscription"]
        /\ accepted'["Spot"] = evidence
    <3> HIDE DEF evidence, next, outcome, bids, asks
    <3> QED
      BY <1>5, <2>1 DEF Extended, Past5
  <2>3. accepted'["Spot"].link = link /\ accepted'["Spot"].answer = spot
    BY <2>2
  <2>4. /\ link.current /\ link.generation = gate7.generation
        /\ spot.account = gate7.account /\ spot.symbol = gate7.symbol
    BY <1>5 DEF SpotOrigin
  <2>5. /\ IsProof7(gate7)' /\ gate7'.phase = "Complete" /\ gate7'.quote = quotes
        /\ Blank7(gate7)'
    <3> HIDE DEF next
    <3> QED
      BY <1>3, <1>5
  <2>6. \A quote \in quotes : quote.bid <= quote.ask /\ quote.spread >= 0
    <3>1. \A b \in bids, a \in asks : b <= a /\ a - b >= 0
      BY <1>5, QuotesDoNotCross
    <3> HIDE DEF bids, asks
    <3> QED
      BY <3>1 DEF Quotes
  <2>7. spot.timestamp # {} /\ \A t \in spot.timestamp :
          Cardinality({i \in Readings(t) : Fresh(t * Multipliers[i], spot.receipt)}) = 1
    BY <1>5, NoDoubtIsFresh
  <2> HIDE DEF next, evidence, quotes
  <2>8. \E a, s : Past6(a, s)'
    <3> SUFFICES ASSUME NEW a, NEW s, a = gate7.account, s = gate7.symbol
                 PROVE  Past6(a, s)'
      OBVIOUS
    <3>1. SpotAccepted(a, s)'
      BY <2>1, <2>3, <2>4, <2>7 DEF SpotAccepted, Vouched
    <3> QED
      BY <2>1, <2>2, <3>1 DEF Past5, Past6, ListAccepted, SymbolsAccepted, FullAccepted,
                              SubscriptionAccepted, Vouched
  <2> QED
    BY <2>5, <2>6, <2>8 DEF Gate7Inv, Ended7
<1> QED
  BY <1>4, <1>5

LEMMA TerminalStep ==
  ASSUME Gate7Inv, NEW decision, Terminal(decision)
  PROVE  Gate7Inv'
<1> DEFINE outcome == terminal(gate7, decision)
<1>1. Call(outcome, decision)
  BY DEF Terminal
<1>2. (\E d : outcome = Finished7(gate7, d)) \/ (\E d : outcome = [gate7 EXCEPT !.decision = d])
  BY DEF terminal, Replayed7
<1> HIDE DEF outcome
<1>3. Gate7Inv' \/ (outcome = gate7 /\ gate7' = gate7 /\ Extended(decision))
  BY <1>1, <1>2, CallStep
<1>4. CASE gate7' = gate7
  <2>1. UNCHANGED accepted
    BY <1>1, <1>4 DEF Call, Advances
  <2> QED
    BY <1>4, <2>1, Stays7
<1> QED
  BY <1>3, <1>4

LEMMA Gate7Initial ==
  ASSUME Gate7Init
  PROVE  Gate7Inv
BY DEF Gate7Init, Gate7Inv, IsProof7, Ended7

LEMMA Gate7Invariance ==
  ASSUME Gate7Inv, Gate7Next \/ UNCHANGED gate7Vars
  PROVE  Gate7Inv'
<1>1. CASE UNCHANGED gate7Vars
  BY <1>1, Stays7 DEF gate7Vars
<1> QED
  BY <1>1, AccountListStep, Authentication7Step, SymbolsListStep, FullSymbolStep,
     SubscriptionStep, SpotStep, TerminalStep DEF Gate7Next


-----------------------------------------------------------------------------
(***************************************************************************)
(* The three together.                                                     *)
(***************************************************************************)
GatesInv == GuardInv /\ Gate6Inv /\ Gate7Inv

LEMMA GatesInvariance == Spec => []GatesInv
<1>1. Init => GatesInv
  BY GuardInitial, Gate6Initial, Gate7Initial DEF Init, GatesInv
<1>2. GatesInv /\ [Next]_gatesVars => GatesInv'
  <2> SUFFICES ASSUME GatesInv, [Next]_gatesVars PROVE GatesInv'
    OBVIOUS
  <2>1. GuardNext \/ UNCHANGED guardVars
    BY DEF Next, GuardStep, Gate6Step, Gate7Step, gatesVars
  <2>2. Gate6Next \/ UNCHANGED gate6Vars
    BY DEF Next, GuardStep, Gate6Step, Gate7Step, gatesVars
  <2>3. Gate7Next \/ UNCHANGED gate7Vars
    BY DEF Next, GuardStep, Gate6Step, Gate7Step, gatesVars
  <2> QED
    BY <2>1, <2>2, <2>3, GuardInvariance, Gate6Invariance, Gate7Invariance DEF GatesInv
<1> QED
  BY <1>1, <1>2, PTL DEF Spec

(* However guards are armed, moved, called back and cancelled, a state     *)
(* value is matched at most once and within its lifetime.                  *)
THEOREM MatchedOnce == Spec => []CorrelationMatchedOnce
<1>1. GatesInv => CorrelationMatchedOnce
  BY DEF GatesInv, GuardInv
<1> QED
  BY <1>1, GatesInvariance, PTL

(* A completed account proof is about the one demo account that has the    *)
(* title the operator confirmed, in both lists.                            *)
THEOREM AccountIsTheSelected == Spec => []SelectedAccountAuthenticated
<1>1. GatesInv => SelectedAccountAuthenticated
  BY DEF GatesInv, Gate6Inv, OneShown, OneListed, Titled, SelectedAccountAuthenticated
<1> QED
  BY <1>1, GatesInvariance, PTL

(* A quote stands only on a complete trail of evidence about one account   *)
(* and one symbol on one connection.                                       *)
THEOREM QuoteHasTrail == Spec => []QuoteIsProven
<1>1. GatesInv => QuoteIsProven
  <2> SUFFICES ASSUME Gate7Inv, gate7.quote # {} PROVE QuoteIsProven
    BY DEF GatesInv, QuoteIsProven
  <2>1. gate7.phase = "Complete"
    BY DEF Gate7Inv
  <2>2. PICK account, symbol : Past6(account, symbol)
    BY <2>1 DEF Gate7Inv
  <2> QED
    BY <2>2 DEF Gate7Inv, QuoteIsProven, Past6, ListAccepted, SymbolsAccepted, FullAccepted,
                SubscriptionAccepted, SpotAccepted, Vouched
<1> QED
  BY <1>1, GatesInvariance, PTL

(* Every early return that ends an object wipes what it held.              *)
THEOREM SecretsWiped == Spec => []EndedHoldsNoSecret
<1>1. GatesInv => EndedHoldsNoSecret
  <2> SUFFICES ASSUME GatesInv PROVE EndedHoldsNoSecret
    OBVIOUS
  <2>1. \A g \in Guards : guards[g].phase # "Armed" => guards[g].state = 0
    BY DEF GatesInv, GuardInv
  <2>2. Ended6(gate6) => gate6 = Cleared6(gate6)
    BY DEF GatesInv, Gate6Inv, IsProof6, Blank6, Cleared6
  <2>3. Ended7(gate7) => gate7 = Wiped(gate7)
    BY DEF GatesInv, Gate7Inv, IsProof7, Blank7, Wiped
  <2>4. gate7.phase = "Terminal" => gate7.quote = {} /\ gate7.generation = 0
    BY DEF GatesInv, Gate7Inv
  <2> QED
    BY <2>1, <2>2, <2>3, <2>4 DEF EndedHoldsNoSecret
<1> QED
  BY <1>1, GatesInvariance, PTL

(* An ended guard comes back only by a move into it.                       *)
LEMMA GuardStaysEnded ==
  ASSUME GuardInv, GuardNext \/ UNCHANGED guardVars, NEW g \in Guards,
         guards[g].phase = "Terminal", guards'[g].phase # "Terminal"
  PROVE  \E h \in Guards : guards'[g] = guards[h]
<1>1. IsGuard(guards[g]) /\ guards = [k \in Guards |-> guards[k]]
  BY DEF GuardInv, GuardTypes
<1>2. Replayed(guards[g]).phase = "Terminal"
  BY <1>1, DecidedGuard DEF Replayed
<1>3. \A d : Finished(guards[g], d).phase = "Terminal"
  BY <1>1, FinishedGuard
<1>4. guards' # guards
  OBVIOUS
<1>5. PICK k \in Guards :
        \/ \E now \in Times, entropy, bound \in BOOLEAN : Arm(k, now, entropy, bound)
        \/ \E request \in Callbacks, now \in Times : Consume(k, request, now)
        \/ \E now \in Times : ExpireIfDue(k, now)
        \/ Cancel(k)
        \/ \E h \in Guards : Move(k, h)
  BY <1>4 DEF GuardNext, guardVars
<1>6. ASSUME NEW new, guards' = [guards EXCEPT ![k] = new],
             guards[k].phase = "Terminal" => new = Replayed(guards[k])
      PROVE  FALSE
  BY <1>1, <1>2, <1>6
<1>7. CASE \E now \in Times, entropy, bound \in BOOLEAN : Arm(k, now, entropy, bound)
  <2>1. PICK now \in Times, entropy \in BOOLEAN, bound \in BOOLEAN : Arm(k, now, entropy, bound)
    BY <1>7
  <2>2. guards' = [guards EXCEPT
                     ![k] = ArmedWith(guards[k], now, entropy, bound, Len(issued) + 1)]
    BY <2>1 DEF Arm
  <2>3. guards[k].phase = "Terminal" =>
          ArmedWith(guards[k], now, entropy, bound, Len(issued) + 1) = Replayed(guards[k])
    BY DEF ArmedWith
  <2> QED
    BY <1>6, <2>2, <2>3
<1>8. CASE \E request \in Callbacks, now \in Times : Consume(k, request, now)
  <2>1. PICK request \in Callbacks, now \in Times : Consume(k, request, now)
    BY <1>8
  <2>2. guards' = [guards EXCEPT ![k] = Consumed(guards[k], request, now)]
    BY <2>1 DEF Consume
  <2>3. guards[k].phase = "Terminal" =>
          Consumed(guards[k], request, now) = Replayed(guards[k])
    BY DEF Consumed
  <2> QED
    BY <1>6, <2>2, <2>3
<1>9. CASE \E now \in Times : ExpireIfDue(k, now)
  <2>1. PICK now \in Times : ExpireIfDue(k, now)
    BY <1>9
  <2>2. guards' = [guards EXCEPT ![k] = Expired(guards[k], now)]
    BY <2>1 DEF ExpireIfDue
  <2>3. guards[k].phase = "Terminal" => Expired(guards[k], now) = Replayed(guards[k])
    BY DEF Expired
  <2> QED
    BY <1>6, <2>2, <2>3
<1>10. CASE Cancel(k)
  BY <1>1, <1>2, <1>3, <1>10 DEF Cancel
<1>11. CASE \E h \in Guards : Move(k, h)
  BY <1>1, <1>3, <1>11 DEF Move
<1> QED
  BY <1>5, <1>7, <1>8, <1>9, <1>10, <1>11

LEMMA Gate6StaysEnded ==
  ASSUME Gate6Inv, Gate6Next \/ UNCHANGED gate6Vars, Ended6(gate6)
  PROVE  gate6' \in {gate6, Replayed6(gate6)}
  BY DEF Gate6Next, gate6Vars, AcceptGate6A, acceptGate6A, ConfirmWadeSelection,
         confirmWadeSelection, AcceptGate6B, acceptGate6B, AcceptAccountAuthentication6,
         acceptAccountAuthentication6, Cancel6, cancel6, OrExhausted6, Ended6

LEMMA Gate7StaysEnded ==
  ASSUME Gate7Inv, Gate7Next \/ UNCHANGED gate7Vars, Ended7(gate7)
  PROVE  gate7' \in {gate7, Replayed7(gate7), Finished7(gate7, "InvalidAccountIdentifier")}
<1>1. \A link, phase, outcome : Admitted(gate7, link, phase, outcome) = gate7
  BY DEF Admitted
<1>2. \A link, answer : /\ acceptAccountList(gate7, link, answer) = gate7
                        /\ acceptSymbolsList(gate7, link, answer) = gate7
                        /\ acceptSubscription(gate7, link, answer) = gate7
                        /\ acceptSpot(gate7, link, answer) = gate7
  BY <1>1 DEF acceptAccountList, acceptSymbolsList, acceptSubscription, acceptSpot
<1>3. \A link, answer : acceptFullSymbol(gate7, link, answer) = gate7
  BY DEF acceptFullSymbol, Admitted
<1>4. \A id : acceptAccountAuthentication(gate7, id) =
                Finished7(gate7, "InvalidAccountIdentifier")
  BY DEF acceptAccountAuthentication, Ended7
<1>5. \A d : terminal(gate7, d) = Replayed7(gate7)
  BY DEF terminal
<1>6. \/ UNCHANGED gate7
      \/ \E outcome, evidence :
           /\ Call(outcome, evidence)
           /\ outcome \in {gate7, Replayed7(gate7), Finished7(gate7, "InvalidAccountIdentifier")}
  BY <1>2, <1>3, <1>4, <1>5
     DEF Gate7Next, gate7Vars, AcceptAccountList, AcceptAccountAuthentication,
         AcceptSymbolsList, AcceptFullSymbol, AcceptSubscription, AcceptSpot, Terminal
<1>7. gate7.phase \notin {"SymbolsList", "FullSymbol", "Spot"}
  BY DEF Ended7
<1> QED
  BY <1>6, <1>7 DEF Call

(* No late or repeated call changes an ended object but for the decision   *)
(* it answers with, for a guard moved into it, and for an account          *)
(* authentication, which takes the quote back from a completed proof.      *)
THEOREM EndIsFinal == Spec => EndedStaysEnded
<1>1. GatesInv /\ [Next]_gatesVars =>
        /\ \A g \in Guards : guards[g].phase = "Terminal" /\ guards'[g].phase # "Terminal"
                               => \E h \in Guards : guards'[g] = guards[h]
        /\ Ended6(gate6) => gate6' \in {gate6, Replayed6(gate6)}
        /\ Ended7(gate7) => gate7' \in {gate7, Replayed7(gate7),
                                        Finished7(gate7, "InvalidAccountIdentifier")}
  <2> SUFFICES ASSUME GatesInv, [Next]_gatesVars
               PROVE  /\ \A g \in Guards : /\ guards[g].phase = "Terminal"
                                           /\ guards'[g].phase # "Terminal"
                                           => \E h \in Guards : guards'[g] = guards[h]
                      /\ Ended6(gate6) => gate6' \in {gate6, Replayed6(gate6)}
                      /\ Ended7(gate7) =>
                           gate7' \in {gate7, Replayed7(gate7),
                                      Finished7(gate7, "InvalidAccountIdentifier")}
    OBVIOUS
  <2>1. GuardNext \/ UNCHANGED guardVars
    BY DEF Next, GuardStep, Gate6Step, Gate7Step, gatesVars
  <2>2. Gate6Next \/ UNCHANGED gate6Vars
    BY DEF Next, GuardStep, Gate6Step, Gate7Step, gatesVars
  <2>3. Gate7Next \/ UNCHANGED gate7Vars
    BY DEF Next, GuardStep, Gate6Step, Gate7Step, gatesVars
  <2> QED
    BY <2>1, <2>2, <2>3, GuardStaysEnded, Gate6StaysEnded, Gate7StaysEnded DEF GatesInv
<1> QED
  BY <1>1, GatesInvariance, PTL DEF Spec, EndedStaysEnded


=============================================================================
