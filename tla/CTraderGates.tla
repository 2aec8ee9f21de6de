----------------------------- MODULE CTraderGates -----------------------------
(***************************************************************************)
(* The three one-shot objects of the cTrader tools side by side: the OAuth *)
(* guard, the account proof and the quote proof.  They share no state, so  *)
(* a behaviour is one of them meeting every sequence of calls.             *)
(***************************************************************************)
EXTENDS CTraderOAuth, CTraderGate6, CTraderGate7

VARIABLE subject   \* the object of this behaviour

gatesVars == <<subject, guardVars, gate6Vars, gate7Vars>>

Init ==
  /\ subject \in {"guard", "gate6", "gate7"}
  /\ GuardInit /\ Gate6Init /\ Gate7Init

GuardStep == subject = "guard" /\ GuardNext /\ UNCHANGED <<subject, gate6Vars, gate7Vars>>
Gate6Step == subject = "gate6" /\ Gate6Next /\ UNCHANGED <<subject, guardVars, gate7Vars>>
Gate7Step == subject = "gate7" /\ Gate7Next /\ UNCHANGED <<subject, guardVars, gate6Vars>>

Next == GuardStep \/ Gate6Step \/ Gate7Step

Spec == Init /\ [][Next]_gatesVars

(* An object that has ended holds no secret any more: no state value, no   *)
(* account, no title, no symbol, whichever of the many early returns ended *)
(* it.  Only a completed quote proof keeps something, its quote.           *)
EndedHoldsNoSecret ==
  /\ \A g \in Guards : guards[g].phase # "Armed" => guards[g].state = 0
  /\ Ended6(gate6) => gate6 = Cleared6(gate6)
  /\ Ended7(gate7) => gate7 = Wiped(gate7)
  /\ gate7.phase = "Terminal" => gate7.quote = {} /\ gate7.generation = 0

(* An ended object never works again: a late or repeated call leaves its   *)
(* outcome alone and at most notes in the decision that it came late.  Two *)
(* things can still happen: another guard is moved into an ended one, and  *)
(* an account authentication answered again takes the quote back from a    *)
(* completed quote proof.                                                  *)
EndedStaysEnded ==
  [][/\ \A g \in Guards : guards[g].phase = "Terminal" /\ guards'[g].phase # "Terminal"
                            => \E h \in Guards : guards'[g] = guards[h]
     /\ Ended6(gate6) => gate6' \in {gate6, Replayed6(gate6)}
     /\ Ended7(gate7) => gate7' \in {gate7, Replayed7(gate7),
                                     Finished7(gate7, "InvalidAccountIdentifier")}]_gatesVars

=============================================================================
