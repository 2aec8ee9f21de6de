----------------------------- MODULE CTraderGate6 -----------------------------
(***************************************************************************)
(* CTraderGate6AccountProof (src/src/CTraderGate6Proof.cpp): the proof     *)
(* that one demo account has been authenticated.  A first account list     *)
(* gives the candidates (Gate 6A), the operator confirms one by its broker *)
(* title, a second list on a new connection must hold exactly one account  *)
(* of that title (Gate 6B), and the answer to the authentication must name *)
(* that account.  Any other call ends the proof.                           *)
(*                                                                         *)
(* The calls come in any order.  Evidence is an account list and the set   *)
(* of tests that the transport could not vouch for; an account is          *)
(* [id, live, title], with "absent" for a field that is missing and        *)
(* "unsafe" for a title that must not be shown.                            *)
(* X_Y is X with one plausible mistake Y, which no action uses.            *)
(***************************************************************************)
EXTENDS Naturals, Sequences

CONSTANTS
  AccountLists,   \* lists the provider may send
  Unvouched,      \* sets of tests the transport may fail to vouch for
  Titles,         \* titles the operator may confirm
  MaxId           \* largest usable account identifier

Doubts == {"generation", "correlation", "token", "scope"}

Account == [id : Nat, live : {"no", "yes", "absent"}, title : STRING]

ASSUME Gate6Assumption ==
  MaxId \in Nat /\ Unvouched \subseteq SUBSET Doubts /\ AccountLists \subseteq Seq(Account)

VARIABLES
  gate6,      \* the proof object
  shown,      \* history: the list the operator chose from
  listed,     \* history: the list of Gate 6B
  confirmed   \* history: title confirmed and account authenticated

gate6Vars == <<gate6, shown, listed, confirmed>>

Gate6Init ==
  /\ gate6 = [phase |-> "Gate6AReady", decision |-> "Ready", candidates |-> {},
              title |-> "", account |-> 0]
  /\ shown = <<>> /\ listed = <<>> /\ confirmed = [title |-> "", account |-> 0]

Ended6(proof) == proof.phase \in {"Terminal", "Complete"}

Cleared6(proof) == [proof EXCEPT !.candidates = {}, !.title = "", !.account = 0]

Finished6_TitleKept(proof, decision) ==
  [proof EXCEPT !.candidates = {}, !.account = 0, !.phase = "Terminal",
                !.decision = decision]

(* finish.                                                                 *)
Finished6(proof, decision) ==
  [Cleared6(proof) EXCEPT !.phase = "Terminal", !.decision = decision]

(* An ended proof only remembers that it was called again.                 *)
Replayed6(proof) == [proof EXCEPT !.decision = "AlreadyTerminal"]

validateEvidence(doubts) ==
  IF "generation" \in doubts       THEN "StaleConnectionGeneration"
  ELSE IF "correlation" \in doubts THEN "CorrelationRejected"
  ELSE IF "token" \in doubts       THEN "TokenOwnershipRejected"
  ELSE IF "scope" \in doubts       THEN "TradingScopeRequired"
  ELSE "Ready"

isUsableAccountId(id) == id \in 1 .. MaxId

Demo(account) == account.live = "no" /\ account.title # "absent"

(* Where a list has demo accounts; the first one at fault decides.         *)
Eligible(list) == {i \in DOMAIN list : Demo(list[i])}

First(places) == CHOOSE i \in places : \A j \in places : i <= j

Fault6A(account) ==
  IF account.title = "unsafe" THEN "UnsafeBrokerMetadata"
  ELSE IF isUsableAccountId(account.id) THEN "none" ELSE "InvalidAccountIdentifier"

Ambiguous(list, places) == \E i, j \in places : i # j /\ list[i].title = list[j].title

(* The candidates are kept by their titles, no two of which are equal.     *)
acceptGate6A(proof, doubts, list) ==
  LET found  == Eligible(list)
      faulty == {i \in found : Fault6A(list[i]) # "none"} IN
  IF Ended6(proof)                      THEN Replayed6(proof)
  ELSE IF proof.phase # "Gate6AReady"   THEN Finished6(proof, "WrongPhase")
  ELSE IF doubts # {}                   THEN Finished6(proof, validateEvidence(doubts))
  ELSE IF faulty # {}                   THEN Finished6(proof, Fault6A(list[First(faulty)]))
  ELSE IF found = {}                    THEN Finished6(proof, "NoEligibleDemoAccount")
  ELSE IF Ambiguous(list, found)        THEN Finished6(proof, "AmbiguousDemoAccount")
  ELSE [Cleared6(proof) EXCEPT !.phase = "AwaitingWade",
                               !.candidates = {list[i].title : i \in found},
                               !.decision = "AwaitingWadeCheckpoint"]

confirmWadeSelection(proof, title) ==
  IF Ended6(proof) THEN Replayed6(proof)
  ELSE IF proof.phase # "AwaitingWade" \/ title \notin proof.candidates
  THEN Finished6(proof, "WadeSelectionRejected")
  ELSE [Cleared6(proof) EXCEPT !.phase = "Gate6BReady", !.title = title,
                               !.decision = "ReadyForGate6B"]

acceptGate6B_LastWins(proof, doubts, list) ==
  LET wanted == {i \in Eligible(list) : list[i].title = proof.title} IN
  IF Ended6(proof)                    THEN Replayed6(proof)
  ELSE IF proof.phase # "Gate6BReady" THEN Finished6(proof, "WrongPhase")
  ELSE IF doubts # {}                 THEN Finished6(proof, validateEvidence(doubts))
  ELSE IF wanted = {}                 THEN Finished6(proof, "NoEligibleDemoAccount")
  ELSE [proof EXCEPT !.phase = "AccountAuthReady",
                     !.account = list[CHOOSE i \in wanted : \A j \in wanted : i >= j].id,
                     !.decision = "ReadyForAccountAuthentication"]

(* Only an account of the confirmed title needs a usable identifier.       *)
Fault6B(account, title) ==
  IF account.title = "unsafe" THEN "UnsafeBrokerMetadata"
  ELSE IF account.title = title /\ ~isUsableAccountId(account.id)
  THEN "InvalidAccountIdentifier" ELSE "none"

acceptGate6B(proof, doubts, list) ==
  LET found  == Eligible(list)
      faulty == {i \in found : Fault6B(list[i], proof.title) # "none"}
      wanted == {i \in found : list[i].title = proof.title} IN
  IF Ended6(proof)                    THEN Replayed6(proof)
  ELSE IF proof.phase # "Gate6BReady" THEN Finished6(proof, "WrongPhase")
  ELSE IF doubts # {}                 THEN Finished6(proof, validateEvidence(doubts))
  ELSE IF faulty # {}
  THEN Finished6(proof, Fault6B(list[First(faulty)], proof.title))
  ELSE IF wanted = {}                 THEN Finished6(proof, "NoEligibleDemoAccount")
  ELSE IF Ambiguous(list, wanted)     THEN Finished6(proof, "AmbiguousDemoAccount")
  ELSE [proof EXCEPT !.phase = "AccountAuthReady",
                     !.account = list[First(wanted)].id,
                     !.decision = "ReadyForAccountAuthentication"]

acceptAccountAuthentication6(proof, id) ==
  IF Ended6(proof) THEN Replayed6(proof)
  ELSE IF proof.phase # "AccountAuthReady" \/ id = 0 \/ id # proof.account
  THEN Finished6(proof, "AccountAuthenticationMismatch")
  ELSE [Cleared6(proof) EXCEPT !.phase = "Complete",
                               !.decision = "AccountProofSucceeded"]

cancel6(proof) ==
  IF Ended6(proof) THEN Replayed6(proof) ELSE Finished6(proof, "Cancelled")

(***************************************************************************)
(* The calls.  An allocation may fail in the two that copy what they are   *)
(* given.                                                                  *)
(***************************************************************************)
OrExhausted6(outcome, copies) ==
  {outcome} \cup {Finished6(p, "ResourceExhausted") : p \in IF copies THEN {gate6} ELSE {}}

AcceptGate6A(doubts, list) ==
  /\ gate6' \in OrExhausted6(acceptGate6A(gate6, doubts, list),
                         gate6.phase = "Gate6AReady" /\ doubts = {})
  /\ shown' = IF gate6'.phase = "AwaitingWade" THEN list ELSE shown
  /\ UNCHANGED <<listed, confirmed>>

ConfirmWadeSelection(title) ==
  /\ gate6' \in OrExhausted6(confirmWadeSelection(gate6, title),
                         gate6.phase = "AwaitingWade")
  /\ confirmed' = IF gate6'.phase = "Gate6BReady" THEN [confirmed EXCEPT !.title = title]
                  ELSE confirmed
  /\ UNCHANGED <<shown, listed>>

AcceptGate6B(doubts, list) ==
  /\ gate6' = acceptGate6B(gate6, doubts, list)
  /\ listed' = IF gate6'.phase = "AccountAuthReady" THEN list ELSE listed
  /\ UNCHANGED <<shown, confirmed>>

AcceptAccountAuthentication6(id) ==
  /\ gate6' = acceptAccountAuthentication6(gate6, id)
  /\ confirmed' = IF gate6'.phase = "Complete" /\ gate6.phase # "Complete"
                  THEN [confirmed EXCEPT !.account = id] ELSE confirmed
  /\ UNCHANGED <<shown, listed>>

Cancel6 ==
  /\ gate6' = cancel6(gate6)
  /\ UNCHANGED <<shown, listed, confirmed>>

Gate6Next ==
  \/ \E doubts \in Unvouched, list \in AccountLists :
       AcceptGate6A(doubts, list) \/ AcceptGate6B(doubts, list)
  \/ \E title \in Titles : ConfirmWadeSelection(title)
  \/ \E id \in 0 .. MaxId : AcceptAccountAuthentication6(id)
  \/ Cancel6

-----------------------------------------------------------------------------
(* The proof succeeds for one account only: a demo account, the only one   *)
(* that has the title the operator confirmed in the list of Gate 6B, and   *)
(* the operator had the choice of no second account of that title.         *)
SelectedAccountAuthenticated ==
  gate6.phase = "Complete" =>
    LET titled(list) == {i \in DOMAIN list : /\ list[i].live = "no"
                                             /\ list[i].title = confirmed.title} IN
    /\ \E i \in DOMAIN shown : titled(shown) = {i}
    /\ \E i \in DOMAIN listed : titled(listed) = {i} /\ listed[i].id = confirmed.account

=============================================================================
