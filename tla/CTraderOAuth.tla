----------------------------- MODULE CTraderOAuth -----------------------------
(***************************************************************************)
(* CTraderOAuthCorrelationGuard (src/src/CTraderOAuthCorrelation.cpp): the *)
(* one-shot guard of the OAuth callback.  Arming it makes up a state value *)
(* for the authorization request; the first callback after that is judged  *)
(* and ends the guard, whatever the verdict.  Guards can be moved.         *)
(*                                                                         *)
(* A state value is a number and the generator never repeats one; 0 is an  *)
(* empty text.  A query is a sequence of parameters [name, value], the     *)
(* name "malformed" standing for one that does not parse.  A request also  *)
(* says which of its fields are not the expected ones.  The calls come in  *)
(* any order, with any reading of the clock.                               *)
(* X_Y is X with one plausible mistake Y, which no action uses.            *)
(***************************************************************************)
EXTENDS Integers, Sequences, FiniteSets

CONSTANTS
  Guards,          \* guard objects
  Callbacks,       \* requests that may arrive: [wrong, query]
  Lifetime,        \* CORRELATION_LIFETIME
  MaxTime,         \* the largest time the clock can express
  MaxParameters,   \* MAX_QUERY_PARAMETERS
  MaxArmed         \* bound: state values handed out

ASSUME GuardAssumption ==
  /\ IsFiniteSet(Guards) /\ Lifetime \in 1 .. MaxTime
  /\ MaxTime \in Nat /\ MaxParameters \in Nat /\ MaxArmed \in Nat

VARIABLES
  guards,    \* the guards
  issued,    \* history: per state value, the time it was armed
  matched    \* history: per state value, the times it was matched at

guardVars == <<guards, issued, matched>>

Times == 0 .. MaxTime
States == 1 .. Len(issued)

Unarmed == [phase |-> "Unarmed", decision |-> "Unarmed", armedAt |-> 0, expiresAt |-> 0,
            state |-> 0]

GuardInit ==
  /\ guards = [g \in Guards |-> Unarmed]
  /\ issued = <<>> /\ matched = <<>>

(***************************************************************************)
(* parseQuery.  The first parameter that is at fault decides; a query      *)
(* without fault is judged by which parameters it has.                     *)
(***************************************************************************)
Fault(query, i) ==
  LET p == query[i] IN
  IF i > MaxParameters \/ p.name = "malformed"         THEN "MalformedQuery"
  ELSE IF \E j \in 1 .. i - 1 : query[j].name = p.name THEN "DuplicateParameter"
  ELSE IF p.name = "code" /\ p.value = 0               THEN "CodeMissing"
  ELSE IF p.name = "state" /\ p.value = 0              THEN "StateMissing"
  ELSE IF p.name = "error" /\ p.value = 0              THEN "MalformedQuery"
  ELSE "none"

Named(query, name) == {query[i].value : i \in {j \in DOMAIN query : query[j].name = name}}

Matched == "CorrelationMatchedCodeDiscarded"

parseQuery(query) ==
  LET faulty == {i \in DOMAIN query : Fault(query, i) # "none"}
      has(name) == Named(query, name) # {} IN
  IF faulty # {} THEN Fault(query, CHOOSE i \in faulty : \A j \in faulty : i <= j)
  ELSE IF query = <<>>                THEN "MalformedQuery"
  ELSE IF has("error") /\ has("code") THEN "MalformedQuery"
  ELSE IF has("error")                THEN "AuthorizationRejected"
  ELSE IF ~has("state")               THEN "StateMissing"
  ELSE IF ~has("code")                THEN "CodeMissing"
  ELSE Matched

(* finish: the state value is wiped with every verdict.                    *)
Finished(guard, decision) ==
  [guard EXCEPT !.phase = "Terminal", !.decision = decision, !.state = 0]

Replayed(guard) == [guard EXCEPT !.decision = "AlreadyTerminal"]

(***************************************************************************)
(* Operations.                                                             *)
(***************************************************************************)

(* arm and armWithEntropy: arming a second time ends the guard.            *)
ArmedWith(guard, now, entropy, bound, state) ==
  IF guard.phase = "Armed"         THEN Finished(guard, "AlreadyTerminal")
  ELSE IF guard.phase = "Terminal" THEN Replayed(guard)
  ELSE IF ~entropy                 THEN Finished(guard, "EntropyUnavailable")
  ELSE IF ~bound                   THEN Finished(guard, "ListenerBindingRejected")
  ELSE IF now > MaxTime - Lifetime THEN Finished(guard, "CallbackExpired")
  ELSE [phase |-> "Armed", decision |-> "Armed", armedAt |-> now,
        expiresAt |-> now + Lifetime, state |-> state]

Arm(g, now, entropy, bound) ==
  LET armed == ArmedWith(guards[g], now, entropy, bound, Len(issued) + 1) IN
  /\ Len(issued) < MaxArmed
  /\ guards' = [guards EXCEPT ![g] = armed]
  /\ IF armed.phase = "Armed"
     THEN issued' = Append(issued, now) /\ matched' = Append(matched, <<>>)
     ELSE UNCHANGED <<issued, matched>>

(* The verdict on a callback of an armed guard, tests in the code's order. *)
Verdict(guard, request, now) ==
  LET parsed == parseQuery(request.query) IN
  IF now < guard.armedAt             THEN "CallbackBeforeArming"
  ELSE IF now >= guard.expiresAt     THEN "CallbackExpired"
  ELSE IF "remote" \in request.wrong THEN "UnexpectedRemote"
  ELSE IF "method" \in request.wrong THEN "UnexpectedMethod"
  ELSE IF "host" \in request.wrong   THEN "UnexpectedHost"
  ELSE IF "path" \in request.wrong   THEN "UnexpectedPath"
  ELSE IF parsed # Matched           THEN parsed
  ELSE IF guard.state \notin Named(request.query, "state") THEN "StateMismatch"
  ELSE Matched

Consumed(guard, request, now) ==
  IF guard.phase = "Unarmed"       THEN Finished(guard, "CallbackBeforeArming")
  ELSE IF guard.phase = "Terminal" THEN Replayed(guard)
  ELSE Finished(guard, Verdict(guard, request, now))

Consume(g, request, now) ==
  LET guard == guards[g]
      decision == Verdict(guard, request, now) IN
  /\ guards' = [guards EXCEPT ![g] = Consumed(guard, request, now)]
  /\ matched' = IF guard.phase = "Armed" /\ decision = Matched
                THEN [matched EXCEPT ![guard.state] = Append(@, now)] ELSE matched
  /\ UNCHANGED issued

Expired(guard, now) ==
  IF guard.phase = "Unarmed"       THEN Finished(guard, "CallbackBeforeArming")
  ELSE IF guard.phase = "Terminal" THEN Replayed(guard)
  ELSE IF now < guard.armedAt      THEN Finished(guard, "CallbackBeforeArming")
  ELSE IF now >= guard.expiresAt   THEN Finished(guard, "CallbackExpired")
  ELSE [guard EXCEPT !.decision = "Armed"]

ExpireIfDue(g, now) ==
  /\ guards' = [guards EXCEPT ![g] = Expired(guards[g], now)]
  /\ UNCHANGED <<issued, matched>>

Cancel(g) ==
  /\ guards' = [guards EXCEPT ![g] = IF @.phase = "Terminal" THEN Replayed(@)
                                     ELSE Finished(@, "Cancelled")]
  /\ UNCHANGED <<issued, matched>>

Move_SourceLeft(g, h) ==
  /\ g # h
  /\ guards' = [guards EXCEPT ![h] = guards[g]]
  /\ UNCHANGED <<issued, matched>>

(* The move assignment; the move constructor does the same to a new guard. *)
Move(g, h) ==
  /\ g # h
  /\ guards' = [guards EXCEPT ![h] = guards[g], ![g] = Finished(@, "AlreadyTerminal")]
  /\ UNCHANGED <<issued, matched>>

GuardNext ==
  \E g \in Guards :
    \/ \E now \in Times, entropy, bound \in BOOLEAN : Arm(g, now, entropy, bound)
    \/ \E request \in Callbacks, now \in Times : Consume(g, request, now)
    \/ \E now \in Times : ExpireIfDue(g, now)
    \/ Cancel(g)
    \/ \E h \in Guards : Move(g, h)

-----------------------------------------------------------------------------
(* One authorization request is answered at most once, by whichever guard  *)
(* its state value has been moved to, and within the lifetime that began   *)
(* when it was armed.                                                      *)
CorrelationMatchedOnce ==
  \A n \in States :
    /\ Len(matched[n]) <= 1
    /\ \A i \in DOMAIN matched[n] : matched[n][i] \in issued[n] .. issued[n] + Lifetime - 1

=============================================================================
