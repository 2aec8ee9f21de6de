----------------------------- MODULE CTraderGate7 -----------------------------
(***************************************************************************)
(* CTraderGate7Proof (src/src/CTraderGate7Proof.cpp): the proof that a     *)
(* fresh XAUUSD quote of the one FIBO demo account was received on one     *)
(* connection.  Account list, account authentication, symbol list, full    *)
(* symbol, subscription and spot event must be accepted in this order;     *)
(* anything else ends the proof, but for a spot that lacks a part.         *)
(*                                                                         *)
(* The calls come in any order.  Evidence carries "link", which vouches    *)
(* for the transport: [generation, current, correlated].  An optional      *)
(* field is a set of at most one value.  A symbol name is                  *)
(* [letters, slashes, other]: its letters in upper case, the number of its *)
(* slashes and whether it has any other character.                         *)
(* X_Y is X with one plausible mistake Y, which no action uses.            *)
(***************************************************************************)
EXTENDS Integers, Sequences, FiniteSets

CONSTANTS
  Generation,      \* generation of the connection, not 0
  Links,           \* what the transport may vouch for
  AccountAnswers, SymbolAnswers, FullAnswers, SubscriptionAnswers, Spots,
                   \* evidence that may arrive, without its link
  AccountIds,      \* accounts an authentication answer may name
  WireDigits,      \* digits of a price on the wire, 5
  MaxScale,        \* Decimal64::MAX_SCALE
  MaxUnits,        \* largest int64_t
  MaxStamp,        \* largest uint64_t
  Multipliers,     \* nanoseconds of a second, millisecond, ...
  MaxAge, MaxFuture

ASSUME Gate7Assumption ==
  /\ Generation \in Nat \ {0} /\ WireDigits \in Nat /\ MaxScale \in Nat
  /\ MaxUnits \in Nat \ {0} /\ MaxStamp \in Nat /\ MaxAge \in Nat /\ MaxFuture \in Nat
  /\ Multipliers \in Seq(Nat \ {0})

(* An optional field holds one value or none.                              *)
Optional(field) == \A v, w \in field : v = w

ASSUME EvidenceAssumption ==
  /\ \A answer \in AccountAnswers : \A i \in DOMAIN answer.accounts :
       Optional(answer.accounts[i].id)
  /\ \A answer \in SymbolAnswers : \A i \in DOMAIN answer.symbols :
       Optional(answer.symbols[i].id)

VARIABLES
  gate7,     \* the proof object
  accepted   \* history: the evidence accepted, by phase

gate7Vars == <<gate7, accepted>>

Gate7Init ==
  /\ gate7 = [generation |-> Generation, phase |-> "AccountList", decision |-> "Ready",
              account |-> 0, symbol |-> 0, name |-> {}, instrument |-> {},
              subscribed |-> FALSE, quote |-> {}]
  /\ accepted = [phase \in {} |-> {}]

Ended7(proof) == proof.phase \in {"Terminal", "Complete"}

(* clearSensitiveState.                                                    *)
Wiped(proof) ==
  [proof EXCEPT !.account = 0, !.symbol = 0, !.name = {}, !.instrument = {},
                !.subscribed = FALSE]

(* finish and clearAll.                                                    *)
Finished7(proof, decision) ==
  [Wiped(proof) EXCEPT !.generation = 0, !.quote = {}, !.phase = "Terminal",
                       !.decision = decision]

(* An ended proof only remembers that it was ended again.                  *)
Replayed7(proof) == [proof EXCEPT !.decision = "AlreadyTerminal"]

validateTransportEvidence(proof, link) ==
  IF ~link.current \/ link.generation = 0 \/ link.generation # proof.generation
  THEN "StaleConnectionGeneration"
  ELSE IF ~link.correlated THEN "CorrelationRejected" ELSE "Ready"

(* The tests every list and the subscription begin with; outcome is what   *)
(* the others lead to.                                                     *)
Admitted(proof, link, phase, outcome) ==
  LET transport == validateTransportEvidence(proof, link) IN
  IF Ended7(proof)             THEN proof
  ELSE IF proof.phase # phase  THEN Finished7(proof, "WrongPhase")
  ELSE IF transport # "Ready"  THEN Finished7(proof, transport)
  ELSE outcome

(* Whether a list has just one entry that fits, and which one.             *)
Single(places) == \E i \in places : places = {i}

The(places) == CHOOSE i \in places : TRUE

(***************************************************************************)
(* The account: [id, live, title].                                         *)
(***************************************************************************)
FiboDemo(account) ==
  /\ \E id \in account.id : id \in 1 .. MaxUnits
  /\ account.live = {FALSE} /\ account.title = {"FIBO"}

FiboAccounts(answer) == {i \in DOMAIN answer.accounts : FiboDemo(answer.accounts[i])}

acceptAccountList(proof, link, answer) ==
  LET matches == FiboAccounts(answer) IN
  Admitted(proof, link, "AccountList",
    IF ~answer.tokenOwned        THEN Finished7(proof, "TokenOwnershipRejected")
    ELSE IF ~answer.tradingScope THEN Finished7(proof, "TradingScopeRequired")
    ELSE IF matches = {}         THEN Finished7(proof, "NoFiboDemoAccount")
    ELSE IF ~Single(matches)     THEN Finished7(proof, "AmbiguousFiboDemoAccount")
    ELSE [proof EXCEPT !.account = The(answer.accounts[The(matches)].id),
                       !.phase = "AccountAuthentication",
                       !.decision = "AccountAuthenticationReady"])

(* There is no test for an ended proof here.                               *)
acceptAccountAuthentication(proof, id) ==
  IF proof.phase = "AccountAuthentication" /\ id > 0 /\ id = proof.account
  THEN [proof EXCEPT !.phase = "SymbolsList", !.decision = "SymbolListReady"]
  ELSE Finished7(proof, "InvalidAccountIdentifier")

(***************************************************************************)
(* The symbol: [id, name, enabled, archived].                              *)
(***************************************************************************)
isCanonicalXauusd(name) == name.letters = "XAUUSD" /\ name.slashes <= 1 /\ ~name.other

Tradable(symbol, archivedIds) ==
  /\ \E id \in symbol.id : id > 0 /\ id \notin archivedIds
  /\ \E name \in symbol.name : isCanonicalXauusd(name)
  /\ symbol.enabled = {TRUE} /\ ~symbol.archived

GoldSymbols(answer) ==
  {i \in DOMAIN answer.symbols : Tradable(answer.symbols[i], answer.archivedIds)}

acceptSymbolsList(proof, link, answer) ==
  LET matches == GoldSymbols(answer) IN
  Admitted(proof, link, "SymbolsList",
    IF answer.account = 0 \/ answer.account # proof.account
                                THEN Finished7(proof, "InvalidAccountIdentifier")
    ELSE IF answer.includeArchived THEN Finished7(proof, "MissingSymbolMetadata")
    ELSE IF matches = {}        THEN Finished7(proof, "NoCanonicalXauusd")
    ELSE IF ~Single(matches)    THEN Finished7(proof, "AmbiguousCanonicalXauusd")
    ELSE [proof EXCEPT !.symbol = The(answer.symbols[The(matches)].id),
                       !.name = answer.symbols[The(matches)].name,
                       !.phase = "FullSymbol", !.decision = "FullSymbolReady"])

(* digits, pip position and the volumes [min, max, step, lot].             *)
Usable(spec) ==
  /\ spec.digits \in 0 .. MaxScale /\ spec.pip \in 0 .. spec.digits
  /\ spec.min > 0 /\ spec.max >= spec.min /\ spec.step > 0 /\ spec.lot > 0
  /\ spec.min % spec.step = 0 /\ spec.max % spec.step = 0

FullSymbols(answer, id) == {i \in DOMAIN answer.symbols : answer.symbols[i].id = {id}}

acceptFullSymbol(proof, link, answer) ==
  LET named == FullSymbols(answer, proof.symbol)
      match == answer.symbols[The(named)]
      agrees == /\ match.name \subseteq proof.name
                /\ FALSE \notin match.enabled /\ TRUE \notin match.archived IN
  Admitted(proof, link, "FullSymbol",
    IF answer.account # proof.account \/ answer.account = 0
                             THEN Finished7(proof, "InvalidAccountIdentifier")
    ELSE IF proof.symbol \in answer.archivedIds
                             THEN Finished7(proof, "SymbolMetadataRejected")
    ELSE IF ~Single(named)   THEN Finished7(proof, "FullSymbolMismatch")
    ELSE IF ~agrees          THEN Finished7(proof, "SymbolMetadataRejected")
    ELSE IF match.spec = {}  THEN Finished7(proof, "MissingSymbolMetadata")
    ELSE IF ~\E spec \in match.spec : Usable(spec)
                             THEN Finished7(proof, "SymbolMetadataRejected")
    ELSE [proof EXCEPT !.instrument = match.spec,
                       !.phase = "Subscription", !.decision = "SubscriptionReady"])

acceptSubscription(proof, link, answer) ==
  Admitted(proof, link, "Subscription",
    IF \/ answer.account # proof.account \/ answer.account = 0
       \/ answer.symbol # proof.symbol \/ answer.symbol = 0 \/ answer.count # 1
    THEN Finished7(proof, "SubscriptionMismatch")
    ELSE [proof EXCEPT !.subscribed = TRUE, !.phase = "Spot",
                       !.decision = "SubscriptionReady"])

(***************************************************************************)
(* Prices and timestamps.                                                  *)
(***************************************************************************)

(* From the wire's digits to those of the instrument, halves away from     *)
(* zero; {} where the result is not representable.                         *)
normalizeSpotPrice(raw, digits) ==
  LET factor == 10 ^ (IF digits > WireDigits THEN digits - WireDigits ELSE WireDigits - digits)
      value == IF digits >= WireDigits THEN raw * factor
               ELSE raw \div factor + (IF (raw % factor) * 2 >= factor THEN 1 ELSE 0) IN
  {v \in {value} \cap 0 .. MaxUnits : raw \in 1 .. MaxUnits /\ digits \in 0 .. MaxScale}

Distance(a, b) == IF a <= b THEN b - a ELSE a - b

Fresh(stamp, receipt) == stamp \in receipt - MaxAge .. receipt + MaxFuture

(* The units in which a raw timestamp is representable.                    *)
Readings(raw) == {i \in DOMAIN Multipliers : raw * Multipliers[i] <= MaxStamp}

(* classifyTimestampDetailed: exactly one unit must make it fresh.  Where  *)
(* none does, the closest reading says whether it is old or in the future. *)
classifyTimestamp(raw, receipt) ==
  LET stamp(i) == raw * Multipliers[i]
      fresh == {i \in Readings(raw) : Fresh(stamp(i), receipt)}
      closest == {i \in Readings(raw) : \A j \in Readings(raw) :
                    Distance(stamp(i), receipt) <= Distance(stamp(j), receipt)} IN
  IF receipt = 0 \/ Cardinality(fresh) > 1 THEN "TimestampUnitUnproven"
  ELSE IF Cardinality(fresh) = 1           THEN "Ready"
  ELSE IF Cardinality(closest) # 1         THEN "TimestampUnitUnproven"
  ELSE IF \A i \in closest : stamp(i) < receipt THEN "TimestampStale"
  ELSE "TimestampFuture"

(***************************************************************************)
(* The spot event: [account, symbol, bid, ask, timestamp, receipt], and    *)
(* whether it belongs to the subscription.  Nothing is kept of one that    *)
(* lacks a part.                                                           *)
(***************************************************************************)
SpotOrigin_AccountTrusted(proof, link, spot) ==
  IF ~link.current \/ link.generation # proof.generation THEN "StaleConnectionGeneration"
  ELSE IF ~spot.subscribed THEN "SubscriptionMismatch"
  ELSE IF spot.symbol # proof.symbol \/ spot.symbol = 0 THEN "SpotSymbolMismatch" ELSE "Ready"

SpotOrigin(proof, link, spot) ==
  IF ~link.current \/ link.generation # proof.generation THEN "StaleConnectionGeneration"
  ELSE IF ~spot.subscribed                                THEN "SubscriptionMismatch"
  ELSE IF spot.account # proof.account \/ spot.account = 0 THEN "SpotAccountMismatch"
  ELSE IF spot.symbol # proof.symbol \/ spot.symbol = 0   THEN "SpotSymbolMismatch"
  ELSE "Ready"

(* The price of a side in the instrument's digits, {} where it has none.   *)
Price(proof, side) ==
  UNION {normalizeSpotPrice(raw, spec.digits) : raw \in side, spec \in proof.instrument}

Crossed(bids, asks) == \E b \in bids, a \in asks : b > a

(* What speaks against the timestamp.                                      *)
Doubted(spot) == {classifyTimestamp(t, spot.receipt) : t \in spot.timestamp} \ {"Ready"}

Quotes(bids, asks) ==
  {[bid |-> b, ask |-> a, spread |-> a - b] : b \in bids, a \in asks}

acceptSpot(proof, link, spot) ==
  LET origin == SpotOrigin(proof, link, spot)
      bids == Price(proof, spot.bid)
      asks == Price(proof, spot.ask)
      partial == spot.bid = {} \/ spot.ask = {}
      doubted == Doubted(spot) IN
  IF Ended7(proof)                THEN proof
  ELSE IF proof.phase # "Spot" \/ ~proof.subscribed THEN Finished7(proof, "WrongPhase")
  ELSE IF origin # "Ready"        THEN Finished7(proof, origin)
  ELSE IF \E raw \in spot.bid \cup spot.ask : raw \notin 1 .. MaxUnits
                                  THEN Finished7(proof, "InvalidSpot")
  ELSE IF \E t \in spot.timestamp : t < 0
                                  THEN Finished7(proof, "TimestampUnitUnproven")
  ELSE IF partial /\ doubted # {} THEN Finished7(proof, The(doubted))
  ELSE IF partial                 THEN [proof EXCEPT !.decision = "IncompleteSpotSide"]
  ELSE IF Crossed(spot.bid, spot.ask) THEN Finished7(proof, "CrossedMarket")
  ELSE IF bids = {} \/ asks = {}  THEN Finished7(proof, "CheckedArithmeticFailed")
  ELSE IF Crossed(bids, asks)     THEN Finished7(proof, "CrossedMarket")
  ELSE IF spot.timestamp = {}     THEN [proof EXCEPT !.decision = "IncompleteSpotTimestamp"]
  ELSE IF doubted # {}            THEN Finished7(proof, The(doubted))
  ELSE [Wiped(proof) EXCEPT !.phase = "Complete", !.decision = "QuoteProofSucceeded",
                            !.quote = Quotes(bids, asks)]

terminal_EvenEnded(proof, decision) == Finished7(proof, decision)

terminal(proof, decision) ==
  IF Ended7(proof) THEN Replayed7(proof) ELSE Finished7(proof, decision)

(***************************************************************************)
(* The calls.  The ones that copy a name or an instrument may run out of   *)
(* memory.                                                                 *)
(***************************************************************************)
Advances(proof) == proof.phase \notin {gate7.phase, "Terminal"}

Call(outcome, evidence) ==
  /\ \/ gate7' = outcome
     \/ /\ Advances(outcome) /\ gate7.phase \in {"SymbolsList", "FullSymbol", "Spot"}
        /\ gate7' = Finished7(gate7, "ResourceExhausted")
  /\ accepted' = IF Advances(gate7')
                 THEN [phase \in DOMAIN accepted \cup {gate7.phase} |->
                         IF phase = gate7.phase THEN evidence ELSE accepted[phase]]
                 ELSE accepted

AcceptAccountList(link, answer) ==
  Call(acceptAccountList(gate7, link, answer), [link |-> link, answer |-> answer])

AcceptAccountAuthentication(id) ==
  Call(acceptAccountAuthentication(gate7, id), id)

AcceptSymbolsList(link, answer) ==
  Call(acceptSymbolsList(gate7, link, answer), [link |-> link, answer |-> answer])

AcceptFullSymbol(link, answer) ==
  Call(acceptFullSymbol(gate7, link, answer), [link |-> link, answer |-> answer])

AcceptSubscription(link, answer) ==
  Call(acceptSubscription(gate7, link, answer), [link |-> link, answer |-> answer])

AcceptSpot(link, spot) ==
  Call(acceptSpot(gate7, link, spot), [link |-> link, answer |-> spot])

(* What the owner ends the proof with.                                     *)
Endings == {"ProviderError", "Timeout", "Cancelled", "MalformedFrame"}

Terminal(decision) == Call(terminal(gate7, decision), decision)

Gate7Next ==
  \/ \E link \in Links :
       \/ \E answer \in AccountAnswers : AcceptAccountList(link, answer)
       \/ \E answer \in SymbolAnswers : AcceptSymbolsList(link, answer)
       \/ \E answer \in FullAnswers : AcceptFullSymbol(link, answer)
       \/ \E answer \in SubscriptionAnswers : AcceptSubscription(link, answer)
       \/ \E spot \in Spots : AcceptSpot(link, spot)
  \/ \E id \in AccountIds : AcceptAccountAuthentication(id)
  \/ \E decision \in Endings : Terminal(decision)

-----------------------------------------------------------------------------
(* A quote stands only at the end of one unbroken path: the six answers    *)
(* were accepted on the connection the proof was made for, all of them for *)
(* the only FIBO demo account and the only tradable XAUUSD of the lists;   *)
(* the prices do not cross, and just one reading of the timestamp is fresh.*)
QuoteIsProven ==
  gate7.quote # {} =>
    LET answer(phase) == accepted[phase].answer
        answered == {"AccountList", "SymbolsList", "FullSymbol", "Subscription", "Spot"}
        account == accepted["AccountAuthentication"]
        symbol  == answer("Subscription").symbol
        fibo == FiboAccounts(answer("AccountList"))
        gold == GoldSymbols(answer("SymbolsList"))
        spot == answer("Spot") IN
    /\ DOMAIN accepted = answered \cup {"AccountAuthentication"}
    /\ \A phase \in answered : /\ accepted[phase].link.generation = Generation
                                /\ accepted[phase].link.current
    /\ \E i \in fibo : fibo = {i} /\ answer("AccountList").accounts[i].id = {account}
    /\ \E i \in gold : gold = {i} /\ answer("SymbolsList").symbols[i].id = {symbol}
    /\ \A phase \in answered \ {"AccountList"} : answer(phase).account = account
    /\ spot.symbol = symbol /\ symbol \notin answer("FullSymbol").archivedIds
    /\ \A quote \in gate7.quote : quote.bid <= quote.ask /\ quote.spread >= 0
    /\ \A t \in spot.timestamp :
         Cardinality({i \in Readings(t) : Fresh(t * Multipliers[i], spot.receipt)}) = 1
    /\ spot.timestamp # {}

=============================================================================
