---------------------------- MODULE MCCTraderGates ----------------------------
(***************************************************************************)
(* Small evidence for the three cTrader objects: for every test of the     *)
(* code something that passes it and something that does not.              *)
(***************************************************************************)
EXTENDS CTraderGates

(***************************************************************************)
(* Callbacks: right and wrong state values, and every fault of a query.    *)
(***************************************************************************)
Parameter(name, value) == [name |-> name, value |-> value]

Code == Parameter("code", 9)
State(n) == Parameter("state", n)

MCQueries ==
  {<<Code, State(1)>>, <<Code, State(2)>>, <<Code>>, <<State(1)>>, <<>>,
   <<Code, State(1), Code>>, <<Code, State(0)>>, <<Parameter("code", 0), State(1)>>,
   <<Parameter("error", 3), State(1)>>, <<Parameter("error", 3), Code>>,
   <<Parameter("error", 0)>>, <<Code, Parameter("malformed", 1)>>,
   <<Parameter("x", 1), Parameter("y", 1), Code, State(1)>>}

MCCallbacks ==
  {[wrong |-> {}, query |-> q] : q \in MCQueries}
  \cup {[wrong |-> w, query |-> <<Code, State(1)>>] :
          w \in {{"remote"}, {"method", "host"}, {"host"}, {"path"}}}

(***************************************************************************)
(* Account lists of Gate 6.                                                *)
(***************************************************************************)
Account6(id, live, title) == [id |-> id, live |-> live, title |-> title]

MCAccounts6 ==
  {Account6(1, "no", "A"), Account6(2, "no", "A"), Account6(2, "no", "B"),
   Account6(3, "yes", "A"), Account6(0, "no", "B"), Account6(3, "absent", "A"),
   Account6(1, "no", "absent"), Account6(1, "no", "unsafe")}

MCUnvouched == {{}, {"generation", "scope"}, {"correlation"}, {"token"}, {"scope"}}

MCAccountLists == 
  {<<>>} \cup {<<a>> : a \in MCAccounts6} \cup
  {<<a, Account6(2, "no", "B")>> : a \in MCAccounts6} \cup
  {<<Account6(1, "no", "A"), a>> : a \in MCAccounts6}

(***************************************************************************)
(* Evidence of Gate 7.  Account 1 and symbol 4 are the right ones.         *)
(***************************************************************************)
MCLinks ==
  {[generation |-> 1, current |-> TRUE, correlated |-> TRUE],
   [generation |-> 1, current |-> TRUE, correlated |-> FALSE],
   [generation |-> 2, current |-> TRUE, correlated |-> TRUE],
   [generation |-> 1, current |-> FALSE, correlated |-> TRUE]}

Account7(id, live, title) == [id |-> id, live |-> live, title |-> title]

Listed(accounts) == [accounts |-> accounts, tokenOwned |-> TRUE, tradingScope |-> TRUE]

MCAccountAnswers ==
  LET fibo == Account7({1}, {FALSE}, {"FIBO"})
      second == Account7({2}, {FALSE}, {"FIBO"})
      real == Account7({3}, {TRUE}, {"FIBO"})
      other == Account7({4}, {FALSE}, {"other"}) IN
  {Listed(<<>>), Listed(<<fibo>>), Listed(<<real, fibo, other>>), Listed(<<second>>),
   Listed(<<fibo, second>>), Listed(<<Account7({}, {FALSE}, {"FIBO"})>>),
   [Listed(<<fibo>>) EXCEPT !.tokenOwned = FALSE],
   [Listed(<<fibo>>) EXCEPT !.tradingScope = FALSE]}

Gold == [letters |-> "XAUUSD", slashes |-> 1, other |-> FALSE]

Light(id, name) == [id |-> {id}, name |-> {name}, enabled |-> {TRUE}, archived |-> FALSE]

SymbolList(symbols) ==
  [account |-> 1, includeArchived |-> FALSE, symbols |-> symbols, archivedIds |-> {6}]

MCSymbolAnswers ==
  LET right == Light(4, Gold)
      plain == Light(5, [Gold EXCEPT !.slashes = 0])
      wrong == {[right EXCEPT !.enabled = {FALSE}], [right EXCEPT !.archived = TRUE],
                Light(6, Gold), Light(4, [Gold EXCEPT !.slashes = 2]),
                Light(4, [Gold EXCEPT !.other = TRUE])} IN
  {SymbolList(<<>>), SymbolList(<<right>>), SymbolList(<<plain>>), SymbolList(<<right, plain>>),
   [SymbolList(<<right>>) EXCEPT !.account = 2],
   [SymbolList(<<right>>) EXCEPT !.includeArchived = TRUE]}
  \cup {SymbolList(<<w, right>>) : w \in wrong} \cup {SymbolList(<<w>>) : w \in wrong}

Spec7 == [digits |-> 1, pip |-> 1, min |-> 2, max |-> 4, step |-> 2, lot |-> 1]

Full(id, spec) ==
  [id |-> {id}, name |-> {Gold}, enabled |-> {TRUE}, archived |-> {}, spec |-> spec]

FullList(symbols) == [account |-> 1, symbols |-> symbols, archivedIds |-> {}]

MCFullAnswers ==
  LET right == Full(4, {Spec7}) IN
  {FullList(<<right>>), FullList(<<right, right>>), FullList(<<Full(5, {Spec7})>>),
   FullList(<<Full(4, {})>>), FullList(<<Full(4, {[Spec7 EXCEPT !.max = 3]})>>),
   FullList(<<Full(4, {[Spec7 EXCEPT !.digits = 3, !.pip = 2]})>>),
   FullList(<<[right EXCEPT !.name = {[Gold EXCEPT !.slashes = 0]}]>>),
   FullList(<<[right EXCEPT !.enabled = {FALSE}]>>),
   FullList(<<[right EXCEPT !.archived = {TRUE}]>>),
   [FullList(<<right>>) EXCEPT !.account = 2],
   [FullList(<<right>>) EXCEPT !.archivedIds = {4}]}

MCSubscriptionAnswers ==
  {[account |-> a, symbol |-> s, count |-> n] : a \in {1, 2}, s \in {4, 5}, n \in {1, 2}}

(* Bids and asks on both sides of a rounding.  Received at 24, timestamp 3 *)
(* is fresh in the largest unit and 6 in the next, 2 is stale and 28 in    *)
(* the future, and 0 and 16 have no one closest reading; received at 4, 2  *)
(* is fresh in two units.  The larger units do not fit 16 and 28.          *)
MCSpots ==
  [account : {1, 2}, symbol : {4}, subscribed : {TRUE}, bid : {{}, {114}, {115}},
   ask : {{}, {114}}, timestamp : {{}, {-1}, {0}, {2}, {3}, {6}, {16}, {28}},
   receipt : {4, 24}]
  \cup [account : {1}, symbol : {4, 5}, subscribed : BOOLEAN, bid : {{0}, {114}},
        ask : {{116}, {1000}}, timestamp : {{24}}, receipt : {0, 24}]

MCAccountIds == {0, 1, 2}

MCMultipliers == <<8, 4, 2, 1>>

=============================================================================
