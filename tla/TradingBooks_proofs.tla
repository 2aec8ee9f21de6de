------------------------- MODULE TradingBooks_proofs -------------------------
(***************************************************************************)
(* Proofs about the books of TradingSession: for any fees, slippage,       *)
(* prices and candle files, cash and fees balance to the unit through      *)
(* entries, additions, partial and full exits, valuations, checkpoints and *)
(* resumed starts, every variable of a session keeps its type, every       *)
(* checkpoint of a BACKTEST can be taken and loaded again, and a trade     *)
(* that the engine has sized is booked, as long as amounts have room.      *)
(***************************************************************************)
EXTENDS TradingSession_proofs

-----------------------------------------------------------------------------
(***************************************************************************)
(* Sums over functions.                                                    *)
(***************************************************************************)
(* What a sum takes from the set s first.                                 *)
Pick(s) == CHOOSE x \in s : TRUE

(* The partial sums of f.                                                  *)
Partial(f) == CHOOSE g : g = [s \in SUBSET DOMAIN f |->
                                IF s = {} THEN 0 ELSE f[Pick(s)] + g[s \ {Pick(s)}]]

LEMMA SumIsFold ==
  ASSUME NEW f
  PROVE  SumFunction(f) = Partial(f)[DOMAIN f]
BY DEF SumFunction, SumFunctionOnSet, FoldFunctionOnSet, MapThenFoldSet, Partial, Pick

(* By induction there is a function that is right for all subsets of a set.*)
LEMMA PartialExists ==
  ASSUME NEW f, IsFiniteSet(DOMAIN f)
  PROVE  Partial(f) = [s \in SUBSET DOMAIN f |->
                         IF s = {} THEN 0 ELSE f[Pick(s)] + Partial(f)[s \ {Pick(s)}]]
<1> DEFINE D == DOMAIN f
           Step(g) == [s \in SUBSET D |-> IF s = {} THEN 0 ELSE f[Pick(s)] + g[s \ {Pick(s)}]]
           Upto(g, n) == \A s \in SUBSET D : Cardinality(s) <= n => g[s] = Step(g)[s]
           Good == {T \in SUBSET D : \E g : g = [s \in SUBSET D |-> g[s]] /\ Upto(g, Cardinality(T))}
<1>1. \A T \in SUBSET D : (\A U \in SUBSET T : U # T => U \in Good) => T \in Good
  <2> SUFFICES ASSUME NEW T \in SUBSET D, \A U \in SUBSET T : U # T => U \in Good
               PROVE  T \in Good
    OBVIOUS
  <2>1. \A s \in SUBSET D : IsFiniteSet(s) /\ Cardinality(s) \in Nat /\ (Cardinality(s) = 0 <=> s = {})
    BY FS_Subset, FS_CardinalityType, FS_EmptySet
  <2>2. CASE T = {}
    <3> DEFINE g == [s \in SUBSET D |-> 0]
    <3>1. \A s \in SUBSET D : Cardinality(s) <= Cardinality(T) => s = {}
      BY <2>1, <2>2
    <3>2. g = [s \in SUBSET D |-> g[s]] /\ Upto(g, Cardinality(T))
      BY <3>1
    <3> HIDE DEF g
    <3> QED
      BY <3>2
  <2>3. CASE T # {}
    <3> DEFINE x == Pick(T)
    <3>1. x \in T
      BY <2>3 DEF Pick
    <3>2. T \ {x} \in Good /\ T \ {x} \in SUBSET D
      BY <3>1
    <3>3. Cardinality(T \ {x}) = Cardinality(T) - 1
      BY <2>1, <3>1, FS_RemoveElement
    <3>4. PICK g : g = [s \in SUBSET D |-> g[s]] /\ Upto(g, Cardinality(T \ {x}))
      BY <3>2
    <3> DEFINE h == Step(g)
    <3>5. \A s \in SUBSET D : s # {} =>
            /\ s \ {Pick(s)} \in SUBSET D
            /\ Cardinality(s \ {Pick(s)}) = Cardinality(s) - 1
      <4> SUFFICES ASSUME NEW s \in SUBSET D, s # {}
                   PROVE  Cardinality(s \ {Pick(s)}) = Cardinality(s) - 1
        OBVIOUS
      <4>1. Pick(s) \in s
        BY DEF Pick
      <4> QED
        BY <2>1, <4>1, FS_RemoveElement
    <3>6. ASSUME NEW s \in SUBSET D, Cardinality(s) <= Cardinality(T)
          PROVE  h[s] = Step(h)[s]
      <4>1. CASE s = {}
        BY <4>1
      <4>2. CASE s # {}
        <5> DEFINE r == s \ {Pick(s)}
        <5>1. r \in SUBSET D /\ Cardinality(r) <= Cardinality(T \ {x})
          BY <2>1, <3>3, <3>5, <3>6, <4>2
        <5>2. g[r] = h[r]
          BY <3>4, <5>1
        <5>3. h[s] = f[Pick(s)] + g[r] /\ Step(h)[s] = f[Pick(s)] + h[r]
          BY <4>2
        <5> QED
          BY <5>2, <5>3
      <4> QED
        BY <4>1, <4>2
    <3>7. h = [s \in SUBSET D |-> h[s]]
      OBVIOUS
    <3>8. Upto(h, Cardinality(T))
      BY <3>6
    <3> HIDE DEF h
    <3> QED
      BY <3>7, <3>8
  <2> QED
    BY <2>2, <2>3
<1> HIDE DEF Good
<1>2. D \in Good
  BY <1>1, SubsetInduction
<1> USE DEF Good
<1>3. PICK g : g = [s \in SUBSET D |-> g[s]] /\ Upto(g, Cardinality(D))
  BY <1>2
<1>4. \A s \in SUBSET D : Cardinality(s) <= Cardinality(D)
  BY FS_Subset
<1>5. g = Step(g)
  BY <1>3, <1>4
<1> HIDE DEF Step, Upto, Good
<1>6. \E q : q = Step(q)
  BY <1>5
<1> USE DEF Step
<1> QED
  BY <1>6 DEF Partial

IntegerFunction(f) == IsFiniteSet(DOMAIN f) /\ \A x \in DOMAIN f : f[x] \in Int

(* Any element may be taken from a sum first.                              *)
LEMMA PartialRemove ==
  ASSUME NEW f, IntegerFunction(f), NEW s \in SUBSET DOMAIN f
  PROVE  /\ Partial(f)[s] \in Int
         /\ \A x \in s : Partial(f)[s] = f[x] + Partial(f)[s \ {x}]
<1> DEFINE D == DOMAIN f
           g == Partial(f)
           Good == {t \in SUBSET D : g[t] \in Int /\ \A x \in t : g[t] = f[x] + g[t \ {x}]}
<1>1. /\ g[{}] = 0
      /\ \A t \in SUBSET D : t # {} => g[t] = f[Pick(t)] + g[t \ {Pick(t)}]
  BY PartialExists DEF IntegerFunction
<1> HIDE DEF g
<1>2. \A t \in SUBSET D : (\A u \in SUBSET t : u # t => u \in Good) => t \in Good
  <2> SUFFICES ASSUME NEW t \in SUBSET D, \A u \in SUBSET t : u # t => u \in Good
               PROVE  t \in Good
    OBVIOUS
  <2>1. CASE t = {}
    BY <1>1, <2>1
  <2>2. CASE t # {}
    <3> DEFINE c == Pick(t)
    <3>1. c \in t /\ f[c] \in Int
      BY <2>2 DEF Pick, IntegerFunction
    <3>2. g[t] = f[c] + g[t \ {c}] /\ g[t \ {c}] \in Int
      BY <1>1, <2>2, <3>1
    <3> HIDE DEF c
    <3>3. ASSUME NEW x \in t PROVE g[t] = f[x] + g[t \ {x}]
      <4>1. CASE x = c
        BY <3>2, <4>1
      <4>2. CASE x # c
        <5>1. f[x] \in Int
          BY DEF IntegerFunction
        <5>2. t \ {c} \in Good /\ t \ {x} \in Good /\ x \in t \ {c} /\ c \in t \ {x}
          BY <3>1, <4>2
        <5>3. (t \ {c}) \ {x} = (t \ {x}) \ {c} /\ (t \ {x}) \ {c} \in Good
          BY <3>1, <4>2
        <5> DEFINE r == (t \ {x}) \ {c}
        <5>4. g[t \ {c}] = f[x] + g[r] /\ g[t \ {x}] = f[c] + g[r] /\ g[r] \in Int
          BY <5>2, <5>3
        <5> QED
          BY <3>1, <3>2, <5>1, <5>4
      <4> QED
        BY <4>1, <4>2
    <3> QED
      BY <3>1, <3>2, <3>3
  <2> QED
    BY <2>1, <2>2
<1>3. IsFiniteSet(D) /\ s \in SUBSET D
  BY DEF IntegerFunction
<1> HIDE DEF Good, D
<1>4. \A t \in SUBSET D : t \in Good
  BY <1>2, <1>3, SubsetInduction
<1>5. s \in Good
  BY <1>3, <1>4
<1> QED
  BY <1>5 DEF Good, g

LEMMA PartialAgree ==
  ASSUME NEW f, NEW h, IntegerFunction(f), IntegerFunction(h),
         NEW s, s \subseteq DOMAIN f, s \subseteq DOMAIN h, \A x \in s : f[x] = h[x]
  PROVE  Partial(f)[s] = Partial(h)[s]
<1> DEFINE Good == {t \in SUBSET s : Partial(f)[t] = Partial(h)[t]}
<1>1. Partial(f)[{}] = 0 /\ Partial(h)[{}] = 0
  BY PartialExists DEF IntegerFunction
<1>2. \A t \in SUBSET s : (\A u \in SUBSET t : u # t => u \in Good) => t \in Good
  <2> SUFFICES ASSUME NEW t \in SUBSET s, \A u \in SUBSET t : u # t => u \in Good
               PROVE  Partial(f)[t] = Partial(h)[t]
    OBVIOUS
  <2>1. CASE t = {}
    BY <1>1, <2>1
  <2>2. CASE t # {}
    <3>1. PICK x \in t : TRUE
      BY <2>2
    <3>2. Partial(f)[t] = f[x] + Partial(f)[t \ {x}] /\ Partial(h)[t] = h[x] + Partial(h)[t \ {x}]
      BY PartialRemove
    <3>3. Partial(f)[t \ {x}] = Partial(h)[t \ {x}]
      OBVIOUS
    <3> QED
      BY <3>2, <3>3
  <2> QED
    BY <2>1, <2>2
<1> HIDE DEF Good
<1>3. IsFiniteSet(s)
  BY FS_Subset DEF IntegerFunction
<1>4. s \in Good
  BY <1>2, <1>3, SubsetInduction
<1> QED
  BY <1>4 DEF Good

LEMMA SumOfNothing ==
  ASSUME NEW f, DOMAIN f = {}
  PROVE  SumFunction(f) = 0
BY SumIsFold, PartialExists, FS_EmptySet

LEMMA SumIsInteger ==
  ASSUME NEW f, IntegerFunction(f)
  PROVE  SumFunction(f) \in Int
BY SumIsFold, PartialRemove

(* A sum with one term more.                                               *)
LEMMA SumAdds ==
  ASSUME NEW f, NEW h, NEW x, IntegerFunction(f), IntegerFunction(h),
         DOMAIN h = DOMAIN f \cup {x}, x \notin DOMAIN f, \A y \in DOMAIN f : h[y] = f[y]
  PROVE  SumFunction(h) = SumFunction(f) + h[x]
<1>1. Partial(h)[DOMAIN h] = h[x] + Partial(h)[DOMAIN h \ {x}]
  BY PartialRemove
<1>2. DOMAIN h \ {x} = DOMAIN f
  OBVIOUS
<1>3. Partial(h)[DOMAIN f] = Partial(f)[DOMAIN f]
  BY PartialAgree
<1> QED
  BY <1>1, <1>2, <1>3, SumIsFold, SumIsInteger DEF IntegerFunction

(* A sum with one term changed.                                            *)
LEMMA SumChanges ==
  ASSUME NEW f, NEW h, NEW x \in DOMAIN f, IntegerFunction(f), IntegerFunction(h),
         DOMAIN h = DOMAIN f, \A y \in DOMAIN f \ {x} : h[y] = f[y]
  PROVE  SumFunction(h) = SumFunction(f) - f[x] + h[x]
<1> DEFINE r == DOMAIN f \ {x}
<1>1. Partial(h)[DOMAIN f] = h[x] + Partial(h)[r] /\ Partial(f)[DOMAIN f] = f[x] + Partial(f)[r]
  BY PartialRemove
<1>2. Partial(h)[r] = Partial(f)[r] /\ Partial(f)[r] \in Int
  <2>1. r \subseteq DOMAIN f /\ r \subseteq DOMAIN h
    OBVIOUS
  <2>2. Partial(h)[r] = Partial(f)[r]
    BY <2>1, PartialAgree
  <2> QED
    BY <2>1, <2>2, PartialRemove
<1>3. f[x] \in Int /\ h[x] \in Int
  BY DEF IntegerFunction
<1> QED
  BY <1>1, <1>2, <1>3, SumIsFold

(* Equal terms, equal sums.                                                *)
LEMMA SumSame ==
  ASSUME NEW f, NEW h, IntegerFunction(f), IntegerFunction(h),
         DOMAIN h = DOMAIN f, \A y \in DOMAIN f : h[y] = f[y]
  PROVE  SumFunction(h) = SumFunction(f)
BY SumIsFold, PartialAgree

(* A sum with one term less.                                               *)
LEMMA SumLoses ==
  ASSUME NEW f, NEW h, NEW x \in DOMAIN f, IntegerFunction(f), IntegerFunction(h),
         DOMAIN h = DOMAIN f \ {x}, \A y \in DOMAIN h : h[y] = f[y]
  PROVE  SumFunction(h) = SumFunction(f) - f[x]
<1>1. SumFunction(f) = SumFunction(h) + f[x]
  BY SumAdds
<1>2. SumFunction(h) \in Int /\ f[x] \in Int
  BY SumIsInteger DEF IntegerFunction
<1> QED
  BY <1>1, <1>2

(* Natural terms, a natural sum.                                           *)
LEMMA SumIsNatural ==
  ASSUME NEW f, IsFiniteSet(DOMAIN f), \A x \in DOMAIN f : f[x] \in Nat
  PROVE  SumFunction(f) \in Nat
<1> DEFINE D == DOMAIN f
           g == Partial(f)
           Good == {s \in SUBSET D : g[s] \in Nat}
<1>1. IntegerFunction(f) /\ IsFiniteSet(D) /\ \A x \in D : f[x] \in Nat
  BY DEF IntegerFunction
<1>2. g[{}] = 0
  BY PartialExists
<1>3. \A s \in SUBSET D : \A x \in s : g[s] = f[x] + g[s \ {x}]
  BY <1>1, PartialRemove
<1> HIDE DEF g, D
<1>4. \A s \in SUBSET D : (\A u \in SUBSET s : u # s => u \in Good) => s \in Good
  <2> SUFFICES ASSUME NEW s \in SUBSET D, \A u \in SUBSET s : u # s => u \in Good
               PROVE  g[s] \in Nat
    OBVIOUS
  <2>1. ASSUME NEW x \in s PROVE g[s] \in Nat
    <3>1. g[s \ {x}] \in Nat /\ f[x] \in Nat
      BY <1>1
    <3>2. g[s] = f[x] + g[s \ {x}]
      BY <1>3
    <3> QED
      BY <3>1, <3>2
  <2>2. CASE s = {}
    BY <1>2, <2>2
  <2> QED
    BY <2>1, <2>2
<1> HIDE DEF Good
<1>5. D \in Good
  BY <1>1, <1>4, SubsetInduction
<1> QED
  BY <1>5, SumIsFold DEF Good, D, g

-----------------------------------------------------------------------------
(***************************************************************************)
(* Arithmetic.  An operation yields at most one value, in range.           *)
(***************************************************************************)
Amount == -MaxUnits - 1 .. MaxUnits

Optional(o, values) == o \subseteq values /\ \A x, y \in o : x = y

LEMMA TheValue ==
  ASSUME NEW o, NEW values, Optional(o, values), HasValue(o)
  PROVE  ValueOf(o) \in values /\ ValueOf(o) \in o /\ \A x \in o : x = ValueOf(o)
BY ValueIn DEF Optional

LEMMA ThePositive ==
  ASSUME NEW o, NEW values, Optional(o, values), IsPositive(o)
  PROVE  HasValue(o) /\ ValueOf(o) > 0
<1>1. HasValue(o)
  BY DEF IsPositive, HasValue, None
<1> QED
  BY <1>1, TheValue DEF IsPositive

LEMMA TheNotNegative ==
  ASSUME NEW o, NEW values, Optional(o, values), IsNotNegative(o)
  PROVE  HasValue(o) /\ ValueOf(o) >= 0
<1>1. HasValue(o)
  BY DEF IsNotNegative, HasValue, None
<1> QED
  BY <1>1, TheValue DEF IsNotNegative

LEMMA RepresentableValue ==
  ASSUME NEW v \in Int
  PROVE  /\ Optional(Representable(v), Amount)
         /\ HasValue(Representable(v)) <=> v \in Amount
         /\ \A x \in Representable(v) : x = v
BY ArithmeticAssumption DEF Representable, Optional, Some, None, Amount, HasValue

LEMMA Magnitude ==
  ASSUME NEW v \in Int
  PROVE  magnitude(v) \in Nat
BY DEF magnitude

LEMMA Product ==
  ASSUME NEW a \in Nat, NEW b \in Nat
  PROVE  a * b \in Nat
OBVIOUS

LEMMA Division ==
  ASSUME NEW a \in Nat, NEW d \in Nat \ {0}
  PROVE  a \div d \in Nat
OBVIOUS

LEMMA QuotientRange ==
  ASSUME NEW n \in Nat, NEW d \in Nat \ {0}, NEW negative \in BOOLEAN, NEW rounding
  PROVE  /\ Optional(signedQuotient(n, d, negative, rounding), Amount)
         /\ ~negative => \A x \in signedQuotient(n, d, negative, rounding) : x \in 0 .. MaxUnits
<1> DEFINE up == /\ rounding = "NearestTiesAwayFromZero"
                 /\ n % d >= (d \div 2) + (d % 2)
           rounded == IF up THEN n \div d + 1 ELSE n \div d
           v == IF negative THEN -rounded ELSE rounded
           o == signedQuotient(n, d, negative, rounding)
<1>1. rounded \in Nat /\ v \in Int
  <2>1. n \div d \in Nat
    BY Division
  <2> HIDE DEF up
  <2> QED
    BY <2>1
<1>2. o = IF rounding = "RejectUnaligned" /\ n % d # 0 THEN None ELSE Representable(v)
  BY DEF signedQuotient
<1> HIDE DEF o, v
<1>3. Optional(o, Amount) /\ \A x \in o : x = v
  BY <1>1, <1>2, RepresentableValue DEF None, Optional
<1>4. ~negative => \A x \in o : x \in 0 .. MaxUnits
  BY <1>1, <1>3, ArithmeticAssumption DEF v, Optional, Amount
<1> QED
  BY <1>3, <1>4 DEF o

(* A double becomes at most one amount.                                    *)
LEMMA NormalizeRange ==
  ASSUME NEW v \in Int, NEW rounding
  PROVE  Optional(normalize(v, rounding), Amount)
<1>1. magnitude(v) \in Nat /\ (v < 0) \in BOOLEAN /\ Resolution \in Nat \ {0}
  BY Magnitude, ArithmeticAssumption
<1> QED
  BY <1>1, QuotientRange DEF normalize

LEMMA InputRange ==
  ASSUME NEW v \in Int
  PROVE  /\ Optional(price(v), Amount) /\ Optional(money(v), Amount)
         /\ Optional(quantity(v), Amount) /\ Optional(aligned(v), Amount)
BY NormalizeRange DEF price, money, quantity, aligned

LEMMA ProductRange ==
  ASSUME NEW a \in Int, NEW b \in Int, NEW rounding
  PROVE  /\ Optional(scaledProduct(a, b, rounding), Amount)
         /\ a >= 0 /\ b >= 0 => \A x \in scaledProduct(a, b, rounding) : x \in 0 .. MaxUnits
<1>1. magnitude(a) * magnitude(b) \in Nat
  BY Magnitude, Product
<1>2. ((a < 0) # (b < 0)) \in BOOLEAN
  OBVIOUS
<1>3. a >= 0 /\ b >= 0 => ~((a < 0) # (b < 0))
  OBVIOUS
<1> QED
  BY <1>1, <1>2, <1>3, QuotientRange, ArithmeticAssumption DEF scaledProduct

LEMMA RatioRange ==
  ASSUME NEW a \in Int, NEW b \in Int, NEW rounding
  PROVE  /\ Optional(scaledRatio(a, b, rounding), Amount)
         /\ a >= 0 /\ b >= 0 => \A x \in scaledRatio(a, b, rounding) : x \in 0 .. MaxUnits
<1>1. CASE b = 0
  BY <1>1 DEF scaledRatio, None, Optional
<1>2. CASE b # 0
  <2>1. magnitude(a) * Scale \in Nat /\ magnitude(b) \in Nat \ {0}
    BY <1>2, Magnitude, Product, ArithmeticAssumption DEF magnitude
  <2>2. ((a < 0) # (b < 0)) \in BOOLEAN /\ (a >= 0 /\ b >= 0 => ~((a < 0) # (b < 0)))
    OBVIOUS
  <2>3. scaledRatio(a, b, rounding)
        = signedQuotient(magnitude(a) * Scale, magnitude(b), (a < 0) # (b < 0), rounding)
    BY <1>2 DEF scaledRatio
  <2> QED
    BY <2>1, <2>2, <2>3, QuotientRange
<1> QED
  BY <1>1, <1>2

LEMMA NotionalRange ==
  ASSUME NEW p \in Int, NEW q \in Int
  PROVE  /\ Optional(notional(p, q), Amount)
         /\ p >= 0 /\ q >= 0 => \A c \in notional(p, q) : c \in 0 .. MaxUnits
BY ProductRange DEF notional

LEMMA FeeRange ==
  ASSUME NEW c \in Int, NEW rate \in Int
  PROVE  /\ Optional(fee(c, rate), Amount)
         /\ c >= 0 /\ rate >= 0 => \A f \in fee(c, rate) : f \in 0 .. MaxUnits
BY ProductRange DEF fee

LEMMA AverageRange ==
  ASSUME NEW c \in Int, NEW q \in Int
  PROVE  Optional(averagePrice(c, q), 0 .. MaxUnits)
<1>1. CASE c >= 0 /\ q > 0
  BY <1>1, RatioRange DEF averagePrice, Optional
<1>2. CASE ~(c >= 0 /\ q > 0)
  BY <1>2 DEF averagePrice, Optional, None
<1> QED
  BY <1>1, <1>2

LEMMA AddValue ==
  ASSUME NEW a \in Int, NEW b \in Int
  PROVE  /\ Optional(add(a, b), Amount) /\ Optional(subtract(a, b), Amount)
         /\ HasValue(add(a, b)) => a + b \in Amount
         /\ HasValue(subtract(a, b)) => a - b \in Amount
         /\ \A x \in add(a, b) : x = a + b
         /\ \A x \in subtract(a, b) : x = a - b
BY RepresentableValue DEF add, subtract

LEMMA SlippedRange ==
  ASSUME NEW market \in Int, NEW slippage \in Int, NEW buySide \in BOOLEAN
  PROVE  Optional(applySlippage(market, slippage, buySide), 1 .. MaxUnits)
<1> DEFINE multiplier == IF buySide THEN Scale + slippage ELSE Scale - slippage
<1>1. multiplier \in Int
  BY ArithmeticAssumption
<1>2. Optional(scaledProduct(market, multiplier, "NearestTiesAwayFromZero"), Amount)
  BY <1>1, ProductRange
<1>3. applySlippage(market, slippage, buySide)
      \subseteq {p \in scaledProduct(market, multiplier, "NearestTiesAwayFromZero") : p > 0}
  BY DEF applySlippage, None
<1>4. \A p \in Amount : p > 0 => p \in 1 .. MaxUnits
  BY ArithmeticAssumption DEF Amount
<1> HIDE DEF multiplier
<1> QED
  BY <1>2, <1>3, <1>4 DEF Optional

LEMMA AffordableRange ==
  ASSUME NEW budget \in Int, NEW p \in Int
  PROVE  /\ Optional(quantityForNotional(budget, p), 0 .. MaxUnits)
         /\ \A rate \in Int : Optional(notionalBeforeFee(budget, rate), 0 .. MaxUnits)
<1>1. Optional(quantityForNotional(budget, p), 0 .. MaxUnits)
  <2>1. CASE budget >= 0 /\ p > 0
    BY <2>1, RatioRange DEF quantityForNotional, Optional
  <2>2. CASE ~(budget >= 0 /\ p > 0)
    BY <2>2 DEF quantityForNotional, Optional, None
  <2> QED
    BY <2>1, <2>2
<1>2. ASSUME NEW rate \in Int PROVE Optional(notionalBeforeFee(budget, rate), 0 .. MaxUnits)
  <2>1. CASE budget >= 0 /\ rate >= 0
    <3>1. Scale + rate \in Int /\ Scale + rate >= 0
      BY <2>1, ArithmeticAssumption
    <3> QED
      BY <2>1, <3>1, RatioRange DEF notionalBeforeFee, Optional, None
  <2>2. CASE ~(budget >= 0 /\ rate >= 0)
    BY <2>2 DEF notionalBeforeFee, Optional, None
  <2> QED
    BY <2>1, <2>2
<1> QED
  BY <1>1, <1>2

LEMMA Monotone ==
  ASSUME NEW x \in Int, NEW y \in Int, x <= y, NEW d \in Nat
  PROVE  d * x <= d * y
OBVIOUS

LEMMA DivisionIs ==
  ASSUME NEW a \in Int, NEW d \in Nat \ {0}, NEW q \in Int, d * q <= a, a < d * (q + 1)
  PROVE  a \div d = q
<1> DEFINE k == a \div d
<1>1. k \in Int /\ d * k <= a /\ a < d * (k + 1)
  OBVIOUS
<1> HIDE DEF k
<1>2. /\ d * k \in Int /\ d * q \in Int
      /\ d * (k + 1) = d * k + d /\ d * (q + 1) = d * q + d
  BY <1>1
<1>3. CASE k < q
  <2>1. d * (k + 1) <= d * q
    BY <1>1, <1>3, Monotone
  <2> QED
    BY <1>1, <1>2, <2>1
<1>4. CASE q < k
  <2>1. d * (q + 1) <= d * k
    BY <1>1, <1>4, Monotone
  <2> QED
    BY <1>1, <1>2, <2>1
<1> QED
  BY <1>1, <1>3, <1>4 DEF k

LEMMA DivisionBound ==
  ASSUME NEW a \in Nat, NEW d \in Nat \ {0}, NEW t \in Nat, a <= d * t
  PROVE  /\ a \div d \in 0 .. t
         /\ a \div d = t => a = d * t /\ a % d = 0
<1> DEFINE k == a \div d
           r == a % d
           m == d * k
           n == d * t
<1>1. k \in Nat /\ r \in 0 .. d - 1 /\ a = m + r /\ m \in Nat /\ n \in Nat
  OBVIOUS
<1>2. k = t => m = n
  OBVIOUS
<1>3. t < k => n + d <= m
  <2> SUFFICES ASSUME t < k PROVE n + d <= m
    OBVIOUS
  <2>1. d * (t + 1) <= d * k
    BY <1>1, Monotone
  <2>2. d * (t + 1) = n + d
    OBVIOUS
  <2> QED
    BY <2>1, <2>2
<1> HIDE DEF k, r, m, n
<1>4. a <= n
  BY DEF n
<1>5. k \in 0 .. t /\ (k = t => a = n /\ r = 0)
  BY <1>1, <1>2, <1>3, <1>4
<1> QED
  BY <1>5 DEF k, r, n

LEMMA ExactDivision ==
  ASSUME NEW a \in Nat, NEW d \in Nat \ {0}
  PROVE  (d * a) \div d = a /\ (d * a) % d = 0
<1>1. d * a \in Nat /\ d * a <= d * a /\ d * (a + 1) = d * a + d
  OBVIOUS
<1>2. (d * a) \div d = a
  BY <1>1, DivisionIs
<1> QED
  BY <1>1, <1>2, DivisionBound

(* An amount that is turned into a double and back is the same.            *)
LEMMA AlignedBack ==
  ASSUME NEW v \in Int
  PROVE  \A x \in aligned(toDouble(v)) : x = v
<1> DEFINE m == magnitude(v)
           w == v * Resolution
<1>1. m \in Nat /\ Resolution \in Nat \ {0}
  BY Magnitude, ArithmeticAssumption
<1>2. w \in Int /\ magnitude(w) = Resolution * m /\ (w < 0 <=> v < 0)
  <2>1. CASE v >= 0
    <3>1. v * Resolution >= 0
      BY <1>1, <2>1
    <3> QED
      BY <1>1, <2>1, <3>1 DEF magnitude
  <2>2. CASE v < 0
    <3>1. v * Resolution < 0 /\ -(v * Resolution) = Resolution * (-v)
      BY <1>1, <2>2
    <3> QED
      BY <1>1, <2>2, <3>1 DEF magnitude
  <2> QED
    BY <2>1, <2>2
<1>3. v = IF w < 0 THEN -m ELSE m
  BY <1>2 DEF magnitude
<1> HIDE DEF m, w
<1>4. (Resolution * m) \div Resolution = m
  BY <1>1, ExactDivision
<1>5. /\ signedQuotient(magnitude(w), Resolution, w < 0, "RejectUnaligned")
           \subseteq Representable(IF w < 0 THEN -m ELSE m)
  BY <1>2, <1>4 DEF signedQuotient, None
<1>6. aligned(toDouble(v)) \subseteq Representable(v)
  BY <1>3, <1>5 DEF aligned, normalize, toDouble, w
<1> QED
  BY <1>6, RepresentableValue

(* A share is no more than the total, and all of it for the whole.         *)
LEMMA ShareRange ==
  ASSUME NEW total \in 0 .. MaxUnits, NEW part \in Nat, NEW whole \in Nat \ {0}, part <= whole
  PROVE  /\ Optional(proportional(total, part, whole), 0 .. total)
         /\ part = whole => \A x \in proportional(total, part, whole) : x = total
<1> DEFINE n == total * part
           k == n \div whole
           r == n % whole
           up == r >= (whole \div 2) + (whole % 2)
           rounded == IF up THEN k + 1 ELSE k
           o == proportional(total, part, whole)
<1>1. total \in Nat /\ n \in Nat
  BY ArithmeticAssumption
<1>2. n <= whole * total
  <2>1. total * part <= total * whole
    BY <1>1, Monotone
  <2> QED
    BY <1>1, <2>1
<1>3. /\ k \in 0 .. total /\ (k = total => r = 0)
      /\ part = whole => k = total
  <2>1. part = whole => n = whole * total
    BY <1>1
  <2>2. (whole * total) \div whole = total
    BY <1>1, ExactDivision
  <2> QED
    BY <1>1, <1>2, <2>1, <2>2, DivisionBound
<1>4. (whole \div 2) + (whole % 2) >= 1
  OBVIOUS
<1>5. /\ magnitude(total) = total /\ magnitude(part) = part /\ magnitude(whole) = whole
      /\ ~(total < 0) /\ ~(part < 0) /\ ~(whole < 0) /\ whole # 0
  BY <1>1 DEF magnitude
<1>6. o \subseteq Representable(rounded)
  BY <1>5 DEF proportional, proportionalUnits, signedQuotient, None
<1> HIDE DEF k, r, o
<1>7. rounded \in 0 .. total /\ (part = whole => rounded = total)
  BY <1>1, <1>3, <1>4
<1> HIDE DEF rounded
<1>8. \A x \in o : x = rounded
  BY <1>1, <1>6, <1>7, RepresentableValue
<1> QED
  BY <1>7, <1>8 DEF Optional, o

LEMMA InRange ==
  ASSUME NEW x \in Amount
  PROVE  x \in Int /\ (x > 0 => x \in 1 .. MaxUnits) /\ (x >= 0 => x \in 0 .. MaxUnits)
BY ArithmeticAssumption DEF Amount

(* An amount in range comes back from its double, it is not refused.       *)
LEMMA AlignedExact ==
  ASSUME NEW x \in Amount
  PROVE  aligned(toDouble(x)) = Some(x)
<1> DEFINE m == magnitude(x)
           w == x * Resolution
<1>1. x \in Int /\ m \in Nat /\ Resolution \in Nat \ {0}
  BY InRange, Magnitude, ArithmeticAssumption
<1>2. w \in Int /\ magnitude(w) = Resolution * m /\ (w < 0 <=> x < 0)
  <2>1. CASE x >= 0
    <3>1. x * Resolution >= 0
      BY <1>1, <2>1
    <3> QED
      BY <1>1, <2>1, <3>1 DEF magnitude
  <2>2. CASE x < 0
    <3>1. x * Resolution < 0 /\ -(x * Resolution) = Resolution * (-x)
      BY <1>1, <2>2
    <3> QED
      BY <1>1, <2>2, <3>1 DEF magnitude
  <2> QED
    BY <1>1, <2>1, <2>2
<1>3. x = IF w < 0 THEN -m ELSE m
  BY <1>1, <1>2 DEF magnitude
<1> HIDE DEF m, w
<1>4. (Resolution * m) \div Resolution = m /\ (Resolution * m) % Resolution = 0
  BY <1>1, ExactDivision
<1>5. signedQuotient(magnitude(w), Resolution, w < 0, "RejectUnaligned")
        = Representable(IF w < 0 THEN -m ELSE m)
  BY <1>2, <1>4 DEF signedQuotient
<1>6. aligned(toDouble(x)) = Representable(x)
  BY <1>3, <1>5 DEF aligned, normalize, toDouble, w
<1>7. Representable(x) = Some(x)
  BY DEF Representable, Amount
<1> QED
  BY <1>6, <1>7

(* What is rounded to the nearest is within half of the divisor.           *)
LEMMA RoundedBounds ==
  ASSUME NEW n \in Nat, NEW d \in Nat \ {0}, NEW negative \in BOOLEAN, ~negative,
         NEW x \in signedQuotient(n, d, negative, "NearestTiesAwayFromZero")
  PROVE  /\ x \in Nat /\ n \div d <= x
         /\ d <= n + n => x >= 1
<1> DEFINE k == n \div d
           r == n % d
           h == d \div 2
           g == d % 2
           rounded == IF r >= h + g THEN k + 1 ELSE k
<1>1. x \in Representable(rounded)
  BY DEF signedQuotient, None
<1>2. k \in Nat /\ r \in 0 .. d - 1 /\ n = d * k + r
  OBVIOUS
<1>3. h \in Nat /\ g \in 0 .. 1 /\ d = 2 * h + g
  OBVIOUS
<1>4. k = 0 => n = r
  BY <1>2
<1> HIDE DEF k, r, h, g
<1>5. rounded \in Nat /\ k <= rounded
  BY <1>2
<1>6. d <= n + n => rounded >= 1
  <2>1. k = 0 /\ d <= n + n => r >= h + g
    BY <1>2, <1>3, <1>4
  <2> QED
    BY <1>2, <2>1
<1> HIDE DEF rounded
<1>7. x = rounded
  BY <1>1, <1>5, RepresentableValue
<1> QED
  BY <1>5, <1>6, <1>7 DEF k

(* A position whose cost does not round to 0 has an average price that     *)
(* does not either.                                                        *)
LEMMA AveragePositive ==
  ASSUME NEW p \in Nat \ {0}, NEW q \in Nat \ {0}, NEW cost \in notional(p, q), cost > 0,
         NEW average \in averagePrice(cost, q)
  PROVE  average > 0
<1>1. Scale \in Nat \ {0} /\ Scale \in Nat
  BY ArithmeticAssumption
<1> DEFINE n == p * q
           k == n \div Scale
<1>2. n \in Nat /\ q <= n
  <2>1. q * 1 <= q * p
    BY Monotone
  <2> QED
    BY <2>1
<1>3. k \in Nat /\ n < Scale * (k + 1)
  BY <1>1, <1>2
<1>4. cost \in Nat /\ k <= cost
  <2> DEFINE negative == (p < 0) # (q < 0)
  <2>1. magnitude(p) = p /\ magnitude(q) = q /\ negative \in BOOLEAN /\ ~negative
    BY DEF magnitude
  <2>2. cost \in signedQuotient(magnitude(p) * magnitude(q), Scale, negative,
                               "NearestTiesAwayFromZero")
    BY DEF notional, scaledProduct
  <2> HIDE DEF negative
  <2>3. cost \in signedQuotient(n, Scale, negative, "NearestTiesAwayFromZero")
    BY <2>1, <2>2
  <2> HIDE DEF n
  <2> QED
    BY <1>1, <1>2, <2>1, <2>3, RoundedBounds
<1> DEFINE a == cost * Scale
<1> HIDE DEF n, k
<1>5. a \in Nat /\ Scale * k <= a /\ Scale <= a
  <2>1. Scale * k <= Scale * cost /\ Scale * 1 <= Scale * cost
    BY <1>1, <1>3, <1>4, Monotone
  <2>2. Scale * cost = a /\ Scale * 1 = Scale /\ a \in Nat
    BY <1>1, <1>4
  <2> QED
    BY <2>1, <2>2
<1>6. q <= a + a
  <2>1. Scale * (k + 1) = Scale * k + Scale /\ Scale * k \in Nat
    BY <1>1, <1>3
  <2> HIDE DEF a
  <2> QED
    BY <1>1, <1>2, <1>3, <1>5, <2>1
<1> DEFINE negative == (cost < 0) # (q < 0)
<1>7. magnitude(cost) = cost /\ magnitude(q) = q /\ negative \in BOOLEAN /\ ~negative
  BY <1>4 DEF magnitude
<1>8. average \in signedQuotient(magnitude(cost) * Scale, magnitude(q), negative,
                                "NearestTiesAwayFromZero")
  BY DEF averagePrice, scaledRatio, None
<1> HIDE DEF negative
<1>9. average \in signedQuotient(a, q, negative, "NearestTiesAwayFromZero")
  BY <1>7, <1>8 DEF a
<1>10. average \in Nat /\ average >= 1
  BY <1>5, <1>6, <1>7, <1>9, RoundedBounds
<1> QED
  BY <1>10

-----------------------------------------------------------------------------
(***************************************************************************)
(* Books.                                                                  *)
(***************************************************************************)
Fields == {"cash", "positions", "unrealized", "equity", "maxEquity", "drawdown", "maxDrawdown",
           "fees", "log", "pending", "nextOrderId"}

OrderFields == {"id", "symbol", "type", "buy", "limit", "offset", "best", "quantity", "capital"}

PendingType(order) ==
  /\ DOMAIN order = OrderFields
  /\ order.limit \in Int /\ order.offset \in Int /\ order.best \in Int
  /\ order.quantity \in Int /\ order.quantity <= MaxUnits /\ order.capital \in Int

BookType(b) ==
  /\ DOMAIN b = Fields
  /\ b.cash \in 0 .. MaxUnits /\ b.fees \in Int /\ b.fees \in 0 .. MaxUnits
  /\ b.maxEquity \in Int /\ b.maxDrawdown \in Int /\ b.drawdown \in 0 .. BasisPoints
  /\ DOMAIN b.positions \subseteq Symbols
  /\ \A s \in DOMAIN b.positions : b.positions[s] \in PositionType
  /\ IsList(b.log) /\ \A i \in 1 .. Len(b.log) : b.log[i].realized \in Int /\ b.log[i].fees \in Int
  /\ IsList(b.pending) /\ \A i \in 1 .. Len(b.pending) : PendingType(b.pending[i])

Realized(b) == [i \in DOMAIN b.log |-> b.log[i].realized]
Paid(b)     == [i \in DOMAIN b.log |-> b.log[i].fees]
Spent(b)    == [s \in DOMAIN b.positions |-> b.positions[s].cost + b.positions[s].entryFee]
Held(b)     == [s \in DOMAIN b.positions |-> b.positions[s].entryFee]

(* BooksBalance, of any book.                                              *)
Balanced(b) ==
  /\ b.cash = StartingCash + SumFunction(Realized(b)) - SumFunction(Spent(b))
  /\ b.fees = SumFunction(Paid(b)) + SumFunction(Held(b))

Sane(b) == BookType(b) /\ Balanced(b)

(* What Valued computes.                                                   *)
WorthOf(b) ==
  [s \in DOMAIN b.positions |->
     ValueOf(notional(b.positions[s].mark, b.positions[s].quantity))]
ProfitOf(b) == [s \in DOMAIN b.positions |-> WorthOf(b)[s] - b.positions[s].cost]
LossOf(peak, equity) == IF peak > 0 THEN ((peak - equity) * BasisPoints) \div peak ELSE 0

(* The valuation of a book follows from the rest of it.                    *)
Coherent(b) ==
  /\ \A s \in DOMAIN b.positions :
       HasValue(notional(b.positions[s].mark, b.positions[s].quantity))
  /\ b.equity = b.cash + SumFunction(WorthOf(b)) /\ b.equity \in 0 .. MaxUnits
  /\ b.unrealized = SumFunction(ProfitOf(b)) /\ b.unrealized \in Amount
  /\ b.maxEquity >= b.equity /\ b.drawdown = LossOf(b.maxEquity, b.equity)
  /\ b.maxDrawdown >= b.drawdown

(* What else validate and restoreState ask of a file.                      *)
RestorableTrade(trade) ==
  trade.entry > 0 /\ trade.exit > 0 /\ trade.quantity > 0 /\ trade.fees >= 0

PendingIds(b) ==
  /\ b.nextOrderId \in Nat \ {0}
  /\ \A i \in 1 .. Len(b.pending) : b.pending[i].id \in 1 .. b.nextOrderId - 1
  /\ \A i, j \in 1 .. Len(b.pending) : b.pending[i].id = b.pending[j].id => i = j

Ready(b) ==
  /\ b.fees \in 0 .. MaxUnits /\ b.maxEquity \in 0 .. MaxUnits
  /\ \A s \in DOMAIN b.positions : RestorablePosition(b.positions[s])
  /\ \A i \in 1 .. Len(b.log) : RestorableTrade(b.log[i])
  /\ PendingIds(b)

Solid(b) == Ready(b) /\ Coherent(b)

LEMMA ListDomain ==
  ASSUME NEW e, IsList(e)
  PROVE  DOMAIN e = 1 .. Len(e) /\ IsFiniteSet(DOMAIN e) /\ Len(e) \in Nat
<1>1. DOMAIN e = 1 .. Len(e) /\ Len(e) \in Nat
  BY DEF IsList
<1> QED
  BY <1>1, FS_Interval

LEMMA PositionAmounts ==
  ASSUME NEW p \in PositionType
  PROVE  /\ p.quantity \in 1 .. MaxUnits /\ p.average \in 0 .. MaxUnits
         /\ p.cost \in 0 .. MaxUnits /\ p.mark \in 1 .. MaxUnits /\ p.entryFee \in 0 .. MaxUnits
         /\ p.quantity \in Nat \ {0} /\ p.cost \in Nat /\ p.mark \in Nat \ {0}
         /\ p.entryFee \in Nat /\ p.average \in Nat
BY ArithmeticAssumption DEF PositionType

LEMMA BookSums ==
  ASSUME NEW b, BookType(b)
  PROVE  /\ IntegerFunction(Realized(b)) /\ IntegerFunction(Paid(b))
         /\ IntegerFunction(Spent(b)) /\ IntegerFunction(Held(b))
         /\ IsFiniteSet(DOMAIN b.positions)
         /\ DOMAIN Spent(b) = DOMAIN b.positions /\ DOMAIN Held(b) = DOMAIN b.positions
         /\ DOMAIN Realized(b) = DOMAIN b.log /\ DOMAIN Paid(b) = DOMAIN b.log
<1>1. IsFiniteSet(DOMAIN b.positions)
  BY FS_Subset, BookAssumption DEF BookType
<1>2. IsFiniteSet(DOMAIN b.log) /\ DOMAIN b.log = 1 .. Len(b.log)
  BY ListDomain DEF BookType
<1>3. \A s \in DOMAIN b.positions : b.positions[s].cost \in Nat /\ b.positions[s].entryFee \in Nat
  BY PositionAmounts DEF BookType
<1>4. IntegerFunction(Realized(b)) /\ IntegerFunction(Paid(b))
  BY <1>2 DEF BookType, IntegerFunction, Realized, Paid
<1>5. IntegerFunction(Spent(b)) /\ IntegerFunction(Held(b))
  BY <1>1, <1>3 DEF IntegerFunction, Spent, Held
<1> QED
  BY <1>1, <1>4, <1>5 DEF Spent, Held, Realized, Paid

(* A fee that can be added to the fees paid leaves them in range.          *)
LEMMA FeesRange ==
  ASSUME NEW b, BookType(b), NEW f \in 0 .. MaxUnits, HasValue(add(b.fees, f))
  PROVE  b.fees + f \in 0 .. MaxUnits
<1>1. b.fees \in Int /\ b.fees >= 0 /\ f \in Int /\ f >= 0
  BY ArithmeticAssumption DEF BookType
<1>2. b.fees + f \in Amount
  BY <1>1, AddValue
<1> QED
  BY <1>1, <1>2, InRange

LEMMA MaxOfTwo ==
  ASSUME NEW a \in Int, NEW b \in Int
  PROVE  Max({a, b}) \in {a, b} /\ Max({a, b}) >= a /\ Max({a, b}) >= b
<1>1. \E x \in {a, b} : \A y \in {a, b} : x >= y
  BY DEF Max
<1> QED
  BY <1>1 DEF Max

LEMMA MinOfTwo ==
  ASSUME NEW a \in Int, NEW b \in Int
  PROVE  Min({a, b}) \in {a, b} /\ Min({a, b}) <= a /\ Min({a, b}) <= b
<1>1. \E x \in {a, b} : \A y \in {a, b} : x <= y
  OBVIOUS
<1> QED
  BY <1>1 DEF Min

(* Two books with the same trades and positions balance alike.             *)
LEMMA SameBalance ==
  ASSUME NEW b, Balanced(b), NEW c, c.cash = b.cash, c.fees = b.fees, c.log = b.log,
         c.positions = b.positions
  PROVE  Balanced(c)
BY DEF Balanced, Realized, Paid, Spent, Held

(* A drawdown is a share of the peak.                                      *)
LEMMA DrawdownRange ==
  ASSUME NEW peak \in Nat \ {0}, NEW equity \in 0 .. peak
  PROVE  ((peak - equity) * BasisPoints) \div peak \in 0 .. BasisPoints
<1>1. BasisPoints \in Nat /\ peak - equity \in Nat /\ peak - equity <= peak
  BY DEF BasisPoints
<1> HIDE DEF BasisPoints
<1>2. BasisPoints * (peak - equity) <= BasisPoints * peak
  BY <1>1, Monotone
<1>3. /\ (peak - equity) * BasisPoints \in Nat
      /\ (peak - equity) * BasisPoints <= peak * BasisPoints
  <2>1. (peak - equity) * BasisPoints \in Nat
    BY <1>1, Product
  <2>2. (peak - equity) * BasisPoints = BasisPoints * (peak - equity)
        /\ BasisPoints * peak = peak * BasisPoints
    BY <1>1
  <2> QED
    BY <1>2, <2>1, <2>2
<1> QED
  BY <1>1, <1>3, DivisionBound

(* Valuation changes no amount that the balance is about, and leaves a     *)
(* book whose valuation follows from the rest.                             *)
LEMMA ValuedSane ==
  ASSUME NEW b, Sane(b), NEW v \in Valued(b)
  PROVE  Sane(v) /\ v.positions = b.positions /\ (Ready(b) => Solid(v))
<1> DEFINE marked(s) == notional(b.positions[s].mark, b.positions[s].quantity)
           value == [s \in DOMAIN b.positions |-> ValueOf(marked(s))]
           profit == [s \in DOMAIN b.positions |-> value[s] - b.positions[s].cost]
           equity == b.cash + SumFunction(value)
           unrealized == SumFunction(profit)
           peak == Max({equity, b.maxEquity})
           loss == IF peak > 0 THEN ((peak - equity) * BasisPoints) \div peak ELSE 0
<1>1. /\ v = [b EXCEPT !.unrealized = unrealized, !.equity = equity, !.maxEquity = peak,
                       !.drawdown = loss, !.maxDrawdown = Max({@, loss})]
      /\ \A s \in DOMAIN b.positions : HasValue(marked(s))
      /\ HasValue(Representable(equity)) /\ HasValue(Representable(unrealized))
  BY DEF Valued, Some, None
<1>2. BookType(b) /\ Balanced(b) /\ DOMAIN b = Fields
  BY DEF Sane, BookType
<1>3. equity \in Nat /\ unrealized \in Int
  <2>1. \A s \in DOMAIN b.positions : value[s] \in Nat
    <3> SUFFICES ASSUME NEW s \in DOMAIN b.positions PROVE ValueOf(marked(s)) \in Nat
      OBVIOUS
    <3>1. b.positions[s].mark \in Nat /\ b.positions[s].quantity \in Nat
      BY <1>2, PositionAmounts DEF BookType
    <3>2. ValueOf(marked(s)) \in marked(s)
      BY <1>1, ValueIn
    <3>3. \A x \in marked(s) : x \in 0 .. MaxUnits
      BY <3>1, NotionalRange
    <3> QED
      BY <3>2, <3>3, ArithmeticAssumption
  <2>2. DOMAIN value = DOMAIN b.positions /\ IsFiniteSet(DOMAIN value)
    BY <1>2, BookSums
  <2>3. /\ \A s \in DOMAIN b.positions : b.positions[s].cost \in Nat
        /\ DOMAIN profit = DOMAIN b.positions
        /\ \A s \in DOMAIN b.positions : profit[s] = value[s] - b.positions[s].cost
    BY <1>2, PositionAmounts DEF BookType
  <2> HIDE DEF value, profit
  <2>4. IntegerFunction(profit)
    BY <2>1, <2>2, <2>3 DEF IntegerFunction
  <2>5. SumFunction(value) \in Nat /\ SumFunction(profit) \in Int
    BY <2>1, <2>2, <2>4, SumIsNatural, SumIsInteger
  <2> QED
    BY <1>2, <2>5, ArithmeticAssumption DEF BookType
<1>4. /\ equity = b.cash + SumFunction(WorthOf(b)) /\ unrealized = SumFunction(ProfitOf(b))
      /\ \A s \in DOMAIN b.positions :
           HasValue(notional(b.positions[s].mark, b.positions[s].quantity))
      /\ HasValue(Representable(equity)) /\ HasValue(Representable(unrealized))
  BY <1>1 DEF WorthOf, ProfitOf
<1>5. equity \in 0 .. MaxUnits /\ unrealized \in Amount
  <2> HIDE DEF equity, unrealized
  <2> QED
    BY <1>3, <1>4, RepresentableValue, InRange
<1> HIDE DEF equity, unrealized
<1>6. peak \in Nat /\ equity \in 0 .. peak /\ peak \in {equity, b.maxEquity}
  <2>1. equity \in Int /\ b.maxEquity \in Int
    BY <1>2, <1>3 DEF BookType
  <2>2. peak \in {equity, b.maxEquity} /\ peak >= equity
    BY <2>1, MaxOfTwo
  <2> HIDE DEF peak
  <2> QED
    BY <1>3, <2>1, <2>2
<1> HIDE DEF peak
<1>7. loss = LossOf(peak, equity)
  BY DEF LossOf
<1>8. loss \in 0 .. BasisPoints
  <2>1. CASE peak > 0
    BY <1>6, <2>1, DrawdownRange
  <2>2. CASE ~(peak > 0)
    BY <2>2 DEF BasisPoints
  <2> QED
    BY <2>1, <2>2
<1>9. Max({b.maxDrawdown, loss}) \in Int /\ Max({b.maxDrawdown, loss}) >= loss
  <2>1. loss \in Int /\ b.maxDrawdown \in Int
    BY <1>2, <1>8 DEF BookType
  <2> HIDE DEF loss
  <2> QED
    BY <2>1, MaxOfTwo
<1> HIDE DEF loss
<1>10. /\ DOMAIN v = Fields /\ v.cash = b.cash /\ v.fees = b.fees /\ v.log = b.log
      /\ v.positions = b.positions /\ v.pending = b.pending /\ v.maxEquity = peak
      /\ v.drawdown = loss /\ v.maxDrawdown = Max({b.maxDrawdown, loss})
      /\ v.equity = equity /\ v.unrealized = unrealized /\ v.nextOrderId = b.nextOrderId
  BY <1>1, <1>2 DEF Fields
<1>11. BookType(v)
  BY <1>2, <1>6, <1>8, <1>9, <1>10 DEF BookType
<1>12. Balanced(v)
  BY <1>2, <1>10, SameBalance
<1>13. WorthOf(v) = WorthOf(b) /\ ProfitOf(v) = ProfitOf(b)
  BY <1>10 DEF WorthOf, ProfitOf
<1>14. Coherent(v)
  BY <1>6, <1>7, <1>9, <1>10, <1>13, <1>4, <1>5 DEF Coherent
<1>15. Ready(b) => Ready(v)
  BY <1>6, <1>10, <1>5 DEF Ready, PendingIds
<1> QED
  BY <1>10, <1>11, <1>12, <1>14, <1>15 DEF Sane, Solid

(***************************************************************************)
(* What a booking changes: one position, and perhaps a trade.              *)
(***************************************************************************)
TermAt(f, x) == IF x \in DOMAIN f THEN f[x] ELSE 0

LEMMA SumDiffersAt ==
  ASSUME NEW f, NEW h, NEW x, IntegerFunction(f), IntegerFunction(h),
         DOMAIN h \ {x} = DOMAIN f \ {x}, \A y \in DOMAIN f \ {x} : h[y] = f[y]
  PROVE  SumFunction(h) = SumFunction(f) - TermAt(f, x) + TermAt(h, x)
<1>1. SumFunction(f) \in Int /\ SumFunction(h) \in Int
  BY SumIsInteger
<1>2. CASE x \in DOMAIN f /\ x \in DOMAIN h
  <2>1. DOMAIN h = DOMAIN f
    BY <1>2
  <2>2. SumFunction(h) = SumFunction(f) - f[x] + h[x]
    BY <1>2, <2>1, SumChanges
  <2> QED
    BY <1>2, <2>2 DEF TermAt
<1>3. CASE x \in DOMAIN f /\ x \notin DOMAIN h
  <2>1. DOMAIN h = DOMAIN f \ {x} /\ \A y \in DOMAIN h : h[y] = f[y]
    BY <1>3
  <2>2. SumFunction(h) = SumFunction(f) - f[x]
    BY <1>3, <2>1, SumLoses
  <2>3. f[x] \in Int /\ TermAt(f, x) = f[x] /\ TermAt(h, x) = 0
    BY <1>3 DEF IntegerFunction, TermAt
  <2> QED
    BY <1>1, <2>2, <2>3
<1>4. CASE x \notin DOMAIN f /\ x \in DOMAIN h
  <2>1. DOMAIN h = DOMAIN f \cup {x} /\ \A y \in DOMAIN f : h[y] = f[y]
    BY <1>4
  <2>2. SumFunction(h) = SumFunction(f) + h[x]
    BY <1>4, <2>1, SumAdds
  <2>3. TermAt(f, x) = 0 /\ TermAt(h, x) = h[x]
    BY <1>4 DEF TermAt
  <2> QED
    BY <1>1, <2>2, <2>3
<1>5. CASE x \notin DOMAIN f /\ x \notin DOMAIN h
  <2>1. DOMAIN h = DOMAIN f /\ \A y \in DOMAIN f : h[y] = f[y]
    BY <1>5
  <2>2. SumFunction(h) = SumFunction(f)
    BY <2>1, SumSame
  <2>3. TermAt(f, x) = 0 /\ TermAt(h, x) = 0
    BY <1>5 DEF TermAt
  <2> QED
    BY <1>1, <2>2, <2>3
<1> QED
  BY <1>2, <1>3, <1>4, <1>5

(* What a position cost, with its fee, and its fee; 0 where there is none. *)
CostOf(b, s) == IF hasPosition(b, s) THEN b.positions[s].cost + b.positions[s].entryFee ELSE 0
FeeOf(b, s)  == IF hasPosition(b, s) THEN b.positions[s].entryFee ELSE 0

(* Two books have the same positions but for s.                            *)
OnlyAt(s, b, c) ==
  /\ DOMAIN c.positions \ {s} = DOMAIN b.positions \ {s}
  /\ \A t \in DOMAIN b.positions \ {s} : c.positions[t] = b.positions[t]

LEMMA PositionSums ==
  ASSUME NEW b, BookType(b), NEW c, BookType(c), NEW s, OnlyAt(s, b, c)
  PROVE  /\ SumFunction(Spent(c)) = SumFunction(Spent(b)) - CostOf(b, s) + CostOf(c, s)
         /\ SumFunction(Held(c)) = SumFunction(Held(b)) - FeeOf(b, s) + FeeOf(c, s)
<1>1. /\ IntegerFunction(Spent(b)) /\ IntegerFunction(Spent(c))
      /\ IntegerFunction(Held(b)) /\ IntegerFunction(Held(c))
      /\ DOMAIN Spent(b) = DOMAIN b.positions /\ DOMAIN Spent(c) = DOMAIN c.positions
      /\ DOMAIN Held(b) = DOMAIN b.positions /\ DOMAIN Held(c) = DOMAIN c.positions
  BY BookSums
<1>2. /\ \A t \in DOMAIN b.positions \ {s} : Spent(c)[t] = Spent(b)[t]
      /\ \A t \in DOMAIN b.positions \ {s} : Held(c)[t] = Held(b)[t]
  BY DEF Spent, Held, OnlyAt
<1>3. /\ TermAt(Spent(b), s) = CostOf(b, s) /\ TermAt(Spent(c), s) = CostOf(c, s)
      /\ TermAt(Held(b), s) = FeeOf(b, s) /\ TermAt(Held(c), s) = FeeOf(c, s)
  BY DEF TermAt, CostOf, FeeOf, Spent, Held, hasPosition
<1>4. SumFunction(Spent(c)) = SumFunction(Spent(b)) - TermAt(Spent(b), s) + TermAt(Spent(c), s)
  BY <1>1, <1>2, SumDiffersAt DEF OnlyAt
<1>5. SumFunction(Held(c)) = SumFunction(Held(b)) - TermAt(Held(b), s) + TermAt(Held(c), s)
  BY <1>1, <1>2, SumDiffersAt DEF OnlyAt
<1> QED
  BY <1>3, <1>4, <1>5

LEMMA BookIntegers ==
  ASSUME NEW b, BookType(b), NEW s
  PROVE  /\ SumFunction(Spent(b)) \in Int /\ SumFunction(Held(b)) \in Int
         /\ SumFunction(Realized(b)) \in Int /\ SumFunction(Paid(b)) \in Int
         /\ CostOf(b, s) \in Int /\ FeeOf(b, s) \in Int
         /\ b.cash \in Int /\ b.fees \in Int /\ StartingCash \in Int
<1>1. CostOf(b, s) \in Int /\ FeeOf(b, s) \in Int
  <2>1. CASE hasPosition(b, s)
    <3>1. b.positions[s].cost \in Nat /\ b.positions[s].entryFee \in Nat
      BY <2>1, PositionAmounts DEF BookType, hasPosition
    <3> QED
      BY <2>1, <3>1 DEF CostOf, FeeOf
  <2>2. CASE ~hasPosition(b, s)
    BY <2>2 DEF CostOf, FeeOf
  <2> QED
    BY <2>1, <2>2
<1> QED
  BY <1>1, BookSums, SumIsInteger, BookAssumption DEF BookType

(* Without a trade: cash pays what the position costs more.                *)
LEMMA EntryBalances ==
  ASSUME NEW b, Sane(b), NEW c, BookType(c), NEW s, OnlyAt(s, b, c), c.log = b.log,
         c.cash = b.cash - (CostOf(c, s) - CostOf(b, s)),
         c.fees = b.fees + (FeeOf(c, s) - FeeOf(b, s))
  PROVE  Sane(c)
<1>1. BookType(b) /\ Balanced(b)
  BY DEF Sane
<1>2. Realized(c) = Realized(b) /\ Paid(c) = Paid(b)
  BY DEF Realized, Paid
<1>3. /\ SumFunction(Spent(c)) = SumFunction(Spent(b)) - CostOf(b, s) + CostOf(c, s)
      /\ SumFunction(Held(c)) = SumFunction(Held(b)) - FeeOf(b, s) + FeeOf(c, s)
  BY <1>1, PositionSums
<1>4. /\ SumFunction(Spent(b)) \in Int /\ SumFunction(Held(b)) \in Int
       /\ SumFunction(Realized(b)) \in Int /\ SumFunction(Paid(b)) \in Int
       /\ CostOf(b, s) \in Int /\ FeeOf(b, s) \in Int /\ CostOf(c, s) \in Int
       /\ FeeOf(c, s) \in Int /\ StartingCash \in Int
  BY <1>1, BookIntegers
<1>5. Balanced(c)
  BY <1>1, <1>2, <1>3, <1>4 DEF Balanced
<1> QED
  BY <1>5 DEF Sane

LEMMA Appended ==
  ASSUME NEW e, IsList(e), NEW x
  PROVE  /\ IsList(Append(e, x)) /\ Len(Append(e, x)) = Len(e) + 1
         /\ \A n \in 1 .. Len(e) : Append(e, x)[n] = e[n]
         /\ Append(e, x)[Len(e) + 1] = x
<1> DEFINE S == {e[n] : n \in 1 .. Len(e)} \cup {x}
           k == Len(e)
           a == Append(e, x)
<1>1. e \in Seq({e[n] : n \in 1 .. k}) /\ k \in Nat
  BY AsSequence DEF IsList
<1>2. e \in [1 .. k -> S]
  BY <1>1 DEF IsList
<1>3. e \in Seq(S) /\ x \in S
  BY <1>1, <1>2, SeqDef
<1> HIDE DEF S
<1>4. /\ a \in Seq(S) /\ Len(a) = k + 1 /\ \A n \in 1 .. k : a[n] = e[n]
      /\ a[k + 1] = x
  BY <1>1, <1>3, AppendProperties
<1>5. a = [n \in 1 .. Len(a) |-> a[n]] /\ Len(a) \in Nat
  BY <1>4, LenProperties
<1> QED
  BY <1>4, <1>5 DEF IsList

(* With a trade: what it realised is what cash gets beyond the cost.       *)
LEMMA ExitBalances ==
  ASSUME NEW b, Sane(b), NEW c, BookType(c), NEW s, OnlyAt(s, b, c),
         NEW trade, trade.realized \in Int, trade.fees \in Int, c.log = Append(b.log, trade),
         c.cash = b.cash + trade.realized + (CostOf(b, s) - CostOf(c, s)),
         c.fees = b.fees + trade.fees - (FeeOf(b, s) - FeeOf(c, s))
  PROVE  Sane(c)
<1>1. BookType(b) /\ Balanced(b) /\ IsList(b.log)
  BY DEF Sane, BookType
<1> DEFINE k == Len(b.log)
<1>2. /\ k \in Nat /\ DOMAIN b.log = 1 .. k /\ DOMAIN c.log = 1 .. k + 1
      /\ \A n \in 1 .. k : c.log[n] = b.log[n]
      /\ c.log[k + 1] = trade
  BY <1>1, Appended, ListDomain
<1> HIDE DEF k
<1>3. /\ k + 1 \notin DOMAIN b.log /\ DOMAIN c.log = DOMAIN b.log \cup {k + 1}
      /\ k + 1 \in DOMAIN c.log
  BY <1>2
<1>4. /\ IntegerFunction(Realized(b)) /\ IntegerFunction(Realized(c))
      /\ IntegerFunction(Paid(b)) /\ IntegerFunction(Paid(c))
      /\ DOMAIN Realized(b) = DOMAIN b.log /\ DOMAIN Realized(c) = DOMAIN c.log
      /\ DOMAIN Paid(b) = DOMAIN b.log /\ DOMAIN Paid(c) = DOMAIN c.log
  BY <1>1, BookSums
<1>5. /\ \A n \in DOMAIN b.log : Realized(c)[n] = Realized(b)[n]
      /\ \A n \in DOMAIN b.log : Paid(c)[n] = Paid(b)[n]
      /\ Realized(c)[k + 1] = trade.realized /\ Paid(c)[k + 1] = trade.fees
  BY <1>2, <1>3 DEF Realized, Paid
<1> DEFINE at == k + 1
           f == Realized(b)
           h == Realized(c)
           u == Paid(b)
           w == Paid(c)
<1>6. /\ IntegerFunction(f) /\ IntegerFunction(h) /\ DOMAIN h = DOMAIN f \cup {at}
      /\ at \notin DOMAIN f /\ \A y \in DOMAIN f : h[y] = f[y]
  BY <1>3, <1>4, <1>5
<1>7. /\ IntegerFunction(u) /\ IntegerFunction(w) /\ DOMAIN w = DOMAIN u \cup {at}
      /\ at \notin DOMAIN u /\ \A y \in DOMAIN u : w[y] = u[y]
  BY <1>3, <1>4, <1>5
<1> HIDE DEF at, f, h, u, w
<1>8. SumFunction(h) = SumFunction(f) + h[at]
  BY <1>6, SumAdds
<1>9. SumFunction(w) = SumFunction(u) + w[at]
  BY <1>7, SumAdds
<1>10. SumFunction(Realized(c)) = SumFunction(Realized(b)) + trade.realized
  BY <1>5, <1>8 DEF at, f, h
<1>11. SumFunction(Paid(c)) = SumFunction(Paid(b)) + trade.fees
  BY <1>5, <1>9 DEF at, u, w
<1>12. /\ SumFunction(Spent(c)) = SumFunction(Spent(b)) - CostOf(b, s) + CostOf(c, s)
       /\ SumFunction(Held(c)) = SumFunction(Held(b)) - FeeOf(b, s) + FeeOf(c, s)
  BY <1>1, PositionSums
<1>13. /\ SumFunction(Spent(b)) \in Int /\ SumFunction(Held(b)) \in Int
       /\ SumFunction(Realized(b)) \in Int /\ SumFunction(Paid(b)) \in Int
       /\ CostOf(b, s) \in Int /\ FeeOf(b, s) \in Int /\ CostOf(c, s) \in Int
       /\ FeeOf(c, s) \in Int /\ StartingCash \in Int
  BY <1>1, BookIntegers
<1>14. c.cash = StartingCash + SumFunction(Realized(c)) - SumFunction(Spent(c))
  <2>1. b.cash = StartingCash + SumFunction(Realized(b)) - SumFunction(Spent(b))
    BY <1>1 DEF Balanced
  <2>2. /\ c.cash = b.cash + trade.realized + (CostOf(b, s) - CostOf(c, s))
        /\ trade.realized \in Int
    OBVIOUS
  <2> DEFINE r == trade.realized
             x == CostOf(b, s)
             y == CostOf(c, s)
             was == SumFunction(Realized(b))
             spent == SumFunction(Spent(b))
  <2>3. /\ r \in Int /\ x \in Int /\ y \in Int /\ was \in Int /\ spent \in Int
        /\ c.cash = (StartingCash + was - spent) + r + (x - y)
        /\ SumFunction(Realized(c)) = was + r /\ SumFunction(Spent(c)) = spent - x + y
    BY <1>10, <1>12, <1>13, <2>1, <2>2
  <2> HIDE DEF r, x, y, was, spent
  <2> QED
    BY <1>13, <2>3
<1>15. c.fees = SumFunction(Paid(c)) + SumFunction(Held(c))
  <2>1. b.fees = SumFunction(Paid(b)) + SumFunction(Held(b))
    BY <1>1 DEF Balanced
  <2> DEFINE r == trade.fees
             x == FeeOf(b, s)
             y == FeeOf(c, s)
             was == SumFunction(Paid(b))
             held == SumFunction(Held(b))
             now == SumFunction(Paid(c))
             rest == SumFunction(Held(c))
  <2>2. /\ r \in Int /\ x \in Int /\ y \in Int /\ was \in Int /\ held \in Int
        /\ c.fees = b.fees + r - (x - y) /\ b.fees = was + held
        /\ now = was + r /\ rest = held - x + y
    BY <1>11, <1>12, <1>13, <2>1
  <2> HIDE DEF r, x, y, was, held, now, rest
  <2>3. c.fees = now + rest
    BY <2>2
  <2> QED
    BY <2>3 DEF now, rest
<1>16. Balanced(c)
  BY <1>14, <1>15 DEF Balanced
<1> QED
  BY <1>16 DEF Sane

(***************************************************************************)
(* Entries.                                                                *)
(***************************************************************************)
LEMMA DebitValue ==
  ASSUME NEW p \in Int, NEW q \in Int, NEW f \in Int
  PROVE  /\ Optional(Debit(p, q, f), Amount)
         /\ HasValue(Debit(p, q, f)) =>
              /\ HasValue(notional(p, q)) /\ ValueOf(notional(p, q)) \in Amount
              /\ ValueOf(Debit(p, q, f)) = ValueOf(notional(p, q)) + f
<1>1. Optional(notional(p, q), Amount)
  BY NotionalRange
<1>2. \A c \in notional(p, q) : c \in Int
  BY <1>1 DEF Optional, Amount
<1>3. \A c \in notional(p, q) : Optional(add(c, f), Amount) /\ \A d \in add(c, f) : d = c + f
  BY <1>2, AddValue
<1>4. \A d \in Debit(p, q, f) : \E c \in notional(p, q) : d \in add(c, f)
  BY DEF Debit
<1>5. Optional(Debit(p, q, f), Amount)
  BY <1>1, <1>3, <1>4 DEF Optional
<1>6. ASSUME HasValue(Debit(p, q, f))
      PROVE  /\ HasValue(notional(p, q)) /\ ValueOf(notional(p, q)) \in Amount
             /\ ValueOf(Debit(p, q, f)) = ValueOf(notional(p, q)) + f
  <2>1. ValueOf(Debit(p, q, f)) \in Debit(p, q, f)
    BY <1>6, ValueIn
  <2>2. PICK c \in notional(p, q) : ValueOf(Debit(p, q, f)) = c + f
    BY <1>3, <1>4, <2>1
  <2>3. HasValue(notional(p, q))
    BY <2>2 DEF HasValue, None
  <2>4. c = ValueOf(notional(p, q)) /\ ValueOf(notional(p, q)) \in Amount
    BY <1>1, <2>2, <2>3, TheValue
  <2> QED
    BY <2>2, <2>3, <2>4
<1> QED
  BY <1>5, <1>6

LEMMA EnteredSane ==
  ASSUME NEW b, Sane(b), NEW s \in Symbols, ~hasPosition(b, s),
         NEW p \in 1 .. MaxUnits, NEW q \in 1 .. MaxUnits, NEW f \in 0 .. MaxUnits,
         NEW v \in Entered(b, s, p, q, f)
  PROVE  Sane(v) /\ (Ready(b) => Solid(v))
<1> DEFINE cost == ValueOf(notional(p, q))
           debit == ValueOf(Debit(p, q, f))
           average == ValueOf(averagePrice(cost, q))
           position == [quantity |-> q, average |-> average, cost |-> cost, mark |-> p,
                        entryFee |-> f]
           c == [b EXCEPT !.cash = @ - debit, !.fees = @ + f,
                          !.positions = Put(@, s, position)]
<1>1. /\ HasValue(Debit(p, q, f)) /\ debit <= b.cash /\ cost > 0
      /\ HasValue(averagePrice(cost, q)) /\ HasValue(add(b.fees, f)) /\ v \in Valued(c)
  BY DEF Entered, None
<1>2. p \in Int /\ q \in Int /\ f \in Int
  BY ArithmeticAssumption
<1>3. debit = cost + f /\ cost \in Amount /\ cost \in notional(p, q)
  BY <1>1, <1>2, DebitValue, ValueIn
<1> HIDE DEF cost, debit
<1>4. /\ cost \in 1 .. MaxUnits /\ cost \in Int /\ average \in 0 .. MaxUnits
      /\ average > 0 /\ averagePrice(cost, q) = Some(average)
  <2>1. cost \in Int /\ cost \in 1 .. MaxUnits
    BY <1>1, <1>3, ArithmeticAssumption DEF Amount
  <2>2. /\ average \in 0 .. MaxUnits /\ average \in averagePrice(cost, q)
        /\ \A x \in averagePrice(cost, q) : x = average
    BY <1>1, <1>2, <2>1, AverageRange, TheValue
  <2>3. averagePrice(cost, q) = Some(average)
    BY <2>2 DEF Some
  <2> HIDE DEF average
  <2>4. p \in Nat \ {0} /\ q \in Nat \ {0}
    BY ArithmeticAssumption
  <2>5. average > 0
    BY <1>3, <2>1, <2>2, <2>4, AveragePositive
  <2> QED
    BY <2>1, <2>2, <2>3, <2>5
<1> HIDE DEF average
<1>5. position \in PositionType
  BY <1>4, ArithmeticAssumption DEF PositionType
<1>6. RestorablePosition(position)
  BY <1>2, <1>4 DEF RestorablePosition
<1>7. BookType(b) /\ DOMAIN b = Fields /\ b.cash \in 0 .. MaxUnits /\ b.fees \in Int
      /\ DOMAIN b.positions \subseteq Symbols
  BY DEF Sane, BookType
<1>8. /\ DOMAIN c = Fields /\ c.cash = b.cash - debit /\ c.fees = b.fees + f
      /\ c.positions = Put(b.positions, s, position) /\ c.log = b.log
      /\ c.pending = b.pending /\ c.maxEquity = b.maxEquity
      /\ c.maxDrawdown = b.maxDrawdown /\ c.drawdown = b.drawdown
      /\ c.nextOrderId = b.nextOrderId
  BY <1>7 DEF Fields
<1>9. /\ DOMAIN c.positions = DOMAIN b.positions \cup {s} /\ c.positions[s] = position
      /\ \A t \in DOMAIN b.positions : t # s => c.positions[t] = b.positions[t]
  BY <1>8 DEF Put
<1> HIDE DEF c
<1>10. c.cash \in 0 .. MaxUnits /\ c.fees \in Int /\ c.fees \in 0 .. MaxUnits
  <2>1. c.cash \in 0 .. MaxUnits /\ c.fees \in Int
    BY <1>1, <1>2, <1>3, <1>4, <1>7, <1>8, ArithmeticAssumption
  <2>2. c.fees \in 0 .. MaxUnits
    BY <1>1, <1>7, <1>8, FeesRange
  <2> QED
    BY <2>1, <2>2
<1>11. \A t \in DOMAIN c.positions : c.positions[t] \in PositionType
  BY <1>5, <1>7, <1>9 DEF BookType
<1>12. BookType(c)
  BY <1>7, <1>8, <1>9, <1>10, <1>11 DEF BookType
<1>13. /\ CostOf(b, s) = 0 /\ FeeOf(b, s) = 0 /\ CostOf(c, s) = cost + f /\ FeeOf(c, s) = f
  BY <1>9 DEF CostOf, FeeOf, hasPosition
<1>14. OnlyAt(s, b, c)
  BY <1>9 DEF OnlyAt, hasPosition
<1>15. /\ c.cash = b.cash - (CostOf(c, s) - CostOf(b, s))
       /\ c.fees = b.fees + (FeeOf(c, s) - FeeOf(b, s))
  BY <1>2, <1>3, <1>4, <1>7, <1>8, <1>13
<1>16. Sane(c)
  BY <1>8, <1>12, <1>14, <1>15, EntryBalances
<1>17. Ready(b) => Ready(c)
  <2> SUFFICES ASSUME Ready(b) PROVE Ready(c)
    OBVIOUS
  <2>1. c.fees \in 0 .. MaxUnits
    <3>1. b.fees + f \in Amount /\ b.fees >= 0 /\ b.fees + f >= 0
      BY <1>1, <1>2, <1>7, AddValue DEF Ready
    <3> QED
      BY <1>8, <3>1, InRange
  <2>2. \A t \in DOMAIN c.positions : RestorablePosition(c.positions[t])
    BY <1>6, <1>9 DEF Ready
  <2> QED
    BY <1>8, <2>1, <2>2 DEF Ready, PendingIds
<1> QED
  BY <1>1, <1>16, <1>17, ValuedSane

LEMMA OpenLongSane ==
  ASSUME NEW b, Sane(b), NEW s \in Symbols, NEW netPrice \in Int, NEW entryFee \in Int,
         NEW capital \in Int, NEW units \in Int,
         NEW v \in openLong(b, s, netPrice, entryFee, capital, units)
  PROVE  Sane(v) /\ (Ready(b) => Solid(v))
<1> DEFINE p == ValueOf(price(netPrice))
           f == ValueOf(money(entryFee))
           budget == IF capital > 0 THEN {m \in money(capital) : 0 < m /\ m <= b.cash}
                                    ELSE Some(b.cash)
           fits(q) == \E m \in budget : \E d \in Debit(p, q, f) : d <= m
           affordable == UNION {quantityForNotional(m - f, p) : m \in {n \in budget : n > f}}
           sized == IF units > 0 THEN {q \in aligned(units) : fits(q)} ELSE affordable
<1>1. /\ ~hasPosition(b, s) /\ IsPositive(price(netPrice)) /\ IsNotNegative(money(entryFee))
      /\ IsPositive(sized) /\ v \in Entered(b, s, p, ValueOf(sized), f)
  BY DEF openLong, None
<1>2. p \in 1 .. MaxUnits
  <2>1. p \in Amount /\ p > 0
    BY <1>1, InputRange, ThePositive, TheValue
  <2> QED
    BY <2>1, InRange
<1>3. f \in 0 .. MaxUnits
  <2>1. f \in Amount /\ f >= 0
    BY <1>1, InputRange, TheNotNegative, TheValue
  <2> QED
    BY <2>1, InRange
<1> HIDE DEF p, f
<1>4. p \in Int /\ f \in Int
  BY <1>2, <1>3, ArithmeticAssumption
<1>5. Optional(budget, Int)
  <2>1. Optional(money(capital), Amount) /\ \A m \in Amount : m \in Int
    BY InputRange, InRange
  <2>2. b.cash \in Int
    BY ArithmeticAssumption DEF Sane, BookType
  <2> QED
    BY <2>1, <2>2 DEF Optional, Some
<1> HIDE DEF budget
<1>6. Optional(sized, Amount)
  <2>1. CASE units > 0
    <3>1. Optional(aligned(units), Amount)
      BY InputRange
    <3> QED
      BY <2>1, <3>1 DEF Optional
  <2>2. CASE ~(units > 0)
    <3>1. \A m \in budget : m - f \in Int
      BY <1>4, <1>5 DEF Optional
    <3>2. \A m \in budget : Optional(quantityForNotional(m - f, p), 0 .. MaxUnits)
      BY <1>4, <3>1, AffordableRange
    <3>3. \A x \in 0 .. MaxUnits : x \in Amount
      BY ArithmeticAssumption DEF Amount
    <3>4. \A x \in affordable : \E m \in budget : x \in quantityForNotional(m - f, p)
      OBVIOUS
    <3>5. Optional(affordable, Amount)
      BY <1>5, <3>2, <3>3, <3>4 DEF Optional
    <3> QED
      BY <2>2, <3>5
  <2> QED
    BY <2>1, <2>2
<1> HIDE DEF sized
<1>7. ValueOf(sized) \in 1 .. MaxUnits
  <2>1. ValueOf(sized) \in Amount /\ ValueOf(sized) > 0
    BY <1>1, <1>6, ThePositive, TheValue
  <2> QED
    BY <2>1, InRange
<1> QED
  BY <1>1, <1>2, <1>3, <1>7, EnteredSane

LEMMA AddToLongSane ==
  ASSUME NEW b, Sane(b), NEW s \in Symbols, hasPosition(b, s), NEW netPrice \in Int,
         NEW units \in Int, NEW addedFee \in Int, NEW capital \in Int,
         NEW v \in addToLong(b, s, netPrice, units, addedFee, capital)
  PROVE  Sane(v)
<1> DEFINE p == ValueOf(price(netPrice))
           q == ValueOf(aligned(units))
           f == ValueOf(money(addedFee))
           cost == ValueOf(notional(p, q))
           debit == ValueOf(Debit(p, q, f))
           held == b.positions[s]
           average == averagePrice(held.cost + cost, held.quantity + q)
           position == [quantity |-> held.quantity + q, average |-> ValueOf(average),
                        cost |-> held.cost + cost, mark |-> p,
                        entryFee |-> held.entryFee + f]
           c == [b EXCEPT !.cash = @ - debit, !.fees = @ + f, !.positions[s] = position]
<1>1. /\ IsPositive(price(netPrice)) /\ IsPositive(aligned(units))
      /\ IsNotNegative(money(addedFee))
      /\ HasValue(Debit(p, q, f)) /\ cost > 0 /\ debit <= b.cash
      /\ HasValue(add(held.quantity, q)) /\ HasValue(add(held.cost, cost))
      /\ HasValue(add(held.entryFee, f)) /\ HasValue(average) /\ HasValue(add(b.fees, f))
      /\ v \in Valued(c)
  BY DEF addToLong, None
<1>2. p \in 1 .. MaxUnits
  <2>1. p \in Amount /\ p > 0
    BY <1>1, InputRange, ThePositive, TheValue
  <2> QED
    BY <2>1, InRange
<1>3. q \in 1 .. MaxUnits
  <2>1. q \in Amount /\ q > 0
    BY <1>1, InputRange, ThePositive, TheValue
  <2> QED
    BY <2>1, InRange
<1>4. f \in 0 .. MaxUnits
  <2>1. f \in Amount /\ f >= 0
    BY <1>1, InputRange, TheNotNegative, TheValue
  <2> QED
    BY <2>1, InRange
<1> HIDE DEF p, q, f
<1>5. p \in Int /\ q \in Int /\ f \in Int
  BY <1>2, <1>3, <1>4, ArithmeticAssumption
<1>6. debit = cost + f /\ cost \in Int /\ cost > 0
  BY <1>1, <1>5, DebitValue, InRange
<1> HIDE DEF cost, debit
<1>7. BookType(b) /\ DOMAIN b = Fields /\ b.cash \in 0 .. MaxUnits /\ b.fees \in Int
      /\ DOMAIN b.positions \subseteq Symbols /\ s \in DOMAIN b.positions
  BY DEF Sane, BookType, hasPosition
<1>8. held.quantity \in 1 .. MaxUnits /\ held.cost \in 0 .. MaxUnits /\ held.entryFee \in 0 .. MaxUnits
  BY <1>7, PositionAmounts DEF BookType
<1> HIDE DEF held
<1>9. held.quantity \in Int /\ held.cost \in Int /\ held.entryFee \in Int
  BY <1>8, ArithmeticAssumption
<1>10. /\ held.quantity + q \in Amount /\ held.cost + cost \in Amount
       /\ held.entryFee + f \in Amount
  BY <1>1, <1>5, <1>6, <1>9, AddValue
<1>11. /\ held.quantity + q \in 1 .. MaxUnits /\ held.cost + cost \in 0 .. MaxUnits
       /\ held.entryFee + f \in 0 .. MaxUnits
  <2>1. held.quantity + q > 0 /\ held.cost + cost >= 0 /\ held.entryFee + f >= 0
    <3>1. held.quantity > 0 /\ held.cost >= 0 /\ held.entryFee >= 0
      BY <1>8, ArithmeticAssumption
    <3>2. q > 0 /\ f >= 0
      BY <1>3, <1>4, ArithmeticAssumption
    <3>3. held.quantity + q > 0
      BY <1>5, <1>9, <3>1, <3>2
    <3>4. held.cost + cost >= 0
      BY <1>6, <1>9, <3>1
    <3>5. held.entryFee + f >= 0
      BY <1>5, <1>9, <3>1, <3>2
    <3> QED
      BY <3>3, <3>4, <3>5
  <2> QED
    BY <1>10, <2>1, InRange
<1>12. ValueOf(average) \in 0 .. MaxUnits
  <2>1. held.cost + cost \in Int /\ held.quantity + q \in Int
    BY <1>5, <1>6, <1>9
  <2>2. Optional(average, 0 .. MaxUnits)
    BY <2>1, AverageRange
  <2>3. HasValue(average)
    BY <1>1
  <2> HIDE DEF average
  <2> QED
    BY <2>2, <2>3, TheValue
<1> HIDE DEF average
<1>13. position \in PositionType
  BY <1>2, <1>11, <1>12 DEF PositionType
<1>14. /\ DOMAIN c = Fields /\ c.cash = b.cash - debit /\ c.fees = b.fees + f
       /\ c.positions = [b.positions EXCEPT ![s] = position] /\ c.log = b.log
       /\ c.pending = b.pending /\ c.maxEquity = b.maxEquity
       /\ c.maxDrawdown = b.maxDrawdown /\ c.drawdown = b.drawdown
  BY <1>7 DEF Fields
<1>15. /\ position.cost = held.cost + cost /\ position.entryFee = held.entryFee + f
  OBVIOUS
<1> HIDE DEF position, c
<1>16. /\ DOMAIN c.positions = DOMAIN b.positions /\ c.positions[s] = position
       /\ \A t \in DOMAIN b.positions : t # s => c.positions[t] = b.positions[t]
  BY <1>7, <1>14
<1>17. c.cash \in 0 .. MaxUnits /\ c.fees \in Int /\ c.fees \in 0 .. MaxUnits
  <2>1. c.cash \in 0 .. MaxUnits /\ c.fees \in Int
    BY <1>1, <1>4, <1>5, <1>6, <1>7, <1>14, ArithmeticAssumption
  <2>2. c.fees \in 0 .. MaxUnits
    BY <1>1, <1>4, <1>7, <1>14, FeesRange
  <2> QED
    BY <2>1, <2>2
<1>18. BookType(c)
  BY <1>7, <1>13, <1>14, <1>16, <1>17 DEF BookType
<1>19. /\ CostOf(b, s) = held.cost + held.entryFee /\ FeeOf(b, s) = held.entryFee
       /\ CostOf(c, s) = position.cost + position.entryFee /\ FeeOf(c, s) = position.entryFee
  BY <1>7, <1>16 DEF CostOf, FeeOf, hasPosition, held
<1>20. OnlyAt(s, b, c)
  BY <1>16 DEF OnlyAt
<1>21. /\ c.cash = b.cash - (CostOf(c, s) - CostOf(b, s))
       /\ c.fees = b.fees + (FeeOf(c, s) - FeeOf(b, s))
  <2>1. b.cash \in Int
    BY <1>7, ArithmeticAssumption
  <2> QED
    BY <1>5, <1>6, <1>7, <1>9, <1>14, <1>15, <1>19, <2>1
<1>22. Sane(c)
  BY <1>14, <1>18, <1>20, <1>21, EntryBalances
<1> QED
  BY <1>1, <1>22, ValuedSane

(***************************************************************************)
(* Exits.                                                                  *)
(***************************************************************************)
LEMMA ClosePositionSane ==
  ASSUME NEW b, Sane(b), NEW s \in Symbols, NEW netPrice \in Int, NEW exitFee \in Int,
         NEW units \in Int, NEW v \in closePosition(b, s, netPrice, exitFee, units)
  PROVE  Sane(v) /\ (units = 0 /\ Solid(b) => Solid(v))
<1> DEFINE p == ValueOf(price(netPrice))
           f == ValueOf(money(exitFee))
           held == b.positions[s]
           part == IF units > 0 THEN {n \in aligned(units) : n <= held.quantity}
                                ELSE Some(held.quantity)
           q == ValueOf(part)
           proceeds == ValueOf(notional(p, q))
           cost == ValueOf(proportional(held.cost, q, held.quantity))
           entryFee == ValueOf(proportional(held.entryFee, q, held.quantity))
           average == averagePrice(held.cost - cost, held.quantity - q)
           rest == [quantity |-> held.quantity - q, average |-> ValueOf(average),
                    cost |-> held.cost - cost, mark |-> p,
                    entryFee |-> held.entryFee - entryFee]
           trade == [symbol |-> s, entry |-> held.average, exit |-> p,
                     quantity |-> q, fees |-> f + entryFee,
                     realized |-> proceeds - cost - f - entryFee]
           c == [b EXCEPT
                  !.cash = @ + proceeds - f, !.fees = @ + f,
                  !.positions = IF q = held.quantity THEN Erase(@, s) ELSE Put(@, s, rest),
                  !.log = Append(@, trade)]
<1>1. CASE ~hasPosition(b, s)
  BY <1>1 DEF closePosition, Some
<1>2. CASE hasPosition(b, s)
  <2>1. /\ IsPositive(price(netPrice)) /\ IsNotNegative(money(exitFee))
        /\ IsPositive(part) /\ HasValue(notional(p, q))
        /\ IsNotNegative(subtract(proceeds, f))
        /\ HasValue(proportional(held.cost, q, held.quantity))
        /\ HasValue(proportional(held.entryFee, q, held.quantity))
        /\ q < held.quantity => HasValue(average)
        /\ HasValue(add(b.cash, proceeds - f)) /\ HasValue(add(b.fees, f)) /\ v \in Valued(c)
    BY <1>2 DEF closePosition, None
  <2>2. p \in 1 .. MaxUnits
    <3>1. p \in Amount /\ p > 0
      BY <2>1, InputRange, ThePositive, TheValue
    <3> QED
      BY <3>1, InRange
  <2>3. f \in 0 .. MaxUnits
    <3>1. f \in Amount /\ f >= 0
      BY <2>1, InputRange, TheNotNegative, TheValue
    <3> QED
      BY <3>1, InRange
  <2> HIDE DEF p, f
  <2>4. BookType(b) /\ DOMAIN b = Fields /\ b.cash \in 0 .. MaxUnits /\ b.fees \in Int
        /\ DOMAIN b.positions \subseteq Symbols /\ s \in DOMAIN b.positions /\ IsList(b.log)
    BY <1>2 DEF Sane, BookType, hasPosition
  <2>5. /\ held.quantity \in 1 .. MaxUnits /\ held.cost \in 0 .. MaxUnits
        /\ held.entryFee \in 0 .. MaxUnits
    BY <2>4, PositionAmounts DEF BookType
  <2>6. Ready(b) => RestorablePosition(held)
    BY <2>4 DEF Ready
  <2>7. units = 0 => q = held.quantity
    <3>1. units = 0 => part = {held.quantity}
      BY DEF Some
    <3> HIDE DEF part
    <3> QED
      BY <3>1 DEF ValueOf
  <2> HIDE DEF held
  <2>8. /\ p \in Int /\ f \in Int /\ held.quantity \in Int /\ held.cost \in Int
        /\ held.entryFee \in Int /\ b.cash \in Int /\ held.quantity \in Nat \ {0}
    BY <2>2, <2>3, <2>4, <2>5, ArithmeticAssumption
  <2>9. q \in 1 .. held.quantity
    <3>1. Optional(part, Int) /\ \A x \in part : x <= held.quantity
      <4>1. CASE units > 0
        <5>1. Optional(aligned(units), Amount) /\ \A n \in Amount : n \in Int
          BY InputRange, InRange
        <5> QED
          BY <4>1, <5>1 DEF Optional
      <4>2. CASE ~(units > 0)
        BY <2>8, <4>2 DEF Some, Optional
      <4> QED
        BY <4>1, <4>2
    <3> HIDE DEF part
    <3>2. HasValue(part) /\ ValueOf(part) > 0
      BY <2>1, <3>1, ThePositive
    <3>3. ValueOf(part) \in Int /\ ValueOf(part) \in part
      BY <3>1, <3>2, TheValue
    <3> QED
      BY <2>8, <3>1, <3>2, <3>3
  <2> HIDE DEF q
  <2>10. q \in Nat /\ q <= held.quantity /\ q \in Int
    BY <2>8, <2>9
  <2>11. proceeds \in Int
    <3>1. proceeds \in Amount
      BY <2>1, <2>8, <2>10, NotionalRange, TheValue
    <3> QED
      BY <3>1, InRange
  <2> HIDE DEF proceeds
  <2>12. cost \in 0 .. held.cost /\ (q = held.quantity => cost = held.cost)
    <3> DEFINE share == proportional(held.cost, q, held.quantity)
    <3>1. /\ Optional(share, 0 .. held.cost)
          /\ q = held.quantity => \A x \in share : x = held.cost
      BY <2>5, <2>8, <2>10, ShareRange
    <3>2. HasValue(share) /\ cost = ValueOf(share)
      BY <2>1
    <3> HIDE DEF share, cost
    <3> QED
      BY <3>1, <3>2, TheValue
  <2>13. entryFee \in 0 .. held.entryFee /\ (q = held.quantity => entryFee = held.entryFee)
    <3> DEFINE share == proportional(held.entryFee, q, held.quantity)
    <3>1. /\ Optional(share, 0 .. held.entryFee)
          /\ q = held.quantity => \A x \in share : x = held.entryFee
      BY <2>5, <2>8, <2>10, ShareRange
    <3>2. HasValue(share) /\ entryFee = ValueOf(share)
      BY <2>1
    <3> HIDE DEF share, entryFee
    <3> QED
      BY <3>1, <3>2, TheValue
  <2> HIDE DEF cost, entryFee
  <2>14. cost \in Int /\ entryFee \in Int
    BY <2>8, <2>12, <2>13
  <2>15. b.cash + (proceeds - f) \in 0 .. MaxUnits
    <3>1. proceeds - f \in Int /\ proceeds - f >= 0
      BY <2>1, <2>8, <2>11, AddValue DEF IsNotNegative
    <3>2. b.cash + (proceeds - f) \in Amount
      BY <2>1, <2>8, <3>1, AddValue
    <3>3. b.cash >= 0
      BY <2>4
    <3> QED
      BY <2>8, <3>1, <3>2, <3>3, InRange
  <2>16. /\ DOMAIN c = Fields /\ c.cash = b.cash + proceeds - f /\ c.fees = b.fees + f
         /\ c.positions = IF q = held.quantity THEN Erase(b.positions, s)
                                              ELSE Put(b.positions, s, rest)
         /\ c.log = Append(b.log, trade)
         /\ c.pending = b.pending /\ c.maxEquity = b.maxEquity
         /\ c.maxDrawdown = b.maxDrawdown /\ c.drawdown = b.drawdown
         /\ c.nextOrderId = b.nextOrderId
    BY <2>4 DEF Fields
  <2>17. /\ trade.fees = f + entryFee /\ trade.realized = proceeds - cost - f - entryFee
         /\ trade.entry = held.average /\ trade.exit = p /\ trade.quantity = q
    OBVIOUS
  <2>18. trade.fees \in Int /\ trade.realized \in Int
    BY <2>8, <2>11, <2>14, <2>17
  <2> HIDE DEF trade, c
  <2>19. q # held.quantity => rest \in PositionType
    <3> SUFFICES ASSUME q # held.quantity PROVE rest \in PositionType
      OBVIOUS
    <3>1. held.quantity - q \in 1 .. MaxUnits /\ q < held.quantity
      BY <2>5, <2>8, <2>9, ArithmeticAssumption
    <3>2. held.cost - cost \in 0 .. MaxUnits /\ held.cost - cost \in Int
          /\ held.entryFee - entryFee \in 0 .. MaxUnits /\ held.quantity - q \in Int
      BY <2>5, <2>8, <2>10, <2>12, <2>13, <2>14, ArithmeticAssumption
    <3>3. ValueOf(average) \in 0 .. MaxUnits
      <4>1. Optional(average, 0 .. MaxUnits)
        BY <3>2, AverageRange
      <4>2. HasValue(average)
        BY <2>1, <3>1
      <4> HIDE DEF average
      <4> QED
        BY <4>1, <4>2, TheValue
    <3> HIDE DEF average
    <3> QED
      BY <2>2, <3>1, <3>2, <3>3 DEF PositionType
  <2>20. rest.cost = held.cost - cost /\ rest.entryFee = held.entryFee - entryFee
    OBVIOUS
  <2> HIDE DEF rest
  <2>21. /\ DOMAIN c.positions = IF q = held.quantity THEN DOMAIN b.positions \ {s}
                                                     ELSE DOMAIN b.positions
         /\ q # held.quantity => c.positions[s] = rest
         /\ \A t \in DOMAIN b.positions : t # s => c.positions[t] = b.positions[t]
    BY <2>4, <2>16 DEF Erase, Put
  <2>22. c.cash \in 0 .. MaxUnits /\ c.fees \in Int /\ c.fees \in 0 .. MaxUnits
    <3>1. c.cash \in 0 .. MaxUnits /\ c.fees \in Int
      BY <2>4, <2>8, <2>11, <2>15, <2>16
    <3>2. c.fees \in 0 .. MaxUnits
      BY <2>1, <2>3, <2>4, <2>16, FeesRange
    <3> QED
      BY <3>1, <3>2
  <2>23. /\ IsList(c.log)
         /\ \A i \in 1 .. Len(c.log) : c.log[i].realized \in Int /\ c.log[i].fees \in Int
    <3> DEFINE k == Len(b.log)
    <3>1. /\ k \in Nat /\ IsList(c.log) /\ Len(c.log) = k + 1
          /\ \A i \in 1 .. k : c.log[i] = b.log[i]
          /\ c.log[k + 1] = trade
      BY <2>4, <2>16, Appended, ListDomain
    <3>2. \A i \in 1 .. k : b.log[i].realized \in Int /\ b.log[i].fees \in Int
      BY <2>4 DEF BookType
    <3> HIDE DEF k
    <3>3. \A i \in 1 .. k + 1 : i \in 1 .. k \/ i = k + 1
      BY <3>1
    <3> QED
      BY <2>18, <3>1, <3>2, <3>3
  <2>24. \A t \in DOMAIN c.positions : c.positions[t] \in PositionType
    BY <2>4, <2>19, <2>21 DEF BookType
  <2>25. BookType(c)
    BY <2>4, <2>16, <2>21, <2>22, <2>23, <2>24 DEF BookType
  <2>26. /\ CostOf(b, s) = held.cost + held.entryFee /\ FeeOf(b, s) = held.entryFee
         /\ CostOf(c, s) = (held.cost - cost) + (held.entryFee - entryFee)
         /\ FeeOf(c, s) = held.entryFee - entryFee
    <3>1. CostOf(b, s) = held.cost + held.entryFee /\ FeeOf(b, s) = held.entryFee
      BY <2>4 DEF CostOf, FeeOf, hasPosition, held
    <3>2. CASE q = held.quantity
      <4>1. CostOf(c, s) = 0 /\ FeeOf(c, s) = 0
        BY <2>21, <3>2 DEF CostOf, FeeOf, hasPosition
      <4>2. held.cost - cost = 0 /\ held.entryFee - entryFee = 0
        BY <2>8, <2>12, <2>13, <3>2
      <4> QED
        BY <3>1, <4>1, <4>2
    <3>3. CASE q # held.quantity
      <4>1. CostOf(c, s) = rest.cost + rest.entryFee /\ FeeOf(c, s) = rest.entryFee
        BY <2>4, <2>21, <3>3 DEF CostOf, FeeOf, hasPosition
      <4> QED
        BY <2>20, <3>1, <4>1
    <3> QED
      BY <3>2, <3>3
  <2>27. OnlyAt(s, b, c)
    BY <2>21 DEF OnlyAt
  <2>28. /\ c.cash = b.cash + trade.realized + (CostOf(b, s) - CostOf(c, s))
         /\ c.fees = b.fees + trade.fees - (FeeOf(b, s) - FeeOf(c, s))
    <3> DEFINE x == CostOf(b, s)
               y == CostOf(c, s)
               m == FeeOf(b, s)
               n == FeeOf(c, s)
               k == held.cost
               e == held.entryFee
    <3>1. /\ k \in Int /\ e \in Int /\ b.cash \in Int /\ b.fees \in Int
          /\ x = k + e /\ m = e /\ y = (k - cost) + (e - entryFee) /\ n = e - entryFee
      BY <2>4, <2>8, <2>26
    <3> HIDE DEF x, y, m, n, k, e
    <3>2. trade.realized + (x - y) = proceeds - f
      BY <2>8, <2>11, <2>14, <2>17, <3>1
    <3>3. trade.fees - (m - n) = f
      BY <2>8, <2>14, <2>17, <3>1
    <3>4. x - y \in Int /\ m - n \in Int
      BY <2>14, <3>1
    <3> DEFINE d == x - y
               h == m - n
               r == trade.realized
               g == trade.fees
    <3>5. /\ c.cash = b.cash + proceeds - f /\ c.fees = b.fees + f /\ r \in Int /\ g \in Int
          /\ d \in Int /\ h \in Int /\ r + d = proceeds - f /\ g - h = f
      BY <2>16, <2>18, <3>2, <3>3, <3>4
    <3> HIDE DEF d, h, r, g
    <3>6. c.cash = b.cash + r + d
      BY <2>8, <2>11, <3>1, <3>5
    <3>7. c.fees = b.fees + g - h
      BY <2>8, <3>1, <3>5
    <3> QED
      BY <3>6, <3>7 DEF x, y, m, n, d, h, r, g
  <2>29. Sane(c)
    BY <2>16, <2>18, <2>25, <2>27, <2>28, ExitBalances
  <2>30. units = 0 /\ Ready(b) => Ready(c)
    <3> SUFFICES ASSUME units = 0, Ready(b) PROVE Ready(c)
      OBVIOUS
    <3>1. c.fees \in 0 .. MaxUnits
      <4>1. b.fees + f \in Amount /\ b.fees >= 0 /\ b.fees + f >= 0
        BY <2>1, <2>3, <2>4, <2>8, AddValue DEF Ready
      <4> QED
        BY <2>16, <4>1, InRange
    <3>2. RestorableTrade(trade)
      <4>1. held.average > 0
        BY <2>6 DEF RestorablePosition
      <4>2. p > 0 /\ q > 0 /\ f + entryFee >= 0
        BY <2>2, <2>3, <2>8, <2>9, <2>10, <2>13, <2>14
      <4> QED
        BY <2>17, <4>1, <4>2 DEF RestorableTrade
    <3>3. \A i \in 1 .. Len(c.log) : RestorableTrade(c.log[i])
      <4> DEFINE k == Len(b.log)
      <4>1. /\ k \in Nat /\ Len(c.log) = k + 1
            /\ \A i \in 1 .. k : c.log[i] = b.log[i]
            /\ c.log[k + 1] = trade
        BY <2>4, <2>16, Appended, ListDomain
      <4>2. \A i \in 1 .. k : RestorableTrade(b.log[i])
        BY DEF Ready
      <4> HIDE DEF k
      <4>3. \A i \in 1 .. k + 1 : i \in 1 .. k \/ i = k + 1
        BY <4>1
      <4> QED
        BY <3>2, <4>1, <4>2, <4>3
    <3>4. \A t \in DOMAIN c.positions : RestorablePosition(c.positions[t])
      BY <2>7, <2>21 DEF Ready
    <3> QED
      BY <2>16, <3>1, <3>3, <3>4 DEF Ready, PendingIds
  <2> QED
    BY <2>1, <2>29, <2>30, ValuedSane DEF Solid
<1> QED
  BY <1>1, <1>2

LEMMA UpdatePnLSane ==
  ASSUME NEW b, Sane(b), NEW s, NEW currentPrice \in Int, NEW v \in updatePnL(b, s, currentPrice)
  PROVE  Sane(v) /\ (Solid(b) => Solid(v))
<1> DEFINE p == ValueOf(price(currentPrice))
           c == [b EXCEPT !.positions[s].mark = p]
<1>1. CASE ~hasPosition(b, s)
  BY <1>1 DEF updatePnL, Some
<1>2. CASE hasPosition(b, s)
  <2>1. IsPositive(price(currentPrice)) /\ v \in Valued(c)
    BY <1>2 DEF updatePnL, None
  <2>2. p \in 1 .. MaxUnits
    <3>1. p \in Amount /\ p > 0
      BY <2>1, InputRange, ThePositive, TheValue
    <3> QED
      BY <3>1, InRange
  <2> HIDE DEF p
  <2>3. BookType(b) /\ DOMAIN b = Fields /\ s \in DOMAIN b.positions
        /\ b.positions[s] \in PositionType
    BY <1>2 DEF Sane, BookType, hasPosition
  <2> DEFINE position == [b.positions[s] EXCEPT !.mark = p]
  <2>4. /\ position \in PositionType /\ position.cost = b.positions[s].cost
        /\ position.entryFee = b.positions[s].entryFee /\ position.mark = p
        /\ position.quantity = b.positions[s].quantity
        /\ position.average = b.positions[s].average
    BY <2>2, <2>3 DEF PositionType
  <2>5. /\ DOMAIN c = Fields /\ c.cash = b.cash /\ c.fees = b.fees
        /\ c.positions = [b.positions EXCEPT ![s] = position] /\ c.log = b.log
        /\ c.pending = b.pending /\ c.maxEquity = b.maxEquity
        /\ c.maxDrawdown = b.maxDrawdown /\ c.drawdown = b.drawdown
        /\ c.nextOrderId = b.nextOrderId
    BY <2>3 DEF Fields
  <2> HIDE DEF position, c
  <2>6. /\ DOMAIN c.positions = DOMAIN b.positions /\ c.positions[s] = position
        /\ \A t \in DOMAIN b.positions : t # s => c.positions[t] = b.positions[t]
    BY <2>3, <2>5
  <2>7. BookType(c)
    BY <2>3, <2>4, <2>5, <2>6 DEF BookType
  <2>8. CostOf(c, s) = CostOf(b, s) /\ FeeOf(c, s) = FeeOf(b, s)
    BY <2>3, <2>4, <2>6 DEF CostOf, FeeOf, hasPosition
  <2>9. OnlyAt(s, b, c)
    BY <2>6 DEF OnlyAt
  <2>10. /\ c.cash = b.cash - (CostOf(c, s) - CostOf(b, s))
         /\ c.fees = b.fees + (FeeOf(c, s) - FeeOf(b, s))
    BY <2>3, <2>5, <2>8, BookIntegers
  <2>11. Sane(c)
    BY <2>5, <2>7, <2>9, <2>10, EntryBalances
  <2>12. Ready(b) => Ready(c)
    <3>1. Ready(b) => RestorablePosition(position)
      BY <2>2, <2>3, <2>4 DEF Ready, RestorablePosition
    <3> QED
      BY <2>5, <2>6, <3>1 DEF Ready, PendingIds
  <2> QED
    BY <2>1, <2>11, <2>12, ValuedSane DEF Solid
<1> QED
  BY <1>1, <1>2

(***************************************************************************)
(* Pending orders.                                                         *)
(***************************************************************************)
CandleType(candle) == candle.low \in Int /\ candle.close \in Int /\ candle.high \in Int

(* What is needed of a filled order to book it.                            *)
FillType(fill) ==
  /\ fill.price \in Int /\ fill.order.capital \in Int
  /\ fill.order.quantity \in Int /\ fill.order.quantity <= MaxUnits

(* A change to the queue alone.                                            *)
LEMMA QueueSane ==
  ASSUME NEW b, Sane(b), NEW c, DOMAIN c = Fields,
         \A field \in Fields \ {"pending", "nextOrderId"} : c[field] = b[field],
         IsList(c.pending), \A i \in 1 .. Len(c.pending) : PendingType(c.pending[i])
  PROVE  Sane(c) /\ (Solid(b) /\ PendingIds(c) => Solid(c))
<1>1. /\ c.cash = b.cash /\ c.fees = b.fees /\ c.log = b.log /\ c.positions = b.positions
      /\ c.maxEquity = b.maxEquity /\ c.maxDrawdown = b.maxDrawdown /\ c.drawdown = b.drawdown
      /\ c.equity = b.equity /\ c.unrealized = b.unrealized
  BY DEF Fields
<1>2. BookType(c)
  BY <1>1 DEF Sane, BookType
<1>3. Balanced(c)
  BY <1>1, SameBalance DEF Sane
<1>4. Coherent(b) => Coherent(c)
  <2>1. WorthOf(c) = WorthOf(b) /\ ProfitOf(c) = ProfitOf(b)
    BY <1>1 DEF WorthOf, ProfitOf
  <2> QED
    BY <1>1, <2>1 DEF Coherent
<1>5. Ready(b) /\ PendingIds(c) => Ready(c)
  BY <1>1 DEF Ready
<1> QED
  BY <1>2, <1>3, <1>4, <1>5 DEF Sane, Solid

(* Orders with ids of their own keep them apart in whatever is collected   *)
(* of them.                                                                *)
LEMMA CollectedIds ==
  ASSUME NEW f, NEW places, IsFiniteSet(places), places \subseteq Int,
         \A i, j \in places : f[i].id = f[j].id => i = j
  PROVE  \A m, n \in 1 .. Len(Collected(f, places)) :
           Collected(f, places)[m].id = Collected(f, places)[n].id => m = n
<1> DEFINE k == Cardinality(places)
           list == Collected(f, places)
           order == Ascending(places)
<1>1. /\ order \in [1 .. k -> places]
      /\ \A m, n \in 1 .. k : m < n => order[m] < order[n]
  BY InOrder DEF Ascending
<1>2. k \in Nat
  BY FS_CardinalityType
<1> HIDE DEF k, order
<1>3. list = [n \in 1 .. k |-> f[order[n]]]
  BY DEF Collected, k, order
<1> HIDE DEF list
<1>4. Len(list) = k
  <2>1. list = [n \in 1 .. k |-> list[n]]
    BY <1>3
  <2> QED
    BY <1>2, <2>1, AsSequence
<1>5. ASSUME NEW m \in 1 .. k, NEW n \in 1 .. k, list[m].id = list[n].id PROVE m = n
  <2>1. order[m] = order[n] /\ order[m] \in Int /\ order[n] \in Int
    BY <1>1, <1>3, <1>5
  <2>2. ~(m < n) /\ ~(n < m)
    BY <1>1, <2>1
  <2> QED
    BY <1>2, <2>2
<1> QED
  BY <1>4, <1>5 DEF list

LEMMA PlacePendingSane ==
  ASSUME NEW b, Sane(b), NEW request, request.limit \in Int, request.offset \in Int,
         request.quantity \in Int, request.capital \in Int
  PROVE  /\ Sane(placePendingOrder(b, request))
         /\ Solid(b) => Solid(placePendingOrder(b, request))
<1> DEFINE limit == ValueOf(price(request.limit))
           offset == ValueOf(price(request.offset))
           size == ValueOf(quantity(request.quantity))
           capital == ValueOf(money(request.capital))
           best == IF request.type = "TRAILING_STOP" THEN limit ELSE 0
           order == [id |-> b.nextOrderId, symbol |-> request.symbol,
                     type |-> request.type, buy |-> request.buy, limit |-> limit,
                     offset |-> offset, best |-> best, quantity |-> size, capital |-> capital]
           c == [b EXCEPT !.pending = Append(@, order), !.nextOrderId = @ + 1]
           placed_ == placePendingOrder(b, request)
<1>1. CASE placed_ = b
  BY <1>1
<1>2. CASE placed_ # b
  <2>1. /\ placed_ = c
        /\ HasValue(quantity(request.quantity)) /\ HasValue(money(request.capital))
        /\ HasValue(price(request.limit)) /\ HasValue(price(request.offset))
    BY <1>2 DEF placePendingOrder
  <2>2. limit \in Amount /\ offset \in Amount /\ size \in Amount /\ capital \in Amount
    BY <2>1, InputRange, TheValue
  <2> HIDE DEF limit, offset, size, capital
  <2>3. /\ best \in Int /\ limit \in Int /\ offset \in Int /\ size \in Int /\ capital \in Int
        /\ size <= MaxUnits
    BY <2>2, InRange DEF Amount
  <2> HIDE DEF best
  <2>4. PendingType(order) /\ order.id = b.nextOrderId
    BY <2>3 DEF PendingType, OrderFields
  <2> HIDE DEF order
  <2>5. /\ DOMAIN b = Fields /\ IsList(b.pending)
        /\ \A i \in 1 .. Len(b.pending) : PendingType(b.pending[i])
    BY DEF Sane, BookType
  <2>6. /\ DOMAIN c = Fields /\ c.pending = Append(b.pending, order)
        /\ \A field \in Fields \ {"pending", "nextOrderId"} : c[field] = b[field]
        /\ c.nextOrderId = b.nextOrderId + 1
    BY <2>5 DEF Fields
  <2> HIDE DEF c
  <2>7. IsList(c.pending) /\ \A i \in 1 .. Len(c.pending) : PendingType(c.pending[i])
    <3> DEFINE k == Len(b.pending)
    <3>1. /\ k \in Nat /\ IsList(c.pending) /\ Len(c.pending) = k + 1
          /\ \A i \in 1 .. k : c.pending[i] = b.pending[i]
          /\ c.pending[k + 1] = order
      BY <2>5, <2>6, Appended, ListDomain
    <3>2. \A i \in 1 .. k : PendingType(b.pending[i])
      BY <2>5
    <3> HIDE DEF k
    <3>3. \A i \in 1 .. k + 1 : i \in 1 .. k \/ i = k + 1
      BY <3>1
    <3> QED
      BY <2>4, <3>1, <3>2, <3>3
  <2>8. PendingIds(b) => PendingIds(c)
    <3> SUFFICES ASSUME PendingIds(b) PROVE PendingIds(c)
      OBVIOUS
    <3> DEFINE k == Len(b.pending)
               id == b.nextOrderId
    <3>1. /\ k \in Nat /\ IsList(c.pending) /\ Len(c.pending) = k + 1
          /\ \A i \in 1 .. k : c.pending[i] = b.pending[i]
          /\ c.pending[k + 1] = order
      BY <2>5, <2>6, Appended, ListDomain
    <3>2. /\ id \in Nat \ {0} /\ \A i \in 1 .. k : b.pending[i].id \in 1 .. id - 1
          /\ \A i, j \in 1 .. k : b.pending[i].id = b.pending[j].id => i = j
          /\ c.nextOrderId = id + 1 /\ order.id = id
      BY <2>4, <2>6 DEF PendingIds
    <3> HIDE DEF k, id
    <3>3. \A i \in 1 .. k + 1 : i \in 1 .. k \/ i = k + 1
      BY <3>1
    <3>4. \A i \in 1 .. k : c.pending[i].id \in 1 .. id - 1
      BY <3>1, <3>2
    <3>5. c.pending[k + 1].id = id /\ id \in 1 .. id /\ id \notin 1 .. id - 1
          /\ 1 .. id - 1 \subseteq 1 .. id
      BY <3>1, <3>2
    <3>6. \A i \in 1 .. k + 1 : c.pending[i].id \in 1 .. id
      BY <3>3, <3>4, <3>5
    <3>7. ASSUME NEW i \in 1 .. k + 1, NEW j \in 1 .. k + 1, c.pending[i].id = c.pending[j].id
          PROVE  i = j
      <4>1. CASE i \in 1 .. k /\ j \in 1 .. k
        BY <3>1, <3>2, <3>7, <4>1
      <4>2. CASE i = k + 1 \/ j = k + 1
        BY <3>3, <3>4, <3>5, <3>7, <4>2
      <4> QED
        BY <3>3, <4>1, <4>2
    <3>8. id + 1 \in Nat \ {0} /\ id + 1 - 1 = id
      BY <3>2
    <3> QED
      BY <3>1, <3>2, <3>6, <3>7, <3>8 DEF PendingIds
  <2> HIDE DEF placed_
  <2>9. Sane(placed_) /\ (Solid(b) => Solid(placed_))
    BY <2>1, <2>6, <2>7, <2>8, QueueSane DEF Solid, Ready
  <2> QED
    BY <2>9 DEF placed_
<1> QED
  BY <1>1, <1>2

LEMMA CancelPendingSane ==
  ASSUME NEW b, Sane(b), NEW id
  PROVE  /\ Sane(cancelPendingOrder(b, id))
         /\ Solid(b) => Solid(cancelPendingOrder(b, id))
<1> DEFINE places == {i \in DOMAIN b.pending : b.pending[i].id # id}
           c == cancelPendingOrder(b, id)
           kept == Collected(b.pending, places)
<1>1. /\ DOMAIN b = Fields /\ IsList(b.pending)
      /\ \A i \in 1 .. Len(b.pending) : PendingType(b.pending[i])
  BY DEF Sane, BookType
<1>2. c = [b EXCEPT !.pending = kept]
  BY <1>1 DEF cancelPendingOrder, Fields
<1>3. IsFiniteSet(places) /\ places \subseteq 1 .. Len(b.pending)
  BY <1>1, ListDomain, FS_Subset
<1> HIDE DEF places
<1>4. IsList(kept) /\ \A n \in 1 .. Len(kept) : \E i \in places : kept[n] = b.pending[i]
  <2>1. places \subseteq Int
    BY <1>3
  <2> QED
    BY <1>3, <2>1, CollectedFrom
<1>5. \A n \in 1 .. Len(kept) : PendingType(kept[n])
  BY <1>1, <1>3, <1>4
<1>6. PendingIds(b) => \A m, n \in 1 .. Len(kept) : kept[m].id = kept[n].id => m = n
  <2>1. places \subseteq Int
    BY <1>3
  <2> QED
    BY <1>3, <2>1, CollectedIds DEF PendingIds
<1> HIDE DEF c, kept
<1>7. /\ DOMAIN c = Fields /\ c.pending = kept /\ c.nextOrderId = b.nextOrderId
      /\ \A field \in Fields \ {"pending", "nextOrderId"} : c[field] = b[field]
  BY <1>1, <1>2 DEF Fields
<1>8. PendingIds(b) => PendingIds(c)
  BY <1>3, <1>4, <1>6, <1>7 DEF PendingIds
<1>9. Sane(c) /\ (Solid(b) => Solid(c))
  BY <1>4, <1>5, <1>7, <1>8, QueueSane DEF Solid, Ready
<1> QED
  BY <1>9 DEF c

LEMMA TrailedType ==
  ASSUME NEW order, PendingType(order), NEW candle, CandleType(candle)
  PROVE  PendingType(Trailed(order, candle)) /\ Trailed(order, candle).id = order.id
<1> DEFINE best == price(candle.close)
           stop == UNION {price(toDouble(p) - toDouble(order.offset)) : p \in best}
           raised == [order EXCEPT !.best = ValueOf(best), !.limit = ValueOf(stop)]
<1>1. CASE Trailed(order, candle) = order
  BY <1>1
<1>2. CASE Trailed(order, candle) # order
  <2>1. Trailed(order, candle) = raised /\ IsPositive(best) /\ IsPositive(stop)
    BY <1>2 DEF Trailed
  <2>2. Optional(best, Amount)
    BY InputRange DEF CandleType
  <2>3. ValueOf(best) \in Int
    BY <2>1, <2>2, ThePositive, TheValue, InRange
  <2>4. \A p \in best : toDouble(p) - toDouble(order.offset) \in Int
    <3>1. \A p \in best : p \in Int
      BY <2>2, InRange DEF Optional
    <3>2. order.offset \in Int /\ Resolution \in Int
      BY ArithmeticAssumption DEF PendingType
    <3> QED
      BY <3>1, <3>2 DEF toDouble
  <2>5. \A p \in best : price(toDouble(p) - toDouble(order.offset)) \subseteq Amount
    BY <2>4, InputRange DEF Optional
  <2>6. ValueOf(stop) \in Int
    <3>1. stop \subseteq Amount
      BY <2>5
    <3>2. HasValue(stop)
      BY <2>1 DEF IsPositive, HasValue, None
    <3> HIDE DEF stop
    <3>3. ValueOf(stop) \in Amount
      BY <3>1, <3>2, ValueIn
    <3> QED
      BY <3>3, InRange
  <2> HIDE DEF best, stop
  <2>7. /\ DOMAIN raised = OrderFields /\ raised.limit = ValueOf(stop)
        /\ raised.best = ValueOf(best) /\ raised.offset = order.offset
        /\ raised.quantity = order.quantity /\ raised.capital = order.capital
        /\ raised.id = order.id
    BY DEF PendingType, OrderFields
  <2> HIDE DEF raised
  <2>8. PendingType(raised)
    BY <2>3, <2>6, <2>7 DEF PendingType
  <2> QED
    BY <2>1, <2>7, <2>8
<1> QED
  BY <1>1, <1>2

LEMMA FilledType ==
  ASSUME NEW order, PendingType(order), NEW candle, CandleType(candle)
  PROVE  Filled(order, candle) \subseteq Int
<1>1. FillPrices(order, candle) \subseteq Int
  <2> DEFINE limit == toDouble(order.limit)
  <2>1. /\ limit \in Int /\ candle.low \in Int /\ candle.close \in Int
    BY ArithmeticAssumption DEF PendingType, CandleType, toDouble
  <2>2. Min({limit, candle.low}) \in Int
    <3> HIDE DEF limit
    <3> QED
      BY <2>1, MinOfTwo
  <2>3. FillPrices(order, candle) \subseteq {limit, candle.close, Min({limit, candle.low})}
    BY DEF FillPrices, Some, None
  <2> HIDE DEF limit
  <2> QED
    BY <2>1, <2>2, <2>3
<1>2. \A v \in FillPrices(order, candle) : \A p \in price(v) : p \in Int
  BY <1>1, InputRange, InRange DEF Optional
<1> QED
  BY <1>2 DEF Filled

LEMMA EvaluatePendingSane ==
  ASSUME NEW b, Sane(b), NEW s, NEW candle, CandleType(candle),
         NEW e, e = evaluatePendingOrders(b, s, candle)
  PROVE  /\ Sane(e.book) /\ (Solid(b) => Solid(e.book)) /\ IsList(e.fills)
         /\ \A n \in 1 .. Len(e.fills) : FillType(e.fills[n])
<1> DEFINE fillAt(i) == Filled(Trailed(b.pending[i], candle), candle)
           ofSymbol == {i \in DOMAIN b.pending : b.pending[i].symbol = s}
           due == {i \in ofSymbol : HasValue(fillAt(i))}
           moved == [i \in DOMAIN b.pending |->
                       IF i \in ofSymbol THEN Trailed(b.pending[i], candle) ELSE b.pending[i]]
           filled == [i \in due |-> [order |-> b.pending[i], price |-> ValueOf(fillAt(i))]]
           rest == DOMAIN b.pending \ due
<1>1. /\ e.book = [b EXCEPT !.pending = Collected(moved, rest)]
      /\ e.fills = Collected(filled, due)
  BY DEF evaluatePendingOrders
<1>2. /\ DOMAIN b = Fields /\ IsList(b.pending)
      /\ \A i \in 1 .. Len(b.pending) : PendingType(b.pending[i])
  BY DEF Sane, BookType
<1>3. /\ DOMAIN b.pending = 1 .. Len(b.pending) /\ IsFiniteSet(DOMAIN b.pending)
      /\ Len(b.pending) \in Nat
  BY <1>2, ListDomain
<1>4. /\ IsFiniteSet(due) /\ due \subseteq Int /\ IsFiniteSet(rest) /\ rest \subseteq Int
      /\ rest \subseteq DOMAIN b.pending
  <2>1. due \subseteq DOMAIN b.pending /\ rest \subseteq DOMAIN b.pending
    OBVIOUS
  <2>2. DOMAIN b.pending \subseteq Int
    BY <1>3
  <2> HIDE DEF due, rest
  <2> QED
    BY <1>3, <2>1, <2>2, FS_Subset
<1>5. \A i \in DOMAIN b.pending : PendingType(moved[i]) /\ moved[i].id = b.pending[i].id
  BY <1>2, <1>3, TrailedType
<1>6. \A i \in due : FillType(filled[i])
  <2> SUFFICES ASSUME NEW i \in due PROVE FillType(filled[i])
    OBVIOUS
  <2>1. i \in 1 .. Len(b.pending) /\ HasValue(fillAt(i))
    BY <1>3
  <2>2. PendingType(b.pending[i]) /\ PendingType(Trailed(b.pending[i], candle))
    BY <1>2, <2>1, TrailedType
  <2>3. fillAt(i) \subseteq Int
    BY <2>2, FilledType
  <2>4. ValueOf(fillAt(i)) \in Int
    BY <2>1, <2>3, ValueIn
  <2>5. filled[i].order = b.pending[i] /\ filled[i].price = ValueOf(fillAt(i))
    OBVIOUS
  <2> QED
    BY <2>2, <2>4, <2>5 DEF FillType, PendingType
<1> HIDE DEF due, moved, filled, rest
<1>7. /\ IsList(e.fills)
      /\ \A n \in 1 .. Len(e.fills) : \E i \in due : e.fills[n] = filled[i]
  BY <1>1, <1>4, CollectedFrom
<1>8. \A n \in 1 .. Len(e.fills) : FillType(e.fills[n])
  BY <1>6, <1>7
<1> DEFINE kept == Collected(moved, rest)
           c == e.book
<1>9. IsList(kept) /\ \A n \in 1 .. Len(kept) : \E i \in rest : kept[n] = moved[i]
  BY <1>4, CollectedFrom
<1> HIDE DEF kept, c
<1>10. /\ DOMAIN c = Fields /\ c.pending = kept /\ c.nextOrderId = b.nextOrderId
       /\ \A field \in Fields \ {"pending", "nextOrderId"} : c[field] = b[field]
  BY <1>1, <1>2 DEF Fields, c, kept
<1>11. \A n \in 1 .. Len(kept) : PendingType(kept[n])
  BY <1>4, <1>5, <1>9
<1>12. PendingIds(b) => PendingIds(c)
  <2> SUFFICES ASSUME PendingIds(b) PROVE PendingIds(c)
    OBVIOUS
  <2>1. \A i, j \in rest : moved[i].id = moved[j].id => i = j
    BY <1>3, <1>4, <1>5 DEF PendingIds
  <2>2. \A m, n \in 1 .. Len(kept) : kept[m].id = kept[n].id => m = n
    BY <1>4, <2>1, CollectedIds DEF kept
  <2>3. \A n \in 1 .. Len(kept) : kept[n].id \in 1 .. b.nextOrderId - 1
    <3> SUFFICES ASSUME NEW n \in 1 .. Len(kept) PROVE kept[n].id \in 1 .. b.nextOrderId - 1
      OBVIOUS
    <3>1. PICK i \in rest : kept[n] = moved[i]
      BY <1>9
    <3>2. i \in DOMAIN b.pending /\ i \in 1 .. Len(b.pending)
      BY <1>3, <1>4
    <3>3. b.pending[i].id \in 1 .. b.nextOrderId - 1
      BY <3>2 DEF PendingIds
    <3>4. kept[n].id = b.pending[i].id
      BY <1>5, <3>1, <3>2
    <3> QED
      BY <3>3, <3>4
  <2> QED
    BY <1>10, <2>2, <2>3 DEF PendingIds
<1>13. Sane(c) /\ (Solid(b) => Solid(c))
  BY <1>9, <1>10, <1>11, <1>12, QueueSane DEF Solid, Ready
<1> QED
  BY <1>7, <1>8, <1>13 DEF c

(***************************************************************************)
(* A checkpoint gives back the book it was taken of: every amount comes    *)
(* back as it was, or the file is refused.                                 *)
(***************************************************************************)
PositionFields == {"quantity", "average", "cost", "mark", "entryFee"}

LEMMA InUnitsAgain ==
  ASSUME NEW x \in Int, HasValue(aligned(toDouble(x)))
  PROVE  ValueOf(aligned(toDouble(x))) = x
BY ValueIn, AlignedBack

LEMMA SavedFields ==
  ASSUME NEW b, BookType(b), NEW snap, snap = snapshotState(b)
  PROVE  /\ DOMAIN snap = Fields
         /\ \A field \in Amounts : snap[field] = toDouble(b[field])
         /\ snap.log = b.log /\ snap.pending = b.pending /\ snap.drawdown = b.drawdown
         /\ snap.maxDrawdown = b.maxDrawdown /\ snap.nextOrderId = b.nextOrderId
         /\ DOMAIN snap.positions = DOMAIN b.positions
         /\ \A s \in DOMAIN b.positions :
              /\ DOMAIN snap.positions[s] = DOMAIN b.positions[s]
              /\ \A field \in DOMAIN b.positions[s] :
                   snap.positions[s][field] = toDouble(b.positions[s][field])
<1>1. DOMAIN b = Fields
  BY DEF BookType
<1> QED
  BY <1>1 DEF snapshotState, Converted, Fields, Amounts

(* What restoreState makes of a file before it looks at it.                *)
InUnits(snap) == LET inUnits(x) == ValueOf(aligned(x)) IN Converted(snap, inUnits)

LEMMA UnitFields ==
  ASSUME NEW snap, DOMAIN snap = Fields, NEW v, v = InUnits(snap)
  PROVE  /\ v = [field \in Fields |-> v[field]] /\ DOMAIN v = Fields
         /\ \A field \in Amounts : v[field] = ValueOf(aligned(snap[field]))
         /\ v.log = snap.log /\ v.pending = snap.pending /\ v.drawdown = snap.drawdown
         /\ v.maxDrawdown = snap.maxDrawdown /\ v.nextOrderId = snap.nextOrderId
         /\ DOMAIN v.positions = DOMAIN snap.positions
         /\ \A s \in DOMAIN snap.positions :
              /\ DOMAIN v.positions[s] = DOMAIN snap.positions[s]
              /\ v.positions[s] = [field \in DOMAIN snap.positions[s] |->
                                     ValueOf(aligned(snap.positions[s][field]))]
<1>1. /\ v = [field \in Fields |-> v[field]] /\ DOMAIN v = Fields
      /\ \A field \in Amounts : v[field] = ValueOf(aligned(snap[field]))
      /\ v.log = snap.log /\ v.pending = snap.pending /\ v.drawdown = snap.drawdown
      /\ v.maxDrawdown = snap.maxDrawdown /\ v.nextOrderId = snap.nextOrderId
  BY DEF InUnits, Converted, Fields, Amounts
<1>2. v.positions = [s \in DOMAIN snap.positions |->
                       [field \in DOMAIN snap.positions[s] |->
                          ValueOf(aligned(snap.positions[s][field]))]]
  BY DEF InUnits, Converted, Fields, Amounts
<1> DEFINE held == snap.positions
           back == v.positions
<1>3. back = [s \in DOMAIN held |-> [field \in DOMAIN held[s] |-> ValueOf(aligned(held[s][field]))]]
  BY <1>2
<1> HIDE DEF held, back
<1>4. /\ DOMAIN back = DOMAIN held
      /\ \A s \in DOMAIN held :
           /\ DOMAIN back[s] = DOMAIN held[s]
           /\ back[s] = [field \in DOMAIN held[s] |-> ValueOf(aligned(held[s][field]))]
  BY <1>3
<1> QED
  BY <1>1, <1>4 DEF held, back

LEMMA RestoredFields ==
  ASSUME NEW snap, DOMAIN snap = Fields, NEW v \in restoreState(snap)
  PROVE  /\ v = InUnits(snap)
         /\ \A field \in Amounts : HasValue(aligned(snap[field]))
         /\ \A s \in DOMAIN snap.positions : \A field \in DOMAIN snap.positions[s] :
              HasValue(aligned(snap.positions[s][field]))
BY DEF restoreState, InUnits, Some, None

(* Every amount that can be converted back comes back as it was.           *)
LEMMA GivenBack ==
  ASSUME NEW b, BookType(b), NEW snap, snap = snapshotState(b), NEW v, v = InUnits(snap),
         \A field \in Amounts : b[field] \in Int => HasValue(aligned(snap[field])),
         \A s \in DOMAIN snap.positions : \A field \in DOMAIN snap.positions[s] :
           HasValue(aligned(snap.positions[s][field]))
  PROVE  /\ DOMAIN v = Fields /\ v = [field \in Fields |-> v[field]]
         /\ \A field \in Amounts : b[field] \in Int => v[field] = b[field]
         /\ v.log = b.log /\ v.pending = b.pending /\ v.drawdown = b.drawdown
         /\ v.maxDrawdown = b.maxDrawdown /\ v.nextOrderId = b.nextOrderId
         /\ DOMAIN v.positions = DOMAIN b.positions
         /\ \A s \in DOMAIN b.positions : v.positions[s] = b.positions[s]
<1>1. /\ DOMAIN snap = Fields
      /\ \A field \in Amounts : snap[field] = toDouble(b[field])
      /\ snap.log = b.log /\ snap.pending = b.pending /\ snap.drawdown = b.drawdown
      /\ snap.maxDrawdown = b.maxDrawdown /\ snap.nextOrderId = b.nextOrderId
      /\ DOMAIN snap.positions = DOMAIN b.positions
      /\ \A s \in DOMAIN b.positions :
           /\ DOMAIN snap.positions[s] = DOMAIN b.positions[s]
           /\ \A field \in DOMAIN b.positions[s] :
                snap.positions[s][field] = toDouble(b.positions[s][field])
  BY SavedFields
<1>2. /\ v = [field \in Fields |-> v[field]] /\ DOMAIN v = Fields
      /\ \A field \in Amounts : v[field] = ValueOf(aligned(snap[field]))
      /\ v.log = snap.log /\ v.pending = snap.pending /\ v.drawdown = snap.drawdown
      /\ v.maxDrawdown = snap.maxDrawdown /\ v.nextOrderId = snap.nextOrderId
      /\ DOMAIN v.positions = DOMAIN snap.positions
      /\ \A s \in DOMAIN snap.positions :
           /\ DOMAIN v.positions[s] = DOMAIN snap.positions[s]
           /\ v.positions[s] = [field \in DOMAIN snap.positions[s] |->
                                  ValueOf(aligned(snap.positions[s][field]))]
  BY <1>1, UnitFields
<1>3. \A field \in Amounts : b[field] \in Int => v[field] = b[field]
  BY <1>1, <1>2, InUnitsAgain
<1>4. ASSUME NEW s \in DOMAIN b.positions PROVE v.positions[s] = b.positions[s]
  <2>1. b.positions[s] \in PositionType
    BY DEF BookType
  <2>2. /\ DOMAIN b.positions[s] = PositionFields
        /\ b.positions[s] = [field \in PositionFields |-> b.positions[s][field]]
    BY <2>1 DEF PositionType, PositionFields
  <2>3. \A field \in PositionFields : b.positions[s][field] \in Int
    BY <2>1, PositionAmounts DEF PositionFields
  <2>4. /\ DOMAIN snap.positions[s] = PositionFields /\ s \in DOMAIN snap.positions
        /\ \A field \in PositionFields :
             snap.positions[s][field] = toDouble(b.positions[s][field])
    BY <1>1, <2>2
  <2> DEFINE saved == snap.positions[s]
             back  == v.positions[s]
             held  == b.positions[s]
  <2>5. /\ back = [field \in DOMAIN saved |-> ValueOf(aligned(saved[field]))]
        /\ \A field \in DOMAIN saved : HasValue(aligned(saved[field]))
    BY <1>2, <2>4
  <2>6. /\ DOMAIN saved = PositionFields
        /\ \A field \in PositionFields : saved[field] = toDouble(held[field])
    BY <2>4
  <2>7. /\ held = [field \in PositionFields |-> held[field]]
        /\ \A field \in PositionFields : held[field] \in Int
    BY <2>2, <2>3
  <2> HIDE DEF saved, back, held
  <2>8. \A field \in PositionFields : ValueOf(aligned(saved[field])) = held[field]
    BY <2>5, <2>6, <2>7, InUnitsAgain
  <2>9. back = held
    BY <2>5, <2>6, <2>7, <2>8
  <2> QED
    BY <2>9 DEF back, held
<1> QED
  BY <1>1, <1>2, <1>3, <1>4

LEMMA RestoredSane ==
  ASSUME NEW b, Sane(b), NEW v \in restoreState(snapshotState(b))
  PROVE  Sane(v)
<1> DEFINE snap == snapshotState(b)
<1>1. BookType(b) /\ Balanced(b) /\ b.cash \in Int /\ b.fees \in Int /\ b.maxEquity \in Int
  BY ArithmeticAssumption DEF Sane, BookType
<1>2. /\ v = InUnits(snap)
      /\ \A field \in Amounts : HasValue(aligned(snap[field]))
      /\ \A s \in DOMAIN snap.positions : \A field \in DOMAIN snap.positions[s] :
           HasValue(aligned(snap.positions[s][field]))
  BY <1>1, SavedFields, RestoredFields
<1> HIDE DEF snap
<1>3. /\ DOMAIN v = Fields
      /\ \A field \in Amounts : b[field] \in Int => v[field] = b[field]
      /\ v.log = b.log /\ v.pending = b.pending /\ v.drawdown = b.drawdown
      /\ v.maxDrawdown = b.maxDrawdown
      /\ DOMAIN v.positions = DOMAIN b.positions
      /\ \A s \in DOMAIN b.positions : v.positions[s] = b.positions[s]
  BY <1>1, <1>2, GivenBack DEF snap
<1>4. v.cash = b.cash /\ v.fees = b.fees /\ v.maxEquity = b.maxEquity
  BY <1>1, <1>3 DEF Amounts
<1>5. BookType(v)
  BY <1>1, <1>3, <1>4 DEF BookType
<1>6. Spent(v) = Spent(b) /\ Held(v) = Held(b) /\ Realized(v) = Realized(b) /\ Paid(v) = Paid(b)
  BY <1>3 DEF Spent, Held, Realized, Paid
<1>7. Balanced(v)
  BY <1>1, <1>4, <1>6 DEF Balanced
<1> QED
  BY <1>5, <1>7 DEF Sane

LEMMA PointsAreIntegers ==
  ASSUME NEW x \in 0 .. BasisPoints
  PROVE  x \in Int
BY DEF BasisPoints

(* A valuation that follows from the rest is what Valued computes.         *)
LEMMA CoherentIs ==
  ASSUME NEW b, BookType(b), Coherent(b), b = [field \in Fields |-> b[field]]
  PROVE  Valued(b) = Some(b)
<1> DEFINE marked(s) == notional(b.positions[s].mark, b.positions[s].quantity)
           value == [s \in DOMAIN b.positions |-> ValueOf(marked(s))]
           profit == [s \in DOMAIN b.positions |-> value[s] - b.positions[s].cost]
           equity == b.cash + SumFunction(value)
           unrealized == SumFunction(profit)
           peak == Max({equity, b.maxEquity})
           loss == IF peak > 0 THEN ((peak - equity) * BasisPoints) \div peak ELSE 0
           c == [b EXCEPT !.unrealized = unrealized, !.equity = equity, !.maxEquity = peak,
                          !.drawdown = loss, !.maxDrawdown = Max({@, loss})]
<1>1. Valued(b) = IF /\ \A s \in DOMAIN b.positions : HasValue(marked(s))
                     /\ HasValue(Representable(equity)) /\ HasValue(Representable(unrealized))
                  THEN Some(c) ELSE None
  BY DEF Valued
<1>2. equity = b.equity /\ unrealized = b.unrealized
  BY DEF Coherent, WorthOf, ProfitOf
<1> HIDE DEF equity, unrealized, c
<1>3. /\ b.equity \in Int /\ b.equity \in Amount /\ b.unrealized \in Amount /\ b.unrealized \in Int
      /\ b.maxEquity \in Int /\ b.maxEquity >= b.equity
  <2>1. \A x \in 0 .. MaxUnits : x \in Amount
    BY ArithmeticAssumption DEF Amount
  <2> QED
    BY <2>1, InRange DEF Coherent, BookType
<1>4. HasValue(Representable(equity)) /\ HasValue(Representable(unrealized))
  BY <1>2, <1>3, RepresentableValue
<1>5. \A s \in DOMAIN b.positions : HasValue(marked(s))
  BY DEF Coherent
<1>6. peak = b.maxEquity
  <2>1. peak \in {b.equity, b.maxEquity} /\ peak >= b.maxEquity
    BY <1>2, <1>3, MaxOfTwo
  <2> HIDE DEF peak
  <2> QED
    BY <1>3, <2>1
<1>7. loss = b.drawdown
  BY <1>2, <1>6 DEF LossOf, Coherent
<1> HIDE DEF loss, peak
<1>8. Max({b.maxDrawdown, loss}) = b.maxDrawdown
  <2>1. b.maxDrawdown \in Int /\ loss \in Int /\ b.maxDrawdown >= loss
    <3>1. b.maxDrawdown \in Int /\ b.drawdown \in 0 .. BasisPoints
      BY DEF BookType
    <3>2. b.drawdown \in Int
      BY <3>1, PointsAreIntegers
    <3>3. b.maxDrawdown >= b.drawdown
      BY DEF Coherent
    <3> QED
      BY <1>7, <3>1, <3>2, <3>3
  <2> DEFINE largest == Max({b.maxDrawdown, loss})
  <2>2. largest \in {b.maxDrawdown, loss} /\ largest >= b.maxDrawdown
    BY <2>1, MaxOfTwo
  <2> HIDE DEF largest
  <2>3. largest = b.maxDrawdown
    BY <2>1, <2>2
  <2> QED
    BY <2>3 DEF largest
<1>9. c = [b EXCEPT !.unrealized = b.unrealized, !.equity = b.equity, !.maxEquity = b.maxEquity,
                    !.drawdown = b.drawdown, !.maxDrawdown = b.maxDrawdown]
  BY <1>2, <1>6, <1>7, <1>8 DEF c
<1>10. c = b
  BY <1>9 DEF Fields
<1> QED
  BY <1>1, <1>4, <1>5, <1>10

(* A solid book passes every test of restoreState, and is given back.      *)
LEMMA SolidIsRestored ==
  ASSUME NEW b, Sane(b), Solid(b)
  PROVE  /\ HasValue(restoreState(snapshotState(b)))
         /\ Solid(ValueOf(restoreState(snapshotState(b))))
<1> DEFINE snap == snapshotState(b)
           v == InUnits(snap)
<1>0. BookType(b) /\ Ready(b) /\ Coherent(b)
  BY DEF Sane, Solid
<1>1. \A field \in Amounts : b[field] \in Amount /\ b[field] \in Int
  <2>1. \A x \in 0 .. MaxUnits : x \in Amount
    BY ArithmeticAssumption DEF Amount
  <2> QED
    BY <1>0, <2>1, InRange DEF Amounts, BookType, Ready, Coherent
<1>2. \A s \in DOMAIN b.positions : \A field \in DOMAIN b.positions[s] :
        b.positions[s][field] \in Amount
  <2> SUFFICES ASSUME NEW s \in DOMAIN b.positions
               PROVE  \A field \in DOMAIN b.positions[s] : b.positions[s][field] \in Amount
    OBVIOUS
  <2>1. b.positions[s] \in PositionType
    BY <1>0 DEF BookType
  <2>2. DOMAIN b.positions[s] = PositionFields
    BY <2>1 DEF PositionType, PositionFields
  <2>3. \A x \in 0 .. MaxUnits : x \in Amount
    BY ArithmeticAssumption DEF Amount
  <2>4. \A x \in 1 .. MaxUnits : x \in Amount
    BY ArithmeticAssumption DEF Amount
  <2> QED
    BY <2>1, <2>2, <2>3, <2>4, PositionAmounts DEF PositionFields
<1>3. /\ DOMAIN snap = Fields
      /\ \A field \in Amounts : snap[field] = toDouble(b[field])
      /\ DOMAIN snap.positions = DOMAIN b.positions
      /\ \A s \in DOMAIN b.positions :
           /\ DOMAIN snap.positions[s] = DOMAIN b.positions[s]
           /\ \A field \in DOMAIN b.positions[s] :
                snap.positions[s][field] = toDouble(b.positions[s][field])
  BY <1>0, SavedFields
<1> HIDE DEF snap
<1>4. /\ \A field \in Amounts : HasValue(aligned(snap[field]))
      /\ \A s \in DOMAIN snap.positions : \A field \in DOMAIN snap.positions[s] :
           HasValue(aligned(snap.positions[s][field]))
  <2>1. \A x \in Amount : HasValue(aligned(toDouble(x)))
    BY AlignedExact DEF HasValue, Some, None
  <2> QED
    BY <1>1, <1>2, <1>3, <2>1
<1> HIDE DEF v
<1>5. /\ DOMAIN v = Fields /\ v = [field \in Fields |-> v[field]]
      /\ \A field \in Amounts : v[field] = b[field]
      /\ v.log = b.log /\ v.pending = b.pending /\ v.drawdown = b.drawdown
      /\ v.maxDrawdown = b.maxDrawdown /\ v.nextOrderId = b.nextOrderId
      /\ DOMAIN v.positions = DOMAIN b.positions
      /\ \A s \in DOMAIN b.positions : v.positions[s] = b.positions[s]
  BY <1>0, <1>1, <1>4, GivenBack DEF v, snap
<1>6. /\ v.cash = b.cash /\ v.fees = b.fees /\ v.maxEquity = b.maxEquity
      /\ v.equity = b.equity /\ v.unrealized = b.unrealized
  BY <1>5 DEF Amounts
<1>7. BookType(v) /\ Ready(v)
  BY <1>0, <1>5, <1>6 DEF BookType, Ready, PendingIds
<1>8. Coherent(v)
  <2>1. WorthOf(v) = WorthOf(b)
    BY <1>5 DEF WorthOf
  <2>2. ProfitOf(v) = ProfitOf(b)
    BY <1>5, <2>1 DEF ProfitOf
  <2> QED
    BY <1>0, <1>5, <1>6, <2>1, <2>2 DEF Coherent
<1>9. Valued(v) = Some(v)
  BY <1>5, <1>7, <1>8, CoherentIs
<1>10. v.cash >= 0 /\ v.equity >= 0 /\ v.maxEquity >= 0 /\ v.fees >= 0
  BY <1>7, <1>8 DEF BookType, Ready, Coherent
<1>11. restoreState(snap) = Some(v)
  BY <1>4, <1>7, <1>9, <1>10 DEF restoreState, v, InUnits, Ready
<1>12. HasValue(restoreState(snap)) /\ ValueOf(restoreState(snap)) = v
  BY <1>11 DEF HasValue, ValueOf, Some, None
<1> QED
  BY <1>7, <1>8, <1>12 DEF Solid, snap

(***************************************************************************)
(* What ExecutionEngine asks the book to do, in every mode.                *)
(***************************************************************************)
EntryType(e) == e.units \in Int /\ e.fee \in Int /\ e.debit \in Int

LEMMA SessionRates ==
  /\ FeeRate \in Int /\ Slippage \in Int /\ QuantityStep \in Nat \ {0} /\ TickSize \in Nat \ {0}
  /\ MaxPositions \in Nat /\ AtrUnits \subseteq Int /\ Resolution \in Int
BY SessionAssumption, ArithmeticAssumption

LEMMA DoubleIsInteger ==
  ASSUME NEW x \in Int
  PROVE  toDouble(x) \in Int
BY ArithmeticAssumption DEF toDouble

LEMMA FillFeeIsInteger ==
  ASSUME NEW p \in Int, NEW units \in Int
  PROVE  FillFee(p, units) \subseteq Int
<1>1. \A c \in notional(p, units) : c \in Int
  BY NotionalRange, InRange DEF Optional
<1>2. \A c \in notional(p, units) : \A f \in fee(c, FeeRate) : f \in Int
  BY <1>1, SessionRates, FeeRange, InRange DEF Optional
<1> QED
  BY <1>2 DEF FillFee

LEMMA DebitIsInteger ==
  ASSUME NEW p \in Int, NEW q \in Int, NEW f \in Int
  PROVE  Debit(p, q, f) \subseteq Int
BY DebitValue, InRange DEF Optional

LEMMA EntryOfTypes ==
  ASSUME NEW p \in Int, NEW units \in Int, NEW e \in EntryOf(p, units)
  PROVE  EntryType(e)
<1>1. PICK f \in FillFee(p, units) :
        e \in {[units |-> units, fee |-> f, debit |-> d] : d \in Debit(p, units, f)}
  BY DEF EntryOf
<1>2. f \in Int
  BY <1>1, FillFeeIsInteger
<1>3. PICK d \in Debit(p, units, f) : e = [units |-> units, fee |-> f, debit |-> d]
  BY <1>1
<1>4. d \in Int
  BY <1>2, <1>3, DebitIsInteger
<1> QED
  BY <1>2, <1>3, <1>4 DEF EntryType

LEMMA FittingTypes ==
  ASSUME NEW p \in Int, NEW sizes, sizes \subseteq Int, NEW budget, NEW e \in Fitting(p, sizes, budget)
  PROVE  EntryType(e)
<1>1. PICK q \in sizes : e \in EntryOf(p, q)
  BY DEF Fitting
<1> QED
  BY <1>1, EntryOfTypes

LEMMA AffordableTypes ==
  ASSUME NEW p \in Int, NEW budget \in Int
  PROVE  Affordable(p, budget) \subseteq Int
<1>1. \A x \in 0 .. MaxUnits : x \in Int
  BY ArithmeticAssumption
<1>2. \A n \in notionalBeforeFee(budget, FeeRate) : n \in Int
  BY <1>1, SessionRates, AffordableRange DEF Optional
<1>3. \A n \in notionalBeforeFee(budget, FeeRate) : \A q \in quantityForNotional(n, p) : q \in Int
  BY <1>1, <1>2, AffordableRange DEF Optional
<1> QED
  BY <1>3 DEF Affordable

LEMMA SizedTypes ==
  ASSUME NEW p \in Int, NEW wanted, wanted \subseteq Int, NEW budget \in Int,
         NEW e \in Sized(p, wanted, budget)
  PROVE  EntryType(e)
<1>1. e \in Fitting(p, wanted, budget) \/ e \in Fitting(p, Affordable(p, budget), budget)
  BY DEF Sized
<1>2. Affordable(p, budget) \subseteq Int
  BY AffordableTypes
<1> QED
  BY <1>1, <1>2, FittingTypes

LEMMA SliceIsInteger ==
  ASSUME NEW b, Sane(b)
  PROVE  b.cash \in Int /\ Slice(b) \in Int
<1>1. b.cash \in Int /\ IsFiniteSet(DOMAIN b.positions)
  BY BookSums, ArithmeticAssumption DEF Sane, BookType
<1>2. OpenPositions(b) \in Nat
  BY <1>1, FS_CardinalityType DEF OpenPositions
<1> DEFINE n == IF MaxPositions > OpenPositions(b) THEN MaxPositions - OpenPositions(b) ELSE 1
<1>3. n \in Nat \ {0}
  BY <1>2, SessionRates
<1>4. Slice(b) = IF MaxPositions = 0 THEN b.cash ELSE b.cash \div n
  BY DEF Slice
<1> HIDE DEF n
<1>5. b.cash \div n \in Int
  BY <1>1, <1>3
<1> QED
  BY <1>1, <1>4, <1>5

AtrSizes == {{}} \cup {{q} : q \in AtrUnits}

LEMMA SizedEntryTypes ==
  ASSUME NEW b, Sane(b), NEW p \in Int, NEW atr \in AtrSizes, NEW e \in SizedEntry(b, p, atr)
  PROVE  EntryType(e)
<1>1. atr \subseteq Int
  BY SessionRates DEF AtrSizes
<1>2. b.cash \in Int /\ Slice(b) \in Int /\ Affordable(p, Slice(b)) \subseteq Int
  BY SliceIsInteger, AffordableTypes
<1>3. e \in Sized(p, atr, b.cash) \/ e \in Sized(p, Affordable(p, Slice(b)), Slice(b))
  BY DEF SizedEntry
<1> QED
  BY <1>1, <1>2, <1>3, SizedTypes

LEMMA SlippedTypes ==
  ASSUME NEW market \in Int, NEW buySide \in BOOLEAN
  PROVE  /\ applySlippage(market, Slippage, buySide) \subseteq Int
         /\ Slipped(market, buySide) \subseteq Int
<1>1. \A m \in Int : applySlippage(m, Slippage, buySide) \subseteq Int
  BY SessionRates, SlippedRange, ArithmeticAssumption DEF Optional
<1>2. price(market) \subseteq Int
  BY InputRange, InRange DEF Optional
<1> QED
  BY <1>1, <1>2 DEF Slipped

(* An order still working at the broker, and what a trade leaves.          *)
WorkType(rest) == \A w \in rest : w.symbol \in Symbols /\ w.price \in Int /\ w.units \in Int

Good(outcome) ==
  /\ Sane(outcome.book) /\ WorkType(outcome.working)
  /\ outcome.thrown \in {"no", "dust", "accounting"}

LEMMA OutcomeGood ==
  ASSUME NEW b, Sane(b), NEW rest, WorkType(rest), NEW accepted,
         NEW exception \in {"no", "dust", "accounting"}
  PROVE  Good(Outcome(b, accepted, rest, exception))
BY DEF Good, Outcome

(* A booking of the engine's own, which has nothing working at a broker.   *)
Keeps(b, outcome) ==
  Good(outcome) /\ outcome.working = working /\ (Solid(b) => Solid(outcome.book))

LEMMA OwnOutcome ==
  ASSUME NEW b, Sane(b), WorkType(working), NEW c, Sane(c), Solid(b) => Solid(c), NEW accepted,
         NEW exception \in {"no", "dust", "accounting"}
  PROVE  Keeps(b, Outcome(c, accepted, working, exception))
BY DEF Keeps, Good, Outcome

LEMMA RefusedGood ==
  ASSUME NEW b, Sane(b), WorkType(working)
  PROVE  Good(Refused(b)) /\ Keeps(b, Refused(b))
BY OutcomeGood, OwnOutcome DEF Refused

LEMMA BookedGood ==
  ASSUME NEW b, Sane(b), WorkType(working), NEW result,
         \A v \in result : Sane(v) /\ (Solid(b) => Solid(v)),
         NEW exception \in {"dust", "accounting"}
  PROVE  Keeps(b, Booked(b, result, exception))
BY OwnOutcome, ValueIn DEF Booked

LEMMA BookEntryGood ==
  ASSUME NEW b, Sane(b), WorkType(working), NEW s \in Symbols, NEW p \in Int, NEW e, EntryType(e)
  PROVE  Keeps(b, BookEntry(b, s, p, e))
<1> DEFINE result == openLong(b, s, toDouble(p), toDouble(e.fee), toDouble(e.debit),
                              toDouble(e.units))
           reason == IF notional(p, e.units) = Some(0) THEN "dust" ELSE "accounting"
<1>1. BookEntry(b, s, p, e) = Booked(b, result, reason)
  BY DEF BookEntry
<1>2. /\ toDouble(p) \in Int /\ toDouble(e.fee) \in Int /\ toDouble(e.debit) \in Int
      /\ toDouble(e.units) \in Int
  BY DoubleIsInteger DEF EntryType
<1>3. \A v \in result : Sane(v) /\ (Solid(b) => Solid(v))
  BY <1>2, OpenLongSane DEF Solid
<1>4. reason \in {"dust", "accounting"}
  OBVIOUS
<1> HIDE DEF result, reason
<1> QED
  BY <1>1, <1>3, <1>4, BookedGood

LEMMA QuantityIsInteger ==
  ASSUME NEW b, Sane(b), NEW s
  PROVE  getPositionQuantity(b, s) \in Int
<1>1. CASE hasPosition(b, s)
  <2>1. b.positions[s] \in PositionType
    BY <1>1 DEF Sane, BookType, hasPosition
  <2> QED
    BY <1>1, <2>1, PositionAmounts DEF getPositionQuantity
<1>2. CASE ~hasPosition(b, s)
  BY <1>2 DEF getPositionQuantity
<1> QED
  BY <1>1, <1>2

LEMMA BookExitGood ==
  ASSUME NEW b, Sane(b), WorkType(working), NEW s \in Symbols, NEW p \in Int
  PROVE  Keeps(b, BookExit(b, s, p))
<1> DEFINE exitFee == FillFee(p, getPositionQuantity(b, s))
           result == closePosition(b, s, toDouble(p), toDouble(ValueOf(exitFee)), 0)
<1>1. BookExit(b, s, p) = IF HasValue(exitFee) THEN Booked(b, result, "accounting") ELSE Refused(b)
  BY DEF BookExit
<1>2. HasValue(exitFee) => ValueOf(exitFee) \in Int
  BY QuantityIsInteger, FillFeeIsInteger, ValueIn
<1>3. ASSUME HasValue(exitFee) PROVE \A v \in result : Sane(v) /\ (Solid(b) => Solid(v))
  <2>1. toDouble(p) \in Int /\ toDouble(ValueOf(exitFee)) \in Int /\ 0 \in Int
    BY <1>2, <1>3, DoubleIsInteger
  <2> QED
    BY <2>1, ClosePositionSane
<1> HIDE DEF exitFee, result
<1> QED
  BY <1>1, <1>3, BookedGood, RefusedGood

(* Without a gateway.                                                      *)
LEMMA LocalGood ==
  ASSUME NEW b, Sane(b), WorkType(working), NEW s \in Symbols, NEW market \in Int,
         NEW outcome \in LocalBuys(b, s, market) \cup LocalSells(b, s, market)
  PROVE  Keeps(b, outcome)
<1>1. CASE outcome \in LocalBuys(b, s, market)
  <2> DEFINE p == ValueOf(Slipped(market, TRUE))
             Size(atr) == SizedEntry(b, p, atr)
             Fits(atr, varHolds) == /\ ~hasPosition(b, s) /\ b.cash > 0
                                    /\ HasValue(Slipped(market, TRUE))
                                    /\ HasValue(Size(atr)) /\ CanTrade(b, varHolds)
             Bought(atr) == BookEntry(b, s, p, ValueOf(Size(atr)))
             Result(atr, varHolds) == IF Fits(atr, varHolds) THEN Bought(atr) ELSE Refused(b)
  <2>1. LocalBuys(b, s, market) = {Result(atr, varHolds) : atr \in AtrSizes, varHolds \in BOOLEAN}
    BY DEF LocalBuys, AtrSizes
  <2>2. \A atr, varHolds : \/ Result(atr, varHolds) = Refused(b)
                           \/ /\ HasValue(Slipped(market, TRUE)) /\ HasValue(Size(atr))
                              /\ Result(atr, varHolds) = Bought(atr)
    OBVIOUS
  <2> HIDE DEF Result
  <2>3. PICK a \in AtrSizes, holds \in BOOLEAN : outcome = Result(a, holds)
    BY <1>1, <2>1
  <2>4. \/ outcome = Refused(b)
        \/ \E atr \in AtrSizes : /\ HasValue(Slipped(market, TRUE)) /\ HasValue(SizedEntry(b, p, atr))
                                 /\ outcome = BookEntry(b, s, p, ValueOf(SizedEntry(b, p, atr)))
    BY <2>2, <2>3
  <2>5. HasValue(Slipped(market, TRUE)) => p \in Int
    BY SlippedTypes, ValueIn
  <2> HIDE DEF p
  <2>6. ASSUME NEW atr \in AtrSizes, p \in Int, HasValue(SizedEntry(b, p, atr))
        PROVE  Keeps(b, BookEntry(b, s, p, ValueOf(SizedEntry(b, p, atr))))
    <3>1. EntryType(ValueOf(SizedEntry(b, p, atr)))
      BY <2>6, ValueIn, SizedEntryTypes
    <3> QED
      BY <2>6, <3>1, BookEntryGood
  <2> QED
    BY <2>4, <2>5, <2>6, RefusedGood
<1>2. CASE outcome \in LocalSells(b, s, market)
  <2> DEFINE p == ValueOf(Slipped(market, FALSE))
  <2>1. \/ outcome = Refused(b)
        \/ HasValue(Slipped(market, FALSE)) /\ outcome = BookExit(b, s, p)
    BY <1>2 DEF LocalSells
  <2>2. HasValue(Slipped(market, FALSE)) => p \in Int
    BY SlippedTypes, ValueIn
  <2> HIDE DEF p
  <2> QED
    BY <2>1, <2>2, BookExitGood, RefusedGood
<1> QED
  BY <1>1, <1>2

(* An execution report; one that is not booked leaves the book alone.      *)
LEMMA BrokerBookingSane ==
  ASSUME NEW b, Sane(b), NEW s \in Symbols, NEW buy, NEW p \in Int, NEW units \in Int
  PROVE  Sane(Reported(b, BrokerBooking(b, s, buy, p, units)))
<1> DEFINE f == ValueOf(FillFee(p, units))
           debit == ValueOf(Debit(p, units, f))
           result == BrokerBooking(b, s, buy, p, units)
<1>1. \/ result = None
      \/ /\ HasValue(FillFee(p, units))
         /\ result = closePosition(b, s, toDouble(p), toDouble(f), toDouble(units))
      \/ /\ HasValue(FillFee(p, units)) /\ HasValue(Debit(p, units, f))
         /\ \/ /\ hasPosition(b, s)
               /\ result = addToLong(b, s, toDouble(p), toDouble(units), toDouble(f), toDouble(debit))
            \/ result = openLong(b, s, toDouble(p), toDouble(f), toDouble(debit), toDouble(units))
  BY DEF BrokerBooking
<1>2. HasValue(FillFee(p, units)) => f \in Int
  BY FillFeeIsInteger, ValueIn
<1> HIDE DEF f
<1>3. f \in Int /\ HasValue(Debit(p, units, f)) => debit \in Int
  BY DebitIsInteger, ValueIn
<1> HIDE DEF debit, result
<1>4. \A x \in Int : toDouble(x) \in Int
  BY DoubleIsInteger
<1>5. ASSUME NEW v \in result PROVE Sane(v)
  <2>1. CASE result = closePosition(b, s, toDouble(p), toDouble(f), toDouble(units)) /\ f \in Int
    BY <1>4, <1>5, <2>1, ClosePositionSane
  <2>2. CASE /\ hasPosition(b, s) /\ f \in Int /\ debit \in Int
             /\ result = addToLong(b, s, toDouble(p), toDouble(units), toDouble(f), toDouble(debit))
    BY <1>4, <1>5, <2>2, AddToLongSane
  <2>3. CASE /\ f \in Int /\ debit \in Int
             /\ result = openLong(b, s, toDouble(p), toDouble(f), toDouble(debit), toDouble(units))
    BY <1>4, <1>5, <2>3, OpenLongSane
  <2> QED
    BY <1>1, <1>2, <1>3, <1>5, <2>1, <2>2, <2>3 DEF None
<1>6. HasValue(result) => Sane(ValueOf(result))
  BY <1>5, ValueIn
<1> QED
  BY <1>6 DEF Reported, result

(* With a gateway.                                                         *)
LEMMA PaperFillsGood ==
  ASSUME NEW b, Sane(b), WorkType(working), NEW s \in Symbols, NEW buy, NEW p \in Int,
         NEW units \in Int, NEW outcome \in PaperFills(b, s, buy, p, units)
  PROVE  Good(outcome)
<1>1. PICK filled \in {n \in {units, units \div 2} : n > 0 /\ HasValue(FillFee(p, n))} :
        outcome = Outcome(Reported(b, BrokerBooking(b, s, buy, p, filled)), TRUE,
                          IF filled < units
                          THEN {[symbol |-> s, buy |-> buy, price |-> p, units |-> units - filled]}
                          ELSE working, "no")
  BY DEF PaperFills
<1>2. filled \in Int
  BY <1>1
<1>3. Sane(Reported(b, BrokerBooking(b, s, buy, p, filled)))
  BY <1>2, BrokerBookingSane
<1>4. WorkType({[symbol |-> s, buy |-> buy, price |-> p, units |-> units - filled]})
  BY <1>2 DEF WorkType
<1> QED
  BY <1>1, <1>3, <1>4, OutcomeGood

LEMMA BrokerAnswersGood ==
  ASSUME NEW b, Sane(b), WorkType(working), NEW s \in Symbols, NEW buy \in BOOLEAN,
         NEW reference \in Int, NEW units \in Int,
         NEW outcome \in BrokerAnswers(b, s, buy, reference, units)
  PROVE  Good(outcome)
<1>1. \/ outcome = Refused(b) \/ outcome = Outcome(b, TRUE, working, "no")
      \/ \E p \in applySlippage(reference, Slippage, buy) : outcome \in PaperFills(b, s, buy, p, units)
  BY DEF BrokerAnswers
<1>2. applySlippage(reference, Slippage, buy) \subseteq Int
  BY SlippedTypes
<1> QED
  BY <1>1, <1>2, RefusedGood, OutcomeGood, PaperFillsGood

LEMMA DispatchedGood ==
  ASSUME NEW b, Sane(b), WorkType(working), NEW s \in Symbols, NEW buy \in BOOLEAN,
         NEW market \in Int, NEW units \in Int, NEW outcome \in Dispatched(b, s, buy, market, units)
  PROVE  Good(outcome)
<1>1. \A v \in Int, step \in Nat \ {0} : (v \div step) * step \in Int
  OBVIOUS
<1>2. \A v \in Int, step \in Nat \ {0} : normalizeToStep(v, step) \subseteq Int
  BY <1>1 DEF normalizeToStep
<1>3. price(market) \subseteq Int
  BY InputRange, InRange DEF Optional
<1>4. PICK p \in UNION {normalizeToStep(v, TickSize) : v \in price(market)},
           q \in normalizeToStep(units, QuantityStep) : outcome \in BrokerAnswers(b, s, buy, p, q)
  BY DEF Dispatched
<1>5. p \in Int /\ q \in Int
  BY <1>2, <1>3, <1>4, SessionRates
<1> QED
  BY <1>4, <1>5, BrokerAnswersGood

LEMMA BrokerGood ==
  ASSUME NEW b, Sane(b), WorkType(working), NEW s \in Symbols, NEW market \in Int,
         NEW outcome \in BrokerBuys(b, s, market) \cup BrokerSells(b, s, market)
  PROVE  Good(outcome)
<1>1. CASE outcome \in BrokerBuys(b, s, market)
  <2> DEFINE p == ValueOf(Slipped(market, TRUE))
             Sent(atr) == UNION {Dispatched(b, s, TRUE, market, e.units) : e \in SizedEntry(b, p, atr)}
             Allowed == /\ ~hasPosition(b, s) /\ b.cash > 0
                        /\ HasValue(Slipped(market, TRUE)) /\ CanTrade(b, TRUE)
  <2>1. BrokerBuys(b, s, market) =
          {Refused(b)} \cup UNION {Sent(atr) : atr \in IF Allowed THEN AtrSizes ELSE {}}
    BY DEF BrokerBuys, AtrSizes
  <2>2. \A atr : \A o \in Sent(atr) : \E e \in SizedEntry(b, p, atr) :
          o \in Dispatched(b, s, TRUE, market, e.units)
    OBVIOUS
  <2>3. Allowed => HasValue(Slipped(market, TRUE))
    OBVIOUS
  <2> HIDE DEF Sent, Allowed
  <2>4. outcome = Refused(b) \/ (Allowed /\ \E atr \in AtrSizes : outcome \in Sent(atr))
    BY <1>1, <2>1
  <2>5. \/ outcome = Refused(b)
        \/ /\ HasValue(Slipped(market, TRUE))
           /\ \E atr \in AtrSizes : \E e \in SizedEntry(b, p, atr) :
                outcome \in Dispatched(b, s, TRUE, market, e.units)
    BY <2>2, <2>3, <2>4
  <2>6. HasValue(Slipped(market, TRUE)) => p \in Int
    BY SlippedTypes, ValueIn
  <2> HIDE DEF p
  <2>7. p \in Int => \A atr \in AtrSizes : \A e \in SizedEntry(b, p, atr) : e.units \in Int
    BY SizedEntryTypes DEF EntryType
  <2> QED
    BY <2>5, <2>6, <2>7, RefusedGood, DispatchedGood
<1>2. CASE outcome \in BrokerSells(b, s, market)
  BY <1>2, RefusedGood, DispatchedGood, QuantityIsInteger DEF BrokerSells
<1> QED
  BY <1>1, <1>2

LEMMA ExecuteGood ==
  ASSUME NEW b, Sane(b), WorkType(working), NEW s \in Symbols, NEW signal, NEW market \in Int,
         NEW outcome \in execute(b, s, signal, market)
  PROVE  Good(outcome) /\ (session.mode = "backtest" => Keeps(b, outcome))
<1>1. \A o \in LocalBuys(b, s, market) \cup LocalSells(b, s, market) : Keeps(b, o) /\ Good(o)
  BY LocalGood DEF Keeps
<1> QED
  BY <1>1, RefusedGood, BrokerGood DEF execute

(* A pending order that has filled.                                        *)
LEMMA PendingGood ==
  ASSUME NEW b, Sane(b), WorkType(working), NEW s \in Symbols, NEW fill, FillType(fill),
         NEW outcome \in PendingBuys(b, s, fill) \cup PendingSells(b, s, fill)
  PROVE  Keeps(b, outcome)
<1>1. /\ fill.price \in Int /\ fill.order.quantity \in Int /\ fill.order.capital \in Int
      /\ b.cash \in Int
  BY SliceIsInteger DEF FillType
<1>2. CASE outcome \in PendingBuys(b, s, fill)
  <2> DEFINE p == ValueOf(applySlippage(fill.price, Slippage, TRUE))
             budget == IF fill.order.capital > 0 THEN Min({fill.order.capital, b.cash}) ELSE b.cash
             wanted == IF fill.order.quantity > 0 THEN Some(fill.order.quantity)
                       ELSE Affordable(p, budget)
  <2>1. \/ outcome = Refused(b)
        \/ /\ HasValue(applySlippage(fill.price, Slippage, TRUE))
           /\ HasValue(Sized(p, wanted, budget))
           /\ outcome = BookEntry(b, s, p, ValueOf(Sized(p, wanted, budget)))
    BY <1>2 DEF PendingBuys
  <2>2. HasValue(applySlippage(fill.price, Slippage, TRUE)) => p \in Int
    BY <1>1, SlippedTypes, ValueIn
  <2>3. budget \in Int
    BY <1>1, MinOfTwo
  <2> HIDE DEF p, budget
  <2>4. p \in Int => wanted \subseteq Int
    BY <1>1, <2>3, AffordableTypes DEF Some
  <2> HIDE DEF wanted
  <2>5. p \in Int /\ HasValue(Sized(p, wanted, budget)) => EntryType(ValueOf(Sized(p, wanted, budget)))
    BY <2>3, <2>4, ValueIn, SizedTypes
  <2> QED
    BY <2>1, <2>2, <2>5, RefusedGood, BookEntryGood
<1>3. CASE outcome \in PendingSells(b, s, fill)
  <2> DEFINE p == applySlippage(fill.price, Slippage, FALSE)
  <2>1. outcome = Refused(b) \/ (HasValue(p) /\ outcome = BookExit(b, s, ValueOf(p)))
    BY <1>3 DEF PendingSells
  <2>2. HasValue(p) => ValueOf(p) \in Int
    BY <1>1, SlippedTypes, ValueIn
  <2> HIDE DEF p
  <2> QED
    BY <2>1, <2>2, RefusedGood, BookExitGood
<1> QED
  BY <1>2, <1>3

-----------------------------------------------------------------------------
(***************************************************************************)
(* The session.  Its book is sane, what waits to be booked has a price and *)
(* a size, and the file holds what snapshotState made of a sane book.      *)
(***************************************************************************)
Exceptions == {"no", "dust", "accounting", "mark", "checkpoint"}

BookGood == Sane(book) /\ WorkType(working) /\ thrown \in Exceptions

QueuesGood ==
  /\ IsList(fills) /\ \A n \in 1 .. Len(fills) : FillType(fills[n])
  /\ \A n \in 1 .. Len(events) : events[n].price \in Int

SnapshotGood ==
  /\ snapshot.kind \in {"none", "torn", "whole"}
  /\ snapshot.kind = "whole" => /\ snapshot.drawdown \in 0 .. BasisPoints
                                /\ \E b : Sane(b) /\ snapshot.book = snapshotState(b)

FileGood ==
  /\ drawdown \in 0 .. BasisPoints /\ lastSaved \in [Symbols -> Nat] /\ SnapshotGood

BooksInv == BookGood /\ QueuesGood /\ FileGood

LEMMA EmptyList == IsList(<<>>) /\ Len(<<>>) = 0 /\ 1 .. 0 = {}
<1>1. Len(<<>>) = 0 /\ 1 .. 0 = {} /\ <<>> = [n \in 1 .. 0 |-> <<>>[n]]
  OBVIOUS
<1> QED
  BY <1>1 DEF IsList

LEMMA EmptyBookSane == Sane(EmptyBook) /\ Solid(EmptyBook)
<1> DEFINE b == EmptyBook
<1>1. /\ DOMAIN b = Fields /\ b.cash = StartingCash /\ b.fees = 0 /\ b.maxEquity = StartingCash
      /\ b.drawdown = 0 /\ b.maxDrawdown = 0 /\ b.log = <<>> /\ b.pending = <<>>
      /\ b.positions = NoPositions /\ b.equity = StartingCash /\ b.unrealized = 0
      /\ b.nextOrderId = 1
  BY DEF EmptyBook, Fields
<1> HIDE DEF b
<1>2. DOMAIN b.positions = {}
  BY <1>1 DEF NoPositions
<1>3. StartingCash \in 0 .. MaxUnits /\ StartingCash \in Int
  BY BookAssumption, ArithmeticAssumption
<1>4. BookType(b)
  BY <1>1, <1>2, <1>3, EmptyList, ArithmeticAssumption DEF BookType, BasisPoints
<1>5. DOMAIN b.log = {}
  BY <1>1
<1>6. /\ SumFunction(Realized(b)) = 0 /\ SumFunction(Paid(b)) = 0
      /\ SumFunction(Spent(b)) = 0 /\ SumFunction(Held(b)) = 0
  BY <1>2, <1>5, SumOfNothing DEF Realized, Paid, Spent, Held
<1>7. Balanced(b)
  BY <1>1, <1>3, <1>6 DEF Balanced
<1>8. SumFunction(WorthOf(b)) = 0 /\ SumFunction(ProfitOf(b)) = 0
  BY <1>2, SumOfNothing DEF WorthOf, ProfitOf
<1>9. LossOf(StartingCash, StartingCash) = 0
  <2>1. (StartingCash - StartingCash) * BasisPoints = 0
    BY <1>3 DEF BasisPoints
  <2>2. 0 \div StartingCash = 0
    BY BookAssumption, ArithmeticAssumption
  <2> QED
    BY <2>1, <2>2 DEF LossOf
<1>10. 0 \in Amount /\ 0 \in 0 .. MaxUnits
  BY ArithmeticAssumption DEF Amount
<1>11. Coherent(b)
  BY <1>1, <1>2, <1>3, <1>8, <1>9, <1>10 DEF Coherent
<1>12. PendingIds(b) /\ 1 .. Len(b.log) = {}
  BY <1>1, EmptyList DEF PendingIds
<1>13. Ready(b)
  BY <1>1, <1>2, <1>3, <1>10, <1>12 DEF Ready
<1> QED
  BY <1>4, <1>7, <1>11, <1>13 DEF Sane, Solid, b

LEMMA TapeCandle ==
  ASSUME CandleTypes, NEW s \in Live
  PROVE  CandleType(Candle(s)) /\ Candle(s).ts \in Nat /\ s \in Symbols
<1> DEFINE Bar == [ts : Nat, low : Int, close : Int, high : Int]
<1>1. s \in Symbols
  BY DEF Live
<1>2. tape[s] \in Seq(Bar)
  BY <1>1, SessionAssumption DEF CandleTypes
<1>3. next[s] \in DOMAIN tape[s] /\ DOMAIN tape[s] = 1 .. Len(tape[s])
  BY <1>1, Files
<1>4. Candle(s) \in Bar
  BY <1>2, <1>3, ElementOfSeq DEF Candle
<1> QED
  BY <1>1, <1>4 DEF CandleType

LEMMA BooksGood ==
  ASSUME NEW outcome, Good(outcome), NEW goOn, Books(outcome, goOn), thrown \in Exceptions
  PROVE  BookGood'
<1>1. /\ book' = outcome.book /\ working' = outcome.working
      /\ thrown' = thrown \/ thrown' = outcome.thrown
  BY DEF Books, Dying
<1> QED
  BY <1>1 DEF BookGood, Good, WorkType, Exceptions

LEMMA BooksInit == Init => BooksInv
<1> SUFFICES ASSUME Init PROVE BooksInv
  OBVIOUS
<1>1. BookGood
  BY EmptyBookSane DEF Init, BookGood, WorkType, None, Exceptions
<1>2. QueuesGood
  BY EmptyList DEF Init, QueuesGood
<1>3. FileGood
  BY DEF Init, FileGood, SnapshotGood, NoFile, BasisPoints
<1> QED
  BY <1>1, <1>2, <1>3 DEF BooksInv

(* The steps that touch the book.                                          *)
LEMMA BookGoodStep ==
  ASSUME CandleTypes, EventInv, BooksInv, [Next]_vars
  PROVE  BookGood'
<1> USE DEF BooksInv
<1>0. Sane(book) /\ WorkType(working) /\ thrown \in Exceptions /\ current \in Symbols
  BY DEF BookGood, CandleTypes
<1>1. ASSUME UNCHANGED working, thrown' \in Exceptions, Sane(book') PROVE BookGood'
  BY <1>0, <1>1 DEF BookGood, WorkType
<1>2. CASE Crash \/ PowerLoss \/ Finish
  <2>1. book' = EmptyBook /\ working' = None /\ thrown' = "no"
    BY <1>2 DEF Crash, PowerLoss, Finish, Gone
  <2> QED
    BY <2>1, EmptyBookSane DEF BookGood, WorkType, None, Exceptions
<1>3. ASSUME NEW s \in Symbols, TakeCandle(s) PROVE BookGood'
  <2>1. /\ s \in Live /\ book' = evaluatePendingOrders(book, s, Candle(s)).book
        /\ UNCHANGED <<working, thrown>>
    BY <1>3 DEF TakeCandle, Earliest
  <2>2. Sane(book')
    BY <1>0, <2>1, TapeCandle, EvaluatePendingSane
  <2> QED
    BY <1>0, <1>1, <2>1, <2>2
<1>4. CASE ProcessPendingOrder
  <2>1. PICK outcome \in PendingBuys(book, current, Head(fills))
                         \cup PendingSells(book, current, Head(fills)) :
          Books(outcome, "pending")
    BY <1>4 DEF ProcessPendingOrder
  <2>2. FillType(Head(fills))
    <3>1. fills # <<>> /\ IsList(fills) /\ \A n \in 1 .. Len(fills) : FillType(fills[n])
      BY <1>4 DEF ProcessPendingOrder, QueuesGood
    <3> QED
      BY <3>1, TailOf
  <2>3. Good(outcome)
    BY <1>0, <2>2, PendingGood DEF Keeps
  <2> QED
    BY <1>0, <2>1, <2>3, BooksGood
<1>5. ASSUME NEW signal, DispatchSignal(signal) PROVE BookGood'
  <2>1. PICK outcome \in execute(book, current, signal, Candle(current).close) :
          Books(outcome, "mark")
    BY <1>5 DEF DispatchSignal
  <2>2. current \in Live
    BY <1>5 DEF DispatchSignal, CandleTypes, InHand
  <2>3. Candle(current).close \in Int
    BY <2>2, TapeCandle DEF CandleType
  <2>4. Good(outcome)
    BY <1>0, <2>3, ExecuteGood
  <2> QED
    BY <1>0, <2>1, <2>4, BooksGood
<1>6. CASE MarkToMarket
  <2> DEFINE marked == updatePnL(book, current, Candle(current).close)
  <2>1. /\ stage = "mark" /\ UNCHANGED working
        /\ \/ HasValue(marked) /\ book' = ValueOf(marked) /\ UNCHANGED thrown
           \/ UNCHANGED book /\ thrown' = "mark"
    BY <1>6 DEF MarkToMarket, Dying
  <2>2. current \in Live
    BY <2>1 DEF CandleTypes, InHand
  <2>3. Candle(current).close \in Int
    BY <2>2, TapeCandle DEF CandleType
  <2>4. HasValue(marked) => Sane(ValueOf(marked))
    BY <1>0, <2>3, ValueIn, UpdatePnLSane
  <2> HIDE DEF marked
  <2> QED
    BY <1>0, <1>1, <2>1, <2>4 DEF Exceptions
<1>7. CASE WriteTemporary \/ RenameTemporary
  BY <1>0, <1>1, <1>7 DEF WriteTemporary, RenameTemporary, Dying, engine, Exceptions
<1>8. ASSUME NEW mode, NEW resume, NEW unlocked, Start(mode, resume, unlocked) PROVE BookGood'
  <2>1. /\ UNCHANGED <<working, thrown>>
        /\ \/ book' = EmptyBook
           \/ Loadable(snapshot) /\ book' = ValueOf(restoreState(snapshot.book))
    BY <1>8 DEF Start
  <2>2. ASSUME Loadable(snapshot) PROVE Sane(ValueOf(restoreState(snapshot.book)))
    <3>1. snapshot.kind = "whole" /\ HasValue(restoreState(snapshot.book))
      BY <2>2 DEF Loadable, validate
    <3>2. PICK b : Sane(b) /\ snapshot.book = snapshotState(b)
      BY <3>1 DEF FileGood, SnapshotGood
    <3> QED
      BY <3>1, <3>2, ValueIn, RestoredSane
  <2> QED
    BY <1>0, <1>1, <2>1, <2>2, EmptyBookSane
<1>9. ASSUME NEW request \in OrderMenu, PlacePendingOrder(request) PROVE BookGood'
  <2>1. book' = placePendingOrder(book, request) /\ UNCHANGED <<working, thrown>>
    BY <1>9 DEF PlacePendingOrder
  <2>2. /\ request.limit \in Int /\ request.offset \in Int /\ request.quantity \in Int
        /\ request.capital \in Int
    BY SessionAssumption
  <2> QED
    BY <1>0, <1>1, <2>1, <2>2, PlacePendingSane
<1>10. ASSUME NEW id, CancelPendingOrder(id) PROVE BookGood'
  <2>1. book' = cancelPendingOrder(book, id) /\ UNCHANGED <<working, thrown>>
    BY <1>10 DEF CancelPendingOrder
  <2> QED
    BY <1>0, <1>1, <2>1, CancelPendingSane
<1>11. CASE ExecuteTrigger
  <2>1. PICK outcome \in execute(book, current, "SELL", Head(events).price) :
          Books(outcome, AfterTriggers)
    BY <1>11 DEF ExecuteTrigger
  <2>2. Head(events).price \in Int
    <3>1. events # <<>> /\ IsList(events)
      BY <1>11 DEF ExecuteTrigger, EventInv
    <3> QED
      BY <3>1, TailOf DEF QueuesGood
  <2>3. Good(outcome)
    BY <1>0, <2>2, ExecuteGood
  <2> QED
    BY <1>0, <2>1, <2>3, BooksGood
<1>12. CASE LateFill
  <2> DEFINE w == ValueOf(working)
  <2>1. /\ HasValue(working) /\ working' = None /\ UNCHANGED thrown
        /\ book' = Reported(book, BrokerBooking(book, w.symbol, w.buy, w.price, w.units))
    BY <1>12 DEF LateFill
  <2>2. w.symbol \in Symbols /\ w.price \in Int /\ w.units \in Int
    BY <1>0, <2>1, ValueIn DEF WorkType
  <2> HIDE DEF w
  <2>3. Sane(book')
    BY <1>0, <2>1, <2>2, BrokerBookingSane
  <2> QED
    BY <1>0, <2>1, <2>3 DEF BookGood, WorkType, None
<1>13. ASSUME NEW s, NEW quote, NEW request,
              \/ PassOver(s) \/ PlaceTrigger(request) \/ EvaluateTriggers(s, quote)
              \/ UNCHANGED vars
       PROVE  BookGood'
  BY <1>0, <1>1, <1>13 DEF PassOver, PlaceTrigger, EvaluateTriggers, vars, engine
<1> QED
  BY <1>2, <1>3, <1>4, <1>5, <1>6, <1>7, <1>8, <1>9, <1>10, <1>11, <1>12, <1>13 DEF Next

-----------------------------------------------------------------------------
(***************************************************************************)
(* What rounding adds, and the operations that cannot fail.                *)
(***************************************************************************)
(* A rounded quotient is no more than half a divisor too large, and has a  *)
(* value where that bound is in range.                                     *)
LEMMA RoundedAbove ==
  ASSUME NEW n \in Nat, NEW d \in Nat \ {0}, NEW negative \in BOOLEAN, ~negative,
         NEW o, o = signedQuotient(n, d, negative, "NearestTiesAwayFromZero")
  PROVE  /\ \A x \in o : x \in Nat /\ d * x <= n + d \div 2
         /\ \A t \in 0 .. MaxUnits : n + d \div 2 < d * (t + 1) => HasValue(o)
<1> DEFINE k == n \div d
           r == n % d
           h == d \div 2
           g == d % 2
           m == d * k
           rounded == IF r >= h + g THEN k + 1 ELSE k
<1>1. o = Representable(rounded)
  BY DEF signedQuotient
<1>2. k \in Nat /\ r \in 0 .. d - 1 /\ n = m + r /\ m \in Nat
  OBVIOUS
<1>3. h \in Nat /\ g \in 0 .. 1 /\ d = 2 * h + g
  OBVIOUS
<1>4. d * (k + 1) = m + d
  BY <1>2
<1> HIDE DEF k, r, h, g, m
<1>5. rounded \in Nat /\ d * rounded <= n + h
  <2>1. CASE r >= h + g
    <3>1. rounded = k + 1
      BY <2>1
    <3>2. m + d <= n + h
      BY <1>2, <1>3, <2>1
    <3> QED
      BY <1>2, <1>4, <3>1, <3>2
  <2>2. CASE ~(r >= h + g)
    <3>1. rounded = k /\ d * k = m
      BY <2>2 DEF m
    <3>2. m <= n + h
      BY <1>2, <1>3
    <3> QED
      BY <1>2, <3>1, <3>2
  <2> QED
    BY <2>1, <2>2
<1> HIDE DEF rounded
<1>6. \A x \in o : x = rounded
  BY <1>1, <1>5, RepresentableValue
<1>7. ASSUME NEW t \in 0 .. MaxUnits, n + h < d * (t + 1) PROVE HasValue(o)
  <2>1. t \in Nat /\ n + h \in Nat
    BY <1>3, ArithmeticAssumption
  <2>2. ~(t < rounded)
    <3> SUFFICES ASSUME t < rounded PROVE FALSE
      OBVIOUS
    <3>1. d * (t + 1) <= d * rounded
      BY <1>5, <2>1, Monotone
    <3>2. d * (t + 1) \in Int /\ d * rounded \in Int
      BY <1>5, <2>1
    <3> QED
      BY <1>5, <1>7, <2>1, <3>1, <3>2
  <2>3. rounded \in Amount
    BY <1>5, <2>1, <2>2, ArithmeticAssumption DEF Amount
  <2> QED
    BY <1>1, <1>5, <2>3, RepresentableValue
<1> QED
  BY <1>5, <1>6, <1>7 DEF h

(* An amount in range that was handed over as a double is that amount.     *)
LEMMA RoundedExact ==
  ASSUME NEW x \in 0 .. MaxUnits
  PROVE  price(toDouble(x)) = Some(x) /\ money(toDouble(x)) = Some(x) /\ toDouble(x) >= 0
<1> DEFINE w == x * Resolution
<1>1. x \in Nat /\ Resolution \in Nat \ {0}
  BY ArithmeticAssumption
<1>2. w \in Nat /\ w = Resolution * x
  BY <1>1
<1>3. magnitude(w) = Resolution * x /\ ~(w < 0)
  BY <1>2 DEF magnitude
<1> HIDE DEF w
<1>4. (Resolution * x) \div Resolution = x /\ (Resolution * x) % Resolution = 0
  BY <1>1, ExactDivision
<1>5. ~(0 >= (Resolution \div 2) + (Resolution % 2))
  BY <1>1
<1>6. signedQuotient(magnitude(w), Resolution, w < 0, "NearestTiesAwayFromZero") = Representable(x)
  BY <1>3, <1>4, <1>5 DEF signedQuotient
<1>7. Representable(x) = Some(x)
  BY <1>1, ArithmeticAssumption DEF Representable
<1> QED
  BY <1>2, <1>6, <1>7 DEF price, money, normalize, toDouble, w

(* The share of the whole.                                                 *)
LEMMA WholeShare ==
  ASSUME NEW total \in 0 .. MaxUnits, NEW whole \in Nat \ {0}
  PROVE  proportional(total, whole, whole) = Some(total)
<1>1. total \in Nat
  BY ArithmeticAssumption
<1>2. total * whole = whole * total
  BY <1>1
<1>3. (whole * total) \div whole = total /\ (whole * total) % whole = 0
  BY <1>1, ExactDivision
<1>4. ~(0 >= (whole \div 2) + (whole % 2))
  OBVIOUS
<1>5. /\ magnitude(total) = total /\ magnitude(whole) = whole
      /\ ~(total < 0) /\ ~(whole < 0) /\ whole # 0 /\ whole >= 0 /\ whole > 0 /\ whole <= whole
  BY <1>1 DEF magnitude
<1>6. proportional(total, whole, whole) = Representable(total)
  BY <1>2, <1>3, <1>4, <1>5 DEF proportional, proportionalUnits, signedQuotient
<1>7. Representable(total) = Some(total)
  BY <1>1, ArithmeticAssumption DEF Representable
<1> QED
  BY <1>6, <1>7

(* A fee is no more than the value it is taken from.                       *)
LEMMA FeeIsLess ==
  ASSUME NEW c \in 0 .. MaxUnits, NEW f \in fee(c, FeeRate)
  PROVE  f \in 0 .. c
<1>1. c \in Nat /\ FeeRate \in Nat /\ FeeRate <= Scale - 1 /\ Scale \in Nat \ {0}
  BY ArithmeticAssumption, SessionAssumption
<1> DEFINE n == c * FeeRate
           negative == (c < 0) # (FeeRate < 0)
<1>2. magnitude(c) = c /\ magnitude(FeeRate) = FeeRate /\ negative \in BOOLEAN /\ ~negative
  BY <1>1 DEF magnitude
<1>3. f \in signedQuotient(magnitude(c) * magnitude(FeeRate), Scale, negative,
                           "NearestTiesAwayFromZero")
  BY DEF fee, scaledProduct
<1> HIDE DEF negative
<1>4. n \in Nat /\ f \in signedQuotient(n, Scale, negative, "NearestTiesAwayFromZero")
  BY <1>1, <1>2, <1>3
<1>5. n <= Scale * c
  <2>1. c * FeeRate <= c * Scale
    BY <1>1, Monotone
  <2> QED
    BY <1>1, <2>1
<1> HIDE DEF n
<1>6. f \in Nat /\ Scale * f <= n + Scale \div 2
  BY <1>1, <1>2, <1>4, RoundedAbove
<1>7. ~(c < f)
  <2> SUFFICES ASSUME c < f PROVE FALSE
    OBVIOUS
  <2>1. Scale * (c + 1) <= Scale * f
    BY <1>1, <1>6, Monotone
  <2>2. Scale * (c + 1) = Scale * c + Scale /\ Scale * c \in Nat /\ Scale * f \in Nat
    BY <1>1, <1>6
  <2>3. Scale \div 2 < Scale /\ Scale \div 2 \in Nat
    BY <1>1
  <2> QED
    BY <1>1, <1>4, <1>5, <1>6, <2>1, <2>2, <2>3
<1> QED
  BY <1>1, <1>6, <1>7

(* The average of an entry is little more than its price.                  *)
LEMMA AverageFits ==
  ASSUME NEW p \in Nat \ {0}, NEW q \in Nat \ {0}, NEW cost \in notional(p, q),
         p + Scale <= MaxUnits
  PROVE  HasValue(averagePrice(cost, q))
<1>1. Scale \in Nat \ {0} /\ Scale \in Nat /\ MaxUnits \in Nat
  BY ArithmeticAssumption
<1> DEFINE n == p * q
           left == (p < 0) # (q < 0)
<1>2. magnitude(p) = p /\ magnitude(q) = q /\ left \in BOOLEAN /\ ~left /\ n \in Nat
  BY DEF magnitude
<1>3. cost \in signedQuotient(magnitude(p) * magnitude(q), Scale, left, "NearestTiesAwayFromZero")
  BY DEF notional, scaledProduct
<1> HIDE DEF left
<1>4. cost \in signedQuotient(n, Scale, left, "NearestTiesAwayFromZero")
  BY <1>2, <1>3
<1> DEFINE a == cost * Scale
<1> HIDE DEF n
<1>5. cost \in Nat /\ a \in Nat /\ a <= n + Scale \div 2
  <2>1. cost \in Nat /\ Scale * cost <= n + Scale \div 2
    BY <1>1, <1>2, <1>4, RoundedAbove
  <2>2. Scale * cost = a /\ a \in Nat
    BY <1>1, <2>1
  <2> QED
    BY <2>1, <2>2
<1> HIDE DEF a
<1> DEFINE t == p + Scale
<1>6. t \in 0 .. MaxUnits /\ a + q \div 2 < q * (t + 1)
  <2>1. q * (t + 1) = n + q * Scale + q /\ q * Scale \in Nat
    BY <1>1 DEF n
  <2>2. Scale <= q * Scale
    <3>1. Scale * 1 <= Scale * q
      BY <1>1, Monotone
    <3> QED
      BY <1>1, <3>1
  <2>3. q \div 2 < q /\ q \div 2 \in Nat /\ Scale \div 2 <= Scale /\ Scale \div 2 \in Nat
    BY <1>1
  <2> DEFINE x == q * Scale
             y == q * (t + 1)
  <2> HIDE DEF x, y
  <2>4. y = n + x + q /\ x \in Nat /\ Scale <= x
    BY <2>1, <2>2 DEF x, y
  <2>5. a + q \div 2 < y
    BY <1>1, <1>2, <1>5, <2>3, <2>4
  <2> QED
    BY <1>1, <2>5 DEF y
<1> HIDE DEF t
<1> DEFINE right == (cost < 0) # (q < 0)
<1>7. magnitude(cost) = cost /\ right \in BOOLEAN /\ ~right
  BY <1>5 DEF magnitude
<1>8. averagePrice(cost, q)
        = signedQuotient(magnitude(cost) * Scale, magnitude(q), right, "NearestTiesAwayFromZero")
  BY <1>5 DEF averagePrice, scaledRatio
<1> HIDE DEF right
<1>9. averagePrice(cost, q) = signedQuotient(a, q, right, "NearestTiesAwayFromZero")
  BY <1>2, <1>7, <1>8 DEF a
<1> QED
  BY <1>5, <1>6, <1>7, <1>9, RoundedAbove

(* A sum of differences.                                                   *)
LEMMA SumDifference ==
  ASSUME NEW f, NEW h, NEW g, IntegerFunction(f), IntegerFunction(h), IntegerFunction(g),
         DOMAIN h = DOMAIN f, DOMAIN g = DOMAIN f, \A x \in DOMAIN f : g[x] = f[x] - h[x]
  PROVE  SumFunction(g) = SumFunction(f) - SumFunction(h)
<1> DEFINE D == DOMAIN f
           F == Partial(f)
           H == Partial(h)
           G == Partial(g)
           Agree == {s \in SUBSET D : G[s] = F[s] - H[s]}
<1>1. F[{}] = 0 /\ H[{}] = 0 /\ G[{}] = 0
  BY PartialExists DEF IntegerFunction
<1>2. ASSUME NEW s \in SUBSET D
      PROVE  /\ F[s] \in Int /\ H[s] \in Int /\ G[s] \in Int
             /\ \A x \in s : /\ F[s] = f[x] + F[s \ {x}] /\ H[s] = h[x] + H[s \ {x}]
                             /\ G[s] = g[x] + G[s \ {x}]
  BY PartialRemove
<1>3. \A x \in D : f[x] \in Int /\ h[x] \in Int /\ g[x] = f[x] - h[x]
  BY DEF IntegerFunction
<1>4. IsFiniteSet(D)
  BY DEF IntegerFunction
<1> HIDE DEF F, H, G, D
<1>5. \A s \in SUBSET D : (\A u \in SUBSET s : u # s => u \in Agree) => s \in Agree
  <2> SUFFICES ASSUME NEW s \in SUBSET D, \A u \in SUBSET s : u # s => u \in Agree
               PROVE  G[s] = F[s] - H[s]
    OBVIOUS
  <2>1. CASE s = {}
    BY <1>1, <2>1
  <2>2. ASSUME NEW x \in s PROVE G[s] = F[s] - H[s]
    <3> DEFINE u == s \ {x}
    <3>1. u \in SUBSET D /\ G[u] = F[u] - H[u]
      OBVIOUS
    <3>2. F[u] \in Int /\ H[u] \in Int
      BY <1>2, <3>1
    <3>3. F[s] = f[x] + F[u] /\ H[s] = h[x] + H[u] /\ G[s] = g[x] + G[u]
      BY <1>2
    <3>4. f[x] \in Int /\ h[x] \in Int /\ g[x] = f[x] - h[x]
      BY <1>3
    <3> HIDE DEF u
    <3> QED
      BY <3>1, <3>2, <3>3, <3>4
  <2> QED
    BY <2>1, <2>2
<1> HIDE DEF Agree
<1>6. D \in Agree
  BY <1>4, <1>5, SubsetInduction
<1> QED
  BY <1>6, SumIsFold DEF Agree, D, F, G, H

(* What a book accounts for: cash, fees, and each position at its mark and *)
(* at what it cost.                                                        *)
Holdings(b) == b.cash + b.fees + SumFunction(WorthOf(b)) + SumFunction(Spent(b))

Marked(b) ==
  \A s \in DOMAIN b.positions : HasValue(notional(b.positions[s].mark, b.positions[s].quantity))

(* The totals of a book with marks, and what its profit lies between.      *)
LEMMA BookTotals ==
  ASSUME NEW b, BookType(b), Marked(b)
  PROVE  /\ IntegerFunction(WorthOf(b)) /\ DOMAIN WorthOf(b) = DOMAIN b.positions
         /\ \A s \in DOMAIN b.positions : WorthOf(b)[s] \in Nat
         /\ SumFunction(WorthOf(b)) \in Nat /\ SumFunction(Spent(b)) \in Nat
         /\ SumFunction(ProfitOf(b)) \in Int
         /\ SumFunction(ProfitOf(b)) <= SumFunction(WorthOf(b))
         /\ -SumFunction(Spent(b)) <= SumFunction(ProfitOf(b))
<1> DEFINE D == DOMAIN b.positions
           worth == WorthOf(b)
           profit == ProfitOf(b)
           spent == Spent(b)
           below == [s \in D |-> worth[s] - profit[s]]
           above == [s \in D |-> profit[s] - (-spent[s])]
           owed == [s \in D |-> -spent[s]]
<1>1. IsFiniteSet(D) /\ IntegerFunction(spent) /\ DOMAIN spent = D
  BY BookSums
<1>2. /\ DOMAIN worth = D /\ DOMAIN profit = D
      /\ \A s \in D : profit[s] = worth[s] - b.positions[s].cost
      /\ \A s \in D : spent[s] = b.positions[s].cost + b.positions[s].entryFee
  BY DEF WorthOf, ProfitOf, Spent
<1>3. \A s \in D : b.positions[s].cost \in Nat /\ b.positions[s].entryFee \in Nat
  BY PositionAmounts DEF BookType
<1>4. \A s \in D : worth[s] \in Nat
  <2> SUFFICES ASSUME NEW s \in D PROVE worth[s] \in Nat
    OBVIOUS
  <2>1. b.positions[s].mark \in Nat /\ b.positions[s].quantity \in Nat
    BY PositionAmounts DEF BookType
  <2>2. worth[s] \in notional(b.positions[s].mark, b.positions[s].quantity)
    BY ValueIn DEF WorthOf, Marked
  <2>3. \A x \in notional(b.positions[s].mark, b.positions[s].quantity) : x \in 0 .. MaxUnits
    BY <2>1, NotionalRange
  <2> QED
    BY <2>2, <2>3, ArithmeticAssumption
<1> HIDE DEF D, worth, profit, spent
<1>5. \A s \in D : profit[s] \in Int /\ worth[s] - profit[s] \in Nat /\ profit[s] + spent[s] \in Nat
                   /\ spent[s] \in Nat
  BY <1>2, <1>3, <1>4
<1>6. /\ IntegerFunction(worth) /\ IntegerFunction(profit) /\ IntegerFunction(below)
      /\ DOMAIN below = D
  BY <1>1, <1>2, <1>4, <1>5 DEF IntegerFunction
<1>7. SumFunction(worth) \in Nat /\ SumFunction(spent) \in Nat /\ SumFunction(below) \in Nat
  <2>1. SumFunction(worth) \in Nat
    BY <1>1, <1>2, <1>4, SumIsNatural
  <2>2. SumFunction(spent) \in Nat
    BY <1>1, <1>2, <1>5, SumIsNatural
  <2>3. DOMAIN below = D /\ \A s \in D : below[s] \in Nat
    BY <1>5
  <2> HIDE DEF below
  <2>4. SumFunction(below) \in Nat
    BY <1>1, <2>3, SumIsNatural
  <2> QED
    BY <2>1, <2>2, <2>4
<1>8. SumFunction(below) = SumFunction(worth) - SumFunction(profit)
  <2>1. \A s \in D : below[s] = worth[s] - profit[s]
    OBVIOUS
  <2> HIDE DEF below
  <2> QED
    BY <1>2, <1>6, <2>1, SumDifference
<1>9. /\ IntegerFunction(owed) /\ DOMAIN owed = D /\ IntegerFunction(above) /\ DOMAIN above = D
      /\ \A s \in D : above[s] = profit[s] - owed[s] /\ above[s] \in Nat
      /\ \A s \in D : owed[s] + spent[s] = 0
  BY <1>1, <1>5 DEF IntegerFunction
<1>10. SumFunction(above) = SumFunction(profit) - SumFunction(owed)
  <2> HIDE DEF above, owed
  <2> QED
    BY <1>2, <1>6, <1>9, SumDifference
<1>11. SumFunction(above) \in Nat
  <2> HIDE DEF above, owed
  <2> QED
    BY <1>1, <1>9, SumIsNatural
<1>12. SumFunction(owed) = -SumFunction(spent)
  <2> DEFINE nothing == [s \in D |-> 0]
  <2>1. /\ IntegerFunction(nothing) /\ DOMAIN nothing = D
        /\ \A s \in D : owed[s] = nothing[s] - spent[s]
    BY <1>1, <1>5 DEF IntegerFunction
  <2>2. SumFunction(nothing) = 0
    <3>1. \A s \in D : nothing[s] = nothing[s] - nothing[s]
      OBVIOUS
    <3> HIDE DEF nothing
    <3>2. SumFunction(nothing) = SumFunction(nothing) - SumFunction(nothing)
      BY <2>1, <3>1, SumDifference
    <3>3. SumFunction(nothing) \in Int
      BY <2>1, SumIsInteger
    <3> QED
      BY <3>2, <3>3
  <2> HIDE DEF nothing, owed
  <2>3. SumFunction(owed) = SumFunction(nothing) - SumFunction(spent)
    BY <1>1, <1>9, <2>1, SumDifference
  <2> QED
    BY <1>7, <2>2, <2>3
<1>13. SumFunction(profit) \in Int
  BY <1>6, SumIsInteger
<1> HIDE DEF above, owed, below
<1>14. /\ SumFunction(profit) <= SumFunction(worth)
       /\ -SumFunction(spent) <= SumFunction(profit)
  BY <1>7, <1>8, <1>10, <1>11, <1>12, <1>13
<1> QED
  BY <1>2, <1>4, <1>6, <1>7, <1>13, <1>14 DEF D, worth, profit, spent

(* A book whose totals stay within the range can be valued.                *)
LEMMA CanBeValued ==
  ASSUME NEW b, BookType(b), Marked(b), b.cash + SumFunction(WorthOf(b)) <= MaxUnits,
         SumFunction(Spent(b)) <= MaxUnits
  PROVE  HasValue(Valued(b))
<1> DEFINE value == [s \in DOMAIN b.positions |->
                       ValueOf(notional(b.positions[s].mark, b.positions[s].quantity))]
           profit == [s \in DOMAIN b.positions |-> value[s] - b.positions[s].cost]
           equity == b.cash + SumFunction(value)
           unrealized == SumFunction(profit)
<1>1. value = WorthOf(b) /\ profit = ProfitOf(b)
  BY DEF WorthOf, ProfitOf
<1> HIDE DEF value, profit
<1>2. /\ equity \in Amount /\ unrealized \in Amount
  <2>1. b.cash \in Nat /\ MaxUnits \in Nat
    BY ArithmeticAssumption DEF BookType
  <2>2. equity \in Nat /\ equity <= MaxUnits
    BY <1>1, <2>1, BookTotals
  <2>3. unrealized \in Int /\ unrealized <= equity /\ -MaxUnits <= unrealized
    BY <1>1, <2>1, BookTotals
  <2> HIDE DEF equity, unrealized
  <2> QED
    BY <2>1, <2>2, <2>3 DEF Amount
<1>3. HasValue(Representable(equity)) /\ HasValue(Representable(unrealized))
  BY <1>2, InRange, RepresentableValue
<1>4. \E r : Valued(b) = Some(r)
  <2> HIDE DEF equity, unrealized
  <2>1. \A s \in DOMAIN b.positions :
          HasValue(notional(b.positions[s].mark, b.positions[s].quantity))
    BY DEF Marked
  <2> QED
    BY <1>3, <2>1 DEF Valued, value, profit, equity, unrealized
<1> QED
  BY <1>4 DEF HasValue, Some, None

(* The totals of a book stay within the range ...                          *)
Room(b) == Marked(b) /\ Holdings(b) <= MaxUnits

(* ... and so does a trade at price p, whichever position it sells.        *)
RoomAt(b, p) ==
  /\ p + Scale <= MaxUnits
  /\ \A s \in DOMAIN b.positions : \A v \in notional(p, b.positions[s].quantity) :
       Holdings(b) + v <= MaxUnits

LEMMA RoomTotals ==
  ASSUME NEW b, BookType(b), Room(b)
  PROVE  /\ b.cash \in Nat /\ b.fees \in Nat /\ MaxUnits \in Nat
         /\ SumFunction(WorthOf(b)) \in Nat /\ SumFunction(Spent(b)) \in Nat
         /\ b.cash + b.fees + SumFunction(WorthOf(b)) + SumFunction(Spent(b)) <= MaxUnits
         /\ Holdings(b) \in Nat
<1>1. b.cash \in Nat /\ b.fees \in Nat /\ MaxUnits \in Nat
  BY ArithmeticAssumption DEF BookType
<1>2. SumFunction(WorthOf(b)) \in Nat /\ SumFunction(Spent(b)) \in Nat
  BY BookTotals DEF Room
<1> QED
  BY <1>1, <1>2 DEF Room, Holdings

(* An entry that cash can pay is entered: its average is close to its      *)
(* price, and the book is worth no more than before.                       *)
LEMMA EnteredAccepted ==
  ASSUME NEW b, BookType(b), Room(b), NEW s \in Symbols, ~hasPosition(b, s),
         NEW p \in 1 .. MaxUnits, NEW q \in 1 .. MaxUnits, NEW f \in 0 .. MaxUnits,
         p + Scale <= MaxUnits, HasValue(Debit(p, q, f)), ValueOf(Debit(p, q, f)) <= b.cash,
         ValueOf(notional(p, q)) > 0
  PROVE  HasValue(Entered(b, s, p, q, f))
<1> DEFINE cost == ValueOf(notional(p, q))
           debit == ValueOf(Debit(p, q, f))
           average == ValueOf(averagePrice(cost, q))
           position == [quantity |-> q, average |-> average, cost |-> cost, mark |-> p,
                        entryFee |-> f]
           c == [b EXCEPT !.cash = @ - debit, !.fees = @ + f,
                          !.positions = Put(@, s, position)]
<1>1. p \in Nat \ {0} /\ q \in Nat \ {0} /\ f \in Nat /\ p \in Int /\ q \in Int /\ f \in Int
  BY ArithmeticAssumption
<1>2. /\ debit = cost + f /\ cost \in Amount /\ cost \in notional(p, q)
      /\ HasValue(notional(p, q)) /\ cost > 0 /\ debit <= b.cash
  BY <1>1, DebitValue, ValueIn
<1>3. HasValue(averagePrice(cost, q))
  BY <1>1, <1>2, AverageFits
<1> HIDE DEF cost, debit
<1>4. cost \in 1 .. MaxUnits /\ cost \in Nat /\ average \in 0 .. MaxUnits
  <2>1. cost \in 1 .. MaxUnits /\ cost \in Int
    BY <1>2, InRange
  <2>2. cost \in Nat
    BY <2>1, ArithmeticAssumption
  <2>3. Optional(averagePrice(cost, q), 0 .. MaxUnits)
    BY <1>1, <2>1, AverageRange
  <2>4. average \in 0 .. MaxUnits
    BY <1>3, <2>3, TheValue
  <2> HIDE DEF average
  <2> QED
    BY <2>1, <2>2, <2>4
<1> HIDE DEF average
<1>5. position \in PositionType
  BY <1>4, ArithmeticAssumption DEF PositionType
<1>6. DOMAIN b = Fields /\ DOMAIN b.positions \subseteq Symbols /\ s \notin DOMAIN b.positions
  BY DEF BookType, hasPosition
<1>7. /\ DOMAIN c = Fields /\ c.cash = b.cash - debit /\ c.fees = b.fees + f
      /\ c.positions = Put(b.positions, s, position) /\ c.log = b.log
      /\ c.pending = b.pending /\ c.maxEquity = b.maxEquity
      /\ c.maxDrawdown = b.maxDrawdown /\ c.drawdown = b.drawdown
  BY <1>6 DEF Fields
<1>8. /\ DOMAIN c.positions = DOMAIN b.positions \cup {s} /\ c.positions[s] = position
      /\ \A t \in DOMAIN b.positions : c.positions[t] = b.positions[t]
  BY <1>6, <1>7 DEF Put
<1>9. /\ b.cash \in Nat /\ b.fees \in Nat /\ MaxUnits \in Nat
      /\ SumFunction(WorthOf(b)) \in Nat /\ SumFunction(Spent(b)) \in Nat
      /\ b.cash + b.fees + SumFunction(WorthOf(b)) + SumFunction(Spent(b)) <= MaxUnits
  BY RoomTotals
<1> DEFINE worth == SumFunction(WorthOf(b))
           spent == SumFunction(Spent(b))
<1> HIDE DEF c, position, worth, spent
<1>10. b.fees + f \in 0 .. MaxUnits /\ HasValue(add(b.fees, f))
  <2>1. b.fees + f \in 0 .. MaxUnits
    BY <1>1, <1>2, <1>4, <1>9 DEF worth, spent
  <2>2. b.fees + f \in Amount /\ b.fees + f \in Int
    BY <2>1, <1>9 DEF Amount
  <2> QED
    BY <2>1, <2>2, RepresentableValue DEF add
<1>11. BookType(c)
  <2>1. c.fees \in 0 .. MaxUnits /\ c.fees \in Int
    BY <1>1, <1>7, <1>9, <1>10
  <2>3. debit \in Nat /\ debit <= b.cash
    BY <1>1, <1>2, <1>4
  <2>4. b.cash <= MaxUnits
    BY ArithmeticAssumption DEF BookType
  <2>5. c.cash \in 0 .. MaxUnits
    BY <1>7, <1>9, <2>3, <2>4
  <2>2. \A t \in DOMAIN c.positions : c.positions[t] \in PositionType
    BY <1>5, <1>8 DEF BookType
  <2> QED
    BY <1>6, <1>7, <1>8, <2>1, <2>2, <2>5 DEF BookType
<1>12. Marked(c)
  <2>1. c.positions[s].mark = p /\ c.positions[s].quantity = q
    BY <1>8 DEF position
  <2> QED
    BY <1>2, <1>8, <2>1 DEF Marked, Room
<1>13. SumFunction(WorthOf(c)) = worth + cost
  <2>1. IntegerFunction(WorthOf(b)) /\ DOMAIN WorthOf(b) = DOMAIN b.positions
    BY BookTotals DEF Room
  <2>2. IntegerFunction(WorthOf(c)) /\ DOMAIN WorthOf(c) = DOMAIN c.positions
    BY <1>11, <1>12, BookTotals
  <2>3. \A t \in DOMAIN b.positions : WorthOf(c)[t] = WorthOf(b)[t]
    BY <1>8 DEF WorthOf
  <2>4. WorthOf(c)[s] = cost
    BY <1>8 DEF WorthOf, position, cost
  <2>5. SumFunction(WorthOf(c)) = SumFunction(WorthOf(b)) + WorthOf(c)[s]
    BY <1>6, <1>8, <2>1, <2>2, <2>3, SumAdds
  <2> QED
    BY <2>4, <2>5 DEF worth
<1>14. SumFunction(Spent(c)) = spent + cost + f
  <2>1. OnlyAt(s, b, c)
    BY <1>6, <1>8 DEF OnlyAt
  <2>2. CostOf(b, s) = 0 /\ CostOf(c, s) = cost + f
    BY <1>6, <1>8 DEF CostOf, hasPosition, position
  <2> QED
    BY <1>1, <1>4, <1>9, <1>11, <2>1, <2>2, PositionSums DEF spent
<1>15. c.cash + SumFunction(WorthOf(c)) <= MaxUnits /\ SumFunction(Spent(c)) <= MaxUnits
  BY <1>1, <1>2, <1>4, <1>7, <1>9, <1>13, <1>14 DEF worth, spent
<1>16. HasValue(Valued(c))
  BY <1>11, <1>12, <1>15, CanBeValued
<1>17. Entered(b, s, p, q, f) = Valued(c)
  BY <1>2, <1>3, <1>10 DEF Entered, cost, debit, average, position, c
<1> QED
  BY <1>16, <1>17

LEMMA DoublePositive ==
  ASSUME NEW x \in 1 .. MaxUnits
  PROVE  toDouble(x) > 0 /\ toDouble(x) \in Int
<1>1. x \in Nat \ {0} /\ Resolution \in Nat \ {0}
  BY ArithmeticAssumption
<1>2. x * 1 <= x * Resolution
  BY <1>1, Monotone
<1> QED
  BY <1>1, <1>2 DEF toDouble

LEMMA OpenLongAccepted ==
  ASSUME NEW b, BookType(b), Room(b), NEW s \in Symbols, ~hasPosition(b, s),
         NEW p \in 1 .. MaxUnits, NEW q \in 1 .. MaxUnits, NEW f \in 0 .. MaxUnits,
         NEW d \in Debit(p, q, f), p + Scale <= MaxUnits, d <= b.cash,
         ValueOf(notional(p, q)) > 0
  PROVE  HasValue(openLong(b, s, toDouble(p), toDouble(f), toDouble(d), toDouble(q)))
<1>1. p \in Int /\ q \in Int /\ f \in Int /\ f >= 0 /\ p > 0 /\ q > 0
  BY ArithmeticAssumption
<1>2. /\ HasValue(Debit(p, q, f)) /\ d = ValueOf(Debit(p, q, f)) /\ d \in Amount
      /\ d = ValueOf(notional(p, q)) + f
  <2>1. HasValue(Debit(p, q, f))
    BY DEF HasValue, None
  <2> QED
    BY <1>1, <2>1, DebitValue, TheValue
<1>3. d > 0 /\ d \in 1 .. MaxUnits /\ d \in 0 .. MaxUnits
  <2>1. ValueOf(notional(p, q)) \in Int
    BY <1>1, <1>2, DebitValue, InRange
  <2> QED
    BY <1>1, <1>2, <2>1, InRange
<1>4. p \in 0 .. MaxUnits /\ q \in Amount
  BY ArithmeticAssumption DEF Amount
<1>5. /\ price(toDouble(p)) = Some(p) /\ money(toDouble(f)) = Some(f)
      /\ money(toDouble(d)) = Some(d) /\ aligned(toDouble(q)) = Some(q)
      /\ toDouble(f) >= 0 /\ toDouble(d) > 0 /\ toDouble(q) > 0
      /\ toDouble(d) >= 0 /\ toDouble(q) >= 0
  BY <1>3, <1>4, RoundedExact, AlignedExact, DoublePositive
<1> DEFINE dp == toDouble(p)
           df == toDouble(f)
           dd == toDouble(d)
           dq == toDouble(q)
<1> HIDE DEF dp, df, dd, dq
<1>6. /\ price(dp) = Some(p) /\ money(df) = Some(f) /\ money(dd) = Some(d)
      /\ aligned(dq) = Some(q) /\ df >= 0 /\ dd > 0 /\ dq > 0 /\ dd >= 0 /\ dq >= 0
  BY <1>5 DEF dp, df, dd, dq
<1> DEFINE budget == {m \in money(dd) : 0 < m /\ m <= b.cash}
           fits(x) == \E m \in budget : \E e \in Debit(p, x, f) : e <= m
           sized == {x \in aligned(dq) : fits(x)}
<1>7. ValueOf(price(dp)) = p /\ ValueOf(money(df)) = f
  BY <1>6 DEF ValueOf, Some
<1>8. budget = Some(d)
  BY <1>3, <1>6 DEF Some
<1> HIDE DEF budget
<1>9. sized = Some(q)
  <2>1. \E m \in budget : \E e \in Debit(p, q, f) : e <= m
    <3>1. d \in budget /\ d <= d
      BY <1>3, <1>8, ArithmeticAssumption DEF Some
    <3> QED
      BY <3>1
  <2> QED
    BY <1>6, <2>1 DEF Some
<1> HIDE DEF sized, fits
<1>10. /\ HasValue(budget) /\ IsPositive(sized) /\ ValueOf(sized) = q
       /\ IsPositive(price(dp)) /\ IsNotNegative(money(df))
  BY <1>1, <1>6, <1>8, <1>9 DEF HasValue, IsPositive, IsNotNegative, ValueOf, Some, None
<1>11. openLong(b, s, dp, df, dd, dq) = Entered(b, s, p, q, f)
  BY <1>6, <1>7, <1>10 DEF openLong, sized, fits, budget
<1>12. HasValue(Entered(b, s, p, q, f))
  BY <1>2, EnteredAccepted
<1> QED
  BY <1>11, <1>12 DEF dp, df, dd, dq


(* An exit at a price there is room for is booked: the fee is no more than *)
(* the proceeds, and the shares of a whole position are all of it.         *)
LEMMA ClosePositionAccepted ==
  ASSUME NEW b, BookType(b), Room(b), NEW s \in Symbols, hasPosition(b, s),
         NEW p \in 1 .. MaxUnits, RoomAt(b, p), NEW f \in FillFee(p, getPositionQuantity(b, s))
  PROVE  HasValue(closePosition(b, s, toDouble(p), toDouble(f), 0))
<1> DEFINE held == b.positions[s]
           q == held.quantity
           cost == held.cost
           entryFee == held.entryFee
           proceeds == ValueOf(notional(p, q))
           trade == [symbol |-> s, entry |-> held.average, exit |-> p, quantity |-> q,
                     fees |-> f + entryFee, realized |-> proceeds - cost - f - entryFee]
           c == [b EXCEPT !.cash = @ + proceeds - f, !.fees = @ + f,
                          !.positions = Erase(@, s), !.log = Append(@, trade)]
<1>1. /\ DOMAIN b = Fields /\ DOMAIN b.positions \subseteq Symbols /\ s \in DOMAIN b.positions
      /\ held \in PositionType /\ IsList(b.log)
      /\ \A i \in 1 .. Len(b.log) : b.log[i].realized \in Int /\ b.log[i].fees \in Int
      /\ getPositionQuantity(b, s) = q /\ CostOf(b, s) = cost + entryFee
  BY DEF BookType, hasPosition, getPositionQuantity, CostOf
<1>2. /\ q \in Nat \ {0} /\ cost \in Nat /\ entryFee \in Nat /\ q \in Int /\ held.average \in Nat
      /\ cost \in 0 .. MaxUnits /\ entryFee \in 0 .. MaxUnits
  BY <1>1, PositionAmounts
<1> HIDE DEF held, q, cost, entryFee
<1>3. p \in Nat \ {0} /\ p \in Int /\ p \in 0 .. MaxUnits /\ MaxUnits \in Nat
  BY ArithmeticAssumption
<1>4. HasValue(notional(p, q)) /\ proceeds \in notional(p, q) /\ f \in fee(proceeds, FeeRate)
  <2>1. PICK x \in notional(p, q) : f \in fee(x, FeeRate)
    BY <1>1 DEF FillFee
  <2>2. HasValue(notional(p, q))
    BY <2>1 DEF HasValue, None
  <2>3. x = proceeds /\ proceeds \in notional(p, q)
    BY <1>2, <1>3, <2>1, <2>2, NotionalRange, TheValue
  <2> QED
    BY <2>1, <2>2, <2>3
<1>5. proceeds \in 0 .. MaxUnits
  BY <1>2, <1>3, <1>4, NotionalRange
<1>6. f \in 0 .. proceeds
  BY <1>4, <1>5, FeeIsLess
<1>7. proceeds \in Nat /\ f \in Nat /\ f <= proceeds /\ f \in 0 .. MaxUnits
  BY <1>3, <1>5, <1>6
<1> DEFINE worth == SumFunction(WorthOf(b))
           spent == SumFunction(Spent(b))
<1>8. /\ b.cash \in Nat /\ b.fees \in Nat /\ worth \in Nat /\ spent \in Nat
      /\ b.cash + b.fees + worth + spent + proceeds <= MaxUnits
  <2>1. Holdings(b) + proceeds <= MaxUnits
    BY <1>1, <1>4 DEF RoomAt, q, held
  <2> QED
    BY <2>1, RoomTotals DEF Holdings
<1> HIDE DEF proceeds, worth, spent
<1>26. /\ b.cash + worth + proceeds <= MaxUnits /\ b.cash + proceeds <= MaxUnits
       /\ spent <= MaxUnits /\ b.fees + proceeds <= MaxUnits
  BY <1>3, <1>7, <1>8
<1>9. /\ DOMAIN c = Fields /\ c.cash = b.cash + proceeds - f /\ c.fees = b.fees + f
      /\ c.positions = Erase(b.positions, s) /\ c.log = Append(b.log, trade)
      /\ c.pending = b.pending /\ c.maxEquity = b.maxEquity
      /\ c.maxDrawdown = b.maxDrawdown /\ c.drawdown = b.drawdown
  BY <1>1 DEF Fields
<1>10. trade.fees \in Int /\ trade.realized \in Int
  BY <1>2, <1>7
<1> HIDE DEF trade, c
<1>11. /\ DOMAIN c.positions = DOMAIN b.positions \ {s}
       /\ \A t \in DOMAIN c.positions : c.positions[t] = b.positions[t]
  BY <1>9 DEF Erase
<1>12. BookType(c)
  <2>1. /\ IsList(c.log)
        /\ \A i \in 1 .. Len(c.log) : c.log[i].realized \in Int /\ c.log[i].fees \in Int
    <3> DEFINE k == Len(b.log)
    <3>1. /\ k \in Nat /\ IsList(c.log) /\ Len(c.log) = k + 1
          /\ \A i \in 1 .. k : c.log[i] = b.log[i]
          /\ c.log[k + 1] = trade
      BY <1>1, <1>9, Appended, ListDomain
    <3>2. \A i \in 1 .. k : b.log[i].realized \in Int /\ b.log[i].fees \in Int
      BY <1>1
    <3> HIDE DEF k
    <3>3. \A i \in 1 .. k + 1 : i \in 1 .. k \/ i = k + 1
      BY <3>1
    <3> QED
      BY <1>10, <3>1, <3>2, <3>3
  <2>2. c.cash \in 0 .. MaxUnits /\ c.fees \in 0 .. MaxUnits /\ c.fees \in Int
    <3>1. /\ b.cash + proceeds - f \in 0 .. MaxUnits
          /\ b.fees + f \in 0 .. MaxUnits /\ b.fees + f \in Int
      BY <1>3, <1>7, <1>8, <1>26
    <3> QED
      BY <1>9, <3>1
  <2>3. \A t \in DOMAIN c.positions : c.positions[t] \in PositionType
    BY <1>11 DEF BookType
  <2>4. DOMAIN c.positions \subseteq Symbols
    BY <1>1, <1>11
  <2> QED
    BY <1>9, <2>1, <2>2, <2>3, <2>4 DEF BookType
<1>13. Marked(c)
  BY <1>11 DEF Marked, Room
<1>14. SumFunction(WorthOf(c)) <= worth /\ SumFunction(WorthOf(c)) \in Nat
  <2>1. /\ IntegerFunction(WorthOf(b)) /\ DOMAIN WorthOf(b) = DOMAIN b.positions
        /\ WorthOf(b)[s] \in Nat
    BY <1>1, BookTotals DEF Room
  <2>2. /\ IntegerFunction(WorthOf(c)) /\ DOMAIN WorthOf(c) = DOMAIN c.positions
        /\ SumFunction(WorthOf(c)) \in Nat
    BY <1>12, <1>13, BookTotals
  <2>3. \A t \in DOMAIN WorthOf(c) : WorthOf(c)[t] = WorthOf(b)[t]
    BY <1>11 DEF WorthOf
  <2>4. SumFunction(WorthOf(c)) = SumFunction(WorthOf(b)) - WorthOf(b)[s]
    BY <1>1, <1>11, <2>1, <2>2, <2>3, SumLoses
  <2> QED
    BY <1>8, <2>1, <2>2, <2>4 DEF worth
<1>15. SumFunction(Spent(c)) = spent - (cost + entryFee) /\ SumFunction(Spent(c)) \in Nat
  <2>1. OnlyAt(s, b, c)
    BY <1>11 DEF OnlyAt
  <2>2. CostOf(c, s) = 0
    BY <1>11 DEF CostOf, hasPosition
  <2>3. SumFunction(Spent(c)) = SumFunction(Spent(b)) - CostOf(b, s) + CostOf(c, s)
    BY <1>12, <2>1, PositionSums
  <2>4. SumFunction(Spent(c)) \in Nat
    BY <1>12, <1>13, BookTotals
  <2> QED
    BY <1>1, <1>2, <1>8, <2>2, <2>3, <2>4 DEF spent
<1>16. c.cash + SumFunction(WorthOf(c)) <= MaxUnits /\ SumFunction(Spent(c)) <= MaxUnits
  <2> DEFINE x == SumFunction(WorthOf(c))
             y == SumFunction(Spent(c))
  <2>1. x \in Nat /\ x <= worth /\ y = spent - (cost + entryFee) /\ c.cash = b.cash + proceeds - f
    BY <1>9, <1>14, <1>15
  <2> HIDE DEF x, y
  <2>2. b.cash + proceeds - f + x <= MaxUnits /\ y <= MaxUnits
    BY <1>2, <1>3, <1>7, <1>8, <1>26, <2>1
  <2> QED
    BY <2>1, <2>2 DEF x, y
<1>17. HasValue(Valued(c))
  BY <1>12, <1>13, <1>16, CanBeValued
<1>18. cost + entryFee <= spent
  BY <1>2, <1>8, <1>15
<1>19. /\ proceeds - f \in Amount /\ (proceeds - cost - f) - entryFee \in Amount
       /\ f + entryFee \in Amount /\ b.cash + (proceeds - f) \in Amount /\ b.fees + f \in Amount
  BY <1>2, <1>3, <1>7, <1>8, <1>18 DEF Amount
<1>20. /\ subtract(proceeds, f) = Some(proceeds - f)
       /\ HasValue(subtract(proceeds - cost - f, entryFee)) /\ HasValue(add(f, entryFee))
       /\ HasValue(add(b.cash, proceeds - f)) /\ HasValue(add(b.fees, f))
  <2>1. \A v \in Amount : Representable(v) = Some(v) /\ HasValue(Representable(v))
    BY InRange, RepresentableValue DEF Representable, Amount
  <2> QED
    BY <1>19, <2>1 DEF subtract, add
<1>21. IsNotNegative(subtract(proceeds, f))
  BY <1>7, <1>20 DEF IsNotNegative, Some
<1>22. /\ proportional(cost, q, q) = Some(cost) /\ proportional(entryFee, q, q) = Some(entryFee)
  BY <1>2, WholeShare
<1> DEFINE dp == toDouble(p)
           df == toDouble(f)
<1>23. price(dp) = Some(p) /\ money(df) = Some(f) /\ df >= 0
  BY <1>3, <1>7, RoundedExact
<1> HIDE DEF dp, df
<1>24. /\ ValueOf(price(dp)) = p /\ ValueOf(money(df)) = f /\ ValueOf(Some(q)) = q
       /\ ValueOf(Some(cost)) = cost /\ ValueOf(Some(entryFee)) = entryFee
       /\ HasValue(Some(cost)) /\ HasValue(Some(entryFee)) /\ IsPositive(Some(q))
       /\ IsPositive(price(dp)) /\ IsNotNegative(money(df))
  BY <1>2, <1>3, <1>7, <1>23 DEF ValueOf, Some, HasValue, None, IsPositive, IsNotNegative
<1>25. closePosition(b, s, dp, df, 0) = Valued(c)
  <2>1. ~(0 > 0) /\ 0 >= 0 /\ ~(q < q)
    BY <1>2
  <2>2. /\ held = b.positions[s] /\ held.quantity = q /\ held.cost = cost
        /\ held.entryFee = entryFee /\ ValueOf(notional(p, q)) = proceeds
    BY DEF held, q, cost, entryFee, proceeds
  <2>3. c = [b EXCEPT !.cash = @ + proceeds - f, !.fees = @ + f, !.positions = Erase(@, s),
                      !.log = Append(@, [symbol |-> s, entry |-> held.average, exit |-> p,
                         quantity |-> q, fees |-> f + entryFee,
                         realized |-> proceeds - cost - f - entryFee])]
    BY DEF c, trade
  <2> QED
    BY <1>4, <1>20, <1>21, <1>22, <1>23, <1>24, <2>1, <2>2, <2>3 DEF closePosition
<1> QED
  BY <1>17, <1>25 DEF dp, df

(***************************************************************************)
(* What the engine asks for is what it can pay.                            *)
(***************************************************************************)
Affords(b, p, e) ==
  /\ e.units \in 1 .. MaxUnits /\ e.fee \in 0 .. MaxUnits
  /\ e.debit \in Debit(p, e.units, e.fee) /\ e.debit <= b.cash

LEMMA FittingAffords ==
  ASSUME NEW b, b.cash \in Int, NEW p \in 1 .. MaxUnits,
         NEW sizes, sizes \subseteq Int, \A n \in sizes : n <= MaxUnits,
         NEW budget \in Int, budget <= b.cash, NEW e \in Fitting(p, sizes, budget)
  PROVE  Affords(b, p, e)
<1>1. PICK q \in sizes : q > 0 /\ e \in EntryOf(p, q) /\ e.debit <= budget
  BY DEF Fitting
<1>0. PICK f \in FillFee(p, q) :
        e \in {[units |-> q, fee |-> f, debit |-> d] : d \in Debit(p, q, f)}
  BY <1>1 DEF EntryOf
<1>2. PICK d \in Debit(p, q, f) : e = [units |-> q, fee |-> f, debit |-> d]
  BY <1>0
<1>3. PICK c \in notional(p, q) : f \in fee(c, FeeRate)
  BY <1>0 DEF FillFee
<1>4. q \in 1 .. MaxUnits /\ q \in Int /\ q >= 0 /\ p \in Int /\ p >= 0
  BY <1>1, ArithmeticAssumption
<1>5. c \in 0 .. MaxUnits /\ c \in Int /\ c >= 0
  BY <1>3, <1>4, NotionalRange, ArithmeticAssumption
<1>6. f \in 0 .. MaxUnits /\ f \in Int
  BY <1>3, <1>5, SessionAssumption, FeeRange, ArithmeticAssumption
<1>7. d \in Int
  BY <1>2, <1>4, <1>6, DebitIsInteger
<1> QED
  BY <1>1, <1>2, <1>4, <1>6, <1>7 DEF Affords

LEMMA AffordableSizes ==
  ASSUME NEW p \in Int, NEW budget \in Int
  PROVE  Affordable(p, budget) \subseteq Int /\ \A n \in Affordable(p, budget) : n <= MaxUnits
<1>1. \A x \in 0 .. MaxUnits : x \in Int /\ x <= MaxUnits
  BY ArithmeticAssumption
<1>2. \A n \in notionalBeforeFee(budget, FeeRate) : n \in Int
  BY <1>1, SessionRates, AffordableRange DEF Optional
<1>3. \A n \in notionalBeforeFee(budget, FeeRate) : \A q \in quantityForNotional(n, p) :
        q \in Int /\ q <= MaxUnits
  BY <1>1, <1>2, AffordableRange DEF Optional
<1> QED
  BY <1>3 DEF Affordable

LEMMA SizedAffords ==
  ASSUME NEW b, b.cash \in Int, NEW p \in 1 .. MaxUnits,
         NEW wanted, wanted \subseteq Int, \A n \in wanted : n <= MaxUnits,
         NEW budget \in Int, budget <= b.cash, NEW e \in Sized(p, wanted, budget)
  PROVE  Affords(b, p, e)
<1>1. e \in Fitting(p, wanted, budget) \/ e \in Fitting(p, Affordable(p, budget), budget)
  BY DEF Sized
<1>2. p \in Int
  BY ArithmeticAssumption
<1>3. Affordable(p, budget) \subseteq Int /\ \A n \in Affordable(p, budget) : n <= MaxUnits
  BY <1>2, AffordableSizes
<1> QED
  BY <1>1, <1>3, FittingAffords

LEMMA SliceWithin ==
  ASSUME NEW b, Sane(b)
  PROVE  Slice(b) <= b.cash
<1>1. b.cash \in Nat /\ IsFiniteSet(DOMAIN b.positions)
  BY BookSums, ArithmeticAssumption DEF Sane, BookType
<1>2. OpenPositions(b) \in Nat
  BY <1>1, FS_CardinalityType DEF OpenPositions
<1> DEFINE n == IF MaxPositions > OpenPositions(b) THEN MaxPositions - OpenPositions(b) ELSE 1
<1>3. n \in Nat \ {0}
  BY <1>2, SessionRates
<1>4. Slice(b) = IF MaxPositions = 0 THEN b.cash ELSE b.cash \div n
  BY DEF Slice
<1> HIDE DEF n
<1>5. b.cash <= n * b.cash
  <2>1. b.cash * 1 <= b.cash * n
    BY <1>1, <1>3, Monotone
  <2> QED
    BY <1>1, <1>3, <2>1
<1>6. b.cash \div n \in 0 .. b.cash
  BY <1>1, <1>3, <1>5, DivisionBound
<1> QED
  BY <1>1, <1>4, <1>6

LEMMA SizedEntryAffords ==
  ASSUME NEW b, Sane(b), NEW p \in 1 .. MaxUnits, NEW atr \in AtrSizes, NEW e \in SizedEntry(b, p, atr)
  PROVE  Affords(b, p, e)
<1>1. atr \subseteq Int /\ \A n \in atr : n <= MaxUnits
  BY SessionAssumption, ArithmeticAssumption DEF AtrSizes
<1>2. p \in Int
  BY ArithmeticAssumption
<1>3. /\ b.cash \in Int /\ Slice(b) \in Int /\ Slice(b) <= b.cash /\ b.cash <= b.cash
      /\ Affordable(p, Slice(b)) \subseteq Int /\ \A n \in Affordable(p, Slice(b)) : n <= MaxUnits
  BY <1>2, SliceIsInteger, SliceWithin, AffordableSizes
<1>4. e \in Sized(p, atr, b.cash) \/ e \in Sized(p, Affordable(p, Slice(b)), Slice(b))
  BY DEF SizedEntry
<1> QED
  BY <1>1, <1>3, <1>4, SizedAffords

(***************************************************************************)
(* The engine's bookings.                                                  *)
(***************************************************************************)
LEMMA BookEntryAccepted ==
  ASSUME NEW b, Sane(b), Room(b), NEW s \in Symbols, ~hasPosition(b, s),
         NEW p \in 1 .. MaxUnits, RoomAt(b, p), NEW e, Affords(b, p, e)
  PROVE  BookEntry(b, s, p, e).thrown # "accounting"
<1> DEFINE result == openLong(b, s, toDouble(p), toDouble(e.fee), toDouble(e.debit),
                              toDouble(e.units))
           dust == notional(p, e.units) = Some(0)
<1>1. BookEntry(b, s, p, e) = Booked(b, result, IF dust THEN "dust" ELSE "accounting")
  BY DEF BookEntry
<1>2. BookType(b) /\ p + Scale <= MaxUnits
  BY DEF Sane, RoomAt
<1>3. /\ e.units \in 1 .. MaxUnits /\ e.fee \in 0 .. MaxUnits
      /\ e.debit \in Debit(p, e.units, e.fee) /\ e.debit <= b.cash
  BY DEF Affords
<1>4. ~dust => HasValue(result)
  <2> SUFFICES ASSUME ~dust PROVE HasValue(result)
    OBVIOUS
  <2>1. p \in Int /\ e.units \in Int /\ e.fee \in Int /\ p >= 0 /\ e.units >= 0
    BY <1>3, ArithmeticAssumption
  <2>2. HasValue(notional(p, e.units))
    BY <1>3 DEF Debit, HasValue, None
  <2> DEFINE c == ValueOf(notional(p, e.units))
  <2>3. /\ c \in notional(p, e.units) /\ \A x \in notional(p, e.units) : x = c
        /\ c \in 0 .. MaxUnits
    BY <2>1, <2>2, NotionalRange, TheValue
  <2>4. notional(p, e.units) = Some(c)
    BY <2>3 DEF Some
  <2> HIDE DEF c
  <2>5. c # 0
    BY <2>4 DEF dust
  <2>6. c > 0
    BY <2>3, <2>5, ArithmeticAssumption
  <2> QED
    BY <1>2, <1>3, <2>6, OpenLongAccepted DEF c
<1> HIDE DEF result, dust
<1> QED
  BY <1>1, <1>4 DEF Booked, Outcome

LEMMA BookExitAccepted ==
  ASSUME NEW b, Sane(b), Room(b), NEW s \in Symbols, hasPosition(b, s),
         NEW p \in 1 .. MaxUnits, RoomAt(b, p)
  PROVE  BookExit(b, s, p).thrown = "no"
<1> DEFINE exitFee == FillFee(p, getPositionQuantity(b, s))
           result == closePosition(b, s, toDouble(p), toDouble(ValueOf(exitFee)), 0)
<1>1. BookExit(b, s, p) = IF HasValue(exitFee) THEN Booked(b, result, "accounting") ELSE Refused(b)
  BY DEF BookExit
<1>2. HasValue(exitFee) => ValueOf(exitFee) \in exitFee
  BY ValueIn
<1>3. HasValue(exitFee) => HasValue(result)
  BY <1>2, ClosePositionAccepted DEF Sane
<1> HIDE DEF exitFee, result
<1> QED
  BY <1>1, <1>3 DEF Booked, Refused, Outcome

LEMMA SlippedPrices ==
  ASSUME NEW market \in Int, NEW buySide \in BOOLEAN
  PROVE  /\ \A p \in applySlippage(market, Slippage, buySide) : p \in 1 .. MaxUnits
         /\ \A p \in Slipped(market, buySide) : p \in 1 .. MaxUnits
<1>1. \A m \in Int : \A p \in applySlippage(m, Slippage, buySide) : p \in 1 .. MaxUnits
  BY SessionRates, SlippedRange DEF Optional
<1>2. price(market) \subseteq Int
  BY InputRange, InRange DEF Optional
<1> QED
  BY <1>1, <1>2 DEF Slipped

LEMMA LocalBuysAccepted ==
  ASSUME NEW b, Sane(b), Room(b), NEW s \in Symbols, NEW market \in Int,
         \A p \in Slipped(market, TRUE) : RoomAt(b, p), NEW outcome \in LocalBuys(b, s, market)
  PROVE  outcome.thrown # "accounting"
<1> DEFINE p == ValueOf(Slipped(market, TRUE))
           Size(atr) == SizedEntry(b, p, atr)
           Fits(atr, varHolds) == /\ ~hasPosition(b, s) /\ b.cash > 0
                                  /\ HasValue(Slipped(market, TRUE))
                                  /\ HasValue(Size(atr)) /\ CanTrade(b, varHolds)
           Bought(atr) == BookEntry(b, s, p, ValueOf(Size(atr)))
           Result(atr, varHolds) == IF Fits(atr, varHolds) THEN Bought(atr) ELSE Refused(b)
<1>1. LocalBuys(b, s, market) = {Result(atr, varHolds) : atr \in AtrSizes, varHolds \in BOOLEAN}
  BY DEF LocalBuys, AtrSizes
<1>2. \A atr, varHolds : \/ Result(atr, varHolds) = Refused(b)
                         \/ /\ ~hasPosition(b, s)
                            /\ HasValue(Slipped(market, TRUE)) /\ HasValue(Size(atr))
                            /\ Result(atr, varHolds) = Bought(atr)
  OBVIOUS
<1> HIDE DEF Result
<1>3. PICK a \in AtrSizes, holds \in BOOLEAN : outcome = Result(a, holds)
  BY <1>1
<1>4. \/ outcome = Refused(b)
      \/ /\ ~hasPosition(b, s) /\ HasValue(Slipped(market, TRUE)) /\ HasValue(SizedEntry(b, p, a))
         /\ outcome = BookEntry(b, s, p, ValueOf(SizedEntry(b, p, a)))
  BY <1>2, <1>3
<1>5. HasValue(Slipped(market, TRUE)) => p \in 1 .. MaxUnits /\ RoomAt(b, p)
  BY SlippedPrices, ValueIn
<1> HIDE DEF p
<1>6. p \in 1 .. MaxUnits /\ HasValue(SizedEntry(b, p, a)) => Affords(b, p, ValueOf(SizedEntry(b, p, a)))
  BY ValueIn, SizedEntryAffords
<1>7. Refused(b).thrown = "no"
  BY DEF Refused, Outcome
<1> QED
  BY <1>4, <1>5, <1>6, <1>7, BookEntryAccepted

LEMMA LocalSellsAccepted ==
  ASSUME NEW b, Sane(b), Room(b), NEW s \in Symbols, NEW market \in Int,
         \A p \in Slipped(market, FALSE) : RoomAt(b, p), NEW outcome \in LocalSells(b, s, market)
  PROVE  outcome.thrown # "accounting"
<1> DEFINE p == ValueOf(Slipped(market, FALSE))
<1>1. \/ outcome = Refused(b)
      \/ hasPosition(b, s) /\ HasValue(Slipped(market, FALSE)) /\ outcome = BookExit(b, s, p)
  BY DEF LocalSells
<1>2. HasValue(Slipped(market, FALSE)) => p \in 1 .. MaxUnits /\ RoomAt(b, p)
  BY SlippedPrices, ValueIn
<1>3. Refused(b).thrown = "no"
  BY DEF Refused, Outcome
<1> HIDE DEF p
<1> QED
  BY <1>1, <1>2, <1>3, BookExitAccepted

(* onBrokerExecution catches what PortfolioManager throws.                 *)
LEMMA BrokerThrowsNothing ==
  ASSUME NEW b, NEW s, NEW market,
         NEW outcome \in BrokerBuys(b, s, market) \cup BrokerSells(b, s, market)
  PROVE  outcome.thrown = "no"
<1>1. Refused(b).thrown = "no" /\ Outcome(b, TRUE, working, "no").thrown = "no"
  BY DEF Refused, Outcome
<1>2. ASSUME NEW buy, NEW p, NEW units, NEW o \in PaperFills(b, s, buy, p, units)
      PROVE  o.thrown = "no"
  BY DEF PaperFills, Outcome
<1>3. ASSUME NEW buy, NEW reference, NEW units, NEW o \in BrokerAnswers(b, s, buy, reference, units)
      PROVE  o.thrown = "no"
  BY <1>1, <1>2 DEF BrokerAnswers
<1>4. ASSUME NEW buy, NEW units, NEW o \in Dispatched(b, s, buy, market, units)
      PROVE  o.thrown = "no"
  BY <1>3 DEF Dispatched
<1>5. \/ outcome = Refused(b)
      \/ \E buy, units : outcome \in Dispatched(b, s, buy, market, units)
  <2>1. CASE outcome \in BrokerSells(b, s, market)
    BY <2>1 DEF BrokerSells
  <2>2. CASE outcome \in BrokerBuys(b, s, market)
    <3> DEFINE p == ValueOf(Slipped(market, TRUE))
               Sent(atr) == UNION {Dispatched(b, s, TRUE, market, e.units) : e \in SizedEntry(b, p, atr)}
               Sizes == IF /\ ~hasPosition(b, s) /\ b.cash > 0
                           /\ HasValue(Slipped(market, TRUE)) /\ CanTrade(b, TRUE)
                        THEN AtrSizes ELSE {}
    <3>1. BrokerBuys(b, s, market) = {Refused(b)} \cup UNION {Sent(atr) : atr \in Sizes}
      BY DEF BrokerBuys, AtrSizes
    <3>2. \A atr : \A o \in Sent(atr) : \E e \in SizedEntry(b, p, atr) :
            o \in Dispatched(b, s, TRUE, market, e.units)
      OBVIOUS
    <3> HIDE DEF Sent, Sizes
    <3> QED
      BY <2>2, <3>1, <3>2
  <2> QED
    BY <2>1, <2>2
<1> QED
  BY <1>1, <1>4, <1>5

LEMMA ExecuteAccepted ==
  ASSUME NEW b, Sane(b), Room(b), NEW s \in Symbols, NEW signal, NEW market \in Int,
         \A p \in Slipped(market, FALSE) : RoomAt(b, p),
         signal = "BUY" => \A p \in Slipped(market, TRUE) : RoomAt(b, p),
         NEW outcome \in execute(b, s, signal, market)
  PROVE  outcome.thrown # "accounting"
<1>1. Refused(b).thrown = "no"
  BY DEF Refused, Outcome
<1>2. \/ outcome = Refused(b)
      \/ signal = "BUY" /\ outcome \in LocalBuys(b, s, market)
      \/ outcome \in LocalSells(b, s, market)
      \/ outcome \in BrokerBuys(b, s, market) \cup BrokerSells(b, s, market)
  BY DEF execute
<1>3. outcome \in BrokerBuys(b, s, market) \cup BrokerSells(b, s, market) => outcome.thrown = "no"
  BY BrokerThrowsNothing
<1> QED
  BY <1>1, <1>2, <1>3, LocalBuysAccepted, LocalSellsAccepted

LEMMA PendingAccepted ==
  ASSUME NEW b, Sane(b), Room(b), NEW s \in Symbols, NEW fill, FillType(fill),
         \A side \in BOOLEAN : \A p \in applySlippage(fill.price, Slippage, side) : RoomAt(b, p),
         NEW outcome \in IF fill.order.buy THEN PendingBuys(b, s, fill) ELSE PendingSells(b, s, fill)
  PROVE  outcome.thrown # "accounting"
<1>0. /\ fill.price \in Int /\ fill.order.quantity \in Int /\ fill.order.capital \in Int
      /\ fill.order.quantity <= MaxUnits /\ b.cash \in Int
  BY SliceIsInteger DEF FillType
<1>1. Refused(b).thrown = "no"
  BY DEF Refused, Outcome
<1>2. CASE fill.order.buy
  <2> DEFINE p == ValueOf(applySlippage(fill.price, Slippage, TRUE))
             budget == IF fill.order.capital > 0 THEN Min({fill.order.capital, b.cash}) ELSE b.cash
             wanted == IF fill.order.quantity > 0 THEN Some(fill.order.quantity)
                       ELSE Affordable(p, budget)
  <2>1. \/ outcome = Refused(b)
        \/ /\ ~hasPosition(b, s) /\ HasValue(applySlippage(fill.price, Slippage, TRUE))
           /\ HasValue(Sized(p, wanted, budget))
           /\ outcome = BookEntry(b, s, p, ValueOf(Sized(p, wanted, budget)))
    BY <1>2 DEF PendingBuys
  <2>3. HasValue(applySlippage(fill.price, Slippage, TRUE)) => p \in 1 .. MaxUnits /\ RoomAt(b, p)
    BY <1>0, SlippedPrices, ValueIn
  <2>4. budget \in Int /\ budget <= b.cash
    BY <1>0, MinOfTwo
  <2> HIDE DEF p, budget
  <2>5. p \in 1 .. MaxUnits => wanted \subseteq Int /\ \A n \in wanted : n <= MaxUnits
    BY <1>0, <2>4, AffordableSizes, ArithmeticAssumption DEF Some
  <2> HIDE DEF wanted
  <2>6. p \in 1 .. MaxUnits /\ HasValue(Sized(p, wanted, budget)) =>
          Affords(b, p, ValueOf(Sized(p, wanted, budget)))
    BY <1>0, <2>4, <2>5, ValueIn, SizedAffords
  <2> QED
    BY <1>1, <2>1, <2>3, <2>6, BookEntryAccepted
<1>3. CASE ~fill.order.buy
  <2> DEFINE p == applySlippage(fill.price, Slippage, FALSE)
  <2>1. outcome = Refused(b) \/ (hasPosition(b, s) /\ HasValue(p) /\ outcome = BookExit(b, s, ValueOf(p)))
    BY <1>3 DEF PendingSells
  <2>3. HasValue(p) => ValueOf(p) \in 1 .. MaxUnits /\ RoomAt(b, ValueOf(p))
    BY <1>0, SlippedPrices, ValueIn
  <2> HIDE DEF p
  <2> QED
    BY <1>1, <2>1, <2>3, BookExitAccepted
<1> QED
  BY <1>2, <1>3

(***************************************************************************)
(* Room for the next step of a session: the prices it may trade at are     *)
(* those of the order it books next, of the candle, or of the trigger.     *)
(***************************************************************************)
PricesInHand ==
  IF stage = "triggers" THEN Slipped(Head(events).price, FALSE)
  ELSE IF stage # "pending" THEN {}
  ELSE IF fills # <<>>
  THEN UNION {applySlippage(Head(fills).price, Slippage, side) : side \in BOOLEAN}
  ELSE UNION {Slipped(Candle(current).close, side) : side \in BOOLEAN}

Headroom == Room(book) /\ \A p \in PricesInHand : RoomAt(book, p)

LEMMA AcceptedStep ==
  ASSUME CandleTypes, EventInv, BooksInv, Headroom, SizedTradesAreAccepted, [Next]_vars
  PROVE  SizedTradesAreAccepted'
<1>0. /\ Sane(book) /\ Room(book) /\ current \in Symbols /\ thrown # "accounting"
      /\ \A p \in PricesInHand : RoomAt(book, p)
  BY DEF BooksInv, BookGood, CandleTypes, Headroom, SizedTradesAreAccepted
<1>1. ASSUME NEW outcome, outcome.thrown # "accounting", NEW goOn, Books(outcome, goOn)
      PROVE  thrown' # "accounting"
  BY <1>0, <1>1 DEF Books, Dying
<1>2. ASSUME ProcessPendingOrder PROVE thrown' # "accounting"
  <2>1. /\ stage = "pending" /\ fills # <<>>
        /\ \E outcome \in IF Head(fills).order.buy THEN PendingBuys(book, current, Head(fills))
                          ELSE PendingSells(book, current, Head(fills)) :
             Books(outcome, "pending")
    BY <1>2 DEF ProcessPendingOrder
  <2>2. PICK outcome \in IF Head(fills).order.buy THEN PendingBuys(book, current, Head(fills))
                         ELSE PendingSells(book, current, Head(fills)) :
          Books(outcome, "pending")
    BY <2>1
  <2>3. FillType(Head(fills))
    <3>1. IsList(fills) /\ \A n \in 1 .. Len(fills) : FillType(fills[n])
      BY DEF BooksInv, QueuesGood
    <3> QED
      BY <2>1, <3>1, TailOf
  <2>4. \A side \in BOOLEAN : \A p \in applySlippage(Head(fills).price, Slippage, side) :
          RoomAt(book, p)
    BY <1>0, <2>1 DEF PricesInHand
  <2>5. outcome.thrown # "accounting"
    BY <1>0, <2>2, <2>3, <2>4, PendingAccepted
  <2> QED
    BY <1>1, <2>2, <2>5
<1>3. ASSUME NEW signal, DispatchSignal(signal) PROVE thrown' # "accounting"
  <2>1. /\ stage = "pending" /\ fills = <<>>
        /\ \E outcome \in execute(book, current, signal, Candle(current).close) :
             Books(outcome, "mark")
    BY <1>3 DEF DispatchSignal
  <2>2. PICK outcome \in execute(book, current, signal, Candle(current).close) :
          Books(outcome, "mark")
    BY <2>1
  <2>3. Candle(current).close \in Int
    <3>1. current \in Live
      BY <2>1 DEF CandleTypes, InHand
    <3> QED
      BY <3>1, TapeCandle DEF CandleType
  <2>4. \A side \in BOOLEAN : \A p \in Slipped(Candle(current).close, side) : RoomAt(book, p)
    BY <1>0, <2>1 DEF PricesInHand
  <2>5. outcome.thrown # "accounting"
    BY <1>0, <2>2, <2>3, <2>4, ExecuteAccepted
  <2> QED
    BY <1>1, <2>2, <2>5
<1>4. ASSUME ExecuteTrigger PROVE thrown' # "accounting"
  <2>1. /\ stage = "triggers"
        /\ \E outcome \in execute(book, current, "SELL", Head(events).price) :
             Books(outcome, AfterTriggers)
    BY <1>4 DEF ExecuteTrigger
  <2>2. PICK outcome \in execute(book, current, "SELL", Head(events).price) :
          Books(outcome, AfterTriggers)
    BY <2>1
  <2>3. Head(events).price \in Int
    <3>1. events # <<>> /\ IsList(events)
      BY <2>1 DEF EventInv
    <3> QED
      BY <3>1, TailOf DEF BooksInv, QueuesGood
  <2>4. \A p \in Slipped(Head(events).price, FALSE) : RoomAt(book, p)
    BY <1>0, <2>1 DEF PricesInHand
  <2>5. outcome.thrown # "accounting"
    BY <1>0, <2>2, <2>3, <2>4, ExecuteAccepted
  <2> QED
    BY <1>1, <2>2, <2>5
<1>5. CASE Crash \/ PowerLoss \/ Finish
  BY <1>5 DEF Crash, PowerLoss, Finish, Gone, SizedTradesAreAccepted
<1>6. CASE MarkToMarket \/ WriteTemporary \/ RenameTemporary
  BY <1>0, <1>6 DEF MarkToMarket, WriteTemporary, RenameTemporary, Dying, SizedTradesAreAccepted
<1>7. ASSUME NEW s, NEW quote, NEW request, NEW id, NEW mode, NEW resume, NEW unlocked,
             \/ PassOver(s) \/ TakeCandle(s) \/ Start(mode, resume, unlocked)
             \/ PlacePendingOrder(request) \/ CancelPendingOrder(id) \/ PlaceTrigger(request)
             \/ EvaluateTriggers(s, quote) \/ LateFill \/ UNCHANGED vars
      PROVE  thrown' # "accounting"
  BY <1>0, <1>7
     DEF PassOver, TakeCandle, Start, PlacePendingOrder, CancelPendingOrder, PlaceTrigger,
         EvaluateTriggers, LateFill, vars
<1> QED
  BY <1>2, <1>3, <1>4, <1>5, <1>6, <1>7 DEF Next, SizedTradesAreAccepted

(* The orders that wait to be booked.                                      *)
LEMMA QueuesGoodStep ==
  ASSUME CandleTypes, TableInv(triggers), EventInv, BooksInv, [Next]_vars
  PROVE  QueuesGood'
<1>0. QueuesGood /\ Sane(book)
  BY DEF BooksInv, BookGood
<1>1. CASE UNCHANGED <<fills, events>>
  BY <1>0, <1>1 DEF QueuesGood
<1>2. CASE Crash \/ PowerLoss \/ Finish
  BY <1>2, EmptyList DEF Crash, PowerLoss, Finish, Gone, QueuesGood
<1>3. ASSUME NEW s \in Symbols, TakeCandle(s) PROVE QueuesGood'
  <2>1. /\ s \in Live /\ fills' = evaluatePendingOrders(book, s, Candle(s)).fills
        /\ events' = events
    BY <1>3 DEF TakeCandle, Earliest
  <2>2. IsList(fills') /\ \A n \in 1 .. Len(fills') : FillType(fills'[n])
    BY <1>0, <2>1, TapeCandle, EvaluatePendingSane
  <2> QED
    BY <1>0, <2>1, <2>2 DEF QueuesGood
<1>4. CASE ProcessPendingOrder
  <2>1. fills # <<>> /\ fills' = Tail(fills) /\ events' = events
    BY <1>4 DEF ProcessPendingOrder
  <2>2. /\ IsList(fills')
        /\ \A n \in 1 .. Len(fills') : n + 1 \in 1 .. Len(fills) /\ fills'[n] = fills[n + 1]
    BY <1>0, <2>1, TailOf DEF QueuesGood
  <2> QED
    BY <1>0, <2>1, <2>2 DEF QueuesGood
<1>5. ASSUME NEW s, NEW quote \in Quotes, EvaluateTriggers(s, quote) PROVE QueuesGood'
  <2>1. events' = evaluate(triggers, s, quote) /\ fills' = fills
    BY <1>5 DEF EvaluateTriggers
  <2>2. \A n \in 1 .. Len(events') : events'[n].price \in {quote.ask, quote.bid}
    BY <2>1, EvaluateFinds
  <2>3. quote.ask \in Int /\ quote.bid \in Int
    BY SessionAssumption
  <2>4. \A n \in 1 .. Len(events') : events'[n].price \in Int
    BY <2>2, <2>3
  <2> QED
    BY <1>0, <2>1, <2>4 DEF QueuesGood
<1>6. CASE ExecuteTrigger
  <2>1. events # <<>> /\ IsList(events) /\ events' = Tail(events) /\ fills' = fills
    BY <1>6 DEF ExecuteTrigger, EventInv
  <2>2. \A n \in 1 .. Len(events') : n + 1 \in 1 .. Len(events) /\ events'[n] = events[n + 1]
    BY <2>1, TailOf
  <2> QED
    BY <1>0, <2>1, <2>2 DEF QueuesGood
<1>7. ASSUME NEW s, NEW request, NEW id, NEW signal, NEW mode, NEW resume, NEW unlocked,
             \/ PassOver(s) \/ DispatchSignal(signal) \/ MarkToMarket \/ WriteTemporary
             \/ RenameTemporary \/ Start(mode, resume, unlocked) \/ PlacePendingOrder(request)
             \/ CancelPendingOrder(id) \/ PlaceTrigger(request) \/ LateFill \/ UNCHANGED vars
      PROVE  QueuesGood'
  BY <1>1, <1>7 DEF PassOver, DispatchSignal, MarkToMarket, WriteTemporary, RenameTemporary,
                    Start, PlacePendingOrder, CancelPendingOrder, PlaceTrigger, LateFill, vars,
                    queues
<1> QED
  BY <1>2, <1>3, <1>4, <1>5, <1>6, <1>7 DEF Next

(* The checkpoint file, and what it is compared with.                      *)
LEMMA FileGoodStep ==
  ASSUME CandleTypes, BooksInv, [Next]_vars
  PROVE  FileGood'
<1>0. FileGood /\ Sane(book) /\ current \in Symbols
  BY DEF BooksInv, BookGood, CandleTypes
<1>1. CASE UNCHANGED <<drawdown, lastSaved, snapshot>>
  BY <1>0, <1>1 DEF FileGood, SnapshotGood
<1>2. CASE Crash \/ PowerLoss \/ Finish
  <2>1. /\ drawdown' = 0 /\ lastSaved' = [s \in Symbols |-> 0]
        /\ snapshot' = snapshot \/ snapshot' = Torn
    BY <1>2 DEF Crash, PowerLoss, Finish, Gone
  <2>2. drawdown' \in 0 .. BasisPoints /\ lastSaved' \in [Symbols -> Nat]
    BY <2>1 DEF BasisPoints
  <2>3. SnapshotGood'
    BY <1>0, <2>1 DEF FileGood, SnapshotGood, Torn
  <2> QED
    BY <2>2, <2>3 DEF FileGood
<1>3. CASE MarkToMarket
  <2> DEFINE marked == updatePnL(book, current, Candle(current).close)
  <2>1. stage = "mark" /\ snapshot' = snapshot
    BY <1>3 DEF MarkToMarket
  <2>2. current \in Live
    BY <2>1 DEF CandleTypes, InHand
  <2>3. Candle(current).close \in Int /\ Candle(current).ts \in Nat
    BY <2>2, TapeCandle DEF CandleType
  <2>4. HasValue(marked) => ValueOf(marked).drawdown \in 0 .. BasisPoints
    <3>1. HasValue(marked) => Sane(ValueOf(marked))
      BY <1>0, <2>3, ValueIn, UpdatePnLSane
    <3> QED
      BY <3>1 DEF Sane, BookType
  <2>5. \/ UNCHANGED <<drawdown, lastSaved>>
        \/ /\ HasValue(marked) /\ drawdown' = ValueOf(marked).drawdown
           /\ \/ lastSaved' = lastSaved
              \/ \E ts \in {Candle(current).ts, lastSaved[current]} :
                   lastSaved' = [lastSaved EXCEPT ![current] = ts]
    BY <1>3 DEF MarkToMarket
  <2> HIDE DEF marked
  <2>6. drawdown' \in 0 .. BasisPoints
    BY <1>0, <2>4, <2>5 DEF FileGood
  <2>7. lastSaved' \in [Symbols -> Nat]
    BY <1>0, <2>3, <2>5 DEF FileGood
  <2>8. SnapshotGood'
    BY <1>0, <2>1 DEF FileGood, SnapshotGood
  <2> QED
    BY <2>6, <2>7, <2>8 DEF FileGood
<1>4. CASE RenameTemporary
  <2>1. /\ stage = "renaming" /\ drawdown' = drawdown
        /\ \/ UNCHANGED <<lastSaved, snapshot>>
           \/ /\ snapshot' = Content
              /\ lastSaved' = [lastSaved EXCEPT ![current] = Candle(current).ts]
    BY <1>4 DEF RenameTemporary
  <2>2. current \in Live
    BY <2>1 DEF CandleTypes, InHand
  <2>3. Candle(current).ts \in Nat
    BY <2>2, TapeCandle
  <2>4. /\ Content.kind = "whole" /\ Content.drawdown = drawdown
        /\ Content.book = snapshotState(book)
    BY DEF Content
  <2>5. drawdown' \in 0 .. BasisPoints /\ lastSaved' \in [Symbols -> Nat]
    BY <1>0, <2>1, <2>3 DEF FileGood
  <2>6. SnapshotGood'
    BY <1>0, <2>1, <2>4 DEF FileGood, SnapshotGood
  <2> QED
    BY <2>5, <2>6 DEF FileGood
<1>5. ASSUME NEW mode, NEW resume, NEW unlocked, Start(mode, resume, unlocked) PROVE FileGood'
  <2>1. /\ UNCHANGED <<lastSaved, snapshot>>
        /\ drawdown' = 0 \/ (Loadable(snapshot) /\ drawdown' = snapshot.drawdown)
    BY <1>5 DEF Start
  <2>2. Loadable(snapshot) => snapshot.drawdown \in 0 .. BasisPoints
    BY <1>0 DEF FileGood, SnapshotGood, Loadable
  <2>3. 0 \in 0 .. BasisPoints
    BY DEF BasisPoints
  <2>4. drawdown' \in 0 .. BasisPoints
    BY <2>1, <2>2, <2>3
  <2>5. SnapshotGood'
    BY <1>0, <2>1 DEF FileGood, SnapshotGood
  <2> QED
    BY <1>0, <2>1, <2>4, <2>5 DEF FileGood
<1>6. ASSUME NEW s, NEW request, NEW id, NEW signal, NEW quote,
             \/ PassOver(s) \/ TakeCandle(s) \/ ProcessPendingOrder \/ DispatchSignal(signal)
             \/ WriteTemporary \/ PlacePendingOrder(request) \/ CancelPendingOrder(id)
             \/ PlaceTrigger(request) \/ EvaluateTriggers(s, quote) \/ ExecuteTrigger
             \/ LateFill \/ UNCHANGED vars
      PROVE  FileGood'
  BY <1>1, <1>6 DEF PassOver, TakeCandle, ProcessPendingOrder, DispatchSignal, WriteTemporary,
                    PlacePendingOrder, CancelPendingOrder, PlaceTrigger, EvaluateTriggers,
                    ExecuteTrigger, LateFill, vars, engine
<1> QED
  BY <1>2, <1>3, <1>4, <1>5, <1>6 DEF Next

LEMMA BooksStep ==
  ASSUME CandleInv, TriggerInv, BooksInv, [Next]_vars
  PROVE  BooksInv'
<1>1. CandleTypes /\ TableInv(triggers) /\ EventInv
  BY DEF CandleInv, TriggerInv
<1> QED
  BY <1>1, BookGoodStep, QueuesGoodStep, FileGoodStep DEF BooksInv

-----------------------------------------------------------------------------
(***************************************************************************)
(* What a BACKTEST saves.  It sells positions whole, so no average price   *)
(* is of a rest that rounding left, and nothing of it waits at a broker.   *)
(***************************************************************************)
SolidBook == session.mode = "backtest" => Solid(book) /\ working = None

SolidFile ==
  snapshot.kind = "whole" => \E b : Sane(b) /\ Solid(b) /\ snapshot.book = snapshotState(b)

SolidInv == SolidBook /\ SolidFile /\ (stage = "down" => session.mode = "backtest")

(* A solid book passes validate.                                           *)
LEMMA SavedIsValid ==
  ASSUME NEW b, Sane(b), Solid(b), NEW content, content.book = snapshotState(b)
  PROVE  validate(content)
<1> DEFINE snap == content.book
<1>1. BookType(b) /\ Ready(b)
  BY DEF Sane, Solid
<1>2. snap.log = b.log /\ snap.pending = b.pending /\ snap.nextOrderId = b.nextOrderId
  BY <1>1, SavedFields
<1>3. DOMAIN b.log = 1 .. Len(b.log) /\ DOMAIN b.pending = 1 .. Len(b.pending)
  BY <1>1, ListDomain DEF BookType
<1>4. HasValue(restoreState(snap))
  BY SolidIsRestored
<1> HIDE DEF snap
<1>5. /\ \A i \in DOMAIN snap.pending : snap.pending[i].id \in 1 .. snap.nextOrderId - 1
      /\ \A i, j \in DOMAIN snap.pending : snap.pending[i].id = snap.pending[j].id => i = j
  BY <1>1, <1>2, <1>3 DEF Ready, PendingIds
<1>6. \A i \in DOMAIN snap.log : /\ snap.log[i].entry > 0 /\ snap.log[i].exit > 0
                                 /\ snap.log[i].quantity > 0 /\ snap.log[i].fees >= 0
  BY <1>1, <1>2, <1>3 DEF Ready, RestorableTrade
<1> QED
  BY <1>4, <1>5, <1>6 DEF validate, snap

LEMMA SolidInit == Init => SolidInv
BY EmptyBookSane DEF Init, SolidInv, SolidBook, SolidFile, NoFile

LEMMA SolidBookStep ==
  ASSUME CandleTypes, EventInv, BooksInv, SolidInv, [Next]_vars
  PROVE  SolidBook'
<1>0. /\ Sane(book) /\ WorkType(working) /\ current \in Symbols
      /\ session.mode = "backtest" => Solid(book) /\ working = None
  BY DEF BooksInv, BookGood, CandleTypes, SolidInv, SolidBook
<1>1. ASSUME UNCHANGED <<session, working>>, Solid(book) => Solid(book') PROVE SolidBook'
  BY <1>0, <1>1 DEF SolidBook
<1>2. CASE Crash \/ PowerLoss \/ Finish
  <2>1. book' = EmptyBook /\ working' = None
    BY <1>2 DEF Crash, PowerLoss, Finish, Gone
  <2> QED
    BY <2>1, EmptyBookSane DEF SolidBook
<1>3. ASSUME NEW s \in Symbols, TakeCandle(s) PROVE SolidBook'
  <2>1. /\ s \in Live /\ book' = evaluatePendingOrders(book, s, Candle(s)).book
        /\ UNCHANGED <<session, working>>
    BY <1>3 DEF TakeCandle, Earliest
  <2>2. Solid(book) => Solid(book')
    BY <1>0, <2>1, TapeCandle, EvaluatePendingSane
  <2> QED
    BY <1>1, <2>1, <2>2
<1>4. ASSUME UNCHANGED session, NEW outcome, NEW goOn, Books(outcome, goOn),
             session.mode = "backtest" => Keeps(book, outcome)
      PROVE  SolidBook'
  <2>1. book' = outcome.book /\ working' = outcome.working
    BY <1>4 DEF Books
  <2> QED
    BY <1>0, <1>4, <2>1 DEF SolidBook, Keeps
<1>5. CASE ProcessPendingOrder
  <2>1. /\ UNCHANGED session
        /\ \E outcome \in PendingBuys(book, current, Head(fills))
                            \cup PendingSells(book, current, Head(fills)) :
             Books(outcome, "pending")
    BY <1>5 DEF ProcessPendingOrder
  <2>2. PICK outcome \in PendingBuys(book, current, Head(fills))
                         \cup PendingSells(book, current, Head(fills)) :
          Books(outcome, "pending")
    BY <2>1
  <2>3. FillType(Head(fills))
    <3>1. fills # <<>> /\ IsList(fills) /\ \A n \in 1 .. Len(fills) : FillType(fills[n])
      BY <1>5 DEF ProcessPendingOrder, BooksInv, QueuesGood
    <3> QED
      BY <3>1, TailOf
  <2>4. Keeps(book, outcome)
    BY <1>0, <2>3, PendingGood
  <2> QED
    BY <1>4, <2>1, <2>2, <2>4
<1>6. ASSUME NEW signal, DispatchSignal(signal) PROVE SolidBook'
  <2>1. /\ UNCHANGED session /\ stage = "pending"
        /\ \E outcome \in execute(book, current, signal, Candle(current).close) :
             Books(outcome, "mark")
    BY <1>6 DEF DispatchSignal
  <2>2. PICK outcome \in execute(book, current, signal, Candle(current).close) :
          Books(outcome, "mark")
    BY <2>1
  <2>3. current \in Live
    BY <2>1 DEF CandleTypes, InHand
  <2>4. Candle(current).close \in Int
    BY <2>3, TapeCandle DEF CandleType
  <2>5. session.mode = "backtest" => Keeps(book, outcome)
    BY <1>0, <2>4, ExecuteGood
  <2> QED
    BY <1>4, <2>1, <2>2, <2>5
<1>7. CASE MarkToMarket
  <2> DEFINE marked == updatePnL(book, current, Candle(current).close)
  <2>1. /\ stage = "mark" /\ UNCHANGED <<session, working>>
        /\ \/ HasValue(marked) /\ book' = ValueOf(marked)
           \/ UNCHANGED book
    BY <1>7 DEF MarkToMarket, Dying
  <2>2. current \in Live
    BY <2>1 DEF CandleTypes, InHand
  <2>3. Candle(current).close \in Int
    BY <2>2, TapeCandle DEF CandleType
  <2>4. HasValue(marked) => (Solid(book) => Solid(ValueOf(marked)))
    BY <1>0, <2>3, ValueIn, UpdatePnLSane
  <2> HIDE DEF marked
  <2> QED
    BY <1>1, <2>1, <2>4
<1>8. ASSUME NEW mode, NEW resume, NEW unlocked, Start(mode, resume, unlocked) PROVE SolidBook'
  <2>1. /\ stage = "down" /\ UNCHANGED working
        /\ \/ book' = EmptyBook
           \/ Loadable(snapshot) /\ book' = ValueOf(restoreState(snapshot.book))
    BY <1>8 DEF Start
  <2>2. working = None
    BY <1>0, <2>1 DEF SolidInv
  <2>3. ASSUME Loadable(snapshot) PROVE Solid(ValueOf(restoreState(snapshot.book)))
    <3>1. PICK b : Sane(b) /\ Solid(b) /\ snapshot.book = snapshotState(b)
      BY <2>3 DEF Loadable, SolidInv, SolidFile
    <3> QED
      BY <3>1, SolidIsRestored
  <2> QED
    BY <2>1, <2>2, <2>3, EmptyBookSane DEF SolidBook
<1>9. ASSUME NEW request \in OrderMenu, PlacePendingOrder(request) PROVE SolidBook'
  <2>1. book' = placePendingOrder(book, request) /\ UNCHANGED <<session, working>>
    BY <1>9 DEF PlacePendingOrder
  <2>2. /\ request.limit \in Int /\ request.offset \in Int /\ request.quantity \in Int
        /\ request.capital \in Int
    BY SessionAssumption
  <2> QED
    BY <1>0, <1>1, <2>1, <2>2, PlacePendingSane
<1>10. ASSUME NEW id, CancelPendingOrder(id) PROVE SolidBook'
  <2>1. book' = cancelPendingOrder(book, id) /\ UNCHANGED <<session, working>>
    BY <1>10 DEF CancelPendingOrder
  <2> QED
    BY <1>0, <1>1, <2>1, CancelPendingSane
<1>11. CASE ExecuteTrigger
  <2>1. /\ UNCHANGED session /\ events # <<>>
        /\ \E outcome \in execute(book, current, "SELL", Head(events).price) :
             Books(outcome, AfterTriggers)
    BY <1>11 DEF ExecuteTrigger, EventInv
  <2>2. PICK outcome \in execute(book, current, "SELL", Head(events).price) :
          Books(outcome, AfterTriggers)
    BY <2>1
  <2>3. Head(events).price \in Int
    <3>1. IsList(events) /\ \A n \in 1 .. Len(events) : events[n].price \in Int
      BY DEF EventInv, BooksInv, QueuesGood
    <3> QED
      BY <2>1, <3>1, TailOf
  <2>4. session.mode = "backtest" => Keeps(book, outcome)
    BY <1>0, <2>3, ExecuteGood
  <2> QED
    BY <1>4, <2>1, <2>2, <2>4
<1>12. CASE LateFill
  BY <1>0, <1>12 DEF LateFill, SolidBook, HasValue
<1>13. ASSUME NEW s, NEW quote, NEW request,
              \/ PassOver(s) \/ WriteTemporary \/ RenameTemporary \/ PlaceTrigger(request)
              \/ EvaluateTriggers(s, quote) \/ UNCHANGED vars
       PROVE  SolidBook'
  BY <1>1, <1>13 DEF PassOver, WriteTemporary, RenameTemporary, PlaceTrigger,
                     EvaluateTriggers, vars, engine
<1> QED
  BY <1>2, <1>3, <1>5, <1>6, <1>7, <1>8, <1>9, <1>10, <1>11, <1>12, <1>13 DEF Next

LEMMA SolidStep ==
  ASSUME CandleInv, TriggerInv, BooksInv, SolidInv, [Next]_vars
  PROVE  SolidInv'
<1>0. CandleTypes /\ EventInv /\ Sane(book) /\ SolidFile
  BY DEF CandleInv, TriggerInv, BooksInv, BookGood, SolidInv
<1>1. SolidBook'
  BY <1>0, SolidBookStep
<1>2. SolidFile'
  <2>1. CASE UNCHANGED snapshot
    BY <1>0, <2>1 DEF SolidFile
  <2>2. CASE PowerLoss
    BY <2>2 DEF PowerLoss, Torn, SolidFile
  <2>3. CASE RenameTemporary
    <3>1. stage = "renaming" /\ (UNCHANGED snapshot \/ snapshot' = Content)
      BY <2>3 DEF RenameTemporary
    <3>2. Solid(book)
      BY <1>0, <3>1 DEF CandleTypes, SolidInv, SolidBook
    <3>3. Content.book = snapshotState(book)
      BY DEF Content
    <3> QED
      BY <1>0, <2>1, <3>1, <3>2, <3>3 DEF SolidFile
  <2>4. ASSUME NEW s, NEW signal, NEW mode, NEW resume, NEW unlocked, NEW request, NEW id,
               NEW quote,
               \/ PassOver(s) \/ TakeCandle(s) \/ ProcessPendingOrder \/ DispatchSignal(signal)
               \/ MarkToMarket \/ WriteTemporary \/ Crash \/ Finish
               \/ Start(mode, resume, unlocked) \/ PlacePendingOrder(request)
               \/ CancelPendingOrder(id) \/ PlaceTrigger(request) \/ EvaluateTriggers(s, quote)
               \/ ExecuteTrigger \/ LateFill \/ UNCHANGED vars
        PROVE  UNCHANGED snapshot
    BY <2>4 DEF PassOver, TakeCandle, ProcessPendingOrder, DispatchSignal, MarkToMarket,
                WriteTemporary, Crash, Finish, Start, PlacePendingOrder, CancelPendingOrder,
                PlaceTrigger, EvaluateTriggers, ExecuteTrigger, LateFill, vars
  <2> QED
    BY <2>1, <2>2, <2>3, <2>4 DEF Next
<1>3. (stage = "down" => session.mode = "backtest")'
  <2>1. CASE stage' = stage /\ session' = session
    BY <2>1 DEF SolidInv
  <2>2. CASE Crash \/ PowerLoss \/ Finish
    BY <2>2 DEF Crash, PowerLoss, Finish, Gone
  <2>3. ASSUME NEW s, NEW signal, NEW mode, NEW resume, NEW unlocked, NEW quote,
               \/ TakeCandle(s) \/ ProcessPendingOrder \/ DispatchSignal(signal)
               \/ MarkToMarket \/ WriteTemporary \/ RenameTemporary
               \/ Start(mode, resume, unlocked) \/ EvaluateTriggers(s, quote) \/ ExecuteTrigger
        PROVE  stage' # "down"
    BY <2>3 DEF TakeCandle, ProcessPendingOrder, DispatchSignal, MarkToMarket, WriteTemporary,
                RenameTemporary, Start, EvaluateTriggers, ExecuteTrigger, AfterTriggers, Books,
                Dying
  <2>4. ASSUME NEW s, NEW request, NEW id,
               \/ PassOver(s) \/ PlacePendingOrder(request) \/ CancelPendingOrder(id)
               \/ PlaceTrigger(request) \/ LateFill \/ UNCHANGED vars
        PROVE  stage' = stage /\ session' = session
    BY <2>4 DEF PassOver, PlacePendingOrder, CancelPendingOrder, PlaceTrigger, LateFill, vars
  <2> QED
    BY <2>1, <2>2, <2>3, <2>4 DEF Next
<1> QED
  BY <1>1, <1>2, <1>3 DEF SolidInv

-----------------------------------------------------------------------------
(***************************************************************************)
(* The theorems.                                                           *)
(***************************************************************************)

(* Whatever PortfolioManager books - entries, additions, exits in part and *)
(* in full, and what a checkpoint gives back - cash and fees account for   *)
(* every trade and every open position, to the unit.                       *)
THEOREM BooksAlwaysBalance == Spec => []BooksBalance
<1>1. BooksInv => BooksBalance
  BY DEF BooksInv, BookGood, Sane, Balanced, BooksBalance, Realized, Paid, Spent, Held
<1> QED
  BY <1>1, CandleInit, CandleStep, TriggerInit, TriggerStep, BooksInit, BooksStep, PTL DEF Spec

(* No booking of PortfolioManager overdraws the cash, or leaves a position *)
(* without a quantity or a price or with an amount out of range; and the   *)
(* rest of a session keeps its types: main's loop, the trigger table, the  *)
(* checkpoints.                                                            *)
THEOREM SessionTyped == Spec => []TypeOK
<1>1. BooksInv => /\ DOMAIN book.positions \subseteq Symbols /\ book.cash \in 0 .. MaxUnits
                  /\ \A s \in DOMAIN book.positions : book.positions[s] \in PositionType
  BY DEF BooksInv, BookGood, Sane, BookType
<1>2. BooksInv => /\ drawdown \in 0 .. BasisPoints /\ lastSaved \in [Symbols -> Nat]
                  /\ snapshot.kind \in {"none", "torn", "whole"} /\ thrown \in Exceptions
  BY DEF BooksInv, BookGood, FileGood, SnapshotGood
<1>3. CandleInv => /\ tape \in Tapes /\ stage \in Stages /\ current \in Symbols
                   /\ session \in [mode : Modes, resume : BOOLEAN, ts : Nat]
                   /\ next \in [Symbols -> Nat]
  BY DEF CandleInv, CandleTypes
<1>4. CandleInv /\ BooksInv /\ TableConsistent => TypeOK
  BY <1>1, <1>2, <1>3 DEF TypeOK, Exceptions
<1> QED
  BY <1>4, CandleInit, CandleStep, TriggerInit, TriggerStep, BooksInit, BooksStep,
     TableStaysConsistent, PTL DEF Spec

(* A checkpoint that is due can be taken, for a BACKTEST's book passes     *)
(* every test of validate and restoreState, with the averages and the      *)
(* valuation computed anew; and a file that exists in full can be loaded.  *)
THEOREM CheckpointsLoad == Spec => []CheckpointIsRestorable
<1>1. CandleInv /\ BooksInv /\ SolidInv => CheckpointIsRestorable
  <2> SUFFICES ASSUME CandleInv, BooksInv, SolidInv PROVE CheckpointIsRestorable
    OBVIOUS
  <2>1. ASSUME stage = "saving" PROVE validate(Content)
    <3>1. Sane(book) /\ Solid(book)
      BY <2>1 DEF CandleInv, CandleTypes, BooksInv, BookGood, SolidInv, SolidBook
    <3>2. Content.book = snapshotState(book)
      BY DEF Content
    <3> QED
      BY <3>1, <3>2, SavedIsValid
  <2>2. ASSUME snapshot.kind = "whole" PROVE Loadable(snapshot)
    <3>1. PICK b : Sane(b) /\ Solid(b) /\ snapshot.book = snapshotState(b)
      BY <2>2 DEF SolidInv, SolidFile
    <3> QED
      BY <2>2, <3>1, SavedIsValid DEF Loadable
  <2> QED
    BY <2>1, <2>2 DEF CheckpointIsRestorable
<1> QED
  BY <1>1, CandleInit, CandleStep, TriggerInit, TriggerStep, BooksInit, BooksStep,
     SolidInit, SolidStep, PTL DEF Spec

(* As long as a session has room - what it holds, at marks and at cost,    *)
(* with what the next trade may bring in, stays within the range of an     *)
(* amount - PortfolioManager accepts every trade that ExecutionEngine has  *)
(* sized: it finds the same debit within the cash, an average price, a fee *)
(* below the proceeds, and a value for the book.                           *)
THEOREM SizedAreAccepted == Spec /\ []Headroom => []SizedTradesAreAccepted
<1>1. Init => SizedTradesAreAccepted
  BY DEF Init, SizedTradesAreAccepted
<1>2. /\ CandleInv /\ TriggerInv /\ BooksInv /\ Headroom /\ SizedTradesAreAccepted /\ [Next]_vars
      => SizedTradesAreAccepted'
  BY AcceptedStep DEF CandleInv, TriggerInv
<1> QED
  BY <1>1, <1>2, CandleInit, CandleStep, TriggerInit, TriggerStep, BooksInit, BooksStep, PTL
     DEF Spec

=============================================================================
