---------------------------- MODULE FinancialMath ----------------------------
(***************************************************************************)
(* The fixed-point arithmetic of src/src/FinancialMath.cpp: prices,        *)
(* quantities, money and fractions are 64-bit integers in units of         *)
(* 1/SCALE_FACTOR, and every operation that may leave the range, or lose   *)
(* more than its rounding allows, yields no value.                         *)
(*                                                                         *)
(* A std::optional is a set: {} without a value, {v} with the value v.     *)
(* A product of two magnitudes is kept in full (128 bits in the code), so  *)
(* the integers of TLA+ stand for it.  A double that reaches this module   *)
(* is an integer too, in steps of 1/Resolution of a unit: fine enough to   *)
(* fall between two units, and exact for every amount the module produced  *)
(* itself (the code's doubles are, below 2^53 units).                      *)
(***************************************************************************)
EXTENDS Integers

CONSTANTS
  Scale,       \* SCALE_FACTOR, 10^8 in the code
  MaxUnits,    \* the largest std::int64_t
  Resolution   \* steps of a double between two units

ASSUME ArithmeticAssumption ==
  /\ Scale \in Nat \ {0} /\ MaxUnits \in Nat \ {0} /\ Resolution \in Nat \ {0}

None == {}

Some(v) == {v}

HasValue(optional) == optional # None

ValueOf(optional) == CHOOSE v \in optional : TRUE

(* "optional" holds a value that is greater than 0.                        *)
IsPositive(optional) == \E v \in optional : v > 0

IsNotNegative(optional) == \E v \in optional : v >= 0

(* The value "operation" computes, where it stays in the integer's range.  *)
Representable(v) == IF -MaxUnits - 1 <= v /\ v <= MaxUnits THEN Some(v) ELSE None

magnitude(v) == IF v >= 0 THEN v ELSE -v

Roundings == {"TowardZero", "RejectUnaligned", "NearestTiesAwayFromZero"}

(* divideWide refuses a quotient of more than 64 bits, which is twice what *)
(* the signed result can hold; the rest is decided on the rounded one.     *)
signedQuotient(numerator, denominator, negative, rounding) ==
  LET quotient  == numerator \div denominator
      remainder == numerator % denominator
      up == /\ rounding = "NearestTiesAwayFromZero"
            /\ remainder >= (denominator \div 2) + (denominator % 2)
      rounded == IF up THEN quotient + 1 ELSE quotient IN
  IF rounding = "RejectUnaligned" /\ remainder # 0
  THEN None
  ELSE Representable(IF negative THEN -rounded ELSE rounded)

(* A double becomes units.  std::round and std::trunc are the two          *)
(* roundings; the tolerance of RejectUnaligned only forgives the error of  *)
(* the double itself.                                                      *)
normalize(value, rounding) ==
  signedQuotient(magnitude(value), Resolution, value < 0, rounding)

toDouble(units) == units * Resolution

add(lhs, rhs)      == Representable(lhs + rhs)
subtract(lhs, rhs) == Representable(lhs - rhs)

scaledProduct(lhs, rhs, rounding) ==
  signedQuotient(magnitude(lhs) * magnitude(rhs), Scale, (lhs < 0) # (rhs < 0),
                 rounding)

scaledRatio(numerator, denominator, rounding) ==
  IF denominator = 0
  THEN None
  ELSE signedQuotient(magnitude(numerator) * Scale, magnitude(denominator),
                      (numerator < 0) # (denominator < 0), rounding)

proportionalUnits(total, part, whole, rounding) ==
  IF whole = 0
  THEN None
  ELSE signedQuotient(magnitude(total) * magnitude(part), magnitude(whole),
                      ((total < 0) # (part < 0)) # (whole < 0), rounding)

(* Each with the rounding its callers leave to the default.                *)
price(value)    == normalize(value, "NearestTiesAwayFromZero")
money(value)    == normalize(value, "NearestTiesAwayFromZero")
quantity(value) == normalize(value, "TowardZero")
aligned(value)  == normalize(value, "RejectUnaligned")

notional(priceValue, quantityValue) ==
  scaledProduct(priceValue, quantityValue, "NearestTiesAwayFromZero")

fee(notionalValue, rate) ==
  scaledProduct(notionalValue, rate, "NearestTiesAwayFromZero")

applySlippage(marketPrice, slippage, buySide) ==
  LET multiplier == IF buySide THEN Scale + slippage ELSE Scale - slippage IN
  IF marketPrice > 0 /\ slippage \in 0 .. Scale - 1
  THEN {p \in scaledProduct(marketPrice, multiplier, "NearestTiesAwayFromZero") : p > 0}
  ELSE None

quantityForNotional(budget, priceValue) ==
  IF budget >= 0 /\ priceValue > 0
  THEN scaledRatio(budget, priceValue, "TowardZero")
  ELSE None

notionalBeforeFee(budget, rate) ==
  IF budget >= 0 /\ rate >= 0 /\ HasValue(add(Scale, rate))
  THEN scaledRatio(budget, Scale + rate, "TowardZero")
  ELSE None

averagePrice(costBasis, quantityValue) ==
  IF costBasis >= 0 /\ quantityValue > 0
  THEN scaledRatio(costBasis, quantityValue, "NearestTiesAwayFromZero")
  ELSE None

proportional(total, part, whole) ==
  IF part >= 0 /\ whole > 0 /\ part <= whole
  THEN proportionalUnits(total, part, whole, "NearestTiesAwayFromZero")
  ELSE None

=============================================================================
