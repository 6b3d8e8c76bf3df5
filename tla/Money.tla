--------------------------------- MODULE Money ---------------------------------
(***************************************************************************)
(* validation/validators/money.validator.js.  An amount is an integer number *)
(* of thousandths, so that a third decimal place can be given; the currencies *)
(* have no more than two.  What binary64 makes of amount * 100 is a constant. *)
(***************************************************************************)
EXTENDS Integers, FiniteSets

CONSTANTS
  Currencies,   \* CURRENCY_CONFIG: precision, the limits, subunits in one unit
  Inexact       \* hundredths n for which the binary64 product (n / 100) * 100 is not n

\* Two decimals and a hundred subunits, or none of either; binary64 holds whole amounts.
ASSUME MoneyAssumption ==
  /\ \A c \in DOMAIN Currencies :
       /\ <<Currencies[c].precision, Currencies[c].subunitRatio>> \in {<<2, 100>>, <<0, 1>>}
       /\ Currencies[c].minAmount \in Nat /\ Currencies[c].maxAmount \in Nat
  /\ Inexact \subseteq {n \in Nat : n % 100 # 0}

Size(v) == IF v < 0 THEN -v ELSE v

Refused(error) == [isValid |-> FALSE, error |-> error]

\* An input is a number; a string, of which only the leading number is parsed,
\* whatever follows it; or something else.
Number(v) == [kind |-> "number", value |-> v]

ParseErrors ==
  [absent |-> "EMPTY_AMOUNT", words |-> "INVALID_STRING_FORMAT", object |-> "INVALID_TYPE",
   NaN |-> "NAN_VALUE", Infinity |-> "INFINITY_VALUE"]

ParseError(input) ==
  IF input.kind \in DOMAIN ParseErrors THEN ParseErrors[input.kind] ELSE "none"

\* What validateMoney may be given.
IsAmount(input) == ParseError(input) = "none" => input.value \in Int
MoneyOptions == [autoRound : BOOLEAN, strict : BOOLEAN, allowZero : BOOLEAN, allowNegative : BOOLEAN]

\* Number.isSafeInteger(amount * 100)
Safe(v) == v % 10 = 0 /\ Size(v) \div 10 \notin Inexact

\* The thousandths in the smallest step of a precision.
StepOf(precision) == IF precision = 0 THEN 1000 ELSE 10

DecimalPlaces(v) ==
  IF v % 1000 = 0 THEN 0 ELSE IF v % 100 = 0 THEN 1 ELSE IF v % 10 = 0 THEN 2 ELSE 3

\* Faulty variant: a half is dropped.
RoundDown(v, precision) == (v \div StepOf(precision)) * StepOf(precision)

\* Math.round: a half goes up.
RoundTo(v, precision) ==
  LET step == StepOf(precision) IN ((v + step \div 2) \div step) * step

Precise(v, precision) == DecimalPlaces(Size(v)) <= precision

ToSubunits(v, c) == (v * Currencies[c].subunitRatio) \div 1000
FromSubunits(n, c) == (n * 1000) \div Currencies[c].subunitRatio

\* autoRound rounds what is too precise, strict refuses it, else it is rounded
\* in the end.
AutoRounded(v, c, opts) == IF opts.autoRound THEN RoundTo(v, Currencies[c].precision) ELSE v

MoneyError(input, c, opts) ==
  IF c \notin DOMAIN Currencies THEN "INVALID_CURRENCY"
  ELSE IF ParseError(input) # "none" THEN ParseError(input)
  ELSE LET v == input.value
           rounded == AutoRounded(v, c, opts)
       IN IF ~Safe(v) THEN "UNSAFE_NUMBER"
          ELSE IF v < 0 /\ ~opts.allowNegative THEN "NEGATIVE_AMOUNT"
          ELSE IF v = 0 /\ ~opts.allowZero THEN "ZERO_AMOUNT"
          ELSE IF ~Precise(v, Currencies[c].precision) /\ ~opts.autoRound /\ opts.strict
               THEN "INVALID_PRECISION"
          ELSE IF Size(rounded) < Currencies[c].minAmount THEN "BELOW_MINIMUM"
          ELSE IF Size(rounded) > Currencies[c].maxAmount THEN "ABOVE_MAXIMUM"
          ELSE "none"

ValidateMoney(input, c, opts) ==
  IF MoneyError(input, c, opts) # "none" THEN Refused(MoneyError(input, c, opts))
  ELSE LET amount == RoundTo(AutoRounded(input.value, c, opts), Currencies[c].precision)
       IN [isValid |-> TRUE, amount |-> amount, subunits |-> ToSubunits(amount, c),
           decimals |-> DecimalPlaces(Size(amount))]

Rounding(opts) == [opts EXCEPT !.autoRound = TRUE]

NormalizeMoney(input, c, opts) == ValidateMoney(input, c, Rounding(opts))

\* createMoneySchema refines with the options as given, then transforms with
\* rounding on.
MoneySchema(input, c, opts) ==
  IF ValidateMoney(input, c, opts).isValid THEN NormalizeMoney(input, c, opts)
                                           ELSE ValidateMoney(input, c, opts)

PrecisionOf(c) == IF c \in DOMAIN Currencies THEN Currencies[c].precision ELSE 2

\* What binary64 may be off by, at most a thousandth, before a result is rounded.
Drift == -1..1

AddAmounts(v, w, c, drift) == RoundTo(v + w + drift, PrecisionOf(c))
SubtractAmounts(v, w, c, drift) == RoundTo(v - w + drift, PrecisionOf(c))
MultiplyAmount(v, n, c, drift) == RoundTo(v * n + drift, PrecisionOf(c))

CompareAmounts(v, w, c, driftV, driftW) ==
  LET a == RoundTo(v + driftV, PrecisionOf(c))
      b == RoundTo(w + driftW, PrecisionOf(c))
  IN IF a < b THEN -1 ELSE IF a > b THEN 1 ELSE 0

-------------------------------------------------------------------------------

\* What a schema lets through becomes the nearest amount the currency has, of two
\* the larger; it is let through again unchanged - unless rounding made it a zero
\* that was not allowed - and survives the way to subunits and back.
MoneyIsCanonical(input, c, opts) ==
  LET result == MoneySchema(input, c, opts) IN
    result.isValid =>
      /\ 2 * (result.amount - input.value) <= StepOf(PrecisionOf(c))
      /\ 2 * (input.value - result.amount) < StepOf(PrecisionOf(c))
      /\ result.decimals <= PrecisionOf(c)
      /\ FromSubunits(result.subunits, c) = result.amount
      /\ result.amount # 0 \/ opts.allowZero =>
           MoneySchema(Number(result.amount), c, opts) = result

\* Amounts in the steps of a currency add up exactly, and compare as their
\* difference does, whatever binary64 makes of each result before it is rounded.
SumsAreExact(v, w, c) ==
  Precise(Size(v), PrecisionOf(c)) /\ Precise(Size(w), PrecisionOf(c)) =>
    \A d, e \in Drift :
      /\ SubtractAmounts(AddAmounts(v, w, c, d), w, c, e) = v
      /\ CompareAmounts(v, w, c, d, e) = CompareAmounts(SubtractAmounts(v, w, c, d), 0, c, e, d)
      /\ MultiplyAmount(v, 2, c, d) = AddAmounts(v, v, c, e)

===============================================================================
