------------------------------ MODULE MCPlatform ------------------------------
(* Small instances of Platform: three requests with one key; two questions   *)
(* to the rate enquiry that share a cache key and one that has its own; a     *)
(* validation cache of two entries and three bytes; and forms of each kind,   *)
(* chosen for the boundaries of the checks.                                   *)
EXTENDS Platform, TLC

CONSTANTS r1, r2, r3, light, heavy, cards, k1, k2

\* A quote's key leaves out the weight; the list of rate cards is dropped.
Keys == light :> "quote" @@ heavy :> "quote" @@ cards :> "list"

OneForever == "a" :> 0 @@ "b" :> 1 @@ "c" :> 1

-------------------------------------------------------------------------------

Amounts ==
  {[kind |-> "number", value |-> v] :
     v \in {-1500, -10, 0, 10, 70, 290, 400, 500, 1000, 1400, 1500, 1600, 2505, 5000, 5010, 6000}}
  \cup {[kind |-> "absent"], [kind |-> "words"], [kind |-> "NaN"]}

\* Two decimals, and none; small limits.
TwoCurrencies ==
  [INR |-> [precision |-> 2, minAmount |-> 0, maxAmount |-> 5000, subunitRatio |-> 100],
   JPY |-> [precision |-> 0, minAmount |-> 0, maxAmount |-> 5000, subunitRatio |-> 1]]

\* 0.07 * 100 and 0.29 * 100 are not whole in binary64.
Drifting == {7, 14, 28, 29, 55, 56, 57, 58}

MoneyForms ==
  [kind : {"money"}, input : Amounts, currency : {"INR", "JPY", "XYZ"},
   opts : [autoRound : BOOLEAN, strict : BOOLEAN, allowZero : BOOLEAN, allowNegative : BOOLEAN]]

\* Country codes of one to three digits.
SomeCountries ==
  <<1>> :> [min |-> 10, max |-> 10] @@ <<7>> :> [min |-> 11, max |-> 11]
  @@ <<2, 0>> :> [min |-> 11, max |-> 11] @@ <<2, 7>> :> [min |-> 10, max |-> 10]
  @@ <<9, 0>> :> [min |-> 10, max |-> 10] @@ <<9, 1>> :> [min |-> 10, max |-> 10]
  @@ <<9, 2>> :> [min |-> 10, max |-> 10] @@ <<2, 1, 2>> :> [min |-> 9, max |-> 9]

Heads == [1..5 -> {0, 1, 7, 9}] \cup {<<2, d, 2, 5, 0>> : d \in {0, 1, 7}} \cup {<<9, Letter, 1, 1, 1>>}

PhoneForms ==
  [kind : {"phone"}, input : [plus : BOOLEAN, head : Heads, length : 9..14],
   opts : [requireIndian : BOOLEAN, allowInternational : BOOLEAN]]

Parliament == <<1, 1, 0, 0, 0, 1>>

PincodeForms ==
  [kind : {"pincode"},
   input : [digits : {<<>>, <<1>>, Parliament, <<0, 1, 0, 0, 0, 1>>, <<9, 0, 0, 0, 0, 0>>,
                      Parliament \o <<1>>}, extra : BOOLEAN],
   opts : [strictFormat : BOOLEAN, validateRegion : BOOLEAN]]

Words == "a" :> 1 @@ "word" :> 63

SomeLabels ==
  "acme"   :> [length |-> 4, wellFormed |-> TRUE, tld |-> TRUE, blocked |-> FALSE]
  @@ "co"   :> [length |-> 2, wellFormed |-> TRUE, tld |-> TRUE, blocked |-> FALSE]
  @@ "x"    :> [length |-> 1, wellFormed |-> TRUE, tld |-> FALSE, blocked |-> FALSE]
  @@ "test" :> [length |-> 4, wellFormed |-> TRUE, tld |-> TRUE, blocked |-> TRUE]
  @@ "ex-"  :> [length |-> 3, wellFormed |-> FALSE, tld |-> FALSE, blocked |-> FALSE]
  @@ "long" :> [length |-> 62, wellFormed |-> TRUE, tld |-> FALSE, blocked |-> FALSE]

Listed == {<<"co", "acme">>}

Locals == UNION {[1..n -> {"a", "word", ".", "+", "_", "!"}] : n \in 0..4}

Domains ==
  {<<>>, <<"acme", "co">>, <<"co", "acme">>, <<"test", "co">>, <<"x", "x">>, <<"acme">>,
   <<"ex-", "co">>, <<"x", "acme", "x">>, <<"long", "long", "long", "long", "co">>}

EmailForms ==
  [kind : {"email"}, input : [local : Locals, domain : Domains],
   opts : [blockDangerousDomains : BOOLEAN, allowSubaddressing : BOOLEAN]]

\* Two slabs, not in order; amounts in paise.
SomeCards ==
  [weightSlabs : {<<[upTo |-> 200, ratePerKg |-> 1, baseRate |-> 150],
                    [upTo |-> 50, ratePerKg |-> 2, baseRate |-> 75]>>},
   fuelSurcharge : {0, 15}, codCharge : {20}, codPercent : {0, 2}, markup : {Unset, 0, 13}]

SomeMargins == {NoMargin, [percent |-> 10, flat |-> 50], [percent |-> 7, flat |-> 0]}

Parcels ==
  [weight : {1, 50, 51, 200, 201, 300}, length : {0, 13, 30}, breadth : {10}, height : {5, 11},
   isCOD : BOOLEAN, codAmount : {0, 999}]

ParcelForms == [kind : {"parcel"}, card : SomeCards, margin : SomeMargins, parcel : Parcels]

AllForms == MoneyForms \cup PhoneForms \cup PincodeForms \cup EmailForms \cup ParcelForms

===============================================================================
