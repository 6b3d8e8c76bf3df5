------------------------------- MODULE Pricing -------------------------------
(***************************************************************************)
(* pricing/ (what a booking is charged) and calculateRateService (what a     *)
(* rate enquiry is told): the same rules, written twice.  Money is in paise  *)
(* and weight in hundredths of a kilogram; a rate per kilogram and every     *)
(* percentage are whole numbers, so a base charge is in whole paise.         *)
(***************************************************************************)
EXTENDS Integers, Sequences

CONSTANTS VolumetricDivisor, DefaultMarkup

ASSUME PricingAssumption == VolumetricDivisor \in Nat \ {0} /\ DefaultMarkup \in Nat

\* toFixed(2) of n / d: the nearest whole number; which one a half becomes
\* depends on the binary fraction nearest to it.
Nearest(n, d) == {q \in {n \div d, (n \div d) + 1} :
                    2 * (n - q * d) <= d /\ 2 * (q * d - n) <= d}

VolumetricWeights(p) ==
  IF 0 \in {p.length, p.breadth, p.height} THEN {0}
  ELSE Nearest(p.length * p.breadth * p.height * 100, VolumetricDivisor)

BillingWeight(p, volumetric) == IF volumetric > p.weight THEN volumetric ELSE p.weight

\* The slabs sorted by their bounds; the sort is stable.
Lower(slabs, i, j) ==
  slabs[i].upTo < slabs[j].upTo \/ (slabs[i].upTo = slabs[j].upTo /\ i < j)

\* The first of the sorted slabs that fit; without one, the last of all.
FirstFitting(slabs, fitting) ==
  LET others(i) == DOMAIN slabs \ {i}
  IN slabs[IF fitting = {} THEN CHOOSE i \in DOMAIN slabs : \A j \in others(i) : Lower(slabs, j, i)
           ELSE CHOOSE i \in fitting : \A j \in fitting \ {i} : Lower(slabs, i, j)]

\* Faulty variant: a parcel as heavy as a slab allows falls into the next one.
SlabAbove(slabs, weight) == FirstFitting(slabs, {i \in DOMAIN slabs : weight < slabs[i].upTo})

FindMatchingSlab(slabs, weight) ==
  FirstFitting(slabs, {i \in DOMAIN slabs : weight <= slabs[i].upTo})

\* superAdminMarkupPercent where it is null.
Unset == -1

\* What createRateCardDto and createMarginConfigDto let in.
Slab == [upTo : Nat, ratePerKg : Nat, baseRate : Nat]
RateCard == [weightSlabs : Seq(Slab) \ {<<>>}, fuelSurcharge : Nat, codCharge : Nat,
             codPercent : Nat, markup : Nat \cup {Unset}]
MarginConfig == [percent : Nat, flat : Nat]
Parcel == [weight : Nat, length : Nat, breadth : Nat, height : Nat, isCOD : BOOLEAN, codAmount : Nat]

Markup(card) == IF card.markup = Unset THEN DefaultMarkup ELSE card.markup

\* What the carrier takes, in hundredths of a paisa.
CarrierCharge(card, slab, weight, p) ==
  (slab.baseRate + slab.ratePerKg * weight) * (100 + card.fuelSurcharge)
  + IF p.isCOD THEN 100 * card.codCharge + p.codAmount * card.codPercent ELSE 0

Raised(amount, percent) == Nearest(amount * (100 + percent), 100)

NoMargin == [percent |-> 0, flat |-> 0]

\* calculateShippingCost, every stage rounded: the set of answers a rounding of
\* halves allows.  A direct merchant's markup is booked as distributorProfit.
Costs(card, margin, viaDistributor, weight, p) ==
  LET slab == FindMatchingSlab(card.weightSlabs, weight) IN
  UNION {UNION {{[carrierCost |-> carrier,
                  distributorCost |-> IF viaDistributor THEN marked ELSE carrier,
                  merchantCost |-> merchant,
                  vexaroProfit |-> IF viaDistributor THEN marked - carrier ELSE 0,
                  distributorProfit |-> merchant - IF viaDistributor THEN marked ELSE carrier] :
                   merchant \in IF viaDistributor
                                THEN {m + margin.flat : m \in Raised(marked, margin.percent)}
                                ELSE {marked}} :
                  marked \in Raised(carrier, Markup(card))} :
           carrier \in Nearest(CarrierCharge(card, slab, weight, p), 100)}

CalculateShippingCost(card, margin, viaDistributor, p) ==
  UNION {Costs(card, margin, viaDistributor, BillingWeight(p, v), p) : v \in VolumetricWeights(p)}

\* calculateRateService has a search of its own, by the declared weight alone, rounded once.
QuoteSlab(slabs, weight) ==
  FirstFitting(slabs, {i \in DOMAIN slabs : weight <= slabs[i].upTo})

CalculateRate(card, margin, role, p) ==
  LET total == CarrierCharge(card, QuoteSlab(card.weightSlabs, p.weight), p.weight, p)
      marked == total * (100 + Markup(card))
  IN CASE role = "SUPER_ADMIN" -> Nearest(total, 100)
       [] role \in {"DISTRIBUTOR", "DIRECT_MERCHANT"} -> Nearest(marked, 10000)
       [] role = "MERCHANT" -> {q + margin.flat : q \in Nearest(marked * (100 + margin.percent), 1000000)}

-------------------------------------------------------------------------------

\* |a - b| <= n / d
Within(a, b, n, d) == d * (a - b) \in -n..n

Heavier(p) == \E v \in VolumetricWeights(p) : v > p.weight

\* What an enquiry tells a merchant, his distributor and the platform is what a
\* booking of the same parcel charges the one and yields the others, but for the
\* rounding of the stages: half a paisa each time, raised by the percentages that
\* follow, and half a paisa of the enquiry's own - unless the parcel is bulkier than
\* it is heavy, which only the booking looks at.
QuoteIsCharged(card, margin, p) ==
  ~Heavier(p) =>
    LET marked == 100 + Markup(card)
        raised == (100 + margin.percent) * (200 + Markup(card))
    IN \A via \in BOOLEAN : \A cost \in CalculateShippingCost(card, margin, via, p) :
      /\ \A q \in CalculateRate(card, margin, "SUPER_ADMIN", p) : Within(q, cost.carrierCost, 1, 1)
      /\ \A q \in CalculateRate(card, margin, "DISTRIBUTOR", p) :
           via => Within(q, cost.distributorCost, 200 + marked, 200)
      /\ \A q \in CalculateRate(card, margin, "DIRECT_MERCHANT", p) :
           ~via => Within(q, cost.merchantCost, 200 + marked, 200)
      /\ \A q \in CalculateRate(card, margin, "MERCHANT", p) :
           via => Within(q, cost.merchantCost, 20000 + raised, 20000)

===============================================================================
