--------------------------- MODULE PricingProofs ---------------------------
(***************************************************************************)
(* Proofs about Pricing for every cost table, margin and peg.              *)
(***************************************************************************)
EXTENDS Pricing, TLAPS

\* What the quotation endpoint's schema types of a request.
Typed(p) ==
    /\ p.service \in Services
    /\ Ratios(p) \in Nat
    /\ Get(p, "images", 1) \in Int
    /\ Get(p, "duration", 5) \in Int

\* Products of naturals are naturals, and grow with a factor.
LEMMA Product ==
    ASSUME NEW a \in Nat, NEW b \in Nat
    PROVE  /\ a * b \in Nat
           /\ \A k \in 0..a : k * b \in Nat /\ k * b <= a * b
                              /\ a * b - k * b = (a - k) * b
<1>1. \A k \in Nat : k * b \in Nat
  OBVIOUS
<1>2. ASSUME NEW k \in 0..a
      PROVE  k * b <= a * b /\ a * b - k * b = (a - k) * b
  <2>1. a - k \in Nat
    OBVIOUS
  <2>2. a * b = k * b + (a - k) * b
    OBVIOUS
  <2> QED
    BY <1>1, <2>1, <2>2
<1> QED
  BY <1>1, <1>2

\* Rounding up (_usd_to_credits): the credits cover the price, and one credit
\* less does not.
THEOREM LeastCover ==
    ASSUME NEW price \in Nat
    PROVE  /\ UsdToCredits(price) \in Nat
           /\ UsdToCredits(price) * Peg >= price
           /\ UsdToCredits(price) > 0 => (UsdToCredits(price) - 1) * Peg < price
<1> DEFINE q == (price + Peg - 1) \div Peg
           r == (price + Peg - 1) % Peg
<1>1. Peg \in Nat \ {0} /\ price + Peg - 1 \in Nat
  BY PricesAssumption DEF PricesAssumption
<1>2. q \in Nat /\ r \in 0..Peg - 1 /\ price + Peg - 1 = Peg * q + r
  BY <1>1
<1>3. q * Peg = price + Peg - 1 - r
  BY <1>1, <1>2
<1>4. (q - 1) * Peg = q * Peg - Peg
  BY <1>1, <1>2
<1> HIDE DEF q, r
<1>5. q \in Nat /\ q * Peg >= price /\ (q - 1) * Peg < price
  BY <1>1, <1>2, <1>3, <1>4
<1> QED
  BY <1>5 DEF UsdToCredits, q

\* A ratio's price, and so its credits, are naturals.
LEMMA PriceNat ==
    ASSUME NEW service, NEW duration \in Nat, NEW expand
    PROVE  /\ ApplyMargin(RawCost(LineItems(service, duration, expand))) \in Nat
           /\ RatioCredits(service, duration, expand) \in Nat
<1> DEFINE items == LineItems(service, duration, expand)
<1>1. items.upscale \in Nat /\ items.outpaint \in Nat /\ items.i2v \in Nat
  BY DEF LineItems
<1>2. /\ UnitCost["upscale"] \in Nat /\ UnitCost["outpaint"] \in Nat
      /\ UnitCost["i2v"] \in Nat /\ Margin \in Nat
  BY PricesAssumption DEF PricesAssumption, Stages
<1> HIDE DEF items
<1>3. /\ UnitCost["upscale"] * items.upscale \in Nat
      /\ UnitCost["outpaint"] * items.outpaint \in Nat
      /\ UnitCost["i2v"] * items.i2v \in Nat
  BY <1>1, <1>2, Product
<1>4. RawCost(items) \in Nat
  BY <1>3 DEF RawCost
<1>5. ApplyMargin(RawCost(items)) \in Nat
  BY <1>2, <1>4, Product DEF ApplyMargin
<1> QED
  BY <1>5, LeastCover DEF RatioCredits, items

\* A quoted request has a natural price; what the worker refunds for a ratio is
\* the least whole number of credits that covers it.
LEMMA Quoted ==
    ASSUME NEW p, Typed(p), Quotable(p)
    PROVE  Quote(p) \in Nat /\ RatioUnit(p) \in Nat
<1>1. Get(p, "duration", 5) \in Nat /\ KeptDuration(p) \in Nat
  BY DEF Quotable, QuotationRequest, HasDuration, Durations, KeptDuration, Typed
<1>2. /\ RatioCredits(p.service, Get(p, "duration", 5), Get(p, "expand", TRUE)) \in Nat
      /\ RatioUnit(p) \in Nat
  BY <1>1, PriceNat DEF RatioUnit
<1>3. Units(p.service, Get(p, "images", 1), Ratios(p)) \in Nat
  BY DEF Typed, Quotable, QuotationRequest, Units
<1> QED
  BY <1>2, <1>3, Product DEF Quote, QuoteCredits

\* The worker never gives back more than was quoted (_settle).
THEOREM RefundWithinQuote ==
    ASSUME NEW p, Typed(p), Quotable(p), NEW failed \in Nat
    PROVE  RefundDue(p, failed) \in 0..Quote(p)
<1>1. Quote(p) \in Nat /\ failed * RatioUnit(p) \in Nat
  BY Quoted, Product
<1> QED
  BY <1>1 DEF RefundDue

\* Of a request that both the quotation and the submit schema take, the quote
\* from what the page sent is the ratios' price from what the schema kept, and
\* the refund for some of its ratios leaves the price of the others.
THEOREM QuoteIsItsRatios ==
    ASSUME NEW p, Typed(p), Quotable(p), Submittable(p)
    PROVE  /\ Quote(p) = Ratios(p) * RatioUnit(p)
           /\ \A k \in 0..Ratios(p) :
                 Quote(p) - RefundDue(p, k) = (Ratios(p) - k) * RatioUnit(p)
<1>1. Units(p.service, Get(p, "images", 1), Ratios(p)) = Ratios(p)
  BY DEF Typed, Submittable, UpscaleRequest, Units
<1>2. LineItems(p.service, Get(p, "duration", 5), Get(p, "expand", TRUE))
        = LineItems(p.service, KeptDuration(p), KeptExpand(p))
  BY DEF Typed, Services, LineItems, KeptDuration, KeptExpand, NeedsRoom
<1>3. Quote(p) = Ratios(p) * RatioUnit(p)
  BY <1>1, <1>2 DEF Quote, QuoteCredits, RatioUnit, RatioCredits
<1>4. ASSUME NEW k \in 0..Ratios(p)
      PROVE  Quote(p) - RefundDue(p, k) = (Ratios(p) - k) * RatioUnit(p)
  <2>1. Ratios(p) \in Nat /\ RatioUnit(p) \in Nat
    BY Quoted DEF Typed
  <2>2. /\ k * RatioUnit(p) <= Ratios(p) * RatioUnit(p)
        /\ Ratios(p) * RatioUnit(p) - k * RatioUnit(p) = (Ratios(p) - k) * RatioUnit(p)
    BY <2>1, Product
  <2> QED
    BY <1>3, <2>2 DEF RefundDue
<1> QED
  BY <1>3, <1>4

\* The allowance endpoint tells as many as the balance pays for, and not one
\* fewer.
THEOREM AllowanceIsExact ==
    ASSUME NEW balance \in Nat, NEW unit \in Nat \ {0}
    PROVE  /\ Buys(balance, unit) \in Nat
           /\ Buys(balance, unit) * unit <= balance
           /\ balance < (Buys(balance, unit) + 1) * unit
<1> DEFINE q == balance \div unit
           r == balance % unit
<1>1. q \in Nat /\ r \in 0..unit - 1 /\ balance = unit * q + r
  OBVIOUS
<1>2. unit * q = q * unit /\ (q + 1) * unit = q * unit + unit
  BY <1>1
<1> HIDE DEF q, r
<1>3. q * unit <= balance /\ balance < (q + 1) * unit
  BY <1>1, <1>2
<1> QED
  BY <1>1, <1>3 DEF Buys, q
=============================================================================
