------------------------------ MODULE Pricing ------------------------------
(***************************************************************************)
(* The token economy of app/pricing.py and app/wallet/quotation.py: what a *)
(* request is quoted before its credits are taken, and what the worker     *)
(* gives back for each ratio that fails.  The two are computed at          *)
(* different times, in different processes and from different copies of    *)
(* the request: the quote from the parameters the page sent, the refund    *)
(* from what the submit schema kept of them.                               *)
(*                                                                         *)
(* USD amounts are integers here: costs in units of 1/1000 USD, prices in  *)
(* units of 1/10000 USD.  A request is a record in which a field the       *)
(* caller left out is absent; its aspect ratios are counted, repetitions   *)
(* included, for no price depends on which ratio it is.                    *)
(***************************************************************************)
EXTENDS Integers

CONSTANTS UnitCost, \* the cost table: provider cost of one unit of a stage
          Margin,   \* earnings_ratio, in tenths
          Peg       \* credit_peg_usd

Services == {"upscale", "image_to_video", "media_kit"}
Stages   == {"upscale", "outpaint", "i2v"}

ASSUME PricesAssumption ==
    /\ UnitCost \in [Stages -> Nat]
    /\ Margin \in Nat
    /\ Peg \in Nat \ {0}

----------------------------------------------------------------------------
(* app/pricing.py *)

\* The units of each stage that one aspect ratio takes.
LineItems(service, duration, expand) ==
    [upscale  |-> IF service = "image_to_video" THEN 0 ELSE 1,
     outpaint |-> IF service = "media_kit" /\ expand THEN 1 ELSE 0,
     i2v      |-> IF service = "upscale" THEN 0 ELSE duration]

RawCost(items) ==
    UnitCost["upscale"] * items.upscale + UnitCost["outpaint"] * items.outpaint
        + UnitCost["i2v"] * items.i2v

ApplyMargin(raw) == raw * Margin

\* ceil(price / peg)
UsdToCredits(price) == (price + Peg - 1) \div Peg

\* The credits of one ratio: the unit that is charged and refunded.
RatioCredits(service, duration, expand) ==
    UsdToCredits(ApplyMargin(RawCost(LineItems(service, duration, expand))))

\* An upscale without ratios is priced by the image, one at least.
Units(service, images, ratios) ==
    IF service = "upscale" /\ ratios = 0
    THEN IF images > 1 THEN images ELSE 1
    ELSE ratios

\* The sum over the ratios; they all cost the same.
QuoteCredits(service, images, ratios, duration, expand) ==
    Units(service, images, ratios) * RatioCredits(service, duration, expand)

Buys(balance, unit) == IF unit > 0 THEN balance \div unit ELSE 0

Allowance(balance) ==
    [upscale_images |-> Buys(balance, RatioCredits("upscale", 5, TRUE)),
     videos_8s      |-> Buys(balance, RatioCredits("image_to_video", 8, TRUE)),
     media_kits     |-> Buys(balance, QuoteCredits("media_kit", 1, 3, 5, TRUE))]

----------------------------------------------------------------------------
(* The quotation endpoint and the submit schemas *)

Get(p, field, default) == IF field \in DOMAIN p THEN p[field] ELSE default

Durations == 3..10
Ratios(p) == Get(p, "ratios", 3)

NeedsRoom(p) == p.service \in {"image_to_video", "media_kit"}
HasDuration(p) == Get(p, "duration", 5) \in Durations
HasRoom(p) == Get(p, "room", FALSE)

QuotationRequest(p) ==
    /\ HasDuration(p)
    /\ Get(p, "images", 1) >= 1
    /\ NeedsRoom(p) => Ratios(p) > 0

\* The room's name is optional in the schema, but not to QuotationEngine.
Quotable(p) == QuotationRequest(p) /\ (NeedsRoom(p) => HasRoom(p))

\* Mutant: rounds the total up once instead of every ratio.
QuoteAtOnce(p) ==
    UsdToCredits(Units(p.service, Get(p, "images", 1), Ratios(p))
                 * ApplyMargin(RawCost(LineItems(p.service, Get(p, "duration", 5),
                                                 Get(p, "expand", TRUE)))))

Quote(p) ==
    QuoteCredits(p.service, Get(p, "images", 1), Ratios(p),
                 Get(p, "duration", 5), Get(p, "expand", TRUE))

\* The submit schemas; each looks only at the fields it has, and only an upscale
\* is refused for an empty list of ratios.
UpscaleRequest(p) == Ratios(p) > 0
ImageToVideoRequest(p) == HasRoom(p) /\ HasDuration(p)
MediaKitRequest(p) == HasRoom(p) /\ HasDuration(p)

Submittable(p) ==
    /\ Get(p, "image", FALSE)
    /\ \/ p.service = "upscale" /\ UpscaleRequest(p)
       \/ p.service = "image_to_video" /\ ImageToVideoRequest(p)
       \/ p.service = "media_kit" /\ MediaKitRequest(p)

----------------------------------------------------------------------------
(* The worker's refund *)

\* request.get: a field the schema has dropped falls back to its default.
KeptDuration(p) == IF NeedsRoom(p) THEN Get(p, "duration", 5) ELSE 5
KeptExpand(p) == IF p.service = "media_kit" THEN Get(p, "expand", TRUE) ELSE TRUE

RatioUnit(p) == RatioCredits(p.service, KeptDuration(p), KeptExpand(p))

\* _settle: what is due for so many failed ratios, never more than quoted.
RefundDue(p, failed) ==
    IF failed * RatioUnit(p) <= Quote(p) THEN failed * RatioUnit(p) ELSE Quote(p)
============================================================================
