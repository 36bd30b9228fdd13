---------------------------- MODULE MCWixSubmit ----------------------------
EXTENDS WixSubmit

\* DEFAULT_COST_USD of app/pricing.py
MCUnitCost == [upscale |-> 60, outpaint |-> 45, i2v |-> 680]

\* The prices that app/schemas/requests.py and app/routers/quotation.py give as
\* examples.
ASSUME DocumentedPrices ==
    /\ QuoteCredits("media_kit", 1, 3, 5, TRUE) = 3366
    /\ QuoteCredits("image_to_video", 1, 1, 8, TRUE) = 1741
    /\ QuoteCredits("upscale", 1, 3, 5, TRUE) = 60
    /\ Allowance(10000) = [upscale_images |-> 500, videos_8s |-> 5, media_kits |-> 2]

\* What pages send: defaults, all fields, a list of ratios that is empty (which
\* only the quote takes), a field the service's schema drops.
Kit     == [service |-> "media_kit", room |-> TRUE, image |-> TRUE]
Video   == [service |-> "image_to_video", room |-> TRUE, image |-> TRUE,
            ratios |-> 2, duration |-> 8, expand |-> FALSE]
Images  == [service |-> "upscale", image |-> TRUE, ratios |-> 0, images |-> 2]
Upscale == [service |-> "upscale", image |-> TRUE, ratios |-> 1, duration |-> 3]

CONSTANTS First, Second
MCSubs == {First, Second}
MCParams == [s \in MCSubs |-> IF s = First THEN {Kit, Video, Images} ELSE {Upscale}]
=============================================================================
