--------------------------- MODULE MCMediaPersist ---------------------------
EXTENDS MediaPersist

\* Two ratios with an image each.
MCAsset == [f \in 1..2 |-> IF f = 1 THEN "1:1" ELSE "16:9"]
=============================================================================
