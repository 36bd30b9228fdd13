------------------------------ MODULE MCWallet ------------------------------
(* Instances of Wallet for TLC: Stripe delivers one event in several calls   *)
(* (Grants) while the member's one spend is repeated (Spends).               *)
EXTENDS Wallet, TLC

CONSTANTS Grants, Spends

MCCalls   == Grants \cup Spends
MCKind    == [c \in MCCalls |-> IF c \in Grants THEN "credit" ELSE "spend"]
MCRow     == [c \in MCCalls |-> IF c \in Grants THEN "stripe" ELSE "spend"]
MCCredits == [x \in {"stripe", "spend"} |-> IF x = "stripe" THEN 3 ELSE 2]
Symmetry  == Permutations(Grants) \cup Permutations(Spends)
============================================================================
