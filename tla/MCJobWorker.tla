---------------------------- MODULE MCJobWorker ----------------------------
(* Instances of JobWorker for TLC.  The ratios' prices differ, so that a    *)
(* refund of the wrong ratio shows.                                        *)
EXTENDS JobWorker, FiniteSetsExt

Price(r) == CASE r = "1:1" -> 2 [] r = "9:16" -> 3 [] OTHER -> 4

MCCredits == [S \in SUBSET Ratios |-> MapThenSumSet(Price, S)]
============================================================================
