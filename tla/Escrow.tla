------------------------------- MODULE Escrow -------------------------------
(***************************************************************************)
(* What the spend path promises a member, without calls, retries, intents  *)
(* or sweeps (docs/wix-integration/INDEX.md: the credits of a submission   *)
(* are held, and "a blind refund ... would mint free credits"): the        *)
(* credits of a submission are taken once, at most once a part of them or  *)
(* all of them are given back, and never more than was taken.              *)
(*                                                                         *)
(* It does not promise that the member keeps what else there was: a        *)
(* balance that can not be read counts as empty (lib/wallet.js             *)
(* readBalance) and is overwritten.                                        *)
(***************************************************************************)
EXTENDS Integers

CONSTANTS Subs,        \* submissions of one member
          StartBalance \* the member's balance before them

VARIABLES balance, \* the member's credits
          state,   \* "free", "held" or "closed" for each submission
          held     \* the credits of a submission the system keeps

Init ==
    /\ balance = StartBalance
    /\ state = [s \in Subs |-> "free"]
    /\ held = [s \in Subs |-> 0]

\* The balance as a call sees it.
Seen == {balance, 0}

Take(s) ==
    /\ state[s] = "free"
    /\ \E seen \in Seen :
          /\ balance' \in 0..seen
          /\ held' = [held EXCEPT ![s] = seen - balance']
    /\ state' = [state EXCEPT ![s] = "held"]

GiveBack(s) ==
    /\ state[s] = "held"
    /\ \E seen \in Seen :
          /\ balance' - seen \in 1..held[s]
          /\ held' = [held EXCEPT ![s] = @ - (balance' - seen)]
    /\ state' = [state EXCEPT ![s] = "closed"]

Next == \E s \in Subs : Take(s) \/ GiveBack(s)

Spec == Init /\ [][Next]_<<balance, state, held>>
=============================================================================
