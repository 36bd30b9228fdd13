------------------------------ MODULE Account ------------------------------
(***************************************************************************)
(* What lib/wallet.js makes of a member's balance, stated without the lock *)
(* document and the steps of a call: every call of grant, refund or spend  *)
(* happens at once.                                                        *)
(*                                                                         *)
(* A call works on what readBalance has seen, which is the balance, or     *)
(* nothing when the read fails; it then overwrites what was there.  A      *)
(* credit counts once, with its row, and a row whose call has come to      *)
(* grief may stand for no credits at all.                                  *)
(***************************************************************************)
EXTENDS Naturals

VARIABLES balance, \* TokenWallets.balance
          rows     \* TokenTransactions: rows of calls that are over

vars == <<balance, rows>>

\* What readBalance answers when its get fails.
Unread == 0

Take(credits, seen) ==
    /\ credits <= seen
    /\ balance' = seen - credits
    /\ UNCHANGED rows

Credit(x, credits, seen) ==
    /\ x \notin rows
    /\ rows' = rows \cup {x}
    /\ balance' = seen + credits

\* A spend notes its row after the credits; a credit whose call dies or fails
\* behind its row leaves the row alone.
Note(x) ==
    /\ x \notin rows
    /\ rows' = rows \cup {x}
    /\ UNCHANGED balance

\* What the calls about rows with these amounts can do.
Next(amount) ==
    \E x \in DOMAIN amount :
        \/ Note(x)
        \/ \E seen \in {balance, Unread} :
              Take(amount[x], seen) \/ Credit(x, amount[x], seen)
=============================================================================
