----------------------------- MODULE FalBalance -----------------------------
(***************************************************************************)
(* The fal account and the circuit breaker that watches it                 *)
(* (app/providers/fal_balance.py, with the cron task of worker.py): the    *)
(* periodic balance check, 402 answers counted by the fal client, and the  *)
(* CircuitState that each process keeps for itself.  FalPipeline composes  *)
(* it with the stages that spend the account.                              *)
(*                                                                         *)
(* ARQ runs one check at a time, and trip_on_402 does not take the lock    *)
(* that a check holds across its alerts, so the lock keeps nobody out and  *)
(* is left out.  A balance is one of three levels.                         *)
(***************************************************************************)
EXTENDS Integers

CONSTANTS TripAfter, \* 402s that open the circuit (3 in trip_on_402)
          Shapes     \* where the billing answer can carry the balance

\* flat: {"balance": x}.  nested: {"credits": {"balance": x}}.
ASSUME BalanceAssumption ==
    TripAfter \in Nat \ {0} /\ Shapes \subseteq {"flat", "nested"} /\ Shapes # {}

VARIABLES account, \* the level of the fal account
          circuit, \* circuit[p]: the CircuitState of process p
          check,   \* where the worker's balance check stands
          seen     \* what the check has fetched

balanceVars == <<account, circuit, check, seen>>

Levels == {"zero", "low", "ok"}

\* The API answers submissions; the worker calls fal and runs the cron tasks.
Processes == {"api", "worker"}

Closed == [is_open |-> FALSE, last_balance |-> "none", alert_sent |-> FALSE,
           consecutive_402s |-> 0]

BalanceInit ==
    /\ account = "ok"
    /\ circuit = [p \in Processes |-> Closed]
    /\ check = "idle"
    /\ seen = "none"

is_circuit_open(p) == circuit[p].is_open

\* Members' jobs and others draw on the account; somebody tops it up.
Draw ==
    /\ account # "zero"
    /\ account' = IF account = "ok" THEN "low" ELSE "zero"
    /\ UNCHANGED <<circuit, check, seen>>

TopUp ==
    /\ account # "ok"
    /\ account' = "ok"
    /\ UNCHANGED <<circuit, check, seen>>

\* trip_on_402.  Nothing but a recovery resets the counter: a request that fal
\* accepts does not, so the 402s it counts are consecutive in name only.
CountUnpaid(c) ==
    [c EXCEPT !.consecutive_402s = @ + 1,
              !.is_open = @ \/ c.consecutive_402s + 1 >= TripAfter]

----------------------------------------------------------------------------
(* check_fal_balance and run_balance_check *)

\* Mutant: there is no last resort.
ParsedByChain(shape, level) == IF level = "zero" THEN "unknown" ELSE level

\* The `or` chain takes a zero for a missing field; the last resort looks for
\* it once more at the top level only.
Parsed(shape, level) ==
    IF shape = "nested" /\ level = "zero" THEN "unknown" ELSE level

\* The billing GET; the account can change before its answer is looked at.
Fetch(shape) ==
    /\ check = "idle"
    /\ check' = "fetched"
    /\ seen' = Parsed(shape, account)
    /\ UNCHANGED <<account, circuit>>

FetchFails ==
    /\ check = "idle"
    /\ check' = "fetched"
    /\ seen' = "unknown"
    /\ UNCHANGED <<account, circuit>>

\* Mutant: the 402s stay counted when the circuit closes.
RecoveredOnly(c) == [c EXCEPT !.is_open = FALSE]

Recovered(c) == [c EXCEPT !.is_open = FALSE, !.consecutive_402s = 0]

\* Under the lock, up to the first alert.
Evaluate ==
    /\ check = "fetched"
    /\ seen' = "none"
    /\ LET c == circuit["worker"]
           new == [c EXCEPT !.last_balance = seen]
           After(state, at) ==
               circuit' = [circuit EXCEPT !["worker"] = state] /\ check' = at
       IN \/ seen = "unknown" /\ After(c, "idle")
          \/ seen # "unknown" /\ seen # "zero" /\ c.is_open
             /\ After(Recovered(new), "recovered")
          \/ seen = "zero" /\ c.is_open /\ After(new, "idle")
          \/ seen = "zero" /\ ~c.is_open
             /\ After([new EXCEPT !.is_open = TRUE], "alert")
          \/ seen = "low" /\ ~c.is_open
             /\ After([new EXCEPT !.alert_sent = TRUE],
                      IF c.alert_sent THEN "idle" ELSE "alert")
          \/ seen = "ok" /\ ~c.is_open
             /\ After([new EXCEPT !.alert_sent = FALSE], "idle")
    /\ UNCHANGED account

\* send_google_chat_alert returns, sent or not; 402s may have come meanwhile.
Alerted ==
    /\ check \in {"alert", "recovered"}
    /\ check' = "idle"
    /\ circuit' = IF check = "recovered"
                  THEN [circuit EXCEPT !["worker"].alert_sent = FALSE]
                  ELSE circuit
    /\ UNCHANGED <<account, seen>>

BalanceTypeOK ==
    /\ account \in Levels
    /\ circuit \in [Processes -> [is_open : BOOLEAN,
                                  last_balance : Levels \cup {"none"},
                                  alert_sent : BOOLEAN,
                                  consecutive_402s : Nat]]
    /\ check \in {"idle", "fetched", "alert", "recovered"}
    /\ seen \in Levels \cup {"none", "unknown"}
    /\ check = "fetched" => seen # "none"

----------------------------------------------------------------------------
\* The worker's circuit is open exactly while the code gives it a reason to be: a
\* balance of zero at the last check that read one, or TripAfter 402s since a
\* check last closed it or the process started.  The 402s need not follow one
\* another: fal_balance.py:165 and main.py:94 say "consecutive", but no accepted
\* request resets the counter of line 167.  402s that arrive while a check waits
\* for its alert, and checks that read the account before it changed, break
\* neither direction.
OpenForAReason ==
    LET c == circuit["worker"]
    IN c.is_open <=> c.consecutive_402s >= TripAfter \/ c.last_balance = "zero"
=============================================================================
