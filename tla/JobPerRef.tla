----------------------------- MODULE JobPerRef -----------------------------
(***************************************************************************)
(* What the job service promises its one caller, the Wix backend, stated   *)
(* without Redis, handlers or failures: the docstring of submit_job        *)
(* ("one job per (member_id, client_ref) ... only the winner records usage *)
(* + enqueues, so a lost race never double-charges or double-spends").     *)
(*                                                                         *)
(* A reference is bound to at most one job at a time.  A job is charged    *)
(* once, only after it was bound, and started once, only after it was      *)
(* charged.  A request is answered with a job that was bound to the        *)
(* reference the request asks about, or not at all.                        *)
(***************************************************************************)
EXTENDS Naturals

CONSTANTS Requests, \* the requests the service receives
          Jobs,     \* the job ids it can hand out
          Refs,     \* the (member_id, client_ref) pairs
          None      \* "no job", "no reference"

VARIABLES asks,     \* the reference a request is about
          bound,    \* the job a reference stands for now
          owner,    \* the reference a job was bound to, for ever
          charged,  \* how many times the usage ledger charged a job
          started,  \* how many times a job was given to the workers
          answer    \* the job a request was answered with

vars == <<asks, bound, owner, charged, started, answer>>

Init ==
    /\ asks    = [q \in Requests |-> None]
    /\ bound   = [r \in Refs |-> None]
    /\ owner   = [j \in Jobs |-> None]
    /\ charged = [j \in Jobs |-> 0]
    /\ started = [j \in Jobs |-> 0]
    /\ answer  = [q \in Requests |-> None]

Ask(q, r) ==
    /\ asks[q] = None
    /\ asks' = [asks EXCEPT ![q] = r]
    /\ UNCHANGED <<bound, owner, charged, started, answer>>

Bind(r, j) ==
    /\ bound[r] = None
    /\ owner[j] = None
    /\ bound' = [bound EXCEPT ![r] = j]
    /\ owner' = [owner EXCEPT ![j] = r]
    /\ UNCHANGED <<asks, charged, started, answer>>

\* The binding outlives its use by a day (JOB_TTL_SECONDS), not for ever.
Forget(r) ==
    /\ bound[r] # None
    /\ bound' = [bound EXCEPT ![r] = None]
    /\ UNCHANGED <<asks, owner, charged, started, answer>>

Charge(j) ==
    /\ owner[j] # None
    /\ charged[j] = 0
    /\ charged' = [charged EXCEPT ![j] = 1]
    /\ UNCHANGED <<asks, bound, owner, started, answer>>

Start(j) ==
    /\ charged[j] = 1
    /\ started[j] = 0
    /\ started' = [started EXCEPT ![j] = 1]
    /\ UNCHANGED <<asks, bound, owner, charged, answer>>

Answer(q, j) ==
    /\ answer[q] = None
    /\ owner[j] # None
    /\ owner[j] = asks[q]
    /\ answer' = [answer EXCEPT ![q] = j]
    /\ UNCHANGED <<asks, bound, owner, charged, started>>

Next ==
    \/ \E q \in Requests, r \in Refs : Ask(q, r)
    \/ \E r \in Refs, j \in Jobs : Bind(r, j)
    \/ \E r \in Refs : Forget(r)
    \/ \E j \in Jobs : Charge(j)
    \/ \E j \in Jobs : Start(j)
    \/ \E q \in Requests, j \in Jobs : Answer(q, j)

Spec == Init /\ [][Next]_vars
============================================================================
