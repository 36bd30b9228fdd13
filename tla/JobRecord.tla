------------------------------ MODULE JobRecord ------------------------------
(***************************************************************************)
(* What those who poll a job can count on (routers/jobs.py get_job),       *)
(* stated without coroutines, copies of the record, or the worker's        *)
(* deaths.                                                                 *)
(*                                                                         *)
(* The end of a first run says what was produced.  Which assets the record *)
(* then shows is another matter: never one without its files, but not      *)
(* always all that have them, since the ratios overwrite each other's      *)
(* writes.  When its worker has died a job runs again, whatever the record *)
(* said of it, and the end of such a run promises less.                    *)
(***************************************************************************)
EXTENDS Naturals

CONSTANTS Assets,   \* the job's aspect ratios
          MaxReruns \* how often the job is run again at most

VARIABLES status,    \* what the record says of the job
          completed, \* the assets that a final record shows as completed
          stored,    \* the assets whose files have been produced
          reruns     \* runs that were not the first

vars == <<status, completed, stored, reruns>>

Terminal == {"completed", "partial", "failed"}
Statuses == {"queued", "running"} \cup Terminal

Init ==
    /\ status = "queued"
    /\ completed = {} /\ stored = {}
    /\ reruns = 0

Start ==
    /\ status = "queued"
    /\ status' = "running"
    /\ UNCHANGED <<completed, stored, reruns>>

\* The new run may die before it has said that it runs.
Rerun ==
    /\ status # "queued"
    /\ reruns < MaxReruns
    /\ reruns' = reruns + 1
    /\ \/ status' = "running" /\ completed' = {}
       \/ UNCHANGED <<status, completed>>
    /\ UNCHANGED stored

Store(a) ==
    /\ status = "running"
    /\ stored' = stored \cup {a}
    /\ UNCHANGED <<status, completed, reruns>>

Outcome ==
    IF stored = Assets THEN "completed"
    ELSE IF stored = {} THEN "failed" ELSE "partial"

\* Mutant: a status that no reader knows.
EndInError ==
    /\ status = "running"
    /\ status' = IF stored = Assets THEN "completed" ELSE "error"
    /\ completed' = IF stored = Assets THEN stored ELSE {}
    /\ UNCHANGED <<stored, reruns>>

End ==
    /\ status = "running"
    /\ status' \in Terminal
    /\ status' = "completed" => stored = Assets
    /\ reruns = 0 => status' = Outcome
    /\ completed' \in IF status' = "failed" THEN {{}} ELSE SUBSET stored
    /\ UNCHANGED <<stored, reruns>>

Next == Start \/ Rerun \/ (\E a \in Assets : Store(a)) \/ End

Spec == Init /\ [][Next]_vars
=============================================================================
