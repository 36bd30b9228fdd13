----------------------------- MODULE JobWorker -----------------------------
(***************************************************************************)
(* One job in the ARQ worker: jobs/worker.py _process_job, its fan-out     *)
(* over the aspect ratios, the settlement, and the refund client's retries *)
(* against the Wix refund function.                                        *)
(*                                                                         *)
(* The ratios of a job run as coroutines of one asyncio.gather.  They all  *)
(* write the same Redis record, each by reading the whole record, changing *)
(* its own asset and writing the whole record back; those two halves are   *)
(* two actions.  The main coroutine writes the record only while no ratio  *)
(* coroutine of its attempt is left, so its update_job calls are one.      *)
(*                                                                         *)
(* ARQ runs a job again, up to MaxTries times, when its worker died, and   *)
(* never when the job function raised or timed out.                        *)
(*                                                                         *)
(* Ledger rows of single ratios are left out: they are written and read by *)
(* nobody in this path.                                                    *)
(***************************************************************************)
EXTENDS Integers, FiniteSets

CONSTANTS Ratios,       \* aspect ratios of the job
          Credits,      \* Credits[S]: sum of ratio_credits over the set S
          Quoted,       \* quoted_credits of the record: what Wix decremented
          MaxTries,     \* ARQ's max_tries: how often it starts a job
          MaxPosts,     \* wix_client._RETRY_ATTEMPTS
          Faults        \* which kinds of fault can happen

\* pipeline: a stage fails.  raise: a call of the job raises.  timeout, crash: of
\* the job, of its worker.  expire: of the record.  refund: a POST fails.  half:
\* Wix's refund function dies between the row and the balance.  insert: of the
\* row, fails or is reported as failed.
FaultKinds ==
    {"pipeline", "raise", "timeout", "crash", "expire", "refund", "half", "insert"}

ASSUME CreditsAssumption ==
    Credits \in [SUBSET Ratios -> Nat] /\ Credits[{}] = 0
ASSUME QuotedAssumption == Quoted \in Nat
ASSUME LimitsAssumption ==
    MaxTries \in Nat \ {0} /\ MaxPosts \in Nat \ {0} /\ Faults \subseteq FaultKinds

VARIABLES main,      \* where the main coroutine stands
          tries,     \* ARQ's job_try
          task,      \* where each ratio's coroutine stands
          outcome,   \* what each ratio's pipeline gave in this attempt
          copy,      \* the record a ratio read in update_asset
          rec,       \* redis job:{id}
          media,     \* ratios whose files are in MEDIA_DIR
          failed,    \* the failed list of this attempt, once gathered
          posts,     \* refund POSTs of this attempt
          refundTx,  \* Wix has the row refund_{job_id}
          returned,  \* credits Wix has put back on the wallet for this job
          misread,   \* history: Wix answered 200 without a row, refunded: false
          failures,  \* redis metrics:refund_failures
          uncounted, \* incr_refund_failures itself raised and was swallowed
          usage      \* ledger rows SUBMITTED and REFUND_REQUESTED

wix  == <<refundTx, returned, misread>>
run  == <<tries, failed, posts>>
work == <<task, outcome, copy, media>>
logs == <<failures, uncounted, usage>>
vars == <<main, rec, wix, run, work, logs>>

Terminal == {"completed", "partial", "failed"}
TaskBusy == {"pipeline", "save", "read", "write", "row"}
TaskOver == {"ok", "failed"}
\* The main coroutine exists.
MainBusy == {"submitted", "gather", "settle", "refund", "recordRefund",
             "refundRow", "countFailure"}
\* Nothing of the job will run again.
Over     == {"end", "aborted", "timedout", "exhausted", "missing"}

Record == [status : {"queued", "running"} \cup Terminal,
           assets : [Ratios -> {"queued", "completed", "failed"}],
           refunded : Nat]

\* As create_job_idempotent and submit_job left it.
Init ==
    /\ main      = "wait"
    /\ tries     = 0
    /\ task      = [r \in Ratios |-> "off"]
    /\ outcome   = [r \in Ratios |-> "none"]
    /\ rec       = [status |-> "queued", assets |-> [r \in Ratios |-> "queued"],
                    refunded |-> 0]
    /\ copy      = [r \in Ratios |-> rec]
    /\ media     = {}
    /\ failed    = {}
    /\ posts     = 0
    /\ refundTx  = FALSE
    /\ returned  = 0
    /\ misread   = FALSE
    /\ failures  = 0
    /\ uncounted = FALSE
    /\ usage     = [submitted |-> 1, refundRequested |-> 0]

----------------------------------------------------------------------------
(* _process_job up to the fan-out *)

\* get_job and set_status(job_id, "running").
Start ==
    /\ main = "wait"
    /\ tries < MaxTries
    /\ tries' = tries + 1
    /\ main' = "submitted"
    /\ rec' = [rec EXCEPT !.status = "running"]
    /\ failed' = {}
    /\ posts' = 0
    /\ UNCHANGED <<wix, work, logs>>

\* get_job or set_status raises.
StartRaise ==
    /\ "raise" \in Faults
    /\ main = "wait"
    /\ tries < MaxTries
    /\ tries' = tries + 1
    /\ main' = "aborted"
    /\ UNCHANGED <<rec, failed, posts, wix, work, logs>>

\* get_job finds nothing: the record's TTL ran out while the job was queued.
StartMissing ==
    /\ "expire" \in Faults
    /\ main = "wait"
    /\ main' = "missing"
    /\ UNCHANGED <<rec, wix, run, work, logs>>

\* The SUBMITTED row, then gather schedules a coroutine per ratio.
FanOut ==
    /\ main = "submitted"
    /\ main' = "gather"
    /\ usage' = [usage EXCEPT !.submitted = @ + 1]
    /\ task' = [r \in Ratios |-> "pipeline"]
    /\ outcome' = [r \in Ratios |-> "none"]
    /\ UNCHANGED <<rec, wix, run, copy, media, failures, uncounted>>

----------------------------------------------------------------------------
(* _process_ratio *)

TaskTo(r, at) == task' = [task EXCEPT ![r] = at]

\* _run_ratio_state turns every exception of the stages into an error.
Pipeline(r) ==
    /\ task[r] = "pipeline"
    /\ \/ /\ outcome' = [outcome EXCEPT ![r] = "completed"]
          /\ TaskTo(r, "save")
       \/ /\ "pipeline" \in Faults
          /\ outcome' = [outcome EXCEPT ![r] = "failed"]
          /\ TaskTo(r, "read")
    /\ UNCHANGED <<main, rec, wix, run, copy, media, logs>>

\* save_pipeline_outputs downloads the produced files.
SaveOutputs(r) ==
    /\ task[r] = "save"
    /\ media' = media \cup {r}
    /\ TaskTo(r, "read")
    /\ UNCHANGED <<main, rec, wix, run, outcome, copy, logs>>

\* update_asset: GET of the whole record ...
ReadRecord(r) ==
    /\ task[r] = "read"
    /\ copy' = [copy EXCEPT ![r] = rec]
    /\ TaskTo(r, "write")
    /\ UNCHANGED <<main, rec, wix, run, outcome, media, logs>>

\* ... and SET of the whole record with this ratio's asset changed.
WriteRecord(r) ==
    /\ task[r] = "write"
    /\ rec' = [copy[r] EXCEPT !.assets[r] = outcome[r]]
    /\ TaskTo(r, "row")
    /\ UNCHANGED <<main, wix, run, outcome, copy, media, logs>>

\* The RATIO_SUCCEEDED or RATIO_FAILED row; the coroutine returns.
RatioRow(r) ==
    /\ task[r] = "row"
    /\ TaskTo(r, IF outcome[r] = "completed" THEN "ok" ELSE "failed")
    /\ UNCHANGED <<main, rec, wix, run, outcome, copy, media, logs>>

\* Mutant: a failed download is swallowed and the ratio reported as completed.
TaskRaiseSwallowed(r) ==
    /\ "raise" \in Faults
    /\ task[r] \in {"save", "read", "write", "row"}
    /\ TaskTo(r, IF task[r] = "save" THEN "read" ELSE "raised")
    /\ UNCHANGED <<main, rec, wix, run, outcome, copy, media, logs>>

\* Anything after the pipeline raises: a download, Redis, the ledger.
TaskRaise(r) ==
    /\ "raise" \in Faults
    /\ task[r] \in {"save", "read", "write", "row"}
    /\ TaskTo(r, "raised")
    /\ UNCHANGED <<main, rec, wix, run, outcome, copy, media, logs>>

----------------------------------------------------------------------------
(* _process_job after the fan-out, and _settle *)

\* Mutant: a job of which nothing came is partial like any other.
StatusOfAny(fails) == IF fails = {} THEN "completed" ELSE "partial"

StatusOf(fails) ==
    IF fails = {} THEN "completed" ELSE IF fails = Ratios THEN "failed" ELSE "partial"

\* gather returns the outcomes; the status is set before the settlement.
Gather ==
    /\ main = "gather"
    /\ \A r \in Ratios : task[r] \in TaskOver
    /\ failed' = {r \in Ratios : task[r] = "failed"}
    /\ rec' = [rec EXCEPT !.status = StatusOf(failed')]
    /\ main' = "settle"
    /\ UNCHANGED <<tries, posts, wix, work, logs>>

\* Mutant: the error is looked at only once every coroutine has returned.
GatherRaiseLate ==
    /\ main = "gather"
    /\ \A r \in Ratios : task[r] \in TaskOver
    /\ \E r \in Ratios : task[r] = "raised"
    /\ main' = "aborted"
    /\ UNCHANGED <<rec, wix, run, work, logs>>

\* gather without return_exceptions re-raises at once: the job function ends
\* and the other coroutines run on.
GatherRaise ==
    /\ main = "gather"
    /\ \E r \in Ratios : task[r] = "raised"
    /\ main' = "aborted"
    /\ UNCHANGED <<rec, wix, run, work, logs>>

RefundDue == IF Credits[failed] <= Quoted THEN Credits[failed] ELSE Quoted

\* Nothing failed, nothing was quoted, or nothing is due: no refund.
Settle ==
    /\ main = "settle"
    /\ main' = IF failed = {} \/ Quoted = 0 \/ RefundDue = 0 THEN "end" ELSE "refund"
    /\ UNCHANGED <<rec, wix, run, work, logs>>

\* Mutant: the row is keyed by the request instead of the job.
WixRefundPerRequest ==
    /\ refundTx' = TRUE
    /\ returned' = returned + RefundDue
    /\ UNCHANGED misread

\* post_falRefund and wallet.js refund: the row refund_{job_id} is inserted
\* once; a second request is answered ok and changes nothing.
WixRefund ==
    /\ refundTx' = TRUE
    /\ returned' = IF refundTx THEN returned ELSE returned + RefundDue
    /\ UNCHANGED misread

\* The row is there and the balance not written: refund fails in between, or the
\* insert took effect and was reported as failed.
WixRefundHalf ==
    /\ refundTx' = TRUE
    /\ UNCHANGED <<returned, misread>>

\* The insert fails and leaves no row; refund takes every error of the insert for
\* the duplicate it expects and returns refunded: false.
WixInsertFails ==
    /\ ~refundTx
    /\ misread' = TRUE
    /\ UNCHANGED <<refundTx, returned>>

\* What stands behind a 200: post_falRefund answers it whatever refund returned.
Answered200 ==
    \/ WixRefund
    \/ "insert" \in Faults /\ (WixRefundHalf \/ WixInsertFails)

\* The POST is answered 2xx, which is all that the worker looks at.
RefundAcked ==
    /\ main = "refund"
    /\ Answered200
    /\ posts' = posts + 1
    /\ main' = "recordRefund"
    /\ UNCHANGED <<rec, tries, failed, work, logs>>

\* Mutants: one POST too many; the last error is swallowed.
AfterTransientLate == IF posts < MaxPosts THEN "refund" ELSE "countFailure"
AfterTransientSwallowed ==
    IF posts + 1 < MaxPosts THEN "refund" ELSE "recordRefund"

AfterTransient == IF posts + 1 < MaxPosts THEN "refund" ELSE "countFailure"

\* The POST fails transiently, before Wix handled it, midway or after (a 5xx or
\* a lost answer); tenacity tries MaxPosts times in all.
RefundTransient ==
    /\ "refund" \in Faults
    /\ main = "refund"
    /\ \/ WixRefund \/ UNCHANGED wix
       \/ Faults \cap {"half", "insert"} # {} /\ WixRefundHalf
    /\ posts' = posts + 1
    /\ main' = AfterTransient
    /\ UNCHANGED <<rec, tries, failed, work, logs>>

\* Mutant: a 4xx is taken for "nothing to refund".
RefundRejectedSilently ==
    /\ "refund" \in Faults
    /\ main = "refund"
    /\ posts' = posts + 1
    /\ main' = "end"
    /\ UNCHANGED <<rec, wix, tries, failed, work, logs>>

\* A 4xx is not retried.
RefundRejected ==
    /\ "refund" \in Faults
    /\ main = "refund"
    /\ posts' = posts + 1
    /\ main' = "countFailure"
    /\ UNCHANGED <<rec, wix, tries, failed, work, logs>>

\* Mutant: the sum over the failed ratios is recorded, not what was refunded.
RecordUnclamped ==
    /\ main = "recordRefund"
    /\ rec' = [rec EXCEPT !.refunded = Credits[failed]]
    /\ main' = "refundRow"
    /\ UNCHANGED <<wix, run, work, logs>>

\* update_job(job_id, refunded_credits=...).
RecordRefund ==
    /\ main = "recordRefund"
    /\ rec' = [rec EXCEPT !.refunded = RefundDue]
    /\ main' = "refundRow"
    /\ UNCHANGED <<wix, run, work, logs>>

RefundRow ==
    /\ main = "refundRow"
    /\ usage' = [usage EXCEPT !.refundRequested = @ + RefundDue]
    /\ main' = "end"
    /\ UNCHANGED <<rec, wix, run, work, failures, uncounted>>

\* incr_refund_failures, whose own exception is swallowed.
CountFailure ==
    /\ main = "countFailure"
    /\ \/ /\ failures' = failures + 1
          /\ UNCHANGED uncounted
       \/ /\ "raise" \in Faults
          /\ uncounted' = TRUE
          /\ UNCHANGED failures
    /\ main' = "end"
    /\ UNCHANGED <<rec, wix, run, work, usage>>

\* A call of the main coroutine raises.  _settle catches what happens after
\* the refund POST and counts it as a failed refund; before that the job
\* function ends.
MainRaise ==
    /\ "raise" \in Faults
    /\ \/ /\ main = "submitted" \/ (main = "gather" /\ \A r \in Ratios : task[r] \in TaskOver)
          /\ main' = "aborted"
       \/ /\ main \in {"recordRefund", "refundRow"}
          /\ main' = "countFailure"
    /\ UNCHANGED <<rec, wix, run, work, logs>>

----------------------------------------------------------------------------
(* ARQ *)

\* job_timeout: ARQ cancels the main coroutine and, through gather, the others;
\* CancelledError passes every except Exception.
TimeOut ==
    /\ "timeout" \in Faults
    /\ main \in MainBusy
    /\ main' = "timedout"
    /\ task' = [r \in Ratios |-> "off"]
    /\ UNCHANGED <<rec, wix, run, outcome, copy, media, logs>>

\* The worker process dies; ARQ still lists the job and will start it again.
Crash ==
    /\ "crash" \in Faults
    /\ main \in MainBusy
    /\ main' = "wait"
    /\ task' = [r \in Ratios |-> "off"]
    /\ UNCHANGED <<rec, wix, run, outcome, copy, media, logs>>

\* The job was started MaxTries times: ARQ fails it without running it.
GiveUp ==
    /\ main = "wait"
    /\ tries = MaxTries
    /\ main' = "exhausted"
    /\ UNCHANGED <<rec, wix, run, work, logs>>

TaskStep(r) == Pipeline(r) \/ SaveOutputs(r) \/ ReadRecord(r) \/ WriteRecord(r) \/ RatioRow(r)

MainStep ==
    \/ Start \/ FanOut \/ Gather \/ GatherRaise \/ Settle
    \/ RefundAcked \/ RefundTransient \/ RefundRejected
    \/ RecordRefund \/ RefundRow \/ CountFailure \/ GiveUp

Next ==
    \/ MainStep
    \/ \E r \in Ratios : TaskStep(r) \/ TaskRaise(r)
    \/ StartMissing \/ StartRaise \/ MainRaise \/ TimeOut \/ Crash

Spec == Init /\ [][Next]_vars

\* The worker's event loop runs every coroutine that can run, and ARQ picks
\* queued jobs up; faults are never forced.
FairSpec == Spec /\ WF_vars(MainStep) /\ \A r \in Ratios : WF_vars(TaskStep(r))

----------------------------------------------------------------------------
(* Properties *)

\* The values each variable takes.
TypeOK ==
    /\ main \in MainBusy \cup Over \cup {"wait"}
    /\ tries \in 0..MaxTries
    /\ task \in [Ratios -> TaskBusy \cup TaskOver \cup {"off", "raised"}]
    /\ outcome \in [Ratios -> {"none", "completed", "failed"}]
    /\ copy \in [Ratios -> Record]
    /\ rec \in Record
    /\ media \in SUBSET Ratios
    /\ failed \in SUBSET Ratios
    /\ posts \in 0..MaxPosts
    /\ refundTx \in BOOLEAN
    /\ returned \in Nat
    /\ misread \in BOOLEAN
    /\ failures \in Nat
    /\ uncounted \in BOOLEAN
    /\ usage \in [submitted : Nat, refundRequested : Nat]

\* Whatever the retries of the POST, the lost answers and the reruns of the
\* job, Wix returns credits for a job at most once and never more than it
\* decremented for it ("over-refund mints credits").
NeverOverRefunded ==
    /\ returned <= Quoted
    /\ returned > 0 => refundTx

\* What the poll reports as refunded, and what the ledger says was refunded,
\* was at least taken up by Wix: the row refund_{job_id} is there, unless Wix
\* itself answered 200 after an insert that failed (wallet.js:137,
\* http-functions.js:87-88).  Nothing else makes a report without a row: no lost
\* answer, no rerun and no stale copy of the record written back.
ReportedRefundIsReal ==
    rec.refunded > 0 \/ usage.refundRequested > 0 => refundTx \/ misread

\* An asset is shown as completed, and the job as completed, only when the
\* files are there to be served, in this attempt or an earlier one.
CompletedHasMedia ==
    /\ \A r \in Ratios : rec.assets[r] = "completed" => r \in media
    /\ rec.status = "completed" => media = Ratios

\* An attempt that ran to its end with failed ratios has got its refund to Wix
\* or left a trace that it owes one.  Silent are only two things: that the trace
\* could not be left, and that Wix answered 200 without a row, whose refunded:
\* false the worker does not read (worker.py:200-208).
OwedIsReturnedOrCounted ==
    main = "end" /\ failed # {} /\ RefundDue > 0 =>
        refundTx \/ failures > 0 \/ uncounted \/ misread

\* Without a rerun, and unless Wix stopped halfway or answered 200 without a row,
\* the credits returned, the credits reported and the credits of the failed
\* ratios are the same number.
FirstAttemptSettlesExactly ==
    /\ main = "end" /\ tries = 1
    /\ failures = 0 /\ ~uncounted /\ ~misread
    /\ refundTx => returned > 0
    => returned = RefundDue /\ rec.refunded = returned

\* The record that polls read keeps JobRecord's promise: what the ratios write
\* over each other shows no asset without its files, a first run's final status
\* says what was produced, and only a rerun takes a final status back.
Shown ==
    {r \in Ratios : rec.status \in {"completed", "partial"} /\ rec.assets[r] = "completed"}
Reruns == IF tries > 1 THEN tries - 1 ELSE 0
J == INSTANCE JobRecord WITH Assets <- Ratios, MaxReruns <- MaxTries - 1,
        status <- rec.status, completed <- Shown, stored <- media, reruns <- Reruns
KeepsRecord == J!Spec

\* A queued job comes to its end or to one of the ways ARQ drops it: neither
\* the fan-out nor the refund's retries wait for ever.
JobEnds == (main = "wait") ~> (main \in Over)

\* jobs.py: "On `completed`: all 3 ratios have `video_url`".
CompletedShowsEveryAsset ==
    rec.status = "completed" => \A r \in Ratios : rec.assets[r] = "completed"

\* jobs.py: "`refunded_credits > 0` means the worker already refunded the failed
\* portion back to Wix".
RefundedMeansReturned == rec.refunded > 0 => returned > 0
============================================================================
