---------------------------- MODULE FalPipeline ----------------------------
(***************************************************************************)
(* The stages of the aspect ratios a worker process runs, down to the      *)
(* requests they make of fal: app/pipeline/graph.py and worker.py          *)
(* _run_ratio_state choose the stages, app/providers/fal_client.py runs    *)
(* one: a slot of the semaphore, a POST that starts a fal job and is paid  *)
(* for, polls, the result.  The stages of all ratios interleave at every   *)
(* request, and with the account and its circuit (FalBalance).             *)
(*                                                                         *)
(* A task is one ratio of a job.  What the worker makes of its end, and    *)
(* which jobs ARQ runs again after the worker's death, is in JobWorker.    *)
(***************************************************************************)
EXTENDS FalBalance, FiniteSets

CONSTANTS Tasks,     \* aspect ratios of all jobs
          Job,       \* Job[t]: the job of task t
          Service,   \* Service[t]: upscale, image_to_video or media_kit
          do_expand, \* do_expand[t]: the kit's image is outpainted
          Slots,     \* max_fal_concurrency
          Attempts,  \* _RETRY_ATTEMPTS
          MaxPolls,  \* _POLL_MAX_ATTEMPTS
          MaxFaults  \* bound: faults in one behaviour, each a lost answer to
                     \* a POST, a failed balance read or a death of the worker

Jobs == {Job[t] : t \in Tasks}

ASSUME PipelineAssumption ==
    /\ IsFiniteSet(Tasks)
    /\ Service \in [Tasks -> {"upscale", "image_to_video", "media_kit"}]
    /\ do_expand \in [Tasks -> BOOLEAN]
    /\ Slots \in Nat /\ Attempts \in Nat \ {0} /\ MaxPolls \in Nat
    /\ MaxFaults \in Nat

VARIABLES pc,    \* the request a task stands at, or how it ended
          stage, \* the stage a task is in
          tries, \* failed attempts at the current request
          polls, \* status requests of the stage
          made,  \* made[t]: the stages whose output the task's state has
          paid,  \* paid[t][s]: fal jobs started for stage s in t's run
          spent, \* spent[t][s]: fal jobs of runs that died with a worker
          free,  \* the semaphore's value
          faults \* faults so far

taskVars == <<pc, stage, tries, polls, made, paid, spent, free>>
vars     == <<balanceVars, taskVars, faults>>

Stages  == {"upscale", "expand", "video"}
Holding == {"post", "poll", "get"}
Ends    == {"done", "error", "cancelled", "shed"}

FirstStage(t) == IF Service[t] = "image_to_video" THEN "video" ELSE "upscale"

NoStage == [s \in Stages |-> 0]

Init ==
    /\ BalanceInit
    /\ pc    = [t \in Tasks |-> "new"]
    /\ stage = [t \in Tasks |-> FirstStage(t)]
    /\ tries = [t \in Tasks |-> 0]
    /\ polls = [t \in Tasks |-> 0]
    /\ made  = [t \in Tasks |-> {}]
    /\ paid  = [t \in Tasks |-> NoStage]
    /\ spent = [t \in Tasks |-> NoStage]
    /\ free  = Slots
    /\ faults = 0

Fault == faults < MaxFaults /\ faults' = faults + 1

GoTo(t, at) == pc' = [pc EXCEPT ![t] = at]

\* The counters are locals of the request and of the stage.
NewRequest(t) == tries' = [tries EXCEPT ![t] = 0]
NewStage(t) == NewRequest(t) /\ polls' = [polls EXCEPT ![t] = 0]

\* The API looks at the circuit of its own process and sheds the job, or it is
\* queued and its ratios start.
Submit(j) ==
    /\ \A t \in Tasks : Job[t] = j => pc[t] = "new"
    /\ pc' = [t \in Tasks |-> IF Job[t] # j THEN pc[t]
                              ELSE IF is_circuit_open("api") THEN "shed" ELSE "wait"]
    /\ UNCHANGED <<balanceVars, stage, tries, polls, made, paid, spent, free, faults>>

----------------------------------------------------------------------------
(* submit_and_wait *)

\* async with _semaphore
Acquire(t) ==
    /\ pc[t] = "wait"
    /\ free > 0
    /\ free' = free - 1
    /\ GoTo(t, "post")
    /\ UNCHANGED <<balanceVars, stage, tries, polls, made, paid, spent, faults>>

\* Mutant: a stage that fails keeps its slot.
FailKeepsSlot(t) ==
    /\ GoTo(t, "error")
    /\ NewStage(t)
    /\ UNCHANGED <<stage, made, free>>

\* The exception leaves the semaphore, becomes the state's error, and every
\* route leads to the sink.
Fail(t) ==
    /\ GoTo(t, "error")
    /\ free' = free + 1
    /\ NewStage(t)
    /\ UNCHANGED <<stage, made>>

Start(t) == paid' = [paid EXCEPT ![t][stage[t]] = @ + 1]

\* Mutant: an unexpected status has the stage posted again.
GoOnAnew(t, status) ==
    IF status = "unexpected"
    THEN GoTo(t, "post") /\ UNCHANGED <<stage, tries, polls, made, free>>
    ELSE /\ GoTo(t, "get")
         /\ NewStage(t)
         /\ UNCHANGED <<stage, made, free>>

\* The loop's test on a status fal has answered.
GoOn(t, status) ==
    \/ /\ status = "COMPLETED"
       /\ GoTo(t, "get")
       /\ NewStage(t)
       /\ UNCHANGED <<stage, made, free>>
    \/ /\ status = "IN_PROGRESS" /\ polls[t] < MaxPolls
       /\ GoTo(t, "poll")
       /\ NewRequest(t)
       /\ polls' = [polls EXCEPT ![t] = @ + 1]
       /\ UNCHANGED <<stage, made, free>>
    \/ status = "IN_PROGRESS" /\ polls[t] >= MaxPolls /\ Fail(t)
    \/ status = "unexpected" /\ Fail(t)

Statuses == {"IN_PROGRESS", "COMPLETED", "unexpected"}

Posted(t, status) ==
    /\ pc[t] = "post"
    /\ account # "zero"
    /\ Start(t)
    /\ GoOn(t, status)
    /\ UNCHANGED <<balanceVars, spent, faults>>

Polled(t, status) ==
    /\ pc[t] = "poll"
    /\ GoOn(t, status)
    /\ UNCHANGED <<balanceVars, paid, spent, faults>>

\* Mutant: the request is repeated for ever.
TryAgainAlways(t) ==
    /\ tries' = [tries EXCEPT ![t] = @ + 1]
    /\ UNCHANGED <<pc, stage, polls, made, free>>

\* _request: a transient failure is retried up to _RETRY_ATTEMPTS.
TryAgain(t) ==
    \/ /\ tries[t] + 1 < Attempts
       /\ tries' = [tries EXCEPT ![t] = @ + 1]
       /\ UNCHANGED <<pc, stage, polls, made, free>>
    \/ tries[t] + 1 >= Attempts /\ Fail(t)

\* A network error, a timeout or a 5xx; a POST may have started a job, whose
\* answer is lost.
Transient(t) ==
    /\ pc[t] \in Holding
    /\ TryAgain(t)
    /\ \/ UNCHANGED <<paid, faults>>
       \/ pc[t] = "post" /\ account # "zero" /\ Start(t) /\ Fault
    /\ UNCHANGED <<balanceVars, spent>>

\* 402: the account is empty, or too low for this request.
Unpaid(t) ==
    /\ pc[t] = "post"
    /\ account # "ok"
    /\ Fail(t)
    /\ circuit' = [circuit EXCEPT !["worker"] = CountUnpaid(@)]
    /\ UNCHANGED <<account, check, seen, paid, spent, faults>>

\* Any other 4xx, never retried.
Rejected(t) ==
    /\ pc[t] \in Holding
    /\ Fail(t)
    /\ UNCHANGED <<balanceVars, paid, spent, faults>>

----------------------------------------------------------------------------
(* The graph's edges, or the single stage of the other services *)

\* Mutant: a kit whose image is to be outpainted goes straight to the video.
RouteToVideo(t) ==
    IF stage[t] = "upscale" /\ Service[t] = "media_kit" THEN "video" ELSE "end"

Route(t) ==
    IF Service[t] # "media_kit" \/ stage[t] = "video" THEN "end"
    ELSE IF stage[t] = "upscale" /\ do_expand[t] THEN "expand" ELSE "video"

\* The node puts the stage's output into the state.
Output(t) == made' = [made EXCEPT ![t] = @ \cup {stage[t]}]

\* The result lacks the stage's url: the tool raises once the slot is free.
NoUrl(t) ==
    /\ pc[t] = "get"
    /\ Fail(t)
    /\ UNCHANGED <<balanceVars, paid, spent, faults>>

\* The result is read and the slot released; the next stage asks for one anew.
StageDone(t) ==
    /\ pc[t] = "get"
    /\ free' = free + 1
    /\ Output(t)
    /\ \/ /\ Route(t) = "end"
          /\ GoTo(t, "done")
          /\ UNCHANGED stage
       \/ /\ Route(t) # "end"
          /\ GoTo(t, "wait")
          /\ stage' = [stage EXCEPT ![t] = Route(t)]
    /\ NewStage(t)
    /\ UNCHANGED <<balanceVars, paid, spent, faults>>

Live(t) == pc[t] \notin Ends \cup {"new"}

\* Of the POSTs that wait for an answer nobody will read, some have started a fal
\* job.
Unheard == {t \in Tasks : pc[t] = "post" /\ account # "zero"}
PaidWith(begun) ==
    [t \in Tasks |-> IF t \in begun THEN [paid[t] EXCEPT ![stage[t]] = @ + 1]
                                    ELSE paid[t]]

\* ARQ's job_timeout cancels the job's ratios wherever they wait.
Timeout(j) ==
    LET mine == {t \in Tasks : Job[t] = j /\ Live(t)}
    IN /\ mine # {}
       /\ pc' = [t \in Tasks |-> IF t \in mine THEN "cancelled" ELSE pc[t]]
       /\ free' = free + Cardinality({t \in mine : pc[t] \in Holding})
       /\ \E begun \in SUBSET (mine \cap Unheard) : paid' = PaidWith(begun)
       /\ tries' = [t \in Tasks |-> IF t \in mine THEN 0 ELSE tries[t]]
       /\ polls' = [t \in Tasks |-> IF t \in mine THEN 0 ELSE polls[t]]
       /\ UNCHANGED <<balanceVars, stage, made, spent, faults>>

\* A job that ARQ may run again: it had started, was not timed out, and if all
\* its ratios have ended it may not yet be settled.
Rerunnable(j) ==
    \A t \in Tasks : Job[t] = j => pc[t] \notin {"new", "shed", "cancelled"}

\* The worker's process dies, with its semaphore, its circuit and its check.  ARQ
\* runs jobs again from the start: _process_job fans out over every ratio of the
\* record, whatever its assets say, and a ratio's state begins empty.
Die ==
    /\ Fault
    /\ \E again \in SUBSET {j \in Jobs : Rerunnable(j)}, begun \in SUBSET Unheard :
          LET Anew(t) == Job[t] \in again
          IN /\ pc' = [t \in Tasks |-> IF Anew(t) THEN "wait"
                                       ELSE IF Live(t) THEN "cancelled" ELSE pc[t]]
             /\ stage' = [t \in Tasks |-> IF Anew(t) THEN FirstStage(t) ELSE stage[t]]
             /\ made' = [t \in Tasks |-> IF Anew(t) THEN {} ELSE made[t]]
             /\ paid' = [t \in Tasks |-> IF Anew(t) THEN NoStage ELSE PaidWith(begun)[t]]
             /\ spent' = [t \in Tasks |->
                    IF Anew(t) THEN [s \in Stages |-> spent[t][s] + PaidWith(begun)[t][s]]
                               ELSE spent[t]]
    /\ tries' = [t \in Tasks |-> 0]
    /\ polls' = [t \in Tasks |-> 0]
    /\ free' = Slots
    /\ circuit' = [circuit EXCEPT !["worker"] = Closed]
    /\ check' = "idle" /\ seen' = "none"
    /\ UNCHANGED account

----------------------------------------------------------------------------
TaskStep(t) ==
    \/ Acquire(t)
    \/ \E status \in Statuses : Posted(t, status) \/ Polled(t, status)
    \/ Transient(t) \/ Unpaid(t) \/ Rejected(t)
    \/ NoUrl(t) \/ StageDone(t)

CheckStep ==
    \/ /\ (\E shape \in Shapes : Fetch(shape)) \/ Evaluate \/ Alerted
       /\ UNCHANGED <<taskVars, faults>>
    \/ FetchFails /\ Fault /\ UNCHANGED taskVars

AccountStep == (Draw \/ TopUp) /\ UNCHANGED <<taskVars, faults>>

Next ==
    \/ \E j \in Jobs : Submit(j) \/ Timeout(j)
    \/ \E t \in Tasks : TaskStep(t)
    \/ Die
    \/ CheckStep
    \/ AccountStep

\* Every request ends (httpx times out after 60 s), so some ratio goes on while
\* there is one; ARQ runs the check every five minutes.
Spec ==
    /\ Init /\ [][Next]_vars
    /\ WF_vars(\E t \in Tasks : TaskStep(t))
    /\ WF_vars(CheckStep)

----------------------------------------------------------------------------
(* Properties *)

TypeOK ==
    /\ BalanceTypeOK
    /\ pc \in [Tasks -> {"new", "wait"} \cup Holding \cup Ends]
    /\ stage \in [Tasks -> Stages]
    /\ tries \in [Tasks -> 0..Attempts - 1]
    /\ polls \in [Tasks -> 0..MaxPolls]
    /\ made \in [Tasks -> SUBSET Stages]
    /\ paid \in [Tasks -> [Stages -> Nat]]
    /\ spent \in [Tasks -> [Stages -> Nat]]
    /\ free \in 0..Slots
    /\ faults \in 0..MaxFaults

\* The semaphore loses no slot and gains none, whichever way a stage ends: a
\* result, an exception or the job's cancellation in the middle of a request.
SlotsConserved ==
    free + Cardinality({t \in Tasks : pc[t] \in Holding}) = Slots

Plan(t) ==
    CASE Service[t] = "upscale"        -> {"upscale"}
      [] Service[t] = "image_to_video" -> {"video"}
      [] Service[t] = "media_kit"      ->
             IF do_expand[t] THEN Stages ELSE {"upscale", "video"}

\* In one run of its job, a task that ends well has the output of every stage its
\* service promises and of no other; a stage is paid for only when all before it
\* have their output, so nothing is bought after a failure.
StagesInOrder ==
    \A t \in Tasks :
        /\ pc[t] = "done" => made[t] = Plan(t)
        /\ \A s \in Stages : paid[t][s] > 0 =>
              /\ s \in Plan(t)
              /\ s # "upscale" /\ Service[t] = "media_kit" => "upscale" \in made[t]
              /\ s = "video" /\ Service[t] = "media_kit" /\ do_expand[t] =>
                    "expand" \in made[t]
        /\ \A s \in made[t] : paid[t][s] > 0

\* A stage is bought once for the job; each further fal job stands for a POST
\* whose answer was lost, or for a death of the worker after which ARQ ran the job
\* anew and every stage of every ratio is bought again (worker.py:253-269).  In
\* one run it is bought no more often than a request has attempts.
BoughtOnce ==
    \A t \in Tasks, s \in Stages :
        /\ spent[t][s] + paid[t][s] <= 1 + faults
        /\ paid[t][s] <= Attempts

\* Nobody waits for a slot, a job or an answer for ever.
TasksEnd == \A t \in Tasks : []<>(pc[t] \in {"new"} \cup Ends)

\* The account does not stay empty with the circuit closed, nor topped up with
\* the circuit open, where the check can read the balance.
CircuitFollows ==
    /\ []<>(account # "zero" \/ is_circuit_open("worker"))
    /\ []<>(account # "ok" \/ ~is_circuit_open("worker"))

\* fal_balance.py:5: "trips the circuit breaker so new submit endpoints return
\* 503 *before* decrementing the member's wallet": no job is taken on while the
\* circuit is open.
ExhaustedMeans503 ==
    [][is_circuit_open("worker") =>
          \A t \in Tasks : pc[t] = "new" => pc'[t] # "wait"]_vars
=============================================================================
