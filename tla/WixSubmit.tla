----------------------------- MODULE WixSubmit -----------------------------
(***************************************************************************)
(* The spend path of one member, across the three parties that touch the   *)
(* credits of a submission: docs/wix-site/backend/media.web.js submit and  *)
(* reconcileSubmit on Wix, the job service behind callFastApi, and the     *)
(* worker's settlement.  A submission s is one call of submit with the     *)
(* clientRef it generates.                                                 *)
(*                                                                         *)
(* Each await is an action.  spend and refund are steps of Account, which  *)
(* Wallet implements while the timing of its lock holds; what ApiSubmit    *)
(* and JobWorker check in detail is one step here: the claim of a          *)
(* reference, the save of its record, the settlement of a job.             *)
(*                                                                         *)
(* Pricing gives the quote that is held and the refund that is due.        *)
(***************************************************************************)
EXTENDS Pricing

CONSTANTS Subs,         \* submissions; each has a clientRef of its own
          Params,       \* what the page of each submission can send (see Pricing)
          RoleNames,    \* the member's roles
          StartBalance, \* the member's credits before the submissions
          MaxFaults,    \* bound: faults in one behaviour
          Faults        \* which kinds of fault can happen

\* crash: a Velo invocation dies.  io: a wixData operation or a GET fails.
\* api: a handler of the job service dies between claim and enqueue.
\* early: a sweep asks while a POST of the submission can still land.
\* late: a sweep asks after the job's record has expired (JOB_TTL_SECONDS).
\* deny: a retry is refused (401, 403, 404) although the first POST may land.
FaultKinds == {"crash", "io", "api", "early", "late", "deny"}

ASSUME LimitsAssumption ==
    StartBalance \in Nat /\ MaxFaults \in Nat /\ Faults \subseteq FaultKinds

ASSUME ParamsAssumption ==
    \A s \in Subs : \A p \in Params[s] :
        /\ p.service \in Services
        /\ Ratios(p) \in Nat
        /\ Get(p, "images", 1) \in Int
        /\ Get(p, "duration", 5) \in Int

VARIABLES pc,       \* where the submission's invocation stands, or its result
          asked,    \* the parameters it was called with
          sweep,    \* where reconcileSubmit stands for the reference
          intent,   \* PendingSubmits has a row for the reference
          owned,    \* Jobs has a row for the reference's job
          inflight, \* abandoned POSTs that can still reach a handler
          job,      \* what the job service has for the reference
          failed,   \* how many ratios of the job failed
          taken,    \* spend_{clientRef}: the credits have been taken
          rows,     \* the refunds in TokenTransactions
          returned, \* credits added back to the balance for this submission
          balance,  \* the member's credits
          faults    \* faults so far

page    == <<pc, asked>>
wixrows == <<sweep, intent, owned>>
service == <<inflight, job, failed>>
wallet  == <<taken, rows, returned, balance>>
vars    == <<page, wixrows, service, wallet, faults>>

Waiting == {"first", "second"}
Results == {"accepted", "refused", "pending", "error"}
Sweeps  == {"idle", "ask", "askBlind", "row", "giveback", "forget"}

\* orphan: claimed by a handler that died before it saved the record.
\* stuck: saved by a handler that died before it enqueued the job.
Jobs == {"none", "claimed", "orphan", "stuck", "queued", "ended", "expired"}
Runs == {"queued", "ended", "expired"}

NoParams == [service |-> "none"]

Init ==
    /\ pc       = [s \in Subs |-> "idle"]
    /\ asked    = [s \in Subs |-> NoParams]
    /\ sweep    = [s \in Subs |-> "idle"]
    /\ intent   = [s \in Subs |-> FALSE]
    /\ owned    = [s \in Subs |-> FALSE]
    /\ inflight = [s \in Subs |-> 0]
    /\ job      = [s \in Subs |-> "none"]
    /\ failed   = [s \in Subs |-> 0]
    /\ taken    = [s \in Subs |-> FALSE]
    /\ rows     = {}
    /\ returned = [s \in Subs |-> 0]
    /\ balance  = StartBalance
    /\ faults   = 0

GoTo(s, at) == pc' = [pc EXCEPT ![s] = at]
SweepTo(s, at) == sweep' = [sweep EXCEPT ![s] = at]

Fault(kind) ==
    /\ kind \in Faults
    /\ faults < MaxFaults
    /\ faults' = faults + 1

Credits(s) == Quote(asked[s])

----------------------------------------------------------------------------
(* lib/wallet.js *)

A == INSTANCE Account

Unread == A!Unread

\* The rows refund_{clientRef} and refund_{job_id}.
Ref(s)    == <<"clientRef", s>>
JobRow(s) == <<"job_id", s>>

\* spend
TakeCredits(s, seen) ==
    /\ A!Take(Credits(s), seen)
    /\ taken' = [taken EXCEPT ![s] = TRUE]
    /\ UNCHANGED returned

\* refund goes all the way, on the balance that it has seen.
AddCredits(s, x, c, seen) ==
    /\ A!Credit(x, c, seen)
    /\ returned' = [returned EXCEPT ![s] = @ + c]

\* Mutant: not idempotent.
RefundAgain(s, x, c) ==
    /\ rows' = rows \cup {x}
    /\ returned' = [returned EXCEPT ![s] = @ + c]
    /\ balance' = balance + c
    /\ UNCHANGED taken

\* Nothing to do without credits, or when the row is there already.
Refund(s, x, c) ==
    /\ IF c = 0 \/ x \in rows THEN UNCHANGED <<rows, returned, balance>>
       ELSE AddCredits(s, x, c, balance)
    /\ UNCHANGED taken

\* refund can not read the balance and overwrites it.
RefundUnread(s, x, c) ==
    /\ c > 0
    /\ AddCredits(s, x, c, Unread)
    /\ UNCHANGED taken

\* refund throws or dies before its row is inserted, between row and balance, or
\* at the very end.
RefundStops(s, x, c) ==
    \/ UNCHANGED wallet
    \/ c > 0 /\ A!Note(x) /\ UNCHANGED <<taken, returned>>
    \/ Refund(s, x, c)
    \/ RefundUnread(s, x, c)

----------------------------------------------------------------------------
(* submit *)

ServiceRoles ==
    [upscale        |-> {"member", "pro", "admin"},
     image_to_video |-> {"pro", "admin"},
     media_kit      |-> {"pro", "admin"}]

\* memberContext: whoever is logged in is a member at least.
MemberRoles == RoleNames \cup {"member"}

\* assertRole
Allowed(p) == MemberRoles \cap ServiceRoles[p.service] # {}

\* memberContext, assertRole and quoteCredits; any of them may throw.
Submit(s, p) ==
    /\ pc[s] = "idle"
    /\ asked' = [asked EXCEPT ![s] = p]
    /\ \/ GoTo(s, "refused")
       \/ Allowed(p) /\ Quotable(p) /\ GoTo(s, "spend")
    /\ UNCHANGED <<wixrows, service, wallet, faults>>

\* Mutant: a page that can not pay is served.
SpendUnchecked(s) ==
    /\ pc[s] = "spend"
    /\ GoTo(s, "first")
    /\ taken' = [taken EXCEPT ![s] = TRUE]
    /\ balance' = balance - Credits(s)
    /\ UNCHANGED <<asked, wixrows, service, rows, returned, faults>>

Spend(s) ==
    /\ pc[s] = "spend"
    /\ \/ balance < Credits(s) /\ GoTo(s, "refused") /\ UNCHANGED wallet
       \/ TakeCredits(s, balance) /\ GoTo(s, "first")
    /\ UNCHANGED <<asked, wixrows, service, faults>>

\* spend throws or dies; it writes the balance before it inserts its row.
SpendStops(s) == UNCHANGED wallet \/ \E seen \in {balance, Unread} : TakeCredits(s, seen)

\* spend throws, or it can not read the balance: too little, unless the quote is
\* for nothing.
SpendFails(s) ==
    /\ pc[s] = "spend"
    /\ Fault("io")
    /\ \/ SpendStops(s) /\ GoTo(s, "error")
       \/ Credits(s) > 0 /\ GoTo(s, "refused") /\ UNCHANGED wallet
       \/ TakeCredits(s, Unread) /\ GoTo(s, "first")
    /\ UNCHANGED <<asked, wixrows, service>>

\* 202 with the reference's job id: by the handler that saved and enqueued the
\* job, or by one that found the reference claimed.
Accepted(s) ==
    /\ pc[s] \in Waiting
    /\ job[s] # "none"
    /\ GoTo(s, "row")
    /\ UNCHANGED <<asked, wixrows, service, wallet, faults>>

\* No POST of the submission has landed, and none can land any more.
NothingLands(s) == inflight[s] = 0 /\ job[s] = "none"

\* An answer of 401, 403, 404 or 422 can come: the schema refuses the request,
\* or the service the caller.
Definitive(s) ==
    \/ ~Submittable(asked[s])
    \/ NothingLands(s)
    \/ pc[s] = "second" /\ "deny" \in Faults

\* Mutant: a rejected submission is not refunded.
RejectedUnpaid(s) ==
    /\ pc[s] \in Waiting
    /\ Definitive(s)
    /\ GoTo(s, "refused")
    /\ UNCHANGED <<asked, wixrows, service, wallet, faults>>

\* One of the codes of DEFINITIVE_REJECT.
Rejected(s) ==
    /\ pc[s] \in Waiting
    /\ Definitive(s)
    /\ GoTo(s, "giveback")
    /\ UNCHANGED <<asked, wixrows, service, wallet, faults>>

\* Mutant: a second answer of another code (429, 503, 500) is definitive too.
UnclearDefinitive(s) ==
    /\ pc[s] \in Waiting
    /\ GoTo(s, IF pc[s] = "first" THEN "second" ELSE "giveback")
    /\ \/ UNCHANGED inflight
       \/ inflight' = [inflight EXCEPT ![s] = @ + 1]
    /\ UNCHANGED <<asked, wixrows, job, failed, wallet, faults>>

\* Any other code, a timeout or a lost connection.  The POST has been handled
\* or is lost, or it is still on its way.
Unclear(s) ==
    /\ pc[s] \in Waiting
    /\ GoTo(s, IF pc[s] = "first" THEN "second" ELSE "park")
    /\ \/ UNCHANGED inflight
       \/ inflight' = [inflight EXCEPT ![s] = @ + 1]
    /\ UNCHANGED <<asked, wixrows, job, failed, wallet, faults>>

\* refund('submit_rejected') and rethrow
GiveBack(s) ==
    /\ pc[s] = "giveback"
    /\ GoTo(s, "refused")
    /\ Refund(s, Ref(s), Credits(s))
    /\ UNCHANGED <<asked, wixrows, service, faults>>

\* refund throws; or its insert fails or is reported as failed, which it takes
\* for a duplicate; or the balance can not be read.
GiveBackFails(s) ==
    /\ pc[s] = "giveback"
    /\ Fault("io")
    /\ RefundStops(s, Ref(s), Credits(s))
    /\ GoTo(s, "error") \/ GoTo(s, "refused")
    /\ UNCHANGED <<asked, wixrows, service>>

\* Mutant: the intent is not parked.
ParkNothing(s) ==
    /\ pc[s] = "park"
    /\ GoTo(s, "pending")
    /\ UNCHANGED <<asked, wixrows, service, wallet, faults>>

Park(s) ==
    /\ pc[s] = "park"
    /\ GoTo(s, "pending")
    /\ intent' = [intent EXCEPT ![s] = TRUE]
    /\ UNCHANGED <<asked, sweep, owned, service, wallet, faults>>

\* save('PendingSubmits') fails, which is swallowed.
ParkFails(s) ==
    /\ pc[s] = "park"
    /\ Fault("io")
    /\ GoTo(s, "pending")
    /\ UNCHANGED <<asked, wixrows, service, wallet>>

\* save('Jobs'); there is no intent to remove yet.
Own(s) ==
    /\ pc[s] = "row"
    /\ GoTo(s, "accepted")
    /\ owned' = [owned EXCEPT ![s] = TRUE]
    /\ UNCHANGED <<asked, sweep, intent, service, wallet, faults>>

\* The save fails, or getBalance after it.
OwnFails(s) ==
    /\ pc[s] = "row"
    /\ Fault("io")
    /\ GoTo(s, "error")
    /\ owned' \in {owned, [owned EXCEPT ![s] = TRUE]}
    /\ UNCHANGED <<asked, sweep, intent, service, wallet>>

\* The invocation dies, a wallet call with it; a POST it waits for may be on its
\* way.
Crash(s) ==
    /\ pc[s] \notin Results \cup {"idle"}
    /\ Fault("crash")
    /\ GoTo(s, "error")
    /\ \/ UNCHANGED inflight
       \/ /\ pc[s] \in Waiting
          /\ inflight' = [inflight EXCEPT ![s] = @ + 1]
    /\ \/ UNCHANGED wallet
       \/ pc[s] = "spend" /\ SpendStops(s)
       \/ pc[s] = "giveback" /\ RefundStops(s, Ref(s), Credits(s))
    /\ UNCHANGED <<asked, wixrows, job, failed>>

----------------------------------------------------------------------------
(* The job service and its worker *)

\* A handler of one of the submission's POSTs claims the reference.
Claim(s) ==
    /\ job[s] = "none"
    /\ pc[s] \in Waiting \/ inflight[s] > 0
    /\ Submittable(asked[s])
    /\ job' = [job EXCEPT ![s] = "claimed"]
    /\ UNCHANGED <<page, wixrows, inflight, failed, wallet, faults>>

\* It saves the record, charges and enqueues the job.
SaveJob(s) ==
    /\ job[s] = "claimed"
    /\ job' = [job EXCEPT ![s] = "queued"]
    /\ UNCHANGED <<page, wixrows, inflight, failed, wallet, faults>>

HandlerDies(s) ==
    /\ job[s] = "claimed"
    /\ Fault("api")
    /\ \E left \in {"orphan", "stuck"} : job' = [job EXCEPT ![s] = left]
    /\ UNCHANGED <<page, wixrows, inflight, failed, wallet>>

\* An abandoned POST is lost, shed, refused, or replayed and its answer lost.
Vanish(s) ==
    /\ inflight[s] > 0
    /\ inflight' = [inflight EXCEPT ![s] = @ - 1]
    /\ UNCHANGED <<page, wixrows, job, failed, wallet, faults>>

Settled(s, k) ==
    /\ job[s] = "queued"
    /\ job' = [job EXCEPT ![s] = "ended"]
    /\ failed' = [failed EXCEPT ![s] = k]
    /\ UNCHANGED <<page, wixrows, inflight>>

\* k ratios have failed, and Wix gives their credits back.
Settle(s, k) ==
    /\ Settled(s, k)
    /\ Refund(s, JobRow(s), RefundDue(asked[s], k))
    /\ UNCHANGED faults

\* The refund fails on its way or in Wix, and however often it is posted again,
\* it has come as far as it has.
SettleFails(s, k) ==
    /\ k > 0
    /\ Fault("io")
    /\ Settled(s, k)
    /\ RefundStops(s, JobRow(s), RefundDue(asked[s], k))

\* The record expires a day after its last write.  Unless a sweep can be that
\* late, the intent has been reconciled by then.
Expire(s) ==
    /\ job[s] = "ended"
    /\ "late" \in Faults \/ (pc[s] \in Results /\ ~intent[s] /\ sweep[s] = "idle")
    /\ job' = [job EXCEPT ![s] = "expired"]
    /\ UNCHANGED <<page, wixrows, inflight, failed, wallet, faults>>

----------------------------------------------------------------------------
(* reconcileSubmit, called by a sweep over PendingSubmits *)

\* get('PendingSubmits'); a failing read counts as no intent.
Sweep(s) ==
    /\ sweep[s] = "idle"
    /\ intent[s]
    /\ \/ SweepTo(s, "ask") /\ UNCHANGED faults
       \/ SweepTo(s, "askBlind") /\ Fault("io")
    /\ UNCHANGED <<page, intent, owned, service, wallet>>

Asking(s) == sweep[s] \in {"ask", "askBlind"}

\* The comment's "old enough that FastAPI would have created it by now"; the
\* code does not look at the intent's age.
OldEnough(s) ==
    "early" \in Faults \/ (inflight[s] = 0 /\ job[s] # "claimed")

\* GET by-client-ref finds the record.
Found(s) ==
    /\ Asking(s)
    /\ job[s] \in {"stuck", "queued", "ended"}
    /\ SweepTo(s, "row")
    /\ UNCHANGED <<page, intent, owned, service, wallet, faults>>

\* GET by-client-ref answers 404: no claim, or no record behind it.
NotFound(s) ==
    /\ Asking(s)
    /\ OldEnough(s)
    /\ job[s] \in {"none", "claimed", "orphan", "expired"}
    /\ SweepTo(s, IF sweep[s] = "ask" THEN "giveback" ELSE "forget")
    /\ UNCHANGED <<page, intent, owned, service, wallet, faults>>

\* The GET fails otherwise, save('Jobs') fails or the invocation dies, a refund
\* with it: the intent stays for the next sweep.
SweepFails(s) ==
    /\ \/ Asking(s) /\ Fault("io")
       \/ sweep[s] = "row" /\ Fault("io")
       \/ sweep[s] # "idle" /\ Fault("crash")
    /\ SweepTo(s, "idle")
    /\ UNCHANGED wallet \/ (sweep[s] = "giveback" /\ RefundStops(s, Ref(s), Credits(s)))
    /\ UNCHANGED <<page, intent, owned, service>>

SweepOwn(s) ==
    /\ sweep[s] = "row"
    /\ SweepTo(s, "forget")
    /\ owned' = [owned EXCEPT ![s] = TRUE]
    /\ UNCHANGED <<page, intent, service, wallet, faults>>

SweepGiveBack(s) ==
    /\ sweep[s] = "giveback"
    /\ SweepTo(s, "forget")
    /\ Refund(s, Ref(s), Credits(s))
    /\ UNCHANGED <<page, intent, owned, service, faults>>

\* refund('submit_never_landed') throws, which is swallowed, or does nothing, or
\* can not read the balance.
SweepGiveBackFails(s) ==
    /\ sweep[s] = "giveback"
    /\ Fault("io")
    /\ SweepTo(s, "forget")
    /\ RefundStops(s, Ref(s), Credits(s))
    /\ UNCHANGED <<page, intent, owned, service>>

\* Mutant: the intent is left.
ForgetNever(s) ==
    /\ sweep[s] = "forget"
    /\ SweepTo(s, "idle")
    /\ UNCHANGED <<page, intent, owned, service, wallet, faults>>

\* remove('PendingSubmits'); a failure is swallowed.
Forget(s) ==
    /\ sweep[s] = "forget"
    /\ SweepTo(s, "idle")
    /\ \/ intent' = [intent EXCEPT ![s] = FALSE] /\ UNCHANGED faults
       \/ UNCHANGED intent /\ Fault("io")
    /\ UNCHANGED <<page, owned, service, wallet>>

----------------------------------------------------------------------------
SubmitStep(s) ==
    \/ \E p \in Params[s] : Submit(s, p)
    \/ Spend(s) \/ SpendFails(s)
    \/ Accepted(s) \/ Rejected(s) \/ Unclear(s)
    \/ GiveBack(s) \/ GiveBackFails(s)
    \/ Park(s) \/ ParkFails(s) \/ Own(s) \/ OwnFails(s)
    \/ Crash(s)

HandlerStep(s) == Claim(s) \/ SaveJob(s) \/ HandlerDies(s) \/ Vanish(s)

WorkerStep(s) ==
    \/ \E k \in 0..Ratios(asked[s]) : Settle(s, k) \/ SettleFails(s, k)
    \/ Expire(s)

SweepStep(s) ==
    \/ Sweep(s) \/ Found(s) \/ NotFound(s) \/ SweepFails(s)
    \/ SweepOwn(s) \/ SweepGiveBack(s) \/ SweepGiveBackFails(s) \/ Forget(s)

Next ==
    \E s \in Subs :
        SubmitStep(s) \/ HandlerStep(s) \/ WorkerStep(s) \/ SweepStep(s)

\* An invocation goes on until it returns, a handler until it answers, a POST
\* does not travel for ever, and the sweep is scheduled every few minutes.
Spec ==
    /\ Init /\ [][Next]_vars
    /\ \A s \in Subs :
        /\ WF_vars(pc[s] # "idle" /\ SubmitStep(s))
        /\ WF_vars(HandlerStep(s))
        /\ WF_vars(SweepStep(s))

----------------------------------------------------------------------------
(* Properties *)

TypeOK ==
    /\ pc \in [Subs -> {"idle", "spend", "giveback", "park", "row"} \cup Waiting \cup Results]
    /\ DOMAIN asked = Subs
    /\ \A s \in Subs : asked[s] \in Params[s] \cup {NoParams}
    /\ sweep \in [Subs -> Sweeps]
    /\ intent \in [Subs -> BOOLEAN] /\ owned \in [Subs -> BOOLEAN]
    /\ inflight \in [Subs -> 0..2]
    /\ job \in [Subs -> Jobs]
    /\ failed \in [Subs -> Nat]
    /\ taken \in [Subs -> BOOLEAN]
    /\ rows \subseteq {Ref(s) : s \in Subs} \cup {JobRow(s) : s \in Subs}
    /\ returned \in [Subs -> Nat]
    /\ balance \in Nat
    /\ faults \in 0..MaxFaults

\* Credits that were given back as "rejected" or "never landed" belong to a
\* submission that has no job to run and will get none (the comments at
\* media.web.js:75 and :87), when sweeps come neither too early nor too late
\* and a retry is not refused after a first POST that lands.
RefundedMeansNoJob ==
    \A s \in Subs : Ref(s) \in rows => job[s] \in {"none", "orphan"}

\* The same, of the moment reconcileSubmit has its 404: jobs.py:25 "If 404 ->
\* the submit never landed; refund the held credits."
NotFoundMeansNeverLanded ==
    \A s \in Subs : sweep[s] = "giveback" => job[s] \notin Runs

\* A submission and a sweep, a rejection and a settlement, keyed differently
\* (refund_{clientRef}, refund_{job_id}), give credits back at most once and
\* never more than was taken, and nothing else moves the balance.
held == [s \in Subs |-> IF taken[s] THEN Credits(s) - returned[s] ELSE 0]
state == [s \in Subs |-> IF ~taken[s] THEN "free"
                         ELSE IF returned[s] > 0 THEN "closed" ELSE "held"]
E1 == INSTANCE Escrow WITH held <- held, state <- state
KeepsEscrow == E1!Spec

AtRest(s) == pc[s] \in Results /\ sweep[s] = "idle"

\* Without faults, a member's credits are never out of sight: once nobody works
\* on the submission they have been given back in full, or belong to a job the
\* member owns, or an intent remembers them.
HoldAccountedFor ==
    \A s \in Subs :
        AtRest(s) /\ taken[s] /\ faults = 0 =>
            \/ intent[s]
            \/ returned[s] = Credits(s)
            \/ owned[s] /\ job[s] \in Runs \cup {"claimed"}

\* c credits cover the price of one ratio; RatioUnit is the least that do.
Covers(c, p) ==
    c * Peg >= ApplyMargin(RawCost(LineItems(p.service, Get(p, "duration", 5),
                                             Get(p, "expand", TRUE))))
FairUnit(p) ==
    /\ Covers(RatioUnit(p), p)
    /\ RatioUnit(p) = 0 \/ ~Covers(RatioUnit(p) - 1, p)

\* Without faults, a job that has ended has cost its owner exactly its ratios
\* that did not fail, each at the least whole number of credits that covers its
\* price: quote, schema defaults, rounding and settlement agree.
ChargedForWhatRan ==
    \A s \in Subs :
        job[s] = "ended" /\ faults = 0 =>
            /\ held[s] = (Ratios(asked[s]) - failed[s]) * RatioUnit(asked[s])
            /\ FairUnit(asked[s])

\* What submit answers is true: an accepted submission has its reference bound,
\* a Jobs row and its credits taken; unless a fault has hit it, a refused one
\* has cost nothing, and a pending one is remembered, owned or given back.
AnswersAreTrue ==
    \A s \in Subs :
        /\ pc[s] = "accepted" => job[s] # "none" /\ owned[s] /\ taken[s] /\ Ref(s) \notin rows
        /\ pc[s] = "refused" /\ taken[s] /\ faults = 0 => returned[s] = Credits(s)
        /\ pc[s] = "pending" /\ faults = 0 =>
               intent[s] \/ owned[s] \/ returned[s] = Credits(s)

\* A parked submission is resolved by the sweeps, whatever failed before.
IntentsAreResolved == \A s \in Subs : []<>~intent[s]
============================================================================
