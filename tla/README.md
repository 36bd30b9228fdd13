# Estate media forge: specifications, model checks and proofs

The system sells AI media kits for real-estate photos. A Wix site holds the members' credits and
decrements them when a job is submitted; a FastAPI service accepts the job, a Redis/ARQ worker runs
it against fal.ai, and credits of what failed are sent back to Wix. Money, jobs and files live in
different systems with no transaction between them, so what makes the system correct is the order of
small steps in several processes. That order is what these TLA+ modules model.

Paths below are relative to the repository; `api/` stands for `realestate-media-api/app/` and `wix/`
for `docs/wix-site/`.

## Inventory

| component | code | state it keeps | operations |
|---|---|---|---|
| Token wallet | `wix/backend/lib/wallet.js` | `TokenLocks`, `TokenWallets`, `TokenTransactions` | `grant`, `spend`, `refund` under a lock document |
| Wix submit and reconcile | `wix/backend/media.web.js`, `lib/falClient.js` | `PendingSubmits`, `Jobs` | `submit`, `reconcileSubmit`, `getJobStatus` |
| Wix http functions | `wix/backend/http-functions.js` | none of its own | `post_stripeWebhook`, `post_falRefund` |
| Media persistence | `wix/backend/lib/mediaUpload.js` | `MemberMedia` | `persistJobAssets`, `getJobMedia` |
| Submit API and job store | `api/routers/_shared.py`, `jobs.py`, `api/jobs/store.py`, `enqueue.py` | Redis `clientref:*`, `job:*`, the ARQ queue | `submit_job`, GET by-client-ref, GET job |
| Job worker and settlement | `api/jobs/worker.py`, `api/providers/wix_client.py` | the job record, `MEDIA_DIR`, `metrics:refund_failures` | `_process_job`, `_process_ratio`, `_settle`, `refund` |
| Pipeline graph | `api/pipeline/*.py` | one state per ratio | upscale, outpaint, image-to-video |
| fal client | `api/providers/fal_client.py` | the semaphore | `submit_and_wait`, retries, polling |
| Balance monitor, circuit | `api/providers/fal_balance.py` | `CircuitState` per process | `run_balance_check`, `trip_on_402`, `is_circuit_open` |
| Pricing, quotation | `api/pricing.py`, `api/wallet/quotation.py` | none (pure) | `quote_credits`, `ratio_credits`, `allowance` |
| Usage ledger | `api/wallet/repository.py`, `models.py` | SQL rows | `record_event`, `reconcile_summary` |
| Service authentication | `api/deps.py` | nonces in Redis | `_verify` |
| Generator page | `wix/pages/Generator.example.js` | page state | `onGenerate`, `startPolling` |
| Health, metrics, logging, schemas, roles, config | `api/main.py`, `api/obs`, `api/schemas`, ... | none that others depend on | read-only |

How they interact: the page calls `submit` of the Wix backend, which quotes over HTTP, spends from
the wallet and POSTs the submission with a fresh `client_ref`. The API binds the `client_ref` to a
job in Redis, writes the record and a ledger row and gives the job to ARQ. The worker runs the
aspect ratios concurrently, writes each result into the one Redis record and, if some failed, POSTs
a refund to the Wix http function, which credits the wallet. The page polls the record through the
Wix backend, which imports finished files into Wix Media.

What is hard, and where:

- **Races between awaits.** Every handler of the API, every ratio of a job and every Velo
  invocation interleaves with the others at each await: the claim of a `client_ref`, the read and
  the write of the record in `update_asset`, the read and the write of a balance, the check of the
  queue's depth and the enqueue it guards.
- **Failure between two writes.** No two stores are written atomically: claim/record/ledger/queue in
  the API, row/balance in the wallet, refund/record/ledger in the worker.
- **Repetition.** Submissions are retried after a timeout, ARQ reruns a job whose worker died, the
  refund is posted up to three times, Stripe delivers events more than once. Each is meant to be
  absorbed by an idempotency key of its own.
- **Timing assumptions.** A lock document is taken to be dead after 30 s, an idempotency key lives
  a day, a job 30 minutes.

What makes each component correct: the wallet serializes calls, applies each row once and keeps
balance and ledger equal; the submit path creates, charges and starts one job per reference and
answers retries with it; the worker ends in a terminal status, shows what it stored and returns
exactly the credits of the failed ratios, once; the Wix backend never both keeps and runs, or
refunds and runs, a submission. The list of hazards at their lines is `hazards` in `PROJECT.json`.

## Modules

| module | what it is |
|---|---|
| `Escrow` | abstract: what the spend path promises a member |
| `Pricing` | the credit arithmetic of `pricing.py`, `quotation.py` and `_settle`, with the request schemas that feed it |
| `WixSubmit`, `MCWixSubmit` | `submit` and `reconcileSubmit` with the wallet, the job service and the settlement around them |
| `JobPerRef` | abstract: what the job service promises its caller |
| `ApiSubmit`, `MCApiSubmit` | `submit_job`, the job store, ARQ's queue, the reconciliation read |
| `JobRecord` | abstract: what those who poll a job can count on |
| `JobWorker`, `MCJobWorker` | one job in the worker, from ARQ to the settlement |
| `FalBalance` | the fal account, the balance check and the circuit of each process |
| `FalPipeline`, `MCFalPipeline` | the stages of all ratios down to the requests to fal, composed with `FalBalance` |
| `MediaPersist`, `MCMediaPersist` | the page's polls, `getJobStatus` and `persistJobAssets` |
| `Account` | abstract: a member's wallet with every call at once |
| `Wallet`, `MCWallet` | one member's wallet and its lock document |
| `*Proofs` | TLAPS proofs about the module of that name |

How they fit: `WixSubmit` is the spend path end to end. It has one step where another module has
several, and each of these steps is what that module shows: `TakeCredits`, `AddCredits` and `RefundStops` are
steps of `Account`, which `Wallet` implements as long as the lock's timing holds (`KeepsAccount`; where it does
not hold, `WixSubmit` says nothing); `Claim` and `SaveJob` are the binding and
the start of `JobPerRef`, which `ApiSubmit` implements; `Settle` is `JobWorker`'s settlement, and
`SettleFails` the refund that stops on its way. `JobWorker` has each pipeline run as one
step with two outcomes; `FalPipeline` opens that step. `MediaPersist` does not describe the job it polls:
its job steps are those of `JobRecord`, which `JobWorker` implements, so what the page shows is proved for
every behaviour of the worker that `JobRecord` allows.

### Pricing

Integer operators: costs in 1/1000 USD, prices in 1/10000 USD, so that no rounding is lost that the
decimals keep. `QuoteCredits` and `RatioCredits` are the functions of those names; `Quote` is what the
quotation endpoint computes from what the page sent, `RefundDue` what `_settle` computes from what the
submit schema kept of it. The two read different copies: a field that a schema drops falls back to its
default in `KeptDuration` and `KeptExpand`. Which requests the endpoints take is `Quotable` and
`Submittable`. The prices that the code's docstrings and schemas quote are checked by an `ASSUME` of
`MCWixSubmit`.

### WixSubmit

`pc[s]` is where the `submit` of submission `s` stands, each await an action; `sweep[s]` the same for
`reconcileSubmit`. A POST has been answered definitively (`Rejected`), has been accepted, or is
`Unclear`: a timeout, a lost connection, or a code that is not in `DEFINITIVE_REJECT`. An abandoned
POST can still land (`inflight`). `job[s]` is what the job service has for the reference: claimed,
saved and queued, ended, expired, or left by a dying handler without record (`orphan`) or without
enqueue (`stuck`). `rows` are the refunds in `TokenTransactions`, one keyed by the reference and one by the
job; `returned` adds up what came back from either side. A spend or refund that throws or dies has come as far
as `SpendStops` and `RefundStops` say; a refund whose insert fails is told to its caller as a duplicate.

Kinds of fault: `crash` (an invocation dies), `io` (a wixData operation or GET fails, with and without
effect where the code can be hit midway) and `api` (a handler dies) are in the run. Three more name
assumptions on the environment: `early` (a sweep asks while a POST can still land), `late` (a sweep
after the record's day) and `deny` (the retry is refused after a first POST that lands). They are not
in `wix_submit`; with `early` the run `wix_reconcile` shows what goes wrong, and with each of the other
two TLC finds `RefundedMeansNoJob` violated as well.

`KeepsEscrow` is the refinement: `held` and `state` map a submission to what `Escrow` keeps of it. `Escrow`
promises that a submission's credits are taken once and given back once at most. It does not promise the rest of
the balance: `readBalance` answers 0 when its read fails, and a refund then overwrites what was there.

### FalBalance and FalPipeline

A task is one aspect ratio. `pc[t]` is the request it stands at: waiting for the semaphore, POST, poll,
result. `Transient`, `Unpaid`, `Rejected` and `NoUrl` are the ways a request fails, `Timeout` ARQ's
cancellation of all ratios of a job. `Die` is the death of the worker's process with its semaphore, circuit and
check: ARQ runs any of the jobs anew that had started and were not cancelled, each ratio from its first
stage whatever the record says of it, and the other jobs end where they were. `paid` counts the fal jobs of a
task's run, those of lost answers included, and `spent` those of its runs that died. A fault is a lost answer to
a POST, a failed read of the balance or a death; requests that merely fail are bounded by their tries. The account
has three levels and moves at any time. `check` is the balance check between its awaits: the GET, the
evaluation under the lock, the alert. Each process has its `CircuitState`; the fal client and the cron
task run in the worker, the submit endpoints in the API. `Shapes` says where the billing answer can
carry the balance.

### MediaPersist

A poll is an invocation of `getJobStatus` with `persistJobAssets` in it, and `setInterval` does not wait
for the last one, so polls overlap. `todo[p]` are the files that the loops over the assets of the poll's
own answer have yet to visit; `media[f]` counts the rows of file `f`. An insert may fail without effect, or take
effect and be reported as failed: the loop goes on in either case and the poll does not list the file. The job moves by `JobRecord`: an asset
that has its files may not show, and a rerun may take a final status back while or after it is polled.
`overlap` is a history variable. Leaving the page stops the interval and not the polls
under way; a second page may follow when the polls of the first are back.

### ApiSubmit

Requests are handlers; `pc[q]` is the await a handler stands at, and each action is the effect of one
call (Redis, ARQ, SQL) together with the local code up to the next await. `index` is
`clientref:{member}:{ref}`, `records` the existing `job:{id}` keys, `charged` the ledger's SUBMITTED
rows, `queue` what ARQ lists, `enqueued` how often a job was given to it. A job is named by the
request that would mint its uuid. `Raise` is an exception of any call (500; what was written stays),
`Crash` the death of the process, `Expire` the end of an idempotency key's day. The record's own
expiry is left out: `_save` renews it with each update, so it outlives its key, and its absence only
turns a status into "queued" or a reconciliation read into 404. `SetCircuit` lets the breaker of the API
process open at any time, which covers more than the callers the code has today: those run in the
worker process. `retries` is a history variable: requests that arrived when their reference was bound.

`KeepsPromise` is the refinement: under the mapping of `ApiSubmit!Promise`, every step of the
handlers is a step of `JobPerRef` or a stutter. `owner` is mapped to the reference of each job that
was ever claimed.

### JobWorker

The main coroutine (`main`), a coroutine per ratio (`task`), the Redis record (`rec`) and Wix
(`refundTx`, `returned`). `update_asset` is two actions, `ReadRecord` and `WriteRecord`, because the
other ratios run in between; `update_job` of the main coroutine is one, because no ratio of its
attempt runs then. `KeepsRecord` maps the record to `JobRecord`. A raising ratio ends the main coroutine
(`GatherRaise`) while the others run on.
The refund client is modelled POST by POST: acknowledged, failed before, midway or after Wix acted,
or rejected. What stands behind a 200 is `Answered200`: the refund, the no-op of a repetition, or an insert of
the row that failed, with or without effect, and that `refund` takes for a duplicate (`wallet.js:137`);
`misread` remembers that one left no row. `Faults` selects which kinds of fault a run allows. Prices of the ratios are a constant
`Credits`; the pipeline is one step with two outcomes, and the ledger rows of single ratios are not kept.

### Wallet

Calls of kind "credit" (grant, refund) and "spend" on one member. Each `wixData` operation is one
action. `lock` records who inserted the document, which the code cannot see; `stale` is its age.
`timely` is a history variable: no call has outlived its lock document and no removal of a stale
document has come after another call's insert. A failing operation is taken to have had no effect;
one that takes effect and is then reported as failed leaves the same wallet as a crash after it.
`NoteBalance` may fail without consequence, the money has moved. Reads on the way out of a repeated
call only feed the answer and are left out.

`KeepsAccount` maps `rows` to the rows whose credits are on the balance or have come to grief (`Over`): a credit
happens when it writes the balance, with the row it inserted before, and a spend when it writes the balance.

## Runs

Bounds are small because the actors are symmetric and each hazard needs two or three of them.

| run | instance | shows |
|---|---|---|
| `wix_submit` | 2 submissions of one member (kit, video or upscale; a second upscale), who can pay for a kit and little more, 1 crash, failed operation, unreadable balance or dying handler; fair; 239 070 states | types (no negative balance); given back means no job; refinement of `Escrow`; a hold is accounted for; a job costs what ran; answers are true; intents are resolved |
| `wix_reconcile` | the same, no fault, sweeps at any time | *violated*: 404 means the submission never landed |
| `api_submit` | 3 requests, 3 references, depth 1, 2 handlers, 1 fault, 1 expiry; 71 486 states | types; a queued job is complete; retries are not shed; the queue's overshoot; refinement of `JobPerRef` |
| `api_submit_live` | 2 requests, 2 references, also a failed depth read; fair; 22 624 states | a claimed job reaches the queue unless its own handler failed |
| `worker` | 2 ratios priced 2 and 3, 4 quoted, 2 starts, 3 POSTs, every fault; fair; 129 949 states | no over-refund; reported refunds have their row in Wix and owed ones have it or were counted, but for a 200 with `refunded: false`; exact settlement of a first attempt; files behind completed assets; refinement of `JobRecord`; the job's coroutines end |
| `worker_assets` | no fault | *violated*: a completed job shows every asset |
| `worker_refund` | one refund fails midway in Wix | *violated*: a reported refund was returned |
| `fal` | a kit and a video, 1 slot, 2 attempts, 1 further poll, 2 402s open the circuit, 1 fault (lost answer, failed balance read, or a death with reruns); fair; 424 218 states | no slot lost; stages in order, none bought after a failure, each once but for a lost answer or a rerun; tasks end; the worker's circuit has a reason and follows the account |
| `circuit_503` | 3 upscale jobs, no fault | *violated*: with the circuit open no submission is taken on |
| `media` | 2 polls at a time, 2 visits, 2 ratios with a file each, 1 rerun, 1 fault; fair; 851 619 states | permanent URLs are backed by rows and files; one row per file without overlap; an undisturbed page shows the whole end; polling ends |
| `wallet` | 2 deliveries of a grant, a repeated spend, 2 lock attempts, 1 fault, symmetry; 1.55 M states | types; serialized while timely; balance never above the ledger; a row added once; audit invariant without faults; refinement of `Account` |
| `wallet_lock` | a crash and a late removal | *violated*: the lock document serializes |

Why the bounds are enough. `wix_submit`: two submissions compete for one balance, so that one can be
refused after the other was accepted; each has its own retry, late POSTs, intent and sweep, and one
fault is one broken party, of which the refund, the sweep and the settlement are three. Prices are the
code's, so rounding matters. `api_submit`: two handlers race for a reference while a third is a late
retry or a read; with depth 1 the queue fills and overflows; the third reference lets every request
be about something else; one fault is one broken handler, and further faults break further handlers
in the same way. Symmetry over requests and references is used for safety and the refinement only,
never for liveness; `wallet` has it over the deliveries and over the repetitions. `worker`: two ratios
are enough for a lost update and a partial outcome; their prices differ and add up to more than was
quoted, so a wrong sum or a missing clamp shows; two starts give a rerun with other failures. `fal`: two
tasks and one slot are contention; two attempts and one further poll reach both caps; a kit goes through
all stages; one fault is one lost answer, one failed read or one death, and the death may come at any point of
a kit's three stages. What two of them make together is proved (`FalPipelineProofs`), and `IInv` was also checked
once with two faults (2.5 M states). `media`: two polls overlap, a file in each of two ratios
leaves one ratio uncompleted and a loop in the middle (files of one ratio come and go together), the second
visit repeats an import, and one rerun changes a record that was final.
`wallet`: the lost removal needs three contenders, so there are four calls; two attempts let each
contender come back after an eviction.

Deadlock is not checked where the actors finish, and a finished system has no step: everywhere but in
`fal` and `circuit_503`, where the account moves for ever.

Fairness. Weak fairness on each actor's next step, and none on its environment. `ApiSubmit!FairSpec`: the
event loop resumes a handler whose await is done, and Redis, ARQ and SQL answer or raise; requests,
faults, expiries and the workers have none. `JobWorker!FairSpec`: the main coroutine and each ratio.
`WixSubmit!Spec`: an invocation goes on until it returns, a handler until it answers, an abandoned POST
does not travel for ever, and the sweep over `PendingSubmits` is scheduled, as `media.web.js` asks; that
a page submits, that a worker takes the job up and that a record expires is not assumed.
`FalPipeline!Spec`: some ratio goes on while one can, since every await in the client has a timeout, and
the cron task runs; that a given ratio gets the semaphore is not assumed, and the account moves freely.
`MediaPersist!Spec`: the interval fires and an invocation runs to its end; the job need not end. Faults are never forced. Nothing fair is assumed of the wallet, where only
safety is stated. Liveness is written `[]<>` of a state that is final or quiet; that a started actor ends
follows, because the only way back to the state it began in is through its end.

## Where code and documents differ

Each of these is a `violation` run with a finding in `PROJECT.json`.

1. `reconcileSubmit` does not look at the intent's age, and the claim of a reference precedes the save of
   its record: a sweep that comes early is answered 404, which `api/routers/jobs.py:25` reads as "the
   submit never landed", and the credits of a job that then runs go back (`wix_reconcile`).
2. The circuit that balance checks and 402s open belongs to the worker's process; the submit endpoints
   look at the API's, which nothing opens (`circuit_503`).
3. `update_asset` loses updates of concurrent ratios: a completed job can show a queued asset
   (`worker_assets`).
4. Wix's refund takes its own half-done earlier attempt for a duplicate; the worker reports credits
   as refunded that were never added (`worker_refund`).
5. A late removal of a stale lock document removes a fresh one (`wallet_lock`).

Two more disagree with a document and have no run of their own, because the property that holds states what
the code does:

6. "After N consecutive 402s, trip the circuit" (`api/providers/fal_balance.py:165`) and "Three consecutive
   402s trip the circuit immediately" (`api/main.py:93-94`): line 167 counts every 402 since the last
   recovery, and no request that succeeds in between resets the counter, so three 402s days apart open the
   circuit. `OpenForAReason` is about what is counted, not about what the documents say.
7. "Idempotent" (`wix/backend/lib/mediaUpload.js:64`): overlapping polls give a file two rows;
   `OneRowWithoutOverlap` names the overlap as the only way.

Met while modelling, in the modules' behaviours but without a run of their own:

- A winner that fails after its claim leaves a reference bound to a job nobody starts, and its retry is
  answered 202 (`ApiSubmit!Raise`, `WixSubmit!HandlerDies`).
- An exception outside the pipeline (a download, Redis, the ledger) leaves the job `running` for ever and
  skips the settlement (`JobWorker!GatherRaise`).
- A wallet call that dies between row and balance breaks the audit invariant for good (`Wallet`;
  `AuditedAtRest` excludes faults).
- `readBalance` takes a failed read for an empty wallet: a grant or refund then leaves the member with its own
  credits only, and a spend of nothing (a quote for an empty list of ratios) with none (`Account!Unread`).
- A submission that is shed twice (429 or 503) is parked with its credits held until a sweep, although
  nothing was started; `api/main.py` speaks of "no stuck credits". The answer "pending" has no job id, and
  the page polls an undefined one.
- A refund that fails in `reconcileSubmit` is swallowed and the intent removed; a failed read of the
  intent counts as none. Either loses the hold. `HoldAccountedFor` therefore speaks of behaviours without
  faults.
- A sweep after the record's day, or a refused retry after a first POST that lands, gives back the credits
  of a job that ran (`late`, `deny`).
- A job whose worker died is run again whatever its record says: a final status goes back to `running` and
  may end otherwise, when the page has long stopped to poll, and with credits refunded for ratios that the
  second run delivers (`JobRecord!Rerun`; `PageShowsTheEnd` excludes reruns).
- A refund's row whose insert fails for any reason is taken for a duplicate (`wallet.js:137`) and answered 200
  with `refunded: false` (`http-functions.js:87-88`), which the worker does not read (`worker.py:200-208`): the
  record and the ledger report a refund, Wix has neither row nor credits, and `metrics:refund_failures` does
  not count it (`JobWorker!WixInsertFails`; `misread` in the properties).
- After a worker's death ARQ runs the job from the start: `_process_job` fans out over every ratio whatever its
  asset says (`worker.py:243-269`), and every stage that was paid for is bought again (`FalPipeline!Die`).
- One failing import hides the file from then on: any row ends later imports, and the page shows exactly
  the rows, although the comment at `Generator.example.js:80` has it otherwise.
- A balance of exactly zero in the nested shape of the billing answer is taken for a missing field, so the
  check does not see it; the run has the flat shape, where a last resort repairs it.
- An alert for a low balance goes out again when 402s opened and a recovery closed the circuit in between.

## Proofs

TLAPS proves for every value of the constants what TLC checks on the instances above: every invariant of
every passing run, and the four refinements.

All take the assumptions named in the component's module: limits are natural numbers, calls, prices and
rows are functions of the right sets, `None` is none of the requests or calls; for `ApiSubmit` and
`FalPipeline` the sets that are counted are finite; for `WixSubmit` what a page sends has the types the
quotation's schema gives it. `WixSubmitProofs` also assumes `InTime`, that `early`, `late` and `deny` do
not happen; it is stated in each theorem.

Each `IInv` was checked by TLC on the run's instance before it was proved. None of the properties is
inductive; what has to be added, and why:

`WixSubmitProofs` has one invariant per submission, and a step of one submission leaves those of the
others alone (`OthersSame`, `SameHolds`). `Dead` is the heart: a submission that is refunded or about to be
has no job and gets none, since its request is refused by the schema, or no POST is waiting or under way,
or a dead handler holds its claim. It is stable (`DeadStays`), so that a worker that settles finds nothing
refunded (`SettleOnce`) and a refund finds nothing settled (`GaveBackOnce`); with `Returned` this bounds what
comes back by what was taken. `WalletStep` reduces every way a spend or refund can go or stop to four moves of the
wallet (`Took`, `GaveBack`, `GaveRatios`, or none), which the other lemmas start from. `Moves` then says what a step does to a submission's credits, in the three
ways `Escrow` knows, which gives the refinement `Spec => KeepsEscrow`. `Clean` says where the credits are
as long as nothing failed.

`PricingProofs`: rounding up gives the least cover of a price; the quote from what the page sent is the
sum of the ratios' prices from what the submit schema kept, whenever both schemas take the request; the
refund is within the quote; the allowance is exact.

`ApiSubmitProofs`: types, `QueueBounded`, `QueuedJobIsComplete`, `RetryNotShed`, and the refinement
`Spec => KeepsPromise`. `ClaimInv` ties each key of the index to a handler
that won it and says that a running winner still holds it; `WorkInv` says which of its writes the
winner has made at each await; with these the abstract `Bind`, `Charge` and `Start` are enabled where
the handler takes them. `SeenInv` carries the ownership of an id from the read to the answer.
`RetryInv` keeps a retry from ever reaching the queue check. `QueueInv` counts, beside the queue, the
handlers that have passed the check and not enqueued: their sum is what the check bounds.

`JobWorkerProofs`: types and the five safety properties of the run. `StageInv` gives each ratio's
outcome and files at each stage and keeps the main coroutine behind the gather; `RecordInv` states
what the record claims of the record *and of every copy a ratio has read*, since any of them may be
written back; `RefundInv` ties reports and returns to the row in Wix; `FirstInv` follows the amount
through the first attempt and needs `MaxTries > 0`; all three carry `misread` as the one exception. The refinement `Spec => KeepsRecord` needs `RunInv`:
a ratio at work has a record, and a copy of it, that says the job runs, and in a first run the ratios that have
files are those that did not fail. A step of the worker is then one of `JobRecord` (`RecordRefines`): the files of
a ratio are `Store`, the end of the gather is `End`, a start after a crash is `Rerun`.

`FalPipelineProofs`: types and the four safety properties. `OrderInv` says for each stage which outputs
the state must have; `BuyInv` counts fal jobs against failed attempts at the current POST and the faults so
far, with what runs that died have spent on top of it: a POST under way has bought no more than its tries, and
with what was spent no more than the faults; `SlotsConserved` is inductive once the cardinality of those who hold a slot is followed through each
step, a cancellation of several ratios at once included. `UnheardMoves` and `DieMoves` say what a cancellation and a
death make of one ratio.

`MediaPersistProofs`: types and the three safety properties, for every job that `JobRecord` allows.
`RecordInv` is what the proofs need of such a job: a file that shows has been produced. `BackedInv` holds however
polls overlap and the job reruns: what a poll hands to the page has its row already, and what it inserts has been
imported. `AloneInv` needs the absence of overlap: the files a poll has still to visit have no row. `EndInv`, without
overlap, fault and rerun, has the rows and the files still to visit make up the files that are due; with `FinalInv`,
that an answer with a final status is the job's for ever, the page that stopped has seen the end.

`WalletProofs`: types, the four safety properties of the run and the refinement `Spec => KeepsAccount`. `LockInv` is the heart: while
`timely` holds, whoever is inside owns the document, a stale document belongs to nobody inside, and
an eviction under way finds no document or a stale one. `BackedInv` and `AuditInv` give the
difference of ledger and balance at each step of a call and lean on `LockInv`, because only one call
at a time may be between its two writes; `CreditInv` needs no lock, the row alone is the claim. The refinement
needs `SeenInv`: who is about to write has read the balance as it still is, or could not read it; `CreditBegins`
and `CreditEnds` follow the row that a credit holds open in between (`AccountStep`).

Only model-checked: liveness (`ClaimedJobStarts`, `JobEnds`, `IntentsAreResolved`, `TasksEnd`,
`CircuitFollows`, `PollingEnds`), which is beyond the proof system.

## Not modelled, and the plan

Left out for good: logging, spans, metrics and health endpoints, start-up wiring, response schemas and
configuration (no behaviour over time), wording and layout of answers, the stage breakdown of a quotation
(for display; the sum of its rounded lines may differ from the total), `quotation.web.js` and the read-only
web methods.

`api/deps.py` (`_verify`): the HMAC is cryptography; what is left, a timestamp window and a nonce key, only
adds ways for a request to be refused, which `WixSubmit` allows of any POST.

`reconcile_summary` of the usage ledger: a report over rows whose writers are in `ApiSubmit` and
`JobWorker`. It counts a job's SUBMITTED row once for the API's charge and once for each run of the worker
(`worker.py:244`), which the report's reader has to know.

Still to come:

1. `WixSubmit`'s job service as steps of `JobPerRef`, as its wallet calls are steps of `Account`; `Claim` and
   `SaveJob` are so far a correspondence only.
2. Durations: the polls' cap against the job's timeout, the intent's age against a POST's life, the lock's
   30 seconds; the modules have these as orders of events only.
3. `UsageLedger`: what `reconcile_summary` should add up.
