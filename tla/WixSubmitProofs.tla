-------------------------- MODULE WixSubmitProofs --------------------------
(***************************************************************************)
(* Proofs about WixSubmit for every set of submissions and parameters, any *)
(* prices, any balance, and any number of crashes, failed operations and   *)
(* dying handlers.                                                         *)
(*                                                                         *)
(* A sweep that comes too early or too late, and a retry that is refused   *)
(* after a first POST that lands, are left out (InTime): with them the     *)
(* credits of a running job can be given back.                             *)
(***************************************************************************)
EXTENDS WixSubmit, PricingProofs

InTime == Faults \cap {"early", "late", "deny"} = {}

\* How many POSTs an invocation can have abandoned.
Abandoned(s) ==
    /\ pc[s] \in {"idle", "spend", "first"} => inflight[s] = 0
    /\ pc[s] = "second" => inflight[s] <= 1

\* Nothing happens for a submission before its credits are taken, and they are
\* taken for a quoted request only.
Paid(s) ==
    /\ pc[s] = "spend" \/ taken[s] => asked[s] \in Params[s] /\ Quotable(asked[s])
    /\ pc[s] \in {"first", "second", "giveback", "park", "row", "accepted", "pending"} =>
          taken[s]
    /\ pc[s] \in {"idle", "spend"} => ~taken[s]
    /\ ~taken[s] => /\ job[s] = "none" /\ inflight[s] = 0
                    /\ Ref(s) \notin rows /\ returned[s] = 0

\* What the rows on Wix say of the invocation and of the job.
Kept(s) ==
    /\ intent[s] \/ sweep[s] # "idle" => pc[s] = "pending"
    /\ job[s] # "none" => Submittable(asked[s])
    /\ pc[s] \in {"row", "accepted"} \/ owned[s] \/ sweep[s] = "row" => job[s] # "none"
    /\ pc[s] = "accepted" => owned[s]
    /\ job[s] = "expired" => AtRest(s) /\ ~intent[s]

\* The submission has no job and will get none.
Dead(s) ==
    \/ job[s] = "orphan"
    \/ job[s] = "none" /\ pc[s] # "idle" /\ ~Submittable(asked[s])
    \/ /\ NothingLands(s)
       /\ pc[s] \notin {"idle", "spend"} \cup Waiting

\* Who refunds, or is about to, refunds a submission without a job.
Closed(s) ==
    /\ Ref(s) \in rows \/ pc[s] = "giveback" \/ sweep[s] = "giveback" => Dead(s)
    /\ Ref(s) \in rows => pc[s] \in {"refused", "error", "pending"}

\* Credits come back once: as rejected or never landed, or from the worker.
Returned(s) ==
    /\ taken[s] => returned[s] \in 0..Credits(s)
    /\ returned[s] > 0 => Ref(s) \in rows \/ job[s] \in {"ended", "expired"}
    /\ JobRow(s) \in rows => job[s] \in {"ended", "expired"}

\* Where the credits are as long as nothing has failed.
Clean(s) ==
    faults = 0 =>
        /\ pc[s] # "error" /\ job[s] \notin {"orphan", "stuck"} /\ sweep[s] # "askBlind"
        /\ pc[s] = "refused" /\ taken[s] => returned[s] = Credits(s)
        /\ Ref(s) \in rows => returned[s] = Credits(s)
        /\ pc[s] = "pending" => intent[s] \/ owned[s] \/ returned[s] = Credits(s)
        /\ sweep[s] = "forget" => owned[s] \/ returned[s] = Credits(s)
        /\ job[s] \in {"ended", "expired"} =>
              failed[s] \in 0..Ratios(asked[s]) /\ returned[s] = RefundDue(asked[s], failed[s])

IInv ==
    /\ TypeOK
    /\ \A s \in Subs : Abandoned(s) /\ Paid(s) /\ Kept(s) /\ Closed(s) /\ Returned(s) /\ Clean(s)

----------------------------------------------------------------------------
(* Requests, initial states, the submissions a step leaves alone *)

\* A quoted submission's price, and what is due for failed ratios.
LEMMA Priced ==
    ASSUME NEW s \in Subs, asked[s] \in Params[s], Quotable(asked[s])
    PROVE  /\ Credits(s) \in Nat /\ Ratios(asked[s]) \in Nat
           /\ Typed(asked[s])
           /\ \A k \in Nat : RefundDue(asked[s], k) \in 0..Credits(s)
<1>1. Typed(asked[s])
  BY ParamsAssumption DEF ParamsAssumption, Typed
<1> QED
  BY <1>1, Quoted, RefundWithinQuote DEF Credits, Typed

LEMMA InitIInv == Init => IInv
<1> SUFFICES ASSUME Init
             PROVE  IInv
  OBVIOUS
<1>1. TypeOK
  BY LimitsAssumption DEF LimitsAssumption, Init, TypeOK, Sweeps, Jobs
<1>2. ASSUME NEW s \in Subs
      PROVE  Abandoned(s) /\ Paid(s) /\ Kept(s) /\ Closed(s) /\ Returned(s) /\ Clean(s)
  BY DEF Init, Abandoned, Paid, Kept, Closed, Returned, Clean
<1> QED
  BY <1>1, <1>2 DEF IInv

Step(s) == SubmitStep(s) \/ HandlerStep(s) \/ WorkerStep(s) \/ SweepStep(s)

Holds(s) == Abandoned(s) /\ Paid(s) /\ Kept(s) /\ Closed(s) /\ Returned(s) /\ Clean(s)

Same(s) ==
    /\ pc'[s] = pc[s] /\ asked'[s] = asked[s]
    /\ sweep'[s] = sweep[s] /\ intent'[s] = intent[s] /\ owned'[s] = owned[s]
    /\ inflight'[s] = inflight[s] /\ job'[s] = job[s] /\ failed'[s] = failed[s]
    /\ taken'[s] = taken[s] /\ returned'[s] = returned[s]
    /\ (Ref(s) \in rows') = (Ref(s) \in rows)
    /\ (JobRow(s) \in rows') = (JobRow(s) \in rows)

\* The rows of refunds are told apart by what they are keyed by, and for whom.
LEMMA RowsApart ==
    \A s, q \in Subs : /\ Ref(s) # JobRow(q)
                       /\ Ref(s) = Ref(q) => s = q
                       /\ JobRow(s) = JobRow(q) => s = q
BY DEF Ref, JobRow

\* spend takes the credits of s from what it has seen.
Took(s) ==
    /\ pc[s] = "spend"
    /\ UNCHANGED <<asked, job, rows, returned>>
    /\ taken' = [taken EXCEPT ![s] = TRUE]
    /\ \E seen \in {balance, 0} : Credits(s) <= seen /\ balance' = seen - Credits(s)

\* refund inserts the row x, and gives c credits of s back or has come to grief.
Gave(s, x, c) ==
    /\ x \notin rows /\ rows' = rows \cup {x}
    /\ UNCHANGED <<asked, taken>>
    /\ \/ UNCHANGED <<returned, balance>>
       \/ /\ c \in Nat /\ c > 0
          /\ returned' = [returned EXCEPT ![s] = returned[s] + c]
          /\ balance' \in {balance + c, c}

\* Who has decided to give the credits of s back does so.
GaveBack(s) ==
    /\ pc[s] = "giveback" \/ sweep[s] = "giveback"
    /\ UNCHANGED <<job, failed>>
    /\ Gave(s, Ref(s), Credits(s))

\* The worker settles the job of s.
GaveRatios(s) ==
    \E k \in 0..Ratios(asked[s]) :
        Settled(s, k) /\ Gave(s, JobRow(s), RefundDue(asked[s], k))

\* refund, however it ends, inserts its row or does nothing.
LEMMA RefundGave ==
    ASSUME NEW s \in Subs, NEW x, NEW c \in Nat, UNCHANGED asked, RefundStops(s, x, c)
    PROVE  UNCHANGED wallet \/ Gave(s, x, c)
<1> USE DEF Gave, AddCredits, A!Credit, wallet
<1>1. CASE UNCHANGED wallet
  BY <1>1
<1>2. CASE A!Note(x) /\ UNCHANGED <<taken, returned>>
  BY <1>2 DEF A!Note
<1>3. CASE Refund(s, x, c)
  BY <1>3 DEF Refund
<1>4. CASE RefundUnread(s, x, c)
  BY <1>4 DEF RefundUnread, Unread, A!Unread
<1> QED
  BY <1>1, <1>2, <1>3, <1>4 DEF RefundStops

\* What a step of a submission can do to the wallet.
LEMMA WalletStep ==
    ASSUME NEW s \in Subs, Holds(s), Step(s)
    PROVE  UNCHANGED wallet \/ Took(s) \/ GaveBack(s) \/ GaveRatios(s)
<1> USE DEF page, wixrows, service
<1>1. ASSUME pc[s] = "spend", UNCHANGED <<asked, job>>, SpendStops(s)
      PROVE  UNCHANGED wallet \/ Took(s)
  BY <1>1 DEF SpendStops, TakeCredits, A!Take, Took, wallet, Unread, A!Unread
<1>2. ASSUME pc[s] = "giveback" \/ sweep[s] = "giveback", UNCHANGED <<asked, job, failed>>,
             RefundStops(s, Ref(s), Credits(s))
      PROVE  UNCHANGED wallet \/ GaveBack(s)
  <2>1. Credits(s) \in Nat
    BY <1>2, Priced DEF Holds, Paid, Kept
  <2> QED
    BY <1>2, <2>1, RefundGave DEF GaveBack
<1>3. CASE Spend(s) \/ SpendFails(s)
  BY <1>1, <1>3 DEF Spend, SpendFails, SpendStops
<1>4. CASE GiveBack(s) \/ GiveBackFails(s) \/ SweepGiveBack(s) \/ SweepGiveBackFails(s)
  BY <1>2, <1>4 DEF GiveBack, GiveBackFails, SweepGiveBack, SweepGiveBackFails, RefundStops
<1>5. CASE Crash(s) \/ SweepFails(s)
  BY <1>1, <1>2, <1>5 DEF Crash, SweepFails
<1>6. ASSUME NEW k \in 0..Ratios(asked[s]), Settle(s, k) \/ SettleFails(s, k)
      PROVE  UNCHANGED wallet \/ GaveRatios(s)
  <2>1. Settled(s, k) /\ UNCHANGED asked
    BY <1>6 DEF Settle, SettleFails, Settled
  <2>2. k \in Nat /\ RefundDue(asked[s], k) \in Nat
    BY <2>1, Priced DEF Settled, Holds, Paid
  <2>3. RefundStops(s, JobRow(s), RefundDue(asked[s], k))
    BY <1>6 DEF Settle, SettleFails, RefundStops
  <2> QED
    BY <2>1, <2>2, <2>3, RefundGave DEF GaveRatios
<1>7. CASE \/ \E p \in Params[s] : Submit(s, p)
           \/ Accepted(s) \/ Rejected(s) \/ Unclear(s)
           \/ Park(s) \/ ParkFails(s) \/ Own(s) \/ OwnFails(s) \/ HandlerStep(s)
           \/ Expire(s) \/ Sweep(s) \/ Found(s) \/ NotFound(s) \/ SweepOwn(s) \/ Forget(s)
  BY <1>7 DEF Submit, Accepted, Rejected, Unclear, Park, ParkFails, Own, OwnFails,
     HandlerStep, Claim, SaveJob, HandlerDies, Vanish, Expire, Sweep, Found, NotFound,
     SweepOwn, Forget
<1> QED
  BY <1>3, <1>4, <1>5, <1>6, <1>7 DEF Step, SubmitStep, WorkerStep, SweepStep

\* A step of one submission is none of another's.
LEMMA OthersSame ==
    ASSUME TypeOK, NEW s \in Subs, Holds(s), Step(s), NEW q \in Subs, q # s
    PROVE  Same(q)
<1>1. /\ pc'[q] = pc[q] /\ asked'[q] = asked[q]
      /\ sweep'[q] = sweep[q] /\ intent'[q] = intent[q] /\ owned'[q] = owned[q]
      /\ inflight'[q] = inflight[q] /\ job'[q] = job[q] /\ failed'[q] = failed[q]
  <2> USE DEF TypeOK, GoTo, SweepTo, page, wixrows, service
  <2>1. CASE SubmitStep(s)
    BY <2>1 DEF SubmitStep, Submit, Spend, SpendFails, Accepted, Rejected, Unclear,
       GiveBack, GiveBackFails, Park, ParkFails, Own, OwnFails, Crash
  <2>2. CASE HandlerStep(s)
    BY <2>2 DEF HandlerStep, Claim, SaveJob, HandlerDies, Vanish
  <2>3. CASE WorkerStep(s)
    BY <2>3 DEF WorkerStep, Settle, SettleFails, Settled, Expire
  <2>4. CASE SweepStep(s)
    BY <2>4 DEF SweepStep, Sweep, Found, NotFound, SweepFails, SweepOwn, SweepGiveBack,
       SweepGiveBackFails, Forget
  <2> QED
    BY <2>1, <2>2, <2>3, <2>4 DEF Step
<1>2. /\ taken'[q] = taken[q] /\ returned'[q] = returned[q]
      /\ (Ref(q) \in rows') = (Ref(q) \in rows)
      /\ (JobRow(q) \in rows') = (JobRow(q) \in rows)
  <2>1. CASE UNCHANGED wallet
    BY <2>1 DEF wallet
  <2>2. CASE Took(s)
    BY <2>2 DEF Took, TypeOK
  <2>3. CASE GaveBack(s) \/ GaveRatios(s)
    <3>1. PICK x \in {Ref(s), JobRow(s)} :
             /\ rows' = rows \cup {x} /\ taken' = taken
             /\ \/ returned' = returned
                \/ \E c : returned' = [returned EXCEPT ![s] = returned[s] + c]
      BY <2>3 DEF GaveBack, GaveRatios, Gave
    <3>2. x # Ref(q) /\ x # JobRow(q)
      BY <3>1, RowsApart
    <3>3. returned'[q] = returned[q]
      BY <3>1 DEF TypeOK
    <3> QED
      BY <3>1, <3>2, <3>3
  <2> QED
    BY <2>1, <2>2, <2>3, WalletStep
<1> QED
  BY <1>1, <1>2 DEF Same

\* Faults are counted up.
LEMMA FaultsGrow ==
    ASSUME TypeOK, NEW s \in Subs, Step(s)
    PROVE  faults' \in 0..MaxFaults /\ (faults' = 0 => faults = 0)
<1> USE LimitsAssumption DEF LimitsAssumption, TypeOK, Fault
<1>1. CASE SubmitStep(s)
  BY <1>1 DEF SubmitStep, Submit, Spend, SpendFails, Accepted, Rejected, Unclear,
     GiveBack, GiveBackFails, Park, ParkFails, Own, OwnFails, Crash
<1>2. CASE HandlerStep(s)
  BY <1>2 DEF HandlerStep, Claim, SaveJob, HandlerDies, Vanish
<1>3. CASE WorkerStep(s)
  BY <1>3 DEF WorkerStep, Settle, SettleFails, Settled, Expire
<1>4. CASE SweepStep(s)
  BY <1>4 DEF SweepStep, Sweep, Found, NotFound, SweepFails, SweepOwn, SweepGiveBack,
     SweepGiveBackFails, Forget
<1> QED
  BY <1>1, <1>2, <1>3, <1>4 DEF Step

\* What holds of a submission goes on to hold through steps of others.
LEMMA SameHolds ==
    ASSUME NEW s \in Subs, Holds(s), Same(s), faults' = 0 => faults = 0
    PROVE  Holds(s)'
<1> USE DEF Holds, Same
<1>1. Credits(s)' = Credits(s)
  BY DEF Credits
<1>2. Abandoned(s)' /\ Paid(s)'
  BY DEF Abandoned, Paid
<1>3. Kept(s)'
  BY DEF Kept, AtRest
<1>4. Closed(s)'
  BY DEF Closed, Dead, NothingLands
<1>5. Returned(s)'
  BY <1>1 DEF Returned
<1>6. Clean(s)'
  BY <1>1 DEF Clean
<1> QED
  BY <1>2, <1>3, <1>4, <1>5, <1>6

----------------------------------------------------------------------------
(* The submission a step is about *)

\* A refund is made with the credits taken.
LEMMA GiversPaid ==
    ASSUME NEW s \in Subs, Holds(s), pc[s] = "giveback" \/ sweep[s] = "giveback"
    PROVE  taken[s] /\ Dead(s) /\ Credits(s) \in Nat
BY Priced DEF Holds, Paid, Kept, Closed

\* Credits are given back all or not at all, and not twice.
LEMMA GaveBackOnce ==
    ASSUME TypeOK, NEW s \in Subs, Holds(s), GaveBack(s)
    PROVE  /\ Ref(s) \notin rows /\ rows' = rows \cup {Ref(s)}
           /\ \/ UNCHANGED <<returned, balance>>
              \/ /\ Credits(s) > 0
                 /\ returned[s] = 0 /\ returned' = [returned EXCEPT ![s] = Credits(s)]
                 /\ balance' \in {balance + Credits(s), Credits(s)}
<1>1. Dead(s) /\ Credits(s) \in Nat
  BY GiversPaid DEF GaveBack
<1>2. Ref(s) \notin rows /\ rows' = rows \cup {Ref(s)}
  BY DEF GaveBack, Gave
<1>3. returned[s] = 0
  <2>1. job[s] \notin {"ended", "expired"}
    BY <1>1 DEF Dead, NothingLands
  <2> QED
    BY <1>2, <2>1 DEF Holds, Returned, TypeOK
<1>4. returned[s] + Credits(s) = Credits(s)
  BY <1>1, <1>3
<1> QED
  BY <1>2, <1>3, <1>4 DEF GaveBack, Gave

\* The worker settles once, a job whose reference has not been refunded.
LEMMA SettleOnce ==
    ASSUME TypeOK, NEW s \in Subs, Holds(s), NEW k \in 0..Ratios(asked[s]), Settled(s, k)
    PROVE  /\ taken[s] /\ Ref(s) \notin rows /\ JobRow(s) \notin rows /\ returned[s] = 0
           /\ asked[s] \in Params[s] /\ Quotable(asked[s]) /\ Submittable(asked[s])
           /\ Credits(s) \in Nat /\ k \in Nat
           /\ RefundDue(asked[s], k) \in 0..Credits(s)
           /\ job'[s] = "ended" /\ failed'[s] = k /\ UNCHANGED <<page, wixrows>>
<1> USE DEF Holds, Settled, TypeOK, wixrows, page
<1>1. taken[s] /\ asked[s] \in Params[s] /\ Quotable(asked[s]) /\ Submittable(asked[s])
  BY DEF Paid, Kept
<1>2. Ref(s) \notin rows
  BY DEF Closed, Dead, NothingLands
<1>3. returned[s] = 0 /\ JobRow(s) \notin rows
  BY <1>2 DEF Returned
<1>4. Credits(s) \in Nat /\ k \in Nat /\ RefundDue(asked[s], k) \in 0..Credits(s)
  BY <1>1, Priced
<1> QED
  BY <1>1, <1>2, <1>3, <1>4

\* What a settlement gives back is what is due.
LEMMA GaveRatiosOnce ==
    ASSUME TypeOK, NEW s \in Subs, Holds(s), GaveRatios(s)
    PROVE  /\ job[s] = "queued" /\ job'[s] = "ended"
           /\ taken[s] /\ Credits(s) \in Nat /\ rows' = rows \cup {JobRow(s)}
           /\ \/ UNCHANGED <<returned, balance>>
              \/ \E due \in 1..Credits(s) :
                    /\ returned[s] = 0 /\ returned' = [returned EXCEPT ![s] = due]
                    /\ balance' \in {balance + due, due}
<1>1. PICK k \in 0..Ratios(asked[s]) : Settled(s, k) /\ Gave(s, JobRow(s), RefundDue(asked[s], k))
  BY DEF GaveRatios
<1>2. /\ taken[s] /\ returned[s] = 0 /\ Credits(s) \in Nat
      /\ RefundDue(asked[s], k) \in 0..Credits(s) /\ job'[s] = "ended"
  BY <1>1, SettleOnce
<1>3. returned[s] + RefundDue(asked[s], k) = RefundDue(asked[s], k)
  BY <1>2
<1>4. job[s] = "queued" /\ rows' = rows \cup {JobRow(s)}
  BY <1>1 DEF Settled, Gave
<1>5. CASE UNCHANGED <<returned, balance>>
  BY <1>2, <1>4, <1>5
<1>6. CASE ~UNCHANGED <<returned, balance>>
  <2>1. /\ RefundDue(asked[s], k) \in 1..Credits(s)
        /\ returned' = [returned EXCEPT ![s] = RefundDue(asked[s], k)]
        /\ balance' \in {balance + RefundDue(asked[s], k), RefundDue(asked[s], k)}
    BY <1>1, <1>2, <1>3, <1>6 DEF Gave
  <2> QED
    BY <1>2, <1>4, <2>1
<1> QED
  BY <1>5, <1>6

\* Every step keeps the types.
LEMMA TypeStep ==
    ASSUME TypeOK, NEW s \in Subs, Holds(s), Step(s)
    PROVE  TypeOK'
<1> USE DEF Holds, page, wixrows, service, wallet, GoTo, SweepTo
<1>0. faults' \in 0..MaxFaults
  BY FaultsGrow
<1>1. /\ pc' \in [Subs -> {"idle", "spend", "giveback", "park", "row"} \cup Waiting \cup Results]
      /\ sweep' \in [Subs -> Sweeps]
      /\ intent' \in [Subs -> BOOLEAN] /\ owned' \in [Subs -> BOOLEAN]
      /\ job' \in [Subs -> Jobs]
  <2> USE DEF TypeOK, Sweeps, Jobs, Waiting, Results
  <2>1. CASE SubmitStep(s)
    BY <2>1 DEF SubmitStep, Submit, Spend, SpendFails, Accepted, Rejected, Unclear,
       GiveBack, GiveBackFails, Park, ParkFails, Own, OwnFails, Crash
  <2>2. CASE HandlerStep(s)
    BY <2>2 DEF HandlerStep, Claim, SaveJob, HandlerDies, Vanish
  <2>3. CASE WorkerStep(s)
    BY <2>3 DEF WorkerStep, Settle, SettleFails, Settled, Expire
  <2>4. CASE SweepStep(s)
    BY <2>4 DEF SweepStep, Sweep, Found, NotFound, SweepFails, SweepOwn, SweepGiveBack,
       SweepGiveBackFails, Forget
  <2> QED
    BY <2>1, <2>2, <2>3, <2>4 DEF Step
<1>2. DOMAIN asked' = Subs /\ \A q \in Subs : asked'[q] \in Params[q] \cup {NoParams}
  <2>1. \/ asked' = asked
        \/ \E p \in Params[s] : asked' = [asked EXCEPT ![s] = p]
    BY DEF Step, SubmitStep, Submit, Spend, SpendFails, Accepted, Rejected, Unclear,
       GiveBack, GiveBackFails, Park, ParkFails, Own, OwnFails, Crash,
       HandlerStep, Claim, SaveJob, HandlerDies, Vanish,
       WorkerStep, Settle, SettleFails, Settled, Expire,
       SweepStep, Sweep, Found, NotFound, SweepFails, SweepOwn, SweepGiveBack,
       SweepGiveBackFails, Forget
  <2> QED
    BY <2>1 DEF TypeOK
<1>3. inflight' \in [Subs -> 0..2]
  <2> USE DEF TypeOK
  <2>1. CASE SubmitStep(s)
    <3>1. \/ inflight' = inflight
          \/ pc[s] \in Waiting /\ inflight' = [inflight EXCEPT ![s] = inflight[s] + 1]
      BY <2>1 DEF SubmitStep, Submit, Spend, SpendFails, Accepted, Rejected, Unclear,
         GiveBack, GiveBackFails, Park, ParkFails, Own, OwnFails, Crash
    <3>2. pc[s] \in Waiting => inflight[s] \in 0..1
      BY DEF Abandoned, Waiting
    <3> QED
      BY <3>1, <3>2
  <2>2. CASE HandlerStep(s)
    BY <2>2 DEF HandlerStep, Claim, SaveJob, HandlerDies, Vanish
  <2>3. CASE WorkerStep(s)
    BY <2>3 DEF WorkerStep, Settle, SettleFails, Settled, Expire
  <2>4. CASE SweepStep(s)
    BY <2>4 DEF SweepStep, Sweep, Found, NotFound, SweepFails, SweepOwn, SweepGiveBack,
       SweepGiveBackFails, Forget
  <2> QED
    BY <2>1, <2>2, <2>3, <2>4 DEF Step
<1>4. failed' \in [Subs -> Nat]
  <2> USE DEF TypeOK
  <2>1. ASSUME NEW k \in 0..Ratios(asked[s]), Settle(s, k) \/ SettleFails(s, k)
        PROVE  failed' \in [Subs -> Nat]
    <3>1. Settled(s, k)
      BY <2>1 DEF Settle, SettleFails
    <3>2. k \in Nat
      BY <3>1, SettleOnce
    <3> QED
      BY <3>1, <3>2 DEF Settled
  <2>2. CASE SubmitStep(s)
    BY <2>2 DEF SubmitStep, Submit, Spend, SpendFails, Accepted, Rejected, Unclear,
       GiveBack, GiveBackFails, Park, ParkFails, Own, OwnFails, Crash
  <2>3. CASE HandlerStep(s)
    BY <2>3 DEF HandlerStep, Claim, SaveJob, HandlerDies, Vanish
  <2>4. CASE Expire(s) \/ SweepStep(s)
    BY <2>4 DEF Expire, SweepStep, Sweep, Found, NotFound, SweepFails, SweepOwn, SweepGiveBack,
       SweepGiveBackFails, Forget
  <2> QED
    BY <2>1, <2>2, <2>3, <2>4 DEF Step, WorkerStep
<1>5. /\ taken' \in [Subs -> BOOLEAN]
      /\ rows' \subseteq {Ref(q) : q \in Subs} \cup {JobRow(q) : q \in Subs}
      /\ returned' \in [Subs -> Nat]
      /\ balance' \in Nat
  <2> USE DEF TypeOK
  <2>1. CASE UNCHANGED wallet
    BY <2>1
  <2>2. CASE Took(s)
    <3>1. Credits(s) \in Nat
      BY <2>2, Priced DEF Took, Paid
    <3>2. balance' \in Nat
      BY <2>2, <3>1 DEF Took
    <3> QED
      BY <2>2, <3>2 DEF Took
  <2>3. CASE GaveBack(s)
    <3>1. Credits(s) \in Nat /\ taken' = taken
      BY <2>3, GiversPaid DEF GaveBack, Gave
    <3>2. /\ rows' = rows \cup {Ref(s)}
          /\ returned' \in {returned, [returned EXCEPT ![s] = Credits(s)]}
          /\ balance' \in {balance, balance + Credits(s), Credits(s)}
      BY <2>3, GaveBackOnce
    <3> QED
      BY <3>1, <3>2
  <2>4. CASE GaveRatios(s)
    <3>1. taken' = taken
      BY <2>4 DEF GaveRatios, Gave
    <3>2. /\ rows' = rows \cup {JobRow(s)}
          /\ \/ UNCHANGED <<returned, balance>>
             \/ \E due \in 1..Credits(s) :
                   /\ returned' = [returned EXCEPT ![s] = due]
                   /\ balance' \in {balance + due, due}
      BY <2>4, GaveRatiosOnce
    <3>3. Credits(s) \in Nat
      BY <2>4, GaveRatiosOnce
    <3>4. returned' \in [Subs -> Nat] /\ balance' \in Nat
      BY <3>2, <3>3
    <3> QED
      BY <3>1, <3>2, <3>4
  <2> QED
    BY <2>1, <2>2, <2>3, <2>4, WalletStep
<1> QED
  BY <1>0, <1>1, <1>2, <1>3, <1>4, <1>5 DEF TypeOK

\* The first POST leaves one behind at most, the second one more.
LEMMA AbandonedStep ==
    ASSUME TypeOK, NEW s \in Subs, Holds(s), Step(s)
    PROVE  Abandoned(s)'
<1> USE DEF Holds, Abandoned, TypeOK, Waiting, Results, page, wixrows, service, wallet, GoTo
<1>1. CASE SubmitStep(s)
  BY <1>1 DEF SubmitStep, Submit, Spend, SpendFails, Accepted, Rejected, Unclear,
     GiveBack, GiveBackFails, Park, ParkFails, Own, OwnFails, Crash
<1>2. CASE HandlerStep(s)
  BY <1>2 DEF HandlerStep, Claim, SaveJob, HandlerDies, Vanish
<1>3. CASE WorkerStep(s)
  BY <1>3 DEF WorkerStep, Settle, SettleFails, Settled, Expire
<1>4. CASE SweepStep(s)
  BY <1>4 DEF SweepStep, Sweep, Found, NotFound, SweepFails, SweepOwn, SweepGiveBack,
     SweepGiveBackFails, Forget
<1> QED
  BY <1>1, <1>2, <1>3, <1>4 DEF Step

\* Credits are taken once, for a quoted request, before anything else happens.
LEMMA PaidStep ==
    ASSUME TypeOK, NEW s \in Subs, Holds(s), Step(s)
    PROVE  Paid(s)'
<1> USE DEF Holds, Paid, TypeOK, Waiting, Results, page, wixrows, service, wallet, GoTo
<1>1. ASSUME NEW p \in Params[s], Submit(s, p)
      PROVE  Paid(s)'
  BY <1>1 DEF Submit
<1>2. CASE Spend(s) \/ SpendFails(s)
  BY <1>2 DEF Spend, SpendFails, SpendStops, TakeCredits, A!Take
<1>3. CASE GiveBack(s) \/ GiveBackFails(s) \/ SweepGiveBack(s) \/ SweepGiveBackFails(s)
  <2>1. taken[s] /\ pc[s] \notin {"idle", "spend"}
    BY <1>3, GiversPaid DEF GiveBack, GiveBackFails, SweepGiveBack, SweepGiveBackFails
  <2>2. taken' = taken
    <3>1. UNCHANGED wallet \/ GaveBack(s) \/ GaveRatios(s)
      BY <2>1, WalletStep DEF Took
    <3> QED
      BY <3>1 DEF GaveBack, GaveRatios, Gave
  <2>3. /\ asked' = asked
        /\ pc'[s] \in {pc[s], "refused", "error"}
    BY <1>3 DEF GiveBack, GiveBackFails, SweepGiveBack, SweepGiveBackFails
  <2> QED
    BY <2>1, <2>2, <2>3
<1>4. CASE \/ Accepted(s) \/ Rejected(s) \/ Unclear(s) \/ Park(s) \/ ParkFails(s)
           \/ Own(s) \/ OwnFails(s)
  BY <1>4 DEF Accepted, Rejected, Unclear, Park, ParkFails, Own, OwnFails
<1>5. CASE Crash(s)
  <2>1. /\ asked' = asked /\ job' = job /\ pc'[s] = "error" /\ pc[s] \notin {"idle", "error"}
        /\ inflight'[s] # inflight[s] => pc[s] \in Waiting
    BY <1>5 DEF Crash
  <2>2. CASE UNCHANGED wallet
    BY <2>1, <2>2
  <2>3. CASE Took(s)
    BY <2>1, <2>3 DEF Took
  <2>4. CASE GaveBack(s) \/ GaveRatios(s)
    <3>1. taken[s] /\ taken' = taken
      BY <2>4, GiversPaid, GaveRatiosOnce DEF GaveBack, GaveRatios, Gave
    <3> QED
      BY <2>1, <3>1
  <2> QED
    BY <2>2, <2>3, <2>4, WalletStep
<1>6. CASE HandlerStep(s)
  BY <1>6 DEF HandlerStep, Claim, SaveJob, HandlerDies, Vanish
<1>7. ASSUME NEW k \in 0..Ratios(asked[s]), Settle(s, k) \/ SettleFails(s, k)
      PROVE  Paid(s)'
  <2>1. Settled(s, k) /\ pc[s] # "spend"
    BY <1>7 DEF Settle, SettleFails, Settled
  <2>2. taken[s] /\ UNCHANGED page
    BY <2>1, SettleOnce
  <2>3. taken' = taken
    <3>1. UNCHANGED wallet \/ GaveBack(s) \/ GaveRatios(s)
      BY <2>1, WalletStep DEF Took
    <3> QED
      BY <3>1 DEF GaveBack, GaveRatios, Gave
  <2> QED
    BY <2>2, <2>3
<1>8. CASE \/ Expire(s) \/ Sweep(s) \/ Found(s) \/ NotFound(s) \/ SweepOwn(s) \/ Forget(s)
  BY <1>8 DEF Expire, Sweep, Found, NotFound, SweepOwn, Forget
<1>9. CASE SweepFails(s)
  <2>1. UNCHANGED <<page, inflight, job>> /\ pc[s] = "pending"
    BY <1>9 DEF SweepFails, Asking, Kept
  <2>2. taken[s] /\ taken' = taken
    <3>1. UNCHANGED wallet \/ GaveBack(s) \/ GaveRatios(s)
      BY <2>1, WalletStep DEF Took
    <3> QED
      BY <2>1, <3>1 DEF GaveBack, GaveRatios, Gave
  <2> QED
    BY <2>1, <2>2
<1> QED
  BY <1>1, <1>2, <1>3, <1>4, <1>5, <1>6, <1>7, <1>8, <1>9
     DEF Step, SubmitStep, WorkerStep, SweepStep

\* Intents and sweeps belong to pending submissions, rows to jobs.
LEMMA KeptStep ==
    ASSUME TypeOK, InTime, NEW s \in Subs, Holds(s), Step(s)
    PROVE  Kept(s)'
<1> USE DEF Holds, Kept, AtRest, TypeOK, Waiting, Results, page, wixrows, service, wallet,
    GoTo, SweepTo
<1>1. CASE SubmitStep(s)
  <2>1. ASSUME NEW p \in Params[s], Submit(s, p)
        PROVE  Kept(s)'
    BY <2>1 DEF Submit, Paid
  <2>2. CASE Spend(s) \/ SpendFails(s) \/ GiveBack(s) \/ GiveBackFails(s)
    BY <2>2 DEF Spend, SpendFails, GiveBack, GiveBackFails
  <2>3. CASE Accepted(s) \/ Rejected(s) \/ Unclear(s)
    BY <2>3 DEF Accepted, Rejected, Unclear
  <2>4. CASE Park(s) \/ ParkFails(s) \/ Own(s) \/ OwnFails(s) \/ Crash(s)
    BY <2>4 DEF Park, ParkFails, Own, OwnFails, Crash
  <2> QED
    BY <1>1, <2>1, <2>2, <2>3, <2>4 DEF SubmitStep
<1>2. CASE HandlerStep(s)
  BY <1>2 DEF HandlerStep, Claim, SaveJob, HandlerDies, Vanish
<1>3. ASSUME NEW k \in 0..Ratios(asked[s]), Settle(s, k) \/ SettleFails(s, k)
      PROVE  Kept(s)'
  BY <1>3 DEF Settle, SettleFails, Settled
<1>4. CASE Expire(s)
  BY <1>4 DEF Expire, InTime
<1>5. CASE SweepStep(s)
  BY <1>5 DEF SweepStep, Asking, Sweep, Found, NotFound, SweepFails, SweepOwn, SweepGiveBack,
     SweepGiveBackFails, Forget
<1> QED
  BY <1>1, <1>2, <1>3, <1>4, <1>5 DEF Step, WorkerStep

\* A submission without a job gets none.
LEMMA DeadStays ==
    ASSUME TypeOK, NEW s \in Subs, Holds(s), Step(s), Dead(s)
    PROVE  Dead(s)'
<1> USE DEF Dead, NothingLands, TypeOK, Waiting, Results, page, wixrows, service, wallet, GoTo
<1>1. CASE SubmitStep(s)
  BY <1>1 DEF SubmitStep, Submit, Spend, SpendFails, Accepted, Rejected, Unclear,
     GiveBack, GiveBackFails, Park, ParkFails, Own, OwnFails, Crash, Holds, Paid
<1>2. CASE HandlerStep(s)
  BY <1>2 DEF HandlerStep, Claim, SaveJob, HandlerDies, Vanish
<1>3. CASE WorkerStep(s)
  BY <1>3 DEF WorkerStep, Settle, SettleFails, Settled, Expire
<1>4. CASE SweepStep(s)
  BY <1>4 DEF SweepStep, Sweep, Found, NotFound, SweepFails, SweepOwn, SweepGiveBack,
     SweepGiveBackFails, Forget
<1> QED
  BY <1>1, <1>2, <1>3, <1>4 DEF Step

\* The row of the reference is there, or is inserted by who gives credits back.
LEMMA RefKept ==
    ASSUME NEW s \in Subs, Holds(s), Step(s), Ref(s) \in rows'
    PROVE  Ref(s) \in rows \/ GaveBack(s)
BY WalletStep, RowsApart DEF wallet, Took, GaveRatios, Gave

\* Who refunds has seen that there is no job.
LEMMA ClosedStep ==
    ASSUME TypeOK, InTime, NEW s \in Subs, Holds(s), Step(s)
    PROVE  Closed(s)'
<1> USE DEF Closed, TypeOK, Waiting, Results, page, wixrows, service, wallet, GoTo, SweepTo
<1>1. CASE Rejected(s)
  <2>1. Dead(s)'
    BY <1>1 DEF Rejected, Definitive, NothingLands, Dead, InTime, Holds, Kept
  <2>2. Ref(s) \notin rows /\ UNCHANGED rows
    BY <1>1 DEF Rejected, Holds
  <2> QED
    BY <2>1, <2>2
<1>2. CASE NotFound(s)
  <2>1. sweep[s] \in {"ask", "askBlind"} /\ pc[s] = "pending" /\ UNCHANGED <<pc, rows>>
    BY <1>2 DEF NotFound, Asking, Holds, Kept
  <2>2. Dead(s)'
    BY <1>2, <2>1 DEF NotFound, OldEnough, InTime, Dead, NothingLands, Holds, Kept, AtRest
  <2> QED
    BY <2>1, <2>2 DEF Holds
<1>3. CASE GiveBack(s) \/ GiveBackFails(s) \/ SweepGiveBack(s) \/ SweepGiveBackFails(s)
  <2>1. taken[s] /\ Dead(s)
    BY <1>3, GiversPaid DEF GiveBack, GiveBackFails, SweepGiveBack, SweepGiveBackFails
  <2>2. Dead(s)'
    BY <2>1, DeadStays
  <2>3. pc'[s] \in {"refused", "error", "pending"}
    BY <1>3 DEF GiveBack, GiveBackFails, SweepGiveBack, SweepGiveBackFails, Holds, Kept
  <2> QED
    BY <2>2, <2>3 DEF Holds
<1>4. CASE \/ \E p \in Params[s] : Submit(s, p)
           \/ Spend(s) \/ SpendFails(s) \/ Accepted(s) \/ Unclear(s)
           \/ Park(s) \/ ParkFails(s) \/ Own(s) \/ OwnFails(s)
  <2>1. sweep' = sweep /\ rows' = rows
    BY <1>4 DEF Submit, Spend, SpendFails, Accepted, Unclear, Park, ParkFails, Own, OwnFails,
       SpendStops, TakeCredits, A!Take
  <2>2. pc'[s] # "giveback" /\ pc[s] \notin {"refused", "error", "pending"}
    BY <1>4 DEF Submit, Spend, SpendFails, Accepted, Unclear, Park, ParkFails, Own, OwnFails
  <2>3. Ref(s) \notin rows /\ sweep[s] # "giveback"
    BY <2>2 DEF Holds, Kept
  <2> QED
    BY <2>1, <2>2, <2>3
<1>5. CASE Crash(s)
  <2>1. /\ pc'[s] = "error" /\ pc[s] \notin {"refused", "error", "pending"}
        /\ sweep' = sweep /\ sweep[s] # "giveback"
    BY <1>5 DEF Crash, Holds, Kept
  <2>2. ASSUME Ref(s) \in rows'
        PROVE  Dead(s)'
    <3>1. Ref(s) \notin rows
      BY <2>1 DEF Holds
    <3>2. GaveBack(s)
      BY <2>2, <3>1, RefKept
    <3> QED
      BY <3>2, GiversPaid, DeadStays DEF GaveBack
  <2> QED
    BY <2>1, <2>2
<1>6. CASE SweepFails(s)
  <2>1. pc[s] = "pending" /\ pc' = pc /\ sweep'[s] = "idle"
    BY <1>6 DEF SweepFails, Asking, Holds, Kept
  <2>2. ASSUME Ref(s) \in rows'
        PROVE  Dead(s)'
    <3>1. Dead(s)
      BY <2>2, RefKept, GiversPaid DEF GaveBack, Holds
    <3> QED
      BY <3>1, DeadStays
  <2> QED
    BY <2>1, <2>2
<1>7. CASE \/ HandlerStep(s) \/ WorkerStep(s)
           \/ Sweep(s) \/ Found(s) \/ SweepOwn(s) \/ Forget(s)
  <2>1. /\ UNCHANGED pc
        /\ sweep'[s] = "giveback" => sweep[s] = "giveback"
    BY <1>7 DEF HandlerStep, Claim, SaveJob, HandlerDies, Vanish, WorkerStep, Settle, SettleFails,
       Settled, Expire, Sweep, Found, SweepOwn, Forget
  <2>2. ASSUME Ref(s) \in rows'
        PROVE  Ref(s) \in rows
    <3>1. CASE GaveBack(s)
      <4>1. job[s] \notin {"queued", "ended"} => UNCHANGED rows
        BY <1>7 DEF HandlerStep, Claim, SaveJob, HandlerDies, Vanish, WorkerStep, Settle,
           SettleFails, Settled, Expire, Sweep, Found, SweepOwn, Forget
      <4>2. Dead(s)
        BY <3>1, GiversPaid DEF GaveBack
      <4> QED
        BY <2>2, <4>1, <4>2 DEF Dead, NothingLands
    <3>2. CASE ~GaveBack(s)
      BY <2>2, <3>2, RefKept
    <3> QED
      BY <3>1, <3>2
  <2> QED
    BY <2>1, <2>2, DeadStays DEF Holds
<1> QED
  BY <1>1, <1>2, <1>3, <1>4, <1>5, <1>6, <1>7 DEF Step, SubmitStep, SweepStep

\* Never more is given back than was taken, and not twice.
LEMMA ReturnedStep ==
    ASSUME TypeOK, NEW s \in Subs, Holds(s), Step(s)
    PROVE  Returned(s)'
<1> USE DEF TypeOK, page, wixrows, service
<1>1. job[s] \in {"ended", "expired"} => job'[s] \in {"ended", "expired"}
  <2>1. CASE SubmitStep(s)
    BY <2>1 DEF SubmitStep, Submit, Spend, SpendFails, Accepted, Rejected, Unclear,
       GiveBack, GiveBackFails, Park, ParkFails, Own, OwnFails, Crash
  <2>2. CASE HandlerStep(s) \/ WorkerStep(s)
    BY <2>2 DEF HandlerStep, Claim, SaveJob, HandlerDies, Vanish, WorkerStep, Settle,
       SettleFails, Settled, Expire
  <2>3. CASE SweepStep(s)
    BY <2>3 DEF SweepStep, Sweep, Found, NotFound, SweepFails, SweepOwn, SweepGiveBack,
       SweepGiveBackFails, Forget
  <2> QED
    BY <2>1, <2>2, <2>3 DEF Step
<1>2. asked'[s] = asked[s] \/ (~taken'[s] /\ returned'[s] = 0 /\ JobRow(s) \notin rows')
  <2>1. ASSUME NEW p \in Params[s], Submit(s, p)
        PROVE  ~taken'[s] /\ returned'[s] = 0 /\ JobRow(s) \notin rows'
    BY <2>1 DEF Submit, Holds, Paid, Returned, wallet
  <2>2. CASE SubmitStep(s) /\ ~\E p \in Params[s] : Submit(s, p)
    BY <2>2 DEF SubmitStep, Spend, SpendFails, Accepted, Rejected, Unclear,
       GiveBack, GiveBackFails, Park, ParkFails, Own, OwnFails, Crash
  <2>3. CASE HandlerStep(s) \/ WorkerStep(s)
    BY <2>3 DEF HandlerStep, Claim, SaveJob, HandlerDies, Vanish, WorkerStep, Settle,
       SettleFails, Settled, Expire
  <2>4. CASE SweepStep(s)
    BY <2>4 DEF SweepStep, Sweep, Found, NotFound, SweepFails, SweepOwn, SweepGiveBack,
       SweepGiveBackFails, Forget
  <2> QED
    BY <2>1, <2>2, <2>3, <2>4 DEF Step, SubmitStep
<1>3. CASE asked'[s] # asked[s]
  BY <1>2, <1>3 DEF Returned
<1>4. CASE asked'[s] = asked[s]
  <2>1. Credits(s)' = Credits(s)
    BY <1>4 DEF Credits
  <2>2. CASE UNCHANGED wallet
    BY <1>1, <2>1, <2>2 DEF wallet, Holds, Returned
  <2>3. CASE Took(s)
    <3>1. returned'[s] = 0 /\ rows' = rows
      BY <2>3 DEF Took, Holds, Paid
    <3>2. Credits(s) \in Nat
      BY <2>3, Priced DEF Took, Holds, Paid
    <3> QED
      BY <1>1, <2>1, <3>1, <3>2 DEF Holds, Returned
  <2>4. CASE GaveBack(s)
    <3>1. taken' = taken /\ taken[s] /\ Credits(s) \in Nat
      BY <2>4, GiversPaid DEF GaveBack, Gave
    <3>2. /\ rows' = rows \cup {Ref(s)}
          /\ returned' \in {returned, [returned EXCEPT ![s] = Credits(s)]}
      BY <2>4, GaveBackOnce
    <3>3. returned'[s] \in {returned[s], Credits(s)}
      BY <3>2
    <3>4. Ref(s) \in rows' /\ (JobRow(s) \in rows' => JobRow(s) \in rows)
      BY <3>2, RowsApart
    <3> QED
      BY <1>1, <2>1, <3>1, <3>3, <3>4 DEF Holds, Returned
  <2>5. CASE GaveRatios(s)
    <3>1. taken' = taken
      BY <2>5 DEF GaveRatios, Gave
    <3>2. /\ job'[s] = "ended" /\ taken[s]
          /\ returned'[s] = returned[s] \/ returned'[s] \in 1..Credits(s)
      BY <2>5, GaveRatiosOnce
    <3> QED
      BY <2>1, <3>1, <3>2 DEF Holds, Returned
  <2> QED
    BY <2>2, <2>3, <2>4, <2>5, WalletStep
<1> QED
  BY <1>3, <1>4

\* Without faults, the credits of a submission are where its state says.
LEMMA CleanStep ==
    ASSUME TypeOK, NEW s \in Subs, Holds(s), Step(s), faults' = 0
    PROVE  Clean(s)'
<1> USE DEF TypeOK, Clean, Results, Waiting, page, wixrows, service, wallet, GoTo, SweepTo
<1>0. faults = 0 /\ \A kind \in FaultKinds : ~Fault(kind)
  <2>1. faults = 0
    BY FaultsGrow
  <2> QED
    BY <2>1 DEF Fault
<1>1. ASSUME NEW p \in Params[s], Submit(s, p)
      PROVE  Clean(s)'
  <2>1. /\ pc[s] = "idle" /\ pc'[s] \in {"refused", "spend"}
        /\ UNCHANGED <<wixrows, service, wallet>>
    BY <1>1 DEF Submit
  <2>2. /\ ~taken[s] /\ Ref(s) \notin rows /\ job[s] = "none" /\ sweep[s] = "idle"
    BY <2>1 DEF Holds, Paid, Kept
  <2> QED
    BY <2>1, <2>2
<1>2. CASE Spend(s)
  <2>1. /\ pc[s] = "spend" /\ UNCHANGED <<asked, wixrows, service, rows, returned>>
        /\ \/ pc'[s] = "refused" /\ taken' = taken
           \/ pc'[s] = "first"
    BY <1>2 DEF Spend, TakeCredits, A!Take
  <2>2. /\ ~taken[s] /\ Ref(s) \notin rows /\ job[s] = "none" /\ sweep[s] = "idle"
    BY <2>1 DEF Holds, Paid, Kept
  <2> QED
    BY <2>1, <2>2
<1>3. CASE Accepted(s) \/ Rejected(s) \/ Unclear(s)
  <2>1. /\ pc'[s] \in {"row", "giveback", "second", "park"}
        /\ UNCHANGED <<asked, wixrows, job, failed, wallet>>
    BY <1>3 DEF Accepted, Rejected, Unclear
  <2> QED
    BY <1>0, <2>1 DEF Holds, Credits
<1>4. CASE Park(s) \/ Own(s)
  <2>1. /\ \/ pc'[s] = "accepted"
           \/ pc'[s] = "pending" /\ intent'[s]
        /\ pc[s] \in {"park", "row"}
        /\ UNCHANGED <<asked, sweep, service, wallet>>
    BY <1>4 DEF Park, Own
  <2>2. sweep[s] = "idle"
    BY <2>1 DEF Holds, Kept
  <2> QED
    BY <1>0, <2>1, <2>2 DEF Holds, Credits
<1>5. CASE GiveBack(s) \/ SweepGiveBack(s)
  <2>1. /\ taken[s] /\ Dead(s) /\ Credits(s) \in Nat
        /\ Refund(s, Ref(s), Credits(s)) /\ UNCHANGED <<asked, intent, owned, service>>
        /\ \/ pc[s] = "giveback" /\ pc'[s] = "refused" /\ UNCHANGED sweep
           \/ sweep[s] = "giveback" /\ sweep'[s] = "forget" /\ UNCHANGED pc
    BY <1>5, GiversPaid DEF GiveBack, SweepGiveBack
  <2>2. returned'[s] = Credits(s)
    <3>1. CASE Credits(s) = 0
      BY <2>1, <3>1 DEF Refund, Holds, Returned
    <3>2. CASE Ref(s) \in rows
      BY <1>0, <2>1, <3>2 DEF Refund, Holds
    <3>3. CASE Credits(s) # 0 /\ Ref(s) \notin rows
      <4>1. job[s] \notin {"ended", "expired"}
        BY <2>1 DEF Dead, NothingLands
      <4>2. returned[s] = 0
        BY <3>3, <4>1 DEF Holds, Returned
      <4>3. returned' = [returned EXCEPT ![s] = returned[s] + Credits(s)]
        BY <2>1, <3>3 DEF Refund, AddCredits
      <4> QED
        BY <2>1, <4>2, <4>3
    <3> QED
      BY <3>1, <3>2, <3>3
  <2>3. Credits(s)' = Credits(s)
    BY <2>1 DEF Credits
  <2>4. job[s] \notin {"ended", "expired"}
    BY <2>1 DEF Dead, NothingLands
  <2>5. pc[s] = "giveback" => sweep[s] = "idle"
    BY DEF Holds, Kept
  <2>6. job'[s] = job[s]
    BY <2>1
  <2>7. pc'[s] # "error" /\ job'[s] \notin {"orphan", "stuck"} /\ sweep'[s] # "askBlind"
    BY <1>0, <2>1, <2>5 DEF Holds
  <2> QED
    BY <2>2, <2>3, <2>4, <2>6, <2>7
<1>6. CASE HandlerStep(s)
  <2>1. /\ UNCHANGED <<page, wixrows, failed, wallet>>
        /\ job'[s] \in {job[s], "claimed", "queued"}
    BY <1>0, <1>6 DEF HandlerStep, Claim, SaveJob, HandlerDies, Vanish, FaultKinds
  <2> QED
    BY <1>0, <2>1 DEF Holds, Credits
<1>7. ASSUME NEW k \in 0..Ratios(asked[s]), Settle(s, k) \/ SettleFails(s, k)
      PROVE  Clean(s)'
  <2>1. Settle(s, k) /\ Settled(s, k)
    BY <1>0, <1>7 DEF Settle, SettleFails, FaultKinds
  <2>2. /\ taken[s] /\ Ref(s) \notin rows /\ JobRow(s) \notin rows /\ returned[s] = 0
        /\ Credits(s) \in Nat /\ RefundDue(asked[s], k) \in 0..Credits(s)
        /\ job'[s] = "ended" /\ failed'[s] = k /\ UNCHANGED <<page, wixrows>>
    BY <2>1, SettleOnce
  <2>3. returned'[s] = RefundDue(asked[s], k) /\ Ref(s) \notin rows'
    <3>1. CASE RefundDue(asked[s], k) = 0
      BY <2>1, <2>2, <3>1 DEF Settle, Refund
    <3>2. CASE RefundDue(asked[s], k) # 0
      <4>1. /\ returned' = [returned EXCEPT ![s] = returned[s] + RefundDue(asked[s], k)]
            /\ rows' = rows \cup {JobRow(s)}
        BY <2>1, <2>2, <3>2 DEF Settle, Refund, AddCredits, A!Credit
      <4>2. returned'[s] = RefundDue(asked[s], k)
        BY <2>2, <4>1
      <4> QED
        BY <2>2, <4>1, <4>2, RowsApart
    <3> QED
      BY <3>1, <3>2
  <2>4. Credits(s)' = Credits(s) /\ asked'[s] = asked[s] /\ taken' = taken
    BY <2>1, <2>2 DEF Credits, Settle, Refund, AddCredits
  <2>5. returned[s] = Credits(s) => returned'[s] = Credits(s)
    BY <2>2, <2>3
  <2> QED
    BY <1>0, <2>2, <2>3, <2>4, <2>5 DEF Holds
<1>8. CASE Expire(s)
  <2>1. /\ job[s] = "ended" /\ job'[s] = "expired"
        /\ UNCHANGED <<page, wixrows, failed, wallet>>
    BY <1>8 DEF Expire
  <2> QED
    BY <1>0, <2>1 DEF Holds, Credits
<1>9. CASE Sweep(s) \/ Found(s) \/ NotFound(s) \/ SweepOwn(s)
  <2>1. /\ UNCHANGED <<page, intent, service, wallet>>
        /\ owned'[s] = (owned[s] \/ sweep'[s] = "forget")
        /\ sweep'[s] \in {"ask", "row", "giveback", "forget"}
    BY <1>0, <1>9 DEF Sweep, Found, NotFound, SweepOwn, Asking, Holds, FaultKinds
  <2> QED
    BY <1>0, <2>1 DEF Holds, Credits
<1>10. CASE Forget(s)
  <2>1. /\ UNCHANGED <<page, owned, service, wallet>>
        /\ sweep[s] = "forget" /\ sweep'[s] = "idle"
    BY <1>10 DEF Forget
  <2> QED
    BY <1>0, <2>1 DEF Holds, Credits
<1> QED
  BY <1>0, <1>1, <1>2, <1>3, <1>4, <1>5, <1>6, <1>7, <1>8, <1>9, <1>10
     DEF Step, SubmitStep, WorkerStep, SweepStep, SpendFails, GiveBackFails, ParkFails,
     OwnFails, Crash, SweepFails, SweepGiveBackFails, FaultKinds

----------------------------------------------------------------------------
(* Theorems *)

\* A step of any submission keeps the invariant of all.
LEMMA StepIInv ==
    ASSUME InTime, IInv, [Next]_vars
    PROVE  IInv'
<1>1. CASE UNCHANGED vars
  <2>1. TypeOK'
    BY <1>1 DEF IInv, vars, TypeOK, page, wixrows, service, wallet
  <2>2. ASSUME NEW q \in Subs
        PROVE  Holds(q)'
    <3>1. Same(q) /\ faults' = faults /\ Holds(q)
      BY <1>1 DEF IInv, Holds, Same, vars, page, wixrows, service, wallet
    <3> QED
      BY <3>1, SameHolds
  <2> QED
    BY <2>1, <2>2 DEF IInv, Holds
<1>2. ASSUME NEW s \in Subs, Step(s)
      PROVE  IInv'
  <2>1. TypeOK /\ Holds(s)
    BY DEF IInv, Holds
  <2>2. TypeOK'
    BY <1>2, <2>1, TypeStep
  <2>3. Abandoned(s)' /\ Paid(s)' /\ Kept(s)'
    BY <1>2, <2>1, AbandonedStep, PaidStep, KeptStep
  <2>4. Closed(s)' /\ Returned(s)'
    BY <1>2, <2>1, ClosedStep, ReturnedStep
  <2>5. Clean(s)'
    <3>1. CASE faults' = 0
      BY <1>2, <2>1, <3>1, CleanStep
    <3>2. CASE faults' # 0
      BY <3>2 DEF Clean
    <3> QED
      BY <3>1, <3>2
  <2>6. ASSUME NEW q \in Subs, q # s
        PROVE  Holds(q)'
    <3>1. Same(q) /\ Holds(q) /\ (faults' = 0 => faults = 0)
      BY <1>2, <2>1, <2>6, OthersSame, FaultsGrow DEF IInv, Holds
    <3> QED
      BY <3>1, SameHolds
  <2> QED
    BY <2>2, <2>3, <2>4, <2>5, <2>6 DEF IInv, Holds
<1> QED
  BY <1>1, <1>2 DEF Next, Step

\* IInv is an invariant of the spend path.
THEOREM Invariance ==
    ASSUME InTime
    PROVE  Spec => []IInv
<1>1. IInv /\ [Next]_vars => IInv'
  BY StepIInv
<1> QED
  BY InitIInv, <1>1, PTL DEF Spec

\* Every variable keeps its type (TypeOK); in particular the balance never goes
\* below zero.
THEOREM TypeCorrect ==
    ASSUME InTime
    PROVE  Spec => []TypeOK
<1>1. IInv => TypeOK
  BY DEF IInv
<1> QED
  BY Invariance, <1>1, PTL

\* Credits that submit or reconcileSubmit gave back belong to a submission that
\* has no job and gets none, whatever crashes or fails.
THEOREM NoFreeJobs ==
    ASSUME InTime
    PROVE  Spec => []RefundedMeansNoJob
<1>1. IInv => RefundedMeansNoJob
  BY DEF IInv, Closed, Dead, NothingLands, RefundedMeansNoJob
<1> QED
  BY Invariance, <1>1, PTL

\* What submit answers is true.
THEOREM Answers ==
    ASSUME InTime
    PROVE  Spec => []AnswersAreTrue
<1>1. IInv => AnswersAreTrue
  BY DEF IInv, Paid, Kept, Closed, Clean, AnswersAreTrue
<1> QED
  BY Invariance, <1>1, PTL

\* Without faults, the credits of a submission at rest are given back, with a
\* job of the member, or remembered by an intent.
THEOREM Accounted ==
    ASSUME InTime
    PROVE  Spec => []HoldAccountedFor
<1>1. ASSUME IInv, NEW s \in Subs, AtRest(s), taken[s], faults = 0
      PROVE  \/ intent[s]
             \/ returned[s] = Credits(s)
             \/ owned[s] /\ job[s] \in Runs \cup {"claimed"}
  <2>1. Kept(s) /\ Clean(s) /\ job[s] \in Jobs
    BY <1>1 DEF IInv, TypeOK
  <2>2. owned[s] => job[s] \in Runs \cup {"claimed"}
    BY <1>1, <2>1 DEF Kept, Clean, Jobs, Runs
  <2> QED
    BY <1>1, <2>1, <2>2 DEF Kept, Clean, AtRest, Results
<1>2. IInv => HoldAccountedFor
  BY <1>1 DEF HoldAccountedFor
<1> QED
  BY Invariance, <1>2, PTL

\* Without faults, a job has cost its ratios that did not fail, each at the
\* least number of credits that covers its price.
THEOREM Charged ==
    ASSUME InTime
    PROVE  Spec => []ChargedForWhatRan
<1>1. ASSUME IInv, NEW s \in Subs, job[s] = "ended", faults = 0
      PROVE  /\ held[s] = (Ratios(asked[s]) - failed[s]) * RatioUnit(asked[s])
             /\ FairUnit(asked[s])
  <2>1. /\ taken[s] /\ asked[s] \in Params[s] /\ Quotable(asked[s]) /\ Submittable(asked[s])
        /\ failed[s] \in 0..Ratios(asked[s]) /\ returned[s] = RefundDue(asked[s], failed[s])
    BY <1>1 DEF IInv, Paid, Kept, Clean
  <2>2. Typed(asked[s])
    BY <2>1, Priced
  <2>3. held[s] = Credits(s) - returned[s]
    BY <2>1 DEF held
  <2>4. Credits(s) - returned[s] = (Ratios(asked[s]) - failed[s]) * RatioUnit(asked[s])
    BY <2>1, <2>2, QuoteIsItsRatios DEF Credits
  <2>5. FairUnit(asked[s])
    <3> DEFINE p == asked[s]
               price == ApplyMargin(RawCost(LineItems(p.service, Get(p, "duration", 5),
                                                      Get(p, "expand", TRUE))))
    <3>1. LineItems(p.service, Get(p, "duration", 5), Get(p, "expand", TRUE))
            = LineItems(p.service, KeptDuration(p), KeptExpand(p))
      BY <2>2 DEF Typed, Services, LineItems, KeptDuration, KeptExpand, NeedsRoom
    <3>2. price \in Nat
      <4>1. Get(p, "duration", 5) \in Nat
        BY <2>1, <2>2 DEF Typed, Quotable, QuotationRequest, HasDuration, Durations
      <4> QED
        BY <4>1, PriceNat
    <3>3. RatioUnit(p) = UsdToCredits(price)
      BY <3>1 DEF RatioUnit, RatioCredits
    <3>4. /\ UsdToCredits(price) \in Nat
          /\ UsdToCredits(price) * Peg >= price
          /\ UsdToCredits(price) > 0 => (UsdToCredits(price) - 1) * Peg < price
      BY <3>2, LeastCover
    <3>5. Peg \in Nat /\ (UsdToCredits(price) - 1) * Peg \in Int
      <4>1. Peg \in Nat /\ UsdToCredits(price) \in Nat
        BY <3>4, PricesAssumption DEF PricesAssumption
      <4>2. ASSUME NEW n \in Nat, NEW m \in Nat
            PROVE  (n - 1) * m \in Int
        OBVIOUS
      <4> HIDE DEF p, price
      <4> QED
        BY <4>1, <4>2
    <3>6. \A c : Covers(c, p) <=> c * Peg >= price
      BY DEF Covers
    <3> HIDE DEF p, price
    <3>7. UsdToCredits(price) = 0 \/ ~((UsdToCredits(price) - 1) * Peg >= price)
      BY <3>2, <3>4, <3>5
    <3>8. FairUnit(p)
      BY <3>3, <3>4, <3>6, <3>7 DEF FairUnit
    <3> QED
      BY <3>8 DEF p
  <2> QED
    BY <2>3, <2>4, <2>5
<1>2. IInv => ChargedForWhatRan
  BY <1>1 DEF ChargedForWhatRan
<1> QED
  BY Invariance, <1>2, PTL

----------------------------------------------------------------------------
(* WixSubmit implements Escrow *)

\* A step keeps what its submission asks for, once the credits are taken.
LEMMA CreditsKept ==
    ASSUME NEW s \in Subs, Holds(s), Step(s), taken[s]
    PROVE  Credits(s)' = Credits(s)
<1> USE DEF page, wixrows, service
<1>1. pc[s] # "idle"
  BY DEF Holds, Paid
<1>2. asked' = asked
  <2>1. CASE SubmitStep(s)
    BY <1>1, <2>1 DEF SubmitStep, Submit, Spend, SpendFails, Accepted, Rejected, Unclear,
       GiveBack, GiveBackFails, Park, ParkFails, Own, OwnFails, Crash
  <2>2. CASE HandlerStep(s) \/ WorkerStep(s)
    BY <2>2 DEF HandlerStep, Claim, SaveJob, HandlerDies, Vanish, WorkerStep, Settle,
       SettleFails, Settled, Expire
  <2>3. CASE SweepStep(s)
    BY <2>3 DEF SweepStep, Sweep, Found, NotFound, SweepFails, SweepOwn, SweepGiveBack,
       SweepGiveBackFails, Forget
  <2> QED
    BY <2>1, <2>2, <2>3 DEF Step
<1> QED
  BY <1>2 DEF Credits

\* What a step can do to the credits of its submission: take them, give some of
\* them back for the first time, or nothing.
LEMMA Moves ==
    ASSUME TypeOK, NEW s \in Subs, Holds(s), Step(s)
    PROVE  \/ /\ ~taken[s] /\ taken'[s] /\ returned'[s] = 0
              /\ \E seen \in {balance, 0} :
                    Credits(s)' \in 0..seen /\ balance' = seen - Credits(s)'
           \/ /\ taken[s] /\ taken'[s] /\ Credits(s)' = Credits(s) /\ Credits(s) \in Nat
              /\ returned[s] = 0 /\ returned'[s] \in 1..Credits(s)
              /\ balance' \in {balance + returned'[s], returned'[s]}
           \/ /\ taken'[s] = taken[s] /\ returned'[s] = returned[s] /\ balance' = balance
              /\ taken[s] => Credits(s)' = Credits(s)
<1> USE DEF TypeOK
<1>1. CASE UNCHANGED wallet
  BY <1>1, CreditsKept DEF wallet
<1>2. CASE Took(s)
  <2>1. ~taken[s] /\ returned'[s] = 0 /\ taken'[s] /\ Credits(s) \in Nat
    BY <1>2, Priced DEF Took, Holds, Paid
  <2>2. Credits(s)' = Credits(s)
    BY <1>2 DEF Took, Credits
  <2>3. \E seen \in {balance, 0} : Credits(s)' \in 0..seen /\ balance' = seen - Credits(s)'
    <3>1. PICK seen \in {balance, 0} : Credits(s) <= seen /\ balance' = seen - Credits(s)
      BY <1>2 DEF Took
    <3>2. Credits(s) \in 0..seen
      BY <2>1, <3>1
    <3> QED
      BY <2>2, <3>1, <3>2
  <2> QED
    BY <2>1, <2>3
<1>3. CASE GaveBack(s)
  <2>1. taken[s] /\ taken' = taken /\ Credits(s) \in Nat /\ Credits(s)' = Credits(s)
    BY <1>3, GiversPaid, CreditsKept DEF GaveBack, Gave
  <2>2. \/ UNCHANGED <<returned, balance>>
        \/ /\ Credits(s) > 0 /\ returned[s] = 0 /\ returned'[s] = Credits(s)
           /\ balance' \in {balance + Credits(s), Credits(s)}
    BY <1>3, GaveBackOnce
  <2> QED
    BY <2>1, <2>2
<1>4. CASE GaveRatios(s)
  <2>1. taken[s] /\ taken' = taken /\ Credits(s) \in Nat /\ Credits(s)' = Credits(s)
    BY <1>4, GaveRatiosOnce, CreditsKept DEF GaveRatios, Gave
  <2>2. \/ UNCHANGED <<returned, balance>>
        \/ \E due \in 1..Credits(s) :
              /\ returned[s] = 0 /\ returned'[s] = due
              /\ balance' \in {balance + due, due}
    BY <1>4, GaveRatiosOnce
  <2> QED
    BY <2>1, <2>2
<1> QED
  BY <1>1, <1>2, <1>3, <1>4, WalletStep

\* Each step of WixSubmit is a step of Escrow or changes nothing there.
LEMMA EscrowStep ==
    ASSUME IInv, [Next]_vars
    PROVE  [E1!Next]_<<balance, state, held>>
<1>1. CASE UNCHANGED vars
  <2>1. UNCHANGED <<balance, state, held>>
    BY <1>1 DEF vars, page, wixrows, service, wallet, state, held, Credits
  <2> QED
    BY <2>1
<1>2. ASSUME NEW s \in Subs, Step(s)
      PROVE  E1!Next \/ UNCHANGED <<balance, state, held>>
  <2>1. TypeOK /\ Holds(s)
    BY DEF IInv, Holds
  <2>2. \A q \in Subs : q # s => held'[q] = held[q] /\ state'[q] = state[q]
    <3>1. ASSUME NEW q \in Subs, q # s
          PROVE  held'[q] = held[q] /\ state'[q] = state[q]
      <4>1. Same(q)
        BY <1>2, <2>1, <3>1, OthersSame
      <4>2. Credits(q)' = Credits(q)
        BY <4>1 DEF Same, Credits
      <4> QED
        BY <4>1, <4>2 DEF Same, held, state
    <3> QED
      BY <3>1
  <2>3. /\ held = [q \in Subs |-> held[q]] /\ state = [q \in Subs |-> state[q]]
        /\ held' = [q \in Subs |-> held'[q]] /\ state' = [q \in Subs |-> state'[q]]
    BY DEF held, state
  <2>4. /\ held[s] = IF taken[s] THEN Credits(s) - returned[s] ELSE 0
        /\ held'[s] = IF taken'[s] THEN Credits(s)' - returned'[s] ELSE 0
        /\ state[s] = IF ~taken[s] THEN "free" ELSE IF returned[s] > 0 THEN "closed" ELSE "held"
        /\ state'[s] = IF ~taken'[s] THEN "free"
                       ELSE IF returned'[s] > 0 THEN "closed" ELSE "held"
    BY DEF held, state
  <2>5. balance \in Nat
    BY <2>1 DEF TypeOK
  <2>6. CASE /\ ~taken[s] /\ taken'[s] /\ returned'[s] = 0
             /\ \E seen \in {balance, 0} :
                   Credits(s)' \in 0..seen /\ balance' = seen - Credits(s)'
    <3>1. PICK seen \in E1!Seen : Credits(s)' \in 0..seen /\ balance' = seen - Credits(s)'
      BY <2>6 DEF E1!Seen
    <3>2. seen \in Nat
      BY <2>5 DEF E1!Seen
    <3>3. /\ balance' \in 0..seen /\ seen - balance' = Credits(s)'
          /\ state[s] = "free" /\ state'[s] = "held" /\ held'[s] = seen - balance'
      BY <2>4, <2>6, <3>1, <3>2
    <3>4. /\ held' = [held EXCEPT ![s] = seen - balance']
          /\ state' = [state EXCEPT ![s] = "held"]
      BY <2>2, <2>3, <3>3
    <3>5. E1!Take(s)
      BY <3>3, <3>4 DEF E1!Take
    <3> QED
      BY <3>5 DEF E1!Next
  <2>7. CASE /\ taken[s] /\ taken'[s] /\ Credits(s)' = Credits(s) /\ Credits(s) \in Nat
             /\ returned[s] = 0 /\ returned'[s] \in 1..Credits(s)
             /\ balance' \in {balance + returned'[s], returned'[s]}
    <3>1. PICK seen \in E1!Seen : balance' = seen + returned'[s]
      <4>1. returned'[s] = 0 + returned'[s]
        BY <2>7
      <4> QED
        BY <2>7, <4>1 DEF E1!Seen
    <3>2. seen \in Nat
      BY <2>5 DEF E1!Seen
    <3>3. /\ balance' - seen = returned'[s] /\ balance' - seen \in 1..held[s]
          /\ state[s] = "held" /\ state'[s] = "closed"
          /\ held'[s] = held[s] - (balance' - seen)
      BY <2>4, <2>7, <3>1, <3>2
    <3>4. /\ held' = [held EXCEPT ![s] = held[s] - (balance' - seen)]
          /\ state' = [state EXCEPT ![s] = "closed"]
      BY <2>2, <2>3, <3>3
    <3>5. E1!GiveBack(s)
      BY <3>3, <3>4 DEF E1!GiveBack
    <3> QED
      BY <3>5 DEF E1!Next
  <2>8. CASE /\ taken'[s] = taken[s] /\ returned'[s] = returned[s] /\ balance' = balance
             /\ taken[s] => Credits(s)' = Credits(s)
    <3>1. held'[s] = held[s] /\ state'[s] = state[s]
      BY <2>4, <2>8
    <3>2. held' = held /\ state' = state
      BY <2>2, <2>3, <3>1
    <3> QED
      BY <2>8, <3>2
  <2> QED
    BY <1>2, <2>1, <2>6, <2>7, <2>8, Moves
<1> QED
  BY <1>1, <1>2 DEF Next, Step

\* submit, reconcileSubmit and the worker together keep the promise of Escrow:
\* the credits of a submission are taken once, and given back once at most and
\* never more than was taken, although three parties can give them back.
THEOREM ImplementsEscrow ==
    ASSUME InTime
    PROVE  Spec => KeepsEscrow
<1>1. Init => E1!Init
  BY DEF Init, E1!Init, held, state
<1>2. IInv /\ [Next]_vars => [E1!Next]_<<balance, state, held>>
  BY EscrowStep
<1> QED
  BY Invariance, <1>1, <1>2, PTL DEF Spec, KeepsEscrow, E1!Spec
=============================================================================
