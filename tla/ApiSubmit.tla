----------------------------- MODULE ApiSubmit -----------------------------
(***************************************************************************)
(* The job service's submit path: routers/_shared.py submit_job with the   *)
(* JobStore, ARQ and usage-ledger calls it makes, and the reconciliation   *)
(* read GET /v1/jobs/by-client-ref/{ref} of routers/jobs.py.               *)
(*                                                                         *)
(* Every HTTP request runs in an asyncio handler of its own.  Handlers     *)
(* interleave at each await, so each Redis, ARQ or SQL call is one action: *)
(* the call's effect at the server and the local code up to the next       *)
(* await.  A call can raise (the handler answers 500 and whatever it wrote *)
(* stays), and the process can die with all its handlers.                  *)
(*                                                                         *)
(* Job ids are uuid4s minted inside the handler, so the id a request would *)
(* mint is named by the request itself.  The status string in the answer   *)
(* is left out: (job or {}).get("status", "queued") answers "queued" for a *)
(* record that is not there.                                               *)
(***************************************************************************)
EXTENDS Integers, FiniteSets

CONSTANTS Requests,      \* HTTP requests; each is handled once
          Refs,          \* (member_id, client_ref) pairs
          None,          \* redis nil
          MaxQueueDepth, \* settings.max_queue_depth
          MaxInFlight,   \* bound: handlers running at the same time
          MaxFaults,     \* bound: raising calls and process crashes
          MaxBlind,      \* bound: queue_depth() calls that fail and report 0
          MaxExpiries    \* bound: idempotency keys that reach their TTL

ASSUME NoneAssumption  == None \notin Requests \cup Refs
ASSUME FiniteRequests  == IsFiniteSet(Requests)
ASSUME BoundsAssumption ==
    /\ MaxQueueDepth \in Nat \ {0}
    /\ MaxInFlight \in Nat \ {0}
    /\ MaxFaults \in Nat
    /\ MaxBlind \in Nat
    /\ MaxExpiries \in Nat

VARIABLES pc,       \* pc[q]: the await request q's handler stands at
          ref,      \* ref[q]: the (member, client_ref) request q is about
          seen,     \* seen[q]: the existing job id the handler read
          reply,    \* reply[q]: HTTP status code and job id answered
          index,    \* redis clientref:{member}:{ref} -> job id
          records,  \* redis job:{id} keys that exist
          charged,  \* SUBMITTED usage rows the API wrote, per job
          enqueued, \* arq enqueue_job calls, per job
          queue,    \* jobs ARQ still lists (queued or running)
          circuit,  \* fal_balance._circuit.is_open of this process
          expired,  \* jobs whose idempotency key reached its TTL
          faults,   \* raising calls and crashes so far
          blind,    \* failed queue_depth() calls so far
          retries   \* requests that arrived when their reference was bound

handlers == <<pc, ref, seen, reply, retries>>
redis    == <<index, records, enqueued, queue>>
bounds   == <<faults, blind>>
vars     == <<handlers, redis, charged, circuit, expired, bounds>>

Running == {"lookup", "replay", "depth", "claim", "lost", "save", "usage",
            "enqueue", "respond", "resolve", "resolveJob"}
Active  == {q \in Requests : pc[q] \in Running}
\* Jobs whose idempotency key was ever set by the handler that minted them.
Claimed == {j \in Requests : \E r \in Refs : index[r] = j} \cup expired

\* The reference each job was bound to, kept after the key expires.
Owner   == [j \in Requests |-> IF j \in Claimed THEN ref[j] ELSE None]

NoReply == [code |-> 0, job |-> None]
Codes   == {200, 202, 401, 404, 429, 500, 503}

Init ==
    /\ pc       = [q \in Requests |-> "idle"]
    /\ ref      = [q \in Requests |-> None]
    /\ seen     = [q \in Requests |-> None]
    /\ reply    = [q \in Requests |-> NoReply]
    /\ retries  = {}
    /\ index    = [r \in Refs |-> None]
    /\ records  = {}
    /\ charged  = [j \in Requests |-> 0]
    /\ enqueued = [j \in Requests |-> 0]
    /\ queue    = {}
    /\ circuit  = FALSE
    /\ expired  = {}
    /\ faults   = 0
    /\ blind    = 0

GoTo(q, at) == pc' = [pc EXCEPT ![q] = at] /\ UNCHANGED reply

Answer(q, code, job) ==
    /\ pc' = [pc EXCEPT ![q] = "done"]
    /\ reply' = [reply EXCEPT ![q] = [code |-> code, job |-> job]]

----------------------------------------------------------------------------
(* submit_job *)

Receive(q, r, at) ==
    /\ pc[q] = "idle"
    /\ Cardinality(Active) < MaxInFlight
    /\ ref' = [ref EXCEPT ![q] = r]
    /\ retries' = IF index[r] # None THEN retries \cup {q} ELSE retries
    /\ GoTo(q, at)
    /\ UNCHANGED <<seen, redis, charged, circuit, expired, bounds>>

\* The body names a member other than the one the signature is bound to.
RejectMember(q) ==
    /\ pc[q] = "idle"
    /\ Answer(q, 401, None)
    /\ UNCHANGED <<ref, seen, retries, redis, charged, circuit, expired, bounds>>

Submit(q, r) == Receive(q, r, "lookup")

\* Mutant: the circuit is checked before the fast path.
LookupAfterCircuit(q) ==
    /\ pc[q] = "lookup"
    /\ IF circuit
       THEN Answer(q, 503, None) /\ UNCHANGED seen
       ELSE IF index[ref[q]] # None
            THEN GoTo(q, "replay") /\ seen' = [seen EXCEPT ![q] = index[ref[q]]]
            ELSE GoTo(q, "depth") /\ UNCHANGED seen
    /\ UNCHANGED <<ref, retries, redis, charged, circuit, expired, bounds>>

\* Fast path: a bound reference skips the circuit and the queue check.
Lookup(q) ==
    /\ pc[q] = "lookup"
    /\ \/ /\ index[ref[q]] # None
          /\ seen' = [seen EXCEPT ![q] = index[ref[q]]]
          /\ GoTo(q, "replay")
       \/ /\ index[ref[q]] = None
          /\ circuit
          /\ Answer(q, 503, None)
          /\ UNCHANGED seen
       \/ /\ index[ref[q]] = None
          /\ ~circuit
          /\ GoTo(q, "depth")
          /\ UNCHANGED seen
    /\ UNCHANGED <<ref, retries, redis, charged, circuit, expired, bounds>>

\* get_job(existing) only feeds the answer's status.
Replay(q) ==
    /\ pc[q] = "replay"
    /\ Answer(q, 202, seen[q])
    /\ UNCHANGED <<ref, seen, retries, redis, charged, circuit, expired, bounds>>

\* Mutant: > instead of >=.
QueueOverFull(depth) == depth > MaxQueueDepth

QueueFull(depth) == depth >= MaxQueueDepth

CheckDepth(q) ==
    /\ pc[q] = "depth"
    /\ IF QueueFull(Cardinality(queue)) THEN Answer(q, 429, None)
                                        ELSE GoTo(q, "claim")
    /\ UNCHANGED <<ref, seen, retries, redis, charged, circuit, expired, bounds>>

\* queue_depth() swallows any exception of queued_jobs() and reports 0.
CheckDepthBlind(q) ==
    /\ pc[q] = "depth"
    /\ blind < MaxBlind
    /\ blind' = blind + 1
    /\ GoTo(q, "claim")
    /\ UNCHANGED <<ref, seen, retries, redis, charged, circuit, expired, faults>>

\* Mutant: SET without nx after the fast path's check.
ClaimBlindly(q) ==
    /\ pc[q] = "claim"
    /\ index' = [index EXCEPT ![ref[q]] = q]
    /\ GoTo(q, "save")
    /\ UNCHANGED <<ref, seen, retries, records, enqueued, queue, charged,
                   circuit, expired, bounds>>

\* SET clientref:... nx ex
Claim(q) ==
    /\ pc[q] = "claim"
    /\ IF index[ref[q]] = None
       THEN /\ index' = [index EXCEPT ![ref[q]] = q]
            /\ GoTo(q, "save")
       ELSE /\ GoTo(q, "lost")
            /\ UNCHANGED index
    /\ UNCHANGED <<ref, seen, retries, records, enqueued, queue, charged,
                   circuit, expired, bounds>>

\* Mutant: the loser is told 409 instead of the winner's job.
ReportConflict(q) ==
    /\ pc[q] = "lost"
    /\ Answer(q, 409, None)
    /\ UNCHANGED <<ref, seen, retries, redis, charged, circuit, expired, bounds>>

\* The loser reads the winner's id.  If the key has expired since, job_id is
\* None, which JobAccepted does not validate: 500.
ReadWinner(q) ==
    /\ pc[q] = "lost"
    /\ IF index[ref[q]] # None
       THEN /\ seen' = [seen EXCEPT ![q] = index[ref[q]]]
            /\ GoTo(q, "replay")
       ELSE /\ Answer(q, 500, None)
            /\ UNCHANGED seen
    /\ UNCHANGED <<ref, retries, redis, charged, circuit, expired, bounds>>

SaveRecord(q) ==
    /\ pc[q] = "save"
    /\ records' = records \cup {q}
    /\ GoTo(q, "usage")
    /\ UNCHANGED <<ref, seen, retries, index, enqueued, queue, charged, circuit,
                   expired, bounds>>

RecordUsage(q) ==
    /\ pc[q] = "usage"
    /\ charged' = [charged EXCEPT ![q] = @ + 1]
    /\ GoTo(q, "enqueue")
    /\ UNCHANGED <<ref, seen, retries, redis, circuit, expired, bounds>>

\* Mutant: backpressure is applied once more, after the claim.
EnqueueIfRoom(q) ==
    /\ pc[q] = "enqueue"
    /\ IF QueueFull(Cardinality(queue))
       THEN Answer(q, 429, None) /\ UNCHANGED <<enqueued, queue>>
       ELSE /\ enqueued' = [enqueued EXCEPT ![q] = @ + 1]
            /\ queue' = queue \cup {q}
            /\ GoTo(q, "respond")
    /\ UNCHANGED <<ref, seen, retries, index, records, charged, circuit, expired,
                   bounds>>

Enqueue(q) ==
    /\ pc[q] = "enqueue"
    /\ enqueued' = [enqueued EXCEPT ![q] = @ + 1]
    /\ queue' = queue \cup {q}
    /\ GoTo(q, "respond")
    /\ UNCHANGED <<ref, seen, retries, index, records, charged, circuit, expired,
                   bounds>>

Respond(q) ==
    /\ pc[q] = "respond"
    /\ Answer(q, 202, q)
    /\ UNCHANGED <<ref, seen, retries, redis, charged, circuit, expired, bounds>>

----------------------------------------------------------------------------
(* GET /v1/jobs/by-client-ref/{client_ref} *)

Resolve(q, r) == Receive(q, r, "resolve")

ResolveIndex(q) ==
    /\ pc[q] = "resolve"
    /\ IF index[ref[q]] = None
       THEN Answer(q, 404, None) /\ UNCHANGED seen
       ELSE GoTo(q, "resolveJob") /\ seen' = [seen EXCEPT ![q] = index[ref[q]]]
    /\ UNCHANGED <<ref, retries, redis, charged, circuit, expired, bounds>>

ResolveRecord(q) ==
    /\ pc[q] = "resolveJob"
    /\ IF seen[q] \in records THEN Answer(q, 200, seen[q])
                              ELSE Answer(q, 404, None)
    /\ UNCHANGED <<ref, seen, retries, redis, charged, circuit, expired, bounds>>

----------------------------------------------------------------------------
(* The surroundings of a handler *)

\* Mutant: an exception of the usage ledger is swallowed and the job enqueued.
RaiseTolerantly(q) ==
    /\ q \in Active
    /\ faults < MaxFaults
    /\ faults' = faults + 1
    /\ IF pc[q] = "usage" THEN GoTo(q, "enqueue") ELSE Answer(q, 500, None)
    /\ UNCHANGED <<ref, seen, retries, redis, charged, circuit, expired, blind>>

\* A Redis, SQL or ARQ call of the handler raises: FastAPI answers 500.  At
\* "respond" it is the acknowledgement of the enqueue that is lost.
Raise(q) ==
    /\ q \in Active
    /\ faults < MaxFaults
    /\ faults' = faults + 1
    /\ Answer(q, 500, None)
    /\ UNCHANGED <<ref, seen, retries, redis, charged, circuit, expired, blind>>

\* The API process dies and restarts with a closed circuit; Redis and the
\* usage ledger keep what was written.
Crash ==
    /\ Active # {}
    /\ faults < MaxFaults
    /\ faults' = faults + 1
    /\ pc' = [q \in Requests |-> IF q \in Active THEN "dead" ELSE pc[q]]
    /\ circuit' = FALSE
    /\ UNCHANGED <<ref, seen, reply, retries, redis, charged, expired, blind>>

\* CircuitState "shared by the API process": it may open and close at any time.
\* That covers more than today's callers of run_balance_check and trip_on_402,
\* which run in the worker process and set the worker's circuit only.
SetCircuit(open) ==
    /\ circuit # open
    /\ circuit' = open
    /\ UNCHANGED <<handlers, redis, charged, expired, bounds>>

\* A worker finishes the job; ARQ drops it from the queue's sorted set.
WorkerFinish(j) ==
    /\ j \in queue
    /\ queue' = queue \ {j}
    /\ UNCHANGED <<handlers, index, records, enqueued, charged, circuit,
                   expired, bounds>>

\* JOB_TTL_SECONDS after the claim, long after the claiming handler ended.
Expire(r) ==
    /\ index[r] # None
    /\ pc[index[r]] \notin Running
    /\ Cardinality(expired) < MaxExpiries
    /\ expired' = expired \cup {index[r]}
    /\ index' = [index EXCEPT ![r] = None]
    /\ UNCHANGED <<handlers, records, enqueued, queue, charged, circuit, bounds>>

Handle(q) ==
    \/ Lookup(q) \/ Replay(q)
    \/ CheckDepth(q) \/ CheckDepthBlind(q)
    \/ Claim(q) \/ ReadWinner(q)
    \/ SaveRecord(q) \/ RecordUsage(q) \/ Enqueue(q) \/ Respond(q)
    \/ ResolveIndex(q) \/ ResolveRecord(q)

Next ==
    \/ \E q \in Requests, r \in Refs : Submit(q, r) \/ Resolve(q, r)
    \/ \E q \in Requests : RejectMember(q) \/ Handle(q) \/ Raise(q)
    \/ Crash
    \/ \E open \in BOOLEAN : SetCircuit(open)
    \/ \E j \in Requests : WorkerFinish(j)
    \/ \E r \in Refs : Expire(r)

Spec == Init /\ [][Next]_vars

\* The event loop resumes every handler whose await is done, and Redis, ARQ
\* and the ledger answer every call; nothing makes a client send a request,
\* and no fault has to happen.
FairSpec == Spec /\ \A q \in Requests : WF_vars(Handle(q))

----------------------------------------------------------------------------
(* Properties *)

\* The values each variable takes; the answers are the documented status codes.
TypeOK ==
    /\ pc \in [Requests -> Running \cup {"idle", "done", "dead"}]
    /\ ref \in [Requests -> Refs \cup {None}]
    /\ seen \in [Requests -> Requests \cup {None}]
    /\ reply \in [Requests -> [code : Codes \cup {0}, job : Requests \cup {None}]]
    /\ retries \in SUBSET Requests
    /\ index \in [Refs -> Requests \cup {None}]
    /\ records \in SUBSET Requests
    /\ charged \in [Requests -> Nat]
    /\ enqueued \in [Requests -> Nat]
    /\ queue \in SUBSET Requests
    /\ circuit \in BOOLEAN
    /\ expired \in SUBSET Requests
    /\ faults \in 0..MaxFaults
    /\ blind \in 0..MaxBlind

\* Backpressure is a check followed, awaits later, by the enqueue it guards.
\* The queue can pass max_queue_depth, but only by what the other handlers in
\* flight and the failed depth reads let through.
QueueBounded ==
    Cardinality(queue) <= MaxQueueDepth - 1 + MaxInFlight + blind

\* The worker that pops a job finds its record and a ledger row: the winner
\* writes both before it enqueues, whatever raises in between.
QueuedJobIsComplete ==
    \A j \in queue : j \in records /\ charged[j] = 1

\* A retry of a submission that already holds its reference is answered from
\* the record: neither a full queue nor an open circuit turns it away, unless
\* the idempotency key ran out of time meanwhile.
RetryNotShed ==
    \A q \in Requests :
        /\ q \in retries
        /\ reply[q].code \in {429, 503}
        => \E j \in expired : ref[j] = ref[q]

\* However handlers interleave, fail and die, the service keeps the promise
\* of JobPerRef: one live job per reference, charged once and started once by
\* the handler that bound it, and answers that name only such jobs.
Promise == INSTANCE JobPerRef WITH
    Jobs    <- Requests,
    asks    <- ref,
    bound   <- index,
    owner   <- Owner,
    started <- enqueued,
    answer  <- [q \in Requests |-> reply[q].job]

KeepsPromise == Promise!Spec

\* No claim is left hanging by the interleaving alone: a job that holds its
\* reference reaches the workers unless a call of its own handler failed.
ClaimedJobStarts ==
    \A r \in Refs, j \in Requests :
        (index[r] = j) ~> (enqueued[j] = 1 \/ reply[j].code = 500 \/ pc[j] = "dead")
============================================================================
