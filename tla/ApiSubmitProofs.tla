-------------------------- MODULE ApiSubmitProofs --------------------------
(***************************************************************************)
(* Proofs about ApiSubmit for every number of requests and references and  *)
(* every value of the bounds: its types, its safety properties, and that   *)
(* it implements JobPerRef.                                                *)
(***************************************************************************)
EXTENDS ApiSubmit, FiniteSetTheorems, TLAPS

\* Where a handler stands before it has claimed a reference, after it has, and
\* between the queue check and the enqueue.
UnboundAt  == {"idle", "lookup", "replay", "depth", "claim", "lost", "resolve",
               "resolveJob"}
WinnerAt   == {"save", "usage", "enqueue", "respond"}
AdmittedAt == {"claim", "save", "usage", "enqueue"}
Admitted   == {q \in Requests : pc[q] \in AdmittedAt}

\* A handler has a reference while it runs and an answer only once it is done.
HandlerInv ==
    \A q \in Requests :
        /\ pc[q] = "idle" => ref[q] = None /\ q \notin retries
        /\ pc[q] \in Running => ref[q] \in Refs
        /\ pc[q] \in Running \cup {"idle", "dead"} => reply[q] = NoReply

\* A key holds the job of a handler that won the claim of that very reference,
\* and keeps it while that handler runs.
ClaimInv ==
    /\ \A r \in Refs : index[r] # None =>
           /\ ref[index[r]] = r
           /\ pc[index[r]] \notin UnboundAt
           /\ index[r] \notin expired
    /\ \A j \in expired : ref[j] \in Refs /\ pc[j] \notin Running \cup {"idle"}
    /\ \A q \in Requests : pc[q] \in WinnerAt => index[ref[q]] = q

\* How far the winner has come tells which of its writes are there.
WorkInv ==
    \A q \in Requests :
        /\ pc[q] \in UnboundAt \cup {"save", "usage"} => charged[q] = 0
        /\ pc[q] \in UnboundAt \cup {"save", "usage", "enqueue"}
               => enqueued[q] = 0 /\ q \notin queue
        /\ pc[q] = "enqueue" => charged[q] = 1
        /\ pc[q] \in {"usage", "enqueue"} => q \in records
        /\ q \in queue => q \in records /\ charged[q] = 1

\* The id a loser or a reader carries was claimed for its own reference.
SeenInv ==
    \A q \in Requests :
        pc[q] \in {"replay", "resolveJob"} =>
            seen[q] \in Claimed /\ ref[seen[q]] = ref[q]

\* A retry finds its reference bound, so it never gets to the queue check.
RetryInv ==
    \A q \in Requests :
        q \in retries /\ (\A j \in expired : ref[j] # ref[q]) =>
            /\ pc[q] = "lookup" => index[ref[q]] # None
            /\ pc[q] # "depth"
            /\ reply[q].code \notin {429, 503}

\* Every handler past the queue check has a place in the overshoot.
QueueInv ==
    /\ Cardinality(Active) <= MaxInFlight
    /\ Cardinality(queue) + Cardinality(Admitted)
           <= MaxQueueDepth - 1 + MaxInFlight + blind

IInv == TypeOK /\ HandlerInv /\ ClaimInv /\ WorkInv /\ SeenInv /\ RetryInv /\ QueueInv

----------------------------------------------------------------------------
(* The types *)

\* The initial states are well typed.
LEMMA TypeInit == Init => TypeOK
<1> SUFFICES ASSUME Init
             PROVE  TypeOK
  OBVIOUS
<1>1. NoReply \in [code : Codes \cup {0}, job : Requests \cup {None}]
  BY DEF NoReply
<1>2. reply \in [Requests -> [code : Codes \cup {0}, job : Requests \cup {None}]]
  BY <1>1 DEF Init
<1>3. faults \in 0..MaxFaults /\ blind \in 0..MaxBlind
  BY BoundsAssumption DEF Init
<1> QED
  BY <1>2, <1>3 DEF Init, TypeOK

PcType    == [Requests -> Running \cup {"idle", "done", "dead"}]
ReplyType == [Requests -> [code : Codes \cup {0}, job : Requests \cup {None}]]

\* Going on to another await keeps the types of pc and reply.
LEMMA GoToType ==
  ASSUME TypeOK, NEW q \in Requests, NEW at \in Running, GoTo(q, at)
  PROVE  pc' \in PcType /\ reply' \in ReplyType
  BY DEF TypeOK, GoTo, PcType, ReplyType

\* Answering keeps the types of pc and reply.
LEMMA AnswerType ==
  ASSUME TypeOK, NEW q \in Requests, NEW code \in Codes,
         NEW job \in Requests \cup {None}, Answer(q, code, job)
  PROVE  pc' \in PcType /\ reply' \in ReplyType
<1>1. [code |-> code, job |-> job]
          \in [code : Codes \cup {0}, job : Requests \cup {None}]
  OBVIOUS
<1> QED
  BY <1>1 DEF TypeOK, Answer, PcType, ReplyType

\* Every step keeps the types.
LEMMA TypeStep == TypeOK /\ HandlerInv /\ [Next]_vars => TypeOK'
<1> SUFFICES ASSUME TypeOK, HandlerInv, [Next]_vars
             PROVE  TypeOK'
  OBVIOUS
<1> USE BoundsAssumption DEF TypeOK, Running, Codes, handlers, redis, bounds
<1>1. ASSUME NEW q \in Requests, NEW r \in Refs, Submit(q, r)
      PROVE  TypeOK'
  BY <1>1 DEF Submit, Receive, GoTo
<1>2. ASSUME NEW q \in Requests, NEW r \in Refs, Resolve(q, r)
      PROVE  TypeOK'
  BY <1>2 DEF Resolve, Receive, GoTo
<1>3. ASSUME NEW q \in Requests, RejectMember(q)
      PROVE  TypeOK'
  BY <1>3 DEF RejectMember, Answer
<1>4. ASSUME NEW q \in Requests, Lookup(q)
      PROVE  TypeOK'
  <2>1. pc' \in PcType /\ reply' \in ReplyType
    BY <1>4, GoToType, AnswerType DEF Lookup
  <2>2. seen' \in [Requests -> Requests \cup {None}]
    BY <1>4 DEF Lookup, HandlerInv
  <2> QED
    BY <1>4, <2>1, <2>2 DEF Lookup, PcType, ReplyType
<1>5. ASSUME NEW q \in Requests, Replay(q)
      PROVE  TypeOK'
  BY <1>5 DEF Replay, Answer
<1>6. ASSUME NEW q \in Requests, CheckDepth(q)
      PROVE  TypeOK'
  BY <1>6 DEF CheckDepth, QueueFull, GoTo, Answer
<1>7. ASSUME NEW q \in Requests, CheckDepthBlind(q)
      PROVE  TypeOK'
  BY <1>7 DEF CheckDepthBlind, GoTo
<1>8. ASSUME NEW q \in Requests, Claim(q)
      PROVE  TypeOK'
  BY <1>8 DEF Claim, GoTo
<1>9. ASSUME NEW q \in Requests, ReadWinner(q)
      PROVE  TypeOK'
  <2>1. pc' \in PcType /\ reply' \in ReplyType
    BY <1>9, GoToType, AnswerType DEF ReadWinner
  <2>2. seen' \in [Requests -> Requests \cup {None}]
    BY <1>9 DEF ReadWinner, HandlerInv
  <2> QED
    BY <1>9, <2>1, <2>2 DEF ReadWinner, PcType, ReplyType
<1>10. ASSUME NEW q \in Requests, SaveRecord(q)
      PROVE  TypeOK'
  BY <1>10 DEF SaveRecord, GoTo
<1>11. ASSUME NEW q \in Requests, RecordUsage(q)
      PROVE  TypeOK'
  BY <1>11 DEF RecordUsage, GoTo
<1>12. ASSUME NEW q \in Requests, Enqueue(q)
      PROVE  TypeOK'
  BY <1>12 DEF Enqueue, GoTo
<1>13. ASSUME NEW q \in Requests, Respond(q)
      PROVE  TypeOK'
  BY <1>13 DEF Respond, Answer
<1>14. ASSUME NEW q \in Requests, ResolveIndex(q)
      PROVE  TypeOK'
  <2>1. pc' \in PcType /\ reply' \in ReplyType
    BY <1>14, GoToType, AnswerType DEF ResolveIndex
  <2>2. seen' \in [Requests -> Requests \cup {None}]
    BY <1>14 DEF ResolveIndex, HandlerInv
  <2> QED
    BY <1>14, <2>1, <2>2 DEF ResolveIndex, PcType, ReplyType
<1>15. ASSUME NEW q \in Requests, ResolveRecord(q)
      PROVE  TypeOK'
  BY <1>15 DEF ResolveRecord, Answer
<1>16. ASSUME NEW q \in Requests, Raise(q)
      PROVE  TypeOK'
  BY <1>16 DEF Raise, Active, Answer
<1>17. ASSUME Crash
      PROVE  TypeOK'
  <2>1. pc' \in PcType
    BY <1>17 DEF Crash, PcType
  <2>2. faults' \in 0..MaxFaults
    BY <1>17 DEF Crash
  <2> QED
    BY <1>17, <2>1, <2>2 DEF Crash, PcType
<1>18. ASSUME NEW open \in BOOLEAN, SetCircuit(open)
      PROVE  TypeOK'
  BY <1>18 DEF SetCircuit
<1>19. ASSUME NEW j \in Requests, WorkerFinish(j)
      PROVE  TypeOK'
  BY <1>19 DEF WorkerFinish
<1>20. ASSUME NEW r \in Refs, Expire(r)
      PROVE  TypeOK'
  BY <1>20 DEF Expire
<1>21. CASE UNCHANGED vars
  BY <1>21 DEF vars, handlers, redis, bounds
<1>22. QED
  BY <1>1, <1>2, <1>3, <1>4, <1>5, <1>6, <1>7, <1>8, <1>9, <1>10, <1>11,
     <1>12, <1>13, <1>14, <1>15, <1>16, <1>17, <1>18, <1>19, <1>20, <1>21 DEF Next, Handle

----------------------------------------------------------------------------
(* The handlers *)

\* Every step keeps a handler's reference and answer in order.
LEMMA HandlerStep == TypeOK /\ HandlerInv /\ [Next]_vars => HandlerInv'
<1> SUFFICES ASSUME TypeOK, HandlerInv, [Next]_vars
             PROVE  HandlerInv'
  OBVIOUS
<1> USE DEF TypeOK, HandlerInv, Running, NoReply, handlers
<1>1. ASSUME NEW q \in Requests, NEW r \in Refs, Submit(q, r)
      PROVE  HandlerInv'
  BY <1>1 DEF Submit, Receive, GoTo
<1>2. ASSUME NEW q \in Requests, NEW r \in Refs, Resolve(q, r)
      PROVE  HandlerInv'
  BY <1>2 DEF Resolve, Receive, GoTo
<1>3. ASSUME NEW q \in Requests, RejectMember(q)
      PROVE  HandlerInv'
  BY <1>3 DEF RejectMember, Answer
<1>4. ASSUME NEW q \in Requests, Lookup(q)
      PROVE  HandlerInv'
  BY <1>4 DEF Lookup, GoTo, Answer
<1>5. ASSUME NEW q \in Requests, Replay(q)
      PROVE  HandlerInv'
  BY <1>5 DEF Replay, Answer
<1>6. ASSUME NEW q \in Requests, CheckDepth(q)
      PROVE  HandlerInv'
  BY <1>6 DEF CheckDepth, QueueFull, GoTo, Answer
<1>7. ASSUME NEW q \in Requests, CheckDepthBlind(q)
      PROVE  HandlerInv'
  BY <1>7 DEF CheckDepthBlind, GoTo
<1>8. ASSUME NEW q \in Requests, Claim(q)
      PROVE  HandlerInv'
  BY <1>8 DEF Claim, GoTo
<1>9. ASSUME NEW q \in Requests, ReadWinner(q)
      PROVE  HandlerInv'
  BY <1>9 DEF ReadWinner, GoTo, Answer
<1>10. ASSUME NEW q \in Requests, SaveRecord(q)
      PROVE  HandlerInv'
  BY <1>10 DEF SaveRecord, GoTo
<1>11. ASSUME NEW q \in Requests, RecordUsage(q)
      PROVE  HandlerInv'
  BY <1>11 DEF RecordUsage, GoTo
<1>12. ASSUME NEW q \in Requests, Enqueue(q)
      PROVE  HandlerInv'
  BY <1>12 DEF Enqueue, GoTo
<1>13. ASSUME NEW q \in Requests, Respond(q)
      PROVE  HandlerInv'
  BY <1>13 DEF Respond, Answer
<1>14. ASSUME NEW q \in Requests, ResolveIndex(q)
      PROVE  HandlerInv'
  BY <1>14 DEF ResolveIndex, GoTo, Answer
<1>15. ASSUME NEW q \in Requests, ResolveRecord(q)
      PROVE  HandlerInv'
  BY <1>15 DEF ResolveRecord, Answer
<1>16. ASSUME NEW q \in Requests, Raise(q)
      PROVE  HandlerInv'
  BY <1>16 DEF Raise, Active, Answer
<1>17. ASSUME Crash
      PROVE  HandlerInv'
  BY <1>17 DEF Crash, Active
<1>18. ASSUME NEW open \in BOOLEAN, SetCircuit(open)
      PROVE  HandlerInv'
  BY <1>18 DEF SetCircuit
<1>19. ASSUME NEW j \in Requests, WorkerFinish(j)
      PROVE  HandlerInv'
  BY <1>19 DEF WorkerFinish
<1>20. ASSUME NEW r \in Refs, Expire(r)
      PROVE  HandlerInv'
  BY <1>20 DEF Expire
<1>21. CASE UNCHANGED vars
  BY <1>21 DEF vars
<1>22. QED
  BY <1>1, <1>2, <1>3, <1>4, <1>5, <1>6, <1>7, <1>8, <1>9, <1>10, <1>11,
     <1>12, <1>13, <1>14, <1>15, <1>16, <1>17, <1>18, <1>19, <1>20, <1>21 DEF Next, Handle

----------------------------------------------------------------------------
(* Who holds a reference *)

\* Every step keeps each key with the job of its winner.
LEMMA ClaimStep == TypeOK /\ HandlerInv /\ ClaimInv /\ [Next]_vars => ClaimInv'
<1> SUFFICES ASSUME TypeOK, HandlerInv, ClaimInv, [Next]_vars
             PROVE  ClaimInv'
  OBVIOUS
<1> USE DEF TypeOK, HandlerInv, ClaimInv, Running, UnboundAt, WinnerAt, handlers, redis
<1>1. ASSUME NEW q \in Requests, NEW r \in Refs, Submit(q, r)
      PROVE  ClaimInv'
  BY <1>1, NoneAssumption DEF Submit, Receive, GoTo
<1>2. ASSUME NEW q \in Requests, NEW r \in Refs, Resolve(q, r)
      PROVE  ClaimInv'
  BY <1>2, NoneAssumption DEF Resolve, Receive, GoTo
<1>3. ASSUME NEW q \in Requests, RejectMember(q)
      PROVE  ClaimInv'
  BY <1>3, NoneAssumption DEF RejectMember, Answer
<1>4. ASSUME NEW q \in Requests, Lookup(q)
      PROVE  ClaimInv'
  BY <1>4, NoneAssumption DEF Lookup, GoTo, Answer
<1>5. ASSUME NEW q \in Requests, Replay(q)
      PROVE  ClaimInv'
  BY <1>5, NoneAssumption DEF Replay, Answer
<1>6. ASSUME NEW q \in Requests, CheckDepth(q)
      PROVE  ClaimInv'
  BY <1>6, NoneAssumption DEF CheckDepth, QueueFull, GoTo, Answer
<1>7. ASSUME NEW q \in Requests, CheckDepthBlind(q)
      PROVE  ClaimInv'
  BY <1>7, NoneAssumption DEF CheckDepthBlind, GoTo
<1>8. ASSUME NEW q \in Requests, Claim(q)
      PROVE  ClaimInv'
  BY <1>8, NoneAssumption DEF Claim, GoTo
<1>9. ASSUME NEW q \in Requests, ReadWinner(q)
      PROVE  ClaimInv'
  BY <1>9, NoneAssumption DEF ReadWinner, GoTo, Answer
<1>10. ASSUME NEW q \in Requests, SaveRecord(q)
      PROVE  ClaimInv'
  BY <1>10, NoneAssumption DEF SaveRecord, GoTo
<1>11. ASSUME NEW q \in Requests, RecordUsage(q)
      PROVE  ClaimInv'
  BY <1>11, NoneAssumption DEF RecordUsage, GoTo
<1>12. ASSUME NEW q \in Requests, Enqueue(q)
      PROVE  ClaimInv'
  BY <1>12, NoneAssumption DEF Enqueue, GoTo
<1>13. ASSUME NEW q \in Requests, Respond(q)
      PROVE  ClaimInv'
  BY <1>13, NoneAssumption DEF Respond, Answer
<1>14. ASSUME NEW q \in Requests, ResolveIndex(q)
      PROVE  ClaimInv'
  BY <1>14, NoneAssumption DEF ResolveIndex, GoTo, Answer
<1>15. ASSUME NEW q \in Requests, ResolveRecord(q)
      PROVE  ClaimInv'
  BY <1>15, NoneAssumption DEF ResolveRecord, Answer
<1>16. ASSUME NEW q \in Requests, Raise(q)
      PROVE  ClaimInv'
  BY <1>16, NoneAssumption DEF Raise, Active, Answer
<1>17. ASSUME Crash
      PROVE  ClaimInv'
  BY <1>17, NoneAssumption DEF Crash, Active
<1>18. ASSUME NEW open \in BOOLEAN, SetCircuit(open)
      PROVE  ClaimInv'
  BY <1>18, NoneAssumption DEF SetCircuit
<1>19. ASSUME NEW j \in Requests, WorkerFinish(j)
      PROVE  ClaimInv'
  BY <1>19, NoneAssumption DEF WorkerFinish
<1>20. ASSUME NEW r \in Refs, Expire(r)
      PROVE  ClaimInv'
  BY <1>20, NoneAssumption DEF Expire
<1>21. CASE UNCHANGED vars
  BY <1>21, NoneAssumption DEF vars
<1>22. QED
  BY <1>1, <1>2, <1>3, <1>4, <1>5, <1>6, <1>7, <1>8, <1>9, <1>10, <1>11,
     <1>12, <1>13, <1>14, <1>15, <1>16, <1>17, <1>18, <1>19, <1>20, <1>21 DEF Next, Handle

----------------------------------------------------------------------------
(* What the winner has written *)

\* Every step keeps the winner's writes in order.
LEMMA WorkStep == TypeOK /\ HandlerInv /\ ClaimInv /\ WorkInv /\ [Next]_vars => WorkInv'
<1> SUFFICES ASSUME TypeOK, HandlerInv, ClaimInv, WorkInv, [Next]_vars
             PROVE  WorkInv'
  OBVIOUS
<1> USE DEF TypeOK, HandlerInv, WorkInv, Running, UnboundAt, handlers, redis
<1>1. ASSUME NEW q \in Requests, NEW r \in Refs, Submit(q, r)
      PROVE  WorkInv'
  BY <1>1 DEF Submit, Receive, GoTo
<1>2. ASSUME NEW q \in Requests, NEW r \in Refs, Resolve(q, r)
      PROVE  WorkInv'
  BY <1>2 DEF Resolve, Receive, GoTo
<1>3. ASSUME NEW q \in Requests, RejectMember(q)
      PROVE  WorkInv'
  BY <1>3 DEF RejectMember, Answer
<1>4. ASSUME NEW q \in Requests, Lookup(q)
      PROVE  WorkInv'
  BY <1>4 DEF Lookup, GoTo, Answer
<1>5. ASSUME NEW q \in Requests, Replay(q)
      PROVE  WorkInv'
  BY <1>5 DEF Replay, Answer
<1>6. ASSUME NEW q \in Requests, CheckDepth(q)
      PROVE  WorkInv'
  BY <1>6 DEF CheckDepth, QueueFull, GoTo, Answer
<1>7. ASSUME NEW q \in Requests, CheckDepthBlind(q)
      PROVE  WorkInv'
  BY <1>7 DEF CheckDepthBlind, GoTo
<1>8. ASSUME NEW q \in Requests, Claim(q)
      PROVE  WorkInv'
  BY <1>8 DEF Claim, GoTo
<1>9. ASSUME NEW q \in Requests, ReadWinner(q)
      PROVE  WorkInv'
  BY <1>9 DEF ReadWinner, GoTo, Answer
<1>10. ASSUME NEW q \in Requests, SaveRecord(q)
      PROVE  WorkInv'
  BY <1>10 DEF SaveRecord, GoTo
<1>11. ASSUME NEW q \in Requests, RecordUsage(q)
      PROVE  WorkInv'
  BY <1>11 DEF RecordUsage, GoTo
<1>12. ASSUME NEW q \in Requests, Enqueue(q)
      PROVE  WorkInv'
  BY <1>12 DEF Enqueue, GoTo
<1>13. ASSUME NEW q \in Requests, Respond(q)
      PROVE  WorkInv'
  BY <1>13 DEF Respond, Answer
<1>14. ASSUME NEW q \in Requests, ResolveIndex(q)
      PROVE  WorkInv'
  BY <1>14 DEF ResolveIndex, GoTo, Answer
<1>15. ASSUME NEW q \in Requests, ResolveRecord(q)
      PROVE  WorkInv'
  BY <1>15 DEF ResolveRecord, Answer
<1>16. ASSUME NEW q \in Requests, Raise(q)
      PROVE  WorkInv'
  BY <1>16 DEF Raise, Active, Answer
<1>17. ASSUME Crash
      PROVE  WorkInv'
  BY <1>17 DEF Crash, Active
<1>18. ASSUME NEW open \in BOOLEAN, SetCircuit(open)
      PROVE  WorkInv'
  BY <1>18 DEF SetCircuit
<1>19. ASSUME NEW j \in Requests, WorkerFinish(j)
      PROVE  WorkInv'
  BY <1>19 DEF WorkerFinish
<1>20. ASSUME NEW r \in Refs, Expire(r)
      PROVE  WorkInv'
  BY <1>20 DEF Expire
<1>21. CASE UNCHANGED vars
  BY <1>21 DEF vars
<1>22. QED
  BY <1>1, <1>2, <1>3, <1>4, <1>5, <1>6, <1>7, <1>8, <1>9, <1>10, <1>11,
     <1>12, <1>13, <1>14, <1>15, <1>16, <1>17, <1>18, <1>19, <1>20, <1>21 DEF Next, Handle

----------------------------------------------------------------------------
(* What a loser or a reader carries *)

\* Every step keeps the ids that are carried to an answer owned.
LEMMA SeenStep == TypeOK /\ HandlerInv /\ ClaimInv /\ SeenInv /\ [Next]_vars => SeenInv'
<1> SUFFICES ASSUME TypeOK, HandlerInv, ClaimInv, SeenInv, [Next]_vars
             PROVE  SeenInv'
  OBVIOUS
<1> USE DEF TypeOK, HandlerInv, ClaimInv, SeenInv, Claimed, Running, UnboundAt, handlers, redis
<1>1. ASSUME NEW q \in Requests, NEW r \in Refs, Submit(q, r)
      PROVE  SeenInv'
  <2>1. q \notin Claimed
    BY <1>1, NoneAssumption DEF Submit, Receive
  <2>2. Claimed' = Claimed
    BY <1>1, NoneAssumption DEF Submit, Receive
  <2> HIDE DEF Claimed
  <2> QED
    BY <1>1, <2>1, <2>2 DEF Submit, Receive, GoTo
<1>2. ASSUME NEW q \in Requests, NEW r \in Refs, Resolve(q, r)
      PROVE  SeenInv'
  <2>1. q \notin Claimed
    BY <1>2, NoneAssumption DEF Resolve, Receive
  <2>2. Claimed' = Claimed
    BY <1>2, NoneAssumption DEF Resolve, Receive
  <2> HIDE DEF Claimed
  <2> QED
    BY <1>2, <2>1, <2>2 DEF Resolve, Receive, GoTo
<1>3. ASSUME NEW q \in Requests, RejectMember(q)
      PROVE  SeenInv'
  BY <1>3 DEF RejectMember, Answer
<1>4. ASSUME NEW q \in Requests, Lookup(q)
      PROVE  SeenInv'
  BY <1>4 DEF Lookup, GoTo, Answer
<1>5. ASSUME NEW q \in Requests, Replay(q)
      PROVE  SeenInv'
  BY <1>5 DEF Replay, Answer
<1>6. ASSUME NEW q \in Requests, CheckDepth(q)
      PROVE  SeenInv'
  BY <1>6 DEF CheckDepth, QueueFull, GoTo, Answer
<1>7. ASSUME NEW q \in Requests, CheckDepthBlind(q)
      PROVE  SeenInv'
  BY <1>7 DEF CheckDepthBlind, GoTo
<1>8. ASSUME NEW q \in Requests, Claim(q)
      PROVE  SeenInv'
  <2>1. Claimed \subseteq Claimed'
    BY <1>8, NoneAssumption DEF Claim
  <2>2. \A p \in Requests : pc'[p] \in {"replay", "resolveJob"} => pc[p] = pc'[p]
    BY <1>8 DEF Claim, GoTo
  <2> HIDE DEF Claimed
  <2> QED
    BY <1>8, <2>1, <2>2 DEF Claim
<1>9. ASSUME NEW q \in Requests, ReadWinner(q)
      PROVE  SeenInv'
  BY <1>9 DEF ReadWinner, GoTo, Answer
<1>10. ASSUME NEW q \in Requests, SaveRecord(q)
      PROVE  SeenInv'
  BY <1>10 DEF SaveRecord, GoTo
<1>11. ASSUME NEW q \in Requests, RecordUsage(q)
      PROVE  SeenInv'
  BY <1>11 DEF RecordUsage, GoTo
<1>12. ASSUME NEW q \in Requests, Enqueue(q)
      PROVE  SeenInv'
  BY <1>12 DEF Enqueue, GoTo
<1>13. ASSUME NEW q \in Requests, Respond(q)
      PROVE  SeenInv'
  BY <1>13 DEF Respond, Answer
<1>14. ASSUME NEW q \in Requests, ResolveIndex(q)
      PROVE  SeenInv'
  BY <1>14 DEF ResolveIndex, GoTo, Answer
<1>15. ASSUME NEW q \in Requests, ResolveRecord(q)
      PROVE  SeenInv'
  BY <1>15 DEF ResolveRecord, Answer
<1>16. ASSUME NEW q \in Requests, Raise(q)
      PROVE  SeenInv'
  BY <1>16 DEF Raise, Active, Answer
<1>17. ASSUME Crash
      PROVE  SeenInv'
  BY <1>17 DEF Crash, Active
<1>18. ASSUME NEW open \in BOOLEAN, SetCircuit(open)
      PROVE  SeenInv'
  BY <1>18 DEF SetCircuit
<1>19. ASSUME NEW j \in Requests, WorkerFinish(j)
      PROVE  SeenInv'
  BY <1>19 DEF WorkerFinish
<1>20. ASSUME NEW r \in Refs, Expire(r)
      PROVE  SeenInv'
  BY <1>20 DEF Expire
<1>21. CASE UNCHANGED vars
  BY <1>21 DEF vars
<1>22. QED
  BY <1>1, <1>2, <1>3, <1>4, <1>5, <1>6, <1>7, <1>8, <1>9, <1>10, <1>11,
     <1>12, <1>13, <1>14, <1>15, <1>16, <1>17, <1>18, <1>19, <1>20, <1>21 DEF Next, Handle

----------------------------------------------------------------------------
(* Retries *)

\* Every step keeps a retry away from the queue check.
LEMMA RetryStep == TypeOK /\ HandlerInv /\ ClaimInv /\ RetryInv /\ [Next]_vars => RetryInv'
<1> SUFFICES ASSUME TypeOK, HandlerInv, ClaimInv, RetryInv, [Next]_vars
             PROVE  RetryInv'
  OBVIOUS
<1> USE DEF TypeOK, HandlerInv, ClaimInv, RetryInv, NoReply, Running, handlers, redis
<1>1. ASSUME NEW q \in Requests, NEW r \in Refs, Submit(q, r)
      PROVE  RetryInv'
  <2>1. q \notin expired /\ reply[q].code = 0
    BY <1>1 DEF Submit, Receive
  <2>2. \A p \in Requests \ {q} : pc'[p] = pc[p] /\ ref'[p] = ref[p]
    BY <1>1 DEF Submit, Receive, GoTo
  <2>3. pc'[q] = "lookup" /\ ref'[q] = r
    BY <1>1 DEF Submit, Receive, GoTo
  <2>4. \A p \in retries' : IF p = q THEN index[r] # None ELSE p \in retries
    BY <1>1 DEF Submit, Receive
  <2>5. UNCHANGED <<reply, index, expired>>
    BY <1>1 DEF Submit, Receive, GoTo
  <2>6. \A j \in expired : ref'[j] = ref[j]
    BY <2>1, <2>2
  <2> SUFFICES ASSUME NEW p \in Requests, p \in retries',
                      \A j \in expired' : ref'[j] # ref'[p]
               PROVE  /\ pc'[p] = "lookup" => index'[ref'[p]] # None
                      /\ pc'[p] # "depth"
                      /\ reply'[p].code \notin {429, 503}
    OBVIOUS
  <2>7. CASE p = q
    BY <2>1, <2>3, <2>4, <2>5, <2>7, <1>1
  <2>8. CASE p # q
    BY <2>2, <2>4, <2>5, <2>6, <2>8
  <2> QED
    BY <2>7, <2>8
<1>2. ASSUME NEW q \in Requests, NEW r \in Refs, Resolve(q, r)
      PROVE  RetryInv'
  BY <1>2 DEF Resolve, Receive, GoTo
<1>3. ASSUME NEW q \in Requests, RejectMember(q)
      PROVE  RetryInv'
  BY <1>3 DEF RejectMember, Answer
<1>4. ASSUME NEW q \in Requests, Lookup(q)
      PROVE  RetryInv'
  BY <1>4 DEF Lookup, GoTo, Answer
<1>5. ASSUME NEW q \in Requests, Replay(q)
      PROVE  RetryInv'
  BY <1>5 DEF Replay, Answer
<1>6. ASSUME NEW q \in Requests, CheckDepth(q)
      PROVE  RetryInv'
  <2>1. ~(q \in retries /\ \A j \in expired : ref[j] # ref[q])
    BY <1>6 DEF CheckDepth
  <2>2. \A p \in Requests \ {q} : pc'[p] = pc[p] /\ reply'[p] = reply[p]
    BY <1>6 DEF CheckDepth, GoTo, Answer
  <2> QED
    BY <1>6, <2>1, <2>2 DEF CheckDepth
<1>7. ASSUME NEW q \in Requests, CheckDepthBlind(q)
      PROVE  RetryInv'
  BY <1>7 DEF CheckDepthBlind, GoTo
<1>8. ASSUME NEW q \in Requests, Claim(q)
      PROVE  RetryInv'
  BY <1>8 DEF Claim, GoTo
<1>9. ASSUME NEW q \in Requests, ReadWinner(q)
      PROVE  RetryInv'
  BY <1>9 DEF ReadWinner, GoTo, Answer
<1>10. ASSUME NEW q \in Requests, SaveRecord(q)
      PROVE  RetryInv'
  BY <1>10 DEF SaveRecord, GoTo
<1>11. ASSUME NEW q \in Requests, RecordUsage(q)
      PROVE  RetryInv'
  BY <1>11 DEF RecordUsage, GoTo
<1>12. ASSUME NEW q \in Requests, Enqueue(q)
      PROVE  RetryInv'
  BY <1>12 DEF Enqueue, GoTo
<1>13. ASSUME NEW q \in Requests, Respond(q)
      PROVE  RetryInv'
  BY <1>13 DEF Respond, Answer
<1>14. ASSUME NEW q \in Requests, ResolveIndex(q)
      PROVE  RetryInv'
  BY <1>14 DEF ResolveIndex, GoTo, Answer
<1>15. ASSUME NEW q \in Requests, ResolveRecord(q)
      PROVE  RetryInv'
  <2>1. pc'[q] = "done" /\ reply'[q].code \in {200, 404}
    BY <1>15 DEF ResolveRecord, Answer
  <2>2. \A p \in Requests \ {q} : pc'[p] = pc[p] /\ reply'[p] = reply[p]
    BY <1>15 DEF ResolveRecord, Answer
  <2> QED
    BY <1>15, <2>1, <2>2 DEF ResolveRecord
<1>16. ASSUME NEW q \in Requests, Raise(q)
      PROVE  RetryInv'
  BY <1>16 DEF Raise, Active, Answer
<1>17. ASSUME Crash
      PROVE  RetryInv'
  BY <1>17 DEF Crash, Active
<1>18. ASSUME NEW open \in BOOLEAN, SetCircuit(open)
      PROVE  RetryInv'
  BY <1>18 DEF SetCircuit
<1>19. ASSUME NEW j \in Requests, WorkerFinish(j)
      PROVE  RetryInv'
  BY <1>19 DEF WorkerFinish
<1>20. ASSUME NEW r \in Refs, Expire(r)
      PROVE  RetryInv'
  BY <1>20 DEF Expire
<1>21. CASE UNCHANGED vars
  BY <1>21 DEF vars
<1>22. QED
  BY <1>1, <1>2, <1>3, <1>4, <1>5, <1>6, <1>7, <1>8, <1>9, <1>10, <1>11,
     <1>12, <1>13, <1>14, <1>15, <1>16, <1>17, <1>18, <1>19, <1>20, <1>21 DEF Next, Handle

----------------------------------------------------------------------------
(* The overshoot of the queue *)

\* Every set of requests can be counted, and a part counts no more.
LEMMA FiniteParts ==
  /\ \A S \in SUBSET Requests : IsFiniteSet(S) /\ Cardinality(S) \in Nat
  /\ \A S \in SUBSET Requests : \A T \in SUBSET S : Cardinality(T) <= Cardinality(S)
  BY FiniteRequests, FS_Subset, FS_CardinalityType DEF FiniteRequests

\* Who is past the queue check is active.
LEMMA AdmittedParts ==
  /\ Active \subseteq Requests /\ Active' \subseteq Requests
  /\ Admitted \subseteq Active /\ Admitted' \subseteq Active'
  BY DEF Active, Admitted, AdmittedAt, Running

\* Handlers that end or stay where they are and jobs that leave the queue only
\* make room.
LEMMA MakesRoom ==
  ASSUME TypeOK, QueueInv, blind' = blind, queue' \subseteq queue,
         Active' \subseteq Active, Admitted' \subseteq Admitted
  PROVE  QueueInv'
<1> queue \in SUBSET Requests /\ blind \in Nat
  BY BoundsAssumption DEF TypeOK, BoundsAssumption
<1>1. /\ Cardinality(queue') <= Cardinality(queue)
      /\ Cardinality(Active') <= Cardinality(Active)
      /\ Cardinality(Admitted') <= Cardinality(Admitted)
  BY FiniteParts, AdmittedParts
<1>2. /\ {Cardinality(queue), Cardinality(Active), Cardinality(Admitted)} \subseteq Nat
      /\ {Cardinality(queue'), Cardinality(Active'), Cardinality(Admitted')} \subseteq Nat
  BY FiniteParts, AdmittedParts
<1> QED
  BY <1>1, <1>2, BoundsAssumption DEF QueueInv, BoundsAssumption

\* Every step keeps the queue and its overshoot within the bound.
LEMMA QueueStep ==
  ASSUME TypeOK, TypeOK', WorkInv, QueueInv, [Next]_vars
  PROVE  QueueInv'
<1> DEFINE Cards == {Cardinality(queue), Cardinality(Active), Cardinality(Admitted),
                     Cardinality(queue'), Cardinality(Active'), Cardinality(Admitted')}
<1>a. queue \in SUBSET Requests /\ queue' \in SUBSET Requests /\ blind \in Nat
  BY BoundsAssumption DEF TypeOK, BoundsAssumption
<1>b. Cards \subseteq Nat
  BY <1>a, FiniteParts, AdmittedParts
<1>c. IsFiniteSet(queue) /\ IsFiniteSet(Active) /\ IsFiniteSet(Admitted)
  BY <1>a, FiniteParts, AdmittedParts
<1>d. Cardinality(Admitted') <= Cardinality(Active')
  BY FiniteParts, AdmittedParts
<1>1. ASSUME NEW q \in Requests, NEW r \in Refs, NEW at \in {"lookup", "resolve"},
             Receive(q, r, at)
      PROVE  QueueInv'
  <2>1. Active' = Active \cup {q} /\ q \notin Active /\ Admitted' = Admitted
    BY <1>1 DEF Receive, GoTo, Active, Admitted, AdmittedAt, Running, TypeOK
  <2>2. Cardinality(Active') = Cardinality(Active) + 1
    BY <2>1, <1>c, FS_AddElement
  <2>3. Cardinality(Active) < MaxInFlight /\ UNCHANGED <<queue, blind>>
    BY <1>1 DEF Receive, redis, bounds
  <2> QED
    BY <2>1, <2>2, <2>3, <1>b, BoundsAssumption DEF QueueInv, BoundsAssumption
<1>2. ASSUME NEW q \in Requests, CheckDepth(q), Cardinality(queue) < MaxQueueDepth
      PROVE  QueueInv'
  <2>1. UNCHANGED <<queue, blind>>
    BY <1>2 DEF CheckDepth, redis, bounds
  <2>2. pc' = [pc EXCEPT ![q] = "claim"] /\ pc[q] = "depth"
    BY <1>2, <1>b, BoundsAssumption DEF CheckDepth, QueueFull, GoTo, BoundsAssumption
  <2>3. Active' = Active
    BY <2>2 DEF Active, Running, TypeOK
  <2> QED
    BY <1>2, <2>1, <2>3, <1>a, <1>b, <1>d, BoundsAssumption DEF QueueInv, BoundsAssumption
<1>3. ASSUME NEW q \in Requests, CheckDepth(q), ~(Cardinality(queue) < MaxQueueDepth)
      PROVE  QueueInv'
  <2>1. UNCHANGED <<queue, blind>>
    BY <1>3 DEF CheckDepth, redis, bounds
  <2>2. pc' = [pc EXCEPT ![q] = "done"]
    BY <1>3, <1>b, BoundsAssumption DEF CheckDepth, QueueFull, Answer, BoundsAssumption
  <2>3. Active' \subseteq Active /\ Admitted' \subseteq Admitted
    BY <2>2 DEF Active, Admitted, AdmittedAt, Running, TypeOK
  <2> QED
    BY <2>1, <2>3, MakesRoom
<1>4. ASSUME NEW q \in Requests, CheckDepthBlind(q)
      PROVE  QueueInv'
  <2>1. UNCHANGED queue /\ blind' = blind + 1
    BY <1>4 DEF CheckDepthBlind, redis
  <2>2. Active' = Active /\ Admitted' = Admitted \cup {q} /\ q \notin Admitted
    BY <1>4 DEF CheckDepthBlind, GoTo, Active, Admitted, AdmittedAt, Running, TypeOK
  <2>3. Cardinality(Admitted') = Cardinality(Admitted) + 1
    BY <2>2, <1>c, FS_AddElement
  <2> QED
    BY <2>1, <2>2, <2>3, <1>a, <1>b, BoundsAssumption DEF QueueInv, BoundsAssumption
<1>5. ASSUME NEW q \in Requests, Enqueue(q)
      PROVE  QueueInv'
  <2>1. UNCHANGED blind /\ queue' = queue \cup {q} /\ q \notin queue
    BY <1>5 DEF Enqueue, bounds, WorkInv
  <2>2. Active' = Active /\ Admitted' = Admitted \ {q} /\ q \in Admitted
    BY <1>5 DEF Enqueue, GoTo, Active, Admitted, AdmittedAt, Running, TypeOK
  <2>3. Cardinality(Admitted') = Cardinality(Admitted) - 1
    BY <2>2, <1>c, FS_RemoveElement
  <2>4. Cardinality(queue') = Cardinality(queue) + 1
    BY <2>1, <1>c, FS_AddElement
  <2> QED
    BY <2>1, <2>2, <2>3, <2>4, <1>a, <1>b, BoundsAssumption
       DEF QueueInv, BoundsAssumption
<1>6. ASSUME NEW q \in Requests,
             \/ Lookup(q) \/ Replay(q) \/ Claim(q) \/ ReadWinner(q)
             \/ SaveRecord(q) \/ RecordUsage(q) \/ Respond(q)
             \/ ResolveIndex(q) \/ ResolveRecord(q) \/ RejectMember(q) \/ Raise(q)
      PROVE  QueueInv'
  <2>1. UNCHANGED <<queue, blind>>
    BY <1>6 DEF Lookup, Replay, Claim, ReadWinner, SaveRecord, RecordUsage, Respond,
         ResolveIndex, ResolveRecord, RejectMember, Raise, redis, bounds
  <2>2. \E at \in Running \cup {"done"} :
            /\ pc' = [pc EXCEPT ![q] = at]
            /\ at \in Running => pc[q] \in Running
            /\ at \in AdmittedAt => pc[q] \in AdmittedAt
    BY <1>6 DEF Lookup, Replay, Claim, ReadWinner, SaveRecord, RecordUsage, Respond,
         ResolveIndex, ResolveRecord, RejectMember, Raise, GoTo, Answer, Running,
         AdmittedAt
  <2>3. Active' \subseteq Active /\ Admitted' \subseteq Admitted
    BY <2>2 DEF Active, Admitted, AdmittedAt, TypeOK
  <2> QED
    BY <2>1, <2>3, MakesRoom
<1>7. ASSUME \/ Crash
             \/ \E open \in BOOLEAN : SetCircuit(open)
             \/ \E j \in Requests : WorkerFinish(j)
             \/ \E r \in Refs : Expire(r)
             \/ UNCHANGED vars
      PROVE  QueueInv'
  <2>1. queue' \subseteq queue /\ UNCHANGED blind
    BY <1>7 DEF Crash, SetCircuit, WorkerFinish, Expire, vars, redis, bounds
  <2>2. \A q \in Requests : pc'[q] \in Running => pc'[q] = pc[q]
    BY <1>7 DEF Crash, SetCircuit, WorkerFinish, Expire, vars, handlers, Active,
         Running, TypeOK
  <2>3. Active' \subseteq Active /\ Admitted' \subseteq Admitted
    BY <2>2 DEF Active, Admitted, AdmittedAt, Running
  <2> QED
    BY <2>1, <2>3, MakesRoom
<1> QED
  BY <1>1, <1>2, <1>3, <1>4, <1>5, <1>6, <1>7 DEF Next, Handle, Submit, Resolve

\* The initial states satisfy IInv.
LEMMA InitIInv == Init => IInv
<1> SUFFICES ASSUME Init
             PROVE  IInv
  OBVIOUS
<1>1. TypeOK
  BY TypeInit
<1>2. HandlerInv /\ ClaimInv /\ WorkInv /\ SeenInv /\ RetryInv
  BY NoneAssumption DEF Init, HandlerInv, ClaimInv, WorkInv, SeenInv, RetryInv, Running,
     UnboundAt, WinnerAt, NoReply
<1>3. queue = {} /\ Active = {} /\ Admitted = {} /\ blind = 0
  BY DEF Init, Active, Admitted, AdmittedAt, Running
<1>4. QueueInv
  BY <1>3, FS_EmptySet, BoundsAssumption DEF QueueInv, BoundsAssumption
<1> QED
  BY <1>1, <1>2, <1>4 DEF IInv

\* Every step keeps IInv.
LEMMA StepIInv == IInv /\ [Next]_vars => IInv'
  BY TypeStep, HandlerStep, ClaimStep, WorkStep, SeenStep, RetryStep, QueueStep DEF IInv

\* IInv is an invariant, for every number of requests and every bound.
THEOREM Invariance == Spec => []IInv
  BY InitIInv, StepIInv, PTL DEF Spec

----------------------------------------------------------------------------
(* The safety properties *)

\* Every variable keeps to its values.
THEOREM TypeCorrect == Spec => []TypeOK
<1>1. IInv => TypeOK
  BY DEF IInv
<1> QED
  BY <1>1, Invariance, PTL

\* The queue exceeds max_queue_depth by at most the handlers that were in
\* flight with the one that filled it, plus the failed depth reads: the check
\* in submit_job and the enqueue it guards are separated by four awaits.
THEOREM BackpressureBound == Spec => []QueueBounded
<1>1. IInv => QueueBounded
  <2> SUFFICES ASSUME IInv
               PROVE  QueueBounded
    OBVIOUS
  <2>1. queue \in SUBSET Requests /\ Admitted \in SUBSET Requests /\ blind \in Nat
    BY AdmittedParts, BoundsAssumption DEF IInv, TypeOK, BoundsAssumption
  <2>2. Cardinality(queue) \in Nat /\ Cardinality(Admitted) \in Nat
    BY <2>1, FiniteParts
  <2> QED
    BY <2>1, <2>2, BoundsAssumption DEF IInv, QueueInv, QueueBounded, BoundsAssumption
<1> QED
  BY <1>1, Invariance, PTL

\* A worker that pops a job finds its record and its ledger row, whatever call
\* of the submitting handler raised: submit_job enqueues last.
THEOREM QueuedJobsComplete == Spec => []QueuedJobIsComplete
<1>1. IInv => QueuedJobIsComplete
  BY DEF IInv, WorkInv, QueuedJobIsComplete, TypeOK
<1> QED
  BY <1>1, Invariance, PTL

\* submit_job looks the reference up before it looks at the circuit and the
\* queue, so a retry of an accepted submission gets its job, never a 429 or 503.
THEOREM RetriesNotShed == Spec => []RetryNotShed
<1>1. IInv => RetryNotShed
  BY DEF IInv, RetryInv, RetryNotShed
<1> QED
  BY <1>1, Invariance, PTL

----------------------------------------------------------------------------
(* The promise *)

Answers == [q \in Requests |-> reply[q].job]

\* The part of the promise's state that most steps leave alone.
Silent == UNCHANGED <<ref, index, Owner, charged, enqueued, Answers>>

\* Owner changes only with a claim, an expiry or a claimed job's reference.
LEMMA OwnerKept ==
  ASSUME UNCHANGED <<index, expired>>, \A j \in Claimed : ref'[j] = ref[j]
  PROVE  Owner' = Owner
  BY DEF Owner, Claimed

\* An error answer names no job.
LEMMA ErrorIsSilent ==
  ASSUME IInv, NEW q \in Requests, pc[q] \in Running \cup {"idle"},
         NEW code, Answer(q, code, None)
  PROVE  Answers' = Answers
  BY DEF Answer, Answers, IInv, HandlerInv, TypeOK, NoReply

\* Answering with a claimed job of the request's reference is the abstract Answer.
LEMMA AnswerOnce ==
  ASSUME IInv, NEW q \in Requests, pc[q] \in Running,
         NEW code, NEW j \in Claimed, ref[j] = ref[q], Answer(q, code, j),
         UNCHANGED <<ref, index, expired, charged, enqueued>>
  PROVE  Promise!Next
<1>1. Answers[q] = None /\ Answers' = [Answers EXCEPT ![q] = j]
  <2>1. reply[q] = NoReply /\ reply \in ReplyType
    BY DEF IInv, HandlerInv, TypeOK, ReplyType
  <2>2. reply' = [reply EXCEPT ![q] = [code |-> code, job |-> j]]
    BY DEF Answer
  <2>3. \A p \in Requests : reply'[p].job = IF p = q THEN j ELSE reply[p].job
    BY <2>1, <2>2 DEF ReplyType
  <2>4. Answers' = [Answers EXCEPT ![q] = j]
    BY <2>3 DEF Answers
  <2> QED
    BY <2>1, <2>4 DEF Answers, NoReply
<1>2. j \in Requests /\ ref[j] \in Refs
  BY DEF Claimed, IInv, TypeOK, ClaimInv, HandlerInv
<1>3. Owner[j] = ref[q] /\ Owner[j] # None
  BY <1>2, NoneAssumption DEF Owner
<1>4. Owner' = Owner
  BY OwnerKept
<1> QED
  BY <1>1, <1>2, <1>3, <1>4 DEF Promise!Next, Promise!Answer, Answers

\* Every step of a handler is a step of the promise or a stutter.
LEMMA StepKeepsPromise ==
  ASSUME IInv, [Next]_vars
  PROVE  [Promise!Next]_(Promise!vars)
<1> USE DEF redis, bounds, handlers
<1>0. ASSUME Silent
      PROVE  UNCHANGED Promise!vars
  BY <1>0 DEF Silent, Promise!vars, Answers
<1>1. ASSUME NEW q \in Requests, NEW r \in Refs, NEW at, Receive(q, r, at)
      PROVE  Promise!Next
  <2>1. ref[q] = None /\ ref' = [ref EXCEPT ![q] = r]
    BY <1>1 DEF Receive, IInv, HandlerInv
  <2>2. q \notin Claimed
    BY <1>1, NoneAssumption DEF Receive, Claimed, IInv, ClaimInv, UnboundAt
  <2>3. Owner' = Owner
    BY <1>1, <2>1, <2>2 DEF Receive, Owner, Claimed, IInv, TypeOK
  <2>4. UNCHANGED <<index, charged, enqueued, reply>>
    BY <1>1 DEF Receive, GoTo
  <2> QED
    BY <2>1, <2>3, <2>4 DEF Promise!Next, Promise!Ask
<1>2. ASSUME NEW q \in Requests,
             \/ RejectMember(q) \/ Lookup(q) \/ CheckDepth(q) \/ CheckDepthBlind(q)
             \/ ReadWinner(q) \/ SaveRecord(q) \/ ResolveIndex(q) \/ Raise(q)
      PROVE  UNCHANGED Promise!vars
  <2>1. UNCHANGED <<ref, index, expired, charged, enqueued>>
    BY <1>2 DEF RejectMember, Lookup, CheckDepth, CheckDepthBlind, ReadWinner,
         SaveRecord, ResolveIndex, Raise
  <2>2. /\ pc[q] \in Running \cup {"idle"}
        /\ (\E code \in Codes : Answer(q, code, None)) \/ UNCHANGED reply
    BY <1>2 DEF RejectMember, Lookup, CheckDepth, CheckDepthBlind, ReadWinner,
         SaveRecord, ResolveIndex, Raise, GoTo, Running, Active, Codes
  <2>3. Answers' = Answers
    BY <2>2, ErrorIsSilent DEF Answers
  <2>4. Owner' = Owner
    BY <2>1, OwnerKept
  <2> QED
    BY <2>1, <2>3, <2>4, <1>0 DEF Silent
<1>3. ASSUME NEW q \in Requests, Replay(q)
      PROVE  Promise!Next
  <2>1. pc[q] \in Running /\ seen[q] \in Claimed /\ ref[seen[q]] = ref[q]
    BY <1>3 DEF Replay, IInv, SeenInv, Running
  <2> QED
    BY <1>3, <2>1, AnswerOnce DEF Replay
<1>4. ASSUME NEW q \in Requests, Respond(q)
      PROVE  Promise!Next
  <2>1. pc[q] \in Running /\ q \in Claimed
    BY <1>4 DEF Respond, IInv, ClaimInv, HandlerInv, Claimed, Running, WinnerAt
  <2> QED
    BY <1>4, <2>1, AnswerOnce DEF Respond
<1>5. ASSUME NEW q \in Requests, ResolveRecord(q)
      PROVE  [Promise!Next]_(Promise!vars)
  <2>1. /\ pc[q] \in Running /\ seen[q] \in Claimed /\ ref[seen[q]] = ref[q]
        /\ UNCHANGED <<ref, index, expired, charged, enqueued>>
    BY <1>5 DEF ResolveRecord, IInv, SeenInv, Running
  <2>2. CASE seen[q] \in records
    BY <1>5, <2>1, <2>2, AnswerOnce DEF ResolveRecord
  <2>3. CASE seen[q] \notin records
    <3>1. Answers' = Answers
      BY <1>5, <2>1, <2>3, ErrorIsSilent DEF ResolveRecord
    <3> QED
      BY <2>1, <3>1, OwnerKept, <1>0 DEF Silent
  <2> QED
    BY <2>2, <2>3
<1>6. ASSUME NEW q \in Requests, Claim(q)
      PROVE  [Promise!Next]_(Promise!vars)
  <2>1. ref[q] \in Refs /\ UNCHANGED <<ref, expired, charged, enqueued, reply>>
    BY <1>6 DEF Claim, GoTo, IInv, HandlerInv, Running
  <2>2. q \notin Claimed
    BY <1>6, NoneAssumption DEF Claim, Claimed, IInv, ClaimInv, UnboundAt, Running
  <2>3. CASE index[ref[q]] = None
    <3>1. index' = [index EXCEPT ![ref[q]] = q]
      BY <1>6, <2>3 DEF Claim
    <3>2. Claimed' = Claimed \cup {q}
      BY <2>1, <2>3, <3>1, NoneAssumption DEF Claimed, IInv, TypeOK
    <3>3. Owner[q] = None /\ Owner' = [Owner EXCEPT ![q] = ref[q]]
      BY <2>1, <2>2, <3>2 DEF Owner
    <3> QED
      BY <2>1, <2>3, <3>1, <3>3 DEF Promise!Next, Promise!Bind
  <2>4. CASE index[ref[q]] # None
    <3>1. UNCHANGED index
      BY <1>6, <2>4 DEF Claim
    <3> QED
      BY <2>1, <3>1, OwnerKept, <1>0 DEF Silent, Answers
  <2> QED
    BY <2>3, <2>4
<1>7. ASSUME NEW q \in Requests, RecordUsage(q)
      PROVE  Promise!Next
  <2>1. /\ UNCHANGED <<ref, index, expired, enqueued, reply>>
        /\ charged[q] = 0 /\ charged' = [charged EXCEPT ![q] = 1]
    <3>1. charged[q] = 0
      BY <1>7 DEF RecordUsage, IInv, WorkInv
    <3> QED
      BY <1>7, <3>1 DEF RecordUsage, GoTo
  <2>2. q \in Claimed /\ ref[q] \in Refs
    BY <1>7 DEF RecordUsage, Claimed, IInv, ClaimInv, HandlerInv, WinnerAt, Running
  <2>3. Owner[q] # None /\ Owner' = Owner
    BY <2>1, <2>2, NoneAssumption, OwnerKept DEF Owner
  <2> QED
    BY <2>1, <2>3 DEF Promise!Next, Promise!Charge
<1>8. ASSUME NEW q \in Requests, Enqueue(q)
      PROVE  Promise!Next
  <2>1. /\ UNCHANGED <<ref, index, expired, charged, reply>>
        /\ charged[q] = 1 /\ enqueued[q] = 0
        /\ enqueued' = [enqueued EXCEPT ![q] = 1]
    <3>1. charged[q] = 1 /\ enqueued[q] = 0
      BY <1>8 DEF Enqueue, IInv, WorkInv
    <3> QED
      BY <1>8, <3>1 DEF Enqueue, GoTo
  <2>2. Owner' = Owner
    BY <2>1, OwnerKept
  <2> QED
    BY <2>1, <2>2 DEF Promise!Next, Promise!Start
<1>9. ASSUME \/ Crash
             \/ \E open \in BOOLEAN : SetCircuit(open)
             \/ \E j \in Requests : WorkerFinish(j)
             \/ UNCHANGED vars
      PROVE  UNCHANGED Promise!vars
  <2>1. UNCHANGED <<ref, index, expired, charged, enqueued, reply>>
    BY <1>9 DEF Crash, SetCircuit, WorkerFinish, vars
  <2> QED
    BY <2>1, OwnerKept, <1>0 DEF Silent, Answers
<1>10. ASSUME NEW r \in Refs, Expire(r)
       PROVE  Promise!Next
  <2>1. /\ index[r] # None /\ index' = [index EXCEPT ![r] = None]
        /\ expired' = expired \cup {index[r]}
        /\ UNCHANGED <<ref, charged, enqueued, reply>>
    BY <1>10 DEF Expire
  <2>2. Claimed' = Claimed
    BY <2>1, NoneAssumption DEF Claimed, IInv, TypeOK
  <2>3. Owner' = Owner
    BY <2>1, <2>2 DEF Owner
  <2> QED
    BY <2>1, <2>3 DEF Promise!Next, Promise!Forget
<1> QED
  BY <1>1, <1>2, <1>3, <1>4, <1>5, <1>6, <1>7, <1>8, <1>9, <1>10
     DEF Next, Handle, Submit, Resolve

\* submit_job keeps its docstring's promise whatever the interleaving, the
\* failing calls and the crashes: one live job per (member_id, client_ref),
\* charged and enqueued at most once, and 202 answers that name only it.
THEOREM Refinement == Spec => KeepsPromise
<1>1. Init => Promise!Init
  BY NoneAssumption DEF Init, Promise!Init, Owner, Claimed, NoReply
<1> QED
  BY <1>1, StepKeepsPromise, Invariance, PTL DEF Spec, KeepsPromise, Promise!Spec

============================================================================
