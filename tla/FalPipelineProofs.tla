------------------------- MODULE FalPipelineProofs -------------------------
(***************************************************************************)
(* Proofs about FalPipeline, the circuit of FalBalance included, for every *)
(* finite set of ratios, every assignment of jobs and services, every      *)
(* number of slots, attempts and polls, and every level of the account.    *)
(***************************************************************************)
EXTENDS FalPipeline, FiniteSetTheorems, TLAPS

\* What the task's state has when it enters stage s.
Before(t, s) ==
    IF Service[t] # "media_kit" \/ s = "upscale" THEN {}
    ELSE IF s = "video" /\ do_expand[t] THEN {"upscale", "expand"} ELSE {"upscale"}

TypeInv ==
    /\ BalanceTypeOK
    /\ pc \in [Tasks -> {"new", "wait"} \cup Holding \cup Ends]
    /\ stage \in [Tasks -> Stages]
    /\ tries \in [Tasks -> 0..Attempts - 1]
    /\ polls \in [Tasks -> 0..MaxPolls]
    /\ made \in [Tasks -> SUBSET Stages]
    /\ paid \in [Tasks -> [Stages -> Nat]]
    /\ spent \in [Tasks -> [Stages -> Nat]]
    /\ free \in Nat
    /\ faults \in 0..MaxFaults

\* A task has the output of the stages before its own, and of its own when it
\* is done; nothing after its stage is paid for; its own is from the first
\* answered POST on.
Ordered(t) ==
    /\ stage[t] \in Plan(t)
    /\ made[t] = Before(t, stage[t]) \cup (IF pc[t] = "done" THEN {stage[t]} ELSE {})
    /\ pc[t] = "done" => Route(t) = "end"
    /\ \A s \in Stages : paid[t][s] > 0 => s = stage[t] \/ s \in Before(t, stage[t])
    /\ \A s \in Before(t, stage[t]) : paid[t][s] > 0
    /\ pc[t] \in {"new", "wait"} => paid[t][stage[t]] = 0
    /\ pc[t] \in {"poll", "get", "done"} => paid[t][stage[t]] > 0

\* While a POST is tried, every job it has started is one whose answer was lost,
\* and every job of a died run stands for a fault of its own.
Bought(t) ==
    /\ pc[t] = "post" => /\ paid[t][stage[t]] <= tries[t]
                         /\ spent[t][stage[t]] + paid[t][stage[t]] <= faults
    /\ \A s \in Stages : /\ spent[t][s] <= faults
                         /\ spent[t][s] + paid[t][s] <= 1 + faults
                         /\ paid[t][s] <= Attempts

OrderInv == \A t \in Tasks : Ordered(t)
BuyInv   == \A t \in Tasks : Bought(t)

IInv == TypeInv /\ OpenForAReason /\ SlotsConserved /\ OrderInv /\ BuyInv

----------------------------------------------------------------------------
(* The parameters *)

\* What the constants give every task.
LEMMA Params ==
    /\ IsFiniteSet(Tasks)
    /\ \A t \in Tasks : /\ Service[t] \in {"upscale", "image_to_video", "media_kit"}
                        /\ do_expand[t] \in BOOLEAN
    /\ Slots \in Nat /\ Attempts \in Nat /\ Attempts > 0 /\ MaxPolls \in Nat
    /\ MaxFaults \in Nat /\ TripAfter \in Nat /\ TripAfter > 0
BY PipelineAssumption, BalanceAssumption DEF PipelineAssumption, BalanceAssumption

\* A service's stages, one after the other, make up its plan.
LEMMA PlanFacts ==
    ASSUME NEW t \in Tasks, stage[t] \in Plan(t)
    PROVE  /\ Plan(t) \subseteq Stages
           /\ Before(t, stage[t]) \subseteq Plan(t)
           /\ stage[t] \notin Before(t, stage[t])
           /\ Route(t) = "end" => Plan(t) = Before(t, stage[t]) \cup {stage[t]}
           /\ Route(t) # "end" =>
                 /\ Route(t) \in Plan(t)
                 /\ Route(t) \notin Before(t, stage[t]) \cup {stage[t]}
                 /\ Before(t, Route(t)) = Before(t, stage[t]) \cup {stage[t]}
<1>1. CASE Service[t] = "upscale"
  BY <1>1 DEF Plan, Before, Route, Stages
<1>2. CASE Service[t] = "image_to_video"
  BY <1>2 DEF Plan, Before, Route, Stages
<1>3. CASE Service[t] = "media_kit" /\ do_expand[t]
  BY <1>3 DEF Plan, Before, Route, Stages
<1>4. CASE Service[t] = "media_kit" /\ ~do_expand[t]
  BY <1>4 DEF Plan, Before, Route, Stages
<1> QED
  BY <1>1, <1>2, <1>3, <1>4, Params

\* The first stage of a service has nothing before it.
LEMMA FirstFacts ==
    ASSUME NEW t \in Tasks
    PROVE  FirstStage(t) \in Plan(t) /\ FirstStage(t) \in Stages
           /\ Before(t, FirstStage(t)) = {}
<1>1. CASE Service[t] = "upscale"
  BY <1>1 DEF Plan, Before, FirstStage, Stages
<1>2. CASE Service[t] = "image_to_video"
  BY <1>2 DEF Plan, Before, FirstStage, Stages
<1>3. CASE Service[t] = "media_kit"
  BY <1>3 DEF Plan, Before, FirstStage, Stages
<1> QED
  BY <1>1, <1>2, <1>3, Params

----------------------------------------------------------------------------
(* The circuit *)

CircuitState == [is_open : BOOLEAN, last_balance : Levels \cup {"none"},
                 alert_sent : BOOLEAN, consecutive_402s : Nat]

Reasonable(c) ==
    c.is_open <=> c.consecutive_402s >= TripAfter \/ c.last_balance = "zero"

\* A well-formed circuit of the worker that is open for a reason keeps both
\* facts about the circuits.
LEMMA NewCircuit ==
    ASSUME circuit \in [Processes -> CircuitState],
           NEW d \in CircuitState, Reasonable(d),
           circuit' = [circuit EXCEPT !["worker"] = d]
    PROVE  circuit' \in [Processes -> CircuitState] /\ OpenForAReason'
<1>1. circuit' \in [Processes -> CircuitState] /\ circuit'["worker"] = d
  BY DEF Processes
<1>2. d.consecutive_402s >= TripAfter <=> circuit'["worker"].consecutive_402s >= TripAfter
  BY <1>1
<1>3. OpenForAReason'
  BY <1>1, <1>2, Zenon DEF OpenForAReason, Reasonable
<1> QED
  BY <1>1, <1>3

\* A 402 leaves the circuit open for a reason.
LEMMA CountStep ==
    ASSUME NEW c \in CircuitState, Reasonable(c)
    PROVE  CountUnpaid(c) \in CircuitState /\ Reasonable(CountUnpaid(c))
<1> USE Params
<1> DEFINE d == CountUnpaid(c)
           n == c.consecutive_402s + 1
           b == c.is_open \/ n >= TripAfter
<1>1. c.consecutive_402s \in Nat /\ c.is_open \in BOOLEAN
  BY DEF CircuitState
<1>2. n \in Nat /\ b \in BOOLEAN
  BY <1>1
<1>3. d = [c EXCEPT !.consecutive_402s = n, !.is_open = b]
  BY DEF CountUnpaid
<1>4. b <=> n >= TripAfter \/ c.last_balance = "zero"
  <2>1. c.consecutive_402s >= TripAfter => n >= TripAfter
    BY <1>1
  <2> QED
    BY <1>1, <2>1 DEF Reasonable
<1> HIDE DEF n, b, d
<1>5. d \in CircuitState /\ d.is_open = b /\ d.consecutive_402s = n
      /\ d.last_balance = c.last_balance
  BY <1>2, <1>3 DEF CircuitState
<1>6. Reasonable(d)
  <2>1. d.consecutive_402s >= TripAfter <=> n >= TripAfter
    BY <1>5
  <2> QED
    BY <1>4, <1>5, <2>1, Zenon DEF Reasonable
<1> QED
  BY <1>5, <1>6 DEF d

\* So does a check that has read a balance, whichever branch it takes.
LEMMA EvaluateStep ==
    ASSUME BalanceTypeOK, OpenForAReason, Evaluate
    PROVE  BalanceTypeOK' /\ OpenForAReason'
<1> USE Params
<1> DEFINE c == circuit["worker"]
           new == [c EXCEPT !.last_balance = seen]
<1>1. circuit \in [Processes -> CircuitState] /\ c \in CircuitState /\ Reasonable(c)
  BY DEF BalanceTypeOK, CircuitState, Processes, OpenForAReason, Reasonable
<1>2. c.is_open \in BOOLEAN /\ c.consecutive_402s \in Nat /\ c.alert_sent \in BOOLEAN
  BY <1>1 DEF CircuitState
<1>3. \E d \in CircuitState :
         Reasonable(d) /\ circuit' = [circuit EXCEPT !["worker"] = d]
  <2>1. CASE seen = "unknown"
    <3>1. circuit' = [circuit EXCEPT !["worker"] = c]
      BY <2>1 DEF Evaluate
    <3> QED
      BY <1>1, <3>1
  <2>2. CASE seen \in {"low", "ok"} /\ c.is_open
    <3> DEFINE d == Recovered(new)
    <3>1. circuit' = [circuit EXCEPT !["worker"] = d]
      BY <2>2 DEF Evaluate
    <3>2. d \in CircuitState /\ d.is_open = FALSE /\ d.consecutive_402s = 0
          /\ d.last_balance = seen
      BY <1>1, <2>2 DEF Recovered, CircuitState, Levels
    <3>3. Reasonable(d)
      BY <2>2, <3>2 DEF Reasonable
    <3> QED
      BY <3>1, <3>2, <3>3
  <2>3. CASE seen = "zero"
    <3> DEFINE d == [new EXCEPT !.is_open = TRUE]
    <3>1. d \in CircuitState /\ d.is_open = TRUE /\ d.last_balance = "zero"
      BY <1>1, <2>3 DEF CircuitState, Levels
    <3>2. new \in CircuitState /\ new.is_open = c.is_open /\ new.last_balance = "zero"
      BY <1>1, <2>3 DEF CircuitState, Levels
    <3>3. Reasonable(d) /\ (c.is_open => Reasonable(new))
      BY <3>1, <3>2 DEF Reasonable
    <3>4. IF c.is_open THEN circuit' = [circuit EXCEPT !["worker"] = new]
                       ELSE circuit' = [circuit EXCEPT !["worker"] = d]
      BY <2>3 DEF Evaluate
    <3> HIDE DEF d, new
    <3> QED
      BY <3>1, <3>2, <3>3, <3>4
  <2>4. CASE seen \in {"low", "ok"} /\ ~c.is_open
    <3>1. PICK a \in BOOLEAN :
             circuit' = [circuit EXCEPT !["worker"] = [new EXCEPT !.alert_sent = a]]
      <4>1. CASE seen = "low"
        BY <2>4, <4>1 DEF Evaluate
      <4>2. CASE seen = "ok"
        BY <2>4, <4>2 DEF Evaluate
      <4> QED
        BY <2>4, <4>1, <4>2
    <3> DEFINE d == [new EXCEPT !.alert_sent = a]
    <3>2. d \in CircuitState /\ d.is_open = c.is_open /\ d.last_balance = seen
          /\ d.consecutive_402s = c.consecutive_402s
      BY <1>1, <2>4 DEF CircuitState, Levels
    <3>3. ~(c.consecutive_402s >= TripAfter)
      BY <1>1, <2>4 DEF Reasonable
    <3>4. Reasonable(d)
      BY <2>4, <3>2, <3>3 DEF Reasonable
    <3> QED
      BY <3>1, <3>2, <3>4
  <2> QED
    BY <2>1, <2>2, <2>3, <2>4 DEF Evaluate, BalanceTypeOK, Levels
<1>4. circuit' \in [Processes -> CircuitState] /\ OpenForAReason'
  BY <1>1, <1>3, NewCircuit
<1>5. account' \in Levels /\ seen' = "none"
      /\ check' \in {"idle", "alert", "recovered"}
  BY DEF BalanceTypeOK, Evaluate
<1> QED
  BY <1>4, <1>5 DEF BalanceTypeOK, CircuitState

\* Whatever a check or a 402 does, the circuit is open for a reason only.
LEMMA CircuitStep ==
    TypeInv /\ OpenForAReason /\ [Next]_vars => BalanceTypeOK' /\ OpenForAReason'
<1> SUFFICES ASSUME TypeInv, OpenForAReason, [Next]_vars
             PROVE  BalanceTypeOK' /\ OpenForAReason'
  OBVIOUS
<1> USE Params
<1>0. BalanceTypeOK
  BY DEF TypeInv
<1>1. ASSUME UNCHANGED balanceVars
      PROVE  BalanceTypeOK' /\ OpenForAReason'
  BY <1>0, <1>1 DEF balanceVars, BalanceTypeOK, OpenForAReason
<1>2. ASSUME NEW j \in Jobs, Submit(j) \/ Timeout(j)
      PROVE  BalanceTypeOK' /\ OpenForAReason'
  BY <1>1, <1>2 DEF Submit, Timeout
<1>3. ASSUME NEW t \in Tasks, TaskStep(t)
      PROVE  BalanceTypeOK' /\ OpenForAReason'
  <2>1. CASE Unpaid(t)
    <3>1. /\ circuit' = [circuit EXCEPT !["worker"] = CountUnpaid(circuit["worker"])]
          /\ UNCHANGED <<account, check, seen>>
      BY <2>1 DEF Unpaid
    <3>2. circuit \in [Processes -> CircuitState]
          /\ circuit["worker"] \in CircuitState /\ Reasonable(circuit["worker"])
      BY <1>0 DEF BalanceTypeOK, CircuitState, Processes, OpenForAReason, Reasonable
    <3>3. circuit' \in [Processes -> CircuitState] /\ OpenForAReason'
      BY <3>1, <3>2, CountStep, NewCircuit
    <3> QED
      BY <1>0, <3>1, <3>3 DEF BalanceTypeOK, CircuitState
  <2> QED
    BY <1>1, <1>3, <2>1 DEF TaskStep, Acquire, Posted, Polled, Transient, Rejected,
       NoUrl, StageDone
<1>4. ASSUME CheckStep
      PROVE  BalanceTypeOK' /\ OpenForAReason'
  <2>1. ASSUME NEW shape \in Shapes, Fetch(shape)
        PROVE  BalanceTypeOK' /\ OpenForAReason'
    BY <1>0, <2>1 DEF BalanceTypeOK, OpenForAReason, Fetch, Parsed, Levels
  <2>2. CASE FetchFails
    BY <1>0, <2>2 DEF BalanceTypeOK, OpenForAReason, FetchFails
  <2>3. CASE Evaluate
    BY <1>0, <2>3, EvaluateStep
  <2>4. CASE Alerted
    BY <1>0, <2>4 DEF BalanceTypeOK, OpenForAReason, Alerted, Processes
  <2> QED
    BY <1>4, <2>1, <2>2, <2>3, <2>4 DEF CheckStep
<1>5. CASE AccountStep
  BY <1>0, <1>5 DEF AccountStep, Draw, TopUp, BalanceTypeOK, OpenForAReason, Levels
<1>6. CASE Die
  <2>1. /\ circuit' = [circuit EXCEPT !["worker"] = Closed]
        /\ check' = "idle" /\ seen' = "none" /\ account' = account
    BY <1>6 DEF Die
  <2>2. Closed \in CircuitState /\ Reasonable(Closed)
    BY DEF Closed, CircuitState, Reasonable, Levels
  <2>3. circuit \in [Processes -> CircuitState]
    BY <1>0 DEF BalanceTypeOK, CircuitState
  <2>4. circuit' \in [Processes -> CircuitState] /\ OpenForAReason'
    BY <2>1, <2>2, <2>3, NewCircuit
  <2> QED
    BY <1>0, <2>1, <2>4 DEF BalanceTypeOK, CircuitState
<1> QED
  BY <1>1, <1>2, <1>3, <1>4, <1>5, <1>6 DEF Next, vars

----------------------------------------------------------------------------
(* The types, but for the slots' upper bound *)

\* The initial states satisfy IInv.
LEMMA InitIInv == Init => IInv
<1> SUFFICES ASSUME Init
             PROVE  IInv
  OBVIOUS
<1> USE Params DEF Init
<1>1. BalanceTypeOK /\ OpenForAReason
  BY DEF BalanceInit, BalanceTypeOK, OpenForAReason, Closed, Processes, Levels
<1>2. TypeInv
  <2>1. stage \in [Tasks -> Stages]
    BY FirstFacts
  <2>2. 0 \in 0..Attempts - 1 /\ 0 \in 0..MaxPolls /\ 0 \in 0..MaxFaults
    OBVIOUS
  <2> QED
    BY <1>1, <2>1, <2>2 DEF TypeInv, NoStage
<1>3. SlotsConserved
  <2>1. {t \in Tasks : pc[t] \in Holding} = {}
    BY Zenon DEF Holding
  <2>2. Cardinality({}) = 0
    BY ONLY FS_EmptySet
  <2>3. Cardinality({t \in Tasks : pc[t] \in Holding}) = 0
    BY ONLY <2>1, <2>2
  <2>4. free = Slots /\ Slots \in Nat
    OBVIOUS
  <2> QED
    BY ONLY <2>3, <2>4 DEF SlotsConserved
<1>4. OrderInv
  BY FirstFacts DEF OrderInv, Ordered, NoStage
<1>5. BuyInv
  BY FirstFacts DEF BuyInv, Bought, NoStage
<1> QED
  BY <1>1, <1>2, <1>3, <1>4, <1>5 DEF IInv

\* Every step of a task keeps the types.
LEMMA TaskTypes ==
    ASSUME TypeInv, BalanceTypeOK', NEW t \in Tasks, TaskStep(t)
    PROVE  TypeInv'
<1> USE Params DEF TypeInv, GoTo, Holding, Ends
<1>0. 0 \in 0..Attempts - 1 /\ 0 \in 0..MaxPolls
  OBVIOUS
<1>a. ASSUME Fail(t)
      PROVE  /\ pc' \in [Tasks -> {"new", "wait"} \cup Holding \cup Ends]
             /\ stage' \in [Tasks -> Stages]
             /\ tries' \in [Tasks -> 0..Attempts - 1]
             /\ polls' \in [Tasks -> 0..MaxPolls]
             /\ made' \in [Tasks -> SUBSET Stages]
             /\ free' \in Nat
  BY <1>0, <1>a DEF Fail, NewStage, NewRequest
<1>b. ASSUME Start(t)
      PROVE  paid' \in [Tasks -> [Stages -> Nat]]
  BY <1>b DEF Start
<1>c. ASSUME NEW status \in Statuses, GoOn(t, status)
      PROVE  /\ pc' \in [Tasks -> {"new", "wait"} \cup Holding \cup Ends]
             /\ stage' \in [Tasks -> Stages]
             /\ tries' \in [Tasks -> 0..Attempts - 1]
             /\ polls' \in [Tasks -> 0..MaxPolls]
             /\ made' \in [Tasks -> SUBSET Stages]
             /\ free' \in Nat
  <2>1. CASE Fail(t)
    BY <1>a, <2>1
  <2>2. CASE status = "COMPLETED" /\ ~Fail(t)
    <3>1. /\ pc' = [pc EXCEPT ![t] = "get"] /\ tries' = [tries EXCEPT ![t] = 0]
          /\ polls' = [polls EXCEPT ![t] = 0] /\ UNCHANGED <<stage, made, free>>
      BY <1>c, <2>2 DEF GoOn, NewStage, NewRequest
    <3>2. pc' \in [Tasks -> {"new", "wait"} \cup Holding \cup Ends]
      BY <3>1
    <3>3. tries' \in [Tasks -> 0..Attempts - 1] /\ polls' \in [Tasks -> 0..MaxPolls]
      BY <1>0, <3>1
    <3> QED
      BY <3>1, <3>2, <3>3
  <2>3. CASE status = "IN_PROGRESS" /\ polls[t] < MaxPolls /\ ~Fail(t)
    <3>1. polls[t] + 1 \in 0..MaxPolls
      BY <2>3
    <3>2. /\ pc' = [pc EXCEPT ![t] = "poll"] /\ tries' = [tries EXCEPT ![t] = 0]
          /\ polls' = [polls EXCEPT ![t] = polls[t] + 1]
          /\ UNCHANGED <<stage, made, free>>
      BY <1>c, <2>3 DEF GoOn, NewRequest
    <3>3. pc' \in [Tasks -> {"new", "wait"} \cup Holding \cup Ends]
      BY <3>2
    <3>4. tries' \in [Tasks -> 0..Attempts - 1] /\ polls' \in [Tasks -> 0..MaxPolls]
      BY <1>0, <3>1, <3>2
    <3> QED
      BY <3>2, <3>3, <3>4
  <2> QED
    BY <1>c, <2>1, <2>2, <2>3 DEF GoOn
<1>1. CASE Acquire(t)
  BY <1>1 DEF Acquire
<1>2. ASSUME NEW status \in Statuses, Posted(t, status)
      PROVE  TypeInv'
  BY <1>2, <1>b, <1>c DEF Posted
<1>3. ASSUME NEW status \in Statuses, Polled(t, status)
      PROVE  TypeInv'
  BY <1>3, <1>c DEF Polled
<1>4. CASE Transient(t)
  <2>1. faults' \in 0..MaxFaults /\ spent' = spent
    BY <1>4 DEF Transient, Fault
  <2>2. paid' \in [Tasks -> [Stages -> Nat]]
    BY <1>4, <1>b DEF Transient
  <2>3. CASE Fail(t)
    BY <1>a, <2>1, <2>2, <2>3
  <2>4. CASE ~Fail(t)
    <3>1. tries[t] + 1 \in 0..Attempts - 1
      BY <1>4, <2>4 DEF Transient, TryAgain
    <3> QED
      BY <1>4, <2>1, <2>2, <2>4, <3>1 DEF Transient, TryAgain
  <2> QED
    BY <2>3, <2>4
<1>5. CASE Unpaid(t)
  BY <1>5, <1>a DEF Unpaid
<1>6. CASE Rejected(t)
  BY <1>6, <1>a DEF Rejected
<1>7. CASE NoUrl(t)
  BY <1>7, <1>a DEF NoUrl
<1>8. CASE StageDone(t)
  <2>1. Route(t) # "end" => Route(t) \in Stages
    BY DEF Route, Stages
  <2>2. /\ stage' \in [Tasks -> Stages] /\ free' \in Nat
        /\ faults' = faults /\ paid' = paid /\ spent' = spent
    BY <1>8, <2>1 DEF StageDone
  <2>3. pc' \in [Tasks -> {"new", "wait"} \cup Holding \cup Ends]
    BY <1>8 DEF StageDone
  <2>4. made' \in [Tasks -> SUBSET Stages]
    BY <1>8 DEF StageDone, Output
  <2>5. tries' \in [Tasks -> 0..Attempts - 1] /\ polls' \in [Tasks -> 0..MaxPolls]
    BY <1>0, <1>8 DEF StageDone, NewStage, NewRequest
  <2> QED
    BY <2>2, <2>3, <2>4, <2>5
<1> QED
  BY <1>1, <1>2, <1>3, <1>4, <1>5, <1>6, <1>7, <1>8 DEF TaskStep

\* A POST nobody reads the answer of pays for the task's stage and no other.
LEMMA UnheardMoves ==
    ASSUME TypeInv, NEW begun \in SUBSET Unheard
    PROVE  /\ PaidWith(begun) \in [Tasks -> [Stages -> Nat]]
           /\ \A t \in Tasks :
                 /\ \A s \in Stages \ {stage[t]} : PaidWith(begun)[t][s] = paid[t][s]
                 /\ \/ PaidWith(begun)[t][stage[t]] = paid[t][stage[t]]
                    \/ /\ pc[t] = "post"
                       /\ PaidWith(begun)[t][stage[t]] = paid[t][stage[t]] + 1
<1> SUFFICES ASSUME NEW t \in Tasks
             PROVE  /\ PaidWith(begun)[t] \in [Stages -> Nat]
                    /\ \A s \in Stages \ {stage[t]} : PaidWith(begun)[t][s] = paid[t][s]
                    /\ \/ PaidWith(begun)[t][stage[t]] = paid[t][stage[t]]
                       \/ /\ pc[t] = "post"
                          /\ PaidWith(begun)[t][stage[t]] = paid[t][stage[t]] + 1
  BY DEF PaidWith
<1>1. paid[t] \in [Stages -> Nat] /\ stage[t] \in Stages
  BY DEF TypeInv
<1>2. CASE t \in begun
  <2>1. PaidWith(begun)[t] = [paid[t] EXCEPT ![stage[t]] = @ + 1] /\ pc[t] = "post"
    BY <1>2 DEF PaidWith, Unheard
  <2> QED
    BY <1>1, <2>1
<1>3. CASE t \notin begun
  <2>1. PaidWith(begun)[t] = paid[t]
    BY <1>3 DEF PaidWith
  <2> QED
    BY <1>1, <2>1
<1> QED
  BY <1>2, <1>3

\* A death of the worker leaves a task where it was, ended if it was live, or
\* starts it anew and counts what its run has bought as spent.
LEMMA DieMoves ==
    ASSUME TypeInv, Die, NEW u \in Tasks
    PROVE  /\ faults' = faults + 1
           /\ \E bought \in [Stages -> Nat] :
                 /\ \A s \in Stages \ {stage[u]} : bought[s] = paid[u][s]
                 /\ \/ bought[stage[u]] = paid[u][stage[u]]
                    \/ pc[u] = "post" /\ bought[stage[u]] = paid[u][stage[u]] + 1
                 /\ \/ /\ pc'[u] = "wait" /\ stage'[u] = FirstStage(u)
                       /\ made'[u] = {} /\ paid'[u] = NoStage
                       /\ spent'[u] = [s \in Stages |-> spent[u][s] + bought[s]]
                    \/ /\ pc'[u] = IF Live(u) THEN "cancelled" ELSE pc[u]
                       /\ stage'[u] = stage[u] /\ made'[u] = made[u]
                       /\ paid'[u] = bought /\ spent'[u] = spent[u]
<1>1. PICK again \in SUBSET {j \in Jobs : Rerunnable(j)}, begun \in SUBSET Unheard :
         /\ pc' = [t \in Tasks |-> IF Job[t] \in again THEN "wait"
                                   ELSE IF Live(t) THEN "cancelled" ELSE pc[t]]
         /\ stage' = [t \in Tasks |-> IF Job[t] \in again THEN FirstStage(t) ELSE stage[t]]
         /\ made' = [t \in Tasks |-> IF Job[t] \in again THEN {} ELSE made[t]]
         /\ paid' = [t \in Tasks |-> IF Job[t] \in again THEN NoStage
                                                         ELSE PaidWith(begun)[t]]
         /\ spent' = [t \in Tasks |->
                IF Job[t] \in again
                THEN [s \in Stages |-> spent[t][s] + PaidWith(begun)[t][s]]
                ELSE spent[t]]
  BY Zenon DEF Die
<1> DEFINE bought == PaidWith(begun)[u]
<1>2. /\ bought \in [Stages -> Nat]
      /\ \A s \in Stages \ {stage[u]} : bought[s] = paid[u][s]
      /\ \/ bought[stage[u]] = paid[u][stage[u]]
         \/ pc[u] = "post" /\ bought[stage[u]] = paid[u][stage[u]] + 1
  BY UnheardMoves
<1>3. faults' = faults + 1
  BY DEF Die, Fault
<1>4. \/ /\ pc'[u] = "wait" /\ stage'[u] = FirstStage(u)
         /\ made'[u] = {} /\ paid'[u] = NoStage
         /\ spent'[u] = [s \in Stages |-> spent[u][s] + bought[s]]
      \/ /\ pc'[u] = IF Live(u) THEN "cancelled" ELSE pc[u]
         /\ stage'[u] = stage[u] /\ made'[u] = made[u]
         /\ paid'[u] = bought /\ spent'[u] = spent[u]
  <2>1. CASE Job[u] \in again
    BY <1>1, <2>1
  <2>2. CASE Job[u] \notin again
    BY <1>1, <2>2
  <2> QED
    BY <2>1, <2>2
<1> HIDE DEF bought
<1> QED
  BY <1>2, <1>3, <1>4

\* So does every other step.
LEMMA TypeStep == TypeInv /\ OpenForAReason /\ [Next]_vars => TypeInv'
<1> SUFFICES ASSUME TypeInv, OpenForAReason, [Next]_vars
             PROVE  TypeInv'
  OBVIOUS
<1> USE Params
<1>0. BalanceTypeOK'
  BY CircuitStep
<1>1. ASSUME NEW j \in Jobs, Submit(j)
      PROVE  TypeInv'
  BY <1>0, <1>1 DEF Submit, TypeInv, Holding, Ends
<1>2. ASSUME NEW j \in Jobs, Timeout(j)
      PROVE  TypeInv'
  <2> USE DEF TypeInv
  <2>0. 0 \in 0..Attempts - 1 /\ 0 \in 0..MaxPolls
    OBVIOUS
  <2>1. pc' \in [Tasks -> {"new", "wait"} \cup Holding \cup Ends]
    BY <1>2 DEF Timeout, Ends
  <2>2. tries' \in [Tasks -> 0..Attempts - 1] /\ polls' \in [Tasks -> 0..MaxPolls]
    BY <1>2, <2>0 DEF Timeout
  <2>3. paid' \in [Tasks -> [Stages -> Nat]]
    <3>1. \E begun \in SUBSET Unheard : paid' = PaidWith(begun)
      BY <1>2 DEF Timeout
    <3> QED
      BY <3>1, UnheardMoves
  <2>4. free' \in Nat
    <3> DEFINE S == {t \in {t \in Tasks : Job[t] = j /\ Live(t)} : pc[t] \in Holding}
    <3>1. IsFiniteSet(S)
      BY FS_Subset
    <3>2. Cardinality(S) \in Nat
      BY <3>1, FS_CardinalityType
    <3>3. free' = free + Cardinality(S)
      BY <1>2 DEF Timeout
    <3> QED
      BY <3>2, <3>3
  <2> QED
    BY <1>0, <1>2, <2>1, <2>2, <2>3, <2>4 DEF Timeout
<1>3. ASSUME NEW t \in Tasks, TaskStep(t)
      PROVE  TypeInv'
  BY <1>0, <1>3, TaskTypes
<1>4. CASE CheckStep
  BY <1>0, <1>4 DEF CheckStep, FetchFails, Fault, taskVars, TypeInv
<1>5. CASE AccountStep \/ UNCHANGED vars
  BY <1>0, <1>5 DEF AccountStep, taskVars, vars, TypeInv
<1>6. CASE Die
  <2> USE DEF TypeInv
  <2>1. PICK again \in SUBSET {j \in Jobs : Rerunnable(j)}, begun \in SUBSET Unheard :
           /\ pc' = [t \in Tasks |-> IF Job[t] \in again THEN "wait"
                                     ELSE IF Live(t) THEN "cancelled" ELSE pc[t]]
           /\ stage' = [t \in Tasks |-> IF Job[t] \in again THEN FirstStage(t) ELSE stage[t]]
           /\ made' = [t \in Tasks |-> IF Job[t] \in again THEN {} ELSE made[t]]
           /\ paid' = [t \in Tasks |-> IF Job[t] \in again THEN NoStage
                                                           ELSE PaidWith(begun)[t]]
           /\ spent' = [t \in Tasks |->
                  IF Job[t] \in again
                  THEN [s \in Stages |-> spent[t][s] + PaidWith(begun)[t][s]]
                  ELSE spent[t]]
    BY <1>6, Zenon DEF Die
  <2>2. PaidWith(begun) \in [Tasks -> [Stages -> Nat]] /\ NoStage \in [Stages -> Nat]
    BY UnheardMoves DEF NoStage
  <2>3. pc' \in [Tasks -> {"new", "wait"} \cup Holding \cup Ends]
    BY <2>1 DEF Ends
  <2>4. stage' \in [Tasks -> Stages] /\ made' \in [Tasks -> SUBSET Stages]
    BY <2>1, FirstFacts
  <2>5. paid' \in [Tasks -> [Stages -> Nat]]
    BY <2>1, <2>2
  <2>6. spent' \in [Tasks -> [Stages -> Nat]]
    <3> DEFINE P == PaidWith(begun)
    <3>1. \A t \in Tasks : [s \in Stages |-> spent[t][s] + P[t][s]] \in [Stages -> Nat]
      <4> HIDE DEF P
      <4>1. P \in [Tasks -> [Stages -> Nat]]
        BY <2>2 DEF P
      <4> QED
        BY <4>1
    <3> QED
      BY <2>1, <3>1
  <2>7. tries' \in [Tasks -> 0..Attempts - 1] /\ polls' \in [Tasks -> 0..MaxPolls]
    BY <1>6 DEF Die
  <2>8. free' \in Nat /\ faults' \in 0..MaxFaults
    BY <1>6 DEF Die, Fault
  <2> QED
    BY <1>0, <2>3, <2>4, <2>5, <2>6, <2>7, <2>8
<1> QED
  BY <1>1, <1>2, <1>3, <1>4, <1>5, <1>6 DEF Next

----------------------------------------------------------------------------
(* The semaphore *)

Holders == {t \in Tasks : pc[t] \in Holding}

\* The holders are finitely many.
LEMMA HoldersFinite == IsFiniteSet(Holders) /\ Cardinality(Holders) \in Nat
<1>1. Holders \in SUBSET Tasks
  BY DEF Holders
<1>2. IsFiniteSet(Holders)
  BY <1>1, Params, FS_Subset
<1> QED
  BY <1>2, FS_CardinalityType

\* What a move of one task makes of them.
LEMMA HoldersMove ==
    ASSUME TypeInv, NEW t \in Tasks, NEW x, pc' = [pc EXCEPT ![t] = x]
    PROVE  Cardinality(Holders') =
              Cardinality(Holders) + (IF x \in Holding THEN 1 ELSE 0)
                                   - (IF pc[t] \in Holding THEN 1 ELSE 0)
<1>0. pc \in [Tasks -> {"new", "wait"} \cup Holding \cup Ends]
  BY DEF TypeInv
<1>1. Holders' = IF x \in Holding THEN Holders \cup {t} ELSE Holders \ {t}
  BY <1>0 DEF Holders, Holding
<1>2. t \in Holders <=> pc[t] \in Holding
  BY DEF Holders
<1>3. CASE x \in Holding
  <2>1. Cardinality(Holders') = IF t \in Holders THEN Cardinality(Holders)
                                                 ELSE Cardinality(Holders) + 1
    BY <1>1, <1>3, HoldersFinite, FS_AddElement
  <2> QED
    BY <1>2, <1>3, <2>1, HoldersFinite
<1>4. CASE x \notin Holding
  <2>1. Cardinality(Holders') = IF t \in Holders THEN Cardinality(Holders) - 1
                                                 ELSE Cardinality(Holders)
    BY <1>1, <1>4, HoldersFinite, FS_RemoveElement
  <2> QED
    BY <1>2, <1>4, <2>1, HoldersFinite
<1> QED
  BY <1>3, <1>4

\* No step loses or gains a slot.
LEMMA SlotsStep == TypeInv /\ SlotsConserved /\ [Next]_vars => SlotsConserved'
<1> SUFFICES ASSUME TypeInv, SlotsConserved, [Next]_vars
             PROVE  SlotsConserved'
  OBVIOUS
<1> USE Params
<1>0. free \in Nat /\ pc \in [Tasks -> {"new", "wait"} \cup Holding \cup Ends]
  BY DEF TypeInv
<1>a. free + Cardinality(Holders) = Slots
  BY DEF SlotsConserved, Holders
<1>b. ASSUME free' + Cardinality(Holders') = Slots
      PROVE  SlotsConserved'
  BY <1>b DEF SlotsConserved, Holders
<1>c. ASSUME UNCHANGED <<pc, free>>
      PROVE  SlotsConserved'
  BY <1>c DEF SlotsConserved
<1>1. ASSUME NEW j \in Jobs, Submit(j)
      PROVE  SlotsConserved'
  <2>1. Holders' = Holders
    BY <1>0, <1>1 DEF Submit, Holders, Holding
  <2> QED
    BY <1>1, <1>a, <1>b, <2>1 DEF Submit
<1>2. ASSUME NEW j \in Jobs, Timeout(j)
      PROVE  SlotsConserved'
  <2> DEFINE mine == {t \in Tasks : Job[t] = j /\ Live(t)}
             S == {t \in mine : pc[t] \in Holding}
  <2>1. Holders' = Holders \ S
    BY <1>0, <1>2 DEF Timeout, Holders, Holding
  <2>2. S \subseteq Holders
    BY DEF Holders
  <2>3. IsFiniteSet(S) /\ Cardinality(S) \in Nat
    BY <2>2, HoldersFinite, FS_Subset, FS_CardinalityType
  <2>4. Holders \cap S = S
    BY <2>2
  <2>5. Cardinality(Holders \ S) = Cardinality(Holders) - Cardinality(Holders \cap S)
    BY HoldersFinite, FS_Difference
  <2>6. free' = free + Cardinality(S)
    BY <1>2 DEF Timeout
  <2> HIDE DEF S
  <2> QED
    <3>1. Cardinality(Holders') = Cardinality(Holders) - Cardinality(S)
      BY <2>1, <2>4, <2>5
    <3>2. free' + Cardinality(Holders') = Slots
      BY <1>0, <1>a, <2>3, <2>6, <3>1, HoldersFinite
    <3> QED
      BY <1>b, <3>2
<1>3. ASSUME NEW t \in Tasks, TaskStep(t)
      PROVE  SlotsConserved'
  <2>a. ASSUME NEW x, pc' = [pc EXCEPT ![t] = x], pc[t] \in Holding,
               IF x \in Holding THEN free' = free ELSE free' = free + 1
        PROVE  SlotsConserved'
    <3>1. Cardinality(Holders') =
             Cardinality(Holders) + (IF x \in Holding THEN 1 ELSE 0) - 1
      BY <2>a, HoldersMove
    <3>2. free' + Cardinality(Holders') = Slots
      BY <1>0, <1>a, <2>a, <3>1, HoldersFinite
    <3> QED
      BY <1>b, <3>2
  <2>b. ASSUME Fail(t), pc[t] \in Holding
        PROVE  SlotsConserved'
    <3>1. pc' = [pc EXCEPT ![t] = "error"] /\ free' = free + 1
      BY <2>b DEF Fail, GoTo
    <3>2. "error" \notin Holding
      BY DEF Holding
    <3> QED
      BY <2>a, <2>b, <3>1, <3>2
  <2>c. ASSUME NEW status \in Statuses, GoOn(t, status), pc[t] \in Holding
        PROVE  SlotsConserved'
    <3>1. CASE Fail(t)
      BY <2>b, <2>c, <3>1
    <3>2. CASE ~Fail(t)
      <4>1. \E x \in Holding : pc' = [pc EXCEPT ![t] = x] /\ free' = free
        BY <2>c, <3>2 DEF GoOn, GoTo, Holding
      <4> QED
        BY <2>a, <2>c, <4>1
    <3> QED
      BY <3>1, <3>2
  <2>1. CASE Acquire(t)
    <3>1. pc' = [pc EXCEPT ![t] = "post"] /\ free' = free - 1 /\ "post" \in Holding
          /\ pc[t] \notin Holding
      BY <2>1 DEF Acquire, GoTo, Holding
    <3> QED
      <4>1. Cardinality(Holders') = Cardinality(Holders) + 1 - 0
        BY <3>1, HoldersMove
      <4>2. free' + Cardinality(Holders') = Slots
        BY <1>0, <1>a, <3>1, <4>1, HoldersFinite
      <4> QED
        BY <1>b, <4>2
  <2>2. ASSUME NEW status \in Statuses, Posted(t, status) \/ Polled(t, status)
        PROVE  SlotsConserved'
    BY <2>2, <2>c DEF Posted, Polled, Holding
  <2>3. CASE Transient(t)
    BY <1>c, <2>3, <2>b DEF Transient, TryAgain
  <2>4. CASE Unpaid(t) \/ Rejected(t) \/ NoUrl(t)
    BY <2>4, <2>b DEF Unpaid, Rejected, NoUrl, Holding
  <2>5. CASE StageDone(t)
    <3>1. \E x \in {"done", "wait"} : pc' = [pc EXCEPT ![t] = x]
      BY <2>5 DEF StageDone, GoTo
    <3>2. free' = free + 1 /\ pc[t] \in Holding /\ "done" \notin Holding
          /\ "wait" \notin Holding
      BY <2>5 DEF StageDone, Holding
    <3> QED
      BY <2>a, <3>1, <3>2
  <2> QED
    BY <1>3, <2>1, <2>2, <2>3, <2>4, <2>5 DEF TaskStep
<1>4. CASE CheckStep \/ AccountStep \/ UNCHANGED vars
  BY <1>4, <1>c DEF CheckStep, AccountStep, taskVars, vars
<1>5. CASE Die
  <2>1. \A t \in Tasks : pc'[t] \notin Holding
    <3> SUFFICES ASSUME NEW t \in Tasks
                 PROVE  pc'[t] \notin Holding
      OBVIOUS
    <3>1. pc'[t] = "wait" \/ pc'[t] = IF Live(t) THEN "cancelled" ELSE pc[t]
      BY <1>5, DieMoves
    <3> QED
      BY <3>1 DEF Live, Holding, Ends
  <2>2. Holders' = {}
    BY <2>1, Zenon DEF Holders
  <2>3. Cardinality({}) = 0
    BY ONLY FS_EmptySet
  <2>4. Cardinality(Holders') = 0
    BY <2>2, <2>3, Zenon
  <2>5. free' = Slots
    BY <1>5 DEF Die
  <2> QED
    BY <1>b, <2>4, <2>5
<1> QED
  BY <1>1, <1>2, <1>3, <1>4, <1>5 DEF Next

----------------------------------------------------------------------------
(* The stages of one task *)

\* A step that leaves a task where it is keeps what is known of the task.
LEMMA Untouched ==
    ASSUME TypeInv, TypeInv', NEW u \in Tasks, Ordered(u), Bought(u),
           pc'[u] = pc[u], stage'[u] = stage[u], tries'[u] = tries[u],
           made'[u] = made[u], paid'[u] = paid[u], spent'[u] = spent[u],
           faults' >= faults
    PROVE  Ordered(u)' /\ Bought(u)'
<1> USE Params
<1>1. Ordered(u)'
  BY DEF Ordered, Plan, Before, Route
<1>2. /\ faults \in Nat /\ faults' \in Nat /\ tries[u] \in Nat /\ stage[u] \in Stages
      /\ paid[u] \in [Stages -> Nat] /\ spent[u] \in [Stages -> Nat]
  BY DEF TypeInv
<1>3. Bought(u)'
  BY <1>2 DEF Bought
<1> QED
  BY <1>1, <1>3

\* A step of one task leaves the others where they are.
LEMMA OthersStay ==
    ASSUME TypeInv, NEW t \in Tasks, TaskStep(t), NEW u \in Tasks, u # t
    PROVE  /\ pc'[u] = pc[u] /\ stage'[u] = stage[u] /\ tries'[u] = tries[u]
           /\ made'[u] = made[u] /\ paid'[u] = paid[u] /\ spent'[u] = spent[u]
           /\ faults' >= faults
<1> USE DEF TypeInv, GoTo, NewStage, NewRequest
<1>0. faults \in Nat /\ (Fault => faults' >= faults)
  BY Params DEF Fault
<1>a. ASSUME Fail(t)
      PROVE  pc'[u] = pc[u] /\ stage'[u] = stage[u] /\ tries'[u] = tries[u]
             /\ made'[u] = made[u]
  BY <1>a DEF Fail
<1>b. ASSUME NEW status \in Statuses, GoOn(t, status)
      PROVE  pc'[u] = pc[u] /\ stage'[u] = stage[u] /\ tries'[u] = tries[u]
             /\ made'[u] = made[u]
  BY <1>a, <1>b DEF GoOn
<1>c. ASSUME Start(t)
      PROVE  paid'[u] = paid[u]
  BY <1>c DEF Start
<1>1. CASE Acquire(t)
  BY <1>0, <1>1 DEF Acquire
<1>2. ASSUME NEW status \in Statuses, Posted(t, status) \/ Polled(t, status)
      PROVE  /\ pc'[u] = pc[u] /\ stage'[u] = stage[u] /\ tries'[u] = tries[u]
             /\ made'[u] = made[u] /\ paid'[u] = paid[u] /\ spent'[u] = spent[u]
           /\ faults' >= faults
  BY <1>0, <1>2, <1>b, <1>c DEF Posted, Polled
<1>3. CASE Transient(t)
  BY <1>0, <1>3, <1>a, <1>c DEF Transient, TryAgain
<1>4. CASE Unpaid(t) \/ Rejected(t) \/ NoUrl(t)
  BY <1>0, <1>4, <1>a DEF Unpaid, Rejected, NoUrl
<1>5. CASE StageDone(t)
  BY <1>0, <1>5 DEF StageDone, Output
<1> QED
  BY <1>1, <1>2, <1>3, <1>4, <1>5 DEF TaskStep

\* A task that moves within its stage keeps the order of the stages and what was
\* bought, when it pays for the stage at a POST only.
LEMMA WithinStage ==
    ASSUME TypeInv, TypeInv', NEW t \in Tasks, Ordered(t), Bought(t),
           pc[t] \in {"wait"} \cup Holding,
           pc'[t] \in Holding \cup {"error", "cancelled"},
           stage'[t] = stage[t], made'[t] = made[t],
           \A s \in Stages \ {stage[t]} : paid'[t][s] = paid[t][s],
           \/ paid'[t][stage[t]] = paid[t][stage[t]]
           \/ pc[t] = "post" /\ paid'[t][stage[t]] = paid[t][stage[t]] + 1,
           pc'[t] \in {"poll", "get"} => paid'[t][stage[t]] > 0,
           faults' >= faults, spent'[t] = spent[t],
           pc'[t] = "post" => /\ paid'[t][stage[t]] <= tries'[t]
                              /\ spent[t][stage[t]] + paid'[t][stage[t]] <= faults'
    PROVE  Ordered(t)' /\ Bought(t)'
<1> USE Params
<1>0. /\ faults \in Nat /\ faults' \in Nat /\ tries[t] \in Nat /\ tries[t] <= Attempts - 1
      /\ paid[t] \in [Stages -> Nat] /\ paid'[t] \in [Stages -> Nat]
      /\ spent[t] \in [Stages -> Nat] /\ stage[t] \in Stages
  BY DEF TypeInv
<1>1. pc[t] # "done" /\ pc'[t] \notin {"done", "new", "wait"}
  BY DEF Holding
<1>2. /\ Plan(t)' = Plan(t) /\ Before(t, stage[t])' = Before(t, stage[t])
      /\ Before(t, stage[t]) \subseteq Stages /\ stage[t] \notin Before(t, stage[t])
      /\ stage[t] \in Plan(t)
  BY PlanFacts DEF Ordered, Plan, Before
<1>3. paid'[t][stage[t]] >= paid[t][stage[t]]
  BY <1>0
<1>4. Ordered(t)'
  <2>1. made'[t] = Before(t, stage'[t])
    BY <1>1 DEF Ordered
  <2>2. \A s \in Stages : paid'[t][s] > 0 => s = stage[t] \/ s \in Before(t, stage[t])
    BY DEF Ordered
  <2>3. \A s \in Before(t, stage[t]) : paid'[t][s] > 0
    BY <1>2 DEF Ordered
  <2> QED
    BY <1>1, <1>2, <2>1, <2>2, <2>3 DEF Ordered
<1>5. Bought(t)'
  <2>1. /\ spent[t][stage[t]] + paid'[t][stage[t]] <= 1 + faults'
        /\ paid'[t][stage[t]] <= Attempts
    BY <1>0 DEF Bought
  <2>2. ASSUME NEW s \in Stages
        PROVE  /\ spent'[t][s] <= faults'
               /\ spent'[t][s] + paid'[t][s] <= 1 + faults'
               /\ paid'[t][s] <= Attempts
    <3>1. CASE s = stage[t]
      BY <1>0, <2>1, <3>1 DEF Bought
    <3>2. CASE s # stage[t]
      BY <1>0, <3>2 DEF Bought
    <3> QED
      BY <3>1, <3>2
  <2> QED
    BY <1>0, <1>1, <2>2 DEF Bought
<1> QED
  BY <1>4, <1>5

\* A failed stage ends its task where it is.
LEMMA FailMoves ==
    ASSUME TypeInv, NEW t \in Tasks, Fail(t)
    PROVE  pc'[t] = "error" /\ stage'[t] = stage[t] /\ made'[t] = made[t] /\ tries'[t] = 0
BY DEF TypeInv, Fail, GoTo, NewStage, NewRequest

\* An answer to a POST or a poll moves the task within its stage.
LEMMA GoOnMoves ==
    ASSUME TypeInv, NEW t \in Tasks, NEW status \in Statuses, GoOn(t, status)
    PROVE  /\ pc'[t] \in {"poll", "get", "error"}
           /\ stage'[t] = stage[t] /\ made'[t] = made[t] /\ tries'[t] = 0
<1>1. CASE Fail(t)
  BY <1>1, FailMoves
<1>2. CASE ~Fail(t)
  BY <1>2 DEF TypeInv, GoOn, GoTo, NewStage, NewRequest
<1> QED
  BY <1>1, <1>2

\* A POST that starts a fal job pays for the task's stage and no other.
LEMMA StartMoves ==
    ASSUME TypeInv, NEW t \in Tasks, Start(t)
    PROVE  /\ paid'[t][stage[t]] = paid[t][stage[t]] + 1
           /\ \A s \in Stages \ {stage[t]} : paid'[t][s] = paid[t][s]
<1>1. paid[t] \in [Stages -> Nat] /\ paid \in [Tasks -> [Stages -> Nat]] /\ stage[t] \in Stages
  BY DEF TypeInv
<1>2. paid'[t] = [paid[t] EXCEPT ![stage[t]] = @ + 1]
  BY <1>1 DEF Start
<1> QED
  BY <1>1, <1>2

\* Every step of a task keeps what is known of it.
LEMMA TaskOrder ==
    ASSUME TypeInv, TypeInv', NEW t \in Tasks, Ordered(t), Bought(t), TaskStep(t)
    PROVE  Ordered(t)' /\ Bought(t)'
<1> USE Params
<1>0. /\ faults \in Nat /\ tries[t] \in Nat /\ paid[t] \in [Stages -> Nat]
      /\ spent[t] \in [Stages -> Nat] /\ stage[t] \in Stages /\ pc[t] \in {"new", "wait"} \cup Holding \cup Ends
      /\ pc \in [Tasks -> {"new", "wait"} \cup Holding \cup Ends]
      /\ tries \in [Tasks -> 0..Attempts - 1]
  BY DEF TypeInv
<1>1. CASE Acquire(t)
  <2>1. pc[t] = "wait" /\ pc'[t] = "post"
    BY <1>0, <1>1 DEF Acquire, GoTo
  <2>2. /\ stage' = stage /\ made' = made /\ paid' = paid /\ spent' = spent
        /\ faults' = faults /\ tries' = tries
    BY <1>1 DEF Acquire
  <2>3. paid[t][stage[t]] = 0 /\ spent[t][stage[t]] <= faults
    BY <1>0, <2>1 DEF Ordered, Bought
  <2> QED
    BY <1>0, <2>1, <2>2, <2>3, WithinStage DEF Holding
<1>2. ASSUME NEW status \in Statuses, Posted(t, status)
      PROVE  Ordered(t)' /\ Bought(t)'
  <2>1. pc[t] = "post" /\ faults' = faults /\ spent' = spent
    BY <1>2 DEF Posted
  <2>2. /\ paid'[t][stage[t]] = paid[t][stage[t]] + 1
        /\ \A s \in Stages \ {stage[t]} : paid'[t][s] = paid[t][s]
    BY <1>2, StartMoves DEF Posted
  <2>3. /\ pc'[t] \in {"poll", "get", "error"}
        /\ stage'[t] = stage[t] /\ made'[t] = made[t] /\ tries'[t] = 0
    BY <1>2, GoOnMoves DEF Posted
  <2>4. paid'[t][stage[t]] > 0
    BY <1>0, <2>2
  <2> QED
    BY <1>0, <2>1, <2>2, <2>3, <2>4, WithinStage DEF Holding
<1>3. ASSUME NEW status \in Statuses, Polled(t, status)
      PROVE  Ordered(t)' /\ Bought(t)'
  <2>1. pc[t] = "poll" /\ faults' = faults /\ paid' = paid /\ spent' = spent
    BY <1>3 DEF Polled
  <2>2. /\ pc'[t] \in {"poll", "get", "error"}
        /\ stage'[t] = stage[t] /\ made'[t] = made[t] /\ tries'[t] = 0
    BY <1>3, GoOnMoves DEF Polled
  <2>3. paid[t][stage[t]] > 0
    BY <2>1 DEF Ordered
  <2> QED
    BY <1>0, <2>1, <2>2, <2>3, WithinStage DEF Holding
<1>4. CASE Transient(t)
  <2>1. pc[t] \in Holding /\ spent' = spent
    BY <1>4 DEF Transient
  <2>2. \/ paid' = paid /\ faults' = faults
        \/ pc[t] = "post" /\ Start(t) /\ faults' = faults + 1
    BY <1>4 DEF Transient, Fault
  <2>3. /\ \A s \in Stages \ {stage[t]} : paid'[t][s] = paid[t][s]
        /\ \/ paid'[t][stage[t]] = paid[t][stage[t]] /\ faults' = faults
           \/ /\ pc[t] = "post" /\ faults' = faults + 1
              /\ paid'[t][stage[t]] = paid[t][stage[t]] + 1
    BY <2>2, StartMoves
  <2>4. CASE Fail(t)
    BY <1>0, <2>1, <2>3, <2>4, FailMoves, WithinStage DEF Holding
  <2>5. CASE ~Fail(t)
    <3>1. /\ pc'[t] = pc[t] /\ stage'[t] = stage[t] /\ made'[t] = made[t]
          /\ tries'[t] = tries[t] + 1
      BY <1>0, <1>4, <2>5 DEF Transient, TryAgain
    <3>2. pc'[t] \in {"poll", "get"} => paid'[t][stage[t]] > 0
      BY <2>3, <3>1 DEF Ordered
    <3>3. pc'[t] = "post" => /\ paid'[t][stage[t]] <= tries'[t]
                             /\ spent[t][stage[t]] + paid'[t][stage[t]] <= faults'
      BY <1>0, <2>3, <3>1 DEF Bought
    <3> QED
      BY <1>0, <2>1, <2>3, <3>1, <3>2, <3>3, WithinStage
  <2> QED
    BY <2>4, <2>5
<1>5. CASE Unpaid(t) \/ Rejected(t) \/ NoUrl(t)
  <2>1. /\ Fail(t) /\ pc[t] \in Holding
        /\ paid' = paid /\ spent' = spent /\ faults' = faults
    BY <1>5 DEF Unpaid, Rejected, NoUrl, Holding
  <2> QED
    BY <1>0, <2>1, FailMoves, WithinStage
<1>6. CASE StageDone(t)
  <2>1. /\ pc[t] = "get" /\ made'[t] = made[t] \cup {stage[t]} /\ tries'[t] = 0
        /\ paid' = paid /\ spent' = spent /\ faults' = faults
    BY <1>6 DEF StageDone, Output, NewStage, NewRequest, TypeInv
  <2>2. /\ stage[t] \in Plan(t) /\ made[t] = Before(t, stage[t])
        /\ paid[t][stage[t]] > 0
        /\ \A s \in Stages : paid[t][s] > 0 => s = stage[t] \/ s \in Before(t, stage[t])
        /\ \A s \in Before(t, stage[t]) : paid[t][s] > 0
    BY <2>1 DEF Ordered
  <2>3. \A s \in Stages : /\ spent'[t][s] <= faults'
                           /\ spent'[t][s] + paid'[t][s] <= 1 + faults'
                           /\ paid'[t][s] <= Attempts
    BY <2>1 DEF Bought
  <2>4. CASE Route(t) = "end"
    <3>1. pc'[t] = "done" /\ stage'[t] = stage[t]
      BY <1>0, <1>6, <2>4 DEF StageDone, GoTo
    <3>2. Ordered(t)'
      BY <2>1, <2>2, <2>4, <3>1 DEF Ordered, Plan, Before, Route
    <3> QED
      BY <1>0, <2>1, <2>3, <3>1, <3>2 DEF Bought
  <2>5. CASE Route(t) # "end"
    <3>1. pc'[t] = "wait" /\ stage'[t] = Route(t)
      BY <1>0, <1>6, <2>5 DEF StageDone, GoTo, TypeInv
    <3>2. /\ Route(t) \in Plan(t)
          /\ Route(t) \notin Before(t, stage[t]) \cup {stage[t]}
          /\ Before(t, Route(t)) = Before(t, stage[t]) \cup {stage[t]}
          /\ Plan(t) \subseteq Stages
      BY <2>2, <2>5, PlanFacts
    <3>3. paid'[t][stage'[t]] = 0
      <4>1. paid[t][Route(t)] \in Nat /\ ~(paid[t][Route(t)] > 0)
        BY <1>0, <2>2, <3>2
      <4> QED
        BY <2>1, <3>1, <4>1
    <3>4. Before(t, stage'[t]) = Before(t, stage[t]) \cup {stage[t]}
          /\ stage'[t] \in Plan(t)
      BY <3>1, <3>2
    <3>5. Ordered(t)'
      <4>1. Plan(t)' = Plan(t) /\ Before(t, stage[t])' = Before(t, stage'[t])
        BY DEF Plan, Before
      <4>2. made'[t] = Before(t, stage'[t])
        BY <2>1, <2>2, <3>4
      <4>3. /\ \A s \in Stages : paid'[t][s] > 0 => s = stage'[t] \/ s \in Before(t, stage'[t])
            /\ \A s \in Before(t, stage'[t]) : paid'[t][s] > 0
        BY <2>1, <2>2, <3>4
      <4> QED
        BY <3>1, <3>3, <3>4, <4>1, <4>2, <4>3 DEF Ordered
    <3> QED
      BY <1>0, <2>1, <2>3, <3>1, <3>5 DEF Bought
  <2> QED
    BY <2>4, <2>5
<1> QED
  BY <1>1, <1>2, <1>3, <1>4, <1>5, <1>6 DEF TaskStep

\* Every step of anybody keeps what is known of every task.
LEMMA OrderStep ==
    TypeInv /\ TypeInv' /\ OrderInv /\ BuyInv /\ [Next]_vars => OrderInv' /\ BuyInv'
<1> SUFFICES ASSUME TypeInv, TypeInv', OrderInv, BuyInv, [Next]_vars,
                    NEW u \in Tasks
             PROVE  Ordered(u)' /\ Bought(u)'
  BY DEF OrderInv, BuyInv
<1> USE Params
<1>0. Ordered(u) /\ Bought(u)
  BY DEF OrderInv, BuyInv
<1>a. /\ faults \in Nat /\ tries[u] \in Nat /\ stage[u] \in Stages
      /\ paid[u] \in [Stages -> Nat] /\ spent[u] \in [Stages -> Nat]
      /\ pc[u] \in {"new", "wait"} \cup Holding \cup Ends
  BY DEF TypeInv
<1>b. ASSUME UNCHANGED taskVars, faults' >= faults
      PROVE  Ordered(u)' /\ Bought(u)'
  BY <1>0, <1>b, Untouched DEF taskVars
<1>1. ASSUME NEW j \in Jobs, Submit(j)
      PROVE  Ordered(u)' /\ Bought(u)'
  <2>1. /\ stage' = stage /\ tries' = tries /\ made' = made /\ paid' = paid
        /\ spent' = spent /\ faults' = faults
    BY <1>1 DEF Submit
  <2>2. CASE Job[u] # j
    <3>1. pc'[u] = pc[u]
      BY <1>1, <2>2 DEF Submit
    <3> QED
      BY <1>0, <1>a, <2>1, <3>1, Untouched
  <2>3. CASE Job[u] = j
    <3>1. pc[u] = "new" /\ pc'[u] \in {"shed", "wait"}
      BY <1>1, <2>3 DEF Submit
    <3>2. Ordered(u)'
      BY <1>0, <2>1, <3>1 DEF Ordered, Plan, Before
    <3>3. Bought(u)'
      BY <1>0, <2>1, <3>1 DEF Bought
    <3> QED
      BY <3>2, <3>3
  <2> QED
    BY <2>2, <2>3
<1>2. ASSUME NEW j \in Jobs, Timeout(j)
      PROVE  Ordered(u)' /\ Bought(u)'
  <2> DEFINE mine == {t \in Tasks : Job[t] = j /\ Live(t)}
  <2>1. stage' = stage /\ made' = made /\ spent' = spent /\ faults' = faults
    BY <1>2 DEF Timeout
  <2>0. PICK begun \in SUBSET (mine \cap Unheard) : paid' = PaidWith(begun)
    BY <1>2 DEF Timeout
  <2>2. CASE u \notin mine
    <3>1. pc'[u] = pc[u] /\ tries'[u] = tries[u] /\ paid'[u] = paid[u]
      BY <1>2, <2>0, <2>2 DEF Timeout, PaidWith
    <3> QED
      BY <1>0, <1>a, <2>1, <3>1, Untouched
  <2>3. CASE u \in mine
    <3>1. pc[u] \in {"wait"} \cup Holding
      BY <1>a, <2>3 DEF Live
    <3>2. pc'[u] = "cancelled" /\ tries'[u] = 0
      BY <1>2, <2>3 DEF Timeout
    <3>4. /\ \A s \in Stages \ {stage[u]} : paid'[u][s] = paid[u][s]
          /\ \/ paid'[u][stage[u]] = paid[u][stage[u]]
             \/ pc[u] = "post" /\ paid'[u][stage[u]] = paid[u][stage[u]] + 1
      BY <2>0, UnheardMoves
    <3> QED
      BY <1>0, <1>a, <2>1, <3>1, <3>2, <3>4, WithinStage
  <2> QED
    BY <2>2, <2>3
<1>3. ASSUME NEW t \in Tasks, TaskStep(t)
      PROVE  Ordered(u)' /\ Bought(u)'
  <2>1. CASE u = t
    BY <1>0, <1>3, <2>1, TaskOrder
  <2>2. CASE u # t
    BY <1>0, <1>3, <2>2, OthersStay, Untouched
  <2> QED
    BY <2>1, <2>2
<1>4. CASE CheckStep \/ AccountStep \/ UNCHANGED vars
  BY <1>4, <1>a, <1>b DEF CheckStep, AccountStep, Fault, vars
<1>5. CASE Die
  <2>1. PICK bought \in [Stages -> Nat] :
           /\ \A s \in Stages \ {stage[u]} : bought[s] = paid[u][s]
           /\ \/ bought[stage[u]] = paid[u][stage[u]]
              \/ pc[u] = "post" /\ bought[stage[u]] = paid[u][stage[u]] + 1
           /\ \/ /\ pc'[u] = "wait" /\ stage'[u] = FirstStage(u)
                 /\ made'[u] = {} /\ paid'[u] = NoStage
                 /\ spent'[u] = [s \in Stages |-> spent[u][s] + bought[s]]
              \/ /\ pc'[u] = IF Live(u) THEN "cancelled" ELSE pc[u]
                 /\ stage'[u] = stage[u] /\ made'[u] = made[u]
                 /\ paid'[u] = bought /\ spent'[u] = spent[u]
    BY <1>5, DieMoves
  <2>2. faults' = faults + 1
    BY <1>5, DieMoves
  <2>3. \A s \in Stages : spent[u][s] + bought[s] <= 1 + faults
    <3> SUFFICES ASSUME NEW s \in Stages
                 PROVE  spent[u][s] + bought[s] <= 1 + faults
      OBVIOUS
    <3>1. CASE s = stage[u]
      BY <1>0, <1>a, <2>1, <3>1 DEF Bought
    <3>2. CASE s # stage[u]
      BY <1>0, <1>a, <2>1, <3>2 DEF Bought
    <3> QED
      BY <3>1, <3>2
  <2>4. CASE /\ pc'[u] = "wait" /\ stage'[u] = FirstStage(u)
             /\ made'[u] = {} /\ paid'[u] = NoStage
             /\ spent'[u] = [s \in Stages |-> spent[u][s] + bought[s]]
    <3>1. \A s \in Stages : paid'[u][s] = 0 /\ spent'[u][s] = spent[u][s] + bought[s]
      BY <2>4 DEF NoStage
    <3>2. Ordered(u)'
      <4>1. Plan(u)' = Plan(u) /\ Before(u, stage[u])' = Before(u, FirstStage(u))
        BY <2>4 DEF Plan, Before
      <4> QED
        BY <2>4, <3>1, <4>1, FirstFacts DEF Ordered
    <3>3. Bought(u)'
      BY <1>a, <2>2, <2>3, <2>4, <3>1 DEF Bought
    <3> QED
      BY <3>2, <3>3
  <2>5. CASE /\ pc'[u] = IF Live(u) THEN "cancelled" ELSE pc[u]
             /\ stage'[u] = stage[u] /\ made'[u] = made[u]
             /\ paid'[u] = bought /\ spent'[u] = spent[u]
    <3>1. CASE Live(u)
      <4>1. pc[u] \in {"wait"} \cup Holding /\ pc'[u] = "cancelled"
        BY <1>a, <2>5, <3>1 DEF Live
      <4> QED
        BY <1>0, <1>a, <2>1, <2>2, <2>5, <4>1, WithinStage
    <3>2. CASE ~Live(u)
      <4>1. pc'[u] = pc[u] /\ pc[u] # "post"
        BY <2>5, <3>2 DEF Live, Ends
      <4>2. \A s \in Stages : paid'[u][s] = paid[u][s]
        BY <2>1, <2>5, <4>1
      <4>3. Ordered(u)'
        <5>1. /\ Plan(u)' = Plan(u) /\ Before(u, stage[u])' = Before(u, stage[u])
              /\ Route(u)' = Route(u) /\ Before(u, stage[u]) \subseteq Stages
          BY <1>0, <2>5, PlanFacts DEF Ordered, Plan, Before, Route
        <5> QED
          BY <1>0, <1>a, <2>5, <4>1, <4>2, <5>1 DEF Ordered
      <4>4. Bought(u)'
        BY <1>0, <1>a, <2>2, <2>5, <4>1, <4>2 DEF Bought
      <4> QED
        BY <4>3, <4>4
    <3> QED
      BY <3>1, <3>2
  <2> QED
    BY <2>1, <2>4, <2>5
<1> QED
  BY <1>1, <1>2, <1>3, <1>4, <1>5 DEF Next

----------------------------------------------------------------------------
(* The theorems *)

\* IInv holds in every reachable state.
THEOREM Invariance == Spec => []IInv
<1>1. IInv /\ [Next]_vars => IInv'
  <2> SUFFICES ASSUME IInv, [Next]_vars
               PROVE  IInv'
    OBVIOUS
  <2> USE DEF IInv
  <2>1. TypeInv'
    BY TypeStep
  <2>2. OpenForAReason'
    BY CircuitStep
  <2>3. SlotsConserved'
    BY SlotsStep
  <2>4. OrderInv' /\ BuyInv'
    BY <2>1, OrderStep
  <2> QED
    BY <2>1, <2>2, <2>3, <2>4
<1> QED
  BY InitIInv, <1>1, PTL DEF Spec

\* The semaphore's value stays between zero and max_fal_concurrency, a request
\* is tried at most _RETRY_ATTEMPTS times and a stage polled at most
\* _POLL_MAX_ATTEMPTS times.
THEOREM TypeCorrect == Spec => []TypeOK
<1>1. IInv => TypeOK
  <2> SUFFICES ASSUME IInv
               PROVE  TypeOK
    OBVIOUS
  <2>1. free + Cardinality(Holders) = Slots
    BY DEF IInv, SlotsConserved, Holders
  <2>2. free \in 0..Slots
    BY <2>1, HoldersFinite, Params DEF IInv, TypeInv
  <2> QED
    BY <2>2 DEF IInv, TypeInv, TypeOK
<1> QED
  BY <1>1, Invariance, PTL

\* The circuit of the worker is open exactly while it has a reason to be, in
\* whatever order 402s, checks and alerts come (fal_balance.py).
THEOREM CircuitReason == Spec => []OpenForAReason
<1>1. IInv => OpenForAReason
  BY DEF IInv
<1> QED
  BY <1>1, Invariance, PTL

\* No slot of the semaphore is lost or gained, through failures, retries and
\* the cancellation of a job in the middle of its requests (fal_client.py).
THEOREM SlotsKept == Spec => []SlotsConserved
<1>1. IInv => SlotsConserved
  BY DEF IInv
<1> QED
  BY <1>1, Invariance, PTL

\* A ratio that ends well has every output its service promises, and pays for a
\* stage only when the stages before it have theirs (graph.py, worker.py).
THEOREM StagesOrdered == Spec => []StagesInOrder
<1>1. IInv => StagesInOrder
  <2> SUFFICES ASSUME IInv, NEW t \in Tasks
               PROVE  /\ pc[t] = "done" => made[t] = Plan(t)
                      /\ \A s \in Stages : paid[t][s] > 0 =>
                            /\ s \in Plan(t)
                            /\ s # "upscale" /\ Service[t] = "media_kit" =>
                                  "upscale" \in made[t]
                            /\ s = "video" /\ Service[t] = "media_kit" /\ do_expand[t] =>
                                  "expand" \in made[t]
                      /\ \A s \in made[t] : paid[t][s] > 0
    BY DEF StagesInOrder
  <2>1. Ordered(t) /\ stage[t] \in Stages /\ made[t] \subseteq Stages
    BY DEF IInv, OrderInv, TypeInv
  <2>2. stage[t] \in Plan(t)
    BY <2>1 DEF Ordered
  <2>3. pc[t] = "done" => made[t] = Plan(t)
    BY <2>1, <2>2, PlanFacts DEF Ordered
  <2>4. ASSUME NEW s \in Stages, paid[t][s] > 0
        PROVE  /\ s \in Plan(t)
               /\ s # "upscale" /\ Service[t] = "media_kit" => "upscale" \in made[t]
               /\ s = "video" /\ Service[t] = "media_kit" /\ do_expand[t] =>
                     "expand" \in made[t]
    <3>1. s = stage[t] \/ s \in Before(t, stage[t])
      BY <2>1, <2>4 DEF Ordered
    <3>2. Before(t, stage[t]) \subseteq made[t]
      BY <2>1 DEF Ordered
    <3>3. s \in Plan(t)
      BY <2>2, <3>1, PlanFacts
    <3> QED
      BY <2>1, <3>1, <3>2, <3>3 DEF Before, Stages
  <2>5. \A s \in made[t] : paid[t][s] > 0
    BY <2>1 DEF Ordered
  <2> QED
    BY <2>3, <2>4, <2>5
<1> QED
  BY <1>1, Invariance, PTL

\* Each fal job of a stage beyond the first is paid for by a fault: a POST whose
\* answer was lost (fal_client.py _request repeats it), or a death of the worker
\* after which ARQ ran the job anew (worker.py _process_job buys every stage
\* again).  One run buys a stage at most _RETRY_ATTEMPTS times.
THEOREM Purchases == Spec => []BoughtOnce
<1>1. IInv => BoughtOnce
  BY DEF IInv, BuyInv, Bought, BoughtOnce
<1> QED
  BY <1>1, Invariance, PTL
============================================================================
