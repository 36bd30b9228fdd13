--------------------------- MODULE JobWorkerProofs ---------------------------
(***************************************************************************)
(* Proofs about JobWorker for every set of ratios, every price, every      *)
(* limit and every selection of faults.                                    *)
(***************************************************************************)
EXTENDS JobWorker, TLAPS

\* Where the main coroutine stands once every ratio of its attempt is over.
AfterGather == {"settle", "refund", "recordRefund", "refundRow", "countFailure",
                "end"}

\* How far each ratio is tells its outcome and whether its files are there; the
\* main coroutine goes past the gather only when all of them are over.
StageInv ==
    /\ \A r \in Ratios :
        /\ task[r] \in {"save", "ok"} => outcome[r] = "completed"
        /\ task[r] \in {"read", "write", "row"} => outcome[r] # "none"
        /\ task[r] \in {"read", "write", "row", "ok"} /\ outcome[r] = "completed"
               => r \in media
    /\ main \in AfterGather => \A r \in Ratios : task[r] \in TaskOver
    /\ main \in {"submitted", "gather", "settle"} => posts = 0
    /\ main = "refund" => posts < MaxPosts

\* The claims a version of the record makes about files and refunds hold.
Backed(record) ==
    /\ \A r \in Ratios : record.assets[r] = "completed" => r \in media
    /\ record.status = "completed" => media = Ratios
    /\ record.refunded > 0 => refundTx \/ misread

\* The record is backed, and so is every copy that may yet be written over it.
RecordInv ==
    /\ Backed(rec)
    /\ \A r \in Ratios : Backed(copy[r])

\* Wix returns only with the row, and the worker reports only after the row or a
\* 200 without one.
RefundInv ==
    /\ returned <= Quoted
    /\ returned > 0 => refundTx
    /\ usage.refundRequested > 0 => refundTx \/ misread
    /\ main \in {"recordRefund", "refundRow"} => refundTx \/ misread
    /\ OwedIsReturnedOrCounted

\* Until its refund, the first attempt finds nothing refunded; from then on Wix
\* has returned what is due or nothing.
FirstAttempt ==
    \/ main = "wait" /\ tries = 0
    \/ tries = 1 /\ main \in {"submitted", "gather", "settle"}

FirstInv ==
    /\ main \notin {"wait", "missing"} => tries > 0
    /\ FirstAttempt => ~refundTx /\ ~misread /\ (\A r \in Ratios : copy[r].refunded = 0)
    /\ FirstAttempt \/ (tries = 1 /\ main = "refund") => rec.refunded = 0
    /\ tries = 1 /\ main \in {"refund", "recordRefund", "refundRow"}
           => returned \in {0, RefundDue}
    /\ tries = 1 /\ main = "refundRow" => rec.refunded = RefundDue
    /\ FirstAttemptSettlesExactly

IInv == TypeOK /\ StageInv /\ RecordInv /\ RefundInv /\ FirstInv

\* What the steps need to know of the record to keep JobRecord's promise: it says
\* "running" as long as a ratio may write it, and so does every copy that will be
\* written; the files of a first attempt are those of its completed ratios.
RunInv ==
    /\ main = "wait" /\ tries = 0 => rec.status = "queued"
    /\ main \in MainBusy \/ (main = "wait" /\ tries > 0) => rec.status # "queued"
    /\ main \in {"submitted", "gather"} => rec.status = "running"
    /\ \A r \in Ratios :
        /\ task[r] \in TaskBusy => rec.status = "running"
        /\ task[r] = "write" => copy[r].status = "running"
        /\ task[r] = "failed" => outcome[r] = "failed"
    /\ tries = 0 \/ (tries = 1 /\ main = "submitted") =>
           media = {} /\ \A r \in Ratios : task[r] = "off"
    /\ tries = 1 => \A r \in media : outcome[r] = "completed" /\ task[r] # "pipeline"

----------------------------------------------------------------------------
(* The types *)

\* What is due is never more than was quoted, and nothing if nothing failed.
LEMMA DueBound ==
    ASSUME failed \in SUBSET Ratios
    PROVE  /\ RefundDue \in Nat
           /\ RefundDue <= Quoted
           /\ failed = {} \/ Quoted = 0 => RefundDue = 0
<1>1. Credits[failed] \in Nat /\ Credits[{}] = 0 /\ Quoted \in Nat
  BY CreditsAssumption, QuotedAssumption DEF CreditsAssumption, QuotedAssumption
<1> QED
  BY <1>1 DEF RefundDue

\* The initial states satisfy IInv.
LEMMA InitIInv == Init => IInv
<1> SUFFICES ASSUME Init
             PROVE  IInv
  OBVIOUS
<1>a. MaxTries \in Nat \ {0} /\ MaxPosts \in Nat \ {0} /\ Quoted \in Nat
  BY LimitsAssumption, QuotedAssumption DEF LimitsAssumption, QuotedAssumption
<1>1. rec \in Record /\ rec.status = "queued" /\ rec.refunded = 0
      /\ \A r \in Ratios : rec.assets[r] = "queued"
  BY DEF Init, Record
<1>2. copy \in [Ratios -> Record] /\ \A r \in Ratios : copy[r] = rec
  BY <1>1 DEF Init
<1>3. TypeOK
  <2>1. tries \in 0..MaxTries /\ posts \in 0..MaxPosts
    BY <1>a DEF Init
  <2>2. usage \in [submitted : Nat, refundRequested : Nat]
    BY DEF Init
  <2>3. /\ task \in [Ratios -> TaskBusy \cup TaskOver \cup {"off", "raised"}]
        /\ outcome \in [Ratios -> {"none", "completed", "failed"}]
    BY DEF Init
  <2> QED
    BY <1>1, <1>2, <2>1, <2>2, <2>3 DEF Init, TypeOK
<1>4. StageInv
  BY DEF Init, StageInv, AfterGather
<1>5. RecordInv
  BY <1>1, <1>2 DEF RecordInv, Backed
<1>6. RefundInv
  BY <1>a DEF Init, RefundInv, OwedIsReturnedOrCounted
<1>7. FirstInv
  BY <1>1, <1>2 DEF Init, FirstInv, FirstAttempt, FirstAttemptSettlesExactly
<1> QED
  BY <1>3, <1>4, <1>5, <1>6, <1>7 DEF IInv

\* Every step keeps the types.
LEMMA TypeStep == TypeOK /\ StageInv /\ [Next]_vars => TypeOK'
<1> SUFFICES ASSUME TypeOK, StageInv, [Next]_vars
             PROVE  TypeOK'
  OBVIOUS
<1> USE DEF TypeOK, StageInv, Record, Terminal, MainBusy, TaskBusy, TaskOver, Over,
            TaskTo, wix, run, work, logs
<1>a. MaxTries \in Nat \ {0} /\ MaxPosts \in Nat \ {0}
  BY LimitsAssumption DEF LimitsAssumption
<1>b. RefundDue \in Nat
  BY DueBound DEF TypeOK
<1>1. CASE Start
  BY <1>1, <1>a, <1>b DEF Start
<1>2. CASE StartRaise
  BY <1>2, <1>a, <1>b DEF StartRaise
<1>3. CASE StartMissing
  BY <1>3, <1>a, <1>b DEF StartMissing
<1>4. CASE FanOut
  BY <1>4, <1>a, <1>b DEF FanOut
<1>5. CASE Gather
  BY <1>5, <1>a, <1>b DEF Gather, StatusOf
<1>6. CASE GatherRaise
  BY <1>6, <1>a, <1>b DEF GatherRaise
<1>7. CASE Settle
  BY <1>7, <1>a, <1>b DEF Settle
<1>8. CASE RefundAcked
  <2>0. refundTx' \in BOOLEAN /\ misread' \in BOOLEAN
    BY <1>8, Zenon DEF RefundAcked, Answered200, WixRefund, WixRefundHalf, WixInsertFails
  <2>1. returned' \in Nat
    BY <1>8, <1>b DEF RefundAcked, Answered200, WixRefund, WixRefundHalf, WixInsertFails
  <2>2. posts' \in 0..MaxPosts
    BY <1>8, <1>a DEF RefundAcked
  <2> QED
    BY <1>8, <2>0, <2>1, <2>2 DEF RefundAcked
<1>9. CASE RefundTransient
  <2>0. refundTx' \in BOOLEAN /\ misread' \in BOOLEAN
    BY <1>9, Zenon DEF RefundTransient, WixRefund, WixRefundHalf
  <2>1. returned' \in Nat
    BY <1>9, <1>b DEF RefundTransient, WixRefund, WixRefundHalf
  <2>2. posts' \in 0..MaxPosts
    BY <1>9, <1>a DEF RefundTransient
  <2>3. main' \in {"refund", "countFailure"}
    BY <1>9 DEF RefundTransient, AfterTransient
  <2> QED
    BY <1>9, <2>0, <2>1, <2>2, <2>3 DEF RefundTransient
<1>10. CASE RefundRejected
  BY <1>10, <1>a, <1>b DEF RefundRejected
<1>11. CASE RecordRefund
  BY <1>11, <1>a, <1>b DEF RecordRefund
<1>12. CASE RefundRow
  BY <1>12, <1>a, <1>b DEF RefundRow
<1>13. CASE CountFailure
  <2>1. failures' \in Nat
    BY <1>13 DEF CountFailure
  <2>2. uncounted' \in BOOLEAN
    BY <1>13, Zenon DEF CountFailure
  <2> QED
    BY <1>13, <2>1, <2>2 DEF CountFailure
<1>14. CASE MainRaise
  BY <1>14, <1>a, <1>b DEF MainRaise
<1>15. CASE TimeOut
  BY <1>15, <1>a, <1>b DEF TimeOut
<1>16. CASE Crash
  BY <1>16, <1>a, <1>b DEF Crash
<1>17. CASE GiveUp
  BY <1>17, <1>a, <1>b DEF GiveUp
<1>18. ASSUME NEW r \in Ratios, Pipeline(r)
      PROVE  TypeOK'
  BY <1>18, <1>a, <1>b DEF Pipeline
<1>19. ASSUME NEW r \in Ratios, SaveOutputs(r)
      PROVE  TypeOK'
  BY <1>19, <1>a, <1>b DEF SaveOutputs
<1>20. ASSUME NEW r \in Ratios, ReadRecord(r)
      PROVE  TypeOK'
  BY <1>20, <1>a, <1>b DEF ReadRecord
<1>21. ASSUME NEW r \in Ratios, WriteRecord(r)
      PROVE  TypeOK'
  BY <1>21, <1>a, <1>b DEF WriteRecord
<1>22. ASSUME NEW r \in Ratios, RatioRow(r)
      PROVE  TypeOK'
  BY <1>22, <1>a, <1>b DEF RatioRow
<1>23. ASSUME NEW r \in Ratios, TaskRaise(r)
      PROVE  TypeOK'
  BY <1>23, <1>a, <1>b DEF TaskRaise
<1>24. CASE UNCHANGED vars
  BY <1>24, <1>a, <1>b DEF vars
<1> QED
  BY <1>1, <1>2, <1>3, <1>4, <1>5, <1>6, <1>7, <1>8, <1>9, <1>10, <1>11,
     <1>12, <1>13, <1>14, <1>15, <1>16, <1>17, <1>18, <1>19, <1>20, <1>21, <1>22,
     <1>23, <1>24
     DEF Next, MainStep, TaskStep

\* Every step keeps the order of a ratio's stages.
LEMMA StageStep == TypeOK /\ StageInv /\ [Next]_vars => StageInv'
<1> SUFFICES ASSUME TypeOK, StageInv, [Next]_vars
             PROVE  StageInv'
  OBVIOUS
<1> USE DEF TypeOK, StageInv, AfterGather, MainBusy, TaskBusy, TaskOver, Over, TaskTo,
            wix, run, work, logs
<1>a. MaxTries \in Nat \ {0} /\ MaxPosts \in Nat \ {0}
  BY LimitsAssumption DEF LimitsAssumption
<1>b. RefundDue \in Nat
  BY DueBound DEF TypeOK
<1>1. CASE Start
  BY <1>1, <1>a DEF Start
<1>2. CASE StartRaise
  BY <1>2, <1>a DEF StartRaise
<1>3. CASE StartMissing
  BY <1>3, <1>a DEF StartMissing
<1>4. CASE FanOut
  BY <1>4, <1>a DEF FanOut
<1>5. CASE Gather
  BY <1>5, <1>a DEF Gather, StatusOf
<1>6. CASE GatherRaise
  BY <1>6, <1>a DEF GatherRaise
<1>7. CASE Settle
  BY <1>7, <1>a DEF Settle
<1>8. CASE RefundAcked
  BY <1>8, <1>a DEF RefundAcked, Answered200, WixRefund, WixRefundHalf, WixInsertFails
<1>9. CASE RefundTransient
  BY <1>9, <1>a DEF RefundTransient, WixRefund, WixRefundHalf, AfterTransient
<1>10. CASE RefundRejected
  BY <1>10, <1>a DEF RefundRejected
<1>11. CASE RecordRefund
  BY <1>11, <1>a DEF RecordRefund
<1>12. CASE RefundRow
  BY <1>12, <1>a DEF RefundRow
<1>13. CASE CountFailure
  BY <1>13, <1>a DEF CountFailure
<1>14. CASE MainRaise
  BY <1>14, <1>a DEF MainRaise
<1>15. CASE TimeOut
  BY <1>15, <1>a DEF TimeOut
<1>16. CASE Crash
  BY <1>16, <1>a DEF Crash
<1>17. CASE GiveUp
  BY <1>17, <1>a DEF GiveUp
<1>18. ASSUME NEW r \in Ratios, Pipeline(r)
      PROVE  StageInv'
  BY <1>18, <1>a DEF Pipeline
<1>19. ASSUME NEW r \in Ratios, SaveOutputs(r)
      PROVE  StageInv'
  BY <1>19, <1>a DEF SaveOutputs
<1>20. ASSUME NEW r \in Ratios, ReadRecord(r)
      PROVE  StageInv'
  BY <1>20, <1>a DEF ReadRecord
<1>21. ASSUME NEW r \in Ratios, WriteRecord(r)
      PROVE  StageInv'
  BY <1>21, <1>a DEF WriteRecord
<1>22. ASSUME NEW r \in Ratios, RatioRow(r)
      PROVE  StageInv'
  BY <1>22, <1>a DEF RatioRow
<1>23. ASSUME NEW r \in Ratios, TaskRaise(r)
      PROVE  StageInv'
  BY <1>23, <1>a DEF TaskRaise
<1>24. CASE UNCHANGED vars
  BY <1>24, <1>a DEF vars
<1> QED
  BY <1>1, <1>2, <1>3, <1>4, <1>5, <1>6, <1>7, <1>8, <1>9, <1>10, <1>11,
     <1>12, <1>13, <1>14, <1>15, <1>16, <1>17, <1>18, <1>19, <1>20, <1>21, <1>22,
     <1>23, <1>24
     DEF Next, MainStep, TaskStep

----------------------------------------------------------------------------
(* The record and the refund *)

\* Every step keeps the record and its copies backed.
LEMMA RecordStep == TypeOK /\ StageInv /\ RecordInv /\ RefundInv /\ [Next]_vars => RecordInv'
<1> SUFFICES ASSUME TypeOK, StageInv, RecordInv, RefundInv, [Next]_vars
             PROVE  RecordInv'
  OBVIOUS
<1> USE DEF TypeOK, StageInv, RecordInv, RefundInv, Backed, Record, AfterGather,
            TaskOver, TaskTo, wix, run, work, logs
<1>1. CASE Start
  BY <1>1 DEF Start
<1>2. CASE StartRaise
  BY <1>2 DEF StartRaise
<1>3. CASE StartMissing
  BY <1>3 DEF StartMissing
<1>4. CASE FanOut
  BY <1>4 DEF FanOut
<1>5. CASE Gather
  BY <1>5 DEF Gather, StatusOf
<1>6. CASE GatherRaise
  BY <1>6 DEF GatherRaise
<1>7. CASE Settle
  BY <1>7 DEF Settle
<1>8. CASE RefundAcked
  BY <1>8 DEF RefundAcked, Answered200, WixRefund, WixRefundHalf, WixInsertFails
<1>9. CASE RefundTransient
  BY <1>9 DEF RefundTransient, WixRefund, WixRefundHalf, AfterTransient
<1>10. CASE RefundRejected
  BY <1>10 DEF RefundRejected
<1>11. CASE RecordRefund
  BY <1>11 DEF RecordRefund
<1>12. CASE RefundRow
  BY <1>12 DEF RefundRow
<1>13. CASE CountFailure
  BY <1>13 DEF CountFailure
<1>14. CASE MainRaise
  BY <1>14 DEF MainRaise
<1>15. CASE TimeOut
  BY <1>15 DEF TimeOut
<1>16. CASE Crash
  BY <1>16 DEF Crash
<1>17. CASE GiveUp
  BY <1>17 DEF GiveUp
<1>18. ASSUME NEW r \in Ratios, Pipeline(r)
      PROVE  RecordInv'
  BY <1>18 DEF Pipeline
<1>19. ASSUME NEW r \in Ratios, SaveOutputs(r)
      PROVE  RecordInv'
  BY <1>19 DEF SaveOutputs
<1>20. ASSUME NEW r \in Ratios, ReadRecord(r)
      PROVE  RecordInv'
  BY <1>20 DEF ReadRecord
<1>21. ASSUME NEW r \in Ratios, WriteRecord(r)
      PROVE  RecordInv'
  BY <1>21 DEF WriteRecord
<1>22. ASSUME NEW r \in Ratios, RatioRow(r)
      PROVE  RecordInv'
  BY <1>22 DEF RatioRow
<1>23. ASSUME NEW r \in Ratios, TaskRaise(r)
      PROVE  RecordInv'
  BY <1>23 DEF TaskRaise
<1>24. CASE UNCHANGED vars
  BY <1>24 DEF vars
<1> QED
  BY <1>1, <1>2, <1>3, <1>4, <1>5, <1>6, <1>7, <1>8, <1>9, <1>10, <1>11,
     <1>12, <1>13, <1>14, <1>15, <1>16, <1>17, <1>18, <1>19, <1>20, <1>21, <1>22,
     <1>23, <1>24
     DEF Next, MainStep, TaskStep

\* Every step keeps the refund within what was quoted, and traced.
LEMMA RefundStep == TypeOK /\ RefundInv /\ [Next]_vars => RefundInv'
<1> SUFFICES ASSUME TypeOK, RefundInv, [Next]_vars
             PROVE  RefundInv'
  OBVIOUS
<1> USE DEF TypeOK, RefundInv, OwedIsReturnedOrCounted, MainBusy, TaskTo, wix, run,
            work, logs
<1>a. /\ RefundDue \in Nat /\ Quoted \in Nat /\ RefundDue <= Quoted
      /\ failed = {} \/ Quoted = 0 => RefundDue = 0
  BY DueBound, QuotedAssumption DEF TypeOK, QuotedAssumption
<1>b. failed' = failed => RefundDue' = RefundDue
  BY DEF RefundDue
<1>1. CASE Start
  BY <1>1, <1>a, <1>b DEF Start
<1>2. CASE StartRaise
  BY <1>2, <1>a, <1>b DEF StartRaise
<1>3. CASE StartMissing
  BY <1>3, <1>a, <1>b DEF StartMissing
<1>4. CASE FanOut
  BY <1>4, <1>a, <1>b DEF FanOut
<1>5. CASE Gather
  BY <1>5, <1>a, <1>b DEF Gather, StatusOf
<1>6. CASE GatherRaise
  BY <1>6, <1>a, <1>b DEF GatherRaise
<1>7. CASE Settle
  BY <1>7, <1>a, <1>b DEF Settle
<1>8. CASE RefundAcked
  BY <1>8, <1>a, <1>b DEF RefundAcked, Answered200, WixRefund, WixRefundHalf, WixInsertFails
<1>9. CASE RefundTransient
  BY <1>9, <1>a, <1>b DEF RefundTransient, WixRefund, WixRefundHalf, AfterTransient
<1>10. CASE RefundRejected
  BY <1>10, <1>a, <1>b DEF RefundRejected
<1>11. CASE RecordRefund
  BY <1>11, <1>a, <1>b DEF RecordRefund
<1>12. CASE RefundRow
  BY <1>12, <1>a, <1>b DEF RefundRow
<1>13. CASE CountFailure
  BY <1>13, <1>a, <1>b DEF CountFailure
<1>14. CASE MainRaise
  BY <1>14, <1>a, <1>b DEF MainRaise
<1>15. CASE TimeOut
  BY <1>15, <1>a, <1>b DEF TimeOut
<1>16. CASE Crash
  BY <1>16, <1>a, <1>b DEF Crash
<1>17. CASE GiveUp
  BY <1>17, <1>a, <1>b DEF GiveUp
<1>18. ASSUME NEW r \in Ratios, Pipeline(r)
      PROVE  RefundInv'
  BY <1>18, <1>a, <1>b DEF Pipeline
<1>19. ASSUME NEW r \in Ratios, SaveOutputs(r)
      PROVE  RefundInv'
  BY <1>19, <1>a, <1>b DEF SaveOutputs
<1>20. ASSUME NEW r \in Ratios, ReadRecord(r)
      PROVE  RefundInv'
  BY <1>20, <1>a, <1>b DEF ReadRecord
<1>21. ASSUME NEW r \in Ratios, WriteRecord(r)
      PROVE  RefundInv'
  BY <1>21, <1>a, <1>b DEF WriteRecord
<1>22. ASSUME NEW r \in Ratios, RatioRow(r)
      PROVE  RefundInv'
  BY <1>22, <1>a, <1>b DEF RatioRow
<1>23. ASSUME NEW r \in Ratios, TaskRaise(r)
      PROVE  RefundInv'
  BY <1>23, <1>a, <1>b DEF TaskRaise
<1>24. CASE UNCHANGED vars
  BY <1>24, <1>a, <1>b DEF vars
<1> QED
  BY <1>1, <1>2, <1>3, <1>4, <1>5, <1>6, <1>7, <1>8, <1>9, <1>10, <1>11,
     <1>12, <1>13, <1>14, <1>15, <1>16, <1>17, <1>18, <1>19, <1>20, <1>21, <1>22,
     <1>23, <1>24
     DEF Next, MainStep, TaskStep

\* Every step keeps the account of the first attempt.
LEMMA FirstStep == TypeOK /\ StageInv /\ RefundInv /\ FirstInv /\ [Next]_vars => FirstInv'
<1> SUFFICES ASSUME TypeOK, StageInv, RefundInv, FirstInv, [Next]_vars
             PROVE  FirstInv'
  OBVIOUS
<1> USE DEF TypeOK, StageInv, RefundInv, FirstInv, FirstAttempt,
            FirstAttemptSettlesExactly, AfterGather, TaskOver, MainBusy, Record, TaskTo,
            wix, run, work, logs
<1>a. /\ RefundDue \in Nat /\ Quoted \in Nat /\ RefundDue <= Quoted
      /\ failed = {} \/ Quoted = 0 => RefundDue = 0
  BY DueBound, QuotedAssumption DEF TypeOK, QuotedAssumption
<1>b. failed' = failed => RefundDue' = RefundDue
  BY DEF RefundDue
<1>1. CASE Start
  BY <1>1, <1>a, <1>b DEF Start
<1>2. CASE StartRaise
  BY <1>2, <1>a, <1>b DEF StartRaise
<1>3. CASE StartMissing
  BY <1>3, <1>a, <1>b DEF StartMissing
<1>4. CASE FanOut
  BY <1>4, <1>a, <1>b DEF FanOut
<1>5. CASE Gather
  BY <1>5, <1>a, <1>b DEF Gather, StatusOf
<1>6. CASE GatherRaise
  BY <1>6, <1>a, <1>b DEF GatherRaise
<1>7. CASE Settle
  BY <1>7, <1>a, <1>b DEF Settle
<1>8. CASE RefundAcked
  <2>1. /\ main = "refund" /\ main' = "recordRefund"
        /\ tries' = tries /\ rec' = rec /\ copy' = copy /\ RefundDue' = RefundDue
    BY <1>8, <1>b DEF RefundAcked
  <2>2. ~refundTx => returned = 0
    BY DEF TypeOK, RefundInv
  <2>3. returned' = returned \/ (~refundTx /\ returned' = returned + RefundDue)
    BY <1>8 DEF RefundAcked, Answered200, WixRefund, WixRefundHalf, WixInsertFails
  <2>4. returned' = returned \/ returned' = RefundDue
    BY <1>a, <2>2, <2>3
  <2>5. tries = 1 => returned \in {0, RefundDue}
    BY <2>1
  <2>6. tries = 1 => returned' \in {0, RefundDue}
    BY <2>4, <2>5
  <2> QED
    BY <2>1, <2>6
<1>9. CASE RefundTransient
  <2>1. /\ tries' = tries /\ rec' = rec /\ copy' = copy /\ task' = task
        /\ main' \in {"refund", "countFailure"} /\ RefundDue' = RefundDue
    BY <1>9, <1>b DEF RefundTransient, AfterTransient
  <2>2. refundTx' = TRUE \/ refundTx' = refundTx
    BY <1>9 DEF RefundTransient, WixRefund, WixRefundHalf
  <2>3. returned \in {0, RefundDue} \/ tries # 1
    BY <1>9 DEF RefundTransient
  <2>4. ~refundTx => returned = 0
    BY DEF TypeOK, RefundInv
  <2>5. returned' = returned \/ (~refundTx /\ returned' = returned + RefundDue)
    BY <1>9 DEF RefundTransient, WixRefund, WixRefundHalf
  <2>6. returned' = returned \/ returned' = RefundDue
    BY <2>4, <2>5, <1>a
  <2>7. tries = 1 => returned' \in {0, RefundDue}
    BY <2>3, <2>6
  <2> QED
    BY <1>9, <2>1, <2>2, <2>7 DEF RefundTransient
<1>10. CASE RefundRejected
  BY <1>10, <1>a, <1>b DEF RefundRejected
<1>11. CASE RecordRefund
  BY <1>11, <1>a, <1>b DEF RecordRefund
<1>12. CASE RefundRow
  BY <1>12, <1>a, <1>b DEF RefundRow
<1>13. CASE CountFailure
  BY <1>13, <1>a, <1>b DEF CountFailure
<1>14. CASE MainRaise
  BY <1>14, <1>a, <1>b DEF MainRaise
<1>15. CASE TimeOut
  BY <1>15, <1>a, <1>b DEF TimeOut
<1>16. CASE Crash
  BY <1>16, <1>a, <1>b DEF Crash
<1>17. CASE GiveUp
  BY <1>17, LimitsAssumption DEF GiveUp, LimitsAssumption
<1>18. ASSUME NEW r \in Ratios, Pipeline(r)
      PROVE  FirstInv'
  BY <1>18, <1>a, <1>b DEF Pipeline
<1>19. ASSUME NEW r \in Ratios, SaveOutputs(r)
      PROVE  FirstInv'
  BY <1>19, <1>a, <1>b DEF SaveOutputs
<1>20. ASSUME NEW r \in Ratios, ReadRecord(r)
      PROVE  FirstInv'
  BY <1>20, <1>a, <1>b DEF ReadRecord
<1>21. ASSUME NEW r \in Ratios, WriteRecord(r)
      PROVE  FirstInv'
  BY <1>21, <1>a, <1>b DEF WriteRecord
<1>22. ASSUME NEW r \in Ratios, RatioRow(r)
      PROVE  FirstInv'
  BY <1>22, <1>a, <1>b DEF RatioRow
<1>23. ASSUME NEW r \in Ratios, TaskRaise(r)
      PROVE  FirstInv'
  BY <1>23, <1>a, <1>b DEF TaskRaise
<1>24. CASE UNCHANGED vars
  BY <1>24, <1>a, <1>b DEF vars
<1> QED
  BY <1>1, <1>2, <1>3, <1>4, <1>5, <1>6, <1>7, <1>8, <1>9, <1>10, <1>11,
     <1>12, <1>13, <1>14, <1>15, <1>16, <1>17, <1>18, <1>19, <1>20, <1>21, <1>22,
     <1>23, <1>24
     DEF Next, MainStep, TaskStep

----------------------------------------------------------------------------
(* The record and its readers *)

\* The initial states satisfy RunInv.
LEMMA InitRunInv == Init => RunInv
BY DEF Init, RunInv, TaskBusy, MainBusy

\* Every step keeps RunInv.
LEMMA RunStep == IInv /\ RunInv /\ [Next]_vars => RunInv'
<1> SUFFICES ASSUME IInv, RunInv, [Next]_vars
             PROVE  RunInv'
  OBVIOUS
<1>0. TypeOK /\ StageInv /\ FirstInv
  BY DEF IInv
<1> USE DEF TypeOK, RunInv, Record, Terminal, MainBusy, TaskBusy, TaskOver, TaskTo,
            wix, run, work, logs
<1>a. MaxTries \in Nat \ {0} /\ tries \in Nat
  BY <1>0, LimitsAssumption DEF LimitsAssumption
<1>1. CASE Start
  BY <1>a, <1>0, <1>1 DEF Start
<1>2. CASE StartRaise
  BY <1>0, <1>2 DEF StartRaise
<1>3. CASE StartMissing
  BY <1>0, <1>3 DEF StartMissing
<1>4. CASE FanOut
  BY <1>0, <1>4 DEF FanOut, FirstInv
<1>5. CASE Gather
  BY <1>0, <1>5 DEF Gather, StatusOf
<1>6. CASE GatherRaise
  BY <1>0, <1>6 DEF GatherRaise
<1>7. CASE Settle
  BY <1>0, <1>7 DEF Settle
<1>8. CASE RefundAcked
  BY <1>0, <1>8 DEF RefundAcked
<1>9. CASE RefundTransient
  <2>1. /\ main = "refund" /\ main' \in {"refund", "countFailure"}
        /\ UNCHANGED <<rec, tries, task, outcome, copy, media>>
    BY <1>9 DEF RefundTransient, AfterTransient
  <2> QED
    BY <2>1
<1>10. CASE RefundRejected
  BY <1>0, <1>10 DEF RefundRejected
<1>11. CASE RecordRefund
  BY <1>0, <1>11 DEF RecordRefund
<1>12. CASE RefundRow
  BY <1>0, <1>12 DEF RefundRow
<1>13. CASE CountFailure
  BY <1>0, <1>13 DEF CountFailure
<1>14. CASE MainRaise
  BY <1>0, <1>14 DEF MainRaise
<1>15. CASE TimeOut
  BY <1>0, <1>15 DEF TimeOut
<1>16. CASE Crash
  BY <1>0, <1>16 DEF Crash, FirstInv
<1>17. CASE GiveUp
  BY <1>0, <1>17 DEF GiveUp
<1>18. ASSUME NEW r \in Ratios, Pipeline(r)
      PROVE  RunInv'
  BY <1>0, <1>18 DEF Pipeline
<1>19. ASSUME NEW r \in Ratios, SaveOutputs(r)
      PROVE  RunInv'
  BY <1>0, <1>19 DEF SaveOutputs, StageInv
<1>20. ASSUME NEW r \in Ratios, ReadRecord(r)
      PROVE  RunInv'
  BY <1>0, <1>20 DEF ReadRecord
<1>21. ASSUME NEW r \in Ratios, WriteRecord(r)
      PROVE  RunInv'
  BY <1>0, <1>21 DEF WriteRecord
<1>22. ASSUME NEW r \in Ratios, RatioRow(r)
      PROVE  RunInv'
  BY <1>0, <1>22 DEF RatioRow, StageInv
<1>23. ASSUME NEW r \in Ratios, TaskRaise(r)
      PROVE  RunInv'
  BY <1>0, <1>23 DEF TaskRaise
<1>24. CASE UNCHANGED vars
  BY <1>24 DEF vars
<1> QED
  BY <1>1, <1>2, <1>3, <1>4, <1>5, <1>6, <1>7, <1>8, <1>9, <1>10, <1>11,
     <1>12, <1>13, <1>14, <1>15, <1>16, <1>17, <1>18, <1>19, <1>20, <1>21, <1>22,
     <1>23, <1>24
     DEF Next, MainStep, TaskStep

\* The step of a first or a later attempt that sets the final status.
LEMMA GatherEnds == IInv /\ RunInv /\ Gather => J!End
<1> SUFFICES ASSUME IInv, RunInv, Gather
             PROVE  J!End
  OBVIOUS
<1>0. TypeOK /\ StageInv /\ RecordInv /\ FirstInv
  BY DEF IInv
<1>1. /\ rec.status = "running" /\ media' = media /\ tries' = tries /\ tries > 0
      /\ rec'.status = StatusOf(failed') /\ rec'.assets = rec.assets
  BY <1>0 DEF Gather, RunInv, TypeOK, FirstInv, Record, work
<1>2. /\ failed' = {r \in Ratios : task[r] = "failed"}
      /\ \A r \in Ratios : task[r] = "ok" \/ task[r] = "failed"
  BY DEF Gather, TaskOver
<1>3. \A r \in Ratios : r \notin failed' => r \in media
  BY <1>0, <1>2 DEF StageInv
<1>4. tries = 1 => \A r \in Ratios : r \in failed' => r \notin media
  BY <1>2 DEF RunInv
<1>5. media \subseteq Ratios /\ failed' \subseteq Ratios
  BY <1>0, <1>2 DEF TypeOK
<1>6. rec'.status \in J!Terminal
  BY <1>1 DEF StatusOf, J!Terminal
<1>7. rec'.status = "completed" => media = Ratios
  BY <1>1, <1>3, <1>5 DEF StatusOf
<1>8. Reruns = 0 => rec'.status = J!Outcome
  <2> SUFFICES ASSUME tries = 1
               PROVE  rec'.status = J!Outcome
    BY <1>0, <1>1 DEF TypeOK, Reruns
  <2>1. media = Ratios <=> failed' = {}
    BY <1>3, <1>4, <1>5
  <2>2. media = {} <=> failed' = Ratios
    BY <1>3, <1>4, <1>5
  <2> QED
    BY <1>1, <2>1, <2>2 DEF StatusOf, J!Outcome
<1>9. Shown' \in IF rec'.status = "failed" THEN {{}} ELSE SUBSET media
  BY <1>0, <1>1 DEF Shown, RecordInv, Backed
<1>10. UNCHANGED <<media, Reruns>>
  BY <1>1 DEF Reruns
<1> QED
  BY <1>1, <1>6, <1>7, <1>8, <1>9, <1>10 DEF J!End

\* Every step is one that JobRecord allows, or changes nothing a reader sees.
LEMMA RecordRefines == IInv /\ RunInv /\ [Next]_vars => [J!Next]_J!vars
<1> SUFFICES ASSUME IInv, RunInv, [Next]_vars
             PROVE  [J!Next]_J!vars
  OBVIOUS
<1>0. TypeOK /\ StageInv /\ RecordInv /\ FirstInv
  BY DEF IInv
<1>a. ASSUME rec'.status = rec.status, rec'.assets = rec.assets, media' = media,
             tries' = tries
      PROVE  [J!Next]_J!vars
  BY <1>a DEF J!vars, Shown, Reruns
<1>b. tries \in 0..MaxTries /\ MaxTries \in Nat \ {0}
  BY <1>0, LimitsAssumption DEF TypeOK, LimitsAssumption
<1>c. ASSUME main = "wait", tries < MaxTries, tries' = tries + 1
      PROVE  /\ tries = 0 => rec.status = "queued" /\ Reruns' = Reruns
             /\ tries # 0 => /\ rec.status # "queued"
                             /\ Reruns < MaxTries - 1 /\ Reruns' = Reruns + 1
  BY <1>b, <1>c DEF RunInv, Reruns
<1>1. CASE Start
  <2>1. /\ rec'.status = "running" /\ Shown' = {} /\ media' = media
        /\ main = "wait" /\ tries < MaxTries /\ tries' = tries + 1
    BY <1>0, <1>1 DEF Start, TypeOK, Record, Shown, work
  <2>2. rec.status = "queued" => Shown = {}
    BY DEF Shown
  <2>3. CASE tries = 0
    BY <1>c, <2>1, <2>2, <2>3 DEF J!Next, J!Start
  <2>4. CASE tries # 0
    BY <1>c, <2>1, <2>4 DEF J!Next, J!Rerun
  <2> QED
    BY <2>3, <2>4
<1>2. CASE StartRaise
  <2>1. /\ rec' = rec /\ Shown' = Shown /\ media' = media
        /\ main = "wait" /\ tries < MaxTries /\ tries' = tries + 1
    BY <1>2 DEF StartRaise, Shown, work
  <2>2. CASE tries = 0
    BY <1>c, <2>1, <2>2 DEF J!vars
  <2>3. CASE tries # 0
    BY <1>c, <2>1, <2>3 DEF J!Next, J!Rerun
  <2> QED
    BY <2>2, <2>3
<1>3. CASE StartMissing
  BY <1>0, <1>a, <1>3 DEF StartMissing, run, work
<1>4. CASE FanOut
  BY <1>0, <1>a, <1>4 DEF FanOut, run, work
<1>5. CASE Gather
  BY <1>5, GatherEnds DEF J!Next
<1>6. CASE GatherRaise
  BY <1>0, <1>a, <1>6 DEF GatherRaise, run, work
<1>7. CASE Settle
  BY <1>0, <1>a, <1>7 DEF Settle, run, work
<1>8. CASE RefundAcked
  BY <1>0, <1>a, <1>8 DEF RefundAcked, run, work
<1>9. CASE RefundTransient
  BY <1>0, <1>a, <1>9 DEF RefundTransient, run, work
<1>10. CASE RefundRejected
  BY <1>0, <1>a, <1>10 DEF RefundRejected, run, work
<1>11. CASE RecordRefund
  BY <1>0, <1>a, <1>11 DEF RecordRefund, run, work, TypeOK, Record
<1>12. CASE RefundRow
  BY <1>0, <1>a, <1>12 DEF RefundRow, run, work
<1>13. CASE CountFailure
  BY <1>0, <1>a, <1>13 DEF CountFailure, run, work
<1>14. CASE MainRaise
  BY <1>0, <1>a, <1>14 DEF MainRaise, run, work
<1>15. CASE TimeOut
  BY <1>0, <1>a, <1>15 DEF TimeOut, run, work
<1>16. CASE Crash
  BY <1>0, <1>a, <1>16 DEF Crash, run, work
<1>17. CASE GiveUp
  BY <1>0, <1>a, <1>17 DEF GiveUp, run, work
<1>18. ASSUME NEW r \in Ratios, Pipeline(r)
      PROVE  [J!Next]_J!vars
  BY <1>a, <1>18 DEF Pipeline, run
<1>19. ASSUME NEW r \in Ratios, SaveOutputs(r)
      PROVE  [J!Next]_J!vars
  <2>1. /\ rec.status = "running" /\ rec' = rec /\ Shown' = Shown
        /\ media' = media \cup {r} /\ tries' = tries
    BY <1>19 DEF SaveOutputs, RunInv, TaskBusy, Shown, run
  <2> QED
    BY <2>1 DEF J!Next, J!Store, Reruns
<1>20. ASSUME NEW r \in Ratios, ReadRecord(r)
      PROVE  [J!Next]_J!vars
  BY <1>a, <1>20 DEF ReadRecord, run
<1>21. ASSUME NEW r \in Ratios, WriteRecord(r)
      PROVE  [J!Next]_J!vars
  <2>1. /\ rec.status = "running" /\ copy[r].status = "running" /\ media' = media
        /\ tries' = tries /\ rec' = [copy[r] EXCEPT !.assets[r] = outcome[r]]
        /\ copy[r] \in Record
    BY <1>0, <1>21 DEF WriteRecord, RunInv, TypeOK, TaskBusy, work, run
  <2>2. rec'.status = "running"
    BY <2>1 DEF Record
  <2>3. Shown = {} /\ Shown' = {}
    BY <2>1, <2>2 DEF Shown
  <2> QED
    BY <2>1, <2>2, <2>3 DEF J!vars, Reruns
<1>22. ASSUME NEW r \in Ratios, RatioRow(r)
      PROVE  [J!Next]_J!vars
  BY <1>a, <1>22 DEF RatioRow, run
<1>23. ASSUME NEW r \in Ratios, TaskRaise(r)
      PROVE  [J!Next]_J!vars
  BY <1>a, <1>23 DEF TaskRaise, run
<1>24. CASE UNCHANGED vars
  BY <1>a, <1>24 DEF vars, run, work
<1> QED
  BY <1>1, <1>2, <1>3, <1>4, <1>5, <1>6, <1>7, <1>8, <1>9, <1>10, <1>11,
     <1>12, <1>13, <1>14, <1>15, <1>16, <1>17, <1>18, <1>19, <1>20, <1>21, <1>22,
     <1>23, <1>24
     DEF Next, MainStep, TaskStep

----------------------------------------------------------------------------
(* The theorems *)

\* IInv is an invariant, for every set of ratios and every selection of faults.
THEOREM Invariance == Spec => []IInv
<1>1. IInv /\ [Next]_vars => IInv'
  BY TypeStep, StageStep, RecordStep, RefundStep, FirstStep DEF IInv
<1> QED
  BY InitIInv, <1>1, PTL DEF Spec

\* Every variable keeps to its type; the refund is posted at most MaxPosts times.
THEOREM TypeCorrect == Spec => []TypeOK
<1>1. IInv => TypeOK
  BY DEF IInv
<1> QED
  BY Invariance, <1>1, PTL

\* However often the job is run and the refund posted, Wix returns no more than
\* it decremented, and only with its row.
THEOREM NoOverRefund == Spec => []NeverOverRefunded
<1>1. IInv => NeverOverRefunded
  BY DEF IInv, RefundInv, NeverOverRefunded
<1> QED
  BY Invariance, <1>1, PTL

\* No report of a refund that Wix has not taken up, not even by a ratio that
\* writes back an old copy of the record.
THEOREM RefundsReported == Spec => []ReportedRefundIsReal
<1>1. IInv => ReportedRefundIsReal
  BY DEF IInv, RecordInv, RefundInv, Backed, ReportedRefundIsReal
<1> QED
  BY Invariance, <1>1, PTL

\* No version of the record shows as completed what has no files.
THEOREM MediaBehindAssets == Spec => []CompletedHasMedia
<1>1. IInv => CompletedHasMedia
  BY DEF IInv, RecordInv, Backed, CompletedHasMedia
<1> QED
  BY Invariance, <1>1, PTL

\* A finished attempt has got its refund to Wix or has counted it as failed.
THEOREM DebtTraced == Spec => []OwedIsReturnedOrCounted
<1>1. IInv => OwedIsReturnedOrCounted
  BY DEF IInv, RefundInv
<1> QED
  BY Invariance, <1>1, PTL

\* A first attempt that ends without a failed refund returns and reports exactly
\* what its failed ratios cost, up to the quote.
THEOREM ExactSettlement == Spec => []FirstAttemptSettlesExactly
<1>1. IInv => FirstAttemptSettlesExactly
  BY DEF IInv, FirstInv
<1> QED
  BY Invariance, <1>1, PTL

\* Whoever reads a job's record may rely on JobRecord, however the ratios
\* overwrite each other and however often the worker dies.
THEOREM ImplementsRecord == Spec => KeepsRecord
<1>1. Init => J!Init
  BY DEF Init, J!Init, Shown, Reruns
<1>2. IInv /\ RunInv /\ [Next]_vars => RunInv' /\ [J!Next]_J!vars
  BY RunStep, RecordRefines
<1> QED
  BY Invariance, InitRunInv, <1>1, <1>2, PTL DEF Spec, KeepsRecord, J!Spec
============================================================================
