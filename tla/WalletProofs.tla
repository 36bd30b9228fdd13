---------------------------- MODULE WalletProofs ----------------------------
(***************************************************************************)
(* Proofs about Wallet for every number of calls, rows and amounts and for *)
(* every kind of fault.                                                    *)
(***************************************************************************)
EXTENDS Wallet, TLAPS

\* The row of a credit is there and its amount is not on the balance yet; the
\* amount of a spend is off the balance and its row not there yet.
Crediting(c) == Kind[c] = "credit" /\ pc[c] \in {"read", "write"}
Pending(c)   == Crediting(c) \/ pc[c] = "insert"

\* The balance read by a spend that goes on covers it; a call that still waits
\* has an attempt left; the branches of grant and spend are not mixed.
CallInv ==
    \A c \in Calls :
        /\ pc[c] \in Waiting \cup {"idle"} => tries[c] < Attempts
        /\ pc[c] = "write" /\ Kind[c] = "spend" => Credits[Row[c]] <= read[c]
        /\ pc[c] \in {"claim", "note"} => Kind[c] = "credit"
        /\ pc[c] \in {"check", "insert"} => Kind[c] = "spend"

\* While the timing holds, whoever is inside owns the document, a stale document
\* belongs to nobody inside, and an eviction under way hits no one's document.
LockInv ==
    /\ stale => lock # None
    /\ timely =>
        /\ \A c \in Calls : pc[c] \in Holding => lock = c
        /\ stale => pc[lock] \notin Holding
        /\ \A c \in Calls : pc[c] = "evict" => lock = None \/ stale

\* A credit on its way to the balance has its row, alone, and was not added yet.
CreditInv ==
    /\ \A x \in Rows : added[x] <= 1 /\ (x \notin txs => added[x] = 0)
    /\ \A c \in Calls : Crediting(c) => Row[c] \in txs /\ added[Row[c]] = 0
    /\ \A c, d \in Calls : Crediting(c) /\ Crediting(d) /\ Row[c] = Row[d] => c = d

\* What the ledger is ahead of the balance, at every point of a call.
BackedInv ==
    timely =>
        /\ balance <= ledger
        /\ \A c \in Calls : Pending(c) => balance + Credits[Row[c]] <= ledger
        /\ \A c \in Calls : pc[c] = "write" => read[c] <= balance

\* Without a fault the ledger is ahead by the amount of the call under way.
AuditInv ==
    timely /\ faults = 0 =>
        /\ (\A c \in Calls : ~Pending(c)) => balance = ledger
        /\ \A c \in Calls : Pending(c) => balance + Credits[Row[c]] = ledger
        /\ \A c \in Calls : pc[c] = "write" => read[c] = balance
        /\ \A c \in Calls : Kind[c] = "spend" /\ pc[c] \in {"read", "write", "insert"}
               => Row[c] \notin txs

\* Who is about to write has seen the balance as it still is, or could not.
SeenInv == timely => \A c \in Calls : pc[c] = "write" => read[c] \in {balance, A!Unread}

IInv == TypeOK /\ CallInv /\ LockInv /\ CreditInv /\ BackedInv /\ AuditInv /\ SeenInv

----------------------------------------------------------------------------
(* The types *)

\* What the constants give every call.
LEMMA AmountType ==
    \A c \in Calls : /\ Kind[c] \in {"credit", "spend"}
                     /\ Row[c] \in Rows
                     /\ Credits[Row[c]] \in Nat
                     /\ Credits[Row[c]] > 0
<1>1. Kind \in [Calls -> {"credit", "spend"}] /\ Row \in [Calls -> Rows]
      /\ Credits \in [Rows -> Nat \ {0}]
  BY CallsAssumption DEF CallsAssumption
<1> QED
  BY <1>1

\* The initial states satisfy IInv.
LEMMA InitIInv == Init => IInv
<1> SUFFICES ASSUME Init
             PROVE  IInv
  OBVIOUS
<1> USE DEF Init
<1>a. StartBalance \in Nat /\ Attempts \in Nat \ {0} /\ MaxFaults \in Nat
  BY CallsAssumption, LimitsAssumption DEF CallsAssumption, LimitsAssumption
<1>1. TypeOK
  <2>1. 0 \in 0..Attempts /\ 0 \in 0..MaxFaults
    BY <1>a
  <2>2. tries \in [Calls -> 0..Attempts] /\ faults \in 0..MaxFaults
    BY <2>1
  <2>3. read \in [Calls -> Nat] /\ added \in [Rows -> Nat] /\ ledger \in Int
    BY <1>a
  <2>4. pc \in [Calls -> Waiting \cup Holding \cup {"idle", "done", "dead"}]
    OBVIOUS
  <2> QED
    BY <1>a, <2>2, <2>3, <2>4 DEF TypeOK
<1>2. CallInv
  BY <1>a DEF CallInv
<1>3. LockInv
  BY DEF LockInv, Holding
<1>4. CreditInv
  BY AmountType DEF CreditInv, Crediting
<1>5. BackedInv
  BY <1>a DEF BackedInv, Crediting, Pending
<1>6. AuditInv
  BY DEF AuditInv, Crediting, Pending
<1>7. SeenInv
  BY DEF SeenInv
<1> QED
  BY <1>1, <1>2, <1>3, <1>4, <1>5, <1>6, <1>7 DEF IInv

\* Every step keeps the types.
LEMMA TypeStep == TypeOK /\ CallInv /\ [Next]_vars => TypeOK'
<1> SUFFICES ASSUME TypeOK, CallInv, [Next]_vars
             PROVE  TypeOK'
  OBVIOUS
<1> USE DEF TypeOK, CallInv, Waiting, Holding, GoTo, lockdoc, money, clock
<1>a. Attempts \in Nat \ {0} /\ MaxFaults \in Nat
  BY LimitsAssumption DEF LimitsAssumption
<1>1. ASSUME NEW c \in Calls, Call(c)
      PROVE  TypeOK'
  BY <1>1, <1>a, AmountType DEF Call
<1>2. ASSUME NEW c \in Calls, Acquire(c)
      PROVE  TypeOK'
  BY <1>2, <1>a, AmountType DEF Acquire, FirstStep, Evicting
<1>3. ASSUME NEW c \in Calls, ReadLock(c)
      PROVE  TypeOK'
  BY <1>3, <1>a, AmountType DEF ReadLock
<1>4. ASSUME NEW c \in Calls, Evict(c)
      PROVE  TypeOK'
  BY <1>4, <1>a, AmountType DEF Evict
<1>5. ASSUME NEW c \in Calls, BackOff(c)
      PROVE  TypeOK'
  BY <1>5, <1>a, AmountType DEF BackOff
<1>6. ASSUME NEW c \in Calls, Release(c)
      PROVE  TypeOK'
  BY <1>6, <1>a, AmountType DEF Release
<1>7. ASSUME NEW c \in Calls, ClaimRow(c)
      PROVE  TypeOK'
  BY <1>7, <1>a, AmountType DEF ClaimRow
<1>8. ASSUME NEW c \in Calls, AddCredits(c)
      PROVE  TypeOK'
  BY <1>8, <1>a, AmountType DEF AddCredits
<1>9. ASSUME NEW c \in Calls, NoteBalance(c)
      PROVE  TypeOK'
  BY <1>9, <1>a, AmountType DEF NoteBalance
<1>10. ASSUME NEW c \in Calls, CheckRow(c)
      PROVE  TypeOK'
  BY <1>10, <1>a, AmountType DEF CheckRow
<1>11. ASSUME NEW c \in Calls, TakeCredits(c)
      PROVE  TypeOK'
  BY <1>11, <1>a, AmountType DEF TakeCredits
<1>12. ASSUME NEW c \in Calls, InsertRow(c)
      PROVE  TypeOK'
  BY <1>12, <1>a, AmountType DEF InsertRow
<1>13. ASSUME NEW c \in Calls, ReadBalance(c)
      PROVE  TypeOK'
  BY <1>13, <1>a, AmountType DEF ReadBalance, AfterRead
<1>14. ASSUME NEW c \in Calls, WaitFails(c)
      PROVE  TypeOK'
  BY <1>14, <1>a, AmountType DEF WaitFails, Failing
<1>15. ASSUME NEW c \in Calls, ReleaseFails(c)
      PROVE  TypeOK'
  BY <1>15, <1>a, AmountType DEF ReleaseFails, Failing
<1>16. ASSUME NEW c \in Calls, ClaimRowFails(c)
      PROVE  TypeOK'
  BY <1>16, <1>a, AmountType DEF ClaimRowFails, Failing
<1>17. ASSUME NEW c \in Calls, CheckRowFails(c)
      PROVE  TypeOK'
  BY <1>17, <1>a, AmountType DEF CheckRowFails, Failing
<1>18. ASSUME NEW c \in Calls, ReadBalanceFails(c)
      PROVE  TypeOK'
  BY <1>18, <1>a, AmountType DEF ReadBalanceFails, AfterRead, Failing
<1>19. ASSUME NEW c \in Calls, WriteFails(c)
      PROVE  TypeOK'
  BY <1>19, <1>a, AmountType DEF WriteFails, Failing
<1>20. ASSUME NEW c \in Calls, Crash(c)
      PROVE  TypeOK'
  BY <1>20, <1>a, AmountType DEF Crash
<1>21. CASE TurnStale
  BY <1>21, <1>a, AmountType DEF TurnStale
<1>22. CASE UNCHANGED vars
  BY <1>22 DEF vars
<1> QED
  BY <1>1, <1>2, <1>3, <1>4, <1>5, <1>6, <1>7, <1>8, <1>9, <1>10, <1>11,
     <1>12, <1>13, <1>14, <1>15, <1>16, <1>17, <1>18, <1>19, <1>20, <1>21, <1>22
     DEF Next, Step, Fail

\* Every step keeps each call's local facts.
LEMMA CallStep == TypeOK /\ CallInv /\ [Next]_vars => CallInv'
<1> SUFFICES ASSUME TypeOK, CallInv, [Next]_vars
             PROVE  CallInv'
  OBVIOUS
<1> USE DEF TypeOK, CallInv, Waiting, Holding, GoTo, lockdoc, money, clock
<1>a. Attempts \in Nat \ {0}
  BY LimitsAssumption DEF LimitsAssumption
<1>1. ASSUME NEW c \in Calls, Call(c)
      PROVE  CallInv'
  BY <1>1, <1>a, AmountType DEF Call
<1>2. ASSUME NEW c \in Calls, Acquire(c)
      PROVE  CallInv'
  BY <1>2, <1>a, AmountType DEF Acquire, FirstStep, Evicting
<1>3. ASSUME NEW c \in Calls, ReadLock(c)
      PROVE  CallInv'
  BY <1>3, <1>a, AmountType DEF ReadLock
<1>4. ASSUME NEW c \in Calls, Evict(c)
      PROVE  CallInv'
  BY <1>4, <1>a, AmountType DEF Evict
<1>5. ASSUME NEW c \in Calls, BackOff(c)
      PROVE  CallInv'
  BY <1>5, <1>a, AmountType DEF BackOff
<1>6. ASSUME NEW c \in Calls, Release(c)
      PROVE  CallInv'
  BY <1>6, <1>a, AmountType DEF Release
<1>7. ASSUME NEW c \in Calls, ClaimRow(c)
      PROVE  CallInv'
  BY <1>7, <1>a, AmountType DEF ClaimRow
<1>8. ASSUME NEW c \in Calls, AddCredits(c)
      PROVE  CallInv'
  BY <1>8, <1>a, AmountType DEF AddCredits
<1>9. ASSUME NEW c \in Calls, NoteBalance(c)
      PROVE  CallInv'
  BY <1>9, <1>a, AmountType DEF NoteBalance
<1>10. ASSUME NEW c \in Calls, CheckRow(c)
      PROVE  CallInv'
  BY <1>10, <1>a, AmountType DEF CheckRow
<1>11. ASSUME NEW c \in Calls, TakeCredits(c)
      PROVE  CallInv'
  BY <1>11, <1>a, AmountType DEF TakeCredits
<1>12. ASSUME NEW c \in Calls, InsertRow(c)
      PROVE  CallInv'
  BY <1>12, <1>a, AmountType DEF InsertRow
<1>13. ASSUME NEW c \in Calls, ReadBalance(c)
      PROVE  CallInv'
  BY <1>13, <1>a, AmountType DEF ReadBalance, AfterRead
<1>14. ASSUME NEW c \in Calls, WaitFails(c)
      PROVE  CallInv'
  BY <1>14, <1>a, AmountType DEF WaitFails, Failing
<1>15. ASSUME NEW c \in Calls, ReleaseFails(c)
      PROVE  CallInv'
  BY <1>15, <1>a, AmountType DEF ReleaseFails, Failing
<1>16. ASSUME NEW c \in Calls, ClaimRowFails(c)
      PROVE  CallInv'
  BY <1>16, <1>a, AmountType DEF ClaimRowFails, Failing
<1>17. ASSUME NEW c \in Calls, CheckRowFails(c)
      PROVE  CallInv'
  BY <1>17, <1>a, AmountType DEF CheckRowFails, Failing
<1>18. ASSUME NEW c \in Calls, ReadBalanceFails(c)
      PROVE  CallInv'
  BY <1>18, <1>a, AmountType DEF ReadBalanceFails, AfterRead, Failing
<1>19. ASSUME NEW c \in Calls, WriteFails(c)
      PROVE  CallInv'
  BY <1>19, <1>a, AmountType DEF WriteFails, Failing
<1>20. ASSUME NEW c \in Calls, Crash(c)
      PROVE  CallInv'
  BY <1>20, <1>a, AmountType DEF Crash
<1>21. CASE TurnStale
  BY <1>21, <1>a, AmountType DEF TurnStale
<1>22. CASE UNCHANGED vars
  BY <1>22 DEF vars
<1> QED
  BY <1>1, <1>2, <1>3, <1>4, <1>5, <1>6, <1>7, <1>8, <1>9, <1>10, <1>11,
     <1>12, <1>13, <1>14, <1>15, <1>16, <1>17, <1>18, <1>19, <1>20, <1>21, <1>22
     DEF Next, Step, Fail

----------------------------------------------------------------------------
(* The lock *)

\* Every step keeps the lock's discipline, or ends the timing assumption.
LEMMA LockStep == TypeOK /\ LockInv /\ [Next]_vars => LockInv'
<1> SUFFICES ASSUME TypeOK, LockInv, [Next]_vars
             PROVE  LockInv'
  OBVIOUS
<1> USE DEF TypeOK, LockInv, Waiting, Holding, GoTo, lockdoc, money, clock
<1>1. ASSUME NEW c \in Calls, Call(c)
      PROVE  LockInv'
  BY <1>1, NoneAssumption DEF Call
<1>2. ASSUME NEW c \in Calls, Acquire(c)
      PROVE  LockInv'
  BY <1>2, NoneAssumption DEF Acquire, FirstStep, Evicting
<1>3. ASSUME NEW c \in Calls, ReadLock(c)
      PROVE  LockInv'
  BY <1>3, NoneAssumption DEF ReadLock
<1>4. ASSUME NEW c \in Calls, Evict(c)
      PROVE  LockInv'
  BY <1>4, NoneAssumption DEF Evict
<1>5. ASSUME NEW c \in Calls, BackOff(c)
      PROVE  LockInv'
  BY <1>5, NoneAssumption DEF BackOff
<1>6. ASSUME NEW c \in Calls, Release(c)
      PROVE  LockInv'
  BY <1>6, NoneAssumption DEF Release
<1>7. ASSUME NEW c \in Calls, ClaimRow(c)
      PROVE  LockInv'
  BY <1>7, NoneAssumption DEF ClaimRow
<1>8. ASSUME NEW c \in Calls, AddCredits(c)
      PROVE  LockInv'
  BY <1>8, NoneAssumption DEF AddCredits
<1>9. ASSUME NEW c \in Calls, NoteBalance(c)
      PROVE  LockInv'
  BY <1>9, NoneAssumption DEF NoteBalance
<1>10. ASSUME NEW c \in Calls, CheckRow(c)
      PROVE  LockInv'
  BY <1>10, NoneAssumption DEF CheckRow
<1>11. ASSUME NEW c \in Calls, TakeCredits(c)
      PROVE  LockInv'
  BY <1>11, NoneAssumption DEF TakeCredits
<1>12. ASSUME NEW c \in Calls, InsertRow(c)
      PROVE  LockInv'
  BY <1>12, NoneAssumption DEF InsertRow
<1>13. ASSUME NEW c \in Calls, ReadBalance(c)
      PROVE  LockInv'
  BY <1>13, NoneAssumption DEF ReadBalance, AfterRead
<1>14. ASSUME NEW c \in Calls, WaitFails(c)
      PROVE  LockInv'
  BY <1>14, NoneAssumption DEF WaitFails, Failing
<1>15. ASSUME NEW c \in Calls, ReleaseFails(c)
      PROVE  LockInv'
  BY <1>15, NoneAssumption DEF ReleaseFails, Failing
<1>16. ASSUME NEW c \in Calls, ClaimRowFails(c)
      PROVE  LockInv'
  BY <1>16, NoneAssumption DEF ClaimRowFails, Failing
<1>17. ASSUME NEW c \in Calls, CheckRowFails(c)
      PROVE  LockInv'
  BY <1>17, NoneAssumption DEF CheckRowFails, Failing
<1>18. ASSUME NEW c \in Calls, ReadBalanceFails(c)
      PROVE  LockInv'
  BY <1>18, NoneAssumption DEF ReadBalanceFails, AfterRead, Failing
<1>19. ASSUME NEW c \in Calls, WriteFails(c)
      PROVE  LockInv'
  BY <1>19, NoneAssumption DEF WriteFails, Failing
<1>20. ASSUME NEW c \in Calls, Crash(c)
      PROVE  LockInv'
  BY <1>20, NoneAssumption DEF Crash
<1>21. CASE TurnStale
  BY <1>21, NoneAssumption DEF TurnStale
<1>22. CASE UNCHANGED vars
  BY <1>22 DEF vars
<1> QED
  BY <1>1, <1>2, <1>3, <1>4, <1>5, <1>6, <1>7, <1>8, <1>9, <1>10, <1>11,
     <1>12, <1>13, <1>14, <1>15, <1>16, <1>17, <1>18, <1>19, <1>20, <1>21, <1>22
     DEF Next, Step, Fail

----------------------------------------------------------------------------
(* The money *)

\* Every step keeps the claim of a credit's row exclusive.
LEMMA CreditStep == TypeOK /\ CallInv /\ CreditInv /\ [Next]_vars => CreditInv'
<1> SUFFICES ASSUME TypeOK, CallInv, CreditInv, [Next]_vars
             PROVE  CreditInv'
  OBVIOUS
<1> USE DEF TypeOK, CallInv, CreditInv, Crediting, Waiting, Holding, GoTo, lockdoc,
            money, clock
<1>1. ASSUME NEW c \in Calls, Call(c)
      PROVE  CreditInv'
  BY <1>1, AmountType DEF Call
<1>2. ASSUME NEW c \in Calls, Acquire(c)
      PROVE  CreditInv'
  BY <1>2, AmountType DEF Acquire, FirstStep, Evicting
<1>3. ASSUME NEW c \in Calls, ReadLock(c)
      PROVE  CreditInv'
  BY <1>3, AmountType DEF ReadLock
<1>4. ASSUME NEW c \in Calls, Evict(c)
      PROVE  CreditInv'
  BY <1>4, AmountType DEF Evict
<1>5. ASSUME NEW c \in Calls, BackOff(c)
      PROVE  CreditInv'
  BY <1>5, AmountType DEF BackOff
<1>6. ASSUME NEW c \in Calls, Release(c)
      PROVE  CreditInv'
  BY <1>6, AmountType DEF Release
<1>7. ASSUME NEW c \in Calls, ClaimRow(c)
      PROVE  CreditInv'
  BY <1>7, AmountType DEF ClaimRow
<1>8. ASSUME NEW c \in Calls, AddCredits(c)
      PROVE  CreditInv'
  BY <1>8, AmountType DEF AddCredits
<1>9. ASSUME NEW c \in Calls, NoteBalance(c)
      PROVE  CreditInv'
  BY <1>9, AmountType DEF NoteBalance
<1>10. ASSUME NEW c \in Calls, CheckRow(c)
      PROVE  CreditInv'
  BY <1>10, AmountType DEF CheckRow
<1>11. ASSUME NEW c \in Calls, TakeCredits(c)
      PROVE  CreditInv'
  BY <1>11, AmountType DEF TakeCredits
<1>12. ASSUME NEW c \in Calls, InsertRow(c)
      PROVE  CreditInv'
  BY <1>12, AmountType DEF InsertRow
<1>13. ASSUME NEW c \in Calls, ReadBalance(c)
      PROVE  CreditInv'
  BY <1>13, AmountType DEF ReadBalance, AfterRead
<1>14. ASSUME NEW c \in Calls, WaitFails(c)
      PROVE  CreditInv'
  BY <1>14, AmountType DEF WaitFails, Failing
<1>15. ASSUME NEW c \in Calls, ReleaseFails(c)
      PROVE  CreditInv'
  BY <1>15, AmountType DEF ReleaseFails, Failing
<1>16. ASSUME NEW c \in Calls, ClaimRowFails(c)
      PROVE  CreditInv'
  BY <1>16, AmountType DEF ClaimRowFails, Failing
<1>17. ASSUME NEW c \in Calls, CheckRowFails(c)
      PROVE  CreditInv'
  BY <1>17, AmountType DEF CheckRowFails, Failing
<1>18. ASSUME NEW c \in Calls, ReadBalanceFails(c)
      PROVE  CreditInv'
  BY <1>18, AmountType DEF ReadBalanceFails, AfterRead, Failing
<1>19. ASSUME NEW c \in Calls, WriteFails(c)
      PROVE  CreditInv'
  BY <1>19, AmountType DEF WriteFails, Failing
<1>20. ASSUME NEW c \in Calls, Crash(c)
      PROVE  CreditInv'
  BY <1>20, AmountType DEF Crash
<1>21. CASE TurnStale
  BY <1>21, AmountType DEF TurnStale
<1>22. CASE UNCHANGED vars
  BY <1>22 DEF vars
<1> QED
  BY <1>1, <1>2, <1>3, <1>4, <1>5, <1>6, <1>7, <1>8, <1>9, <1>10, <1>11,
     <1>12, <1>13, <1>14, <1>15, <1>16, <1>17, <1>18, <1>19, <1>20, <1>21, <1>22
     DEF Next, Step, Fail

\* Every step keeps the balance backed by the ledger.
LEMMA BackedStep == TypeOK /\ CallInv /\ LockInv /\ BackedInv /\ [Next]_vars => BackedInv'
<1> SUFFICES ASSUME TypeOK, CallInv, LockInv, BackedInv, [Next]_vars
             PROVE  BackedInv'
  OBVIOUS
<1> USE DEF TypeOK, CallInv, LockInv, BackedInv, Crediting, Pending, Waiting, Holding,
            GoTo, lockdoc, money, clock
<1>1. ASSUME NEW c \in Calls, Call(c)
      PROVE  BackedInv'
  BY <1>1, AmountType, NoneAssumption DEF Call
<1>2. ASSUME NEW c \in Calls, Acquire(c)
      PROVE  BackedInv'
  BY <1>2, AmountType, NoneAssumption DEF Acquire, FirstStep, Evicting
<1>3. ASSUME NEW c \in Calls, ReadLock(c)
      PROVE  BackedInv'
  BY <1>3, AmountType, NoneAssumption DEF ReadLock
<1>4. ASSUME NEW c \in Calls, Evict(c)
      PROVE  BackedInv'
  BY <1>4, AmountType, NoneAssumption DEF Evict
<1>5. ASSUME NEW c \in Calls, BackOff(c)
      PROVE  BackedInv'
  BY <1>5, AmountType, NoneAssumption DEF BackOff
<1>6. ASSUME NEW c \in Calls, Release(c)
      PROVE  BackedInv'
  BY <1>6, AmountType, NoneAssumption DEF Release
<1>7. ASSUME NEW c \in Calls, ClaimRow(c)
      PROVE  BackedInv'
  BY <1>7, AmountType, NoneAssumption DEF ClaimRow
<1>8. ASSUME NEW c \in Calls, AddCredits(c)
      PROVE  BackedInv'
  BY <1>8, AmountType, NoneAssumption DEF AddCredits
<1>9. ASSUME NEW c \in Calls, NoteBalance(c)
      PROVE  BackedInv'
  BY <1>9, AmountType, NoneAssumption DEF NoteBalance
<1>10. ASSUME NEW c \in Calls, CheckRow(c)
      PROVE  BackedInv'
  BY <1>10, AmountType, NoneAssumption DEF CheckRow
<1>11. ASSUME NEW c \in Calls, TakeCredits(c)
      PROVE  BackedInv'
  BY <1>11, AmountType, NoneAssumption DEF TakeCredits
<1>12. ASSUME NEW c \in Calls, InsertRow(c)
      PROVE  BackedInv'
  BY <1>12, AmountType, NoneAssumption DEF InsertRow
<1>13. ASSUME NEW c \in Calls, ReadBalance(c)
      PROVE  BackedInv'
  BY <1>13, AmountType, NoneAssumption DEF ReadBalance, AfterRead
<1>14. ASSUME NEW c \in Calls, WaitFails(c)
      PROVE  BackedInv'
  BY <1>14, AmountType, NoneAssumption DEF WaitFails, Failing
<1>15. ASSUME NEW c \in Calls, ReleaseFails(c)
      PROVE  BackedInv'
  BY <1>15, AmountType, NoneAssumption DEF ReleaseFails, Failing
<1>16. ASSUME NEW c \in Calls, ClaimRowFails(c)
      PROVE  BackedInv'
  BY <1>16, AmountType, NoneAssumption DEF ClaimRowFails, Failing
<1>17. ASSUME NEW c \in Calls, CheckRowFails(c)
      PROVE  BackedInv'
  BY <1>17, AmountType, NoneAssumption DEF CheckRowFails, Failing
<1>18. ASSUME NEW c \in Calls, ReadBalanceFails(c)
      PROVE  BackedInv'
  BY <1>18, AmountType, NoneAssumption DEF ReadBalanceFails, AfterRead, Failing
<1>19. ASSUME NEW c \in Calls, WriteFails(c)
      PROVE  BackedInv'
  BY <1>19, AmountType, NoneAssumption DEF WriteFails, Failing
<1>20. ASSUME NEW c \in Calls, Crash(c)
      PROVE  BackedInv'
  BY <1>20, AmountType, NoneAssumption DEF Crash
<1>21. CASE TurnStale
  BY <1>21, AmountType, NoneAssumption DEF TurnStale
<1>22. CASE UNCHANGED vars
  BY <1>22 DEF vars
<1> QED
  BY <1>1, <1>2, <1>3, <1>4, <1>5, <1>6, <1>7, <1>8, <1>9, <1>10, <1>11,
     <1>12, <1>13, <1>14, <1>15, <1>16, <1>17, <1>18, <1>19, <1>20, <1>21, <1>22
     DEF Next, Step, Fail

\* Every step without a fault keeps the account of the call under way.
LEMMA AuditStep == TypeOK /\ CallInv /\ LockInv /\ AuditInv /\ [Next]_vars => AuditInv'
<1> SUFFICES ASSUME TypeOK, CallInv, LockInv, AuditInv, [Next]_vars
             PROVE  AuditInv'
  OBVIOUS
<1> USE DEF TypeOK, CallInv, LockInv, AuditInv, Crediting, Pending, Waiting, Holding,
            GoTo, lockdoc, money, clock
<1>1. ASSUME NEW c \in Calls, Call(c)
      PROVE  AuditInv'
  BY <1>1, AmountType, NoneAssumption DEF Call
<1>2. ASSUME NEW c \in Calls, Acquire(c)
      PROVE  AuditInv'
  BY <1>2, AmountType, NoneAssumption DEF Acquire, FirstStep, Evicting
<1>3. ASSUME NEW c \in Calls, ReadLock(c)
      PROVE  AuditInv'
  BY <1>3, AmountType, NoneAssumption DEF ReadLock
<1>4. ASSUME NEW c \in Calls, Evict(c)
      PROVE  AuditInv'
  BY <1>4, AmountType, NoneAssumption DEF Evict
<1>5. ASSUME NEW c \in Calls, BackOff(c)
      PROVE  AuditInv'
  BY <1>5, AmountType, NoneAssumption DEF BackOff
<1>6. ASSUME NEW c \in Calls, Release(c)
      PROVE  AuditInv'
  BY <1>6, AmountType, NoneAssumption DEF Release
<1>7. ASSUME NEW c \in Calls, ClaimRow(c)
      PROVE  AuditInv'
  BY <1>7, AmountType, NoneAssumption DEF ClaimRow
<1>8. ASSUME NEW c \in Calls, AddCredits(c)
      PROVE  AuditInv'
  BY <1>8, AmountType, NoneAssumption DEF AddCredits
<1>9. ASSUME NEW c \in Calls, NoteBalance(c)
      PROVE  AuditInv'
  BY <1>9, AmountType, NoneAssumption DEF NoteBalance
<1>10. ASSUME NEW c \in Calls, CheckRow(c)
      PROVE  AuditInv'
  BY <1>10, AmountType, NoneAssumption DEF CheckRow
<1>11. ASSUME NEW c \in Calls, TakeCredits(c)
      PROVE  AuditInv'
  BY <1>11, AmountType, NoneAssumption DEF TakeCredits
<1>12. ASSUME NEW c \in Calls, InsertRow(c)
      PROVE  AuditInv'
  BY <1>12, AmountType, NoneAssumption DEF InsertRow
<1>13. ASSUME NEW c \in Calls, ReadBalance(c)
      PROVE  AuditInv'
  BY <1>13, AmountType, NoneAssumption DEF ReadBalance, AfterRead
<1>14. ASSUME NEW c \in Calls, WaitFails(c)
      PROVE  AuditInv'
  BY <1>14, AmountType, NoneAssumption DEF WaitFails, Failing
<1>15. ASSUME NEW c \in Calls, ReleaseFails(c)
      PROVE  AuditInv'
  BY <1>15, AmountType, NoneAssumption DEF ReleaseFails, Failing
<1>16. ASSUME NEW c \in Calls, ClaimRowFails(c)
      PROVE  AuditInv'
  BY <1>16, AmountType, NoneAssumption DEF ClaimRowFails, Failing
<1>17. ASSUME NEW c \in Calls, CheckRowFails(c)
      PROVE  AuditInv'
  BY <1>17, AmountType, NoneAssumption DEF CheckRowFails, Failing
<1>18. ASSUME NEW c \in Calls, ReadBalanceFails(c)
      PROVE  AuditInv'
  BY <1>18, AmountType, NoneAssumption DEF ReadBalanceFails, AfterRead, Failing
<1>19. ASSUME NEW c \in Calls, WriteFails(c)
      PROVE  AuditInv'
  BY <1>19, AmountType, NoneAssumption DEF WriteFails, Failing
<1>20. ASSUME NEW c \in Calls, Crash(c)
      PROVE  AuditInv'
  BY <1>20, AmountType, NoneAssumption DEF Crash
<1>21. CASE TurnStale
  BY <1>21, AmountType, NoneAssumption DEF TurnStale
<1>22. CASE UNCHANGED vars
  BY <1>22 DEF vars
<1> QED
  BY <1>1, <1>2, <1>3, <1>4, <1>5, <1>6, <1>7, <1>8, <1>9, <1>10, <1>11,
     <1>12, <1>13, <1>14, <1>15, <1>16, <1>17, <1>18, <1>19, <1>20, <1>21, <1>22
     DEF Next, Step, Fail

\* Every step keeps SeenInv: nobody else writes while the lock holds.
LEMMA SeenStep == TypeOK /\ CallInv /\ LockInv /\ SeenInv /\ [Next]_vars => SeenInv'
<1> SUFFICES ASSUME TypeOK, CallInv, LockInv, SeenInv, [Next]_vars
             PROVE  SeenInv'
  OBVIOUS
<1> USE DEF TypeOK, CallInv, LockInv, SeenInv, A!Unread, Waiting, Holding, GoTo, lockdoc,
            money, clock
<1>1. ASSUME NEW c \in Calls, Call(c)
      PROVE  SeenInv'
  BY <1>1 DEF Call
<1>2. ASSUME NEW c \in Calls, Acquire(c)
      PROVE  SeenInv'
  BY <1>2 DEF Acquire, FirstStep, Evicting
<1>3. ASSUME NEW c \in Calls, ReadLock(c)
      PROVE  SeenInv'
  BY <1>3 DEF ReadLock
<1>4. ASSUME NEW c \in Calls, Evict(c)
      PROVE  SeenInv'
  BY <1>4 DEF Evict
<1>5. ASSUME NEW c \in Calls, BackOff(c)
      PROVE  SeenInv'
  BY <1>5 DEF BackOff
<1>6. ASSUME NEW c \in Calls, Release(c)
      PROVE  SeenInv'
  BY <1>6 DEF Release
<1>7. ASSUME NEW c \in Calls, ClaimRow(c)
      PROVE  SeenInv'
  BY <1>7 DEF ClaimRow
<1>8. ASSUME NEW c \in Calls, AddCredits(c)
      PROVE  SeenInv'
  BY <1>8 DEF AddCredits
<1>9. ASSUME NEW c \in Calls, NoteBalance(c)
      PROVE  SeenInv'
  BY <1>9 DEF NoteBalance
<1>10. ASSUME NEW c \in Calls, CheckRow(c)
      PROVE  SeenInv'
  BY <1>10 DEF CheckRow
<1>11. ASSUME NEW c \in Calls, TakeCredits(c)
      PROVE  SeenInv'
  BY <1>11 DEF TakeCredits
<1>12. ASSUME NEW c \in Calls, InsertRow(c)
      PROVE  SeenInv'
  BY <1>12 DEF InsertRow
<1>13. ASSUME NEW c \in Calls, ReadBalance(c)
      PROVE  SeenInv'
  BY <1>13 DEF ReadBalance, AfterRead
<1>14. ASSUME NEW c \in Calls, WaitFails(c)
      PROVE  SeenInv'
  BY <1>14 DEF WaitFails, Failing
<1>15. ASSUME NEW c \in Calls, ReleaseFails(c)
      PROVE  SeenInv'
  BY <1>15 DEF ReleaseFails, Failing
<1>16. ASSUME NEW c \in Calls, ClaimRowFails(c)
      PROVE  SeenInv'
  BY <1>16 DEF ClaimRowFails, Failing
<1>17. ASSUME NEW c \in Calls, CheckRowFails(c)
      PROVE  SeenInv'
  BY <1>17 DEF CheckRowFails, Failing
<1>18. ASSUME NEW c \in Calls, ReadBalanceFails(c)
      PROVE  SeenInv'
  BY <1>18 DEF ReadBalanceFails, AfterRead, Failing
<1>19. ASSUME NEW c \in Calls, WriteFails(c)
      PROVE  SeenInv'
  BY <1>19 DEF WriteFails, Failing
<1>20. ASSUME NEW c \in Calls, Crash(c)
      PROVE  SeenInv'
  BY <1>20 DEF Crash
<1>21. CASE TurnStale
  BY <1>21 DEF TurnStale
<1>22. CASE UNCHANGED vars
  BY <1>22 DEF vars
<1> QED
  BY <1>1, <1>2, <1>3, <1>4, <1>5, <1>6, <1>7, <1>8, <1>9, <1>10, <1>11,
     <1>12, <1>13, <1>14, <1>15, <1>16, <1>17, <1>18, <1>19, <1>20, <1>21, <1>22
     DEF Next, Step, Fail

----------------------------------------------------------------------------
(* Wallet implements Account *)

\* A step that no credit takes leaves the rows that are over.
LEMMA Untouched ==
    ASSUME UNCHANGED <<balance, txs>>, \A d \in Calls : Crediting(d)' <=> Crediting(d)
    PROVE  UNCHANGED A!vars
<1>1. \A x : Open(x)' <=> Open(x)
  BY DEF Open, Crediting
<1> QED
  BY <1>1 DEF A!vars, Over

\* A credit that ends, well or not, puts its row among those that are over.
LEMMA CreditEnds ==
    ASSUME CreditInv, NEW c \in Calls, Crediting(c), UNCHANGED txs,
           \A d \in Calls : Crediting(d)' <=> Crediting(d) /\ d # c
    PROVE  Row[c] \notin Over /\ Over' = Over \cup {Row[c]}
<1>1. Row[c] \in txs /\ \A d \in Calls : Crediting(d) /\ Row[d] = Row[c] => d = c
  BY DEF CreditInv
<1>2. Open(Row[c])
  BY DEF Open, Crediting
<1>3. \A x : Open(x)' <=> Open(x) /\ x # Row[c]
  BY <1>1 DEF Open, Crediting
<1> QED
  BY <1>1, <1>2, <1>3 DEF Over

\* A credit that has just begun is not over.
LEMMA CreditBegins ==
    ASSUME NEW c \in Calls, Row[c] \notin txs, txs' = txs \cup {Row[c]}, UNCHANGED balance,
           Crediting(c)', \A d \in Calls : d # c => (Crediting(d)' <=> Crediting(d)),
           ~Crediting(c)
    PROVE  UNCHANGED A!vars
<1>1. Open(Row[c])'
  BY DEF Open, Crediting
<1>2. \A x \in txs : Open(x)' <=> Open(x)
  BY DEF Open, Crediting
<1> QED
  BY <1>1, <1>2 DEF A!vars, Over

\* As long as the timing holds, each step of a call is a step of Account or
\* changes nothing there.
LEMMA AccountStep ==
    ASSUME IInv, [Next]_vars, timely'
    PROVE  A!Next(Credits) \/ UNCHANGED A!vars
<1>0. TypeOK /\ CallInv /\ LockInv /\ CreditInv /\ SeenInv
  BY DEF IInv
<1> USE DEF TypeOK, GoTo, lockdoc, money, clock
<1>a. DOMAIN Credits = Rows /\ \A c \in Calls : Row[c] \in Rows
  BY AmountType, CallsAssumption DEF CallsAssumption
<1>b. ASSUME NEW c \in Calls, Crediting(c), UNCHANGED <<balance, txs>>,
             \A d \in Calls : Crediting(d)' <=> Crediting(d) /\ d # c
      PROVE  A!Next(Credits)
  <2>1. A!Note(Row[c])
    BY <1>0, <1>b, CreditEnds DEF A!Note
  <2> QED
    BY <1>a, <2>1 DEF A!Next
<1>1. ASSUME NEW c \in Calls,
             \/ Call(c) \/ Acquire(c) \/ ReadLock(c) \/ Evict(c) \/ BackOff(c) \/ Release(c)
             \/ NoteBalance(c) \/ CheckRow(c)
             \/ WaitFails(c) \/ ReleaseFails(c) \/ ClaimRowFails(c) \/ CheckRowFails(c)
      PROVE  UNCHANGED A!vars
  <2>1. UNCHANGED <<balance, txs>>
    BY <1>1 DEF Call, Acquire, ReadLock, Evict, BackOff, Release, NoteBalance, CheckRow,
       WaitFails, ReleaseFails, ClaimRowFails, CheckRowFails
  <2>2. \A d \in Calls : Crediting(d)' <=> Crediting(d)
    BY <1>0, <1>1 DEF Call, Acquire, FirstStep, ReadLock, Evict, BackOff, Release, NoteBalance,
       CheckRow, WaitFails, ReleaseFails, ClaimRowFails, CheckRowFails, Crediting, CallInv
  <2> QED
    BY <2>1, <2>2, Untouched
<1>2. ASSUME NEW c \in Calls, ClaimRow(c)
      PROVE  UNCHANGED A!vars
  <2>1. pc[c] = "claim" /\ Kind[c] = "credit" /\ ~Crediting(c) /\ UNCHANGED balance
    BY <1>0, <1>2 DEF ClaimRow, CallInv, Crediting
  <2>2. CASE Row[c] \in txs
    <3>1. UNCHANGED txs /\ pc' = [pc EXCEPT ![c] = "release"]
      BY <1>2, <2>2 DEF ClaimRow
    <3>2. \A d \in Calls : Crediting(d)' <=> Crediting(d)
      BY <2>1, <3>1 DEF Crediting
    <3> QED
      BY <2>1, <3>1, <3>2, Untouched
  <2>3. CASE Row[c] \notin txs
    <3>1. txs' = txs \cup {Row[c]} /\ pc' = [pc EXCEPT ![c] = "read"]
      BY <1>2, <2>3 DEF ClaimRow
    <3>2. pc'[c] = "read" /\ \A d \in Calls : d # c => pc'[d] = pc[d]
      BY <1>0, <3>1
    <3>3. Crediting(c)' /\ \A d \in Calls : d # c => (Crediting(d)' <=> Crediting(d))
      BY <2>1, <3>2 DEF Crediting
    <3> QED
      BY <2>1, <2>3, <3>1, <3>3, CreditBegins
  <2> QED
    BY <2>2, <2>3
<1>3. ASSUME NEW c \in Calls, AddCredits(c)
      PROVE  A!Next(Credits)
  <2>1. /\ Crediting(c) /\ pc[c] = "write" /\ timely
        /\ txs' = txs /\ balance' = read[c] + Credits[Row[c]]
    BY <1>3 DEF AddCredits, Crediting
  <2>a. pc'[c] = "note" /\ \A d \in Calls : d # c => pc'[d] = pc[d]
    BY <1>0, <1>3 DEF AddCredits
  <2>2. \A d \in Calls : Crediting(d)' <=> Crediting(d) /\ d # c
    BY <2>a DEF Crediting
  <2>3. A!Credit(Row[c], Credits[Row[c]], read[c])
    BY <1>0, <2>1, <2>2, CreditEnds DEF A!Credit
  <2>4. read[c] \in {balance, A!Unread}
    BY <1>0, <2>1 DEF SeenInv
  <2> QED
    BY <1>a, <2>3, <2>4 DEF A!Next
<1>4. ASSUME NEW c \in Calls, TakeCredits(c)
      PROVE  A!Next(Credits)
  <2>1. /\ pc[c] = "write" /\ Kind[c] = "spend" /\ timely
        /\ txs' = txs /\ balance' = read[c] - Credits[Row[c]]
    BY <1>4 DEF TakeCredits
  <2>2. \A d \in Calls : Crediting(d)' <=> Crediting(d)
    BY <1>4 DEF TakeCredits, Crediting
  <2>3. Over' = Over
    BY <2>1, <2>2 DEF Over, Open, Crediting
  <2>4. A!Take(Credits[Row[c]], read[c])
    BY <1>0, <2>1, <2>3 DEF A!Take, CallInv
  <2>5. read[c] \in {balance, A!Unread}
    BY <1>0, <2>1 DEF SeenInv
  <2> QED
    BY <1>a, <2>4, <2>5 DEF A!Next
<1>5. ASSUME NEW c \in Calls, InsertRow(c)
      PROVE  A!Next(Credits) \/ UNCHANGED A!vars
  <2>1. /\ pc[c] = "insert" /\ timely /\ UNCHANGED balance
        /\ txs' = txs \cup {Row[c]} /\ pc' = [pc EXCEPT ![c] = "release"]
    BY <1>5 DEF InsertRow
  <2>2. \A d \in Calls : ~Crediting(d)
    <3>1. pc[c] \in Holding /\ \A d \in Calls : Crediting(d) => pc[d] \in Holding /\ d # c
      BY <2>1 DEF Crediting, Holding
    <3> QED
      BY <1>0, <2>1, <3>1 DEF LockInv
  <2>3. \A d \in Calls : ~Crediting(d)'
    BY <2>1, <2>2 DEF Crediting
  <2>4. Over = txs /\ Over' = txs'
    BY <2>2, <2>3 DEF Over, Open, Crediting
  <2>5. CASE Row[c] \in txs
    BY <2>1, <2>4, <2>5 DEF A!vars
  <2>6. CASE Row[c] \notin txs
    BY <1>a, <2>1, <2>4, <2>6 DEF A!Next, A!Note
  <2> QED
    BY <2>5, <2>6
<1>6. ASSUME NEW c \in Calls, ReadBalance(c) \/ ReadBalanceFails(c)
      PROVE  UNCHANGED A!vars
  <2>1. /\ pc[c] = "read" /\ UNCHANGED <<balance, txs>>
        /\ \E to \in {"write", "release"} :
              /\ pc' = [pc EXCEPT ![c] = to]
              /\ Kind[c] = "credit" => to = "write"
    BY <1>6, AmountType DEF ReadBalance, ReadBalanceFails, AfterRead
  <2>2. \A d \in Calls : Crediting(d)' <=> Crediting(d)
    BY <2>1 DEF Crediting
  <2> QED
    BY <2>1, <2>2, Untouched
<1>7. ASSUME NEW c \in Calls, WriteFails(c) \/ Crash(c)
      PROVE  A!Next(Credits) \/ UNCHANGED A!vars
  <2>1. /\ UNCHANGED <<balance, txs>>
        /\ \E to \in {"release", "dead"} : pc' = [pc EXCEPT ![c] = to]
    BY <1>7 DEF WriteFails, Crash
  <2>2. \A d \in Calls : Crediting(d)' <=> Crediting(d) /\ d # c
    BY <1>0, <2>1 DEF Crediting
  <2>3. CASE Crediting(c)
    BY <1>b, <2>1, <2>2, <2>3
  <2>4. CASE ~Crediting(c)
    BY <2>1, <2>2, <2>4, Untouched
  <2> QED
    BY <2>3, <2>4
<1>8. CASE TurnStale \/ UNCHANGED vars
  <2>1. UNCHANGED <<pc, balance, txs>>
    BY <1>8 DEF TurnStale, vars
  <2>2. \A d \in Calls : Crediting(d)' <=> Crediting(d)
    BY <2>1 DEF Crediting
  <2> QED
    BY <2>1, <2>2, Untouched
<1> QED
  BY <1>1, <1>2, <1>3, <1>4, <1>5, <1>6, <1>7, <1>8 DEF Next, Step, Fail

----------------------------------------------------------------------------
(* The theorems *)

\* IInv is an invariant, for every set of calls and every kind of fault.
THEOREM Invariance == Spec => []IInv
<1>1. IInv /\ [Next]_vars => IInv'
  BY TypeStep, CallStep, LockStep, CreditStep, BackedStep, AuditStep, SeenStep
     DEF IInv
<1> QED
  BY InitIInv, <1>1, PTL DEF Spec

\* Every variable keeps to its type; no spend drives a balance below zero.
THEOREM TypeCorrect == Spec => []TypeOK
<1>1. IInv => TypeOK
  BY DEF IInv
<1> QED
  BY Invariance, <1>1, PTL

\* acquireLock and releaseLock keep the calls apart as long as no call outlives
\* its lock document and no eviction comes late.
THEOREM Serialization == Spec => []TimelySerialized
<1>1. IInv => TimelySerialized
  BY DEF IInv, LockInv, TimelySerialized, Serialized
<1> QED
  BY Invariance, <1>1, PTL

\* Under the same condition no crash or failed operation makes credits.
THEOREM NothingMinted == Spec => []NeverMinted
<1>1. IInv => NeverMinted
  BY DEF IInv, BackedInv, NeverMinted
<1> QED
  BY Invariance, <1>1, PTL

\* A row's amount is added once, even where the lock fails.
THEOREM OneCredit == Spec => []CreditedOnce
<1>1. IInv => CreditedOnce
  BY DEF IInv, CreditInv, CreditedOnce
<1> QED
  BY Invariance, <1>1, PTL

\* Balance and ledger agree between the calls of a member when nothing failed.
THEOREM Audit == Spec => []AuditedAtRest
<1>1. IInv => AuditedAtRest
  BY DEF IInv, AuditInv, AuditedAtRest, AtRest, Pending, Crediting, Holding
<1> QED
  BY Invariance, <1>1, PTL

\* As long as the timing holds the wallet is an Account: calls that interleave,
\* die and fail operation by operation move the balance as if they came one
\* after the other.
THEOREM ImplementsAccount == Spec => KeepsAccount
<1>1. IInv /\ [Next]_vars => [timely' => A!Next(Credits)]_A!vars
  BY AccountStep
<1> QED
  BY Invariance, <1>1, PTL DEF Spec, KeepsAccount
============================================================================
