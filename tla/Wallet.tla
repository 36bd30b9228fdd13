------------------------------- MODULE Wallet -------------------------------
(***************************************************************************)
(* The token wallet of one member: docs/wix-site/backend/lib/wallet.js     *)
(* grant, spend and refund, with the lock document that is to serialize    *)
(* them.                                                                   *)
(*                                                                         *)
(* Every call runs in a Velo backend invocation of its own, concurrently   *)
(* with the others, and each wixData operation is one action: it takes     *)
(* effect at the Wix database and the call goes on to its next operation.  *)
(* The lock document carries its creation time and no owner; "lock" holds  *)
(* the call that inserted it, which the code cannot see.                   *)
(*                                                                         *)
(* Grant and refund differ in the row's _id and text only: both are calls  *)
(* of kind "credit".                                                       *)
(***************************************************************************)
EXTENDS Integers, FiniteSets

CONSTANTS Calls,       \* invocations of grant, refund and spend
          Rows,        \* TokenTransactions _ids
          Kind,        \* Kind[c]: "credit" (grant, refund) or "spend"
          Row,         \* Row[c]: the row's _id; equal for a repeated call
          Credits,     \* Credits[x]: the amount of row x, without its sign
          StartBalance,\* the wallet before the first call, as the ledger has it
          None,        \* no lock document
          Attempts,    \* acquireLock's attempts
          MaxFaults,   \* bound: faults in one behaviour
          Faults       \* which kinds of fault can happen

\* crash: an invocation dies.  io: a wixData operation fails.  slow: a call
\* holds the lock for more than STALE_LOCK_MS.  late: between reading a stale
\* lock document and removing it, others remove it and insert a new one.
FaultKinds == {"crash", "io", "slow", "late"}

ASSUME NoneAssumption == None \notin Calls
ASSUME CallsAssumption ==
    /\ Kind \in [Calls -> {"credit", "spend"}]
    /\ Row \in [Calls -> Rows]
    /\ Credits \in [Rows -> Nat \ {0}]
    /\ StartBalance \in Nat
ASSUME LimitsAssumption ==
    Attempts \in Nat \ {0} /\ MaxFaults \in Nat /\ Faults \subseteq FaultKinds

VARIABLES pc,      \* where each call stands
          tries,   \* acquireLock's loop counter of each call
          read,    \* the balance each call has read
          lock,    \* TokenLocks: the call that inserted the document, or None
          stale,   \* the document is older than STALE_LOCK_MS
          balance, \* TokenWallets.balance
          txs,     \* TokenTransactions: the rows' _ids
          ledger,  \* the sum of TokenTransactions.credits
          added,   \* how often a credit row was added to the balance
          faults,  \* crashes and failed operations so far
          timely   \* no call has outlived its lock document, and no insert has
                   \* come between the reading and the removal of a stale one

lockdoc == <<lock, stale>>
money   == <<balance, txs, ledger, added>>
clock   == <<faults, timely>>
vars    == <<pc, tries, read, lockdoc, money, clock>>

Waiting == {"acquire", "held", "evict", "backoff"}
Holding == {"claim", "check", "read", "write", "note", "insert", "release"}

Init ==
    /\ pc      = [c \in Calls |-> "idle"]
    /\ tries   = [c \in Calls |-> 0]
    /\ read    = [c \in Calls |-> 0]
    /\ lock    = None
    /\ stale   = FALSE
    /\ balance = StartBalance
    /\ txs     = {}
    /\ ledger  = StartBalance
    /\ added   = [x \in Rows |-> 0]
    /\ faults  = 0
    /\ timely  = TRUE

GoTo(c, at) == pc' = [pc EXCEPT ![c] = at]

\* A wixData operation of the call fails.
Failing ==
    /\ "io" \in Faults
    /\ faults < MaxFaults
    /\ faults' = faults + 1
    /\ UNCHANGED timely

Call(c) ==
    /\ pc[c] = "idle"
    /\ GoTo(c, "acquire")
    /\ UNCHANGED <<tries, read, lockdoc, money, clock>>

----------------------------------------------------------------------------
(* acquireLock and releaseLock *)

FirstStep(c) == IF Kind[c] = "credit" THEN "claim" ELSE "check"

Evicting == \E d \in Calls : pc[d] = "evict"

\* The insert succeeds if there is no document, else it throws.
Acquire(c) ==
    /\ pc[c] = "acquire"
    /\ "late" \in Faults \/ ~Evicting
    /\ \/ /\ lock = None
          /\ lock' = c
          /\ stale' = FALSE
          /\ timely' = (timely /\ ~Evicting)
          /\ GoTo(c, FirstStep(c))
       \/ /\ lock # None
          /\ GoTo(c, "held")
          /\ UNCHANGED <<lockdoc, timely>>
    /\ UNCHANGED <<tries, read, money, faults>>

\* Mutant: any document found is taken to be stale.
ReadLockEager(c) ==
    /\ pc[c] = "held"
    /\ GoTo(c, IF lock # None THEN "evict" ELSE "backoff")
    /\ UNCHANGED <<tries, read, lockdoc, money, clock>>

\* get(LOCK): is the document stale?
ReadLock(c) ==
    /\ pc[c] = "held"
    /\ GoTo(c, IF lock # None /\ stale THEN "evict" ELSE "backoff")
    /\ UNCHANGED <<tries, read, lockdoc, money, clock>>

\* remove(LOCK), whatever document is there by now.
Evict(c) ==
    /\ pc[c] = "evict"
    /\ lock' = None
    /\ stale' = FALSE
    /\ GoTo(c, "backoff")
    /\ UNCHANGED <<tries, read, money, clock>>

\* Any failure of the insert counts as a lock that is held; a get that fails
\* finds no document, and a remove that fails removes none.
WaitFails(c) ==
    /\ pc[c] \in {"acquire", "held", "evict"}
    /\ Failing
    /\ GoTo(c, IF pc[c] = "acquire" THEN "held" ELSE "backoff")
    /\ UNCHANGED <<tries, read, lockdoc, money>>

\* The last attempt throws "Could not acquire wallet lock".
BackOff(c) ==
    /\ pc[c] = "backoff"
    /\ tries' = [tries EXCEPT ![c] = @ + 1]
    /\ GoTo(c, IF tries[c] + 1 < Attempts THEN "acquire" ELSE "done")
    /\ UNCHANGED <<read, lockdoc, money, clock>>

\* remove(LOCK), without looking whose document it is.
Release(c) ==
    /\ pc[c] = "release"
    /\ lock' = None
    /\ stale' = FALSE
    /\ GoTo(c, "done")
    /\ UNCHANGED <<tries, read, money, clock>>

\* The failure of a remove is swallowed: the document stays.
ReleaseFails(c) ==
    /\ pc[c] = "release"
    /\ Failing
    /\ GoTo(c, "done")
    /\ UNCHANGED <<tries, read, lockdoc, money>>

----------------------------------------------------------------------------
(* grant and refund *)

\* Mutant: a row that is there does not end the call.
ClaimRowAgain(c) ==
    /\ pc[c] = "claim"
    /\ txs' = txs \cup {Row[c]}
    /\ ledger' = IF Row[c] \in txs THEN ledger ELSE ledger + Credits[Row[c]]
    /\ GoTo(c, "read")
    /\ UNCHANGED <<tries, read, lockdoc, balance, added, clock>>

\* The insert of the row claims the credit; a row that is there ends the call.
ClaimRow(c) ==
    /\ pc[c] = "claim"
    /\ IF Row[c] \in txs
       THEN GoTo(c, "release") /\ UNCHANGED <<txs, ledger>>
       ELSE /\ txs' = txs \cup {Row[c]}
            /\ ledger' = ledger + Credits[Row[c]]
            /\ GoTo(c, "read")
    /\ UNCHANGED <<tries, read, lockdoc, balance, added, clock>>

\* Mutant: the failure of the insert is ignored.
ClaimRowIgnored(c) ==
    /\ pc[c] = "claim"
    /\ Failing
    /\ GoTo(c, "read")
    /\ UNCHANGED <<tries, read, lockdoc, money>>

\* catch (dup): any failure of the insert is taken for a row that is there.
ClaimRowFails(c) ==
    /\ pc[c] = "claim"
    /\ Failing
    /\ GoTo(c, "release")
    /\ UNCHANGED <<tries, read, lockdoc, money>>

AddCredits(c) ==
    /\ pc[c] = "write"
    /\ Kind[c] = "credit"
    /\ balance' = read[c] + Credits[Row[c]]
    /\ added' = [added EXCEPT ![Row[c]] = @ + 1]
    /\ GoTo(c, "note")
    /\ UNCHANGED <<tries, read, lockdoc, txs, ledger, clock>>

\* update(TX) with balanceAfter; it may fail, the money has moved.
NoteBalance(c) ==
    /\ pc[c] = "note"
    /\ GoTo(c, "release")
    /\ UNCHANGED <<tries, read, lockdoc, money, clock>>

----------------------------------------------------------------------------
(* spend *)

\* Mutant: a repeated spend is not looked for.
CheckNoRow(c) ==
    /\ pc[c] = "check"
    /\ GoTo(c, "read")
    /\ UNCHANGED <<tries, read, lockdoc, money, clock>>

CheckRow(c) ==
    /\ pc[c] = "check"
    /\ GoTo(c, IF Row[c] \in txs THEN "release" ELSE "read")
    /\ UNCHANGED <<tries, read, lockdoc, money, clock>>

\* The failure of the get is swallowed: the row is taken to be missing.
CheckRowFails(c) ==
    /\ pc[c] = "check"
    /\ Failing
    /\ GoTo(c, "read")
    /\ UNCHANGED <<tries, read, lockdoc, money>>

TakeCredits(c) ==
    /\ pc[c] = "write"
    /\ Kind[c] = "spend"
    /\ balance' = read[c] - Credits[Row[c]]
    /\ GoTo(c, "insert")
    /\ UNCHANGED <<tries, read, lockdoc, txs, ledger, added, clock>>

\* A row that is there makes the insert throw, after the balance was written.
InsertRow(c) ==
    /\ pc[c] = "insert"
    /\ IF Row[c] \in txs
       THEN UNCHANGED <<txs, ledger>>
       ELSE /\ txs' = txs \cup {Row[c]}
            /\ ledger' = ledger - Credits[Row[c]]
    /\ GoTo(c, "release")
    /\ UNCHANGED <<tries, read, lockdoc, balance, added, clock>>

----------------------------------------------------------------------------
(* Both *)

\* Mutant: the balance is not compared with the spend.
AfterReadUnchecked(c, amount) == "write"

\* A spend that reads too little throws InsufficientCredits.
AfterRead(c, amount) ==
    IF Kind[c] = "spend" /\ amount < Credits[Row[c]] THEN "release" ELSE "write"

ReadBalance(c) ==
    /\ pc[c] = "read"
    /\ read' = [read EXCEPT ![c] = balance]
    /\ GoTo(c, AfterRead(c, balance))
    /\ UNCHANGED <<tries, lockdoc, money, clock>>

\* readBalance answers 0 when the get fails.
ReadBalanceFails(c) ==
    /\ pc[c] = "read"
    /\ Failing
    /\ read' = [read EXCEPT ![c] = 0]
    /\ GoTo(c, AfterRead(c, 0))
    /\ UNCHANGED <<tries, lockdoc, money>>

\* writeBalance or a row operation throws; finally releases the lock.
WriteFails(c) ==
    /\ pc[c] \in {"write", "insert"}
    /\ Failing
    /\ GoTo(c, "release")
    /\ UNCHANGED <<tries, read, lockdoc, money>>

\* The invocation dies where it stands; its lock document stays.
Crash(c) ==
    /\ "crash" \in Faults
    /\ faults < MaxFaults
    /\ pc[c] \in Waiting \cup Holding
    /\ faults' = faults + 1
    /\ GoTo(c, "dead")
    /\ UNCHANGED <<tries, read, lockdoc, money, timely>>

\* The lock document turns STALE_LOCK_MS old.  Its call has ended without
\* removing it, or, if "slow" is possible, is still at work.
TurnStale ==
    /\ lock # None
    /\ ~stale
    /\ pc[lock] \notin Holding \/ "slow" \in Faults
    /\ stale' = TRUE
    /\ timely' = (timely /\ pc[lock] \notin Holding)
    /\ UNCHANGED <<pc, tries, read, lock, money, faults>>

Step(c) ==
    \/ Acquire(c) \/ ReadLock(c) \/ Evict(c) \/ BackOff(c) \/ Release(c)
    \/ ClaimRow(c) \/ AddCredits(c) \/ NoteBalance(c)
    \/ CheckRow(c) \/ TakeCredits(c) \/ InsertRow(c)
    \/ ReadBalance(c)

Fail(c) ==
    \/ WaitFails(c) \/ ReleaseFails(c)
    \/ ClaimRowFails(c) \/ CheckRowFails(c) \/ ReadBalanceFails(c)
    \/ WriteFails(c) \/ Crash(c)

Next ==
    \/ \E c \in Calls : Call(c) \/ Step(c) \/ Fail(c)
    \/ TurnStale

Spec == Init /\ [][Next]_vars

----------------------------------------------------------------------------
(* Properties *)

\* The values each variable takes; no spend drives the balance below zero.
TypeOK ==
    /\ pc \in [Calls -> Waiting \cup Holding \cup {"idle", "done", "dead"}]
    /\ tries \in [Calls -> 0..Attempts]
    /\ read \in [Calls -> Nat]
    /\ lock \in Calls \cup {None}
    /\ stale \in BOOLEAN
    /\ balance \in Nat
    /\ txs \in SUBSET Rows
    /\ ledger \in Int
    /\ added \in [Rows -> Nat]
    /\ faults \in 0..MaxFaults
    /\ timely \in BOOLEAN

\* At most one call is between its acquireLock and its releaseLock.
Serialized ==
    \A c, d \in Calls : pc[c] \in Holding /\ pc[d] \in Holding => c = d

\* The lock document serializes the calls of a member, through crashes and
\* failed operations, as long as its timing assumptions hold.
TimelySerialized == timely => Serialized

\* Wherever a call dies or fails, the wallet never shows credits the ledger
\* does not back: a credit writes its row before the balance, a spend after.
NeverMinted == timely => balance <= ledger

\* A credit reaches the balance at most once per row, whatever is repeated and
\* even when the lock fails to keep two calls apart.
CreditedOnce == \A x \in Rows : added[x] <= 1

AtRest == \A c \in Calls : pc[c] \notin Holding

\* Without a fault, the audit invariant holds whenever no call is at work.
AuditedAtRest == timely /\ faults = 0 /\ AtRest => balance = ledger

\* The rows but those of credits whose amount is still to come.
Open(x) == \E c \in Calls : Kind[c] = "credit" /\ Row[c] = x /\ pc[c] \in {"read", "write"}
Over == {x \in txs : ~Open(x)}

\* Calls that interleave operation by operation do to the balance what they would
\* do one after the other: no update is lost, none is made on an old balance, and
\* only a balance that could not be read is overwritten.
A == INSTANCE Account WITH rows <- Over
KeepsAccount == [][timely' => A!Next(Credits)]_A!vars

\* wallet.js: "we serialize per-member mutations with a unique-_id lock
\* document", with its clause for stale documents.
AlwaysSerialized == Serialized
============================================================================
