------------------------- MODULE MediaPersistProofs -------------------------
(***************************************************************************)
(* Proofs about MediaPersist for every set of polls, every number of files, *)
(* visits and reruns and every kind and number of faults.                  *)
(***************************************************************************)
EXTENDS MediaPersist, TLAPS

\* The files that are to be imported.
Due == {f \in Files : Asset[f] \in completed}

\* The record shows assets only once it is final, and only such as have files.
RecordInv ==
    /\ completed \subseteq stored
    /\ status \notin Persisted => completed = {}

\* What a poll holds before it has come so far.
FreshInv ==
    \A p \in Polls :
        /\ pc[p] \in {"idle", "own", "get", "back"} => todo[p] = {}
        /\ pc[p] \in {"idle", "own", "get", "sync", "query"} => result[p] = {}
        /\ pc[p] \in {"idle", "own", "get"} => got[p] = "queued"
        /\ pc[p] = "sync" /\ got[p] \notin Persisted => todo[p] = {}
        /\ pc[p] = "insert" => todo[p] # {}
        /\ pc[p] \in {"query", "import", "insert"} => got[p] \in Persisted

\* What a poll hands to the page has its row; what it inserts is imported; what
\* it is about to import has been produced.
BackedInv ==
    /\ PermanentIsBacked
    /\ \A p \in Polls : /\ result[p] \subseteq Rows
                        /\ pc[p] = "insert" => File(p) \in imported
                        /\ \A f \in todo[p] : Asset[f] \in stored

\* Without an overlap one poll at most is under way, and the files before it
\* have no row yet.
AloneInv ==
    ~overlap =>
        /\ \A p, q \in Polls : pc[p] # "idle" /\ pc[q] # "idle" => p = q
        /\ \A f \in Files : media[f] <= 1
        /\ \A p \in Polls : pc[p] \in {"import", "insert"} =>
              \A f \in todo[p] : media[f] = 0

\* As long as the job has not been run again, an answer or a row with a final
\* status has the job's.
FinalInv ==
    reruns = 0 =>
        /\ \A p \in Polls : got[p] \in Terminal => got[p] = status
        /\ row \in Terminal => row = status

Importing(p) == pc[p] \in {"import", "insert"}

\* Without overlap, fault and rerun: the row follows the poll, the rows of the
\* files are none, those the poll has come to, or all; a page that has stopped to
\* poll has seen the end.
RowFollows(p) ==
    /\ pc[p] = "get" => owned[p] = row
    /\ pc[p] \in {"query", "import", "insert", "back"} => row = got[p]
    /\ pc[p] \in {"sync", "query"} /\ got[p] \in Persisted => todo[p] = Due
    /\ Importing(p) => Rows = Due \ todo[p] /\ todo[p] \subseteq Due /\ result[p] = Rows
    /\ pc[p] = "back" /\ got[p] \in Persisted => result[p] = Due
    /\ pc[p] = "back" /\ got[p] \notin Persisted => result[p] = {}

AllOrNone ==
    /\ Rows # {} => status \in Persisted
    /\ (\A p \in Polls : ~Importing(p)) => Rows = {} \/ Rows = Due

Stopped == ~timer /\ text # "gone"

EndSeen ==
    /\ \A p \in Polls : pc[p] = "idle"
    /\ status \in Terminal
    /\ text = status /\ row = status /\ shown = Due

EndInv ==
    ~overlap /\ faults = 0 /\ reruns = 0 =>
        /\ \A p \in Polls : RowFollows(p)
        /\ AllOrNone
        /\ timer => text # "gone"
        /\ Stopped => EndSeen

IInv == TypeOK /\ RecordInv /\ FreshInv /\ BackedInv /\ AloneInv /\ FinalInv /\ EndInv

----------------------------------------------------------------------------
(* Initial states and types *)

\* What the constants give.
LEMMA Params ==
    /\ NFiles \in Nat /\ MaxVisits \in Nat /\ MaxFaults \in Nat /\ MaxReruns \in Nat
    /\ Files = 1..NFiles /\ Files \subseteq Nat
BY MediaAssumption DEF MediaAssumption, Files

\* The file at hand is one of those left.
LEMMA FileLeft ==
    ASSUME NEW p \in Polls, todo[p] # {}
    PROVE  File(p) \in todo[p]
BY DEF File

\* A step that leaves a poll's files alone leaves the one at hand.
LEMMA FileStays ==
    ASSUME NEW p \in Polls, todo'[p] = todo[p]
    PROVE  File(p)' = File(p)
BY DEF File

\* The initial states satisfy IInv.
LEMMA InitIInv == Init => IInv
<1> SUFFICES ASSUME Init
             PROVE  IInv
  OBVIOUS
<1> USE Params DEF Init, J!Init
<1>0. Rows = {}
  BY DEF Rows
<1>1. TypeOK
  <2>1. /\ todo \in [Polls -> SUBSET Files] /\ media \in [Files -> Nat]
        /\ faults \in 0..MaxFaults /\ visits \in Nat /\ reruns \in 0..MaxReruns
    OBVIOUS
  <2>2. /\ owned \in [Polls -> Statuses] /\ got \in [Polls -> Statuses]
        /\ status \in Statuses /\ row \in Statuses /\ text \in Statuses
    BY DEF Statuses
  <2>3. /\ pc \in [Polls -> {"idle", "own", "get", "sync", "query", "import", "insert", "back"}]
        /\ result \in [Polls -> SUBSET Files]
    OBVIOUS
  <2> QED
    BY <2>1, <2>2, <2>3 DEF TypeOK
<1>2. FreshInv
  BY DEF FreshInv
<1>3. BackedInv
  BY <1>0 DEF BackedInv, PermanentIsBacked
<1>4. AloneInv
  BY DEF AloneInv
<1>5. FinalInv
  BY DEF FinalInv, Terminal, Persisted
<1>6. EndInv
  BY <1>0 DEF EndInv, RowFollows, AllOrNone, Stopped, Importing
<1>7. RecordInv
  BY DEF RecordInv
<1> QED
  BY <1>1, <1>2, <1>3, <1>4, <1>5, <1>6, <1>7 DEF IInv

\* Only the worker changes the record.
LEMMA JobOrNot == [Next]_vars => J!Next \/ UNCHANGED job
BY DEF Next, JobStep, Leave, Visit, Tick, PollStep, ReadOwned, GetStatus, SyncRow, Query,
   QueryFails, Import, Insert, FileFails, ImportsDone, Back, Throw, vars

\* The worker's steps keep the types of the record.
LEMMA JobTypes ==
    ASSUME TypeOK, RecordInv, J!Next
    PROVE  /\ status' \in Statuses /\ completed' \subseteq Assets /\ stored' \subseteq Assets
           /\ reruns' \in 0..MaxReruns
<1> USE DEF TypeOK, Statuses, Terminal, Persisted
<1>1. CASE J!Start
  BY <1>1 DEF J!Start
<1>2. CASE J!Rerun
  BY <1>2, Params DEF J!Rerun
<1>3. CASE \E a \in Assets : J!Store(a)
  BY <1>3 DEF J!Store
<1>4. CASE J!End
  <2>1. status' \in Terminal /\ UNCHANGED <<stored, reruns>>
    BY <1>4 DEF J!End, J!Terminal
  <2>2. completed' \subseteq stored
    BY <1>4 DEF J!End
  <2> QED
    BY <2>1, <2>2
<1> QED
  BY <1>1, <1>2, <1>3, <1>4 DEF J!Next

\* The worker's steps keep the record's claims about files; files stay.
LEMMA RecordStep ==
    TypeOK /\ RecordInv /\ [Next]_vars => RecordInv' /\ stored \subseteq stored'
<1> SUFFICES ASSUME TypeOK, RecordInv, [Next]_vars
             PROVE  RecordInv' /\ stored \subseteq stored'
  OBVIOUS
<1> USE DEF RecordInv, Persisted
<1>1. CASE J!Start
  BY <1>1 DEF J!Start
<1>2. CASE J!Rerun
  BY <1>2 DEF J!Rerun
<1>3. CASE \E a \in Assets : J!Store(a)
  BY <1>3 DEF J!Store
<1>4. CASE J!End
  BY <1>4 DEF J!End, J!Terminal
<1>5. CASE UNCHANGED job
  BY <1>5 DEF job
<1> QED
  BY <1>1, <1>2, <1>3, <1>4, <1>5, JobOrNot DEF J!Next

\* Every step keeps the types.
LEMMA TypeStep == TypeOK /\ RecordInv /\ FreshInv /\ [Next]_vars => TypeOK'
<1> SUFFICES ASSUME TypeOK, RecordInv, FreshInv, [Next]_vars
             PROVE  TypeOK'
  OBVIOUS
<1> USE Params DEF TypeOK, Statuses, Terminal, Persisted, GoTo, Fault, NextFile,
    job, site, polls, page
<1>a. ASSUME NEW p \in Polls, Reset(p)
      PROVE  /\ pc' \in [Polls -> {"idle", "own", "get", "sync", "query", "import", "insert", "back"}]
             /\ owned' \in [Polls -> Statuses] /\ got' \in [Polls -> Statuses]
             /\ todo' \in [Polls -> SUBSET Files]
             /\ result' \in [Polls -> SUBSET Files]
  BY <1>a DEF Reset
<1>1. CASE JobStep
  <2>1. J!Next /\ UNCHANGED <<site, polls, page, overlap, faults>>
    BY <1>1 DEF JobStep
  <2>2. /\ status' \in Statuses /\ completed' \subseteq Assets /\ stored' \subseteq Assets
        /\ reruns' \in 0..MaxReruns
    BY <2>1, JobTypes
  <2> QED
    BY <2>1, <2>2
<1>2. CASE Leave \/ Visit
  <2>1. /\ timer' \in BOOLEAN /\ text' \in Statuses \cup {"lost", "gone"}
        /\ visits' \in Nat /\ shown' \subseteq Files
    <3>1. CASE Leave
      BY <3>1 DEF Leave
    <3>2. CASE Visit
      BY <3>2 DEF Visit
    <3> QED
      BY <1>2, <3>1, <3>2
  <2>2. UNCHANGED <<job, site, polls, overlap, faults>>
    BY <1>2 DEF Leave, Visit
  <2> QED
    BY <2>1, <2>2
<1>3. ASSUME NEW p \in Polls, Tick(p)
      PROVE  TypeOK'
  BY <1>3 DEF Tick
<1>4. ASSUME NEW p \in Polls, ReadOwned(p) \/ GetStatus(p) \/ SyncRow(p)
      PROVE  TypeOK'
  <2>1. pc' \in [Polls -> {"idle", "own", "get", "sync", "query", "import", "insert", "back"}]
    BY <1>4 DEF ReadOwned, GetStatus, SyncRow
  <2>2. /\ owned' \in [Polls -> Statuses] /\ got' \in [Polls -> Statuses]
        /\ row' \in Statuses
    <3>1. CASE ReadOwned(p) \/ SyncRow(p)
      BY <3>1 DEF ReadOwned, SyncRow
    <3>2. CASE GetStatus(p)
      BY <3>2 DEF GetStatus
    <3> QED
      BY <1>4, <3>1, <3>2
  <2>3. todo' \in [Polls -> SUBSET Files]
    BY <1>4 DEF ReadOwned, GetStatus, SyncRow
  <2>4. faults' \in 0..MaxFaults
    BY <1>4 DEF ReadOwned, GetStatus, SyncRow
  <2>5. UNCHANGED <<job, imported, media, result, page, overlap>>
    BY <1>4 DEF ReadOwned, GetStatus, SyncRow
  <2> QED
    BY <2>1, <2>2, <2>3, <2>4, <2>5
<1>5. ASSUME NEW p \in Polls, Query(p) \/ QueryFails(p)
      PROVE  TypeOK'
  <2>1. pc' \in [Polls -> {"idle", "own", "get", "sync", "query", "import", "insert", "back"}]
    BY <1>5 DEF Query, QueryFails
  <2>2. result' \in [Polls -> SUBSET Files]
    <3>1. Rows \in SUBSET Files
      BY DEF Rows
    <3>2. result' \in {result, [result EXCEPT ![p] = Rows]}
      BY <1>5 DEF Query, QueryFails
    <3> QED
      BY <3>1, <3>2
  <2>3. faults' \in 0..MaxFaults
    BY <1>5 DEF Query, QueryFails
  <2>4. todo' \in [Polls -> SUBSET Files]
    BY <1>5 DEF Query, QueryFails
  <2>5. UNCHANGED <<job, site, owned, got, page, overlap>>
    BY <1>5 DEF Query, QueryFails
  <2> QED
    BY <2>1, <2>2, <2>3, <2>4, <2>5
<1>6. ASSUME NEW p \in Polls, todo[p] # {}
      PROVE  File(p) \in Files
  BY <1>6, FileLeft
<1>7. ASSUME NEW p \in Polls, Import(p)
      PROVE  TypeOK'
  <2>1. pc' \in [Polls -> {"idle", "own", "get", "sync", "query", "import", "insert", "back"}]
    BY <1>7 DEF Import
  <2>2. imported' \subseteq Files
    BY <1>6, <1>7 DEF Import
  <2>3. UNCHANGED <<job, row, media, owned, got, todo, result, page, overlap, faults>>
    BY <1>7 DEF Import
  <2> QED
    BY <2>1, <2>2, <2>3
<1>8. ASSUME NEW p \in Polls, Insert(p)
      PROVE  TypeOK'
  <2>1. File(p) \in Files
    BY <1>6, <1>8 DEF Insert, FreshInv
  <2>2. pc' \in [Polls -> {"idle", "own", "get", "sync", "query", "import", "insert", "back"}]
    BY <1>8 DEF Insert
  <2>3. todo' \in [Polls -> SUBSET Files]
    BY <1>8 DEF Insert
  <2>4. media' \in [Files -> Nat]
    BY <1>8, <2>1 DEF Insert
  <2>5. result' \in [Polls -> SUBSET Files] /\ faults' \in 0..MaxFaults
    <3>1. CASE UNCHANGED result /\ Fault("io")
      BY <3>1 DEF Fault
    <3>2. CASE UNCHANGED faults
              /\ result' = [result EXCEPT ![p] = result[p] \cup {File(p)}]
      BY <2>1, <3>2
    <3> QED
      BY <1>8, <3>1, <3>2 DEF Insert
  <2>6. UNCHANGED <<job, row, imported, owned, got, page, overlap>>
    BY <1>8 DEF Insert
  <2> QED
    BY <2>2, <2>3, <2>4, <2>5, <2>6
<1>9. ASSUME NEW p \in Polls, FileFails(p)
      PROVE  TypeOK'
  <2>1. pc' \in [Polls -> {"idle", "own", "get", "sync", "query", "import", "insert", "back"}]
    BY <1>9 DEF FileFails
  <2>2. todo' \in [Polls -> SUBSET Files]
    BY <1>9 DEF FileFails
  <2>3. faults' \in 0..MaxFaults
    BY <1>9 DEF FileFails
  <2>4. UNCHANGED <<job, site, owned, got, result, page, overlap>>
    BY <1>9 DEF FileFails
  <2> QED
    BY <2>1, <2>2, <2>3, <2>4
<1>10. ASSUME NEW p \in Polls, ImportsDone(p)
       PROVE  TypeOK'
  BY <1>10 DEF ImportsDone
<1>11. ASSUME NEW p \in Polls, Back(p)
       PROVE  TypeOK'
  <2>1. Reset(p) /\ UNCHANGED <<job, site, visits, overlap, faults>>
    BY <1>11 DEF Back
  <2>2. timer' \in BOOLEAN /\ text' \in Statuses \cup {"lost", "gone"}
    BY <1>11 DEF Back
  <2>3. shown' \subseteq Files
    BY <1>11 DEF Back, Render
  <2> QED
    BY <1>a, <2>1, <2>2, <2>3
<1>12. ASSUME NEW p \in Polls, Throw(p)
       PROVE  TypeOK'
  <2>1. Reset(p) /\ UNCHANGED <<job, site, visits, shown, overlap>>
    BY <1>12 DEF Throw
  <2>2. timer' \in BOOLEAN /\ text' \in Statuses \cup {"lost", "gone"}
    BY <1>12 DEF Throw
  <2>3. faults' \in 0..MaxFaults
    BY <1>12 DEF Throw
  <2> QED
    BY <1>a, <2>1, <2>2, <2>3
<1>13. CASE UNCHANGED vars
  BY <1>13 DEF vars
<1> QED
  BY <1>1, <1>2, <1>3, <1>4, <1>5, <1>7, <1>8, <1>9, <1>10, <1>11, <1>12, <1>13
     DEF Next, PollStep

----------------------------------------------------------------------------
(* What holds of every poll, overlapping or not *)

\* A poll that another one's step leaves alone, or that starts anew, is fresh.
LEMMA FreshStep == TypeOK /\ RecordInv /\ FreshInv /\ [Next]_vars => FreshInv'
<1> SUFFICES ASSUME TypeOK, RecordInv, FreshInv, [Next]_vars
             PROVE  FreshInv'
  OBVIOUS
<1> USE DEF TypeOK, FreshInv, GoTo, polls, Persisted
<1>1. CASE JobStep \/ Leave \/ Visit \/ UNCHANGED vars
  BY <1>1 DEF JobStep, Leave, Visit, vars
<1>2. ASSUME NEW p \in Polls, Tick(p)
      PROVE  FreshInv'
  BY <1>2 DEF Tick
<1>3. ASSUME NEW p \in Polls, ReadOwned(p)
      PROVE  FreshInv'
  BY <1>3 DEF ReadOwned
<1>4. ASSUME NEW p \in Polls, GetStatus(p)
      PROVE  FreshInv'
  <2>1. status \notin Persisted => {f \in Files : Asset[f] \in completed} = {}
    BY DEF RecordInv
  <2> QED
    BY <1>4, <2>1 DEF GetStatus
<1>5. ASSUME NEW p \in Polls, SyncRow(p)
      PROVE  FreshInv'
  BY <1>5 DEF SyncRow
<1>6. ASSUME NEW p \in Polls, Query(p) \/ QueryFails(p)
      PROVE  FreshInv'
  BY <1>6 DEF Query, QueryFails
<1>7. ASSUME NEW p \in Polls, ImportsDone(p)
      PROVE  FreshInv'
  BY <1>7 DEF ImportsDone
<1>8. ASSUME NEW p \in Polls, Import(p)
      PROVE  FreshInv'
  BY <1>8 DEF Import
<1>9. ASSUME NEW p \in Polls, Insert(p)
      PROVE  FreshInv'
  BY <1>9 DEF Insert, NextFile
<1>10. ASSUME NEW p \in Polls, FileFails(p)
       PROVE  FreshInv'
  BY <1>10 DEF FileFails, NextFile
<1>11. ASSUME NEW p \in Polls, Back(p) \/ Throw(p)
       PROVE  FreshInv'
  BY <1>11 DEF Back, Throw, Reset
<1> QED
  BY <1>1, <1>2, <1>3, <1>4, <1>5, <1>6, <1>7, <1>8, <1>9, <1>10, <1>11
     DEF Next, PollStep

\* What an insert makes of the rows; every other step leaves them.
LEMMA RowsInsert ==
    ASSUME TypeOK, NEW p \in Polls, Insert(p), File(p) \in Files
    PROVE  /\ Rows' = Rows \cup {File(p)}
           /\ media' = [media EXCEPT ![File(p)] = media[File(p)] + 1]
           /\ result' \in {result, [result EXCEPT ![p] = result[p] \cup {File(p)}]}
BY DEF TypeOK, Insert, Rows

\* What is shown as permanent stays backed, and what is to be imported produced.
LEMMA BackedStep ==
    TypeOK /\ RecordInv /\ FreshInv /\ BackedInv /\ [Next]_vars => BackedInv'
<1> SUFFICES ASSUME TypeOK, RecordInv, FreshInv, BackedInv, [Next]_vars
             PROVE  BackedInv'
  OBVIOUS
<1> USE DEF BackedInv, PermanentIsBacked, GoTo, polls, page, site, job
<1>0. /\ pc \in [Polls -> {"idle", "own", "get", "sync", "query", "import", "insert", "back"}]
      /\ result \in [Polls -> SUBSET Files] /\ todo \in [Polls -> SUBSET Files]
      /\ stored \subseteq stored'
  BY RecordStep DEF TypeOK
<1>a. ASSUME UNCHANGED <<imported, media>>, shown' \subseteq Rows,
             \A q \in Polls : /\ result'[q] \subseteq Rows
                              /\ pc'[q] = "insert" => pc[q] = "insert" /\ todo'[q] = todo[q]
                              /\ todo'[q] \subseteq todo[q]
      PROVE  BackedInv'
  <2>1. \A q \in Polls : pc'[q] = "insert" => File(q)' \in imported'
    BY <1>a, FileStays
  <2>2. \A q \in Polls : \A f \in todo'[q] : Asset[f] \in stored'
    BY <1>0, <1>a
  <2>3. Rows' = Rows /\ \A f \in imported' : Asset[f] \in stored'
    BY <1>0, <1>a DEF Rows
  <2> QED
    BY <1>a, <2>1, <2>2, <2>3
<1>1. CASE JobStep \/ Leave \/ Visit \/ UNCHANGED vars
  <2>1. UNCHANGED <<imported, media, pc, todo, result>> /\ shown' \subseteq shown
    BY <1>1 DEF JobStep, Leave, Visit, vars
  <2> QED
    BY <1>a, <2>1
<1>2. ASSUME NEW p \in Polls, GetStatus(p)
      PROVE  BackedInv'
  <2>1. /\ UNCHANGED <<stored, imported, media, shown, result>>
        /\ todo' = [todo EXCEPT ![p] = {f \in Files : Asset[f] \in completed}]
    BY <1>2 DEF GetStatus
  <2>2. \A f \in todo'[p] : Asset[f] \in stored'
    BY <1>0, <2>1 DEF RecordInv
  <2>3. \A q \in Polls : q # p => todo'[q] = todo[q] /\ pc'[q] = pc[q]
    BY <1>0, <1>2, <2>1 DEF GetStatus
  <2>4. pc'[p] # "insert"
    BY <1>0, <1>2 DEF GetStatus
  <2>5. \A q \in Polls : pc'[q] = "insert" => File(q)' \in imported'
    BY <2>1, <2>3, <2>4, FileStays
  <2>6. Rows' = Rows
    BY <2>1 DEF Rows
  <2> QED
    BY <2>1, <2>2, <2>3, <2>5, <2>6
<1>3. ASSUME NEW p \in Polls, Tick(p) \/ ReadOwned(p) \/ SyncRow(p)
                              \/ QueryFails(p) \/ ImportsDone(p)
      PROVE  BackedInv'
  <2>1. UNCHANGED <<imported, media, result, shown>>
    BY <1>3 DEF Tick, ReadOwned, SyncRow, QueryFails, ImportsDone
  <2>2. \A q \in Polls : /\ pc'[q] = "insert" => pc[q] = "insert" /\ todo'[q] = todo[q]
                         /\ todo'[q] \subseteq todo[q]
    BY <1>0, <1>3 DEF Tick, ReadOwned, SyncRow, QueryFails, ImportsDone
  <2> QED
    BY <1>a, <2>1, <2>2
<1>4. ASSUME NEW p \in Polls, Query(p)
      PROVE  BackedInv'
  <2>1. /\ UNCHANGED <<imported, media, shown>>
        /\ result' \in {result, [result EXCEPT ![p] = Rows]}
        /\ todo' \in {todo, [todo EXCEPT ![p] = {}]}
        /\ pc' \in {[pc EXCEPT ![p] = "back"], [pc EXCEPT ![p] = "import"]}
    BY <1>4 DEF Query
  <2>2. \A q \in Polls : pc'[q] = "insert" => pc[q] = "insert" /\ q # p
    BY <1>0, <2>1
  <2>3. \A q \in Polls : todo'[q] \subseteq todo[q] /\ (q # p => todo'[q] = todo[q])
    BY <1>0, <2>1
  <2>4. \A q \in Polls : result'[q] \subseteq Rows
    BY <1>0, <2>1
  <2> QED
    BY <1>a, <2>1, <2>2, <2>3, <2>4
<1>5. ASSUME NEW p \in Polls, Import(p)
      PROVE  BackedInv'
  <2>1. /\ UNCHANGED <<stored, media, shown, todo, result>>
        /\ pc' = [pc EXCEPT ![p] = "insert"] /\ todo[p] # {}
        /\ imported' = imported \cup {File(p)}
    BY <1>5 DEF Import
  <2>2. Rows' = Rows
    BY <2>1 DEF Rows
  <2>3. Asset[File(p)] \in stored
    BY <2>1, FileLeft
  <2>4. \A q \in Polls : File(q)' = File(q)
    BY <2>1, FileStays
  <2>5. \A q \in Polls : pc'[q] = "insert" => File(q)' \in imported'
    BY <1>0, <2>1, <2>4
  <2> QED
    BY <2>1, <2>2, <2>3, <2>5
<1>6. ASSUME NEW p \in Polls, Insert(p)
      PROVE  BackedInv'
  <2>1. pc[p] = "insert" /\ File(p) \in Files /\ File(p) \in imported
    BY <1>0, <1>6, FileLeft DEF Insert, FreshInv
  <2>2. Rows' = Rows \cup {File(p)}
    BY <1>6, <2>1, RowsInsert
  <2>3. /\ UNCHANGED <<stored, imported, shown>>
        /\ pc' = [pc EXCEPT ![p] = "import"]
        /\ result' \in {result, [result EXCEPT ![p] = result[p] \cup {File(p)}]}
        /\ todo' = [todo EXCEPT ![p] = todo[p] \ {File(p)}]
    BY <1>6, <2>1, RowsInsert DEF Insert, NextFile
  <2>4. \A q \in Polls : pc'[q] = "insert" => File(q)' \in imported'
    BY <1>0, <2>3, FileStays
  <2>5. \A q \in Polls : result'[q] \subseteq Rows' /\ todo'[q] \subseteq todo[q]
    BY <1>0, <2>2, <2>3
  <2> QED
    BY <2>1, <2>2, <2>3, <2>4, <2>5
<1>7. ASSUME NEW p \in Polls, FileFails(p)
      PROVE  BackedInv'
  <2>1. /\ UNCHANGED <<imported, media, shown, result>>
        /\ pc' = [pc EXCEPT ![p] = "import"]
        /\ todo' = [todo EXCEPT ![p] = todo[p] \ {File(p)}]
    BY <1>7 DEF FileFails, NextFile
  <2> QED
    BY <1>0, <1>a, <2>1
<1>8. ASSUME NEW p \in Polls, Back(p) \/ Throw(p)
      PROVE  BackedInv'
  <2>1. /\ UNCHANGED <<imported, media>>
        /\ pc' = [pc EXCEPT ![p] = "idle"]
        /\ todo' = [todo EXCEPT ![p] = {}]
        /\ result' = [result EXCEPT ![p] = {}]
    BY <1>8 DEF Back, Throw, Reset
  <2>2. shown' \in {shown, result[p]}
    BY <1>8 DEF Back, Throw, Render
  <2> QED
    BY <1>0, <1>a, <2>1, <2>2
<1> QED
  BY <1>1, <1>2, <1>3, <1>4, <1>5, <1>6, <1>7, <1>8 DEF Next, PollStep

\* Overlaps aside, one poll imports at a time, and each file once.
LEMMA AloneStep == TypeOK /\ FreshInv /\ AloneInv /\ [Next]_vars => AloneInv'
<1> SUFFICES ASSUME TypeOK, FreshInv, AloneInv, [Next]_vars, ~overlap'
             PROVE  /\ \A p, q \in Polls : pc'[p] # "idle" /\ pc'[q] # "idle" => p = q
                    /\ \A f \in Files : media'[f] <= 1
                    /\ \A p \in Polls : pc'[p] \in {"import", "insert"} =>
                          \A f \in todo'[p] : media'[f] = 0
  BY DEF AloneInv
<1> DEFINE Goal == /\ \A p, q \in Polls : pc'[p] # "idle" /\ pc'[q] # "idle" => p = q
                   /\ \A f \in Files : media'[f] <= 1
                   /\ \A p \in Polls : pc'[p] \in {"import", "insert"} =>
                         \A f \in todo'[p] : media'[f] = 0
<1> USE Params DEF GoTo, polls, page, site, job
<1>0. /\ pc \in [Polls -> {"idle", "own", "get", "sync", "query", "import", "insert", "back"}]
      /\ todo \in [Polls -> SUBSET Files] /\ media \in [Files -> Nat]
  BY DEF TypeOK
<1>1. ~overlap
  BY DEF Next, JobStep, Leave, Visit, Tick, PollStep,
     ReadOwned, GetStatus, SyncRow, Query, QueryFails, Import, Insert, FileFails,
     ImportsDone, Back, Throw, vars
<1>2. /\ \A p, q \in Polls : pc[p] # "idle" /\ pc[q] # "idle" => p = q
      /\ \A f \in Files : media[f] <= 1
      /\ \A p \in Polls : pc[p] \in {"import", "insert"} =>
            \A f \in todo[p] : media[f] = 0
  BY <1>1 DEF AloneInv
<1>a. ASSUME UNCHANGED media,
             \A q \in Polls : pc'[q] # "idle" => pc[q] # "idle",
             \A q \in Polls : pc'[q] \in {"import", "insert"} =>
                pc[q] \in {"import", "insert"} /\ todo'[q] \subseteq todo[q]
      PROVE  Goal
  BY <1>2, <1>a
<1>3. CASE JobStep \/ Leave \/ Visit \/ UNCHANGED vars
  BY <1>2, <1>3 DEF JobStep, Leave, Visit, vars
<1>4. ASSUME NEW p \in Polls, Tick(p)
      PROVE  Goal
  <2>1. \A q \in Polls : pc[q] = "idle"
    BY <1>4 DEF Tick
  <2> QED
    BY <1>0, <1>2, <1>4, <2>1 DEF Tick
<1>5. ASSUME NEW p \in Polls, ReadOwned(p) \/ GetStatus(p) \/ SyncRow(p) \/ QueryFails(p)
      PROVE  Goal
  <2>1. UNCHANGED media /\ pc[p] # "idle"
    BY <1>5 DEF ReadOwned, GetStatus, SyncRow, QueryFails
  <2>2. \A q \in Polls : /\ q # p => pc'[q] = pc[q] /\ todo'[q] = todo[q]
                         /\ pc'[p] \notin {"import", "insert"}
    BY <1>0, <1>5 DEF ReadOwned, GetStatus, SyncRow, QueryFails
  <2> QED
    BY <1>a, <2>1, <2>2
<1>6. ASSUME NEW p \in Polls, Query(p)
      PROVE  Goal
  <2>1. CASE Rows # {}
    BY <1>0, <1>2, <1>6, <2>1 DEF Query
  <2>2. CASE Rows = {}
    <3>1. \A f \in Files : media[f] = 0
      BY <1>0, <2>2 DEF Rows
    <3> QED
      BY <1>0, <1>2, <1>6, <2>2, <3>1 DEF Query
  <2> QED
    BY <2>1, <2>2
<1>7. ASSUME NEW p \in Polls, Import(p) \/ ImportsDone(p) \/ FileFails(p)
      PROVE  Goal
  <2>1. UNCHANGED media /\ pc[p] \in {"import", "insert"}
    BY <1>7 DEF Import, ImportsDone, FileFails
  <2>2. /\ pc' \in {[pc EXCEPT ![p] = "insert"], [pc EXCEPT ![p] = "import"],
                    [pc EXCEPT ![p] = "back"]}
        /\ todo' \in {todo, [todo EXCEPT ![p] = todo[p] \ {File(p)}]}
    BY <1>7 DEF Import, ImportsDone, FileFails, NextFile
  <2>3. \A q \in Polls : todo'[q] \subseteq todo[q]
    BY <1>0, <2>2
  <2>4. \A q \in Polls : /\ pc'[q] # "idle" => pc[q] # "idle"
                         /\ pc'[q] \in {"import", "insert"} => pc[q] \in {"import", "insert"}
    BY <1>0, <2>1, <2>2
  <2> QED
    BY <1>a, <2>1, <2>3, <2>4
<1>8. ASSUME NEW p \in Polls, Insert(p)
      PROVE  Goal
  <2>1. pc[p] = "insert" /\ File(p) \in todo[p] /\ File(p) \in Files
    BY <1>0, <1>8, FileLeft DEF Insert, FreshInv
  <2>2. media' = [media EXCEPT ![File(p)] = media[File(p)] + 1]
    BY <1>8, <2>1, RowsInsert
  <2>3. /\ pc' = [pc EXCEPT ![p] = "import"]
        /\ todo' = [todo EXCEPT ![p] = todo[p] \ {File(p)}]
    BY <1>8 DEF Insert, NextFile
  <2>4. media[File(p)] = 0
    BY <1>2, <2>1
  <2>5. \A f \in Files : media'[f] <= 1
    BY <1>0, <1>2, <2>1, <2>2, <2>4
  <2>6. \A q \in Polls : pc'[q] # "idle" => q = p
    BY <1>0, <1>2, <2>1, <2>3
  <2>7. \A f \in todo'[p] : media'[f] = 0
    BY <1>0, <1>2, <2>1, <2>2, <2>3
  <2> QED
    BY <2>5, <2>6, <2>7
<1>9. ASSUME NEW p \in Polls, Back(p) \/ Throw(p)
      PROVE  Goal
  <2>1. UNCHANGED media /\ pc' = [pc EXCEPT ![p] = "idle"]
        /\ todo' = [todo EXCEPT ![p] = {}]
    BY <1>9 DEF Back, Throw, Reset
  <2>2. \A q \in Polls : pc'[q] # "idle" => q # p /\ pc'[q] = pc[q] /\ todo'[q] = todo[q]
    BY <1>0, <2>1
  <2> QED
    BY <1>2, <2>1, <2>2
<1> QED
  BY <1>3, <1>4, <1>5, <1>6, <1>7, <1>8, <1>9 DEF Next, PollStep

----------------------------------------------------------------------------
(* The end of the job *)

\* What the job's status was when it ended, it stays.
LEMMA FinalStep == TypeOK /\ FinalInv /\ [Next]_vars => FinalInv'
<1> SUFFICES ASSUME TypeOK, FinalInv, [Next]_vars, reruns' = 0
             PROVE  FinalInv'
  BY DEF FinalInv
<1> USE DEF FinalInv, Terminal, Persisted, polls, page, site, job
<1>0. got \in [Polls -> Statuses] /\ status \in Statuses /\ reruns \in Nat
  BY Params DEF TypeOK
<1>1. CASE JobStep
  <2>1. UNCHANGED <<row, got>> /\ J!Next
    BY <1>1 DEF JobStep
  <2>2. reruns = 0 /\ (status \in Terminal => status' = status)
    BY <1>0, <2>1 DEF J!Next, J!Start, J!Rerun, J!Store, J!End
  <2> QED
    BY <2>1, <2>2
<1>3. CASE Leave \/ Visit \/ UNCHANGED vars
  BY <1>3 DEF Leave, Visit, vars
<1>4. ASSUME NEW p \in Polls,
             Tick(p) \/ ReadOwned(p) \/ Query(p) \/ QueryFails(p) \/ Import(p)
             \/ Insert(p) \/ FileFails(p) \/ ImportsDone(p)
      PROVE  FinalInv'
  <2>1. UNCHANGED <<job, row, got>>
    BY <1>4 DEF Tick, ReadOwned, Query, QueryFails, Import, Insert, FileFails,
       ImportsDone
  <2> QED
    BY <2>1
<1>5. ASSUME NEW p \in Polls, GetStatus(p)
      PROVE  FinalInv'
  BY <1>0, <1>5 DEF GetStatus
<1>6. ASSUME NEW p \in Polls, SyncRow(p)
      PROVE  FinalInv'
  <2>1. UNCHANGED <<job, got>> /\ row' \in {row, got[p]}
    BY <1>6 DEF SyncRow
  <2> QED
    BY <2>1
<1>7. ASSUME NEW p \in Polls, Back(p) \/ Throw(p)
      PROVE  FinalInv'
  <2>1. UNCHANGED <<job, row>> /\ got' = [got EXCEPT ![p] = "queued"]
    BY <1>7 DEF Back, Throw, Reset
  <2> QED
    BY <1>0, <2>1
<1> QED
  BY <1>1, <1>3, <1>4, <1>5, <1>6, <1>7 DEF Next, PollStep

\* What EndInv asks for when no two polls overlap and nothing fails.
End ==
    /\ \A p \in Polls : RowFollows(p)
    /\ AllOrNone
    /\ timer => text # "gone"
    /\ Stopped => EndSeen

\* The poll under way is the only one, and the page waits for it.
LEMMA OnlyPoll ==
    ASSUME End, AloneInv, ~overlap, NEW p \in Polls, pc[p] # "idle"
    PROVE  /\ ~Stopped
           /\ \A q \in Polls : pc[q] # "idle" => q = p
BY DEF End, EndSeen, AloneInv

\* Before the job has ended no file has a row and no page has stopped to poll.
LEMMA NothingYet ==
    ASSUME End, FreshInv, FinalInv, reruns = 0, status \notin Terminal
    PROVE  /\ Rows = {} /\ ~Stopped
           /\ \A q \in Polls : got[q] \notin Terminal /\ ~Importing(q)
BY DEF End, EndSeen, AllOrNone, FinalInv, FreshInv, Terminal, Importing

\* Without overlap and fault the poll's rows grow to those of all files, and the
\* page sees the end.
LEMMA EndStep ==
    IInv /\ [Next]_vars => EndInv'
<1> SUFFICES ASSUME IInv, [Next]_vars, ~overlap', faults' = 0, reruns' = 0
             PROVE  End'
  BY DEF EndInv, End
<1> USE Params DEF IInv, GoTo, polls, page, site, job
<1>0. /\ pc \in [Polls -> {"idle", "own", "get", "sync", "query", "import", "insert", "back"}]
      /\ todo \in [Polls -> SUBSET Files]
      /\ got \in [Polls -> Statuses] /\ owned \in [Polls -> Statuses]
      /\ result \in [Polls -> SUBSET Files]
      /\ status \in Statuses /\ faults \in Nat /\ reruns \in Nat
  BY DEF TypeOK
<1>1. ~overlap /\ faults = 0 /\ reruns = 0 /\ \A kind \in FaultKinds : ~Fault(kind)
  <2>1. ~overlap
    BY DEF Next, JobStep, Leave, Visit, Tick, PollStep,
       ReadOwned, GetStatus, SyncRow, Query, QueryFails, Import, Insert, FileFails,
       ImportsDone, Back, Throw, vars
  <2>2. \A kind \in FaultKinds : ~Fault(kind)
    BY <1>0 DEF Fault
  <2>3. faults' = faults
    BY <2>2 DEF Next, JobStep, Leave, Visit, Tick, PollStep,
       ReadOwned, GetStatus, SyncRow, Query, QueryFails, Import, Insert, FileFails,
       ImportsDone, Back, Throw, vars, FaultKinds
  <2>4. reruns = 0
    BY <1>0, JobOrNot DEF J!Next, J!Start, J!Rerun, J!Store, J!End
  <2> QED
    BY <2>1, <2>2, <2>3, <2>4
<1>2. End
  BY <1>1 DEF EndInv, End
<1>3. CASE JobStep /\ (J!Start \/ J!End)
  <2>1. status \notin Terminal /\ UNCHANGED <<row, media, polls, page>>
    <3>1. status \notin Terminal
      BY <1>3 DEF J!Start, J!End, Terminal, Persisted
    <3> QED
      BY <1>3, <3>1 DEF JobStep
  <2>2. /\ Rows = {} /\ ~Stopped
        /\ \A q \in Polls : got[q] \notin Terminal /\ ~Importing(q)
    BY <1>1, <1>2, <2>1, NothingYet
  <2>3. Rows' = Rows /\ Stopped' = Stopped
    BY <2>1 DEF Rows, Stopped
  <2>4. (\A q \in Polls : RowFollows(q))'
    BY <1>2, <2>1, <2>2, <2>3 DEF End, RowFollows, Importing, Terminal
  <2>5. AllOrNone'
    BY <2>2, <2>3 DEF AllOrNone
  <2> QED
    BY <1>2, <2>1, <2>2, <2>3, <2>4, <2>5 DEF End
<1>4. ASSUME JobStep, NEW a \in Assets, J!Store(a)
      PROVE  End'
  <2>1. UNCHANGED <<status, completed, row, media, polls, page>>
    BY <1>4 DEF J!Store, JobStep
  <2>2. Rows' = Rows /\ Due' = Due /\ Stopped' = Stopped
    BY <2>1 DEF Rows, Due, Stopped
  <2>3. (\A q \in Polls : RowFollows(q))' /\ AllOrNone'
    BY <1>2, <2>1, <2>2 DEF End, RowFollows, AllOrNone, Importing
  <2>4. (Stopped => EndSeen)'
    BY <1>2, <2>1, <2>2 DEF End, EndSeen
  <2> QED
    BY <1>2, <2>1, <2>3, <2>4 DEF End
<1>5. CASE Leave \/ Visit \/ UNCHANGED vars
  <2>1. UNCHANGED <<job, row, media, polls>>
    BY <1>5 DEF Leave, Visit, vars
  <2>2. Rows' = Rows /\ Due' = Due
    BY <2>1 DEF Rows, Due
  <2>3. (\A q \in Polls : RowFollows(q))' /\ AllOrNone'
    BY <1>2, <2>1, <2>2 DEF End, RowFollows, AllOrNone, Importing
  <2>4. (timer => text # "gone")' /\ (Stopped => EndSeen)'
    <3>1. CASE Leave
      BY <3>1 DEF Leave, Stopped
    <3>2. CASE Visit
      BY <3>2 DEF Visit, Stopped
    <3>3. CASE UNCHANGED vars
      BY <1>2, <2>2, <3>3 DEF vars, Stopped, EndSeen, End
    <3> QED
      BY <1>5, <3>1, <3>2, <3>3
  <2> QED
    BY <2>3, <2>4 DEF End
<1>6. ASSUME NEW p \in Polls, Tick(p)
      PROVE  End'
  <2>1. /\ \A q \in Polls : pc[q] = "idle"
        /\ timer /\ pc' = [pc EXCEPT ![p] = "own"]
        /\ UNCHANGED <<job, site, owned, got, todo, result, page>>
    BY <1>1, <1>6 DEF Tick
  <2>2. Rows' = Rows /\ Due' = Due
    BY <2>1 DEF Rows, Due
  <2>3. \A q \in Polls : pc'[q] \in {"idle", "own"}
    BY <1>0, <2>1
  <2>4. (\A q \in Polls : RowFollows(q))'
    BY <2>3 DEF RowFollows, Importing
  <2>5. AllOrNone'
    BY <1>2, <2>1, <2>2, <2>3 DEF End, AllOrNone, Importing
  <2> QED
    BY <1>2, <2>1, <2>4, <2>5 DEF End, Stopped
<1>7. ASSUME NEW p \in Polls,
             ReadOwned(p) \/ GetStatus(p) \/ SyncRow(p) \/ Query(p) \/ Import(p)
             \/ Insert(p) \/ ImportsDone(p),
             RowFollows(p)', AllOrNone'
      PROVE  End'
  <2>1. pc[p] # "idle" /\ UNCHANGED page
    BY <1>7 DEF ReadOwned, GetStatus, SyncRow, Query, Import, Insert, ImportsDone
  <2>2. /\ ~Stopped
        /\ \A q \in Polls : pc[q] # "idle" => q = p
    BY <1>1, <1>2, <2>1, OnlyPoll
  <2>3. \A q \in Polls : q # p => pc'[q] = "idle"
    <3>1. \A q \in Polls : q # p => pc'[q] = pc[q]
      BY <1>0, <1>7 DEF ReadOwned, GetStatus, SyncRow, Query, Import, Insert,
         ImportsDone
    <3> QED
      BY <2>2, <3>1
  <2>4. (\A q \in Polls : RowFollows(q))'
    BY <1>7, <2>3 DEF RowFollows, Importing
  <2> QED
    BY <1>2, <1>7, <2>1, <2>2, <2>4 DEF End, Stopped
<1>8. ASSUME NEW p \in Polls, ReadOwned(p) \/ GetStatus(p) \/ SyncRow(p)
      PROVE  End'
  <2>1. /\ UNCHANGED <<job, media, result>>
        /\ pc[p] \in {"own", "get", "sync"} /\ result[p] = {}
    BY <1>8 DEF ReadOwned, GetStatus, SyncRow, FreshInv
  <2>2. Rows' = Rows /\ Due' = Due
    BY <2>1 DEF Rows, Due
  <2>3. \A q \in Polls : ~Importing(q)
    <3>1. \A q \in Polls : pc[q] # "idle" => q = p
      BY <1>1, <1>2, <2>1, OnlyPoll
    <3> QED
      BY <2>1, <3>1 DEF Importing
  <2>4. AllOrNone'
    BY <1>2, <2>1, <2>2, <2>3 DEF End, AllOrNone
  <2>5. RowFollows(p)'
    <3>1. CASE ReadOwned(p)
      BY <1>0, <3>1 DEF ReadOwned, RowFollows, Importing
    <3>2. CASE GetStatus(p)
      <4>1. /\ pc[p] = "get" /\ row' = row /\ got'[p] = status /\ todo'[p] = Due
            /\ pc'[p] \in {"sync", "query", "back"}
            /\ pc'[p] \in {"query", "back"} => status = owned[p]
            /\ pc'[p] = "back" => status \notin Persisted
        BY <1>0, <3>2 DEF GetStatus, Due
      <4> QED
        BY <1>0, <1>2, <2>1, <2>2, <4>1 DEF RowFollows, Importing, End
    <3>3. CASE SyncRow(p)
      <4>1. /\ pc' = [pc EXCEPT ![p] = IF got[p] \in Persisted THEN "query" ELSE "back"]
            /\ row' = got[p] /\ UNCHANGED <<got, todo>> /\ pc[p] = "sync"
        BY <1>1, <3>3 DEF SyncRow, FaultKinds
      <4> QED
        BY <1>0, <1>2, <2>1, <2>2, <4>1 DEF RowFollows, Importing, End
    <3> QED
      BY <1>8, <3>1, <3>2, <3>3
  <2> QED
    BY <1>7, <1>8, <2>4, <2>5
<1>9. ASSUME NEW p \in Polls, Query(p)
      PROVE  End'
  <2>1. /\ UNCHANGED <<job, site, owned, got>>
        /\ pc[p] = "query" /\ result[p] = {} /\ todo[p] = Due
        /\ got[p] \in Persisted /\ row = got[p]
    BY <1>2, <1>9 DEF Query, FreshInv, End, RowFollows
  <2>2. Rows' = Rows /\ Due' = Due
    BY <2>1 DEF Rows, Due
  <2>3. \A q \in Polls : ~Importing(q)
    <3>1. \A q \in Polls : pc[q] # "idle" => q = p
      BY <1>1, <1>2, <2>1, OnlyPoll
    <3> QED
      BY <2>1, <3>1 DEF Importing
  <2>4. AllOrNone'
    BY <1>2, <2>1, <2>2, <2>3 DEF End, AllOrNone
  <2>5. CASE Rows # {}
    <3>1. /\ pc' = [pc EXCEPT ![p] = "back"] /\ result' = [result EXCEPT ![p] = Rows]
          /\ Rows = Due
      BY <1>2, <1>9, <2>3, <2>5 DEF Query, End, AllOrNone
    <3>2. RowFollows(p)'
      BY <1>0, <2>1, <2>2, <3>1 DEF RowFollows, Importing
    <3> QED
      BY <1>7, <1>9, <2>4, <3>2
  <2>6. CASE Rows = {}
    <3>1. pc' = [pc EXCEPT ![p] = "import"] /\ UNCHANGED <<result, todo>>
      BY <1>9, <2>6 DEF Query
    <3>2. RowFollows(p)'
      BY <1>0, <2>1, <2>2, <2>6, <3>1 DEF RowFollows, Importing
    <3> QED
      BY <1>7, <1>9, <2>4, <3>2
  <2> QED
    BY <2>5, <2>6
<1>10. ASSUME NEW p \in Polls, Import(p) \/ ImportsDone(p)
       PROVE  End'
  <2>1. /\ UNCHANGED <<job, row, media, owned, got, result>>
        /\ pc[p] = "import" /\ Importing(p)
    BY <1>10 DEF Import, ImportsDone, Importing
  <2>2. /\ Rows = Due \ todo[p] /\ todo[p] \subseteq Due /\ result[p] = Rows
        /\ row = got[p] /\ got[p] \in Persisted
    BY <1>2, <2>1 DEF End, RowFollows, FreshInv
  <2>3. Rows' = Rows /\ Due' = Due
    BY <2>1 DEF Rows, Due
  <2>4. status \in Persisted
    BY <1>1, <2>2 DEF FinalInv, Terminal
  <2>6. CASE Import(p)
    <3>1. pc' = [pc EXCEPT ![p] = "insert"] /\ todo' = todo
      BY <2>6 DEF Import
    <3>2. RowFollows(p)'
      BY <1>0, <2>1, <2>2, <2>3, <3>1 DEF RowFollows, Importing
    <3>3. AllOrNone'
      BY <1>0, <2>1, <2>4, <3>1 DEF AllOrNone, Importing
    <3> QED
      BY <1>7, <2>6, <3>2, <3>3
  <2>7. CASE ImportsDone(p)
    <3>1. pc' = [pc EXCEPT ![p] = "back"] /\ todo' = todo /\ todo[p] = {}
      BY <2>7 DEF ImportsDone
    <3>2. Rows = Due
      BY <1>0, <2>2, <3>1 DEF Due
    <3>3. RowFollows(p)'
      BY <1>0, <2>1, <2>2, <2>3, <3>1, <3>2 DEF RowFollows, Importing
    <3>4. AllOrNone'
      BY <2>1, <2>3, <2>4, <3>2 DEF AllOrNone
    <3> QED
      BY <1>7, <2>7, <3>3, <3>4
  <2> QED
    BY <1>10, <2>6, <2>7
<1>11. ASSUME NEW p \in Polls, Insert(p)
       PROVE  End'
  <2>1. /\ UNCHANGED <<job, row, owned, got>>
        /\ pc[p] = "insert" /\ Importing(p) /\ File(p) \in todo[p]
    BY <1>11, FileLeft DEF Insert, Importing, FreshInv
  <2>2. /\ Rows = Due \ todo[p] /\ todo[p] \subseteq Due /\ result[p] = Rows
        /\ row = got[p] /\ got[p] \in Persisted
    BY <1>2, <2>1 DEF End, RowFollows, FreshInv
  <2>3. /\ pc' = [pc EXCEPT ![p] = "import"]
        /\ todo' = [todo EXCEPT ![p] = todo[p] \ {File(p)}]
        /\ result' = [result EXCEPT ![p] = result[p] \cup {File(p)}]
        /\ Rows' = Rows \cup {File(p)} /\ Due' = Due
    <3>1. ~Fault("io")
      BY <1>1 DEF FaultKinds
    <3> QED
      BY <1>0, <1>11, <2>1, <3>1, RowsInsert DEF Insert, NextFile, Due
  <2>4. File(p) \in Due /\ Due \ (todo[p] \ {File(p)}) = (Due \ todo[p]) \cup {File(p)}
    BY <2>1, <2>2
  <2>5. RowFollows(p)'
    BY <1>0, <2>1, <2>2, <2>3, <2>4 DEF RowFollows, Importing
  <2>6. AllOrNone'
    <3>1. status \in Persisted
      BY <1>1, <2>2 DEF FinalInv, Terminal
    <3>2. Importing(p)'
      BY <1>0, <2>3 DEF Importing
    <3> QED
      BY <2>1, <3>1, <3>2 DEF AllOrNone
  <2> QED
    BY <1>7, <1>11, <2>5, <2>6
<1>12. ASSUME NEW p \in Polls, Back(p)
       PROVE  End'
  <2>1. /\ pc[p] = "back" /\ pc' = [pc EXCEPT ![p] = "idle"]
        /\ UNCHANGED <<job, site>>
    BY <1>12 DEF Back, Reset
  <2>2. /\ ~Stopped
        /\ \A q \in Polls : pc[q] # "idle" => q = p
    BY <1>1, <1>2, <2>1, OnlyPoll
  <2>3. \A q \in Polls : pc'[q] = "idle" /\ ~Importing(q)
    BY <1>0, <2>1, <2>2 DEF Importing
  <2>4. Rows' = Rows /\ Due' = Due
    BY <2>1 DEF Rows, Due
  <2>5. (\A q \in Polls : RowFollows(q))'
    BY <2>3 DEF RowFollows, Importing
  <2>6. AllOrNone'
    BY <1>2, <2>1, <2>3, <2>4 DEF End, AllOrNone
  <2>7. /\ text' = IF text = "gone" THEN text ELSE got[p]
        /\ timer' = (timer /\ got[p] \notin Terminal)
        /\ shown' = IF got[p] \in Terminal /\ text # "gone" THEN result[p] ELSE shown
    BY <1>12 DEF Back, Render
  <2>8. (timer => text # "gone")'
    BY <1>0, <1>2, <2>7 DEF End, Statuses, Terminal, Persisted
  <2>9. ASSUME Stopped'
        PROVE  EndSeen'
    <3>1. text # "gone" /\ timer /\ got[p] \in Terminal
      BY <2>2, <2>7, <2>9 DEF Stopped
    <3>2. status = got[p] /\ row = got[p]
      BY <1>1, <1>2, <2>1, <3>1 DEF FinalInv, End, RowFollows
    <3>3. result[p] = Due
      <4>1. CASE got[p] \in Persisted
        BY <1>2, <2>1, <4>1 DEF End, RowFollows
      <4>2. CASE got[p] = "failed"
        <5>1. result[p] = {} /\ completed = {}
          BY <1>2, <2>1, <3>2, <4>2 DEF End, RowFollows, RecordInv, Persisted
        <5> QED
          BY <5>1 DEF Due
      <4> QED
        BY <3>1, <4>1, <4>2 DEF Terminal
    <3> QED
      BY <2>1, <2>3, <2>4, <2>7, <3>1, <3>2, <3>3 DEF EndSeen
  <2> QED
    BY <2>5, <2>6, <2>8, <2>9 DEF End
<1>13. CASE JobStep
  BY <1>0, <1>1, <1>3, <1>4, <1>13 DEF JobStep, J!Next, J!Rerun
<1> QED
  BY <1>1, <1>5, <1>6, <1>8, <1>9, <1>10, <1>11, <1>12, <1>13
     DEF Next, PollStep, QueryFails, FileFails, Throw, FaultKinds

----------------------------------------------------------------------------
(* Theorems *)

\* IInv is an invariant of the polls, the job and the page.
THEOREM Invariance == Spec => []IInv
<1>1. IInv /\ [Next]_vars => IInv'
  BY TypeStep, RecordStep, FreshStep, BackedStep, AloneStep, FinalStep, EndStep DEF IInv
<1> QED
  BY InitIInv, <1>1, PTL DEF Spec

\* Every variable keeps its type (TypeOK).
THEOREM TypeCorrect == Spec => []TypeOK
<1>1. IInv => TypeOK
  BY DEF IInv
<1> QED
  BY Invariance, <1>1, PTL

\* What the page shows with a permanent URL has its MemberMedia row, and every
\* row its imported file (persistJobAssets), which the worker has produced, whatever
\* polls overlap, whatever fails and however often the job is run.
THEOREM PermanentBacked == Spec => []PermanentIsBacked
<1>1. IInv => PermanentIsBacked
  BY DEF IInv, BackedInv
<1> QED
  BY Invariance, <1>1, PTL

\* As long as no two polls overlap, persistJobAssets gives a file one row at
\* most, whatever fails.
THEOREM RowsOnce == Spec => []OneRowWithoutOverlap
<1>1. IInv => OneRowWithoutOverlap
  BY DEF IInv, AloneInv, OneRowWithoutOverlap
<1> QED
  BY Invariance, <1>1, PTL

\* Without overlap, fault and rerun, a page that has stopped to poll shows the
\* job's end and all files of the completed assets, and the Jobs row agrees.
THEOREM EndShown == Spec => []PageShowsTheEnd
<1>1. IInv => PageShowsTheEnd
  BY DEF IInv, EndInv, Stopped, EndSeen, PageShowsTheEnd, Due
<1> QED
  BY Invariance, <1>1, PTL
=============================================================================
