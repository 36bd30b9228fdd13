---------------------------- MODULE MediaPersist ----------------------------
(***************************************************************************)
(* From a job's end to the media a member keeps: the generator page's      *)
(* polling (pages/Generator.example.js startPolling), the getJobStatus web *)
(* method it calls, and lib/mediaUpload.js persistJobAssets, which imports *)
(* the short-lived fal files into the Wix Media Manager and notes each     *)
(* imported file in a MemberMedia row.                                     *)
(*                                                                         *)
(* The job does what JobRecord allows, which JobWorker implements.         *)
(*                                                                         *)
(* setInterval starts a poll every 3 seconds whether or not the last one   *)
(* has come back, so polls of one page overlap: each is an invocation on   *)
(* its own, and each await is an action.  A poll's number is reused when   *)
(* it has come back.                                                       *)
(***************************************************************************)
EXTENDS Integers, FiniteSets

CONSTANTS Polls,     \* bound: polls under way at the same time
          NFiles,    \* the job's files
          MaxVisits, \* bound: times that a page of the member polls the job
          Asset,     \* Asset[f]: the aspect ratio file f belongs to
          MaxReruns, \* JobRecord's bound
          MaxFaults, \* bound: faults in one behaviour
          Faults     \* which kinds of fault can happen

\* io: a wixData operation, an import or the GET fails.
\* crash: an invocation dies, or runs into Velo's time limit.
FaultKinds == {"io", "crash"}

Files  == 1..NFiles
Assets == {Asset[f] : f \in Files}

ASSUME MediaAssumption ==
    /\ NFiles \in Nat
    /\ DOMAIN Asset = Files
    /\ MaxReruns \in Nat
    /\ MaxVisits \in Nat /\ MaxFaults \in Nat /\ Faults \subseteq FaultKinds

VARIABLES status,    \* the job's status in the job service
          completed, \* the assets that are completed there, once it has ended
          stored,    \* the assets whose files have been produced
          reruns,    \* runs of the job that were not the first
          row,       \* the status in the member's Jobs row
          imported,  \* files the Media Manager has
          media,     \* media[f]: MemberMedia rows for file f
          pc,        \* where each poll stands
          owned,     \* the Jobs row's status as the poll has read it
          got,       \* the job's status as the poll was answered
          todo,      \* the files the poll's loop has yet to visit
          result,    \* the files the poll will hand to the page
          timer,     \* the page's interval is running
          text,      \* what the page says: a status, "lost" or "gone"
          visits,    \* pages that have polled the job
          shown,     \* files the page shows with a permanent URL
          overlap,   \* two polls have been under way at the same time
          faults     \* faults so far

job   == <<status, completed, stored, reruns>>
site  == <<row, imported, media>>
polls == <<pc, owned, got, todo, result>>
page  == <<timer, text, visits, shown>>
vars  == <<job, site, polls, page, overlap, faults>>

Persisted == {"completed", "partial"}
Terminal  == Persisted \cup {"failed"}
Statuses  == {"queued", "running"} \cup Terminal

J == INSTANCE JobRecord

Init ==
    /\ J!Init
    /\ row = "queued" /\ imported = {} /\ media = [f \in Files |-> 0]
    /\ pc = [p \in Polls |-> "idle"]
    /\ owned = [p \in Polls |-> "queued"]
    /\ got = [p \in Polls |-> "queued"]
    /\ todo = [p \in Polls |-> {}]
    /\ result = [p \in Polls |-> {}]
    /\ timer = TRUE /\ text = "queued" /\ visits = 1 /\ shown = {}
    /\ overlap = FALSE
    /\ faults = 0

GoTo(p, at) == pc' = [pc EXCEPT ![p] = at]

Fault(kind) ==
    /\ kind \in Faults
    /\ faults < MaxFaults
    /\ faults' = faults + 1

Rows == {f \in Files : media[f] > 0}

----------------------------------------------------------------------------
(* getJobStatus *)

\* The interval fires.
Tick(p) ==
    /\ timer
    /\ pc[p] = "idle"
    /\ GoTo(p, "own")
    /\ overlap' = (overlap \/ \E q \in Polls : pc[q] # "idle")
    /\ UNCHANGED <<job, site, owned, got, todo, result, page, faults>>

\* get('Jobs'): the row is the member's.
ReadOwned(p) ==
    /\ pc[p] = "own"
    /\ GoTo(p, "get")
    /\ owned' = [owned EXCEPT ![p] = row]
    /\ UNCHANGED <<job, site, got, todo, result, page, overlap, faults>>

\* GET /v1/jobs/{jobId}; the row read before is not looked at again.
GetStatus(p) ==
    /\ pc[p] = "get"
    /\ GoTo(p, IF status # owned[p] THEN "sync"
               ELSE IF status \in Persisted THEN "query" ELSE "back")
    /\ got' = [got EXCEPT ![p] = status]
    /\ owned' = [owned EXCEPT ![p] = "queued"]
    /\ todo' = [todo EXCEPT ![p] = {f \in Files : Asset[f] \in completed}]
    /\ UNCHANGED <<job, site, result, page, overlap, faults>>

\* Mutant: files are imported only by a poll that finds the status unchanged.
SyncRowOnly(p) ==
    /\ pc[p] = "sync"
    /\ GoTo(p, "back")
    /\ row' = got[p]
    /\ UNCHANGED <<job, imported, media, owned, got, todo, result, page, overlap, faults>>

\* update('Jobs') with the status; a failure is swallowed.
SyncRow(p) ==
    /\ pc[p] = "sync"
    /\ GoTo(p, IF got[p] \in Persisted THEN "query" ELSE "back")
    /\ \/ row' = got[p] /\ UNCHANGED faults
       \/ UNCHANGED row /\ Fault("io")
    /\ UNCHANGED <<job, imported, media, owned, got, todo, result, page, overlap>>

----------------------------------------------------------------------------
(* persistJobAssets *)

\* Mutant: rows that are there already are not looked for.
QueryNothing(p) ==
    /\ pc[p] = "query"
    /\ GoTo(p, "import")
    /\ UNCHANGED <<job, site, owned, got, todo, result, page, overlap, faults>>

\* query(MemberMedia): any row ends the matter, whatever else is completed, and
\* the rows are the result.
Query(p) ==
    /\ pc[p] = "query"
    /\ IF Rows # {}
       THEN /\ GoTo(p, "back")
            /\ result' = [result EXCEPT ![p] = Rows]
            /\ todo' = [todo EXCEPT ![p] = {}]
       ELSE GoTo(p, "import") /\ UNCHANGED <<result, todo>>
    /\ UNCHANGED <<job, site, owned, got, page, overlap, faults>>

\* The query fails: getJobStatus goes on without media.
QueryFails(p) ==
    /\ pc[p] = "query"
    /\ Fault("io")
    /\ GoTo(p, "back")
    /\ todo' = [todo EXCEPT ![p] = {}]
    /\ UNCHANGED <<job, site, owned, got, result, page, overlap>>

\* The file at hand in the loops over the assets and their files; which one comes
\* first plays no part.
File(p) == CHOOSE f \in todo[p] : TRUE

NextFile(p) == todo' = [todo EXCEPT ![p] = @ \ {File(p)}]

\* importFile
Import(p) ==
    /\ pc[p] = "import"
    /\ todo[p] # {}
    /\ GoTo(p, "insert")
    /\ imported' = imported \cup {File(p)}
    /\ UNCHANGED <<job, row, media, owned, got, todo, result, page, overlap, faults>>

\* insert(MemberMedia).  Reported as failed, it leaves a row whose file is not
\* handed to the page.
Insert(p) ==
    /\ pc[p] = "insert"
    /\ GoTo(p, "import")
    /\ media' = [media EXCEPT ![File(p)] = @ + 1]
    /\ \/ result' = [result EXCEPT ![p] = @ \cup {File(p)}] /\ UNCHANGED faults
       \/ Fault("io") /\ UNCHANGED result
    /\ NextFile(p)
    /\ UNCHANGED <<job, row, imported, owned, got, page, overlap>>

\* Mutant: a file whose import or insert failed is handed to the page all the
\* same.
FileFailsSilently(p) ==
    /\ pc[p] \in {"import", "insert"} /\ todo[p] # {}
    /\ Fault("io")
    /\ GoTo(p, "import")
    /\ result' = [result EXCEPT ![p] = @ \cup {File(p)}]
    /\ NextFile(p)
    /\ UNCHANGED <<job, site, owned, got, page, overlap>>

\* importFile or the insert fails: the loop goes on with the next file.
FileFails(p) ==
    /\ pc[p] \in {"import", "insert"} /\ todo[p] # {}
    /\ Fault("io")
    /\ GoTo(p, "import")
    /\ NextFile(p)
    /\ UNCHANGED <<job, site, owned, got, result, page, overlap>>

ImportsDone(p) ==
    /\ pc[p] = "import"
    /\ todo[p] = {}
    /\ GoTo(p, "back")
    /\ UNCHANGED <<job, site, owned, got, todo, result, page, overlap, faults>>

----------------------------------------------------------------------------
(* The page *)

Reset(p) ==
    /\ GoTo(p, "idle")
    /\ owned' = [owned EXCEPT ![p] = "queued"]
    /\ got' = [got EXCEPT ![p] = "queued"]
    /\ todo' = [todo EXCEPT ![p] = {}]
    /\ result' = [result EXCEPT ![p] = {}]

\* With any media the page renders exactly these, else the fal URLs; a page
\* that is gone renders nothing.
Render(p) ==
    shown' = IF got[p] \in Terminal /\ text # "gone" THEN result[p] ELSE shown

\* Mutant: the timer is cleared by "completed" only.
BackOnCompleted(p) ==
    /\ pc[p] = "back"
    /\ Reset(p)
    /\ text' = IF text = "gone" THEN text ELSE got[p]
    /\ timer' = (timer /\ got[p] # "completed")
    /\ Render(p)
    /\ UNCHANGED <<job, site, visits, overlap, faults>>

\* The answer arrives.
Back(p) ==
    /\ pc[p] = "back"
    /\ Reset(p)
    /\ text' = IF text = "gone" THEN text ELSE got[p]
    /\ timer' = (timer /\ got[p] \notin Terminal)
    /\ Render(p)
    /\ UNCHANGED <<job, site, visits, overlap, faults>>

\* get('Jobs') or the GET fails, or the invocation dies: the page's poll throws.
Throw(p) ==
    /\ \/ pc[p] \in {"own", "get"} /\ Fault("io")
       \/ pc[p] # "idle" /\ Fault("crash")
    /\ Reset(p)
    /\ timer' = FALSE
    /\ text' = IF text = "gone" THEN text ELSE "lost"
    /\ UNCHANGED <<job, site, visits, shown, overlap>>

\* The member leaves the page; polls under way run on.
Leave ==
    /\ text # "gone"
    /\ text' = "gone"
    /\ timer' = FALSE
    /\ shown' = {}
    /\ UNCHANGED <<job, site, polls, visits, overlap, faults>>

Quiet == \A p \in Polls : pc[p] = "idle"

\* Another page polls the same job (docs/wix-integration/SETUP.md:98), here when
\* the polls of the last one have come back.
Visit ==
    /\ ~timer /\ Quiet
    /\ visits < MaxVisits
    /\ visits' = visits + 1
    /\ timer' = TRUE /\ text' = "queued" /\ shown' = {}
    /\ UNCHANGED <<job, site, polls, overlap, faults>>

\* The worker changes the record; how is JobRecord's matter.
JobStep == J!Next /\ UNCHANGED <<site, polls, page, overlap, faults>>

PollStep(p) ==
    \/ ReadOwned(p) \/ GetStatus(p) \/ SyncRow(p)
    \/ Query(p) \/ QueryFails(p)
    \/ Import(p) \/ Insert(p) \/ FileFails(p) \/ ImportsDone(p)
    \/ Back(p) \/ Throw(p)

Next == JobStep \/ Leave \/ Visit \/ \E p \in Polls : Tick(p) \/ PollStep(p)

\* The interval keeps firing and an invocation goes on until it returns.  The
\* job need not end.
Spec ==
    /\ Init /\ [][Next]_vars
    /\ \A p \in Polls : WF_vars(Tick(p) \/ PollStep(p))

----------------------------------------------------------------------------
(* Properties *)

TypeOK ==
    /\ status \in Statuses /\ row \in Statuses
    /\ completed \subseteq Assets /\ stored \subseteq Assets /\ reruns \in 0..MaxReruns
    /\ imported \subseteq Files
    /\ media \in [Files -> Nat]
    /\ pc \in [Polls -> {"idle", "own", "get", "sync", "query", "import", "insert", "back"}]
    /\ owned \in [Polls -> Statuses] /\ got \in [Polls -> Statuses]
    /\ todo \in [Polls -> SUBSET Files]
    /\ result \in [Polls -> SUBSET Files]
    /\ timer \in BOOLEAN /\ text \in Statuses \cup {"lost", "gone"}
    /\ visits \in Nat
    /\ shown \subseteq Files
    /\ overlap \in BOOLEAN
    /\ faults \in 0..MaxFaults

\* Whatever the page shows with a permanent URL has a row, and every row an
\* imported file that the worker has produced, however polls overlap or fail and
\* whatever a rerun makes of the job.
PermanentIsBacked ==
    /\ shown \subseteq Rows
    /\ Rows \subseteq imported
    /\ \A f \in imported : Asset[f] \in stored

\* persistJobAssets is idempotent ("checks if this jobId already has media rows,
\* skips if so", mediaUpload.js:64) as long as no two polls overlap: a file has
\* one row at most.
OneRowWithoutOverlap == ~overlap => \A f \in Files : media[f] <= 1

\* A page that polled to the end of a job that ran once, without overlap or
\* fault, says how the job ended, shows all files of the completed assets with
\* permanent URLs, and leaves the Jobs row with the same status.
PageShowsTheEnd ==
    Quiet /\ ~timer /\ text # "gone" /\ ~overlap /\ faults = 0 /\ reruns = 0 =>
        /\ text = status /\ row = status
        /\ shown = {f \in Files : Asset[f] \in completed}

\* A page does not poll for ever once its job has ended.
PollingEnds == []<>(status \notin Terminal \/ ~timer)
============================================================================
