--------------------------- MODULE BulkIssuance ---------------------------
(***************************************************************************)
(* Bulk credential issuance of the issuance service: a CSV that was        *)
(* uploaded earlier and parked in the cache becomes a file_upload row      *)
(* with one file_data row per recipient, the rows become jobs of the Bull  *)
(* queue `bulk-issuance', and every job mails one credential offer.        *)
(*                                                                         *)
(* The actors are the request handlers issueBulkCredential and             *)
(* retryBulkCredential, the un-awaited dispatchers they leave behind       *)
(* (processInBatches), the queue's worker, which acknowledges a job        *)
(* without awaiting it, so that any number of processIssuanceData calls    *)
(* run interleaved, and deleteIssuanceRecords. PostgreSQL and Redis        *)
(* survive a crash of the service, its memory does not.                    *)
(***************************************************************************)
EXTENDS Integers, FiniteSets

CONSTANTS
  Files,        \* file_upload ids an issue request may create
  Recipients,   \* the lines of the parked CSV
  Retries,      \* the uniqueJobIds that retry requests draw
  BatchSize,    \* ISSUANCE_BATCH_SIZE
  MaxFaults,    \* bound: failures and crashes of the environment
  MaxPurges     \* bound: deleteIssuanceRecords requests

ASSUME ConstantsAssumption ==
  /\ IsFiniteSet(Files)
  /\ IsFiniteSet(Recipients)
  /\ Files \cap Retries = {}
  /\ BatchSize \in Nat \ {0}
  /\ MaxFaults \in Nat
  /\ MaxPurges \in Nat

\* A file_data row is named by its file and its CSV line, a job by the
\* dispatch that created it (the uniqueJobId) and its row.  The first
\* dispatch of a file carries the file's own name.
Rows       == Files \X Recipients
Dispatches == Files \cup Retries
Jobs       == Dispatches \X Rows

FileOf(r)  == r[1]
RowsOf(f)  == {r \in Rows : FileOf(r) = f}

\* FileUploadStatus.  "absent": not created yet, "deleted": purged.
Final      == {"completed", "partially_completed"}
FileStatus == Final \cup {"absent", "started", "interrupted", "deleted"}

\* A file_data row; data is whether credential_data is still there.
RowRecord  == [present : BOOLEAN, status : BOOLEAN, isError : BOOLEAN, data : BOOLEAN]
NoRow      == [present |-> FALSE, status |-> FALSE, isError |-> FALSE, data |-> FALSE]

\* Where the issue request that creates a file stands.
RequestPc  == {"none", "storing", "returning", "interrupting", "returned", "failed"}

\* Where a call of processIssuanceData stands, each at its next await.
JobPc      == {"idle", "lookup", "offer", "mark", "save_ok", "save_error",
               "count", "close_completed", "close_partial"}

\* Wrong on purpose: the new row has no status.
RowWithoutStatus == [present |-> TRUE, isError |-> FALSE, data |-> TRUE]
FreshRow         == [present |-> TRUE, status |-> FALSE, isError |-> FALSE, data |-> TRUE]

VARIABLES
  \* PostgreSQL, Redis
  cached,     \* the parked CSV is still in the cache
  file,       \* file_upload.status
  row,        \* file_data
  queue,      \* jobs waiting in the Bull queue
  active,     \* jobs taken by the worker and not yet acknowledged
  stalled,    \* jobs Bull has put back once (maxStalledCount = 1)
  \* memory of the service
  req,        \* issueBulkCredential, per file
  toStore,    \* rows whose saveFileDetails has not settled yet
  todo,       \* rows a dispatcher has still to enqueue
  payload,    \* rows of a dispatch; their number is the jobs' totalJobs
  withData,   \* rows of a dispatch whose job copied credential_data
  counter,    \* processedJobsCounters
  run,        \* processIssuanceData, per job
  last,       \* calls whose isLastData is set
  purge,      \* file ids read by a running deleteIssuanceRecords
  \* history and bounds
  delivered,  \* credential offers mailed for a row
  disturbed,  \* rows with a known cause for a second offer
  early,      \* files retried while their CSV was still being stored
  faults, purges

store   == <<cached, file, row>>
redis   == <<queue, active, stalled>>
request == <<req, toStore>>
dispatch == <<todo, payload, withData>>
job     == <<counter, run, last>>
history == <<delivered, disturbed, early>>
vars    == <<store, redis, request, dispatch, job, purge, history, faults, purges>>

Init ==
  /\ cached = TRUE
  /\ file = [f \in Files |-> "absent"]
  /\ row = [r \in Rows |-> NoRow]
  /\ queue = {} /\ active = {} /\ stalled = {}
  /\ req = [f \in Files |-> "none"]
  /\ toStore = {}
  /\ todo = [d \in Dispatches |-> {}]
  /\ payload = [d \in Dispatches |-> {}]
  /\ withData = [d \in Dispatches |-> {}]
  /\ counter = [d \in Dispatches |-> 0]
  /\ run = [j \in Jobs |-> "idle"]
  /\ last = {}
  /\ purge = {}
  /\ delivered = [r \in Rows |-> 0]
  /\ disturbed = {}
  /\ early = {}
  /\ faults = 0
  /\ purges = 0

-----------------------------------------------------------------------------
\* What the queries see.

Exists(f)   == file[f] \notin {"absent", "deleted"}
Present(f)  == {r \in RowsOf(f) : row[r].present}

\* Wrong on purpose: only the rows in error.
InError(f) == {r \in Present(f) : row[r].isError}

\* getFailedCredentials and countErrorsForFile share this condition: it
\* holds of a row in error and of a row not finished yet.
Outstanding(f) == {r \in Present(f) : row[r].isError \/ ~row[r].status}

\* A failure of the environment: a query, a call or the process itself.
Fault  == faults < MaxFaults /\ faults' = faults + 1
NoFault == UNCHANGED faults

\* Some job of the row is yet to be enqueued, waiting or running.
InFlight(r) == \E d \in Dispatches :
  r \in todo[d] \/ <<d, r>> \in queue \/ run[<<d, r>>] # "idle"

-----------------------------------------------------------------------------
\* The cache entry of an upload.

\* The TTL of the parked CSV runs out.
CacheExpires ==
  /\ cached
  /\ cached' = FALSE
  /\ UNCHANGED <<file, row, redis, request, dispatch, job, purge, history, faults, purges>>

\* A selective issue request drops the entry and parks the CSV again with
\* the request id in the place of the organisation's: no agent is found.
SelectiveIssue ==
  /\ cached
  /\ cached' = FALSE
  /\ UNCHANGED <<file, row, redis, request, dispatch, job, purge, history, faults, purges>>

-----------------------------------------------------------------------------
\* issueBulkCredential

\* The parked CSV is found and the file_upload row is created.
StartIssue(f) ==
  /\ cached
  /\ req[f] = "none"
  /\ req' = [req EXCEPT ![f] = "storing"]
  /\ file' = [file EXCEPT ![f] = "started"]
  /\ toStore' = toStore \cup RowsOf(f)
  /\ UNCHANGED <<cached, row, redis, dispatch, job, purge, history, faults, purges>>

\* One saveFileDetails of the batch commits.  The rows of a batch are saved
\* concurrently: those under way go on after another one has failed.
StoreRow(r) ==
  /\ r \in toStore
  /\ Exists(FileOf(r))
  /\ toStore' = toStore \ {r}
  /\ row' = [row EXCEPT ![r] = FreshRow]
  /\ UNCHANGED <<cached, file, redis, req, dispatch, job, purge, history, faults, purges>>

\* One saveFileDetails fails: the file is gone (its foreign key) or a fault.
StoreRowFails(r) ==
  /\ r \in toStore
  /\ IF Exists(FileOf(r)) THEN Fault ELSE NoFault
  /\ toStore' = toStore \ {r}
  /\ req' = [req EXCEPT ![FileOf(r)] = IF @ = "storing" THEN "interrupting" ELSE @]
  /\ UNCHANGED <<store, redis, dispatch, job, purge, history, purges>>

\* Every row is stored: getFileDetails reads them back and processInBatches
\* is started without being awaited.
DispatchFile(f) ==
  /\ req[f] = "storing"
  /\ toStore \cap RowsOf(f) = {}
  /\ req' = [req EXCEPT ![f] = "returning"]
  /\ payload' = [payload EXCEPT ![f] = Present(f)]
  /\ todo' = [todo EXCEPT ![f] = Present(f)]
  /\ withData' = [withData EXCEPT ![f] = {r \in Present(f) : row[r].data}]
  /\ UNCHANGED <<store, redis, toStore, job, purge, history, faults, purges>>

\* getFileDetails fails and the catch block sets the status to interrupted.
DispatchFails(f) ==
  /\ req[f] = "storing"
  /\ toStore \cap RowsOf(f) = {}
  /\ Fault
  /\ req' = [req EXCEPT ![f] = "interrupting"]
  /\ UNCHANGED <<store, redis, toStore, dispatch, job, purge, history, purges>>

\* The finally block writes the status the request holds in memory, whatever
\* the jobs have written meanwhile, and the request answers.
FinallyUpdate(f) ==
  /\ Exists(f)
  /\ \/ /\ req[f] = "returning"
        /\ req' = [req EXCEPT ![f] = "returned"]
        /\ file' = [file EXCEPT ![f] = "started"]
     \/ /\ req[f] = "interrupting"
        /\ req' = [req EXCEPT ![f] = "failed"]
        /\ file' = [file EXCEPT ![f] = "interrupted"]
  /\ UNCHANGED <<cached, row, redis, toStore, dispatch, job, purge, history, faults, purges>>

\* The update of the finally block fails: the file is gone, or a fault.
FinallyFails(f) ==
  /\ req[f] \in {"returning", "interrupting"}
  /\ IF Exists(f) THEN Fault ELSE NoFault
  /\ req' = [req EXCEPT ![f] = IF @ = "returning" THEN "returned" ELSE "failed"]
  /\ UNCHANGED <<store, redis, toStore, dispatch, job, purge, history, purges>>

-----------------------------------------------------------------------------
\* Wrong on purpose: the request puts the file back to PROCESS_STARTED.
RetryReopens(f, d) ==
  /\ Exists(f)
  /\ payload[d] = {}
  /\ Outstanding(f) # {}
  /\ file' = [file EXCEPT ![f] = "started"]
  /\ payload' = [payload EXCEPT ![d] = Outstanding(f)]
  /\ todo' = [todo EXCEPT ![d] = Outstanding(f)]
  /\ UNCHANGED <<cached, row, redis, request, withData, job, purge, history, faults, purges>>

\* retryBulkCredential: neither the status of the file nor the jobs under
\* way are looked at, and the status is not set to retry.
Retry(f, d) ==
  /\ Exists(f)
  /\ payload[d] = {}
  /\ Outstanding(f) # {}
  /\ payload' = [payload EXCEPT ![d] = Outstanding(f)]
  /\ todo' = [todo EXCEPT ![d] = Outstanding(f)]
  /\ withData' = [withData EXCEPT ![d] = {r \in Outstanding(f) : row[r].data}]
  /\ disturbed' = disturbed \cup {r \in Outstanding(f) : InFlight(r) \/ req[f] = "storing"}
  /\ early' = IF req[f] = "storing" THEN early \cup {f} ELSE early
  /\ UNCHANGED <<store, redis, request, job, purge, delivered, faults, purges>>

-----------------------------------------------------------------------------
\* processInBatches: the next slice of the payload goes to the queue.
EnqueueBatch(d) ==
  /\ todo[d] # {}
  /\ \E batch \in SUBSET todo[d] :
       /\ \/ Cardinality(batch) = BatchSize
          \/ batch = todo[d] /\ Cardinality(batch) < BatchSize
       /\ queue' = queue \cup ({d} \X batch)
       /\ todo' = [todo EXCEPT ![d] = @ \ batch]
  /\ UNCHANGED <<store, active, stalled, request, payload, withData, job, purge,
                 history, faults, purges>>

-----------------------------------------------------------------------------
\* The worker and processIssuanceData

\* Wrong on purpose: the comparison misses the totalJobs-th start, or comes
\* one too early.
NeverLast(d)    == counter[d] + 1 > Cardinality(payload[d])
NextToLast(d)   == counter[d] + 1 = Cardinality(payload[d]) - 1

\* The job to start now is the totalJobs-th of its dispatch.
IsLast(d)       == counter[d] + 1 = Cardinality(payload[d])

\* The worker takes a job once it has acknowledged the one before; the
\* synchronous start of processIssuanceData counts the job and flags the
\* totalJobs-th one to start.
StartJob(j) ==
  /\ j \in queue
  /\ active = {}
  /\ queue' = queue \ {j}
  /\ active' = {j}
  /\ counter' = [counter EXCEPT ![j[1]] = IF IsLast(j[1]) THEN 0 ELSE @ + 1]
  /\ last' = IF IsLast(j[1]) THEN last \cup {j} ELSE last
  /\ run' = [run EXCEPT ![j] = "lookup"]
  /\ UNCHANGED <<store, stalled, request, dispatch, purge, history, faults, purges>>

\* Wrong on purpose: the promise of the processor never settles.
AckNever(j) ==
  /\ j \in active
  /\ UNCHANGED vars

\* issueCredential has returned without awaiting the call: the job is done
\* for Bull.
AckJob(j) ==
  /\ j \in active
  /\ active' = active \ {j}
  /\ UNCHANGED <<store, queue, stalled, request, dispatch, job, purge, history, faults, purges>>

\* A call of processIssuanceData moves on, with no other effect.
Step(j, from, to) ==
  /\ run[j] = from
  /\ run' = [run EXCEPT ![j] = to]

\* getAgentEndPoint finds the organisation's agent.
AgentFound(j) ==
  /\ Step(j, "lookup", "offer")
  /\ UNCHANGED <<store, redis, request, dispatch, counter, last, purge, history, faults, purges>>

\* Wrong on purpose: a row that was offered is never marked.
OfferUnmarked(j) ==
  /\ Step(j, "offer", "save_ok")
  /\ j[2] \in withData[j[1]]
  /\ delivered' = [delivered EXCEPT ![j[2]] = @ + 1]
  /\ UNCHANGED <<store, redis, request, dispatch, counter, last, purge, disturbed, early,
                 faults, purges>>

\* outOfBandCredentialOffer returns true: the agent made the offer and the
\* mail left.  It takes the recipient and the claims from the job's copy.
OfferDelivered(j) ==
  /\ Step(j, "offer", "mark")
  /\ j[2] \in withData[j[1]]
  /\ delivered' = [delivered EXCEPT ![j[2]] = @ + 1]
  /\ UNCHANGED <<store, redis, request, dispatch, counter, last, purge, disturbed, early,
                 faults, purges>>

\* Wrong on purpose: the answer false is taken for true.
RefusalIgnored(j) ==
  /\ Step(j, "offer", "mark")
  /\ UNCHANGED <<store, redis, request, dispatch, counter, last, purge, history, faults, purges>>

\* outOfBandCredentialOffer returns false (a single offer whose mail was not
\* accepted: its errors are dropped) or throws.
OfferRefused(j) ==
  /\ Step(j, "offer", "save_ok") \/ Step(j, "offer", "save_error")
  /\ UNCHANGED <<store, redis, request, dispatch, counter, last, purge, history, faults, purges>>

\* The mail leaves but the answer of the mail service is lost: as refused.
OfferAnswerLost(j) ==
  /\ Step(j, "offer", "save_ok") \/ Step(j, "offer", "save_error")
  /\ j[2] \in withData[j[1]]
  /\ Fault
  /\ delivered' = [delivered EXCEPT ![j[2]] = @ + 1]
  /\ disturbed' = disturbed \cup {j[2]}
  /\ UNCHANGED <<store, redis, request, dispatch, counter, last, purge, early, purges>>

\* deleteFileDataByJobId: the row is done and its credential data erased.
MarkIssued(j) ==
  /\ Step(j, "mark", "save_ok")
  /\ row[j[2]].present
  /\ row' = [row EXCEPT ![j[2]].status = TRUE, ![j[2]].data = FALSE]
  /\ UNCHANGED <<cached, file, redis, request, dispatch, counter, last, purge, history,
                 faults, purges>>

\* That update throws, inside the try: the row will be saved as an error.
MarkFails(j) ==
  /\ Step(j, "mark", "save_error")
  /\ IF row[j[2]].present
     THEN Fault /\ disturbed' = disturbed \cup {j[2]}
     ELSE NoFault /\ UNCHANGED disturbed
  /\ UNCHANGED <<store, redis, request, dispatch, counter, last, purge, delivered, early, purges>>

\* updateFileUploadData writes isError; the flagged call goes on.
SaveOutcome(j) ==
  /\ run[j] \in {"save_ok", "save_error"}
  /\ row[j[2]].present
  /\ row' = [row EXCEPT ![j[2]].isError = (run[j] = "save_error")]
  /\ run' = [run EXCEPT ![j] = IF j \in last THEN "count" ELSE "idle"]
  /\ UNCHANGED <<cached, file, redis, request, dispatch, counter, last, purge, history,
                 faults, purges>>

\* countErrorsForFile decides the status; the first dispatch also drops the
\* parked CSV.
CountErrors(j) ==
  /\ run[j] = "count"
  /\ run' = [run EXCEPT ![j] = IF Outstanding(FileOf(j[2])) = {}
                               THEN "close_completed" ELSE "close_partial"]
  /\ cached' = (cached /\ j[1] \in Retries)
  /\ UNCHANGED <<file, row, redis, request, dispatch, counter, last, purge, history,
                 faults, purges>>

\* updateFileUploadDetails writes the status decided before.
CloseFile(j) ==
  /\ Exists(FileOf(j[2]))
  /\ \/ /\ Step(j, "close_completed", "idle")
        /\ file' = [file EXCEPT ![FileOf(j[2])] = "completed"]
     \/ /\ Step(j, "close_partial", "idle")
        /\ file' = [file EXCEPT ![FileOf(j[2])] = "partially_completed"]
  /\ last' = last \ {j}
  /\ UNCHANGED <<cached, row, redis, request, dispatch, counter, purge, history, faults, purges>>

-----------------------------------------------------------------------------
\* Bull puts an unacknowledged job back, unless it has done so once.
PutBack == active \ stalled

\* The process dies and is started again: what was in memory is gone, Bull
\* puts the unacknowledged job back.
Restart ==
  /\ queue' = queue \cup PutBack
  /\ stalled' = stalled \cup active
  /\ active' = {}
  /\ req' = [f \in Files |-> CASE req[f] = "returning" -> "returned"
                               [] req[f] \in {"storing", "interrupting"} -> "failed"
                               [] OTHER -> req[f]]
  /\ toStore' = {}
  /\ todo' = [d \in Dispatches |-> {}]
  /\ counter' = [d \in Dispatches |-> 0]
  /\ run' = [j \in Jobs |-> "idle"]
  /\ last' = {}
  /\ purge' = {}
  /\ disturbed' = disturbed \cup {r \in Rows : \E d \in Dispatches :
                                    <<d, r>> \in active \/ run[<<d, r>>] = "mark"}
  /\ UNCHANGED <<store, payload, withData, delivered, early, purges>>

Crash ==
  /\ Fault
  /\ Restart

\* An un-awaited processIssuanceData rejects: nothing handles the rejection
\* and Node ends the process.  The row or the file it updates is gone, or
\* one of its queries outside the try fails.
JobRejects(j) ==
  /\ \/ run[j] \in {"lookup", "count"} /\ Fault
     \/ run[j] \in {"save_ok", "save_error"} /\ (IF row[j[2]].present THEN Fault ELSE NoFault)
     \/ run[j] \in {"close_completed", "close_partial"}
        /\ (IF Exists(FileOf(j[2])) THEN Fault ELSE NoFault)
  /\ Restart

-----------------------------------------------------------------------------
\* deleteIssuanceRecords, as far as the files are concerned

\* getFileUploadDataByOrgId reads the ids of the organisation's files.
PurgeRead ==
  /\ purge = {}
  /\ purges < MaxPurges
  /\ purge' = {f \in Files : Exists(f)}
  /\ purge' # {}
  /\ purges' = purges + 1
  /\ UNCHANGED <<store, redis, request, dispatch, job, history, faults>>

\* deleteFileUploadData: one transaction deletes the rows of those files and
\* every file of the organisation, unless a file created since has rows.
PurgeCommit ==
  /\ purge # {}
  /\ \A f \in Files \ purge : Present(f) = {}
  /\ row' = [r \in Rows |-> IF FileOf(r) \in purge THEN NoRow ELSE row[r]]
  /\ file' = [f \in Files |-> IF Exists(f) THEN "deleted" ELSE file[f]]
  /\ purge' = {}
  /\ UNCHANGED <<cached, redis, request, dispatch, job, history, faults, purges>>

\* The transaction fails: some file to delete still has rows, or is getting
\* one (the foreign key of file_data), or a fault.
PurgeAborts ==
  /\ purge # {}
  /\ IF (\A f \in Files \ purge : Present(f) = {}) /\ toStore = {} THEN Fault ELSE NoFault
  /\ purge' = {}
  /\ UNCHANGED <<store, redis, request, dispatch, job, history, purges>>

-----------------------------------------------------------------------------
IssueStep(f) ==
  \/ \E r \in RowsOf(f) : StoreRow(r) \/ StoreRowFails(r)
  \/ DispatchFile(f) \/ DispatchFails(f)
  \/ FinallyUpdate(f) \/ FinallyFails(f)

JobStep(j) ==
  \/ AgentFound(j)
  \/ OfferDelivered(j) \/ OfferRefused(j) \/ OfferAnswerLost(j)
  \/ MarkIssued(j) \/ MarkFails(j)
  \/ SaveOutcome(j)
  \/ CountErrors(j)
  \/ CloseFile(j)
  \/ JobRejects(j)

Next ==
  \/ CacheExpires
  \/ SelectiveIssue
  \/ \E f \in Files : StartIssue(f)
  \/ \E f \in Files : IssueStep(f)
  \/ \E f \in Files, d \in Retries : Retry(f, d)
  \/ \E d \in Dispatches : EnqueueBatch(d)
  \/ \E j \in Jobs : StartJob(j)
  \/ \E j \in Jobs : AckJob(j)
  \/ \E j \in Jobs : JobStep(j)
  \/ Crash
  \/ PurgeRead
  \/ PurgeCommit
  \/ PurgeAborts

\* What the event loop, Bull and the database carry on with by themselves;
\* requests, the TTL and crashes are not owed to anybody.
Fairness ==
  /\ \A f \in Files : WF_vars(IssueStep(f))
  /\ \A d \in Dispatches : WF_vars(EnqueueBatch(d))
  /\ WF_vars(\E j \in Jobs : StartJob(j))
  /\ WF_vars(\E j \in Jobs : AckJob(j))
  /\ \A j \in Jobs : WF_vars(JobStep(j))

Spec == Init /\ [][Next]_vars
FairSpec == Spec /\ Fairness
-----------------------------------------------------------------------------
\* Types of the variables.
TypeOK ==
  /\ cached \in BOOLEAN
  /\ file \in [Files -> FileStatus]
  /\ row \in [Rows -> RowRecord]
  /\ queue \subseteq Jobs
  /\ active \subseteq Jobs
  /\ stalled \subseteq Jobs
  /\ req \in [Files -> RequestPc]
  /\ toStore \subseteq Rows
  /\ todo \in [Dispatches -> SUBSET Rows]
  /\ payload \in [Dispatches -> SUBSET Rows]
  /\ withData \in [Dispatches -> SUBSET Rows]
  /\ counter \in [Dispatches -> Nat]
  /\ run \in [Jobs -> JobPc]
  /\ last \subseteq Jobs
  /\ purge \subseteq Files
  /\ delivered \in [Rows -> Nat]
  /\ disturbed \subseteq Rows
  /\ early \subseteq Files
  /\ faults \in 0 .. MaxFaults
  /\ purges \in 0 .. MaxPurges

\* PROCESS_COMPLETED is the truth: when the whole CSV was stored, and nobody
\* asked for a retry while it was being stored, a completed file has mailed
\* an offer to every line of the CSV, whatever crashed, was retried or was
\* deleted on the way (processIssuanceData counts, then writes the status).
CompletedMeansDelivered ==
  \A f \in Files :
    file[f] = "completed" /\ req[f] \in {"returning", "returned"} /\ f \notin early
      => \A r \in RowsOf(f) : delivered[r] > 0

\* Nobody is lost: a stored row that has had no offer is one that
\* retryBulkCredential will find, in a file that is there, with the claims
\* it needs (deleteFileDataByJobId erases them, crashes drop jobs).
UndeliveredIsRetryable ==
  \A r \in Rows :
    row[r].present /\ delivered[r] = 0
      => Exists(FileOf(r)) /\ r \in Outstanding(FileOf(r)) /\ row[r].data

\* A recipient gets a second offer only if a retry found the row still in
\* flight or still to be dispatched by its issue request, or the answer of
\* the mail service or the update that marks the row was lost, or a crash
\* came between the offer and that update or before the job was
\* acknowledged.
SecondOfferHasCause ==
  \A r \in Rows : delivered[r] > 1 => r \in disturbed

\* isLastData, decided by counting starts in memory, is set for one job of a
\* dispatch at most, and only when no other job of it is waiting or still
\* to be enqueued, with crashes that empty the counters and re-deliver jobs.
LastClosesDispatch ==
  \A j \in last :
    /\ todo[j[1]] = {}
    /\ \A r \in Rows : <<j[1], r>> \notin queue
    /\ \A k \in last : k[1] = j[1] => k = j

\* Once the issue request has answered, no crash, retry or late job turns a
\* final status back into PROCESS_STARTED or PROCESS_INTERRUPTED: only the
\* finally block of a request still open may.
ReopenedByOwnRequestOnly ==
  [][\A f \in Files :
       file[f] \in Final /\ file'[f] \notin Final \cup {"deleted"}
         => req[f] \in {"returning", "interrupting"}]_vars

\* A file whose rows were handed to the dispatcher reaches a final status,
\* unless something fails or is deleted: some job of the dispatch is flagged
\* and closes the file.
IssueIsClosed ==
  \A f \in Files : req[f] = "returning" ~> (file[f] \in Final \/ faults > 0 \/ purges > 0)

\* The service comes to rest, even when rows are deleted under running jobs
\* and each of those jobs ends the process: no job is delivered for ever.
QueueDrains ==
  <>[](queue = {} /\ active = {} /\ \A j \in Jobs : run[j] = "idle")

-----------------------------------------------------------------------------
\* The promise of CredentialDelivery, read off the database and the mails.
StageOf(r) ==
  CASE file[FileOf(r)] = "deleted" -> "withdrawn"
    [] file[FileOf(r)] # "deleted" /\ ~row[r].present -> "none"
    [] file[FileOf(r)] # "deleted" /\ row[r].present /\ row[r].status -> "closed"
    [] file[FileOf(r)] # "deleted" /\ row[r].present /\ ~row[r].status ->
         IF delivered[r] > 0 THEN "offered" ELSE "open"

LedgerOf == [r \in Rows |-> StageOf(r)]

CertifiedFiles ==
  {f \in Files : file[f] = "completed" /\ req[f] \in {"returning", "returned"} /\ f \notin early}

Delivery == INSTANCE CredentialDelivery WITH ledger <- LedgerOf, certified <- CertifiedFiles

\* Every step of the service is a step of the promise or invisible to it.
ImplementsDelivery == Delivery!Spec
=============================================================================
