------------------------ MODULE BulkIssuanceProofs ------------------------
(***************************************************************************)
(* What TLAPS proves of BulkIssuance for every set of files, recipients    *)
(* and retries, every batch size and any number of faults: its invariants, *)
(* and that it implements CredentialDelivery.                              *)
(***************************************************************************)
EXTENDS BulkIssuance, FiniteSetTheorems, TLAPS

-----------------------------------------------------------------------------
\* The invariants behind the theorems.

\* A row belongs to a file that is there, and a row that was closed, or is
\* about to be, or whose claims are erased, has had its offer.
RowsAreGrounded ==
  /\ \A r \in Rows : row[r].present => Exists(FileOf(r))
  /\ \A r \in Rows : row[r].present /\ (row[r].status \/ ~row[r].data) => delivered[r] > 0
  /\ \A j \in Jobs : run[j] = "mark" => delivered[j[2]] > 0

\* A row that has been tried has been saved before.
Stored(r) == r \notin toStore /\ req[FileOf(r)] # "none"

\* Whatever is in flight comes from the payload of its dispatch and is in
\* one place only.  The first dispatch of a file is made by its request.
JobsComeFromPayloads ==
  /\ \A d \in Dispatches : \A r \in todo[d] :
       r \in payload[d] /\ <<d, r>> \notin queue \cup active /\ run[<<d, r>>] = "idle"
  /\ \A j \in queue : j[2] \in payload[j[1]] /\ j \notin active /\ run[j] = "idle"
  /\ \A j \in active : j[2] \in payload[j[1]]
  /\ \A j \in Jobs : run[j] # "idle" => j[2] \in payload[j[1]]
  /\ \A f \in Files : req[f] \in {"none", "storing"} => payload[f] = {}

\* What a dispatcher took up was saved before, and so was what is there;
\* claims and offers belong to rows that were dispatched.
PayloadsComeFromRows ==
  /\ \A r \in toStore : req[FileOf(r)] # "none"
  /\ \A d \in Dispatches : \A r \in payload[d] : Stored(r)
  /\ \A r \in Rows : row[r].present => Stored(r)
  /\ \A d \in Dispatches : withData[d] \subseteq payload[d]
  /\ \A r \in Rows : delivered[r] > 0 => \E d \in Dispatches : r \in payload[d]

\* The job of row r in dispatch d may still make an offer.
MayOffer(d, r) ==
  /\ r \in withData[d]
  /\ \/ r \in todo[d]
     \/ <<d, r>> \in queue
     \/ run[<<d, r>>] \in {"lookup", "offer"}

\* The row is offered once: while one job may still offer it no other may
\* and no offer was made, and once it was offered its claims are erased or
\* about to be.
OneOfferOf(r) ==
  /\ delivered[r] \in {0, 1}
  /\ \A d \in Dispatches : MayOffer(d, r) => delivered[r] = 0
  /\ \A d, e \in Dispatches : MayOffer(d, r) /\ MayOffer(e, r) => d = e
  /\ row[r].present /\ row[r].data /\ delivered[r] > 0
       => \E d \in Dispatches : run[<<d, r>>] = "mark"
  /\ req[FileOf(r)] = "storing" => \A d \in Dispatches : r \notin payload[d]

OneOfferEach == \A r \in Rows \ disturbed : OneOfferOf(r)

\* Until its request has handed the rows of a file to the dispatcher no job
\* touches the file, unless a retry came early; afterwards all its rows are
\* there, and nobody completes it before every row was offered.
AllOffered(f) == \A r \in RowsOf(f) : delivered[r] > 0
Untouched(f)  == \A d \in Dispatches : \A r \in payload[d] : FileOf(r) # f
Completing(f) == \E j \in Jobs : FileOf(j[2]) = f /\ run[j] = "close_completed"

WholeAndTrue(f) ==
  /\ req[f] = "storing" /\ Exists(f) => \A r \in RowsOf(f) : row[r].present \/ r \in toStore
  /\ req[f] \in {"returning", "returned"} /\ Exists(f) => \A r \in RowsOf(f) : row[r].present
  /\ f \notin early /\ req[f] \in {"none", "storing"} => file[f] # "completed" /\ Untouched(f)
  /\ f \notin early /\ req[f] \in {"returning", "returned"} /\ Exists(f)
       /\ (file[f] = "completed" \/ Completing(f))
       => AllOffered(f)

NothingLeftOut == \A f \in Files : WholeAndTrue(f)

\* The rows of a dispatch whose jobs have not started. No dispatch counts more
\* starts than it had rows, and the call it flags is the only one and leaves
\* none of them.
Waiting(d) == {r \in Rows : r \in todo[d] \/ <<d, r>> \in queue}

StartsAreCounted ==
  /\ \A d \in Dispatches : Cardinality(Waiting(d)) + counter[d] <= Cardinality(payload[d])
  /\ \A j \in last : j[2] \in payload[j[1]] /\ Waiting(j[1]) = {}
  /\ \A j, k \in last : j[1] = k[1] => j = k

-----------------------------------------------------------------------------
\* Names of rows and jobs.

\* A row has a file.
LEMMA RowParts ==
  \A r \in Rows : FileOf(r) \in Files /\ r \in RowsOf(FileOf(r))
BY DEF Rows, RowsOf, FileOf

\* A job is a dispatch and a row, and the other way round.
LEMMA JobParts ==
  /\ \A j \in Jobs : j[1] \in Dispatches /\ j[2] \in Rows /\ j = <<j[1], j[2]>>
  /\ \A d \in Dispatches : \A r \in Rows : <<d, r>> \in Jobs
BY DEF Jobs

-----------------------------------------------------------------------------
\* Type correctness.

\* Every initial state is well typed.
LEMMA InitTypeOK == Init => TypeOK
BY ConstantsAssumption DEF Init, TypeOK, FileStatus, Final, RowRecord, NoRow, RequestPc, JobPc

\* Every step keeps the types.
LEMMA NextTypeOK == TypeOK /\ [Next]_vars => TypeOK'
<1> SUFFICES ASSUME TypeOK, [Next]_vars PROVE TypeOK'
  OBVIOUS
<1> USE ConstantsAssumption
<1> USE DEF store, redis, request, dispatch, job, history
<1>1. CASE vars' = vars
  BY <1>1 DEF TypeOK, vars
<1>2. CASE CacheExpires
  BY <1>2 DEF TypeOK, CacheExpires
<1>3. CASE SelectiveIssue
  BY <1>3 DEF TypeOK, SelectiveIssue
<1>4. CASE \E f \in Files : StartIssue(f)
  BY <1>4 DEF TypeOK, StartIssue, RowsOf, FileStatus, RequestPc
<1>5. CASE \E f \in Files : \E r \in RowsOf(f) : StoreRow(r)
  BY <1>5 DEF TypeOK, StoreRow, RowRecord, FreshRow
<1>6. CASE \E f \in Files : \E r \in RowsOf(f) : StoreRowFails(r)
  BY <1>6, RowParts DEF TypeOK, StoreRowFails, Fault, NoFault, RequestPc
<1>7. CASE \E f \in Files : DispatchFile(f)
  BY <1>7 DEF TypeOK, DispatchFile, Dispatches, Present, RowsOf, RequestPc
<1>8. CASE \E f \in Files : DispatchFails(f)
  BY <1>8 DEF TypeOK, DispatchFails, Fault, RequestPc
<1>9. CASE \E f \in Files : FinallyUpdate(f)
  BY <1>9 DEF TypeOK, FinallyUpdate, FileStatus, RequestPc
<1>10. CASE \E f \in Files : FinallyFails(f)
  BY <1>10 DEF TypeOK, FinallyFails, Fault, NoFault, RequestPc
<1>11. CASE \E f \in Files, d \in Retries : Retry(f, d)
  BY <1>11 DEF TypeOK, Retry, Outstanding, Present, RowsOf, Dispatches
<1>12. CASE \E d \in Dispatches : EnqueueBatch(d)
  BY <1>12 DEF TypeOK, EnqueueBatch, Jobs
<1>13. CASE \E j \in Jobs : StartJob(j)
  BY <1>13, JobParts DEF TypeOK, StartJob, JobPc
<1>14. CASE \E j \in Jobs : AckJob(j)
  BY <1>14 DEF TypeOK, AckJob
<1>15. CASE \E j \in Jobs : AgentFound(j)
  BY <1>15, JobParts DEF TypeOK, AgentFound, Step, JobPc
<1>16. CASE \E j \in Jobs : OfferDelivered(j)
  BY <1>16, JobParts DEF TypeOK, OfferDelivered, Step, JobPc
<1>17. CASE \E j \in Jobs : OfferRefused(j)
  BY <1>17, JobParts DEF TypeOK, OfferRefused, Step, JobPc
<1>18. CASE \E j \in Jobs : OfferAnswerLost(j)
  BY <1>18, JobParts DEF TypeOK, OfferAnswerLost, Step, JobPc, Fault
<1>19. CASE \E j \in Jobs : MarkIssued(j)
  <2>1. PICK j \in Jobs : MarkIssued(j)
    BY <1>19
  <2>2. row' \in [Rows -> RowRecord]
    <3>1. row[j[2]] \in RowRecord
      BY JobParts DEF TypeOK
    <3>2. [row[j[2]] EXCEPT !.status = TRUE, !.data = FALSE] \in RowRecord
      BY <3>1 DEF RowRecord
    <3> QED
      BY <2>1, <3>2 DEF TypeOK, MarkIssued
  <2> QED
    BY <2>1, <2>2 DEF TypeOK, MarkIssued, Step, JobPc
<1>20. CASE \E j \in Jobs : MarkFails(j)
  BY <1>20, JobParts DEF TypeOK, MarkFails, Step, JobPc, Fault, NoFault
<1>21. CASE \E j \in Jobs : SaveOutcome(j)
  <2>1. PICK j \in Jobs : SaveOutcome(j)
    BY <1>21
  <2>2. row' \in [Rows -> RowRecord]
    <3>1. row[j[2]] \in RowRecord
      BY JobParts DEF TypeOK
    <3>2. [row[j[2]] EXCEPT !.isError = (run[j] = "save_error")] \in RowRecord
      BY <3>1 DEF RowRecord
    <3> QED
      BY <2>1, <3>2 DEF TypeOK, SaveOutcome
  <2> QED
    BY <2>1, <2>2 DEF TypeOK, SaveOutcome, JobPc
<1>22. CASE \E j \in Jobs : CountErrors(j)
  BY <1>22, JobParts DEF TypeOK, CountErrors, JobPc
<1>23. CASE \E j \in Jobs : CloseFile(j)
  BY <1>23, JobParts, RowParts DEF TypeOK, CloseFile, Step, JobPc, FileStatus, Final
<1>24. CASE \E j \in Jobs : JobRejects(j)
  BY <1>24 DEF TypeOK, JobRejects, Restart, PutBack, Fault, NoFault, RequestPc, JobPc
<1>25. CASE Crash
  BY <1>25 DEF TypeOK, Crash, Restart, PutBack, Fault, RequestPc, JobPc
<1>26. CASE PurgeRead
  BY <1>26 DEF TypeOK, PurgeRead
<1>27. CASE PurgeCommit
  BY <1>27 DEF TypeOK, PurgeCommit, FileStatus, RowRecord, NoRow
<1>28. CASE PurgeAborts
  BY <1>28 DEF TypeOK, PurgeAborts, Fault, NoFault
<1> QED
  BY <1>1, <1>2, <1>3, <1>4, <1>5, <1>6, <1>7, <1>8, <1>9, <1>10, <1>11, <1>12, <1>13, <1>14,
     <1>15, <1>16, <1>17, <1>18, <1>19, <1>20, <1>21, <1>22, <1>23, <1>24, <1>25, <1>26, <1>27,
     <1>28 DEF Next, IssueStep, JobStep

\* The variables keep their types.
THEOREM TypeCorrect == Spec => []TypeOK
BY InitTypeOK, NextTypeOK, PTL DEF Spec

-----------------------------------------------------------------------------
\* Nobody is lost.

\* Nothing is stored at first.
LEMMA InitGrounded == Init => RowsAreGrounded
BY RowParts, JobParts DEF Init, RowsAreGrounded, NoRow

\* Every step keeps rows grounded.
LEMMA NextGrounded == TypeOK /\ RowsAreGrounded /\ [Next]_vars => RowsAreGrounded'
<1> SUFFICES ASSUME TypeOK, RowsAreGrounded, [Next]_vars PROVE RowsAreGrounded'
  OBVIOUS
<1> USE DEF store, redis, request, dispatch, job, history
<1>1. ASSUME UNCHANGED <<file, row, run, delivered>> PROVE RowsAreGrounded'
  BY <1>1 DEF RowsAreGrounded, Exists
<1>2. CASE \/ vars' = vars
           \/ CacheExpires \/ SelectiveIssue
           \/ PurgeRead \/ PurgeAborts
           \/ \E f \in Files : \/ \E r \in RowsOf(f) : StoreRowFails(r)
                               \/ DispatchFile(f) \/ DispatchFails(f) \/ FinallyFails(f)
                               \/ \E d \in Retries : Retry(f, d)
           \/ \E d \in Dispatches : EnqueueBatch(d)
           \/ \E j \in Jobs : AckJob(j)
  BY <1>1, <1>2 DEF vars, CacheExpires, SelectiveIssue, PurgeRead, PurgeAborts, StoreRowFails,
     DispatchFile, DispatchFails, FinallyFails, Retry, EnqueueBatch, AckJob
<1>3. CASE \E f \in Files : StartIssue(f) \/ FinallyUpdate(f)
  BY <1>3, RowParts DEF TypeOK, RowsAreGrounded, Exists, StartIssue, FinallyUpdate
<1>4. CASE \E f \in Files : \E r \in RowsOf(f) : StoreRow(r)
  BY <1>4 DEF TypeOK, RowsAreGrounded, Exists, StoreRow, FreshRow, RowsOf
<1>5. CASE \E j \in Jobs : StartJob(j) \/ AgentFound(j) \/ OfferRefused(j) \/ MarkFails(j)
                          \/ CountErrors(j)
  BY <1>5 DEF TypeOK, RowsAreGrounded, Exists, StartJob, AgentFound, OfferRefused, MarkFails,
     CountErrors, Step
<1>6. CASE \E j \in Jobs : OfferDelivered(j) \/ OfferAnswerLost(j)
  BY <1>6, JobParts DEF TypeOK, RowsAreGrounded, Exists, OfferDelivered, OfferAnswerLost, Step
<1>7. CASE \E j \in Jobs : MarkIssued(j)
  BY <1>7, JobParts DEF TypeOK, RowRecord, RowsAreGrounded, Exists, MarkIssued, Step
<1>8. CASE \E j \in Jobs : SaveOutcome(j)
  BY <1>8, JobParts DEF TypeOK, RowRecord, RowsAreGrounded, Exists, SaveOutcome
<1>9. CASE \E j \in Jobs : CloseFile(j)
  BY <1>9, JobParts, RowParts DEF TypeOK, RowsAreGrounded, Exists, CloseFile, Step
<1>10. CASE Crash \/ \E j \in Jobs : JobRejects(j)
  BY <1>10 DEF TypeOK, RowsAreGrounded, Exists, Crash, JobRejects, Restart
<1>11. CASE PurgeCommit
  BY <1>11, RowParts DEF TypeOK, RowsAreGrounded, Exists, PurgeCommit, Present, NoRow
<1> QED
  BY <1>2, <1>3, <1>4, <1>5, <1>6, <1>7, <1>8, <1>9, <1>10, <1>11 DEF Next, IssueStep, JobStep

\* Rows stay grounded for ever.
THEOREM Grounded == Spec => []RowsAreGrounded
BY InitTypeOK, NextTypeOK, InitGrounded, NextGrounded, PTL DEF Spec

\* A stored row without an offer is found by every later retry, in a file
\* that exists and with the claims it needs, for any faults and deletions.
THEOREM NobodyIsLost == Spec => []UndeliveredIsRetryable
<1>1. TypeOK /\ RowsAreGrounded => UndeliveredIsRetryable
  BY RowParts DEF TypeOK, RowRecord, RowsAreGrounded, UndeliveredIsRetryable, Outstanding, Present
<1> QED
  BY <1>1, TypeCorrect, Grounded, PTL

-----------------------------------------------------------------------------
\* Where jobs come from.

\* At first nothing is dispatched.
LEMMA InitJobs == Init => JobsComeFromPayloads
BY DEF Init, JobsComeFromPayloads, Dispatches

\* A job stays in one place at a time.
LEMMA NextJobs == TypeOK /\ JobsComeFromPayloads /\ [Next]_vars => JobsComeFromPayloads'
<1> SUFFICES ASSUME TypeOK, JobsComeFromPayloads, [Next]_vars PROVE JobsComeFromPayloads'
  OBVIOUS
<1> USE DEF store, redis, request, dispatch, job, history
<1>1. ASSUME UNCHANGED <<redis, req, todo, payload, run>> PROVE JobsComeFromPayloads'
  BY <1>1 DEF JobsComeFromPayloads
<1>2. CASE \/ vars' = vars
           \/ CacheExpires \/ SelectiveIssue
           \/ PurgeRead \/ PurgeCommit \/ PurgeAborts
           \/ \E f \in Files : \E r \in RowsOf(f) : StoreRow(r)
  BY <1>1, <1>2 DEF vars, CacheExpires, SelectiveIssue, PurgeRead, PurgeCommit, PurgeAborts,
     StoreRow
<1>3. CASE \E f \in Files : \/ StartIssue(f) \/ DispatchFails(f) \/ FinallyUpdate(f)
                           \/ FinallyFails(f) \/ \E r \in RowsOf(f) : StoreRowFails(r)
  BY <1>3, RowParts DEF TypeOK, JobsComeFromPayloads, StartIssue, DispatchFails, FinallyUpdate,
     FinallyFails, StoreRowFails, RowsOf
<1>4. CASE \E f \in Files : DispatchFile(f)
  BY <1>4, JobParts DEF TypeOK, JobsComeFromPayloads, DispatchFile, Dispatches, Present, RowsOf
<1>5. CASE \E f \in Files, d \in Retries : Retry(f, d)
  BY <1>5, JobParts, ConstantsAssumption DEF TypeOK, JobsComeFromPayloads, Retry, Dispatches,
     Outstanding, Present, RowsOf
<1>6. CASE \E d \in Dispatches : EnqueueBatch(d)
  BY <1>6, JobParts DEF TypeOK, JobsComeFromPayloads, EnqueueBatch
<1>7. CASE \E j \in Jobs : StartJob(j)
  BY <1>7, JobParts DEF TypeOK, JobsComeFromPayloads, StartJob
<1>8. CASE \E j \in Jobs : AckJob(j)
  BY <1>8 DEF TypeOK, JobsComeFromPayloads, AckJob
<1>9. CASE \E j \in Jobs : \/ AgentFound(j) \/ OfferDelivered(j) \/ OfferRefused(j)
                          \/ OfferAnswerLost(j) \/ MarkIssued(j) \/ MarkFails(j)
  BY <1>9, JobParts DEF TypeOK, JobsComeFromPayloads, AgentFound, OfferDelivered, OfferRefused,
     OfferAnswerLost, MarkIssued, MarkFails, Step
<1>10. CASE \E j \in Jobs : SaveOutcome(j) \/ CountErrors(j) \/ CloseFile(j)
  BY <1>10, JobParts DEF TypeOK, JobsComeFromPayloads, SaveOutcome, CountErrors, CloseFile, Step
<1>11. CASE Crash \/ \E j \in Jobs : JobRejects(j)
  <2>1. Restart
    BY <1>11 DEF Crash, JobRejects
  <2>2. \A f \in Files : req'[f] \in {"none", "storing"} => req[f] = "none"
    BY <2>1 DEF TypeOK, Restart, RequestPc
  <2>3. /\ \A d \in Dispatches : todo'[d] = {}
        /\ queue' \subseteq queue \cup active
        /\ active' = {}
        /\ \A j \in Jobs : run'[j] = "idle"
        /\ payload' = payload
    BY <2>1 DEF Restart, PutBack
  <2> QED
    BY <2>2, <2>3 DEF TypeOK, JobsComeFromPayloads
<1> QED
  BY <1>2, <1>3, <1>4, <1>5, <1>6, <1>7, <1>8, <1>9, <1>10, <1>11 DEF Next, IssueStep, JobStep

\* At first there is no row to dispatch.
LEMMA InitPayloads == Init => PayloadsComeFromRows
BY DEF Init, PayloadsComeFromRows, NoRow

\* Rows are saved before they are dispatched, and dispatched before an offer.
LEMMA NextPayloads ==
  TypeOK /\ JobsComeFromPayloads /\ PayloadsComeFromRows /\ [Next]_vars => PayloadsComeFromRows'
<1> SUFFICES ASSUME TypeOK, JobsComeFromPayloads, PayloadsComeFromRows, [Next]_vars
             PROVE PayloadsComeFromRows'
  OBVIOUS
<1> USE DEF store, redis, request, dispatch, job, history
<1>1. ASSUME UNCHANGED <<row, req, toStore, payload, withData, delivered>>
      PROVE PayloadsComeFromRows'
  BY <1>1 DEF PayloadsComeFromRows, Stored
<1>2. CASE \/ vars' = vars
           \/ CacheExpires \/ SelectiveIssue
           \/ PurgeRead \/ PurgeAborts
           \/ \E d \in Dispatches : EnqueueBatch(d)
  BY <1>1, <1>2 DEF vars, CacheExpires, SelectiveIssue, PurgeRead, PurgeAborts, EnqueueBatch
<1>3. CASE \E j \in Jobs : \/ StartJob(j) \/ AckJob(j) \/ AgentFound(j) \/ OfferRefused(j)
                          \/ MarkFails(j) \/ CountErrors(j) \/ CloseFile(j)
  BY <1>1, <1>3 DEF StartJob, AckJob, AgentFound, OfferRefused, MarkFails, CountErrors, CloseFile
<1>4. CASE \E f \in Files : StartIssue(f)
  BY <1>4, RowParts DEF TypeOK, PayloadsComeFromRows, Stored, StartIssue, RowsOf, FileOf
<1>5. CASE \E f \in Files : \/ DispatchFails(f) \/ FinallyUpdate(f) \/ FinallyFails(f)
                           \/ \E r \in RowsOf(f) : StoreRow(r) \/ StoreRowFails(r)
  <2>1. CASE \E f \in Files : \E r \in RowsOf(f) : StoreRow(r)
    BY <2>1, RowParts DEF TypeOK, PayloadsComeFromRows, Stored, StoreRow, RowsOf, FreshRow
  <2>2. CASE \E f \in Files : \E r \in RowsOf(f) : StoreRowFails(r)
    BY <2>2, RowParts DEF TypeOK, PayloadsComeFromRows, Stored, StoreRowFails, RowsOf
  <2>3. CASE \E f \in Files : DispatchFails(f) \/ FinallyUpdate(f) \/ FinallyFails(f)
    BY <2>3, RowParts DEF TypeOK, PayloadsComeFromRows, Stored, DispatchFails, FinallyUpdate,
       FinallyFails
  <2> QED
    BY <1>5, <2>1, <2>2, <2>3
<1>6. CASE \E f \in Files : DispatchFile(f)
  BY <1>6, RowParts DEF TypeOK, PayloadsComeFromRows, JobsComeFromPayloads, Stored, DispatchFile,
     Dispatches, Present, RowsOf
<1>7. CASE \E f \in Files, d \in Retries : Retry(f, d)
  BY <1>7, RowParts DEF TypeOK, PayloadsComeFromRows, Stored, Retry, Dispatches, Outstanding,
     Present, RowsOf
<1>8. CASE \E j \in Jobs : OfferDelivered(j) \/ OfferAnswerLost(j)
  BY <1>8, JobParts DEF TypeOK, PayloadsComeFromRows, Stored, OfferDelivered, OfferAnswerLost
<1>9. CASE \E j \in Jobs : MarkIssued(j)
  BY <1>9, JobParts DEF TypeOK, RowRecord, PayloadsComeFromRows, Stored, MarkIssued
<1>10. CASE \E j \in Jobs : SaveOutcome(j)
  BY <1>10, JobParts DEF TypeOK, RowRecord, PayloadsComeFromRows, Stored, SaveOutcome
<1>11. CASE Crash \/ \E j \in Jobs : JobRejects(j)
  BY <1>11, RowParts DEF TypeOK, PayloadsComeFromRows, Stored, Crash, JobRejects, Restart
<1>12. CASE PurgeCommit
  BY <1>12 DEF TypeOK, PayloadsComeFromRows, Stored, PurgeCommit, NoRow
<1> QED
  BY <1>2, <1>3, <1>4, <1>5, <1>6, <1>7, <1>8, <1>9, <1>10, <1>11, <1>12
  DEF Next, IssueStep, JobStep

-----------------------------------------------------------------------------
\* One offer each.

\* At first there is no offer.
LEMMA InitOneOffer == Init => OneOfferEach
BY RowParts, JobParts DEF Init, OneOfferEach, OneOfferOf, MayOffer, Dispatches, NoRow

\* A cause is never forgotten.
LEMMA DisturbedGrows == [Next]_vars => disturbed \subseteq disturbed'
BY DEF Next, vars, store, redis, request, dispatch, job, history, CacheExpires, SelectiveIssue,
   StartIssue, IssueStep, StoreRow, StoreRowFails, DispatchFile, DispatchFails, FinallyUpdate,
   FinallyFails, Retry, EnqueueBatch, StartJob, AckJob, JobStep, AgentFound, OfferDelivered,
   OfferRefused, OfferAnswerLost, MarkIssued, MarkFails, SaveOutcome, CountErrors, CloseFile,
   JobRejects, Crash, Restart, PurgeRead, PurgeCommit, PurgeAborts

\* Every step keeps an undisturbed row from a second offer.
LEMMA NextOneOffer ==
  /\ TypeOK /\ JobsComeFromPayloads /\ PayloadsComeFromRows /\ OneOfferEach
  /\ [Next]_vars
  => OneOfferEach'
<1> SUFFICES ASSUME TypeOK, JobsComeFromPayloads, PayloadsComeFromRows, OneOfferEach, [Next]_vars
             PROVE OneOfferEach'
  OBVIOUS
<1> SUFFICES ASSUME NEW r \in Rows, r \notin disturbed' PROVE OneOfferOf(r)'
  BY DEF OneOfferEach
<1> OneOfferOf(r)
  BY DisturbedGrows DEF OneOfferEach
<1> USE DEF store, redis, request, dispatch, job, history
<1> DEFINE Quiet ==
      /\ \A d \in Dispatches : MayOffer(d, r)' => MayOffer(d, r)
      /\ delivered'[r] = delivered[r]
      /\ row'[r].present /\ row'[r].data => row[r].present /\ row[r].data
      /\ \A d \in Dispatches : run[<<d, r>>] = "mark" => run'[<<d, r>>] = "mark"
      /\ req'[FileOf(r)] = "storing" =>
           req[FileOf(r)] = "storing" /\ \A d \in Dispatches : r \in payload'[d] => r \in payload[d]
<1>1. ASSUME Quiet PROVE OneOfferOf(r)'
  BY <1>1 DEF OneOfferOf
<1> HIDE DEF Quiet
<1>2. CASE \/ vars' = vars
           \/ CacheExpires \/ SelectiveIssue
           \/ PurgeRead \/ PurgeAborts
           \/ \E j \in Jobs : AckJob(j)
  <2>1. UNCHANGED <<row, req, queue, todo, payload, withData, run, delivered>>
    BY <1>2 DEF vars, CacheExpires, SelectiveIssue, PurgeRead, PurgeAborts, AckJob
  <2> QED
    BY <1>1, <2>1 DEF Quiet, MayOffer
<1>3. CASE \E f \in Files : StartIssue(f)
  BY <1>3, RowParts DEF TypeOK, PayloadsComeFromRows, Stored, OneOfferOf, MayOffer, StartIssue
<1>4. CASE \E f \in Files : \E q \in RowsOf(f) : StoreRow(q)
  <2>1. PICK q \in Rows : StoreRow(q)
    BY <1>4 DEF RowsOf
  <2>2. CASE q = r
    <3>1. delivered[r] = 0
      BY <2>1, <2>2 DEF TypeOK, StoreRow, PayloadsComeFromRows, Stored
    <3> QED
      BY <2>1, <3>1 DEF OneOfferOf, MayOffer, StoreRow
  <2>3. CASE q # r
    BY <1>1, <2>1, <2>3 DEF TypeOK, Quiet, MayOffer, StoreRow
  <2> QED
    BY <2>2, <2>3
<1>5. CASE \E f \in Files : \/ DispatchFails(f) \/ FinallyUpdate(f) \/ FinallyFails(f)
                           \/ \E q \in RowsOf(f) : StoreRowFails(q)
  BY <1>5, RowParts DEF TypeOK, OneOfferOf, MayOffer, DispatchFails, FinallyUpdate, FinallyFails,
     StoreRowFails, RowsOf
<1>6. CASE \E f \in Files : DispatchFile(f)
  <2>1. PICK f \in Files : DispatchFile(f)
    BY <1>6
  <2>2. CASE FileOf(r) = f
    <3>1. delivered[r] = 0 /\ \A d \in Dispatches : r \notin payload[d]
      BY <2>1, <2>2 DEF TypeOK, DispatchFile, OneOfferOf, PayloadsComeFromRows
    <3>2. \A d \in Dispatches : MayOffer(d, r)' => d = f
      BY <2>1, <3>1 DEF TypeOK, DispatchFile, MayOffer, PayloadsComeFromRows
    <3>3. req'[FileOf(r)] # "storing" /\ delivered' = delivered
      BY <2>1, <2>2 DEF TypeOK, DispatchFile
    <3> QED
      BY <3>1, <3>2, <3>3 DEF OneOfferOf
  <2>3. CASE FileOf(r) # f
    <3>1. r \notin Present(f)
      BY <2>3 DEF Present, RowsOf
    <3> QED
      BY <1>1, <2>1, <2>3, <3>1, RowParts DEF TypeOK, Quiet, MayOffer, DispatchFile, Dispatches
  <2> QED
    BY <2>2, <2>3
<1>7. CASE \E f \in Files, d \in Retries : Retry(f, d)
  <2>1. PICK f \in Files, d \in Retries : Retry(f, d)
    BY <1>7
  <2>2. d \in Dispatches
    BY DEF Dispatches
  <2>3. CASE r \in Outstanding(f)
    <3>1. FileOf(r) = f /\ ~InFlight(r) /\ req[f] # "storing" /\ req' = req
      BY <2>1, <2>3 DEF Retry, Outstanding, Present, RowsOf
    <3>2. \A e \in Dispatches : ~MayOffer(e, r)
      BY <3>1 DEF InFlight, MayOffer
    <3>3. \A e \in Dispatches : MayOffer(e, r)' => e = d /\ row[r].data
      BY <2>1, <2>2, <3>2 DEF TypeOK, Retry, MayOffer
    <3>4. row[r].data => delivered[r] = 0
      <4>1. row[r].present
        BY <2>3 DEF Outstanding, Present
      <4>2. \A e \in Dispatches : run[<<e, r>>] # "mark"
        BY <3>1 DEF InFlight
      <4>3. ~(row[r].data /\ delivered[r] > 0)
        BY <4>1, <4>2 DEF OneOfferOf
      <4>4. delivered[r] \in {0, 1}
        BY DEF OneOfferOf
      <4> QED
        BY <4>3, <4>4
    <3> QED
      BY <2>1, <3>1, <3>3, <3>4 DEF OneOfferOf, Retry
  <2>4. CASE r \notin Outstanding(f)
    BY <1>1, <2>1, <2>2, <2>4 DEF TypeOK, Quiet, MayOffer, Retry
  <2> QED
    BY <2>3, <2>4
<1>8. CASE \E d \in Dispatches : EnqueueBatch(d)
  <2>1. PICK d \in Dispatches : EnqueueBatch(d)
    BY <1>8
  <2>2. \A e \in Dispatches : /\ r \in todo'[e] => r \in todo[e]
                              /\ <<e, r>> \in queue' => <<e, r>> \in queue \/ r \in todo[e]
    BY <2>1 DEF TypeOK, EnqueueBatch
  <2> QED
    BY <1>1, <2>1, <2>2 DEF Quiet, MayOffer, EnqueueBatch
<1>9. CASE \E j \in Jobs : StartJob(j)
  <2>1. PICK j \in Jobs : StartJob(j)
    BY <1>9
  <2>2. \A d \in Dispatches : run'[<<d, r>>] # run[<<d, r>>] =>
          <<d, r>> \in queue /\ run[<<d, r>>] = "idle"
    <3>1. j \in queue /\ run[j] = "idle" /\ \A k \in Jobs : k # j => run'[k] = run[k]
      BY <2>1 DEF TypeOK, StartJob, JobsComeFromPayloads
    <3> QED
      BY <3>1, JobParts
  <2>3. \A d \in Dispatches : MayOffer(d, r)' => MayOffer(d, r)
    BY <2>1, <2>2 DEF MayOffer, StartJob
  <2> QED
    BY <1>1, <2>1, <2>2, <2>3 DEF Quiet, StartJob
<1>10. CASE \E j \in Jobs : \/ AgentFound(j) \/ OfferRefused(j) \/ CountErrors(j) \/ CloseFile(j)
                           \/ SaveOutcome(j)
  <2>1. PICK j \in Jobs : \/ AgentFound(j) \/ OfferRefused(j) \/ CountErrors(j) \/ CloseFile(j)
                          \/ SaveOutcome(j)
    BY <1>10
  <2>2. \A k \in Jobs : /\ run'[k] = "offer" => run[k] \in {"lookup", "offer"}
                        /\ run'[k] = "lookup" => run[k] = "lookup"
                        /\ run[k] = "mark" => run'[k] = "mark"
    BY <2>1 DEF TypeOK, AgentFound, OfferRefused, CountErrors, CloseFile, SaveOutcome, Step
  <2>3. row'[r].present = row[r].present /\ row'[r].data = row[r].data
    BY <2>1, JobParts DEF TypeOK, RowRecord, AgentFound, OfferRefused, CountErrors, CloseFile,
       SaveOutcome
  <2>4. UNCHANGED <<req, queue, todo, payload, withData, delivered>>
    BY <2>1 DEF AgentFound, OfferRefused, CountErrors, CloseFile, SaveOutcome
  <2>5. \A d \in Dispatches : MayOffer(d, r)' => MayOffer(d, r)
    BY <2>2, <2>4, JobParts DEF MayOffer
  <2> QED
    BY <1>1, <2>2, <2>3, <2>4, <2>5, JobParts DEF Quiet
<1>11. CASE \E j \in Jobs : OfferDelivered(j) \/ OfferAnswerLost(j)
  <2>1. PICK j \in Jobs : OfferDelivered(j) \/ OfferAnswerLost(j)
    BY <1>11
  <2>2. /\ \A k \in Jobs : k # j => run'[k] = run[k]
        /\ run[j] = "offer" /\ run'[j] \notin {"lookup", "offer"}
        /\ UNCHANGED <<row, req, queue, todo, payload, withData>>
    BY <2>1 DEF TypeOK, OfferDelivered, OfferAnswerLost, Step
  <2>3. \A d \in Dispatches : MayOffer(d, r)' => MayOffer(d, r) /\ <<d, r>> # j
    BY <2>2, JobParts DEF MayOffer, JobsComeFromPayloads
  <2>4. CASE j[2] = r
    <3>1. OfferDelivered(j)
      BY <2>1, <2>4 DEF OfferAnswerLost
    <3>2. MayOffer(j[1], r)
      BY <2>2, <2>4, <3>1, JobParts DEF OfferDelivered, MayOffer
    <3>3. delivered'[r] = 1
      BY <2>4, <3>1, <3>2, JobParts DEF TypeOK, OfferDelivered, OneOfferOf
    <3>4. \A d \in Dispatches : ~MayOffer(d, r)'
      BY <2>3, <2>4, <3>2, JobParts DEF OneOfferOf
    <3>5. run'[<<j[1], r>>] = "mark"
      BY <2>4, <3>1, JobParts DEF TypeOK, OfferDelivered, Step
    <3> QED
      BY <2>2, <3>3, <3>4, <3>5, JobParts DEF OneOfferOf
  <2>5. CASE j[2] # r
    <3>1. delivered'[r] = delivered[r]
      BY <2>1, <2>5, JobParts DEF TypeOK, OfferDelivered, OfferAnswerLost
    <3> QED
      BY <1>1, <2>2, <2>3, <3>1, JobParts DEF Quiet
  <2> QED
    BY <2>4, <2>5
<1>12. CASE \E j \in Jobs : MarkIssued(j) \/ MarkFails(j)
  <2>1. PICK j \in Jobs : MarkIssued(j) \/ MarkFails(j)
    BY <1>12
  <2>2. /\ \A k \in Jobs : k # j => run'[k] = run[k]
        /\ run'[j] \notin {"lookup", "offer"}
        /\ UNCHANGED <<req, queue, todo, payload, withData, delivered>>
    BY <2>1 DEF TypeOK, MarkIssued, MarkFails, Step
  <2>3. \A d \in Dispatches : MayOffer(d, r)' => MayOffer(d, r)
    BY <2>2, JobParts DEF MayOffer
  <2>4. CASE j[2] = r
    <3>1. ~(row'[r].present /\ row'[r].data)
      BY <2>1, <2>4, JobParts DEF TypeOK, RowRecord, MarkIssued, MarkFails
    <3> QED
      BY <2>2, <2>3, <3>1 DEF OneOfferOf
  <2>5. CASE j[2] # r
    <3>1. row'[r] = row[r]
      BY <2>1, <2>5, JobParts DEF TypeOK, MarkIssued, MarkFails
    <3>2. \A d \in Dispatches : run'[<<d, r>>] = run[<<d, r>>]
      BY <2>2, <2>5, JobParts
    <3> QED
      BY <1>1, <2>2, <2>3, <3>1, <3>2 DEF Quiet
  <2> QED
    BY <2>4, <2>5
<1>13. CASE Crash \/ \E j \in Jobs : JobRejects(j)
  <2>1. Restart
    BY <1>13 DEF Crash, JobRejects
  <2>2. \A d \in Dispatches : run[<<d, r>>] # "mark" /\ <<d, r>> \notin active
    BY <2>1 DEF Restart
  <2>3. \A d \in Dispatches : MayOffer(d, r)' => MayOffer(d, r)
    BY <2>1, <2>2, JobParts DEF Restart, PutBack, MayOffer
  <2>4. req'[FileOf(r)] # "storing" /\ row' = row /\ delivered' = delivered
    BY <2>1, RowParts DEF TypeOK, Restart
  <2> QED
    BY <1>1, <2>2, <2>3, <2>4 DEF Quiet
<1>14. CASE PurgeCommit
  BY <1>1, <1>14 DEF TypeOK, Quiet, MayOffer, PurgeCommit, NoRow
<1> QED
  BY <1>2, <1>3, <1>4, <1>5, <1>6, <1>7, <1>8, <1>9, <1>10, <1>11, <1>12, <1>13, <1>14
  DEF Next, IssueStep, JobStep

\* A recipient gets a second offer only for one of the reasons recorded in
\* disturbed, however retries, re-deliveries and crashes interleave.
THEOREM SecondOffersHaveCauses == Spec => []SecondOfferHasCause
<1>1. TypeOK /\ OneOfferEach => SecondOfferHasCause
  BY DEF TypeOK, OneOfferEach, OneOfferOf, SecondOfferHasCause
<1> QED
  BY <1>1, InitTypeOK, NextTypeOK, InitJobs, NextJobs, InitPayloads, NextPayloads, InitOneOffer,
     NextOneOffer, PTL DEF Spec

-----------------------------------------------------------------------------
\* Completed files.

\* At first no file exists.
LEMMA InitNothingLeftOut == Init => NothingLeftOut
BY DEF Init, NothingLeftOut, WholeAndTrue, Exists, Untouched

\* Every step keeps uploads whole and completion true.
LEMMA NextNothingLeftOut ==
  /\ TypeOK /\ RowsAreGrounded /\ JobsComeFromPayloads /\ PayloadsComeFromRows /\ NothingLeftOut
  /\ [Next]_vars
  => NothingLeftOut'
<1> SUFFICES ASSUME TypeOK, RowsAreGrounded, JobsComeFromPayloads, PayloadsComeFromRows,
                    NothingLeftOut, [Next]_vars
             PROVE NothingLeftOut'
  OBVIOUS
<1> SUFFICES ASSUME NEW f \in Files PROVE WholeAndTrue(f)'
  BY DEF NothingLeftOut
<1> WholeAndTrue(f)
  BY DEF NothingLeftOut
<1> USE DEF store, redis, request, dispatch, job, history
<1>1. ASSUME UNCHANGED <<file, row, req, toStore, payload, run, delivered, early>>
      PROVE WholeAndTrue(f)'
  BY <1>1 DEF WholeAndTrue, Exists, AllOffered, Untouched, Completing
<1>2. CASE \/ vars' = vars
           \/ CacheExpires \/ SelectiveIssue
           \/ PurgeRead \/ PurgeAborts
           \/ \E d \in Dispatches : EnqueueBatch(d)
           \/ \E j \in Jobs : AckJob(j)
  BY <1>1, <1>2 DEF vars, CacheExpires, SelectiveIssue, PurgeRead, PurgeAborts, EnqueueBatch, AckJob
<1>3. CASE \E g \in Files : StartIssue(g)
  BY <1>3, RowParts DEF TypeOK, WholeAndTrue, Exists, AllOffered, Untouched, Completing,
     StartIssue, RowsOf
<1>4. CASE \E g \in Files : \E r \in RowsOf(g) : StoreRow(r)
  BY <1>4, RowParts DEF TypeOK, WholeAndTrue, Exists, AllOffered, Untouched, Completing, StoreRow,
     FreshRow, RowsOf
<1>5. CASE \E g \in Files : \E r \in RowsOf(g) : StoreRowFails(r)
  BY <1>5, RowParts DEF TypeOK, PayloadsComeFromRows, WholeAndTrue, Exists, AllOffered, Untouched,
     Completing, StoreRowFails, RowsOf
<1>6. CASE \E g \in Files : DispatchFails(g) \/ FinallyFails(g)
  BY <1>6, RowParts DEF TypeOK, WholeAndTrue, Exists, AllOffered, Untouched, Completing,
     DispatchFails, FinallyFails
<1>7. CASE \E g \in Files : FinallyUpdate(g)
  BY <1>7, RowParts DEF TypeOK, WholeAndTrue, Exists, AllOffered, Untouched, Completing,
     FinallyUpdate
<1>8. CASE \E g \in Files : DispatchFile(g)
  BY <1>8, RowParts, JobParts DEF TypeOK, JobsComeFromPayloads, WholeAndTrue, Exists, AllOffered,
     Untouched, Completing, DispatchFile,
     Dispatches, Present, RowsOf
<1>9. CASE \E g \in Files, d \in Retries : Retry(g, d)
  <2>1. PICK g \in Files, d \in Retries : Retry(g, d)
    BY <1>9
  <2>2. d \in Dispatches /\ \A r \in Outstanding(g) : FileOf(r) = g
    BY DEF Dispatches, Outstanding, Present, RowsOf
  <2>3. UNCHANGED <<file, row, req, toStore, run, delivered>>
    BY <2>1 DEF Retry
  <2>4. f \notin early' /\ req[f] \in {"none", "storing"} /\ Untouched(f) => Untouched(f)'
    <3>1. CASE g = f
      <4>1. f \notin early' => req[f] # "storing"
        BY <2>1, <3>1 DEF TypeOK, Retry
      <4>2. req[f] # "none"
        BY <2>1, <3>1, RowParts DEF Retry, Outstanding, Present, RowsOf, PayloadsComeFromRows,
           Stored
      <4> QED
        BY <4>1, <4>2
    <3>2. CASE g # f
      BY <2>1, <2>2, <3>2 DEF TypeOK, Retry, Untouched
    <3> QED
      BY <3>1, <3>2
  <2>5. early \subseteq early'
    BY <2>1 DEF Retry
  <2> QED
    BY <2>3, <2>4, <2>5 DEF WholeAndTrue, Exists, AllOffered, Completing
<1>10. CASE \E j \in Jobs : StartJob(j) \/ AgentFound(j) \/ OfferRefused(j) \/ MarkFails(j)
  BY <1>10 DEF TypeOK, WholeAndTrue, Exists, AllOffered, Untouched, Completing, StartJob,
     AgentFound, OfferRefused, MarkFails, Step
<1>11. CASE \E j \in Jobs : OfferDelivered(j) \/ OfferAnswerLost(j)
  BY <1>11, JobParts, RowParts DEF TypeOK, WholeAndTrue, Exists, AllOffered, Untouched,
     Completing, OfferDelivered, OfferAnswerLost,
     Step, RowsOf
<1>12. CASE \E j \in Jobs : MarkIssued(j) \/ SaveOutcome(j)
  <2>1. PICK j \in Jobs : MarkIssued(j) \/ SaveOutcome(j)
    BY <1>12
  <2>2. \A r \in Rows : row'[r].present = row[r].present
    <3>1. CASE MarkIssued(j)
      BY <3>1, JobParts DEF TypeOK, RowRecord, MarkIssued
    <3>2. CASE SaveOutcome(j)
      BY <3>2, JobParts DEF TypeOK, RowRecord, SaveOutcome
    <3> QED
      BY <2>1, <3>1, <3>2
  <2>3. \A k \in Jobs : run'[k] = "close_completed" => run[k] = "close_completed"
    <3>1. CASE MarkIssued(j)
      BY <3>1 DEF TypeOK, MarkIssued, Step
    <3>2. CASE SaveOutcome(j)
      BY <3>2 DEF TypeOK, SaveOutcome
    <3> QED
      BY <2>1, <3>1, <3>2
  <2>4. UNCHANGED <<file, req, toStore, payload, delivered, early>>
    BY <2>1 DEF MarkIssued, SaveOutcome
  <2> QED
    BY <2>2, <2>3, <2>4 DEF WholeAndTrue, Exists, AllOffered, Untouched, Completing, RowsOf
<1>13. CASE \E j \in Jobs : CountErrors(j)
  BY <1>13, JobParts, RowParts DEF TypeOK, RowRecord, RowsAreGrounded, WholeAndTrue, Exists,
     AllOffered, Untouched, Completing,
     CountErrors, Outstanding, Present, RowsOf
<1>14. CASE \E j \in Jobs : CloseFile(j)
  BY <1>14, JobParts, RowParts DEF TypeOK, JobsComeFromPayloads, WholeAndTrue, Exists, AllOffered,
     Untouched, Completing, CloseFile,
     Step
<1>15. CASE Crash \/ \E j \in Jobs : JobRejects(j)
  <2>1. Restart
    BY <1>15 DEF Crash, JobRejects
  <2>2. /\ req'[f] # "storing"
        /\ req'[f] = "none" => req[f] = "none"
        /\ req'[f] \in {"returning", "returned"} => req[f] \in {"returning", "returned"}
    BY <2>1 DEF TypeOK, RequestPc, Restart
  <2>3. /\ \A j \in Jobs : run'[j] = "idle"
        /\ UNCHANGED <<file, row, payload, delivered, early>>
    BY <2>1 DEF Restart, store
  <2> QED
    BY <2>2, <2>3 DEF WholeAndTrue, Exists, AllOffered, Untouched, Completing
<1>16. CASE PurgeCommit
  BY <1>16, RowParts DEF TypeOK, WholeAndTrue, Exists, AllOffered, Untouched, Completing,
     PurgeCommit, Present, NoRow
<1> QED
  BY <1>2, <1>3, <1>4, <1>5, <1>6, <1>7, <1>8, <1>9, <1>10, <1>11, <1>12, <1>13, <1>14,
     <1>15, <1>16
  DEF Next, IssueStep, JobStep

\* PROCESS_COMPLETED is never shown for an upload that was stored whole, was
\* not retried before it was, and left a recipient without an offer.
THEOREM CompletionIsTrue == Spec => []CompletedMeansDelivered
<1>1. NothingLeftOut => CompletedMeansDelivered
  BY DEF NothingLeftOut, WholeAndTrue, Exists, AllOffered, CompletedMeansDelivered
<1> QED
  BY <1>1, InitTypeOK, NextTypeOK, InitGrounded, NextGrounded, InitJobs, NextJobs, InitPayloads,
     NextPayloads, InitNothingLeftOut, NextNothingLeftOut, PTL DEF Spec

-----------------------------------------------------------------------------
\* The flag of the last start.

\* There are finitely many rows, so that sets of them can be counted.
LEMMA RowsAreCountable ==
  ASSUME NEW S \in SUBSET Rows
  PROVE IsFiniteSet(S) /\ Cardinality(S) \in Nat
<1>1. IsFiniteSet(Rows)
  BY FS_Product, ConstantsAssumption DEF Rows
<1> QED
  BY <1>1, FS_Subset, FS_CardinalityType

\* At first nothing waits and nothing is counted.
LEMMA InitStarts == Init => StartsAreCounted
<1> SUFFICES ASSUME Init PROVE StartsAreCounted
  OBVIOUS
<1>1. \A d \in Dispatches : Waiting(d) = {} /\ payload[d] = {} /\ counter[d] = 0
  BY DEF Init, Waiting
<1>2. Cardinality({}) = 0
  BY FS_EmptySet
<1>3. last = {}
  BY DEF Init
<1> QED
  BY <1>1, <1>2, <1>3 DEF StartsAreCounted

\* A step that counts nothing and lets no further job wait keeps the count.
LEMMA StartsStay ==
  ASSUME TypeOK, StartsAreCounted, counter' = counter, last' \subseteq last, payload' = payload,
         \A d \in Dispatches : Waiting(d)' = Waiting(d)
  PROVE StartsAreCounted'
<1>1. \A j \in last : j[1] \in Dispatches
  BY JobParts DEF TypeOK
<1> QED
  BY <1>1 DEF StartsAreCounted

\* A new dispatch was given as many rows as wait in it, and has counted none.
LEMMA StartsOfNew ==
  ASSUME TypeOK, StartsAreCounted, JobsComeFromPayloads,
         NEW d \in Dispatches, payload[d] = {}, NEW S \in SUBSET Rows,
         payload' = [payload EXCEPT ![d] = S], todo' = [todo EXCEPT ![d] = S],
         UNCHANGED <<queue, counter, last>>
  PROVE StartsAreCounted'
<1>1. Waiting(d) = {} /\ \A r \in Rows : <<d, r>> \notin queue
  BY DEF Waiting, JobsComeFromPayloads
<1>2. Waiting(d)' = S
  BY <1>1 DEF TypeOK, Waiting
<1>3. counter[d] = 0
  <2>1. counter[d] \in Nat /\ Cardinality(payload[d]) = 0 /\ Cardinality(Waiting(d)) = 0
    BY <1>1, FS_EmptySet DEF TypeOK
  <2>2. Cardinality(Waiting(d)) + counter[d] <= Cardinality(payload[d])
    BY DEF StartsAreCounted
  <2> QED
    BY <2>1, <2>2
<1>4. \A e \in Dispatches \ {d} : Waiting(e)' = Waiting(e) /\ payload'[e] = payload[e]
  BY DEF TypeOK, Waiting
<1>5. \A e \in Dispatches : Cardinality(Waiting(e)') + counter'[e] <= Cardinality(payload'[e])
  <2> SUFFICES ASSUME NEW e \in Dispatches
               PROVE Cardinality(Waiting(e)') + counter'[e] <= Cardinality(payload'[e])
    OBVIOUS
  <2>1. CASE e = d
    <3>1. payload'[d] = S /\ counter'[d] = 0 /\ Cardinality(S) \in Nat
      BY <1>3, RowsAreCountable DEF TypeOK
    <3> QED
      BY <2>1, <3>1, <1>2
  <2>2. CASE e # d
    BY <2>2, <1>4 DEF StartsAreCounted
  <2> QED
    BY <2>1, <2>2
<1>6. \A j \in last : j[1] \in Dispatches \ {d}
  BY JobParts DEF TypeOK, StartsAreCounted
<1> QED
  BY <1>4, <1>5, <1>6 DEF StartsAreCounted

\* A start moves a row from the waiting ones to the counted ones; the flag is
\* raised when none is left.
LEMMA StartsOfJob ==
  ASSUME TypeOK, JobsComeFromPayloads, StartsAreCounted, NEW j \in Jobs, StartJob(j)
  PROVE StartsAreCounted'
<1> DEFINE d == j[1]
           r == j[2]
<1>1. d \in Dispatches /\ r \in Rows /\ j = <<d, r>>
  BY JobParts
<1>2. j \in queue /\ queue' = queue \ {j} /\ UNCHANGED <<todo, payload>>
  BY DEF StartJob, dispatch
<1>3. r \in Waiting(d) /\ Waiting(d)' = Waiting(d) \ {r}
  BY <1>1, <1>2 DEF Waiting, JobsComeFromPayloads
<1>4. \A e \in Dispatches \ {d} : Waiting(e)' = Waiting(e)
  BY <1>1, <1>2 DEF Waiting
<1>5. /\ IsFiniteSet(Waiting(d))
      /\ Cardinality(Waiting(d)) \in Nat /\ Cardinality(payload[d]) \in Nat /\ counter[d] \in Nat
  <2>1. Waiting(d) \in SUBSET Rows /\ payload[d] \in SUBSET Rows
    BY <1>1 DEF Waiting, TypeOK
  <2> QED
    BY <2>1, <1>1, RowsAreCountable DEF TypeOK
<1>6. Cardinality(Waiting(d)') = Cardinality(Waiting(d)) - 1 /\ IsFiniteSet(Waiting(d)')
  BY <1>3, <1>5, FS_RemoveElement
<1>7. Cardinality(Waiting(d)) + counter[d] <= Cardinality(payload[d])
  BY <1>1 DEF StartsAreCounted
<1>8. Cardinality(Waiting(d)') \in Nat
  BY <1>6, FS_CardinalityType
<1>9. \A k \in last : k[1] \in Dispatches \ {d}
  BY <1>3, JobParts DEF TypeOK, StartsAreCounted
<1>10. \A e \in Dispatches \ {d} : counter'[e] = counter[e]
  BY DEF TypeOK, StartJob
<1>11. counter'[d] = IF IsLast(d) THEN 0 ELSE counter[d] + 1
  BY <1>1 DEF TypeOK, StartJob
<1>12. \A e \in Dispatches : Cardinality(Waiting(e)') + counter'[e] <= Cardinality(payload'[e])
  <2>1. Cardinality(Waiting(d)') + counter'[d] <= Cardinality(payload'[d])
    BY <1>2, <1>5, <1>6, <1>7, <1>11
  <2> QED
    BY <2>1, <1>2, <1>4, <1>10 DEF StartsAreCounted
<1>13. CASE IsLast(d)
  <2>1. Cardinality(Waiting(d)') = 0
    BY <1>13, <1>5, <1>6, <1>7, <1>8 DEF IsLast
  <2>2. Waiting(d)' = {}
    BY <2>1, <1>6, FS_EmptySet
  <2>3. last' = last \cup {j}
    BY <1>13 DEF StartJob
  <2>4. r \in payload'[d]
    BY <1>1, <1>2 DEF JobsComeFromPayloads
  <2>5. \A k \in last' : k[2] \in payload'[k[1]] /\ Waiting(k[1])' = {}
    BY <2>2, <2>3, <2>4, <1>2, <1>4, <1>9 DEF StartsAreCounted
  <2>6. \A k, l \in last' : k[1] = l[1] => k = l
    BY <2>3, <1>9 DEF StartsAreCounted
  <2> QED
    BY <2>5, <2>6, <1>12 DEF StartsAreCounted
<1>14. CASE ~IsLast(d)
  <2>1. last' = last
    BY <1>14 DEF StartJob
  <2> QED
    BY <2>1, <1>2, <1>4, <1>9, <1>12 DEF StartsAreCounted
<1> QED
  BY <1>13, <1>14

\* A restart forgets the counts, and the only job that comes back is one of its
\* dispatch.
LEMMA StartsOfRestart ==
  ASSUME TypeOK, JobsComeFromPayloads, StartsAreCounted, Restart
  PROVE StartsAreCounted'
<1>1. \A d \in Dispatches : Waiting(d)' \in SUBSET payload[d]
  BY DEF Waiting, Restart, PutBack, JobsComeFromPayloads
<1>2. \A d \in Dispatches : Cardinality(Waiting(d)') + counter'[d] <= Cardinality(payload'[d])
  <2> SUFFICES ASSUME NEW d \in Dispatches
               PROVE Cardinality(Waiting(d)') + counter'[d] <= Cardinality(payload'[d])
    OBVIOUS
  <2>1. payload[d] \in SUBSET Rows /\ payload'[d] = payload[d] /\ counter'[d] = 0
    BY DEF TypeOK, Restart
  <2>2. Waiting(d)' \in SUBSET Rows
    BY DEF Waiting
  <2>3. Cardinality(Waiting(d)') <= Cardinality(payload[d]) /\ Cardinality(Waiting(d)') \in Nat
    BY <1>1, <2>1, <2>2, RowsAreCountable, FS_Subset
  <2> QED
    BY <2>1, <2>3
<1>3. last' = {}
  BY DEF Restart
<1> QED
  BY <1>2, <1>3 DEF StartsAreCounted

\* Every step keeps the count.
LEMMA NextStarts ==
  TypeOK /\ JobsComeFromPayloads /\ StartsAreCounted /\ [Next]_vars => StartsAreCounted'
<1> SUFFICES ASSUME TypeOK, JobsComeFromPayloads, StartsAreCounted, [Next]_vars
             PROVE StartsAreCounted'
  OBVIOUS
<1> USE DEF store, redis, request, dispatch, job, history
<1>1. ASSUME UNCHANGED <<queue, todo, payload, counter>>, last' \subseteq last
      PROVE StartsAreCounted'
  BY <1>1, StartsStay DEF Waiting
<1>2. CASE \/ vars' = vars
           \/ CacheExpires \/ SelectiveIssue
           \/ PurgeRead \/ PurgeCommit \/ PurgeAborts
           \/ \E f \in Files : \E r \in RowsOf(f) : StoreRow(r)
  BY <1>1, <1>2 DEF vars, CacheExpires, SelectiveIssue, PurgeRead, PurgeCommit, PurgeAborts,
     StoreRow
<1>3. CASE \E f \in Files : \/ StartIssue(f) \/ DispatchFails(f) \/ FinallyUpdate(f)
                           \/ FinallyFails(f) \/ \E r \in RowsOf(f) : StoreRowFails(r)
  BY <1>1, <1>3 DEF StartIssue, DispatchFails, FinallyUpdate, FinallyFails, StoreRowFails
<1>4. CASE \E f \in Files : DispatchFile(f)
  <2> PICK f \in Files : DispatchFile(f)
    BY <1>4
  <2>1. f \in Dispatches /\ payload[f] = {} /\ Present(f) \in SUBSET Rows
    BY DEF DispatchFile, Dispatches, JobsComeFromPayloads, Present, RowsOf
  <2>2. /\ payload' = [payload EXCEPT ![f] = Present(f)]
        /\ todo' = [todo EXCEPT ![f] = Present(f)]
        /\ UNCHANGED <<queue, counter, last>>
    BY DEF DispatchFile
  <2> QED
    BY <2>1, <2>2, StartsOfNew
<1>5. CASE \E f \in Files, d \in Retries : Retry(f, d)
  <2> PICK f \in Files, d \in Retries : Retry(f, d)
    BY <1>5
  <2>1. d \in Dispatches /\ payload[d] = {} /\ Outstanding(f) \in SUBSET Rows
    BY DEF Retry, Dispatches, Outstanding, Present, RowsOf
  <2>2. /\ payload' = [payload EXCEPT ![d] = Outstanding(f)]
        /\ todo' = [todo EXCEPT ![d] = Outstanding(f)]
        /\ UNCHANGED <<queue, counter, last>>
    BY DEF Retry
  <2> QED
    BY <2>1, <2>2, StartsOfNew
<1>6. CASE \E d \in Dispatches : EnqueueBatch(d)
  <2> PICK d \in Dispatches : EnqueueBatch(d)
    BY <1>6
  <2>1. PICK batch \in SUBSET todo[d] : /\ queue' = queue \cup ({d} \X batch)
                                       /\ todo' = [todo EXCEPT ![d] = @ \ batch]
    BY DEF EnqueueBatch
  <2>2. \A e \in Dispatches : Waiting(e)' = Waiting(e)
    BY <2>1 DEF TypeOK, Waiting
  <2>3. UNCHANGED <<payload, counter, last>>
    BY DEF EnqueueBatch
  <2> QED
    BY <2>2, <2>3, StartsStay
<1>7. CASE \E j \in Jobs : StartJob(j)
  BY <1>7, StartsOfJob
<1>8. CASE \E j \in Jobs : \/ AckJob(j) \/ AgentFound(j) \/ OfferDelivered(j) \/ OfferRefused(j)
                          \/ OfferAnswerLost(j) \/ MarkIssued(j) \/ MarkFails(j)
                          \/ SaveOutcome(j) \/ CountErrors(j) \/ CloseFile(j)
  BY <1>1, <1>8 DEF AckJob, AgentFound, OfferDelivered, OfferRefused, OfferAnswerLost, MarkIssued,
     MarkFails, SaveOutcome, CountErrors, CloseFile
<1>9. CASE Crash \/ \E j \in Jobs : JobRejects(j)
  BY <1>9, StartsOfRestart DEF Crash, JobRejects
<1> QED
  BY <1>2, <1>3, <1>4, <1>5, <1>6, <1>7, <1>8, <1>9 DEF Next, IssueStep, JobStep

\* isLastData goes to one call of a dispatch at most, when no other job of it
\* is left to start, though the count is kept in memory and lost with it.
THEOREM OneCallCloses == Spec => []LastClosesDispatch
<1>1. TypeOK /\ StartsAreCounted => LastClosesDispatch
  <2> SUFFICES ASSUME TypeOK, StartsAreCounted, NEW j \in last
               PROVE /\ todo[j[1]] = {}
                     /\ \A r \in Rows : <<j[1], r>> \notin queue
                     /\ \A k \in last : k[1] = j[1] => k = j
    BY DEF LastClosesDispatch
  <2>1. j[1] \in Dispatches /\ Waiting(j[1]) = {}
    BY JobParts DEF TypeOK, StartsAreCounted
  <2> QED
    BY <2>1 DEF TypeOK, Waiting, StartsAreCounted
<1> QED
  BY <1>1, InitTypeOK, NextTypeOK, InitJobs, NextJobs, InitStarts, NextStarts, PTL DEF Spec

-----------------------------------------------------------------------------
(* BulkIssuance implements CredentialDelivery: each step of the service    *)
(* registers, offers, closes, certifies, reopens or withdraws, or leaves   *)
(* the promise as it was.                                                  *)

\* The file of an issue request that was not made is not there yet: it is
\* StartIssue that creates it, and no file is created twice.
UnaskedIsAbsent == \A f \in Files : req[f] = "none" => file[f] = "absent"

\* At first nothing was asked and nothing is there.
LEMMA InitUnasked == Init => UnaskedIsAbsent
BY DEF Init, UnaskedIsAbsent

\* Only a request creates its file, and it never forgets that it was made.
LEMMA NextUnasked == TypeOK /\ UnaskedIsAbsent /\ [Next]_vars => UnaskedIsAbsent'
<1> SUFFICES ASSUME TypeOK, UnaskedIsAbsent, [Next]_vars PROVE UnaskedIsAbsent'
  OBVIOUS
<1> USE DEF store, redis, request, dispatch, job, history
<1>1. CASE UNCHANGED <<file, req>>
  BY <1>1 DEF UnaskedIsAbsent
<1>2. CASE \E f \in Files : \/ StartIssue(f) \/ DispatchFile(f) \/ DispatchFails(f)
                           \/ FinallyUpdate(f) \/ FinallyFails(f)
                           \/ \E r \in RowsOf(f) : StoreRowFails(r)
  BY <1>2, RowParts DEF TypeOK, UnaskedIsAbsent, StartIssue, DispatchFile, DispatchFails,
     FinallyUpdate, FinallyFails, StoreRowFails, RowsOf
<1>3. CASE \E j \in Jobs : CloseFile(j)
  BY <1>3, JobParts, RowParts DEF TypeOK, UnaskedIsAbsent, CloseFile, Exists
<1>4. CASE Crash \/ \E j \in Jobs : JobRejects(j)
  BY <1>4 DEF TypeOK, UnaskedIsAbsent, Crash, JobRejects, Restart
<1>5. CASE PurgeCommit
  BY <1>5 DEF TypeOK, UnaskedIsAbsent, PurgeCommit, Exists
<1>6. CASE \/ vars' = vars
           \/ CacheExpires \/ SelectiveIssue
           \/ PurgeRead \/ PurgeAborts
           \/ \E f \in Files : \/ \E r \in RowsOf(f) : StoreRow(r)
                               \/ \E d \in Retries : Retry(f, d)
           \/ \E d \in Dispatches : EnqueueBatch(d)
           \/ \E j \in Jobs : \/ StartJob(j) \/ AckJob(j) \/ AgentFound(j) \/ OfferDelivered(j)
                             \/ OfferRefused(j) \/ OfferAnswerLost(j) \/ MarkIssued(j)
                             \/ MarkFails(j) \/ SaveOutcome(j) \/ CountErrors(j)
  BY <1>1, <1>6 DEF vars, CacheExpires, SelectiveIssue, PurgeRead, PurgeAborts, StoreRow, Retry,
     EnqueueBatch, StartJob, AckJob, AgentFound, OfferDelivered, OfferRefused, OfferAnswerLost,
     MarkIssued, MarkFails, SaveOutcome, CountErrors
<1> QED
  BY <1>2, <1>3, <1>4, <1>5, <1>6 DEF Next, IssueStep, JobStep

-----------------------------------------------------------------------------
\* Once the issue request has answered, no crash, retry or late job turns
\* a final status back into started or interrupted, for any number of
\* files, retries and faults.
THEOREM OnlyOwnRequestReopens == Spec => ReopenedByOwnRequestOnly
<1> DEFINE OwnRequest == \A f \in Files :
             file[f] \in Final /\ file'[f] \notin Final \cup {"deleted"}
               => req[f] \in {"returning", "interrupting"}
<1>1. TypeOK /\ UnaskedIsAbsent /\ [Next]_vars => [OwnRequest]_vars
  <2> SUFFICES ASSUME TypeOK, UnaskedIsAbsent, [Next]_vars PROVE vars' = vars \/ OwnRequest
    OBVIOUS
  <2> USE DEF store, redis, request, dispatch, job, history
  <2>1. CASE file' = file
    BY <2>1
  <2>2. CASE \E f \in Files : StartIssue(f)
    BY <2>2 DEF TypeOK, UnaskedIsAbsent, StartIssue, Final
  <2>3. CASE \E f \in Files : FinallyUpdate(f)
    BY <2>3 DEF TypeOK, FinallyUpdate
  <2>4. CASE \E j \in Jobs : CloseFile(j)
    BY <2>4, JobParts, RowParts DEF TypeOK, CloseFile, Final
  <2>5. CASE PurgeCommit
    BY <2>5 DEF TypeOK, PurgeCommit
  <2>6. CASE \/ vars' = vars
             \/ CacheExpires \/ SelectiveIssue
             \/ PurgeRead \/ PurgeAborts \/ Crash
             \/ \E f \in Files : \/ \E r \in RowsOf(f) : StoreRow(r) \/ StoreRowFails(r)
                                 \/ \E d \in Retries : Retry(f, d)
                                 \/ DispatchFile(f) \/ DispatchFails(f) \/ FinallyFails(f)
             \/ \E d \in Dispatches : EnqueueBatch(d)
             \/ \E j \in Jobs : \/ StartJob(j) \/ AckJob(j) \/ AgentFound(j) \/ OfferDelivered(j)
                               \/ OfferRefused(j) \/ OfferAnswerLost(j) \/ MarkIssued(j)
                               \/ MarkFails(j) \/ SaveOutcome(j) \/ CountErrors(j)
                               \/ JobRejects(j)
    BY <2>1, <2>6 DEF vars, CacheExpires, SelectiveIssue, PurgeRead, PurgeAborts, Crash, StoreRow,
       StoreRowFails, Retry, DispatchFile, DispatchFails, FinallyFails, EnqueueBatch, StartJob,
       AckJob, AgentFound, OfferDelivered, OfferRefused, OfferAnswerLost, MarkIssued, MarkFails,
       SaveOutcome, CountErrors, JobRejects, Restart
  <2> QED
    BY <2>2, <2>3, <2>4, <2>5, <2>6 DEF Next, IssueStep, JobStep
<1>2. Spec => [][OwnRequest]_vars
  BY <1>1, InitTypeOK, NextTypeOK, InitUnasked, NextUnasked, PTL DEF Spec
<1> QED
  BY <1>2 DEF ReopenedByOwnRequestOnly

-----------------------------------------------------------------------------
\* The step of the service as the promise sees it.
Visible == [Delivery!Next]_<<LedgerOf, CertifiedFiles>>

\* One entry moves from a stage to another and the rest stays.
Moves(r, from, to) ==
  /\ LedgerOf[r] = from
  /\ LedgerOf'[r] = to
  /\ \A q \in Rows : q # r => LedgerOf'[q] = LedgerOf[q]
  /\ UNCHANGED CertifiedFiles

\* A move along the promise's path is a step of the promise.
LEMMA MovesAreVisible ==
  ASSUME NEW r \in Rows,
         \/ Moves(r, "none", "open") \/ Moves(r, "open", "offered")
         \/ Moves(r, "offered", "closed")
  PROVE  Visible
<1>1. ASSUME NEW from, NEW to, Moves(r, from, to) PROVE Delivery!Advance(r, from, to)
  <2>1. LedgerOf' = [LedgerOf EXCEPT ![r] = to]
    BY <1>1 DEF Moves, LedgerOf
  <2> QED
    BY <1>1, <2>1 DEF Moves, Delivery!Advance
<1>2. Delivery!Register(r) \/ Delivery!Offer(r) \/ Delivery!Close(r)
  BY <1>1 DEF Delivery!Register, Delivery!Offer, Delivery!Close
<1>3. r \in Delivery!Entries
  BY DEF Delivery!Entries, Rows
<1> QED
  BY <1>2, <1>3 DEF Visible, Delivery!Next

\* The ledger as a whole stays when every entry does.
LEMMA LedgerStays ==
  ASSUME \A r \in Rows : LedgerOf'[r] = LedgerOf[r] PROVE LedgerOf' = LedgerOf
BY DEF LedgerOf

\* A file that stops being certified, or was not, is reopened.
LEMMA ReopenIsVisible ==
  ASSUME NEW f \in Files, UNCHANGED LedgerOf, CertifiedFiles' = CertifiedFiles \ {f}
  PROVE  Visible
BY DEF Visible, Delivery!Next, Delivery!Reopen

\* What a step that touches neither rows, files nor mails leaves alone.
LEMMA LedgerUntouched == UNCHANGED <<file, row, delivered>> => UNCHANGED LedgerOf
BY DEF LedgerOf, StageOf

\* Every step of the service is a step of the promise or invisible to it.
LEMMA NextIsVisible ==
  /\ TypeOK /\ RowsAreGrounded /\ JobsComeFromPayloads /\ PayloadsComeFromRows /\ NothingLeftOut
  /\ UnaskedIsAbsent
  /\ [Next]_vars
  => Visible
<1> SUFFICES ASSUME TypeOK, RowsAreGrounded, JobsComeFromPayloads, PayloadsComeFromRows,
                    NothingLeftOut, UnaskedIsAbsent, [Next]_vars
             PROVE Visible
  OBVIOUS
<1> USE DEF store, redis, request, dispatch, job, history
<1>1. ASSUME UNCHANGED <<file, row, delivered>>, UNCHANGED CertifiedFiles PROVE Visible
  BY <1>1, LedgerUntouched DEF Visible
<1>2. CASE \/ vars' = vars
           \/ CacheExpires \/ SelectiveIssue
           \/ PurgeRead \/ PurgeAborts
           \/ \E d \in Dispatches : EnqueueBatch(d)
           \/ \E j \in Jobs : StartJob(j) \/ AckJob(j) \/ AgentFound(j) \/ OfferRefused(j)
                             \/ MarkFails(j) \/ CountErrors(j)
  <2>1. UNCHANGED <<file, row, delivered, req, early>>
    BY <1>2 DEF vars, CacheExpires, SelectiveIssue, PurgeRead, PurgeAborts, EnqueueBatch,
       StartJob, AckJob, AgentFound, OfferRefused, MarkFails, CountErrors
  <2> QED
    BY <1>1, <2>1 DEF CertifiedFiles
<1>3. CASE \/ \E f \in Files : \/ DispatchFile(f) \/ DispatchFails(f) \/ FinallyFails(f)
                              \/ \E r \in RowsOf(f) : StoreRowFails(r)
           \/ \E f \in Files, d \in Retries : Retry(f, d)
  <2>1. UNCHANGED <<file, row, delivered>>
    BY <1>3 DEF DispatchFile, DispatchFails, FinallyFails, StoreRowFails, Retry
  <2>2. UNCHANGED CertifiedFiles
    BY <1>3, RowParts DEF TypeOK, NothingLeftOut, WholeAndTrue, CertifiedFiles, DispatchFile,
       DispatchFails, FinallyFails, StoreRowFails, Retry, RowsOf
  <2> QED
    BY <1>1, <2>1, <2>2
<1>4. CASE Crash \/ \E j \in Jobs : JobRejects(j)
  <2>1. Restart
    BY <1>4 DEF Crash, JobRejects
  <2>2. \A f \in Files : req'[f] \in {"returning", "returned"}
                           <=> req[f] \in {"returning", "returned"}
    BY <2>1 DEF TypeOK, RequestPc, Restart
  <2>3. UNCHANGED <<file, row, delivered, early>>
    BY <2>1 DEF Restart
  <2> QED
    BY <1>1, <2>2, <2>3 DEF CertifiedFiles
<1>5. CASE \E f \in Files : StartIssue(f)
  <2>1. PICK f \in Files : StartIssue(f)
    BY <1>5
  <2>2. file[f] = "absent" /\ file' = [file EXCEPT ![f] = "started"]
    BY <2>1 DEF UnaskedIsAbsent, StartIssue
  <2>3. \A r \in Rows : row[r].present => FileOf(r) # f
    BY <2>2 DEF RowsAreGrounded, Exists
  <2>4. \A r \in Rows : LedgerOf'[r] = LedgerOf[r]
    BY <2>1, <2>2, <2>3, RowParts DEF TypeOK, LedgerOf, StageOf, StartIssue
  <2>5. UNCHANGED CertifiedFiles
    BY <2>1, <2>2 DEF TypeOK, CertifiedFiles, StartIssue
  <2> QED
    BY <2>4, <2>5, LedgerStays DEF Visible
<1>6. CASE \E f \in Files : \E r \in RowsOf(f) : StoreRow(r)
  <2>1. PICK r \in Rows : StoreRow(r)
    BY <1>6 DEF RowsOf
  <2>2. ~row[r].present /\ delivered[r] = 0
    BY <2>1 DEF TypeOK, StoreRow, PayloadsComeFromRows, Stored
  <2>3. Moves(r, "none", "open")
    BY <2>1, <2>2, RowParts DEF TypeOK, Moves, LedgerOf, StageOf, CertifiedFiles, StoreRow,
       FreshRow, Exists
  <2> QED
    BY <2>3, MovesAreVisible
<1>7. CASE \E j \in Jobs : OfferDelivered(j) \/ OfferAnswerLost(j)
  <2>1. PICK j \in Jobs : OfferDelivered(j) \/ OfferAnswerLost(j)
    BY <1>7
  <2>2. /\ UNCHANGED <<file, row, req, early>>
        /\ delivered' = [delivered EXCEPT ![j[2]] = @ + 1]
    BY <2>1 DEF OfferDelivered, OfferAnswerLost
  <2>3. UNCHANGED CertifiedFiles
    BY <2>2 DEF CertifiedFiles
  <2>4. \A q \in Rows : q # j[2] => LedgerOf'[q] = LedgerOf[q]
    BY <2>2 DEF TypeOK, LedgerOf, StageOf
  <2>5. CASE LedgerOf[j[2]] = "open"
    <3>1. Moves(j[2], "open", "offered")
      BY <2>2, <2>3, <2>4, <2>5, JobParts DEF TypeOK, Moves, LedgerOf, StageOf
    <3> QED
      BY <3>1, JobParts, MovesAreVisible
  <2>6. CASE LedgerOf[j[2]] # "open"
    <3>1. LedgerOf'[j[2]] = LedgerOf[j[2]]
      BY <2>2, <2>6, JobParts DEF TypeOK, LedgerOf, StageOf
    <3> QED
      BY <2>3, <2>4, <3>1, LedgerStays DEF Visible
  <2> QED
    BY <2>5, <2>6
<1>8. CASE \E j \in Jobs : MarkIssued(j)
  <2>1. PICK j \in Jobs : MarkIssued(j)
    BY <1>8
  <2>2. /\ UNCHANGED <<file, delivered, req, early>>
        /\ row' = [row EXCEPT ![j[2]].status = TRUE, ![j[2]].data = FALSE]
    BY <2>1 DEF MarkIssued
  <2>3. row[j[2]].present /\ delivered[j[2]] > 0 /\ Exists(FileOf(j[2]))
    BY <2>1, JobParts DEF MarkIssued, Step, RowsAreGrounded
  <2>4. row'[j[2]].present /\ row'[j[2]].status
    BY <2>2, <2>3, JobParts DEF TypeOK, RowRecord
  <2>5. UNCHANGED CertifiedFiles
    BY <2>2 DEF CertifiedFiles
  <2>6. \A q \in Rows : q # j[2] => LedgerOf'[q] = LedgerOf[q]
    BY <2>2 DEF TypeOK, LedgerOf, StageOf
  <2>7. LedgerOf'[j[2]] = "closed"
    BY <2>2, <2>3, <2>4, JobParts DEF LedgerOf, StageOf, Exists
  <2>8. LedgerOf[j[2]] \in {"offered", "closed"}
    BY <2>3, JobParts DEF TypeOK, RowRecord, LedgerOf, StageOf, Exists
  <2>9. CASE LedgerOf[j[2]] = "offered"
    BY <2>5, <2>6, <2>7, <2>9, JobParts, MovesAreVisible DEF Moves
  <2>10. CASE LedgerOf[j[2]] = "closed"
    BY <2>5, <2>6, <2>7, <2>10, LedgerStays DEF Visible
  <2> QED
    BY <2>8, <2>9, <2>10
<1>9. CASE \E j \in Jobs : SaveOutcome(j)
  <2>1. PICK j \in Jobs : SaveOutcome(j)
    BY <1>9
  <2>2. UNCHANGED <<file, delivered, req, early>>
    BY <2>1 DEF SaveOutcome
  <2>3. \A r \in Rows : row'[r].present = row[r].present /\ row'[r].status = row[r].status
    BY <2>1, JobParts DEF TypeOK, RowRecord, SaveOutcome
  <2>4. \A r \in Rows : LedgerOf'[r] = LedgerOf[r]
    BY <2>2, <2>3 DEF LedgerOf, StageOf
  <2> QED
    BY <2>2, <2>4, LedgerStays DEF Visible, CertifiedFiles
<1>10. ASSUME NEW f \in Files, NEW to, to \notin {"deleted", "completed"}, Exists(f),
              file' = [file EXCEPT ![f] = to], UNCHANGED <<row, delivered, early>>,
              \A g \in Files \ {f} : req'[g] = req[g]
       PROVE  Visible
  <2>1. \A r \in Rows : LedgerOf'[r] = LedgerOf[r]
    BY <1>10, RowParts DEF TypeOK, LedgerOf, StageOf, Exists
  <2>2. CertifiedFiles' = CertifiedFiles \ {f}
    BY <1>10 DEF TypeOK, CertifiedFiles
  <2> QED
    BY <2>1, <2>2, LedgerStays, ReopenIsVisible
<1>11. CASE \E f \in Files : FinallyUpdate(f)
  BY <1>10, <1>11 DEF TypeOK, FinallyUpdate
<1>12. CASE \E j \in Jobs : CloseFile(j)
  <2>1. PICK j \in Jobs : CloseFile(j)
    BY <1>12
  <2> DEFINE f == FileOf(j[2])
  <2>2. f \in Files /\ Exists(f)
    BY <2>1, JobParts, RowParts DEF CloseFile
  <2>3. CASE run[j] = "close_completed"
    <3>1. file' = [file EXCEPT ![f] = "completed"] /\ UNCHANGED <<row, delivered, req, early>>
      BY <2>1, <2>3 DEF CloseFile, Step
    <3>2. \A r \in Rows : LedgerOf'[r] = LedgerOf[r]
      BY <2>2, <3>1, RowParts DEF TypeOK, LedgerOf, StageOf, Exists
    <3>3. CASE req[f] \in {"returning", "returned"} /\ f \notin early
      <4>1. CertifiedFiles' = CertifiedFiles \cup {f}
        BY <2>2, <3>1, <3>3 DEF TypeOK, CertifiedFiles
      <4>2. AllOffered(f) /\ \A r \in RowsOf(f) : row[r].present
        BY <2>2, <2>3, <3>3, JobParts DEF NothingLeftOut, WholeAndTrue, Completing
      <4>3. \A r \in RowsOf(f) : LedgerOf[r] \in {"offered", "closed"}
        BY <2>2, <4>2 DEF TypeOK, RowRecord, AllOffered, RowsOf, LedgerOf, StageOf, Exists
      <4>4. Delivery!EntriesOf(f) \subseteq RowsOf(f)
        BY <2>2 DEF Delivery!EntriesOf, RowsOf, Rows, FileOf
      <4>5. Delivery!Certify(f)
        BY <3>2, <4>1, <4>3, <4>4, LedgerStays DEF Delivery!Certify
      <4> QED
        BY <2>2, <4>5 DEF Visible, Delivery!Next
    <3>4. CASE ~(req[f] \in {"returning", "returned"} /\ f \notin early)
      <4>1. UNCHANGED CertifiedFiles
        BY <2>2, <3>1, <3>4 DEF TypeOK, CertifiedFiles
      <4> QED
        BY <3>2, <4>1, LedgerStays DEF Visible
    <3> QED
      BY <3>3, <3>4
  <2>4. CASE run[j] = "close_partial"
    BY <1>10, <2>1, <2>2, <2>4 DEF CloseFile, Step
  <2> QED
    BY <2>1, <2>3, <2>4 DEF CloseFile, Step
<1>13. CASE PurgeCommit
  <2> DEFINE F == {f \in Files : Exists(f)}
  <2>1. /\ \A f \in Files : file'[f] = IF f \in F THEN "deleted" ELSE file[f]
        /\ \A r \in Rows : row[r].present /\ FileOf(r) \notin F => row'[r] = row[r]
        /\ UNCHANGED <<delivered, req, early>>
    BY <1>13, RowParts DEF TypeOK, PurgeCommit, RowsAreGrounded
  <2>2. \A r \in Rows : ~row[r].present => ~row'[r].present
    BY <1>13 DEF TypeOK, PurgeCommit, NoRow
  <2>3. \A r \in Rows : LedgerOf'[r] = IF FileOf(r) \in F THEN "withdrawn" ELSE LedgerOf[r]
    BY <2>1, <2>2, RowParts DEF TypeOK, RowsAreGrounded, LedgerOf, StageOf
  <2>4. LedgerOf' = [e \in Delivery!Entries |-> IF e[1] \in F THEN "withdrawn" ELSE LedgerOf[e]]
    BY <2>3 DEF LedgerOf, Delivery!Entries, Rows, FileOf
  <2>5. CertifiedFiles' = CertifiedFiles \ F
    BY <2>1 DEF CertifiedFiles
  <2>6. F \in SUBSET Files /\ Delivery!Withdraw(F)
    BY <2>4, <2>5 DEF Delivery!Withdraw
  <2> QED
    BY <2>6 DEF Visible, Delivery!Next
<1>14. CASE \E f \in Files : IssueStep(f)
  BY <1>3, <1>6, <1>11, <1>14 DEF IssueStep
<1>15. CASE \E j \in Jobs : JobStep(j)
  BY <1>2, <1>4, <1>7, <1>8, <1>9, <1>12, <1>15 DEF JobStep
<1> QED
  BY <1>2, <1>3, <1>4, <1>5, <1>13, <1>14, <1>15 DEF Next

\* Bulk issuance, with its queue, worker, retries, deletions and crashes,
\* implements what CredentialDelivery promises.
THEOREM Implements == Spec => ImplementsDelivery
<1>1. Init => Delivery!Init
  BY DEF Init, Delivery!Init, Delivery!Entries, LedgerOf, StageOf, CertifiedFiles, NoRow, Rows,
     FileOf
<1>2. Spec => [][Delivery!Next]_<<LedgerOf, CertifiedFiles>>
  BY InitTypeOK, NextTypeOK, InitGrounded, NextGrounded, InitJobs, NextJobs, InitPayloads,
     NextPayloads, InitNothingLeftOut, NextNothingLeftOut, InitUnasked, NextUnasked,
     NextIsVisible, PTL DEF Spec, Visible
<1> QED
  BY <1>1, <1>2, PTL DEF Spec, ImplementsDelivery, Delivery!Spec
=============================================================================
