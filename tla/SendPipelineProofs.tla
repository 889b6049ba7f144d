------------------------- MODULE SendPipelineProofs -------------------------
(***************************************************************************)
(* Theorems about SendPipeline, for any number of workers, clients,        *)
(* recipients, requests and failing statements, and any page size.         *)
(***************************************************************************)
EXTENDS SendPipeline, NumberFacts

-----------------------------------------------------------------------------
(* Facts about numbers and finite sets *)

\* Any set of recipients is finite, and its cardinality a natural number.
LEMMA IdsFinite ==
  ASSUME NEW S \in SUBSET Ids
  PROVE  IsFiniteSet(S) /\ Cardinality(S) \in Nat
<1>1. IsFiniteSet(Ids)
  BY FS_Interval, SizesAssumption DEF Ids
<1>2. QED
  BY <1>1, FS_Subset, FS_CardinalityType

\* The results of a given status are counted by a natural number.
LEMMA ReportedFinite ==
  ASSUME TypeOK, NEW s
  PROVE  Cardinality(Reported(s)) \in Nat
<1>1. DOMAIN results = 1..Len(results) /\ Len(results) \in Nat
  BY DEF TypeOK
<1>2. IsFiniteSet(DOMAIN results)
  BY <1>1, FS_Interval
<1>3. Reported(s) \subseteq DOMAIN results
  BY DEF Reported
<1>4. QED
  BY <1>2, <1>3, FS_Subset, FS_CardinalityType

\* What a result is made of.
LEMMA ResultsType ==
  ASSUME TypeOK, NEW i \in DOMAIN results
  PROVE  results[i].id \in Ids /\ results[i].status \in {"sent", "failed"}
<1> DEFINE Result == [id : Ids, status : {"sent", "failed"}]
<1>1. results \in Seq(Result)
  BY DEF TypeOK
<1> HIDE DEF Result
<1>2. results[i] \in Result
  BY <1>1
<1>3. QED
  BY <1>2 DEF Result

\* The number of rows a page has.
LEMMA PageSizeType ==
  ASSUME TypeOK
  PROVE  PageSize \in Nat /\ Pending \in SUBSET Ids /\ Cardinality(Pending) \in Nat
<1>1. Pending \in SUBSET Ids
  BY DEF Pending
<1>2. Cardinality(Pending) \in Nat
  BY <1>1, IdsFinite
<1>3. QED
  BY <1>1, <1>2, SizesAssumption DEF PageSize, Min2, Max2, TypeOK

\* The updates that the program makes to a campaign's row give a campaign's row.
LEMMA RowUpdates ==
  ASSUME NEW x \in CampaignRow
  PROVE  /\ \A s \in Statuses : [x EXCEPT !.status = s] \in CampaignRow
         /\ \A n \in Int : [x EXCEPT !.total = n] \in CampaignRow
         /\ [status |-> x.status, total |-> 0, sent |-> 0, failed |-> 0] \in CampaignRow
         /\ x.total \in Int
<1>1. ASSUME NEW s \in Statuses PROVE [x EXCEPT !.status = s] \in CampaignRow
  BY DEF CampaignRow
<1>2. ASSUME NEW n \in Int PROVE [x EXCEPT !.total = n] \in CampaignRow
  BY DEF CampaignRow
<1>3. [status |-> x.status, total |-> 0, sent |-> 0, failed |-> 0] \in CampaignRow
  BY DEF CampaignRow
<1>4. x.total \in Int
  BY DEF CampaignRow
<1>5. QED
  BY <1>1, <1>2, <1>3, <1>4

-----------------------------------------------------------------------------
(* Type correctness *)

\* The run is in a state of its type at the start.
LEMMA TypeInit == Init => TypeOK
<1> SUFFICES ASSUME Init PROVE TypeOK
  OBVIOUS
<1>1. /\ RowsWith("sent") \in SUBSET Ids
      /\ RowsWith("failed") \in SUBSET Ids
  BY DEF RowsWith
<1>2. row \in CampaignRow
  BY <1>1, IdsFinite, SizesAssumption DEF Init, CampaignRow, Statuses
<1>3. NoRow \in CampaignRow
  BY DEF NoRow, CampaignRow
<1>4. snap \in [Clients -> CampaignRow]
  BY <1>3 DEF Init
<1>5. rcpt \in [Ids -> {"absent", "pending", "sent", "failed"}] /\ nextId \in 1 .. (MaxId + 1)
  BY SizesAssumption DEF Init
<1>6. /\ jobs \in Seq(Ids) /\ results \in Seq([id : Ids, status : {"sent", "failed"}])
      /\ offset \in Nat /\ batch \in SUBSET Ids /\ size \in Nat
  BY DEF Init
<1>7. /\ wpc \in [Workers -> WorkerPoints] /\ job \in [Workers -> Ids \cup {NoJob}]
      /\ rpc \in [Clients -> RequestPoints]
  BY DEF Init, WorkerPoints, RequestPoints
<1>8. /\ fed \in SUBSET Ids /\ mails \in [Ids -> Nat]
      /\ saved \in Nat /\ asked \in Nat /\ burst \in Int
      /\ pausedSends \in Nat /\ cancelledSends \in Nat /\ faults \in Nat
  BY RateAssumption DEF Init
<1>9. QED
  BY <1>2, <1>4, <1>5, <1>6, <1>7, <1>8 DEF Init, TypeOK

\* A step of the dispatcher keeps the types.
LEMMA TypeDispatcher == TypeOK /\ Dispatcher => TypeOK'
<1> SUFFICES ASSUME TypeOK, Dispatcher PROVE TypeOK'
  OBVIOUS
<1> USE DEF TypeOK, dbVars, workerVars, gateVars, finishVars, requestVars,
            historyVars, sendHistory
<1>1. CASE DispatcherCheck
  BY <1>1 DEF DispatcherCheck
<1>2. CASE DispatcherLoad
  <2>1. Page \in SUBSET Ids
    BY DEF Page, Pending
  <2>2. QED
    BY <1>2, <2>1, PageSizeType DEF DispatcherLoad
<1>3. CASE DispatcherLoadFails
  BY <1>3 DEF DispatcherLoadFails
<1>4. CASE DispatcherFeed
  BY <1>4 DEF DispatcherFeed
<1>5. CASE DispatcherGivesUp
  BY <1>5 DEF DispatcherGivesUp
<1>6. CASE DispatcherNextPage
  BY <1>6 DEF DispatcherNextPage, NextOffset
<1>7. QED
  BY <1>1, <1>2, <1>3, <1>4, <1>5, <1>6 DEF Dispatcher

\* A step of a worker keeps the types.
LEMMA TypeWorker ==
  ASSUME TypeOK, JobInv, NEW w \in Workers, Worker(w)
  PROVE  TypeOK'
<1> USE DEF TypeOK, dbVars, dispatcherVars, gateVars, finishVars, requestVars,
            historyVars, sendHistory, WorkerPoints
<1>1. CASE WorkerTakes(w)
  BY <1>1 DEF WorkerTakes
<1>2. CASE WorkerExits(w)
  BY <1>2 DEF WorkerExits
<1>3. CASE WorkerGate(w)
  BY <1>3 DEF WorkerGate
<1>4. CASE WorkerWakes(w)
  BY <1>4 DEF WorkerWakes, AfterWake
<1>5. CASE WorkerReserves(w)
  BY <1>5 DEF WorkerReserves
<1>6. CASE WorkerDrops(w)
  BY <1>6 DEF WorkerDrops
<1>7. CASE WorkerSends(w)
  <2>1. job[w] \in Ids
    BY <1>7 DEF WorkerSends, JobInv, NoJob
  <2>2. mails' \in [Ids -> Nat]
    <3>1. mails' = mails \/ mails' = [mails EXCEPT ![job[w]] = @ + 1]
      BY <1>7 DEF WorkerSends
    <3>2. mails \in [Ids -> Nat]
      OBVIOUS
    <3> HIDE DEF TypeOK, WorkerPoints
    <3>3. \A f \in [Ids -> Nat], i \in Ids : [f EXCEPT ![i] = @ + 1] \in [Ids -> Nat]
      <4>1. ASSUME NEW f \in [Ids -> Nat], NEW i \in Ids
            PROVE  [f EXCEPT ![i] = @ + 1] \in [Ids -> Nat]
        BY ONLY <4>1
      <4>2. QED
        BY <4>1
    <3>4. QED
      BY <2>1, <3>1, <3>2, <3>3
  <2>3. wpc' \in [Workers -> WorkerPoints]
    BY <1>7 DEF WorkerSends
  <2>4. pausedSends' \in Nat /\ cancelledSends' \in Nat
    BY <1>7 DEF WorkerSends
  <2>5. QED
    BY <1>7, <2>2, <2>3, <2>4 DEF WorkerSends
<1>8. CASE WorkerReports(w)
  BY <1>8 DEF WorkerReports, JobInv, NoJob
<1>9. QED
  BY <1>1, <1>2, <1>3, <1>4, <1>5, <1>6, <1>7, <1>8 DEF Worker

\* A transaction of saveResults gives a recipient that still has a row the
\* outcome of one of its results, and changes nothing else in the table.
LEMMA SavedStatus ==
  ASSUME TypeOK, RunnerSaves, NEW r \in Ids
  PROVE  rcpt'[r] = rcpt[r] \/ (rcpt[r] # "absent" /\ rcpt'[r] \in {"sent", "failed"})
<1> DEFINE upTo == Min2(saved + SaveBatch, Len(results))
<1>1. DOMAIN results = 1 .. Len(results) /\ Len(results) \in Nat /\ saved \in Nat
  BY DEF TypeOK
<1>2. PICK bad \in SUBSET (saved + 1 .. upTo) :
        rcpt' = [q \in Ids |->
            LET hits == {i \in (saved + 1 .. upTo) \ bad : results[i].id = q}
            IN  IF rcpt[q] = "absent" \/ hits = {}
                THEN rcpt[q]
                ELSE results[CHOOSE i \in hits : \A j \in hits : j <= i].status]
  BY DEF RunnerSaves
<1> DEFINE hits == {i \in (saved + 1 .. upTo) \ bad : results[i].id = r}
           last == CHOOSE i \in hits : \A j \in hits : j <= i
<1>3. rcpt'[r] = IF rcpt[r] = "absent" \/ hits = {} THEN rcpt[r] ELSE results[last].status
  BY <1>2
<1>4. hits \in SUBSET (0 .. Len(results)) /\ hits \subseteq DOMAIN results
  BY <1>1, SizesAssumption DEF Min2
<1>5. ASSUME hits # {}
      PROVE  results[last].status \in {"sent", "failed"}
  <2> HIDE DEF hits
  <2>1. \E i \in hits : \A j \in hits : j <= i
    BY <1>1, <1>4, <1>5, GreatestNatural
  <2>2. last \in DOMAIN results
    BY <1>4, <2>1
  <2> HIDE DEF last
  <2>3. QED
    BY <2>2, ResultsType
<1> HIDE DEF hits, last
<1>6. QED
  BY <1>3, <1>5

\* A step of runCampaign keeps the types.
LEMMA TypeRunner == TypeOK /\ Runner => TypeOK'
<1> SUFFICES ASSUME TypeOK, Runner PROVE TypeOK'
  OBVIOUS
<1> USE DEF TypeOK, dbVars, dispatcherVars, workerVars, gateVars, requestVars,
            historyVars, sendHistory
<1>1. CASE RunnerJoins
  BY <1>1 DEF RunnerJoins
<1>2. CASE RunnerSaves
  <2>1. saved' \in Nat
    BY <1>2, SizesAssumption DEF RunnerSaves, Min2
  <2>2. rcpt' \in [Ids -> {"absent", "pending", "sent", "failed"}]
    <3>1. DOMAIN rcpt' = Ids /\ rcpt' = [r \in Ids |-> rcpt'[r]]
      BY <1>2 DEF RunnerSaves
    <3>2. QED
      BY <1>2, <3>1, SavedStatus
  <2>3. faults' \in Nat
    BY <1>2 DEF RunnerSaves
  <2>4. UNCHANGED <<phase, verdict, nextId, row, dispatcherVars, workerVars, gateVars,
                    results, requestVars, fed, sendHistory>>
    BY <1>2 DEF RunnerSaves
  <2>5. QED
    BY <2>1, <2>2, <2>3, <2>4
<1>3. CASE RunnerSaved
  BY <1>3 DEF RunnerSaved
<1>4. CASE RunnerJudges
  BY <1>4 DEF RunnerJudges, FinalStatus
<1>5. CASE RunnerRecords
  <2>1. row' = row \/ row' = FinalRow
    BY <1>5 DEF RunnerRecords
  <2>2. /\ Cardinality(Reported("sent")) \in Nat
        /\ Cardinality(Reported("failed")) \in Nat
    BY ReportedFinite
  <2>3. FinalRow \in CampaignRow
    <3>1. row \in CampaignRow /\ verdict \in Statuses \cup {"none"}
      BY DEF Statuses
    <3>2. row.sent + Cardinality(Reported("sent")) \in Nat
      BY <2>2, <3>1 DEF CampaignRow
    <3>3. row.failed + Cardinality(Reported("failed")) \in Nat
      BY <2>2, <3>1 DEF CampaignRow
    <3>4. QED
      BY <3>1, <3>2, <3>3 DEF FinalRow, CampaignRow
  <2>4. QED
    BY <1>5, <2>1, <2>3 DEF RunnerRecords
<1>6. CASE RunnerLeaves
  BY <1>6 DEF RunnerLeaves
<1>7. QED
  BY <1>1, <1>2, <1>3, <1>4, <1>5, <1>6 DEF Runner

\* A step of a request keeps the types.
LEMMA TypeClient ==
  ASSUME TypeOK, NEW c \in Clients, Begin(c) \/ Continue(c)
  PROVE  TypeOK'
<1> USE DEF TypeOK, dbVars, dispatcherVars, workerVars, gateVars, finishVars,
            historyVars, sendHistory, RequestPoints
<1>0. /\ NoRow \in CampaignRow
      /\ snap[c] \in CampaignRow /\ row \in CampaignRow
  BY DEF NoRow, CampaignRow
<1>1. CASE Begin(c)
  BY <1>1, <1>0, OpsAssumption DEF Begin
<1>2. CASE PauseRunner(c)
  BY <1>2 DEF PauseRunner
<1>3. CASE PauseRow(c)
  <2>1. row' \in CampaignRow
    BY <1>3, <1>0, RowUpdates DEF PauseRow, WriteStatus, Statuses
  <2>2. QED
    BY <1>3, <2>1 DEF PauseRow, WriteStatus
<1>4. CASE ResumeRunner(c)
  BY <1>4 DEF ResumeRunner
<1>5. CASE ResumeSignal(c)
  BY <1>5 DEF ResumeSignal
<1>6. CASE ResumeRow(c)
  <2>1. row' \in CampaignRow
    BY <1>6, <1>0, RowUpdates DEF ResumeRow, WriteStatus, Statuses
  <2>2. QED
    BY <1>6, <2>1 DEF ResumeRow, WriteStatus
<1>7. CASE CancelRunner(c)
  BY <1>7 DEF CancelRunner
<1>8. CASE CancelCtx(c)
  BY <1>8 DEF CancelCtx
<1>9. CASE SetRate(c)
  BY <1>9, RateAssumption DEF SetRate
<1>10. CASE UploadRows(c)
  <2>1. PICK n \in 1 .. (MaxId + 1 - nextId) :
          /\ rcpt' = [r \in Ids |-> IF r \in nextId .. (nextId + n - 1)
                                    THEN "pending" ELSE rcpt[r]]
          /\ nextId' = nextId + n
          /\ snap' = [snap EXCEPT ![c].total = @ + n]
    BY <1>10 DEF UploadRows
  <2>2. [snap[c] EXCEPT !.total = @ + n] \in CampaignRow
    <3>0. n \in Int
      BY SizesAssumption
    <3> HIDE DEF TypeOK, CampaignRow
    <3>1. snap[c].total \in Int
      BY <1>0, RowUpdates
    <3>2. snap[c].total + n \in Int
      BY <3>0, <3>1
    <3>3. QED
      BY <3>2, <1>0, RowUpdates
  <2>3. snap' \in [Clients -> CampaignRow]
    BY <2>1, <2>2
  <2>4. nextId' \in 1 .. (MaxId + 1)
    <3>1. nextId \in 1 .. (MaxId + 1)
      OBVIOUS
    <3> HIDE DEF TypeOK
    <3>2. QED
      BY <2>1, <3>1, SizesAssumption
  <2>5. rcpt' \in [Ids -> {"absent", "pending", "sent", "failed"}]
    BY <2>1
  <2>6. rpc' \in [Clients -> RequestPoints]
    BY <1>10 DEF UploadRows
  <2>7. QED
    BY SMTT(30), <1>10, <2>3, <2>4, <2>5, <2>6 DEF UploadRows
<1>11. CASE UploadRefused(c)
  BY <1>11, <1>0 DEF UploadRefused
<1>12. CASE DeleteRow(c)
  <2>1. [snap[c] EXCEPT !.total = Max2(0, @ - 1)] \in CampaignRow
    <3>1. snap[c].total \in Int
      BY <1>0, RowUpdates
    <3>2. Max2(0, snap[c].total - 1) \in Int
      BY <3>1 DEF Max2
    <3>3. QED
      BY <3>2, <1>0, RowUpdates
  <2>2. snap' \in [Clients -> CampaignRow]
    BY <1>12, <2>1 DEF DeleteRow
  <2>3. rcpt' \in [Ids -> {"absent", "pending", "sent", "failed"}]
    BY <1>12 DEF DeleteRow
  <2>4. QED
    BY <1>12, <2>2, <2>3 DEF DeleteRow
<1>13. CASE DeleteAllRows(c)
  <2>1. [status |-> snap[c].status, total |-> 0, sent |-> 0, failed |-> 0] \in CampaignRow
    BY <1>0, RowUpdates
  <2>2. snap' \in [Clients -> CampaignRow]
    BY <1>13, <2>1 DEF DeleteAllRows
  <2>3. QED
    BY <1>13, <2>2 DEF DeleteAllRows
<1>14. CASE SaveRow(c)
  BY <1>14, <1>0 DEF SaveRow
<1>15. QED
  BY <1>1, <1>2, <1>3, <1>4, <1>5, <1>6, <1>7, <1>8, <1>9, <1>10, <1>11, <1>12,
     <1>13, <1>14 DEF Continue

\* A worker holds a job exactly while processJob runs: the fact that makes the
\* results name recipients, without which TypeOK is not inductive.
LEMMA JobStep ==
  ASSUME TypeOK, JobInv, [Next]_vars
  PROVE  JobInv'
<1> USE DEF JobInv, dbVars, dispatcherVars, gateVars, finishVars, requestVars,
            historyVars, sendHistory
<1>1. CASE UNCHANGED <<wpc, job>>
  BY <1>1
<1>2. ASSUME NEW w \in Workers, Worker(w)
      PROVE  JobInv'
  <2> USE <1>2 DEF TypeOK
  <2>1. CASE WorkerTakes(w)
    <3>1. Head(jobs) \in Ids
      BY <2>1 DEF WorkerTakes
    <3>2. Head(jobs) # NoJob
      BY <3>1, SizesAssumption DEF Ids, NoJob
    <3>3. QED
      BY <2>1, <3>2 DEF WorkerTakes
  <2>2. CASE WorkerExits(w)
    BY <2>2 DEF WorkerExits
  <2>3. CASE WorkerGate(w)
    BY <2>3 DEF WorkerGate
  <2>4. CASE WorkerWakes(w)
    BY <2>4 DEF WorkerWakes, AfterWake
  <2>5. CASE WorkerReserves(w)
    BY <2>5 DEF WorkerReserves
  <2>6. CASE WorkerDrops(w)
    BY <2>6 DEF WorkerDrops
  <2>7. CASE WorkerSends(w)
    BY <2>7 DEF WorkerSends
  <2>8. CASE WorkerReports(w)
    BY <2>8 DEF WorkerReports
  <2>9. QED
    BY <2>1, <2>2, <2>3, <2>4, <2>5, <2>6, <2>7, <2>8 DEF Worker
<1>3. CASE Dispatcher
  BY <1>1, <1>3 DEF Dispatcher, DispatcherCheck, DispatcherLoad, DispatcherLoadFails,
     DispatcherFeed, DispatcherGivesUp, DispatcherNextPage, workerVars
<1>4. CASE Runner
  BY <1>1, <1>4 DEF Runner, RunnerJoins, RunnerSaves, RunnerSaved, RunnerJudges,
     RunnerRecords, RunnerLeaves, workerVars
<1>5. ASSUME NEW c \in Clients, Begin(c) \/ Continue(c)
      PROVE  JobInv'
  BY <1>1, <1>5 DEF Begin, Continue, PauseRunner, PauseRow, ResumeRunner, ResumeSignal,
     ResumeRow, WriteStatus, CancelRunner, CancelCtx, SetRate, UploadRows,
     UploadRefused, DeleteRow, DeleteAllRows, SaveRow, workerVars
<1>6. CASE UNCHANGED vars
  BY <1>1, <1>6 DEF vars, workerVars
<1>7. QED
  BY <1>2, <1>3, <1>4, <1>5, <1>6 DEF Next, Stop

\* Types and jobs together are an inductive invariant.
LEMMA TypeStep ==
  ASSUME TypeOK, JobInv, [Next]_vars
  PROVE  TypeOK'
<1>1. CASE Dispatcher
  BY <1>1, TypeDispatcher
<1>2. ASSUME NEW w \in Workers, Worker(w)
      PROVE  TypeOK'
  BY <1>2, TypeWorker
<1>3. CASE Runner
  BY <1>3, TypeRunner
<1>4. ASSUME NEW c \in Clients, Begin(c) \/ Continue(c)
      PROVE  TypeOK'
  BY <1>4, TypeClient
<1>5. CASE UNCHANGED vars
  BY <1>5 DEF TypeOK, vars, dbVars, dispatcherVars, workerVars, gateVars,
     finishVars, requestVars, historyVars, sendHistory
<1>6. QED
  BY <1>1, <1>2, <1>3, <1>4, <1>5 DEF Next, Stop

\* Every variable keeps its type, whatever the workers, the clients, the
\* recipients, the page size and the requests.
LEMMA TypeAndJobs == Spec => [](TypeOK /\ JobInv)
<1>1. Init => TypeOK /\ JobInv
  BY TypeInit DEF Init, JobInv
<1>2. TypeOK /\ JobInv /\ [Next]_vars => (TypeOK /\ JobInv)'
  BY TypeStep, JobStep
<1>3. QED
  BY <1>1, <1>2, PTL DEF Spec

THEOREM TypeCorrect == Spec => []TypeOK
BY TypeAndJobs, PTL

-----------------------------------------------------------------------------
(* Paging by offset *)

\* The rank of a recipient is a natural number; it grows with the recipient and
\* is at most the number of pending rows.
LEMMA RankType ==
  ASSUME NEW r \in Ids
  PROVE  /\ Rank(r) \in Nat /\ Cardinality(Pending) \in Nat
         /\ Rank(r) <= Cardinality(Pending)
         /\ \A p \in Ids : p <= r => Rank(p) <= Rank(r)
<1>1. Pending \in SUBSET Ids /\ IsFiniteSet(Pending) /\ Cardinality(Pending) \in Nat
  <2>1. Pending \in SUBSET Ids
    BY DEF Pending
  <2>2. QED
    BY <2>1, IdsFinite
<1>2. {q \in Pending : q <= r} \in SUBSET Pending
  OBVIOUS
<1>3. Rank(r) \in Nat /\ Rank(r) <= Cardinality(Pending)
  BY <1>1, <1>2, FS_Subset, FS_CardinalityType DEF Rank
<1>4. ASSUME NEW p \in Ids, p <= r
      PROVE  Rank(p) <= Rank(r)
  <2>1. {q \in Pending : q <= p} \in SUBSET {q \in Pending : q <= r}
    <3>1. \A q \in Pending : q \in Int
      BY <1>1, SizesAssumption DEF Ids
    <3>2. p \in Int /\ r \in Int
      BY SizesAssumption DEF Ids
    <3>3. \A q \in Pending : q <= p => q <= r
      BY <3>1, <3>2, <1>4
    <3>4. QED
      BY <3>3
  <2>2. IsFiniteSet({q \in Pending : q <= r})
    BY <1>1, <1>2, FS_Subset
  <2>3. QED
    BY <2>1, <2>2, FS_Subset DEF Rank
<1>5. QED
  BY <1>1, <1>3, <1>4

\* A step that makes no row up to r pending moves r to no higher rank: saved
\* outcomes, deletions and uploads (whose ids are new) are such steps.
LEMMA RankNoHigher ==
  ASSUME NEW r \in Ids, \A q \in Ids : q <= r /\ rcpt'[q] = "pending" => rcpt[q] = "pending"
  PROVE  Rank(r)' \in Nat /\ Rank(r)' <= Rank(r)
<1> DEFINE Now == {q \in Pending : q <= r}
           Then == {q \in Pending' : q <= r}
<1>1. Now \in SUBSET Ids /\ Then \in SUBSET Ids /\ Then \in SUBSET Now
  BY DEF Pending
<1>2. Rank(r) = Cardinality(Now) /\ Rank(r)' = Cardinality(Then)
  BY DEF Rank
<1> HIDE DEF Now, Then
<1>3. QED
  BY <1>1, <1>2, IdsFinite, FS_Subset

\* The page that loadBatch returns lies after every recipient it returned
\* before, and its rows are ranked within the new offset.
LEMMA PageIsNew ==
  ASSUME TypeOK, PagingInv, dpc = "load"
  PROVE  /\ Page \cap fed = {}
         /\ \A r \in fed, p \in Page : r < p
         /\ \A r \in fed \cup Page : r < nextId /\ Rank(r) <= offset + PageSize
<1>1. size = 0 /\ offset \in Nat /\ fed \subseteq Ids /\ Page \subseteq Ids
  BY DEF PagingInv, TypeOK, Page, Pending
<1>2. \A r \in fed : r < nextId /\ Rank(r) <= offset
  BY <1>1 DEF PagingInv
<1>3. \A p \in Page : Rank(p) > offset /\ Rank(p) <= offset + BatchSize
  BY DEF Page
<1>4. ASSUME NEW r \in fed, NEW p \in Page
      PROVE  r < p
  <2>1. r \in Ids /\ p \in Ids /\ r \in Int /\ p \in Int
    BY <1>1, SizesAssumption DEF Ids
  <2>2. Rank(r) \in Nat /\ Rank(p) \in Nat /\ (p <= r => Rank(p) <= Rank(r))
    BY <2>1, RankType
  <2>3. QED
    BY <1>1, <1>2, <1>3, <2>1, <2>2
<1>5. ASSUME NEW p \in Page
      PROVE  p < nextId /\ Rank(p) <= offset + PageSize
  <2>1. p \in Ids /\ rcpt[p] = "pending" /\ p \in Int /\ nextId \in Int
    BY <1>1, SizesAssumption DEF Ids, Page, Pending, TypeOK
  <2>2. p < nextId
    BY <2>1 DEF PagingInv
  <2>3. Rank(p) \in Nat /\ Rank(p) <= Cardinality(Pending) /\ Cardinality(Pending) \in Nat
    BY <2>1, RankType
  <2>4. QED
    BY <1>1, <1>3, <2>2, <2>3, SizesAssumption DEF PageSize, Min2, Max2
<1>6. ASSUME NEW r \in fed
      PROVE  Rank(r) <= offset + PageSize
  BY <1>1, <1>2, PageSizeType, RankType
<1>7. Page \cap fed = {}
  <2>1. \A r \in fed : ~ (r < r)
    BY <1>1, SizesAssumption DEF Ids
  <2>2. QED
    BY <1>4, <2>1
<1>8. QED
  BY <1>2, <1>4, <1>5, <1>6, <1>7

\* A step that changes the recipients and leaves the dispatcher alone keeps
\* PagingInv if the only new pending rows have new ids.
LEMMA PagingKept ==
  ASSUME TypeOK, PagingInv, UNCHANGED <<dpc, offset, batch, size, fed>>,
         nextId' \in Int, nextId <= nextId',
         \A q \in Ids : q < nextId /\ rcpt'[q] = "pending" => rcpt[q] = "pending",
         \A q \in Ids : q >= nextId' => rcpt'[q] = "absent"
  PROVE  PagingInv'
<1>1. ASSUME NEW r \in fed \cup batch
      PROVE  r < nextId' /\ Rank(r)' <= offset + size
  <2>1. r \in Ids /\ r \in Int /\ nextId \in Int /\ offset \in Nat /\ size \in Nat
    BY SizesAssumption DEF TypeOK, Ids
  <2>2. r < nextId /\ Rank(r) <= offset + size
    BY DEF PagingInv
  <2>3. \A q \in Ids : q \in Int
    BY SizesAssumption DEF Ids
  <2>4. Rank(r)' \in Nat /\ Rank(r)' <= Rank(r) /\ Rank(r) \in Nat
    BY <2>1, <2>2, <2>3, RankNoHigher, RankType
  <2>5. QED
    BY <2>1, <2>2, <2>4
<1>2. QED
  BY <1>1 DEF PagingInv

\* Every step keeps PagingInv.
LEMMA PagingStep ==
  ASSUME TypeOK, TypeOK', PagingInv, [Next]_vars
  PROVE  PagingInv'
<1> USE DEF dbVars, dispatcherVars, workerVars, gateVars, finishVars, requestVars,
            historyVars, sendHistory
<1>1. CASE UNCHANGED <<rcpt, nextId, dpc, offset, batch, size, fed>>
  BY <1>1 DEF PagingInv, Rank, Pending
<1>2. CASE DispatcherCheck
  BY <1>2 DEF DispatcherCheck, PagingInv, Rank, Pending
<1>3. CASE DispatcherLoad
  <2>1. batch' = Page /\ size' = PageSize /\ offset' = offset /\ fed' = fed
        /\ nextId' = nextId /\ rcpt' = rcpt /\ dpc = "load" /\ dpc' \in {"closed", "feed"}
    BY <1>3 DEF DispatcherLoad
  <2>2. \A r : Rank(r)' = Rank(r)
    BY <2>1 DEF Rank, Pending
  <2>3. QED
    BY <2>1, <2>2, PageIsNew DEF PagingInv
<1>4. CASE DispatcherLoadFails
  BY <1>4 DEF DispatcherLoadFails, PagingInv, Rank, Pending
<1>5. CASE DispatcherFeed
  <2>1. PICK r \in batch : /\ \A q \in batch : r <= q
                           /\ batch' = batch \ {r}
                           /\ fed' = fed \cup {r}
    BY <1>5 DEF DispatcherFeed
  <2>2. UNCHANGED <<dpc, offset, size, nextId, rcpt>> /\ dpc = "feed"
    BY <1>5 DEF DispatcherFeed
  <2>3. \A q : Rank(q)' = Rank(q)
    BY <2>2 DEF Rank, Pending
  <2>4. \A q \in batch : q \in Int
    BY SizesAssumption DEF TypeOK, Ids
  <2>5. \A p \in batch \ {r} : r < p
    BY <2>1, <2>4
  <2>6. QED
    BY <2>1, <2>2, <2>3, <2>5 DEF PagingInv
<1>6. CASE DispatcherGivesUp
  BY <1>6 DEF DispatcherGivesUp, PagingInv, Rank, Pending
<1>7. CASE DispatcherNextPage
  <2>1. UNCHANGED <<batch, fed, nextId, rcpt>> /\ batch = {}
        /\ offset' = offset + size /\ size' = 0
    BY <1>7 DEF DispatcherNextPage, NextOffset
  <2>2. \A q : Rank(q)' = Rank(q)
    BY <2>1 DEF Rank, Pending
  <2>3. offset' + size' = offset + size
    BY <2>1 DEF TypeOK
  <2>4. QED
    BY <2>1, <2>2, <2>3 DEF PagingInv
<1>8. ASSUME NEW w \in Workers, Worker(w)
      PROVE  PagingInv'
  BY <1>1, <1>8 DEF Worker, WorkerTakes, WorkerExits, WorkerGate, WorkerWakes,
     WorkerReserves, WorkerDrops, WorkerSends, WorkerReports
<1>9. CASE RunnerSaves
  <2>1. UNCHANGED <<nextId, dpc, offset, batch, size, fed>>
    BY <1>9 DEF RunnerSaves
  <2>2. ASSUME NEW q \in Ids
        PROVE  /\ rcpt'[q] = "pending" => rcpt[q] = "pending"
               /\ rcpt[q] = "absent" => rcpt'[q] = "absent"
    BY <1>9, SavedStatus
  <2>3. QED
    BY SMTT(30), <2>1, <2>2, PagingKept DEF PagingInv, TypeOK
<1>10. CASE RunnerJoins \/ RunnerSaved \/ RunnerJudges \/ RunnerRecords \/ RunnerLeaves
  BY <1>1, <1>10 DEF RunnerJoins, RunnerSaved, RunnerJudges, RunnerRecords, RunnerLeaves
<1>11. ASSUME NEW c \in Clients, UploadRows(c)
       PROVE  PagingInv'
  <2>1. UNCHANGED <<dpc, offset, batch, size, fed>>
    BY <1>11 DEF UploadRows
  <2>2. PICK n \in 1 .. (MaxId + 1 - nextId) :
          /\ rcpt' = [r \in Ids |-> IF r \in nextId .. (nextId + n - 1)
                                    THEN "pending" ELSE rcpt[r]]
          /\ nextId' = nextId + n
    BY <1>11 DEF UploadRows
  <2>3. nextId \in Int /\ n \in Int /\ n >= 1 /\ nextId' \in Int /\ nextId <= nextId'
    BY <2>2, SizesAssumption DEF TypeOK
  <2>4. ASSUME NEW q \in Ids
        PROVE  /\ q < nextId => rcpt'[q] = rcpt[q]
               /\ q >= nextId' => rcpt'[q] = rcpt[q] /\ q >= nextId
    <3>1. q \in Int
      BY SizesAssumption DEF Ids
    <3>2. QED
      BY <3>1, <2>2, <2>3
  <2>5. QED
    BY <2>1, <2>3, <2>4, PagingKept DEF PagingInv
<1>12. ASSUME NEW c \in Clients, DeleteRow(c) \/ DeleteAllRows(c)
       PROVE  PagingInv'
  <2>1. UNCHANGED <<nextId, dpc, offset, batch, size, fed>>
    BY <1>12 DEF DeleteRow, DeleteAllRows
  <2>2. ASSUME NEW q \in Ids
        PROVE  rcpt'[q] \in {rcpt[q], "absent"}
    BY <1>12 DEF DeleteRow, DeleteAllRows, TypeOK
  <2>3. nextId \in Int
    BY SizesAssumption DEF TypeOK
  <2>4. QED
    BY <2>1, <2>2, <2>3, PagingKept DEF PagingInv
<1>13. ASSUME NEW c \in Clients, Begin(c) \/ Continue(c)
       PROVE  PagingInv'
  BY <1>1, <1>11, <1>12, <1>13 DEF Begin, Continue, PauseRunner, PauseRow, ResumeRunner,
     ResumeSignal, ResumeRow, WriteStatus, CancelRunner, CancelCtx, SetRate,
     UploadRefused, SaveRow
<1>14. CASE UNCHANGED vars
  BY <1>1, <1>14 DEF vars
<1>15. QED
  BY <1>2, <1>3, <1>4, <1>5, <1>6, <1>7, <1>8, <1>9, <1>10, <1>13, <1>14
     DEF Next, Stop, Dispatcher, Runner

-----------------------------------------------------------------------------
(* One place for each recipient *)

\* Feeding a recipient puts it in the channel, and it was nowhere before.
LEMMA HolderFeed ==
  ASSUME TypeOK, PagingInv, OneHolder, DispatcherFeed
  PROVE  OneHolder'
<1>1. PICK r \in batch : jobs' = Append(jobs, r) /\ fed' = fed \cup {r}
  BY DEF DispatcherFeed
<1>2. UNCHANGED <<job, results>>
  BY DEF DispatcherFeed
<1>3. r \in Ids /\ r \notin fed
  BY DEF PagingInv, TypeOK
<1>4. /\ DOMAIN jobs = 1 .. Len(jobs) /\ DOMAIN jobs' = 1 .. (Len(jobs) + 1)
      /\ Len(jobs) \in Nat
      /\ \A i \in DOMAIN jobs : jobs'[i] = jobs[i]
      /\ jobs'[Len(jobs) + 1] = r
  BY <1>1, <1>3 DEF TypeOK
<1>5. r \notin Queued /\ r \notin Held /\ ~HasResult(r)
  BY <1>3 DEF OneHolder, HasResult
<1>6. \A i \in DOMAIN jobs : jobs[i] # r
  BY <1>5 DEF Queued
<1>7. \A i, j \in DOMAIN jobs' : jobs'[i] = jobs'[j] => i = j
  BY <1>4, <1>6 DEF OneHolder
<1>8. Held' = Held /\ \A q : HasResult(q)' <=> HasResult(q)
  BY <1>2 DEF Held, HasResult
<1>9. (\A i \in DOMAIN jobs : jobs[i] \notin Held /\ ~HasResult(jobs[i]))'
  BY <1>4, <1>5, <1>8 DEF OneHolder
<1>10. Queued' \subseteq Queued \cup {r}
  BY <1>4 DEF Queued
<1>11. QED
  BY <1>1, <1>2, <1>7, <1>8, <1>9, <1>10 DEF OneHolder

\* Taking a job moves a recipient from the channel to an idle worker.
LEMMA HolderTakes ==
  ASSUME TypeOK, JobInv, OneHolder, NEW w \in Workers, WorkerTakes(w)
  PROVE  OneHolder'
<1>1. /\ jobs' = Tail(jobs) /\ jobs # <<>> /\ job' = [job EXCEPT ![w] = Head(jobs)]
      /\ job[w] = NoJob /\ UNCHANGED <<results, fed>>
  BY DEF WorkerTakes, JobInv, historyVars
<1>2. /\ DOMAIN jobs = 1 .. Len(jobs) /\ Len(jobs) \in Nat \ {0}
      /\ DOMAIN jobs' = 1 .. (Len(jobs) - 1)
      /\ Head(jobs) = jobs[1]
      /\ \A i \in DOMAIN jobs' : jobs'[i] = jobs[i + 1] /\ i + 1 \in DOMAIN jobs /\ i + 1 # 1
      /\ 1 \in DOMAIN jobs
  BY <1>1 DEF TypeOK
<1>3. \A v \in Workers : job'[v] = IF v = w THEN jobs[1] ELSE job[v]
  BY <1>1, <1>2 DEF TypeOK
<1>4. jobs[1] \notin Held /\ ~HasResult(jobs[1]) /\ jobs[1] \in fed
  BY <1>2 DEF OneHolder, Queued
<1>5. \A q : HasResult(q)' <=> HasResult(q)
  BY <1>1 DEF HasResult
<1>6. \A i, j \in DOMAIN jobs' : jobs'[i] = jobs'[j] => i = j
  BY <1>2 DEF OneHolder
<1>7. \A u, v \in Workers : job'[u] = job'[v] /\ job'[u] # NoJob => u = v
  BY <1>3, <1>4 DEF OneHolder, Held
<1>8. Held' \subseteq Held \cup {jobs[1]}
  BY <1>3 DEF Held
<1>9. \A i \in DOMAIN jobs' : jobs'[i] # jobs[1] /\ jobs'[i] \in Queued
                              /\ jobs'[i] \notin Held /\ ~HasResult(jobs'[i])
  BY <1>2 DEF OneHolder, Queued
<1>10. (\A i \in DOMAIN jobs : jobs[i] \notin Held /\ ~HasResult(jobs[i]))'
  BY <1>5, <1>8, <1>9
<1>11. (\A v \in Workers : ~HasResult(job[v]))'
  BY <1>3, <1>4, <1>5 DEF OneHolder
<1>12. Queued' \subseteq Queued
  BY <1>9 DEF Queued
<1>13. Queued' \cup Held' \subseteq fed'
  BY <1>1, <1>4, <1>8, <1>12 DEF OneHolder
<1>14. QED
  BY <1>1, <1>6, <1>7, <1>10, <1>11, <1>13 DEF OneHolder

\* A worker that gives its job up holds none.
LEMMA HolderDrops ==
  ASSUME TypeOK, OneHolder, NEW w \in Workers, WorkerDrops(w)
  PROVE  OneHolder'
<1>1. job' = [job EXCEPT ![w] = NoJob] /\ UNCHANGED <<jobs, results, fed>>
  BY DEF WorkerDrops, historyVars
<1>2. \A v \in Workers : job'[v] = IF v = w THEN NoJob ELSE job[v]
  BY <1>1 DEF TypeOK
<1>3. Held' \subseteq Held /\ Queued' = Queued /\ \A q : HasResult(q)' <=> HasResult(q)
  BY <1>1, <1>2 DEF Held, Queued, HasResult
<1>4. ~HasResult(NoJob)
  BY ResultsType, SizesAssumption DEF HasResult, NoJob, Ids
<1>5. (\A v \in Workers : ~HasResult(job[v]))'
  BY <1>2, <1>3, <1>4 DEF OneHolder
<1>6. \A u, v \in Workers : job'[u] = job'[v] /\ job'[u] # NoJob => u = v
  BY <1>2 DEF OneHolder
<1>7. QED
  BY <1>1, <1>3, <1>5, <1>6 DEF OneHolder

\* Reporting moves a recipient from its worker to the results.
LEMMA HolderReports ==
  ASSUME TypeOK, JobInv, OneHolder, NEW w \in Workers, WorkerReports(w)
  PROVE  OneHolder'
<1> DEFINE r == job[w]
<1>1. /\ job' = [job EXCEPT ![w] = NoJob] /\ UNCHANGED <<jobs, fed>>
      /\ results' = Append(results, [id |-> r, status |-> wpc[w]])
      /\ wpc[w] \in {"sent", "failed"}
  BY DEF WorkerReports, historyVars
<1>2. r \in Ids /\ r # NoJob /\ r \in Held /\ r \in fed /\ ~HasResult(r)
  BY <1>1, SizesAssumption DEF JobInv, TypeOK, OneHolder, Held, NoJob
<1>3. \A v \in Workers : job'[v] = IF v = w THEN NoJob ELSE job[v]
  BY <1>1 DEF TypeOK
<1>4. /\ DOMAIN results = 1 .. Len(results) /\ Len(results) \in Nat
      /\ DOMAIN results' = 1 .. (Len(results) + 1)
      /\ \A i \in DOMAIN results : results'[i] = results[i]
      /\ results'[Len(results) + 1].id = r
  BY <1>1 DEF TypeOK
<1>5. \A q : HasResult(q)' <=> HasResult(q) \/ q = r
  BY <1>4 DEF HasResult
<1>6. \A i, j \in DOMAIN results' : results'[i].id = results'[j].id => i = j
  BY <1>2, <1>4 DEF OneHolder, HasResult
<1>7. \A u, v \in Workers : job'[u] = job'[v] /\ job'[u] # NoJob => u = v
  BY <1>3 DEF OneHolder
<1>8. Held' \subseteq Held /\ Queued' = Queued
  BY <1>1, <1>3 DEF Held, Queued
<1>9. (\A i \in DOMAIN jobs : jobs[i] \notin Held /\ ~HasResult(jobs[i]))'
  BY <1>1, <1>2, <1>5, <1>8 DEF OneHolder
<1>10. ~HasResult(NoJob)
  BY ResultsType, SizesAssumption DEF HasResult, NoJob, Ids
<1>11. (\A v \in Workers : ~HasResult(job[v]))'
  BY <1>2, <1>3, <1>5, <1>10 DEF OneHolder
<1>12. \A i \in DOMAIN results' : results'[i].id \in fed'
  BY <1>1, <1>2, <1>4 DEF OneHolder
<1>13. QED
  BY <1>1, <1>6, <1>7, <1>8, <1>9, <1>11, <1>12 DEF OneHolder

\* Every step keeps each recipient in one place.
LEMMA HolderStep ==
  ASSUME TypeOK, JobInv, PagingInv, OneHolder, [Next]_vars
  PROVE  OneHolder'
<1> USE DEF dbVars, dispatcherVars, gateVars, finishVars, requestVars, sendHistory
<1>1. CASE UNCHANGED <<jobs, job, results, fed>>
  BY <1>1 DEF OneHolder, Held, Queued, HasResult
<1>2. CASE Dispatcher
  BY <1>1, <1>2, HolderFeed DEF Dispatcher, DispatcherCheck, DispatcherLoad, DispatcherLoadFails,
     DispatcherGivesUp, DispatcherNextPage, workerVars, historyVars
<1>3. ASSUME NEW w \in Workers, Worker(w)
      PROVE  OneHolder'
  BY <1>1, <1>3, HolderTakes, HolderDrops, HolderReports DEF Worker, WorkerExits, WorkerGate,
     WorkerWakes, WorkerReserves, WorkerSends, historyVars
<1>4. CASE Runner
  BY <1>1, <1>4 DEF Runner, RunnerJoins, RunnerSaves, RunnerSaved, RunnerJudges,
     RunnerRecords, RunnerLeaves, workerVars, historyVars
<1>5. ASSUME NEW c \in Clients, Begin(c) \/ Continue(c)
      PROVE  OneHolder'
  BY <1>1, <1>5 DEF Begin, Continue, PauseRunner, PauseRow, ResumeRunner, ResumeSignal,
     ResumeRow, WriteStatus, CancelRunner, CancelCtx, SetRate, UploadRows,
     UploadRefused, DeleteRow, DeleteAllRows, SaveRow, workerVars, historyVars
<1>6. CASE UNCHANGED vars
  BY <1>1, <1>6 DEF vars, workerVars, historyVars
<1>7. QED
  BY <1>2, <1>3, <1>4, <1>5, <1>6 DEF Next, Stop

-----------------------------------------------------------------------------
(* One message for each recipient *)

\* A step that makes no message and forgets no attempt keeps MailInv.
LEMMA MailKept ==
  ASSUME TypeOK, MailInv, mails' = mails, \A r \in Ids : Attempted(r) => Attempted(r)'
  PROVE  MailInv'
BY DEF MailInv, TypeOK

\* The recipient of the message that a worker sends was not attempted before.
LEMMA MailSends ==
  ASSUME TypeOK, JobInv, OneHolder, MailInv, NEW w \in Workers, WorkerSends(w)
  PROVE  MailInv'
<1> DEFINE r == job[w]
<1>1. /\ wpc[w] = "reserved" /\ UNCHANGED <<job, results>>
      /\ mails' = mails \/ mails' = [mails EXCEPT ![r] = @ + 1]
  BY DEF WorkerSends
<1>2. /\ wpc'[w] \in {"sent", "failed"}
      /\ \A v \in Workers \ {w} : wpc'[v] = wpc[v]
  BY DEF WorkerSends, TypeOK
<1>3. r \in Ids /\ r # NoJob
  BY <1>1 DEF JobInv, TypeOK
<1>4. ~Attempted(r)
  BY <1>1, <1>3 DEF Attempted, OneHolder
<1>5. mails[r] = 0 /\ \A q \in Ids : q = r => Attempted(q)'
  <2>1. mails[r] = 0
    <3>1. mails[r] \in Nat
      BY <1>3 DEF TypeOK
    <3>2. mails[r] <= 0
      BY <1>3, <1>4 DEF MailInv
    <3>3. QED
      BY <3>1, <3>2
  <2>2. wpc'[w] \in {"sent", "failed"} /\ job'[w] = r
    BY <1>1, <1>2
  <2>3. QED
    BY <2>1, <2>2 DEF Attempted
<1>6. \A q \in Ids : Attempted(q) => Attempted(q)'
  BY <1>1, <1>2 DEF Attempted, HasResult
<1>7. \A q \in Ids : mails'[q] = mails[q] \/ (q = r /\ mails'[q] = 1)
  BY <1>1, <1>3, <1>5 DEF TypeOK
<1>8. ASSUME NEW q \in Ids
      PROVE  mails'[q] <= IF Attempted(q)' THEN 1 ELSE 0
  <2>1. mails[q] \in Nat /\ mails[q] <= IF Attempted(q) THEN 1 ELSE 0
    BY DEF MailInv, TypeOK
  <2>2. CASE mails'[q] = mails[q]
    BY <2>1, <2>2, <1>6
  <2>3. CASE q = r /\ mails'[q] = 1
    BY <2>3, <1>5
  <2>4. QED
    BY <1>7, <2>2, <2>3
<1>9. QED
  BY <1>8 DEF MailInv

\* Every step keeps MailInv.
LEMMA MailStep ==
  ASSUME TypeOK, JobInv, OneHolder, MailInv, [Next]_vars
  PROVE  MailInv'
<1> USE DEF dbVars, dispatcherVars, gateVars, finishVars, requestVars, sendHistory
<1>1. CASE UNCHANGED <<mails, wpc, job, results>>
  BY <1>1 DEF MailInv, Attempted, HasResult
<1>2. ASSUME NEW w \in Workers, Worker(w)
      PROVE  MailInv'
  <2>1. CASE WorkerSends(w)
    BY <2>1, MailSends
  <2>2. CASE WorkerReports(w)
    <3>1. mails' = mails /\ \A v \in Workers \ {w} : job'[v] = job[v] /\ wpc'[v] = wpc[v]
      BY <2>2 DEF WorkerReports, TypeOK, historyVars
    <3>2. \A q \in Ids : HasResult(q) \/ q = job[w] => HasResult(q)'
      <4>1. /\ DOMAIN results' = 1 .. (Len(results) + 1) /\ Len(results) \in Nat
            /\ DOMAIN results = 1 .. Len(results)
            /\ \A i \in DOMAIN results : results'[i] = results[i]
            /\ results'[Len(results) + 1].id = job[w]
        BY <2>2 DEF WorkerReports, TypeOK
      <4>2. QED
        BY <4>1 DEF HasResult
    <3>3. \A q \in Ids : Attempted(q) => Attempted(q)'
      BY <3>1, <3>2 DEF Attempted
    <3>4. QED
      BY <3>1, <3>3, MailKept
  <2>3. ASSUME UNCHANGED <<mails, results>>, wpc[w] \notin {"sent", "failed"},
               \A v \in Workers \ {w} : job'[v] = job[v] /\ wpc'[v] = wpc[v]
        PROVE  MailInv'
    <3>1. \A q \in Ids : Attempted(q) => Attempted(q)'
      BY <2>3 DEF Attempted, HasResult
    <3>2. QED
      BY <2>3, <3>1, MailKept
  <2>4. CASE WorkerTakes(w) \/ WorkerDrops(w)
    BY <2>3, <2>4 DEF WorkerTakes, WorkerDrops, SelectsOnCtx, TypeOK, historyVars
  <2>5. CASE WorkerExits(w) \/ WorkerGate(w) \/ WorkerWakes(w) \/ WorkerReserves(w)
    BY <2>3, <2>5 DEF WorkerExits, WorkerGate, WorkerWakes, WorkerReserves, TypeOK, historyVars
  <2>6. QED
    BY <1>2, <2>1, <2>2, <2>4, <2>5 DEF Worker
<1>3. CASE Dispatcher
  BY <1>1, <1>3 DEF Dispatcher, DispatcherCheck, DispatcherLoad, DispatcherLoadFails,
     DispatcherFeed, DispatcherGivesUp, DispatcherNextPage, workerVars, historyVars
<1>4. CASE Runner
  BY <1>1, <1>4 DEF Runner, RunnerJoins, RunnerSaves, RunnerSaved, RunnerJudges,
     RunnerRecords, RunnerLeaves, workerVars, historyVars
<1>5. ASSUME NEW c \in Clients, Begin(c) \/ Continue(c)
      PROVE  MailInv'
  BY <1>1, <1>5 DEF Begin, Continue, PauseRunner, PauseRow, ResumeRunner, ResumeSignal,
     ResumeRow, WriteStatus, CancelRunner, CancelCtx, SetRate, UploadRows,
     UploadRefused, DeleteRow, DeleteAllRows, SaveRow, workerVars, historyVars
<1>6. CASE UNCHANGED vars
  BY <1>1, <1>6 DEF vars, workerVars, historyVars
<1>7. QED
  BY <1>2, <1>3, <1>4, <1>5, <1>6 DEF Next, Stop

-----------------------------------------------------------------------------
(* Sends after Pause and after Cancel *)

\* The workers past the gate, and those past the limiter, are finitely many.
LEMMA PastFinite ==
  /\ IsFiniteSet(Workers) /\ Cardinality(Workers) \in Nat
  /\ \A S \in SUBSET Workers :
       IsFiniteSet(S) /\ Cardinality(S) \in Nat /\ Cardinality(S) <= Cardinality(Workers)
  /\ PastGate \in SUBSET Workers /\ PastLimiter \in SUBSET Workers
BY WorkersAssumption, FS_Subset, FS_CardinalityType DEF PastGate, PastLimiter

\* A step in which nobody passes the gate while the run is paused, or the limiter
\* after the cancellation, and that sends nothing, keeps BoundInv.
LEMMA BoundKept ==
  ASSUME TypeOK, BoundInv, UNCHANGED <<pausedSends, cancelledSends, paused, ctxDone>>,
         paused => PastGate' \subseteq PastGate,
         ctxDone => PastLimiter' \subseteq PastLimiter
  PROVE  BoundInv'
<1>1. paused => Cardinality(PastGate') <= Cardinality(PastGate)
  BY PastFinite, FS_Subset
<1>2. ctxDone => Cardinality(PastLimiter') <= Cardinality(PastLimiter)
  BY PastFinite, FS_Subset
<1>3. /\ Cardinality(PastGate) \in Nat /\ Cardinality(PastLimiter) \in Nat
      /\ Cardinality(Workers) \in Nat
  BY PastFinite
<1>4. PastGate' \in SUBSET Workers /\ PastLimiter' \in SUBSET Workers
  BY DEF PastGate, PastLimiter
<1>5. Cardinality(PastGate') \in Nat /\ Cardinality(PastLimiter') \in Nat
  BY <1>4, PastFinite
<1>6. QED
  BY <1>1, <1>2, <1>3, <1>5 DEF BoundInv, TypeOK

\* A send takes its worker out of both sets.
LEMMA BoundSends ==
  ASSUME TypeOK, BoundInv, NEW w \in Workers, WorkerSends(w)
  PROVE  BoundInv'
<1>1. /\ wpc[w] = "reserved" /\ UNCHANGED <<paused, ctxDone>>
      /\ pausedSends' = IF paused THEN pausedSends + 1 ELSE pausedSends
      /\ cancelledSends' = IF ctxDone THEN cancelledSends + 1 ELSE cancelledSends
  BY DEF WorkerSends, gateVars
<1>2. wpc'[w] \in {"sent", "failed"} /\ \A v \in Workers \ {w} : wpc'[v] = wpc[v]
  BY DEF WorkerSends, TypeOK
<1>3. /\ w \in PastGate /\ PastGate' = PastGate \ {w}
      /\ w \in PastLimiter /\ PastLimiter' = PastLimiter \ {w}
  BY <1>1, <1>2 DEF PastGate, PastLimiter
<1>4. /\ Cardinality(PastGate') = Cardinality(PastGate) - 1
      /\ Cardinality(PastLimiter') = Cardinality(PastLimiter) - 1
      /\ Cardinality(PastGate) \in Nat /\ Cardinality(PastLimiter) \in Nat
      /\ Cardinality(Workers) \in Nat
  BY <1>3, PastFinite, FS_RemoveElement
<1>5. Cardinality(PastGate') \in Nat
  <2>1. PastGate' \in SUBSET Workers
    BY DEF PastGate
  <2>2. QED
    BY <2>1, PastFinite
<1>6. QED
  BY <1>1, <1>4, <1>5 DEF BoundInv, TypeOK

\* Every step keeps BoundInv.
LEMMA BoundStep ==
  ASSUME TypeOK, BoundInv, [Next]_vars
  PROVE  BoundInv'
<1> USE DEF dbVars, dispatcherVars, finishVars, requestVars
<1>1. CASE UNCHANGED <<wpc, paused, ctxDone, pausedSends, cancelledSends>>
  BY <1>1 DEF BoundInv, PastGate, PastLimiter
<1>2. ASSUME NEW w \in Workers, Worker(w)
      PROVE  BoundInv'
  <2>1. CASE WorkerSends(w)
    BY <2>1, BoundSends
  <2>2. ASSUME UNCHANGED <<pausedSends, cancelledSends, paused, ctxDone>>,
               \A v \in Workers \ {w} : wpc'[v] = wpc[v],
               wpc'[w] \notin {"limit", "reserved"} \/ (~paused /\ wpc'[w] = "limit")
                 \/ (~ctxDone /\ wpc[w] = "limit" /\ wpc'[w] = "reserved")
        PROVE  BoundInv'
    <3>1. paused => PastGate' \subseteq PastGate
      BY <2>2 DEF PastGate
    <3>2. ctxDone => PastLimiter' \subseteq PastLimiter
      BY <2>2 DEF PastLimiter
    <3>3. QED
      BY <2>2, <3>1, <3>2, BoundKept
  <2>3. CASE WorkerTakes(w) \/ WorkerExits(w) \/ WorkerDrops(w) \/ WorkerReports(w)
    BY <2>2, <2>3 DEF WorkerTakes, WorkerExits, WorkerDrops, WorkerReports, TypeOK,
       gateVars, historyVars, sendHistory
  <2>4. CASE WorkerGate(w) \/ WorkerWakes(w) \/ WorkerReserves(w)
    BY <2>2, <2>4 DEF WorkerGate, WorkerWakes, AfterWake, WorkerReserves, LimiterAdmits,
       TypeOK, gateVars, historyVars, sendHistory
  <2>5. QED
    BY <1>2, <2>1, <2>3, <2>4 DEF Worker
<1>3. CASE Dispatcher
  BY <1>1, <1>3 DEF Dispatcher, DispatcherCheck, DispatcherLoad, DispatcherLoadFails,
     DispatcherFeed, DispatcherGivesUp, DispatcherNextPage, workerVars, gateVars,
     historyVars, sendHistory
<1>4. CASE Runner
  BY <1>1, <1>4 DEF Runner, RunnerJoins, RunnerSaves, RunnerSaved, RunnerJudges,
     RunnerRecords, RunnerLeaves, workerVars, gateVars, historyVars, sendHistory
<1>5. ASSUME NEW c \in Clients, PauseRunner(c)
      PROVE  BoundInv'
  <2>1. /\ UNCHANGED <<wpc, ctxDone, cancelledSends>> /\ paused' = TRUE
        /\ pausedSends' = IF paused THEN pausedSends ELSE 0
    BY <1>5 DEF PauseRunner, workerVars
  <2>2. PastGate' = PastGate /\ PastLimiter' = PastLimiter
    BY <2>1 DEF PastGate, PastLimiter
  <2>3. /\ Cardinality(PastGate) \in Nat /\ Cardinality(PastGate) <= Cardinality(Workers)
        /\ Cardinality(Workers) \in Nat
    BY PastFinite
  <2>4. QED
    BY <2>1, <2>2, <2>3 DEF BoundInv
<1>6. ASSUME NEW c \in Clients, ResumeRunner(c)
      PROVE  BoundInv'
  BY <1>6 DEF ResumeRunner, BoundInv, PastGate, PastLimiter, workerVars, historyVars, sendHistory
<1>7. ASSUME NEW c \in Clients, CancelCtx(c)
      PROVE  BoundInv'
  <2>1. /\ UNCHANGED <<wpc, paused, pausedSends, cancelledSends>> /\ ctxDone' = TRUE
    BY <1>7 DEF CancelCtx, workerVars, historyVars, sendHistory
  <2>2. PastGate' = PastGate /\ PastLimiter' = PastLimiter
    BY <2>1 DEF PastGate, PastLimiter
  <2>3. /\ Cardinality(PastLimiter) \in Nat /\ Cardinality(PastLimiter) <= Cardinality(Workers)
    BY PastFinite
  <2>4. QED
    BY <2>1, <2>2, <2>3 DEF BoundInv, TypeOK
<1>8. ASSUME NEW c \in Clients, Begin(c) \/ Continue(c)
      PROVE  BoundInv'
  BY <1>1, <1>5, <1>6, <1>7, <1>8 DEF Begin, Continue, PauseRow, ResumeSignal,
     ResumeRow, WriteStatus, CancelRunner, SetRate, UploadRows, UploadRefused,
     DeleteRow, DeleteAllRows, SaveRow, workerVars, gateVars, historyVars, sendHistory
<1>9. CASE UNCHANGED vars
  BY <1>1, <1>9 DEF vars, workerVars, gateVars, historyVars, sendHistory
<1>10. QED
  BY <1>2, <1>3, <1>4, <1>8, <1>9 DEF Next, Stop

-----------------------------------------------------------------------------
\* SendInv is an inductive invariant: types, jobs, one place for each recipient,
\* paging that never comes back, one message for each attempt, and a bound on the
\* messages that follow Pause and Cancel.
THEOREM PipelineInvariant == Spec => []SendInv
<1>1. Init => SendInv
  <2> SUFFICES ASSUME Init PROVE SendInv
    OBVIOUS
  <2>1. TypeOK /\ JobInv
    BY TypeInit DEF Init, JobInv
  <2>2. OneHolder
    BY DEF Init, OneHolder, Held, Queued, HasResult
  <2>3. PagingInv
    BY SizesAssumption DEF Init, PagingInv, Ids
  <2>4. MailInv
    BY DEF Init, MailInv
  <2>5. BoundInv
    <3>1. PastGate = {} /\ PastLimiter = {}
      BY DEF Init, PastGate, PastLimiter
    <3>2. QED
      BY <3>1, PastFinite, FS_EmptySet DEF Init, BoundInv
  <2>6. QED
    BY <2>1, <2>2, <2>3, <2>4, <2>5 DEF SendInv
<1>2. SendInv /\ [Next]_vars => SendInv'
  <2> SUFFICES ASSUME SendInv, [Next]_vars PROVE SendInv'
    OBVIOUS
  <2>1. TypeOK' /\ JobInv'
    BY TypeStep, JobStep DEF SendInv
  <2>2. OneHolder'
    BY HolderStep DEF SendInv
  <2>3. PagingInv'
    BY <2>1, PagingStep DEF SendInv
  <2>4. MailInv'
    BY MailStep DEF SendInv
  <2>5. BoundInv'
    BY BoundStep DEF SendInv
  <2>6. QED
    BY <2>1, <2>2, <2>3, <2>4, <2>5 DEF SendInv
<1>3. QED
  BY <1>1, <1>2, PTL DEF Spec

\* No recipient is mailed twice in a run, however the requests that add and
\* delete recipients interleave with the paging, the workers and the saves.
THEOREM NobodyIsMailedTwice == Spec => []NoDoubleSend
<1>1. SendInv => NoDoubleSend
  BY DEF SendInv, MailInv, NoDoubleSend, TypeOK
<1>2. QED
  BY <1>1, PipelineInvariant, PTL

\* A paused run sends no more than one message per worker until a Resume, for any
\* number of workers and recipients.
THEOREM FewSendsWhilePaused == Spec => []PauseBound
<1>1. SendInv => PauseBound
  BY DEF SendInv, BoundInv, PauseBound
<1>2. QED
  BY <1>1, PipelineInvariant, PTL

\* A cancelled run sends no more than one message per worker.
THEOREM FewSendsAfterCancel == Spec => []CancelBound
<1>1. SendInv => CancelBound
  <2> SUFFICES ASSUME SendInv PROVE CancelBound
    OBVIOUS
  <2>1. Cardinality(PastLimiter) \in Nat /\ Cardinality(Workers) \in Nat
    BY PastFinite
  <2>2. QED
    BY <2>1 DEF SendInv, BoundInv, CancelBound, TypeOK
<1>2. QED
  BY <1>1, PipelineInvariant, PTL

=============================================================================
