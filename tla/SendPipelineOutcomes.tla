------------------------ MODULE SendPipelineOutcomes ------------------------
(***************************************************************************)
(* Theorems about what a run of SendPipeline leaves behind: the table and  *)
(* the row at its end, and that it implements SendContract, for any number *)
(* of workers, clients, recipients, requests and failing statements.       *)
(***************************************************************************)
EXTENDS SendPipelineProofs, FunctionTheorems

-----------------------------------------------------------------------------
(* Facts about single steps *)

\* A worker that takes a step has not left, so the run is still sending.
LEMMA WorkerRuns ==
  ASSUME TypeOK, JobInv, PhaseInv, NEW w \in Workers, Worker(w)
  PROVE  /\ phase = "running" /\ saved = 0
         /\ UNCHANGED <<phase, saved, rcpt, nextId, row, dpc, offset, batch, size,
                        ctxDone, burst, rpc, fed, faults>>
         /\ \A v \in Workers \ {w} : wpc'[v] = wpc[v] /\ job'[v] = job[v]
<1> USE DEF dbVars, dispatcherVars, gateVars, finishVars, requestVars, historyVars
<1>1. wpc[w] # "gone"
  BY DEF Worker, WorkerTakes, WorkerExits, WorkerGate, WorkerWakes, WorkerReserves,
     WorkerDrops, WorkerSends, WorkerReports, SelectsOnCtx
<1>2. phase = "running" /\ saved = 0
  BY <1>1 DEF PhaseInv, WorkersDone
<1>3. UNCHANGED <<phase, saved, rcpt, nextId, row, dpc, offset, batch, size,
                  ctxDone, burst, rpc, fed, faults>>
  BY DEF Worker, WorkerTakes, WorkerExits, WorkerGate, WorkerWakes, WorkerReserves,
     WorkerDrops, WorkerSends, WorkerReports
<1>4. \A v \in Workers \ {w} : wpc'[v] = wpc[v] /\ job'[v] = job[v]
  BY DEF Worker, WorkerTakes, WorkerExits, WorkerGate, WorkerWakes, WorkerReserves,
     WorkerDrops, WorkerSends, WorkerReports, TypeOK
<1>5. QED
  BY <1>2, <1>3, <1>4

\* The dispatcher takes a step only before it has closed the channel.
LEMMA DispatcherRuns ==
  ASSUME PhaseInv, Dispatcher
  PROVE  /\ phase = "running" /\ dpc # "closed"
         /\ UNCHANGED <<phase, saved, rcpt, nextId, row, wpc, job, results, ctxDone,
                        burst, rpc, mails>>
<1> USE DEF dbVars, workerVars, gateVars, finishVars, requestVars, historyVars,
            sendHistory
<1>1. dpc # "closed"
  BY DEF Dispatcher, DispatcherCheck, DispatcherLoad, DispatcherLoadFails,
     DispatcherFeed, DispatcherGivesUp, DispatcherNextPage
<1>2. phase = "running"
  BY <1>1 DEF PhaseInv
<1>3. UNCHANGED <<phase, saved, rcpt, nextId, row, wpc, job, results, ctxDone,
                  burst, rpc, mails>>
  BY DEF Dispatcher, DispatcherCheck, DispatcherLoad, DispatcherLoadFails,
     DispatcherFeed, DispatcherGivesUp, DispatcherNextPage
<1>4. QED
  BY <1>1, <1>2, <1>3

\* What runCampaign does after the dispatcher leaves the pipeline alone.
LEMMA RunnerLeavesPipeline ==
  ASSUME Runner
  PROVE  UNCHANGED <<nextId, dispatcherVars, workerVars, gateVars, results,
                     requestVars, fed, mails>>
BY DEF Runner, RunnerJoins, RunnerSaves, RunnerSaved, RunnerJudges, RunnerRecords,
   RunnerLeaves, dbVars, historyVars, sendHistory

\* A request leaves the pipeline and the runner's progress alone.
LEMMA ClientLeavesPipeline ==
  ASSUME NEW c \in Clients, Begin(c) \/ Continue(c)
  PROVE  UNCHANGED <<dispatcherVars, workerVars, results, finishVars, fed, mails, faults>>
BY DEF Begin, Continue, PauseRunner, PauseRow, ResumeRunner, ResumeSignal,
   ResumeRow, WriteStatus, CancelRunner, CancelCtx, SetRate, UploadRows,
   UploadRefused, DeleteRow, DeleteAllRows, SaveRow, historyVars, sendHistory

\* The ids of the results are the positions 1 to their number.
LEMMA ResultsDomain ==
  ASSUME TypeOK
  PROVE  DOMAIN results = 1 .. Len(results) /\ Len(results) \in Nat /\ saved \in Nat
BY DEF TypeOK

\* What a report adds to the results.
LEMMA ReportAppends ==
  ASSUME TypeOK, JobInv, NEW w \in Workers, WorkerReports(w)
  PROVE  /\ wpc[w] \in {"sent", "failed"} /\ job[w] \in Ids
         /\ DOMAIN results' = DOMAIN results \cup {Len(results) + 1}
         /\ Len(results') = Len(results) + 1
         /\ \A i \in DOMAIN results : results'[i] = results[i] /\ i # Len(results) + 1
         /\ results'[Len(results) + 1].id = job[w]
         /\ results'[Len(results) + 1].status = wpc[w]
         /\ UNCHANGED <<mails, jobs>>
<1>1. wpc[w] \in {"sent", "failed"}
      /\ results' = Append(results, [id |-> job[w], status |-> wpc[w]])
      /\ UNCHANGED <<mails, jobs>>
  BY DEF WorkerReports, historyVars, sendHistory
<1>2. job[w] \in Ids
  BY <1>1 DEF JobInv, TypeOK
<1>3. DOMAIN results = 1 .. Len(results) /\ Len(results) \in Nat
  BY ResultsDomain
<1>4. Len(results') = Len(results) + 1 /\ DOMAIN results' = 1 .. (Len(results) + 1)
  BY <1>1, <1>3 DEF TypeOK
<1>5. \A i \in DOMAIN results : results'[i] = results[i] /\ i # Len(results) + 1
  BY <1>1, <1>3 DEF TypeOK
<1>6. results'[Len(results) + 1].id = job[w] /\ results'[Len(results) + 1].status = wpc[w]
  BY <1>1, <1>3 DEF TypeOK
<1>7. DOMAIN results' = DOMAIN results \cup {Len(results) + 1}
  BY <1>3, <1>4
<1>8. QED
  BY <1>1, <1>2, <1>4, <1>5, <1>6, <1>7

\* A transaction of saveResults: a recipient keeps its status or gets that of its
\* result, those of earlier transactions keep theirs, and with no failing
\* statement each result of this one is in the table.
LEMMA SavedOutcome ==
  ASSUME TypeOK, OneHolder, PhaseInv, RunnerSaves
  PROVE  /\ \A r \in Ids :
              \/ rcpt'[r] = rcpt[r]
              \/ /\ rcpt[r] # "absent"
                 /\ \E i \in DOMAIN results : results[i].id = r /\ results[i].status = rcpt'[r]
         /\ saved <= saved' /\ saved' <= Len(results) /\ saved' \in Nat
         /\ \A i \in 1..saved : rcpt'[results[i].id] = rcpt[results[i].id]
         /\ faults' = 0 =>
              /\ faults = 0
              /\ \A i \in (saved + 1)..saved' :
                   rcpt'[results[i].id] \in {"absent", results[i].status}
<1> DEFINE upTo == Min2(saved + SaveBatch, Len(results))
<1>1. DOMAIN results = 1 .. Len(results) /\ Len(results) \in Nat /\ saved \in Nat
      /\ saved < Len(results) /\ saved' = upTo /\ faults \in Nat
  BY DEF TypeOK, RunnerSaves
<1>2. PICK bad \in SUBSET (saved + 1 .. upTo) :
        /\ faults' = IF bad = {} THEN faults ELSE faults + 1
        /\ rcpt' = [q \in Ids |->
            LET hits == {i \in (saved + 1 .. upTo) \ bad : results[i].id = q}
            IN  IF rcpt[q] = "absent" \/ hits = {}
                THEN rcpt[q]
                ELSE results[CHOOSE i \in hits : \A j \in hits : j <= i].status]
  BY DEF RunnerSaves
<1>3. saved <= upTo /\ upTo <= Len(results) /\ upTo \in Nat
  BY <1>1, SizesAssumption DEF Min2
<1> DEFINE Hits(q) == {i \in (saved + 1 .. upTo) \ bad : results[i].id = q}
           Last(q) == CHOOSE i \in Hits(q) : \A j \in Hits(q) : j <= i
<1>4. \A q \in Ids : rcpt'[q] = IF rcpt[q] = "absent" \/ Hits(q) = {}
                                THEN rcpt[q] ELSE results[Last(q)].status
  BY <1>2
<1>5. \A i \in saved + 1 .. upTo : i \in DOMAIN results
  BY <1>1, <1>3
<1>6. ASSUME NEW q \in Ids, Hits(q) # {}
      PROVE  Last(q) \in Hits(q)
  <2>1. PICK i \in Hits(q) : TRUE
    BY <1>6
  <2>2. \A j \in Hits(q) : j = i
    BY <1>5, <2>1 DEF OneHolder
  <2>3. i \in Int /\ \A j \in Hits(q) : j <= i
    BY <2>2
  <2>4. QED
    BY <2>1, <2>3
<1> HIDE DEF upTo, Last
<1>7. ASSUME NEW r \in Ids
      PROVE  \/ rcpt'[r] = rcpt[r]
             \/ /\ rcpt[r] # "absent"
                /\ \E i \in DOMAIN results : results[i].id = r /\ results[i].status = rcpt'[r]
  <2>1. CASE rcpt[r] = "absent" \/ Hits(r) = {}
    BY <1>4, <2>1
  <2>2. CASE rcpt[r] # "absent" /\ Hits(r) # {}
    <3>1. Last(r) \in DOMAIN results /\ results[Last(r)].id = r
      BY <1>5, <1>6, <2>2
    <3>2. rcpt'[r] = results[Last(r)].status
      BY <1>4, <2>2
    <3>3. QED
      BY <2>2, <3>1, <3>2
  <2>3. QED
    BY <2>1, <2>2
<1>8. ASSUME NEW i \in 1..saved
      PROVE  rcpt'[results[i].id] = rcpt[results[i].id]
  <2>1. i \in DOMAIN results
    BY <1>1
  <2>2. results[i].id \in Ids
    BY <2>1, ResultsType
  <2>3. ASSUME NEW j \in saved + 1 .. upTo, results[j].id = results[i].id
        PROVE  FALSE
    <3>1. i = j
      BY <2>1, <2>3, <1>5 DEF OneHolder
    <3>2. QED
      BY <1>1, <1>3, <3>1
  <2>4. Hits(results[i].id) = {}
    BY <2>3
  <2>5. QED
    BY <1>4, <2>2, <2>4
<1>9. ASSUME faults' = 0
      PROVE  /\ faults = 0
             /\ \A i \in (saved + 1) .. upTo :
                  rcpt'[results[i].id] \in {"absent", results[i].status}
  <2>1. bad = {} /\ faults = 0
    BY <1>1, <1>2, <1>9
  <2>2. ASSUME NEW i \in (saved + 1) .. upTo
        PROVE  rcpt'[results[i].id] \in {"absent", results[i].status}
    <3> DEFINE r == results[i].id
    <3>1. i \in DOMAIN results /\ r \in Ids
      BY <1>5, ResultsType
    <3>2. i \in Hits(r)
      BY <2>1
    <3>3. Last(r) \in Hits(r)
      BY <1>6, <3>1, <3>2
    <3>4. Last(r) = i
      BY <1>5, <3>1, <3>3 DEF OneHolder
    <3>5. Hits(r) # {}
      BY <3>2
    <3>6. QED
      BY <1>4, <3>1, <3>4, <3>5
  <2>3. QED
    BY <2>1, <2>2
<1>10. QED
  BY <1>1, <1>3, <1>7, <1>8, <1>9

-----------------------------------------------------------------------------
(* The phases of the runner *)

\* A page that no row counts for is empty.
LEMMA EmptyPage ==
  ASSUME TypeOK, PageSize = 0
  PROVE  Page = {}
<1>1. Cardinality(Pending) \in Nat /\ offset \in Nat
  BY PageSizeType DEF TypeOK
<1>2. Cardinality(Pending) <= offset
  BY <1>1, SizesAssumption DEF PageSize, Min2, Max2
<1>3. ASSUME NEW r \in Page PROVE FALSE
  <2>1. r \in Ids /\ Rank(r) > offset
    BY DEF Page, Pending
  <2>2. QED
    BY <1>1, <1>2, <2>1, RankType
<1>4. QED
  BY <1>3

\* Every step keeps PhaseInv.
LEMMA PhaseStep ==
  ASSUME TypeOK, JobInv, OneHolder, PagingInv, PhaseInv, [Next]_vars
  PROVE  PhaseInv'
<1> USE DEF dispatcherVars, workerVars, finishVars
<1>1. CASE UNCHANGED <<phase, dpc, batch, wpc, saved, results>>
  BY <1>1 DEF PhaseInv, WorkersDone
<1>2. CASE Dispatcher
  <2>1. UNCHANGED <<phase, saved, wpc, results>> /\ phase = "running"
    BY <1>2, DispatcherRuns
  <2>2. dpc' = "closed" => batch' = {}
    <3>1. CASE DispatcherLoad
      BY <3>1, EmptyPage DEF DispatcherLoad
    <3>2. CASE DispatcherCheck \/ DispatcherLoadFails \/ DispatcherFeed
               \/ DispatcherGivesUp \/ DispatcherNextPage
      BY <3>2 DEF DispatcherCheck, DispatcherLoadFails, DispatcherFeed, DispatcherGivesUp,
         DispatcherNextPage, PagingInv
    <3>3. QED
      BY <1>2, <3>1, <3>2 DEF Dispatcher
  <2>3. QED
    BY <2>1, <2>2 DEF PhaseInv
<1>3. ASSUME NEW w \in Workers, Worker(w)
      PROVE  PhaseInv'
  <2>1. phase = "running" /\ saved = 0 /\ UNCHANGED <<phase, saved, dpc, batch>>
    BY <1>3, WorkerRuns
  <2>2. Len(results') \in Nat
    <3>1. CASE WorkerReports(w)
      BY <3>1, ReportAppends, ResultsDomain
    <3>2. CASE UNCHANGED results
      BY <3>2, ResultsDomain
    <3>3. QED
      BY <1>3, <3>1, <3>2 DEF Worker, WorkerTakes, WorkerExits, WorkerGate, WorkerWakes,
         WorkerReserves, WorkerDrops, WorkerSends
  <2>3. QED
    BY <2>1, <2>2 DEF PhaseInv
<1>4. CASE Runner
  <2>1. UNCHANGED <<dpc, batch, wpc, results>>
    BY <1>4, RunnerLeavesPipeline
  <2>2. CASE RunnerSaves
    BY <2>1, <2>2, SavedOutcome DEF RunnerSaves, PhaseInv, WorkersDone
  <2>3. CASE RunnerJoins
    BY <2>1, <2>3 DEF RunnerJoins, PhaseInv, WorkersDone
  <2>4. CASE RunnerSaved
    BY <2>1, <2>4, ResultsDomain DEF RunnerSaved, AllSaved, PhaseInv, WorkersDone
  <2>5. CASE RunnerJudges \/ RunnerRecords \/ RunnerLeaves
    BY <2>1, <2>5 DEF RunnerJudges, RunnerRecords, RunnerLeaves, PhaseInv, WorkersDone
  <2>6. QED
    BY <1>4, <2>2, <2>3, <2>4, <2>5 DEF Runner
<1>5. ASSUME NEW c \in Clients, Begin(c) \/ Continue(c)
      PROVE  PhaseInv'
  BY <1>1, <1>5, ClientLeavesPipeline
<1>6. CASE UNCHANGED vars
  BY <1>1, <1>6 DEF vars
<1>7. QED
  BY <1>2, <1>3, <1>4, <1>5, <1>6 DEF Next, Stop

-----------------------------------------------------------------------------
(* What the results say of the messages *)

\* Every step keeps ReportInv.
LEMMA ReportStep ==
  ASSUME TypeOK, JobInv, PhaseInv, ReportInv, [Next]_vars
  PROVE  ReportInv'
<1> USE DEF dispatcherVars, workerVars
<1>1. CASE UNCHANGED <<wpc, job, results, mails>>
  BY <1>1 DEF ReportInv
<1>2. CASE Dispatcher
  BY <1>1, <1>2, DispatcherRuns
<1>3. ASSUME NEW w \in Workers, Worker(w)
      PROVE  ReportInv'
  <2>0. \A v \in Workers \ {w} : wpc'[v] = wpc[v] /\ job'[v] = job[v]
    BY <1>3, WorkerRuns
  <2>1. CASE WorkerSends(w)
    <3>1. job[w] \in Ids /\ UNCHANGED <<job, results>>
      BY <2>1 DEF WorkerSends, JobInv, TypeOK
    <3>2. \A r \in Ids : mails'[r] \in Nat /\ mails'[r] >= mails[r] /\ mails[r] \in Nat
      BY <2>1, <3>1 DEF WorkerSends, TypeOK
    <3>3. wpc'[w] = "sent" => mails'[job[w]] > 0
      BY <2>1, <3>1 DEF WorkerSends, TypeOK
    <3>4. \A v \in Workers \ {w} : wpc[v] = "sent" => job[v] \in Ids
      BY DEF JobInv, TypeOK
    <3>5. \A v \in Workers : wpc'[v] = "sent" => mails'[job'[v]] > 0
      BY <2>0, <3>1, <3>2, <3>3, <3>4 DEF ReportInv
    <3>6. \A i \in DOMAIN results : results[i].status = "sent" => mails'[results[i].id] > 0
      BY <3>2, ResultsType DEF ReportInv
    <3>7. QED
      BY <3>1, <3>5, <3>6 DEF ReportInv
  <2>2. CASE WorkerReports(w)
    <3>1. wpc'[w] = "idle"
      BY <2>2 DEF WorkerReports, TypeOK
    <3>2. \A v \in Workers : wpc'[v] = "sent" => mails'[job'[v]] > 0
      BY <2>0, <2>2, <3>1, ReportAppends DEF ReportInv
    <3>3. \A i \in DOMAIN results' : results'[i].status = "sent" => mails'[results'[i].id] > 0
      <4>1. \A i \in DOMAIN results : results[i].status = "sent" => mails[results[i].id] > 0
        BY DEF ReportInv
      <4>2. wpc[w] = "sent" => mails[job[w]] > 0
        BY DEF ReportInv
      <4>3. /\ DOMAIN results' = DOMAIN results \cup {Len(results) + 1} /\ mails' = mails
            /\ \A i \in DOMAIN results : results'[i] = results[i]
            /\ results'[Len(results) + 1].id = job[w]
            /\ results'[Len(results) + 1].status = wpc[w]
        BY <2>2, ReportAppends
      <4>4. QED
        BY <4>1, <4>2, <4>3
    <3>4. QED
      BY <3>2, <3>3 DEF ReportInv
  <2>3. CASE wpc'[w] # "sent" /\ UNCHANGED <<results, mails>>
    BY <2>0, <2>3 DEF ReportInv
  <2>4. QED
    BY <1>3, <2>1, <2>2, <2>3 DEF Worker, WorkerTakes, WorkerExits, WorkerGate, WorkerWakes,
       AfterWake, WorkerReserves, WorkerDrops, historyVars, sendHistory, TypeOK
<1>4. CASE Runner
  BY <1>1, <1>4, RunnerLeavesPipeline
<1>5. ASSUME NEW c \in Clients, Begin(c) \/ Continue(c)
      PROVE  ReportInv'
  BY <1>1, <1>5, ClientLeavesPipeline
<1>6. CASE UNCHANGED vars
  BY <1>1, <1>6 DEF vars, historyVars, sendHistory
<1>7. QED
  BY <1>2, <1>3, <1>4, <1>5, <1>6 DEF Next, Stop

-----------------------------------------------------------------------------
(* What the table learns *)

\* A step that changes neither the pipeline nor the results, and the rows of
\* recipients that were loaded only by deleting them, keeps TableInv.
LEMMA TableKept ==
  ASSUME TypeOK, OneHolder, PhaseInv, TableInv,
         UNCHANGED <<batch, fed, results, phase, saved>>, faults' = 0 => faults = 0,
         \A r \in fed \cup batch : rcpt'[r] \in {rcpt[r], "absent"}
  PROVE  TableInv'
<1>1. ASSUME NEW r \in fed \cup batch
      PROVE  rcpt'[r] \in {"pending", "absent"} \/ (phase # "running" /\ Learnt(r)')
  BY DEF TableInv, Learnt
<1>2. ASSUME faults = 0, NEW i \in 1..saved
      PROVE  rcpt'[results[i].id] \in {"absent", results[i].status}
  <2>1. i \in DOMAIN results
    BY ResultsDomain DEF PhaseInv
  <2>2. results[i].id \in fed
    BY <2>1 DEF OneHolder
  <2>3. rcpt[results[i].id] \in {"absent", results[i].status}
    BY <1>2 DEF TableInv
  <2>4. QED
    BY <2>2, <2>3
<1>3. QED
  BY <1>1, <1>2 DEF TableInv

\* Every step keeps TableInv.
LEMMA TableStep ==
  ASSUME TypeOK, JobInv, OneHolder, PagingInv, PhaseInv, TableInv, [Next]_vars
  PROVE  TableInv'
<1> USE DEF dispatcherVars, workerVars, finishVars
<1>1. CASE UNCHANGED <<rcpt, batch, fed, results, phase, saved, faults>>
  BY <1>1 DEF TableInv, Learnt
<1>2. CASE Dispatcher
  <2>1. UNCHANGED <<phase, saved, rcpt, results>> /\ phase = "running" /\ saved = 0
    BY <1>2, DispatcherRuns DEF PhaseInv
  <2>2. \A r \in fed' \cup batch' : r \in fed \cup batch \/ rcpt[r] = "pending"
    BY <1>2 DEF Dispatcher, DispatcherCheck, DispatcherLoad, DispatcherLoadFails, DispatcherFeed,
       DispatcherGivesUp, DispatcherNextPage, historyVars, Page, Pending
  <2>3. QED
    BY <2>1, <2>2 DEF TableInv
<1>3. ASSUME NEW w \in Workers, Worker(w)
      PROVE  TableInv'
  BY <1>3, WorkerRuns DEF TableInv
<1>4. CASE Runner
  <2>1. UNCHANGED <<batch, fed, results>>
    BY <1>4, RunnerLeavesPipeline
  <2>2. CASE RunnerSaves
    <3>1. UNCHANGED phase /\ phase # "running" /\ saved \in Nat
      BY <2>2, ResultsDomain DEF RunnerSaves
    <3>2. ASSUME NEW r \in fed \cup batch
          PROVE  rcpt'[r] \in {"pending", "absent"} \/ Learnt(r)'
      <4>1. r \in Ids
        BY DEF TypeOK
      <4>2. CASE rcpt'[r] = rcpt[r]
        BY <2>1, <4>2 DEF TableInv, Learnt
      <4>3. CASE \E i \in DOMAIN results : results[i].id = r /\ results[i].status = rcpt'[r]
        BY <2>1, <4>3 DEF Learnt
      <4>4. QED
        BY <2>2, <4>1, <4>2, <4>3, SavedOutcome
    <3>3. ASSUME faults' = 0, NEW i \in 1..saved'
          PROVE  rcpt'[results[i].id] \in {"absent", results[i].status}
      <4>1. faults = 0 /\ saved' \in Nat
        BY <2>2, <3>3, SavedOutcome
      <4>2. CASE i \in 1..saved
        BY <2>2, <4>1, <4>2, SavedOutcome DEF TableInv
      <4>3. CASE i \in (saved + 1)..saved'
        BY <2>2, <3>3, <4>3, SavedOutcome
      <4>4. QED
        BY <3>1, <4>1, <4>2, <4>3
    <3>4. QED
      BY <2>1, <3>1, <3>2, <3>3 DEF TableInv
  <2>3. CASE RunnerJoins \/ RunnerSaved \/ RunnerJudges \/ RunnerRecords \/ RunnerLeaves
    <3>1. UNCHANGED <<rcpt, saved>> /\ (phase # "running" => phase' # "running")
      BY <2>3 DEF RunnerJoins, RunnerSaved, RunnerJudges, RunnerRecords, RunnerLeaves, dbVars
    <3>2. faults' = 0 => faults = 0
      BY <2>3 DEF RunnerJoins, RunnerSaved, RunnerJudges, RunnerRecords, RunnerLeaves,
         historyVars, TypeOK
    <3>3. QED
      BY <2>1, <3>1, <3>2 DEF TableInv, Learnt
  <2>4. QED
    BY <1>4, <2>2, <2>3 DEF Runner
<1>5. ASSUME NEW c \in Clients, Begin(c) \/ Continue(c)
      PROVE  TableInv'
  <2>1. UNCHANGED <<batch, fed, results, phase, saved, faults>>
    BY <1>5, ClientLeavesPipeline
  <2>2. CASE UNCHANGED rcpt
    BY <1>1, <2>1, <2>2
  <2>3. CASE UploadRows(c)
    <3>1. PICK n \in 1 .. (MaxId + 1 - nextId) :
            rcpt' = [r \in Ids |-> IF r \in nextId .. (nextId + n - 1)
                                   THEN "pending" ELSE rcpt[r]]
      BY <2>3 DEF UploadRows
    <3>2. ASSUME NEW r \in fed \cup batch
          PROVE  rcpt'[r] = rcpt[r]
      <4>1. r \in Ids /\ r < nextId /\ r \in Int /\ nextId \in Int
        BY SizesAssumption DEF PagingInv, TypeOK, Ids
      <4>2. r \notin nextId .. (nextId + n - 1)
        BY <4>1
      <4>3. QED
        BY <3>1, <4>1, <4>2
    <3>3. QED
      BY <2>1, <3>2, TableKept
  <2>4. CASE DeleteRow(c) \/ DeleteAllRows(c)
    <3>1. \A r \in Ids : rcpt'[r] \in {rcpt[r], "absent"}
      BY <2>4 DEF DeleteRow, DeleteAllRows, TypeOK
    <3>2. \A r \in fed \cup batch : r \in Ids
      BY DEF TypeOK
    <3>3. QED
      BY <2>1, <3>1, <3>2, TableKept
  <2>5. QED
    BY <1>5, <2>2, <2>3, <2>4 DEF Begin, Continue, PauseRunner, PauseRow, ResumeRunner,
       ResumeSignal, ResumeRow, WriteStatus, CancelRunner, CancelCtx, SetRate,
       UploadRefused, SaveRow, dbVars
<1>6. CASE UNCHANGED vars
  BY <1>1, <1>6 DEF vars, dbVars, historyVars
<1>7. QED
  BY <1>2, <1>3, <1>4, <1>5, <1>6 DEF Next, Stop

-----------------------------------------------------------------------------
(* The way through the pipeline *)

\* Every step keeps FlowInv.
LEMMA FlowStep ==
  ASSUME TypeOK, JobInv, PhaseInv, FlowInv, [Next]_vars
  PROVE  FlowInv'
<1> DEFINE Where(r) == r \in Queued \cup Held \/ HasResult(r)
<1> USE DEF dispatcherVars, workerVars
<1>1. CASE UNCHANGED <<jobs, job, wpc, results, fed, dpc, ctxDone, burst>>
  BY <1>1 DEF FlowInv, Queued, Held, HasResult
<1>2. CASE Dispatcher
  <2>1. UNCHANGED <<job, wpc, results, ctxDone, burst>> /\ dpc # "closed"
    BY <1>2, DispatcherRuns
  <2>2. Held' = Held /\ \A r : HasResult(r)' <=> HasResult(r)
    BY <2>1 DEF Held, HasResult
  <2>3. CASE DispatcherFeed
    <3>1. PICK r \in batch : jobs' = Append(jobs, r) /\ fed' = fed \cup {r}
      BY <2>3 DEF DispatcherFeed
    <3>2. /\ DOMAIN jobs = 1 .. Len(jobs) /\ DOMAIN jobs' = 1 .. (Len(jobs) + 1)
          /\ Len(jobs) \in Nat /\ jobs'[Len(jobs) + 1] = r
          /\ \A i \in DOMAIN jobs : jobs'[i] = jobs[i]
      BY <3>1 DEF TypeOK
    <3>3. Queued \cup {r} \subseteq Queued'
      BY <3>2 DEF Queued
    <3>4. \A q \in fed' : q \in fed \/ q = r
      BY <3>1
    <3>5. QED
      BY <2>1, <2>2, <3>3, <3>4 DEF FlowInv
  <2>4. CASE UNCHANGED <<jobs, fed>>
    BY <2>1, <2>2, <2>4 DEF FlowInv, Queued
  <2>5. QED
    BY <1>2, <2>3, <2>4 DEF Dispatcher, DispatcherCheck, DispatcherLoad, DispatcherLoadFails,
       DispatcherGivesUp, DispatcherNextPage, historyVars
<1>3. ASSUME NEW w \in Workers, Worker(w)
      PROVE  FlowInv'
  <2>0. /\ UNCHANGED <<fed, dpc, ctxDone, burst>>
        /\ \A v \in Workers \ {w} : wpc'[v] = wpc[v] /\ job'[v] = job[v]
    BY <1>3, WorkerRuns
  <2>1. CASE WorkerTakes(w)
    <3>1. /\ jobs' = Tail(jobs) /\ jobs # <<>> /\ job' = [job EXCEPT ![w] = Head(jobs)]
          /\ job[w] = NoJob /\ UNCHANGED results /\ wpc'[w] # "gone"
      BY <2>1 DEF WorkerTakes, JobInv, TypeOK
    <3>2. /\ Len(jobs) \in Nat \ {0} /\ DOMAIN jobs = 1 .. Len(jobs)
          /\ DOMAIN jobs' = 1 .. (Len(jobs) - 1)
          /\ Head(jobs) = jobs[1] /\ jobs[1] \in Ids
          /\ \A i \in DOMAIN jobs' : jobs'[i] = jobs[i + 1]
      BY <3>1 DEF TypeOK
    <3>3. job'[w] = jobs[1] /\ jobs[1] # NoJob
      BY <3>1, <3>2, SizesAssumption DEF TypeOK, Ids, NoJob
    <3>4. Held \cup {jobs[1]} \subseteq Held'
      BY <2>0, <3>1, <3>3 DEF Held
    <3>5. ASSUME NEW i \in DOMAIN jobs PROVE jobs[i] \in Queued' \cup {jobs[1]}
      <4>1. CASE i = 1
        BY <4>1
      <4>2. CASE i # 1
        <5>1. i - 1 \in DOMAIN jobs' /\ jobs'[i - 1] = jobs[(i - 1) + 1] /\ (i - 1) + 1 = i
          BY <3>2, <4>2
        <5>2. QED
          BY <5>1 DEF Queued
      <4>3. QED
        BY <4>1, <4>2
    <3>6. Queued \subseteq Queued' \cup {jobs[1]}
      BY <3>5 DEF Queued
    <3>7. \A r : Where(r) => Where(r)'
      BY <3>1, <3>4, <3>6 DEF HasResult
    <3>8. ~ctxDone => \A v \in Workers : wpc[v] # "gone"
      BY <3>1 DEF FlowInv
    <3>9. QED
      BY <2>0, <3>1, <3>7, <3>8 DEF FlowInv
  <2>2. CASE WorkerExits(w)
    <3>1. UNCHANGED <<jobs, job, results>> /\ MayExit
      BY <2>2 DEF WorkerExits
    <3>2. \A r : Where(r)' <=> Where(r)
      BY <3>1 DEF Queued, Held, HasResult
    <3>3. QED
      BY <2>0, <3>1, <3>2 DEF FlowInv, MayExit
  <2>3. CASE WorkerDrops(w)
    <3>1. UNCHANGED <<jobs, results>> /\ wpc'[w] = "idle" /\ (ctxDone \/ ~(burst >= 1))
      BY <2>3 DEF WorkerDrops, LimiterAdmits, TypeOK
    <3>2. QED
      BY <2>0, <3>1 DEF FlowInv
  <2>4. CASE WorkerReports(w)
    <3>1. wpc'[w] = "idle" /\ job' = [job EXCEPT ![w] = NoJob] /\ jobs' = jobs
      BY <2>4 DEF WorkerReports, TypeOK
    <3>2. \A r : HasResult(r) \/ r = job[w] => HasResult(r)'
      BY <2>4, ReportAppends DEF HasResult
    <3>3. Queued' = Queued
      BY <3>1 DEF Queued
    <3>4. Held \subseteq Held' \cup {job[w]}
      BY <2>0 DEF Held
    <3>5. \A r : Where(r) => Where(r)'
      BY <3>2, <3>3, <3>4
    <3>6. QED
      BY <2>0, <3>1, <3>5 DEF FlowInv
  <2>5. CASE UNCHANGED <<jobs, job, results>> /\ wpc'[w] # "gone"
    <3>1. \A r : Where(r)' <=> Where(r)
      BY <2>5 DEF Queued, Held, HasResult
    <3>2. QED
      BY <2>0, <2>5, <3>1 DEF FlowInv
  <2>6. QED
    BY <1>3, <2>1, <2>2, <2>3, <2>4, <2>5 DEF Worker, WorkerGate, WorkerWakes, AfterWake,
       WorkerReserves, WorkerSends, TypeOK
<1>4. CASE Runner
  BY <1>1, <1>4, RunnerLeavesPipeline DEF gateVars
<1>5. ASSUME NEW c \in Clients, Begin(c) \/ Continue(c)
      PROVE  FlowInv'
  <2>1. UNCHANGED <<jobs, job, wpc, results, fed, dpc>>
    BY <1>5, ClientLeavesPipeline
  <2>2. ctxDone => ctxDone'
    BY <1>5 DEF Begin, Continue, PauseRunner, PauseRow, ResumeRunner, ResumeSignal,
       ResumeRow, WriteStatus, CancelRunner, CancelCtx, SetRate, UploadRows,
       UploadRefused, DeleteRow, DeleteAllRows, SaveRow, gateVars
  <2>3. burst' = burst \/ burst' \in Rates
    BY <1>5 DEF Begin, Continue, PauseRunner, PauseRow, ResumeRunner, ResumeSignal,
       ResumeRow, WriteStatus, CancelRunner, CancelCtx, SetRate, UploadRows,
       UploadRefused, DeleteRow, DeleteAllRows, SaveRow, gateVars
  <2>4. burst' = burst \/ burst' >= 1
    <3>1. \A x \in Rates : x \in Nat \ {0}
      BY RateAssumption
    <3>2. \A x \in Nat \ {0} : x >= 1
      OBVIOUS
    <3>3. QED
      BY <2>3, <3>1, <3>2
  <2>5. QED
    BY <2>1, <2>2, <2>4 DEF FlowInv, Queued, Held, HasResult
<1>6. CASE UNCHANGED vars
  BY <1>1, <1>6 DEF vars, gateVars, historyVars
<1>7. QED
  BY <1>2, <1>3, <1>4, <1>5, <1>6 DEF Next, Stop

-----------------------------------------------------------------------------
(* The rows still ahead of the dispatcher *)

\* A step that changes no row up to r does not change its rank.
LEMMA RankSame ==
  ASSUME NEW r \in Ids, \A q \in Ids : q <= r => rcpt'[q] = rcpt[q]
  PROVE  Rank(r)' = Rank(r)
<1>1. {q \in Pending' : q <= r} = {q \in Pending : q <= r}
  BY DEF Pending
<1>2. QED
  BY <1>1 DEF Rank

\* A step that leaves the dispatcher and the rows of the start alone, or deletes
\* one of them, keeps AheadInv.
LEMMA AheadKept ==
  ASSUME TypeOK, AheadInv, UNCHANGED <<dpc, offset, size, batch, fed>>,
         ctxDone => ctxDone', faults' = 0 => faults = 0, nextId' > Rows,
         NoneDeleted' => \A r \in 1..Rows : rcpt'[r] = rcpt[r]
  PROVE  AheadInv'
<1> SUFFICES ASSUME Undisturbed', NEW r \in 1..Rows, rcpt'[r] = "pending", r \notin fed \cup batch
             PROVE  dpc # "closed" /\ Rank(r)' > offset + size /\ (dpc = "feed" => size = BatchSize)
  BY DEF AheadInv
<1>1. Undisturbed /\ \A q \in 1..Rows : rcpt'[q] = rcpt[q]
  BY DEF Undisturbed, NoneDeleted
<1>2. r \in Ids /\ \A q \in Ids : q <= r => q \in 1..Rows
  BY SizesAssumption DEF Ids
<1>3. Rank(r)' = Rank(r)
  BY <1>1, <1>2, RankSame
<1>4. QED
  BY <1>1, <1>3 DEF AheadInv

\* After a load, the rows that are neither fed nor in the page are ranked behind
\* it, and the page is a full one.
LEMMA AheadLoad ==
  ASSUME TypeOK, PagingInv, AheadInv, DispatcherLoad
  PROVE  AheadInv'
<1>1. /\ batch' = Page /\ size' = PageSize /\ size = 0 /\ dpc = "load"
      /\ dpc' = (IF size' = 0 THEN "closed" ELSE "feed")
      /\ UNCHANGED <<rcpt, nextId, offset, fed, ctxDone, faults>>
  BY DEF DispatcherLoad, PagingInv, dbVars, gateVars, historyVars
<1> SUFFICES ASSUME Undisturbed', NEW r \in 1..Rows, rcpt[r] = "pending", r \notin fed \cup Page
             PROVE  /\ dpc' # "closed" /\ Rank(r) > offset + PageSize
                    /\ dpc' = "feed" => PageSize = BatchSize
  BY <1>1 DEF AheadInv, Rank, Pending, dbVars
<1>2. Undisturbed /\ r \in Ids /\ r \in Pending
  BY <1>1, SizesAssumption DEF Undisturbed, NoneDeleted, Ids, Pending
<1>3. Rank(r) > offset
  <2>1. dpc = "load" => batch = {}
    BY DEF PagingInv
  <2>2. Rank(r) > offset + 0
    BY <1>1, <1>2, <2>1 DEF AheadInv
  <2>3. QED
    BY <2>2, <1>2, RankType DEF TypeOK
<1>4. Rank(r) > offset + BatchSize
  BY <1>2, <1>3, RankType, SizesAssumption DEF Page, TypeOK
<1>5. Rank(r) \in Nat /\ Rank(r) <= Cardinality(Pending) /\ Cardinality(Pending) \in Nat
      /\ offset \in Nat
  BY <1>2, RankType DEF TypeOK
<1>6. PageSize = BatchSize
  BY <1>4, <1>5, SizesAssumption DEF PageSize, Min2, Max2
<1>7. QED
  BY <1>1, <1>4, <1>6, SizesAssumption

\* Every step keeps AheadInv.
LEMMA AheadStep ==
  ASSUME TypeOK, JobInv, OneHolder, PagingInv, PhaseInv, AheadInv, [Next]_vars
  PROVE  AheadInv'
<1> USE DEF dispatcherVars
<1>1. CASE UNCHANGED <<rcpt, nextId, dpc, offset, size, batch, fed, ctxDone, faults>>
  BY <1>1 DEF AheadInv, Undisturbed, NoneDeleted, Rank, Pending
<1>2. CASE Dispatcher
  <2>1. UNCHANGED <<rcpt, nextId, ctxDone>>
    BY <1>2, DispatcherRuns
  <2>2. \A r : Rank(r)' = Rank(r)
    BY <2>1 DEF Rank, Pending
  <2>3. CASE DispatcherLoad
    BY <2>3, AheadLoad
  <2>4. CASE DispatcherCheck
    BY <2>1, <2>2, <2>4 DEF DispatcherCheck, AheadInv, Undisturbed, NoneDeleted, historyVars
  <2>5. CASE DispatcherLoadFails
    <3>1. faults' # 0
      BY <2>5 DEF DispatcherLoadFails, TypeOK
    <3>2. QED
      BY <2>1, <3>1 DEF AheadInv, Undisturbed
  <2>6. CASE DispatcherFeed
    <3>1. fed' \cup batch' = fed \cup batch /\ UNCHANGED <<dpc, offset, size, faults>>
      BY <2>6 DEF DispatcherFeed
    <3>2. QED
      BY <2>1, <2>2, <3>1 DEF AheadInv, Undisturbed, NoneDeleted
  <2>7. CASE DispatcherGivesUp
    BY <2>1, <2>7 DEF DispatcherGivesUp, AheadInv, Undisturbed
  <2>8. CASE DispatcherNextPage
    <3>1. /\ UNCHANGED <<batch, fed, faults>> /\ dpc = "feed" /\ offset' + size' = offset + size
          /\ dpc' = IF size < BatchSize THEN "closed" ELSE "check"
      BY <2>8 DEF DispatcherNextPage, NextOffset, LastPage, historyVars, TypeOK
    <3>2. ASSUME size < BatchSize PROVE size # BatchSize
      BY <3>2, SizesAssumption
    <3>3. QED
      BY <2>1, <2>2, <3>1, <3>2 DEF AheadInv, Undisturbed, NoneDeleted
  <2>9. QED
    BY <1>2, <2>3, <2>4, <2>5, <2>6, <2>7, <2>8 DEF Dispatcher
<1>3. ASSUME NEW w \in Workers, Worker(w)
      PROVE  AheadInv'
  BY <1>1, <1>3, WorkerRuns
<1>4. CASE Runner
  <2>1. UNCHANGED <<nextId, dpc, offset, size, batch, fed, ctxDone>> /\ nextId > Rows
    BY <1>4, RunnerLeavesPipeline DEF gateVars, AheadInv
  <2>2. CASE RunnerSaves
    <3>1. dpc = "closed" /\ phase # "running" /\ (faults' = 0 => faults = 0)
      BY <2>2, SavedOutcome DEF RunnerSaves, PhaseInv
    <3>2. \A r \in 1..Rows : rcpt'[r] = "pending" => rcpt[r] = "pending"
      <4>1. \A r \in 1..Rows : r \in Ids
        BY SizesAssumption DEF Ids
      <4>2. QED
        BY <2>2, <4>1, SavedStatus
    <3>3. \A r \in 1..Rows : rcpt'[r] # "absent" => rcpt[r] # "absent"
      <4>1. \A r \in 1..Rows : r \in Ids
        BY SizesAssumption DEF Ids
      <4>2. QED
        BY <2>2, <4>1, SavedStatus
    <3>4. QED
      BY <2>1, <3>1, <3>2, <3>3 DEF AheadInv, Undisturbed, NoneDeleted
  <2>3. CASE RunnerJoins \/ RunnerSaved \/ RunnerJudges \/ RunnerRecords \/ RunnerLeaves
    <3>1. UNCHANGED rcpt /\ (faults' = 0 => faults = 0)
      BY <2>3 DEF RunnerJoins, RunnerSaved, RunnerJudges, RunnerRecords, RunnerLeaves,
         dbVars, historyVars, TypeOK
    <3>2. QED
      BY <2>1, <3>1, AheadKept
  <2>4. QED
    BY <1>4, <2>2, <2>3 DEF Runner
<1>5. ASSUME NEW c \in Clients, Begin(c) \/ Continue(c)
      PROVE  AheadInv'
  <2>1. UNCHANGED <<dpc, offset, size, batch, fed, faults>>
    BY <1>5, ClientLeavesPipeline
  <2>2. ctxDone => ctxDone'
    BY <1>5 DEF Begin, Continue, PauseRunner, PauseRow, ResumeRunner, ResumeSignal,
       ResumeRow, WriteStatus, CancelRunner, CancelCtx, SetRate, UploadRows,
       UploadRefused, DeleteRow, DeleteAllRows, SaveRow, gateVars
  <2>3. NoneDeleted' => \A r \in 1..Rows : rcpt'[r] = rcpt[r]
    <3>0. \A r \in 1..Rows : r \in Ids
      BY SizesAssumption DEF Ids
    <3>1. CASE UNCHANGED rcpt
      BY <3>1
    <3>2. CASE UploadRows(c)
      <4>1. \A r \in Ids : r < nextId => rcpt'[r] = rcpt[r]
        BY <3>2, SizesAssumption DEF UploadRows, TypeOK, Ids
      <4>2. \A r \in 1..Rows : r < nextId
        BY SizesAssumption DEF AheadInv, TypeOK
      <4>3. QED
        BY <3>0, <4>1, <4>2
    <3>3. CASE DeleteRow(c) \/ DeleteAllRows(c)
      BY <3>0, <3>3 DEF DeleteRow, DeleteAllRows, NoneDeleted, TypeOK
    <3>4. QED
      BY <1>5, <3>1, <3>2, <3>3 DEF Begin, Continue, PauseRunner, PauseRow, ResumeRunner,
         ResumeSignal, ResumeRow, WriteStatus, CancelRunner, CancelCtx, SetRate,
         UploadRefused, SaveRow, dbVars
  <2>4. nextId' > Rows
    <3>1. CASE UNCHANGED nextId
      BY <3>1 DEF AheadInv
    <3>2. CASE UploadRows(c)
      BY SMTT(30), <3>2, SizesAssumption DEF UploadRows, AheadInv, TypeOK
    <3>3. QED
      BY <1>5, <3>1, <3>2 DEF Begin, Continue, PauseRunner, PauseRow, ResumeRunner,
         ResumeSignal, ResumeRow, WriteStatus, CancelRunner, CancelCtx, SetRate,
         UploadRefused, DeleteRow, DeleteAllRows, SaveRow, dbVars
  <2>5. QED
    BY <2>1, <2>2, <2>3, <2>4, AheadKept
<1>6. CASE UNCHANGED vars
  BY <1>1, <1>6 DEF vars, dbVars, gateVars, historyVars
<1>7. QED
  BY <1>2, <1>3, <1>4, <1>5, <1>6 DEF Next, Stop

-----------------------------------------------------------------------------
(* The counters of the row *)

\* When every result is saved and nothing was deleted, the recipients with an
\* outcome are those of earlier runs and one for each result.
LEMMA RecordCounts ==
  ASSUME TypeOK, OneHolder, PagingInv, PhaseInv, TableInv, AheadInv,
         Unedited, faults = 0, phase = "recording", NEW s \in {"sent", "failed"}
  PROVE  Cardinality(RowsWith(s)) = Cardinality(RowsWith(s) \ fed) + Cardinality(Reported(s))
<1> DEFINE A == RowsWith(s) \cap fed
           f == [i \in Reported(s) |-> results[i].id]
<1>1. /\ DOMAIN results = 1 .. Len(results) /\ saved = Len(results)
      /\ Reported(s) \subseteq DOMAIN results
  BY ResultsDomain DEF PhaseInv, Reported
<1>2. ASSUME NEW i \in Reported(s)
      PROVE  results[i].id \in A
  <2>1. i \in 1..saved /\ i \in DOMAIN results /\ results[i].status = s
    BY <1>1 DEF Reported
  <2>2. results[i].id \in fed /\ results[i].id \in Ids
    BY <2>1, ResultsType DEF OneHolder
  <2>3. results[i].id < nextId
    BY <2>2 DEF PagingInv
  <2>4. results[i].id \in 1..Rows
    BY <2>2, <2>3, SizesAssumption DEF Unedited, Ids
  <2>5. rcpt[results[i].id] = s
    BY <2>1, <2>4 DEF TableInv, Unedited, NoneDeleted
  <2>6. QED
    BY <2>2, <2>5 DEF RowsWith
<1>3. ASSUME NEW r \in A
      PROVE  \E i \in Reported(s) : results[i].id = r
  <2>1. Learnt(r) /\ rcpt[r] = s
    BY DEF TableInv, RowsWith
  <2>2. QED
    BY <2>1 DEF Learnt, Reported
<1>4. \A i, j \in Reported(s) : results[i].id = results[j].id => i = j
  BY <1>1 DEF OneHolder
<1> HIDE DEF A
<1>5. f \in Bijection(Reported(s), A)
  <2>1. f \in [Reported(s) -> A]
    BY <1>2
  <2>2. \A i, j \in Reported(s) : f[i] = f[j] => i = j
    BY <1>4
  <2>3. \A r \in A : \E i \in Reported(s) : f[i] = r
    BY <1>3
  <2>4. QED
    BY <2>1, <2>2, <2>3, Fun_IsBij
<1>6. IsFiniteSet(Reported(s))
  <2>1. IsFiniteSet(DOMAIN results)
    BY ResultsDomain, FS_Interval
  <2>2. QED
    BY <1>1, <2>1, FS_Subset
<1>7. Cardinality(A) = Cardinality(Reported(s))
  BY <1>5, <1>6, FS_Bijection DEF ExistsBijection
<1>8. RowsWith(s) \in SUBSET Ids /\ A \in SUBSET Ids
  BY DEF RowsWith, A
<1>9. Cardinality(RowsWith(s) \ fed) = Cardinality(RowsWith(s)) - Cardinality(A)
  BY <1>8, IdsFinite, FS_Difference DEF A
<1>10. Cardinality(RowsWith(s)) \in Nat /\ Cardinality(A) \in Nat
  BY <1>8, IdsFinite
<1>11. QED
  BY <1>7, <1>9, <1>10

\* A step that leaves the counters of the row and what they count alone, and has
\* no new request about to save, keeps CountInv.
LEMMA CountKept ==
  ASSUME CountInv,
         Unedited' => /\ Unedited
                      /\ \A c \in Clients : rpc'[c] = "save" => rpc[c] = "save"
                      /\ row'.sent = row.sent /\ row'.failed = row.failed
                      /\ faults' = 0 => /\ faults = 0
                                        /\ Counted("sent")' = Counted("sent")
                                        /\ Counted("failed")' = Counted("failed")
  PROVE  CountInv'
BY DEF CountInv

\* Every step keeps CountInv.
LEMMA CountStep ==
  ASSUME TypeOK, JobInv, OneHolder, PagingInv, PhaseInv, TableInv, AheadInv, CountInv,
         [Next]_vars
  PROVE  CountInv'
<1> USE DEF dispatcherVars, workerVars, finishVars
<1>1. CASE UNCHANGED <<rcpt, nextId, row, fed, phase, faults>>
           /\ \A c \in Clients : rpc'[c] = "save" => rpc[c] = "save"
  BY <1>1 DEF CountInv, Unedited, NoneDeleted, Counted, RowsWith
<1>2. CASE Dispatcher
  <2>1. UNCHANGED <<rcpt, nextId, row, rpc, phase>> /\ phase = "running"
    BY <1>2, DispatcherRuns
  <2>2. fed' = fed \/ \E r \in batch : fed' = fed \cup {r}
    BY <1>2 DEF Dispatcher, DispatcherCheck, DispatcherLoad, DispatcherLoadFails, DispatcherFeed,
       DispatcherGivesUp, DispatcherNextPage, historyVars
  <2>3. \A r \in batch : rcpt[r] \in {"pending", "absent"}
    BY <2>1 DEF TableInv
  <2>4. /\ RowsWith("sent") \ fed' = RowsWith("sent") \ fed
        /\ RowsWith("failed") \ fed' = RowsWith("failed") \ fed
    BY <2>2, <2>3 DEF RowsWith
  <2>5. faults' = 0 => faults = 0
    BY <1>2 DEF Dispatcher, DispatcherCheck, DispatcherLoad, DispatcherLoadFails, DispatcherFeed,
       DispatcherGivesUp, DispatcherNextPage, historyVars, TypeOK
  <2>6. QED
    BY <2>1, <2>4, <2>5, CountKept DEF Counted, RowsWith, Unedited, NoneDeleted
<1>3. ASSUME NEW w \in Workers, Worker(w)
      PROVE  CountInv'
  BY <1>1, <1>3, WorkerRuns
<1>4. CASE Runner
  <2>1. UNCHANGED <<nextId, fed, rpc>>
    BY <1>4, RunnerLeavesPipeline DEF requestVars
  <2>2. CASE RunnerSaves
    <3>1. phase = "saving" /\ UNCHANGED <<phase, row>>
      BY <2>2 DEF RunnerSaves
    <3>2. faults' = 0 => faults = 0
      BY <2>2, SavedOutcome
    <3>3. \A r \in Ids : r \notin fed => rcpt'[r] = rcpt[r]
      <4>1. \A i \in DOMAIN results : results[i].id \in fed
        BY DEF OneHolder
      <4>2. QED
        BY <2>2, <4>1, SavedOutcome
    <3>4. \A r \in Ids : rcpt'[r] # "absent" => rcpt[r] # "absent"
      BY <2>2, SavedStatus
    <3>5. Unedited' => Unedited
      <4>1. \A r \in 1..Rows : r \in Ids
        BY SizesAssumption DEF Ids
      <4>2. QED
        BY <2>1, <3>4, <4>1 DEF Unedited, NoneDeleted
    <3>6. \A s : (RowsWith(s) \ fed)' = RowsWith(s) \ fed
      BY <2>1, <3>3 DEF RowsWith
    <3>7. QED
      BY <2>1, <3>1, <3>2, <3>5, <3>6, CountKept DEF Counted
  <2>3. CASE RunnerRecords
    <3>1. phase = "recording" /\ phase' = "leaving" /\ UNCHANGED rcpt
      BY <2>3 DEF RunnerRecords
    <3>2. CASE row' = FinalRow /\ faults' = faults
      <4>1. /\ row'.sent = row.sent + Cardinality(Reported("sent"))
            /\ row'.failed = row.failed + Cardinality(Reported("failed"))
        BY <3>2 DEF FinalRow, TypeOK, CampaignRow
      <4>2. Unedited' => Unedited
        BY <2>1, <3>1 DEF Unedited, NoneDeleted
      <4>3. Counted("sent")' = RowsWith("sent") /\ Counted("failed")' = RowsWith("failed")
        BY <3>1 DEF Counted, RowsWith
      <4>4. Counted("sent") = RowsWith("sent") \ fed /\ Counted("failed") = RowsWith("failed") \ fed
        BY <3>1 DEF Counted
      <4>5. ASSUME Unedited, faults = 0
            PROVE  /\ row'.sent = Cardinality(RowsWith("sent"))
                   /\ row'.failed = Cardinality(RowsWith("failed"))
        <5>1. row.sent = Cardinality(RowsWith("sent") \ fed)
              /\ row.failed = Cardinality(RowsWith("failed") \ fed)
          BY <4>4, <4>5 DEF CountInv
        <5>2. /\ Cardinality(RowsWith("sent"))
                   = Cardinality(RowsWith("sent") \ fed) + Cardinality(Reported("sent"))
              /\ Cardinality(RowsWith("failed"))
                   = Cardinality(RowsWith("failed") \ fed) + Cardinality(Reported("failed"))
          BY <3>1, <4>5, RecordCounts
        <5>3. QED
          BY <4>1, <5>1, <5>2
      <4>6. QED
        BY <2>1, <3>2, <4>2, <4>3, <4>5 DEF CountInv
    <3>3. CASE row' = row /\ faults' = faults + 1
      <4>1. faults' # 0
        BY <3>3 DEF TypeOK
      <4>2. Unedited' => Unedited
        BY <2>1, <3>1 DEF Unedited, NoneDeleted
      <4>3. QED
        BY <2>1, <3>3, <4>1, <4>2, CountKept
    <3>4. QED
      BY <2>3, <3>2, <3>3 DEF RunnerRecords
  <2>4. CASE RunnerJoins \/ RunnerSaved \/ RunnerJudges \/ RunnerLeaves
    <3>1. UNCHANGED <<rcpt, row, faults>>
      BY <2>4 DEF RunnerJoins, RunnerSaved, RunnerJudges, RunnerLeaves, dbVars, historyVars
    <3>2. phase \in {"leaving", "gone"} <=> phase' \in {"leaving", "gone"}
      BY <2>4 DEF RunnerJoins, RunnerSaved, RunnerJudges, RunnerLeaves
    <3>3. QED
      BY <2>1, <3>1, <3>2, CountKept DEF Counted, RowsWith, Unedited, NoneDeleted
  <2>5. QED
    BY <1>4, <2>2, <2>3, <2>4 DEF Runner
<1>5. ASSUME NEW c \in Clients, Begin(c) \/ Continue(c)
      PROVE  CountInv'
  <2>1. UNCHANGED <<fed, phase, faults>>
    BY <1>5, ClientLeavesPipeline
  <2>2. CASE UploadRows(c)
    <3>1. nextId' > Rows + 1
      BY SMTT(30), <2>2, SizesAssumption DEF UploadRows, AheadInv, TypeOK
    <3>2. ~Unedited'
      BY <3>1, SizesAssumption DEF Unedited, TypeOK
    <3>3. QED
      BY <3>2 DEF CountInv
  <2>3. CASE DeleteRow(c)
    <3>1. Unedited' => nextId = Rows + 1
      BY <2>3 DEF DeleteRow, Unedited
    <3>2. PICK r \in 1 .. (nextId - 1) : rcpt' = [rcpt EXCEPT ![r] = "absent"]
      BY <2>3 DEF DeleteRow
    <3>3. ASSUME nextId = Rows + 1 PROVE r \in 1..Rows /\ rcpt'[r] = "absent"
      BY <3>2, <3>3, SizesAssumption DEF TypeOK, Ids
    <3>4. ~Unedited'
      BY <3>1, <3>3 DEF Unedited, NoneDeleted
    <3>5. QED
      BY <3>4 DEF CountInv
  <2>4. CASE DeleteAllRows(c)
    <3>1. 1 \in Ids /\ 1 \in 1..Rows
      BY SizesAssumption DEF Ids
    <3>2. rcpt'[1] = "absent"
      BY <2>4, <3>1 DEF DeleteAllRows
    <3>3. ~Unedited'
      BY <3>1, <3>2 DEF Unedited, NoneDeleted
    <3>4. QED
      BY <3>3 DEF CountInv
  <2>5. CASE SaveRow(c)
    <3>1. UNCHANGED <<rcpt, nextId>> /\ rpc[c] = "save"
      BY <2>5 DEF SaveRow
    <3>2. ~Unedited
      BY <3>1 DEF CountInv
    <3>3. QED
      BY <3>1, <3>2 DEF CountInv, Unedited, NoneDeleted
  <2>6. ASSUME NEW at, NEW s, WriteStatus(c, at, s)
        PROVE  CountInv'
    <3>1. UNCHANGED <<rcpt, nextId>> /\ row' = [row EXCEPT !.status = s]
          /\ rpc' = [rpc EXCEPT ![c] = "idle"]
      BY <2>6 DEF WriteStatus
    <3>2. row'.sent = row.sent /\ row'.failed = row.failed
      BY <3>1 DEF TypeOK, CampaignRow
    <3>3. \A d \in Clients : rpc'[d] = "save" => rpc[d] = "save"
      BY <3>1 DEF TypeOK
    <3>4. QED
      BY <2>1, <3>1, <3>2, <3>3, CountKept DEF Counted, RowsWith, Unedited, NoneDeleted
  <2>7. CASE PauseRow(c) \/ ResumeRow(c)
    BY <2>6, <2>7 DEF PauseRow, ResumeRow
  <2>8. CASE Begin(c)
    <3>1. \A d \in Clients : rpc'[d] = "save" => rpc[d] = "save"
      BY <2>8, OpsAssumption DEF Begin, TypeOK
    <3>2. QED
      BY <1>1, <2>1, <2>8, <3>1 DEF Begin, dbVars
  <2>9. CASE PauseRunner(c) \/ ResumeRunner(c) \/ ResumeSignal(c) \/ CancelRunner(c)
             \/ CancelCtx(c) \/ SetRate(c) \/ UploadRefused(c)
    <3>1. UNCHANGED dbVars /\ \A d \in Clients : rpc'[d] = "save" => rpc[d] = "save"
      BY <2>9 DEF PauseRunner, ResumeRunner, ResumeSignal, CancelRunner, CancelCtx, SetRate,
         UploadRefused, TypeOK
    <3>2. QED
      BY <1>1, <2>1, <3>1 DEF dbVars
  <2>10. QED
    BY <1>5, <2>2, <2>3, <2>4, <2>5, <2>7, <2>8, <2>9 DEF Continue
<1>6. CASE UNCHANGED vars
  BY <1>1, <1>6 DEF vars, dbVars, historyVars, requestVars
<1>7. QED
  BY <1>2, <1>3, <1>4, <1>5, <1>6 DEF Next, Stop

-----------------------------------------------------------------------------
(* The invariant, and what it says of the end of a run *)

\* At the start nothing was fed, reported or saved, every recipient that is pending
\* is ahead of the dispatcher, and the row counts the outcomes of earlier runs.
LEMMA OutcomeInit == Init => OutcomeInv
<1> SUFFICES ASSUME Init PROVE OutcomeInv
  OBVIOUS
<1>1. PhaseInv /\ ReportInv /\ TableInv
  BY DEF Init, PhaseInv, ReportInv, TableInv
<1>2. FlowInv
  BY DEF Init, FlowInv
<1>3. AheadInv
  <2>1. \A r \in 1..Rows : rcpt[r] = "pending" => Rank(r) > 0
    <3> SUFFICES ASSUME NEW r \in 1..Rows, rcpt[r] = "pending" PROVE Rank(r) > 0
      OBVIOUS
    <3>1. r \in Ids /\ r \in {q \in Pending : q <= r}
      BY SizesAssumption DEF Ids, Pending
    <3>2. {q \in Pending : q <= r} \in SUBSET Ids
      BY DEF Pending
    <3>3. Rank(r) # 0 /\ Rank(r) \in Nat
      BY <3>1, <3>2, IdsFinite, FS_EmptySet DEF Rank
    <3>4. QED
      BY <3>3
  <2>2. nextId > Rows /\ dpc = "check" /\ offset = 0 /\ size = 0
    BY SizesAssumption DEF Init
  <2>3. QED
    BY <2>1, <2>2 DEF AheadInv
<1>4. CountInv
  <2>1. /\ \A c \in Clients : rpc[c] # "save"
        /\ row.sent = Cardinality(RowsWith("sent")) /\ row.failed = Cardinality(RowsWith("failed"))
        /\ fed = {} /\ phase = "running"
    BY DEF Init
  <2>2. Counted("sent") = RowsWith("sent") /\ Counted("failed") = RowsWith("failed")
    BY <2>1 DEF Counted
  <2>3. QED
    BY <2>1, <2>2 DEF CountInv
<1>5. QED
  BY <1>1, <1>2, <1>3, <1>4 DEF OutcomeInv

\* Every step keeps OutcomeInv where SendInv holds.
LEMMA OutcomeStep ==
  ASSUME SendInv, OutcomeInv, [Next]_vars
  PROVE  OutcomeInv'
<1> USE DEF SendInv, OutcomeInv
<1>1. PhaseInv'
  BY PhaseStep
<1>2. ReportInv'
  BY ReportStep
<1>3. TableInv'
  BY TableStep
<1>4. FlowInv'
  BY FlowStep
<1>5. AheadInv'
  BY AheadStep
<1>6. CountInv'
  BY CountStep
<1>7. QED
  BY <1>1, <1>2, <1>3, <1>4, <1>5, <1>6

\* RunInv is an inductive invariant: what SendInv says of the sending, and what the
\* results, the table and the row say of each other up to the final UPDATE.
THEOREM RunInvariant == Spec => []RunInv
<1>1. Init => OutcomeInv
  BY OutcomeInit
<1>2. SendInv /\ OutcomeInv /\ [Next]_vars => OutcomeInv'
  BY OutcomeStep
<1>3. Spec => []SendInv
  BY PipelineInvariant
<1>4. Spec => []OutcomeInv
  BY <1>1, <1>2, <1>3, PTL DEF Spec
<1>5. SendInv /\ OutcomeInv => RunInv
  BY DEF RunInv
<1>6. QED
  BY <1>3, <1>4, <1>5, PTL

\* After saveResults without a failing statement the table tells the truth: nobody
\* who is still pending was mailed, everybody this run marked sent was, whatever
\* was cancelled, uploaded and deleted meanwhile.
THEOREM TableIsTrue == Spec => []TableTellsTruth
<1>1. RunInv => TableTellsTruth
  <2> SUFFICES ASSUME RunInv, phase \notin {"running", "saving"}, faults = 0, NEW r \in Ids
               PROVE  /\ rcpt[r] = "pending" => mails[r] = 0 /\ ~HasResult(r)
                      /\ rcpt[r] = "sent" /\ r \in fed => mails[r] = 1
    BY DEF TableTellsTruth
  <2> USE DEF RunInv, SendInv, OutcomeInv
  <2>1. saved = Len(results) /\ WorkersDone
    BY DEF PhaseInv
  <2>2. mails[r] \in Nat /\ mails[r] <= 1
    BY DEF MailInv, TypeOK
  <2>3. ASSUME rcpt[r] = "pending"
        PROVE  mails[r] = 0 /\ ~HasResult(r)
    <3>1. ~HasResult(r)
      BY <2>1, <2>3, ResultsDomain, ResultsType DEF HasResult, TableInv
    <3>2. ~Attempted(r)
      BY <2>1, <3>1 DEF Attempted, WorkersDone
    <3>3. QED
      BY <2>2, <3>1, <3>2 DEF MailInv
  <2>4. ASSUME rcpt[r] = "sent", r \in fed
        PROVE  mails[r] = 1
    <3>1. PICK i \in DOMAIN results : results[i].id = r /\ results[i].status = "sent"
      BY <2>4 DEF TableInv, Learnt
    <3>2. mails[r] > 0
      BY <3>1 DEF ReportInv
    <3>3. QED
      BY <2>2, <3>2
  <2>5. QED
    BY <2>3, <2>4
<1>2. QED
  BY <1>1, RunInvariant, PTL

\* The final UPDATE leaves the campaign's counters equal to the numbers of
\* recipients with that status, if no statement failed and nobody edited them.
THEOREM CountersAreRight == Spec => []CountersMatchTable
<1>1. RunInv => CountersMatchTable
  BY DEF RunInv, OutcomeInv, CountInv, CountersMatchTable, Counted
<1>2. QED
  BY <1>1, RunInvariant, PTL

\* A run with a positive rate that nobody cancelled, whose statements all worked and
\* whose recipients nobody deleted, leaves none of them pending: paging by offset
\* skips nobody and no recipient is lost between the dispatcher and the table.
THEOREM NobodyIsSkipped ==
  ASSUME RateLimit >= 1
  PROVE  Spec => []RunCoversTable
<1>1. RunInv => RunCoversTable
  <2> SUFFICES ASSUME RunInv, phase \notin {"running", "saving"}, ~ctxDone,
                      faults = 0, NoneDeleted, NEW r \in 1..Rows, rcpt[r] = "pending"
               PROVE  FALSE
    BY DEF RunCoversTable
  <2> USE DEF RunInv, SendInv, OutcomeInv
  <2>1. dpc = "closed" /\ batch = {} /\ WorkersDone /\ saved = Len(results)
    BY DEF PhaseInv
  <2>2. r \in fed
    BY <2>1 DEF AheadInv, Undisturbed
  <2>3. Held = {}
    BY <2>1 DEF JobInv, WorkersDone, Held
  <2>4. Queued = {}
    <3>1. PICK w \in Workers : TRUE
      BY WorkersAssumption
    <3>2. jobs = <<>>
      BY <2>1, <3>1 DEF FlowInv, WorkersDone
    <3>3. QED
      BY <3>2 DEF Queued
  <2>5. HasResult(r)
    BY <2>2, <2>3, <2>4 DEF FlowInv
  <2>6. rcpt[r] # "pending"
    BY <2>1, <2>5, ResultsDomain, ResultsType DEF HasResult, TableInv
  <2>7. QED
    BY <2>6
<1>2. QED
  BY <1>1, RunInvariant, PTL

-----------------------------------------------------------------------------
(* The run implements SendContract *)

\* The recipients attempted, and delivered, as the contract sees them.
AttemptedSet == {r \in Ids : Attempted(r)}
DeliveredSet == {r \in Ids : mails[r] > 0}
Told == [r \in Ids |-> OutcomeOf(r)]

\* The outcome told of a recipient is the status of its one result.
LEMMA ToldOutcome ==
  ASSUME TypeOK, OneHolder
  PROVE  /\ \A i \in DOMAIN results : OutcomeOf(results[i].id) = results[i].status
         /\ \A r : ~HasResult(r) <=> OutcomeOf(r) = "none"
<1>1. ASSUME NEW i \in DOMAIN results
      PROVE  OutcomeOf(results[i].id) = results[i].status
  <2> DEFINE r == results[i].id
             j == CHOOSE k \in DOMAIN results : results[k].id = r
  <2>1. j \in DOMAIN results /\ results[j].id = r
    OBVIOUS
  <2>2. j = i
    BY <2>1 DEF OneHolder
  <2>3. HasResult(r)
    BY DEF HasResult
  <2>4. QED
    BY <2>2, <2>3 DEF OutcomeOf
<1>2. ASSUME NEW r, HasResult(r)
      PROVE  OutcomeOf(r) # "none"
  <2>1. PICK i \in DOMAIN results : results[i].id = r
    BY <1>2 DEF HasResult
  <2>2. OutcomeOf(r) \in {"sent", "failed"}
    BY <1>1, <2>1, ResultsType
  <2>3. QED
    BY <2>2
<1>3. \A r : ~HasResult(r) => OutcomeOf(r) = "none"
  BY DEF OutcomeOf
<1>4. QED
  BY <1>1, <1>2, <1>3

\* A step that neither sends nor reports changes nothing the contract sees, the
\* table and the phase apart.
LEMMA ContractSame ==
  ASSUME UNCHANGED <<wpc, job, results, mails>>
  PROVE  UNCHANGED <<AttemptedSet, DeliveredSet, Told>>
BY DEF AttemptedSet, DeliveredSet, Told, Attempted, OutcomeOf, HasResult

\* A send is an attempt of the contract.
LEMMA ContractAttempt ==
  ASSUME SendInv, OutcomeInv, NEW w \in Workers, WorkerSends(w),
         NEW r \in Ids, r = job[w]
  PROVE  Contract!Attempt(r)
<1> USE DEF SendInv, OutcomeInv
<1>1. phase = "running" /\ UNCHANGED <<phase, rcpt>>
  <2>1. Worker(w)
    BY DEF Worker
  <2>2. QED
    BY <2>1, WorkerRuns
<1>2. /\ wpc[w] = "reserved" /\ UNCHANGED <<job, results>>
      /\ mails' = mails \/ mails' = [mails EXCEPT ![r] = @ + 1]
      /\ wpc'[w] \in {"sent", "failed"} /\ \A v \in Workers \ {w} : wpc'[v] = wpc[v]
  BY DEF WorkerSends, TypeOK
<1>3. r \in Ids /\ r # NoJob /\ r \in Held
  BY <1>2 DEF JobInv, TypeOK, Held
<1>4. ~Attempted(r)
  BY <1>2, <1>3 DEF Attempted, OneHolder
<1>5. rcpt[r] \notin {"sent", "failed"}
  <2>1. r \in fed
    BY <1>3 DEF OneHolder
  <2>2. QED
    BY <1>1, <2>1 DEF TableInv
<1>6. \A q : HasResult(q)' <=> HasResult(q)
  BY <1>2 DEF HasResult
<1>7. AttemptedSet' = AttemptedSet \cup {r}
  <2>1. \A q \in Ids : Attempted(q)' <=> Attempted(q) \/ q = r
    BY <1>2, <1>6 DEF Attempted
  <2>2. QED
    BY <1>3, <2>1 DEF AttemptedSet
<1>8. DeliveredSet' \in {DeliveredSet, DeliveredSet \cup {r}}
  <2>1. CASE mails' = mails
    BY <2>1 DEF DeliveredSet
  <2>2. CASE mails' = [mails EXCEPT ![r] = @ + 1]
    <3>1. mails'[r] > 0 /\ \A q \in Ids \ {r} : mails'[q] = mails[q]
      BY <1>3, <2>2 DEF TypeOK
    <3>2. DeliveredSet' = DeliveredSet \cup {r}
      BY <1>3, <3>1 DEF DeliveredSet
    <3>3. QED
      BY <3>2
  <2>3. QED
    BY <1>2, <2>1, <2>2
<1>9. Told' = Told
  BY <1>2 DEF Told, OutcomeOf, HasResult
<1>10. r \notin AttemptedSet
  BY <1>4 DEF AttemptedSet
<1>11. QED
  BY <1>1, <1>5, <1>7, <1>8, <1>9, <1>10 DEF Contract!Attempt, Contract!Outcomes,
     AttemptedSet, DeliveredSet, Told

\* The outcome found for an id that occurs once is that of its occurrence.
LEMMA OneOutcome ==
  ASSUME NEW res, NEW i \in DOMAIN res,
         \A j, k \in DOMAIN res : res[j].id = res[k].id => j = k
  PROVE  res[CHOOSE k \in DOMAIN res : res[k].id = res[i].id].status = res[i].status
<1> DEFINE j == CHOOSE k \in DOMAIN res : res[k].id = res[i].id
<1>1. j \in DOMAIN res /\ res[j].id = res[i].id
  OBVIOUS
<1>2. j = i
  BY <1>1
<1>3. QED
  BY <1>2

\* Appending to the results is a report of the contract.
LEMMA ContractReport ==
  ASSUME SendInv, OutcomeInv, NEW w \in Workers, WorkerReports(w),
         NEW r \in Ids, r = job[w], NEW outcome, outcome = wpc[w]
  PROVE  Contract!Report(r, outcome)
<1> USE DEF SendInv, OutcomeInv
<1>1. /\ phase = "running" /\ UNCHANGED <<phase, rcpt>>
      /\ \A v \in Workers \ {w} : wpc'[v] = wpc[v] /\ job'[v] = job[v]
  <2>1. Worker(w)
    BY DEF Worker
  <2>2. QED
    BY <2>1, WorkerRuns
<1>2. /\ outcome \in {"sent", "failed"}
      /\ DOMAIN results' = DOMAIN results \cup {Len(results) + 1}
      /\ \A i \in DOMAIN results : results'[i] = results[i] /\ i # Len(results) + 1
      /\ results'[Len(results) + 1].id = r
      /\ results'[Len(results) + 1].status = outcome
      /\ UNCHANGED mails
  BY ReportAppends
<1>3. wpc'[w] = "idle"
  BY DEF WorkerReports, TypeOK
<1>4. r \in AttemptedSet /\ OutcomeOf(r) = "none"
  BY <1>2, ToldOutcome DEF AttemptedSet, Attempted, OneHolder
<1>5. outcome = "sent" => r \in DeliveredSet
  BY <1>2 DEF ReportInv, DeliveredSet
<1>6. \A i, j \in DOMAIN results' : results'[i].id = results'[j].id => i = j
  <2>1. OneHolder'
    BY HolderReports
  <2>2. QED
    BY <2>1 DEF OneHolder
<1>7. \A q : HasResult(q)' <=> HasResult(q) \/ q = r
  BY <1>2 DEF HasResult
<1>8. OutcomeOf(r)' = outcome
  <2>1. Len(results) + 1 \in DOMAIN results'
    BY <1>2
  <2>2. results'[CHOOSE k \in DOMAIN results' : results'[k].id = r].status = outcome
    BY <1>2, <1>6, <2>1, OneOutcome
  <2>3. QED
    BY <1>7, <2>2 DEF OutcomeOf
<1>9. ASSUME NEW q, q # r
      PROVE  OutcomeOf(q)' = OutcomeOf(q)
  <2>1. CASE HasResult(q)
    <3>1. PICK i \in DOMAIN results : results[i].id = q
      BY <2>1 DEF HasResult
    <3>2. i \in DOMAIN results' /\ results'[i] = results[i]
      BY <1>2
    <3>3. results'[CHOOSE k \in DOMAIN results' : results'[k].id = q].status = results[i].status
      BY <1>6, <3>1, <3>2, OneOutcome
    <3>4. OutcomeOf(q) = results[i].status
      BY <3>1, ToldOutcome
    <3>5. QED
      BY <1>7, <2>1, <3>3, <3>4 DEF OutcomeOf
  <2>2. CASE ~HasResult(q)
    BY <1>7, <1>9, <2>2 DEF OutcomeOf
  <2>3. QED
    BY <2>1, <2>2
<1>10. Told' = [Told EXCEPT ![r] = outcome]
  BY <1>8, <1>9 DEF Told
<1>11. AttemptedSet' = AttemptedSet
  <2>1. \A q \in Ids : Attempted(q)' <=> Attempted(q)
    BY <1>1, <1>2, <1>3, <1>7 DEF Attempted
  <2>2. QED
    BY <2>1 DEF AttemptedSet
<1>12. DeliveredSet' = DeliveredSet
  BY <1>2 DEF DeliveredSet
<1>13. QED
  BY <1>1, <1>2, <1>4, <1>5, <1>10, <1>11, <1>12 DEF Contract!Report,
     AttemptedSet, DeliveredSet, Told

\* The runner joins when every attempt has its result.
LEMMA ContractClose ==
  ASSUME SendInv, OutcomeInv, RunnerJoins
  PROVE  Contract!Close
<1> USE DEF SendInv, OutcomeInv
<1>1. /\ phase = "running" /\ phase' = "saving" /\ WorkersDone
      /\ UNCHANGED <<rcpt, wpc, job, results, mails>>
  BY DEF RunnerJoins, dbVars, workerVars, historyVars, sendHistory
<1>2. UNCHANGED <<AttemptedSet, DeliveredSet, Told>>
  BY <1>1, ContractSame
<1>3. \A r \in AttemptedSet : Told[r] # "none"
  BY <1>1, ToldOutcome DEF AttemptedSet, Attempted, WorkersDone, Told
<1>4. QED
  BY <1>1, <1>2, <1>3 DEF Contract!Close, AttemptedSet, DeliveredSet, Told

\* A transaction of saveResults records outcomes as they were told.
LEMMA ContractRecord ==
  ASSUME SendInv, OutcomeInv, RunnerSaves
  PROVE  Contract!Record
<1> USE DEF SendInv, OutcomeInv
<1>1. /\ phase = "saving" /\ phase' = "saving"
      /\ UNCHANGED <<wpc, job, results, mails>>
      /\ rcpt' = [r \in Ids |-> rcpt'[r]]
  BY DEF RunnerSaves, workerVars, sendHistory
<1>2. UNCHANGED <<AttemptedSet, DeliveredSet, Told>>
  BY <1>1, ContractSame
<1> DEFINE S == {r \in Ids : rcpt'[r] # rcpt[r]}
<1>3. ASSUME NEW r \in S
      PROVE  r \in AttemptedSet /\ rcpt[r] # "absent" /\ Told[r] = rcpt'[r]
  <2>1. PICK i \in DOMAIN results : results[i].id = r /\ results[i].status = rcpt'[r]
    BY SavedOutcome
  <2>2. rcpt[r] # "absent"
    BY SavedOutcome
  <2>3. HasResult(r) /\ OutcomeOf(r) = rcpt'[r]
    BY <2>1, ToldOutcome DEF HasResult
  <2>4. QED
    BY <2>2, <2>3 DEF AttemptedSet, Attempted, Told
<1>4. rcpt' = [r \in Ids |-> IF r \in S THEN Told[r] ELSE rcpt[r]]
  BY <1>1, <1>3
<1>5. S \in SUBSET {r \in AttemptedSet : rcpt[r] # "absent"}
  BY <1>3
<1> HIDE DEF S
<1>6. QED
  BY <1>1, <1>2, <1>4, <1>5 DEF Contract!Record, AttemptedSet, DeliveredSet, Told

\* Uploads and deletions are edits: a new row has an id that was never given, so
\* nobody attempted it.
LEMMA ContractEdit ==
  ASSUME SendInv, OutcomeInv, NEW c \in Clients,
         UploadRows(c) \/ DeleteRow(c) \/ DeleteAllRows(c)
  PROVE  Contract!Edit
<1> USE DEF SendInv, OutcomeInv
<1>1. UNCHANGED <<wpc, job, results, mails, phase>>
  BY DEF UploadRows, DeleteRow, DeleteAllRows, workerVars, finishVars, historyVars, sendHistory
<1>2. UNCHANGED <<AttemptedSet, DeliveredSet, Told>>
  BY <1>1, ContractSame
<1>3. rcpt' \in [Ids -> {"absent", "pending", "sent", "failed"}]
  BY TypeClient DEF Continue, TypeOK
<1>4. ASSUME NEW r \in Ids, rcpt'[r] # rcpt[r]
      PROVE  \/ rcpt'[r] = "absent"
             \/ rcpt[r] = "absent" /\ rcpt'[r] = "pending" /\ r \notin AttemptedSet
  <2>1. CASE DeleteRow(c) \/ DeleteAllRows(c)
    BY <1>4, <2>1 DEF DeleteRow, DeleteAllRows, TypeOK
  <2>2. CASE UploadRows(c)
    <3>1. rcpt'[r] = "pending" /\ r >= nextId
      BY <1>4, <2>2, SizesAssumption DEF UploadRows, TypeOK, Ids
    <3>2. r \notin fed
      BY <3>1, SizesAssumption DEF PagingInv, TypeOK, Ids
    <3>3. r # NoJob
      BY SizesAssumption DEF Ids, NoJob
    <3>4. ~Attempted(r)
      BY <3>2, <3>3 DEF Attempted, OneHolder, HasResult, Held
    <3>5. QED
      BY <3>1, <3>4 DEF PagingInv, AttemptedSet
  <2>3. QED
    BY <2>1, <2>2
<1>5. QED
  BY <1>1, <1>2, <1>3, <1>4 DEF Contract!Edit, Contract!Outcomes, AttemptedSet,
     DeliveredSet, Told

\* Every step of the run is one of the contract, or a stutter.
LEMMA ContractStep ==
  ASSUME SendInv, OutcomeInv, [Next]_vars
  PROVE  [Contract!Next]_(Contract!contractVars)
<1> USE DEF Contract!Next, dispatcherVars, workerVars, finishVars
<1>1. CASE UNCHANGED <<wpc, job, results, mails, rcpt, phase>>
  BY <1>1, ContractSame DEF Contract!contractVars, AttemptedSet, DeliveredSet, Told
<1>2. CASE Dispatcher
  BY <1>1, <1>2, DispatcherRuns DEF OutcomeInv
<1>3. ASSUME NEW w \in Workers, Worker(w)
      PROVE  [Contract!Next]_(Contract!contractVars)
  <2>1. UNCHANGED <<rcpt, phase>> /\ \A v \in Workers \ {w} : wpc'[v] = wpc[v] /\ job'[v] = job[v]
    BY <1>3, WorkerRuns DEF SendInv, OutcomeInv
  <2>2. CASE WorkerSends(w)
    <3>1. PICK r \in Ids : r = job[w]
      BY <2>2 DEF WorkerSends, SendInv, JobInv, TypeOK
    <3>2. Contract!Attempt(r)
      BY <2>2, <3>1, ContractAttempt
    <3>3. QED
      BY <3>2
  <2>3. CASE WorkerReports(w)
    <3>1. PICK r \in Ids, outcome \in Contract!Outcomes : r = job[w] /\ outcome = wpc[w]
      BY <2>3, ReportAppends DEF SendInv, Contract!Outcomes
    <3>2. Contract!Report(r, outcome)
      BY <2>3, <3>1, ContractReport
    <3>3. QED
      BY <3>2
  <2>4. CASE UNCHANGED <<results, mails>> /\ wpc[w] \notin {"sent", "failed"}
             /\ wpc'[w] \notin {"sent", "failed"}
    <3>1. \A q : Attempted(q)' <=> Attempted(q)
      BY <2>1, <2>4 DEF Attempted, HasResult
    <3>2. UNCHANGED <<AttemptedSet, DeliveredSet, Told>>
      BY <2>4, <3>1 DEF AttemptedSet, DeliveredSet, Told, OutcomeOf, HasResult
    <3>3. QED
      BY <2>1, <3>2 DEF Contract!contractVars, AttemptedSet, DeliveredSet, Told
  <2>5. CASE WorkerTakes(w) \/ WorkerExits(w) \/ WorkerGate(w) \/ WorkerWakes(w)
             \/ WorkerReserves(w) \/ WorkerDrops(w)
    <3>1. UNCHANGED <<results, mails>> /\ wpc[w] \notin {"sent", "failed"}
      BY <2>5 DEF WorkerTakes, WorkerExits, WorkerGate, WorkerWakes, WorkerReserves,
         WorkerDrops, SelectsOnCtx, historyVars, sendHistory
    <3>2. wpc'[w] \notin {"sent", "failed"}
      BY <2>5 DEF WorkerTakes, WorkerExits, WorkerGate, WorkerWakes, AfterWake, WorkerReserves,
         WorkerDrops, SendInv, TypeOK
    <3>3. QED
      BY <2>4, <3>1, <3>2
  <2>6. QED
    BY <1>3, <2>2, <2>3, <2>5 DEF Worker
<1>4. CASE Runner
  <2>1. CASE RunnerJoins
    BY <2>1, ContractClose
  <2>2. CASE RunnerSaves
    BY <2>2, ContractRecord
  <2>3. CASE RunnerSaved \/ RunnerJudges \/ RunnerRecords \/ RunnerLeaves
    <3>1. UNCHANGED <<wpc, job, results, mails, rcpt>>
      BY <1>4, <2>3, RunnerLeavesPipeline DEF RunnerSaved, RunnerJudges, RunnerRecords,
         RunnerLeaves, dbVars
    <3>2. UNCHANGED <<AttemptedSet, DeliveredSet, Told>>
      BY <3>1, ContractSame
    <3>3. (phase = "running")' <=> phase = "running"
      BY <2>3 DEF RunnerSaved, RunnerJudges, RunnerRecords, RunnerLeaves
    <3>4. QED
      BY <3>1, <3>2, <3>3 DEF Contract!contractVars, AttemptedSet, DeliveredSet, Told
  <2>4. QED
    BY <1>4, <2>1, <2>2, <2>3 DEF Runner
<1>5. ASSUME NEW c \in Clients, Begin(c) \/ Continue(c)
      PROVE  [Contract!Next]_(Contract!contractVars)
  <2>1. CASE UploadRows(c) \/ DeleteRow(c) \/ DeleteAllRows(c)
    BY <2>1, ContractEdit
  <2>2. CASE UNCHANGED rcpt
    BY <1>1, <1>5, <2>2, ClientLeavesPipeline
  <2>3. QED
    BY <1>5, <2>1, <2>2 DEF Begin, Continue, PauseRunner, PauseRow, ResumeRunner,
       ResumeSignal, ResumeRow, WriteStatus, CancelRunner, CancelCtx, SetRate,
       UploadRefused, SaveRow, dbVars
<1>6. CASE UNCHANGED vars
  BY <1>1, <1>6 DEF vars, dbVars, historyVars, sendHistory
<1>7. QED
  BY <1>2, <1>3, <1>4, <1>5, <1>6 DEF Next, Stop

\* The pipeline implements the contract: each recipient is attempted at most once
\* and never after it has an outcome, outcomes are reported as they happened, and
\* the table learns them only when no attempt can follow.
THEOREM PipelineKeepsContract == Spec => KeepsContract
<1>1. Init => Contract!Init
  BY DEF Init, Contract!Init, Contract!Outcomes, Attempted, HasResult, OutcomeOf
<1>2. RunInv /\ [Next]_vars => [Contract!Next]_(Contract!contractVars)
  BY ContractStep DEF RunInv
<1>3. QED
  BY <1>1, <1>2, RunInvariant, PTL DEF Spec, KeepsContract, Contract!Spec

=============================================================================
