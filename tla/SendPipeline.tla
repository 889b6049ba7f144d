---------------------------- MODULE SendPipeline ----------------------------
(***************************************************************************)
(* One sending run of one campaign: sender/service.go runCampaign with the *)
(* dispatcher and the workers of sender/worker.go, the runner that Pause,  *)
(* Resume and Cancel act on, and the recipient requests the HTTP server    *)
(* accepts meanwhile.  The run has just been launched by Start.            *)
(*                                                                         *)
(* Every step is one atomic access of the program: a channel operation, a  *)
(* critical section, or an SQL statement.  Message contents, attachments,  *)
(* logging and the progress broadcasts are left out; so are the duration   *)
(* of the limiter's waits and the SMTP connection pool.  Recipient ids are *)
(* the table's auto-increment keys.  loadBatch has no ORDER BY; both       *)
(* stores return its rows by primary key, and the model takes that order.  *)
(***************************************************************************)
EXTENDS Integers, Sequences, FiniteSets

CONSTANTS
  Workers,      \* the worker goroutines (SenderConfig.WorkerCount of them)
  Clients,      \* HTTP requests that may be in progress at once
  Rows,         \* recipients in the table when the run starts: 1..Rows
  MaxId,        \* bound: the last id that uploads may reach
  BatchSize,    \* SenderConfig.BatchSize, the dispatcher's page
  SaveBatch,    \* recipients per transaction of saveResults (100)
  RateLimit,    \* the campaign's rate limit, the limiter's burst
  Rates,        \* the rates that SetRate requests ask for
  Ops,          \* the kinds of request the clients make
  MaxRequests,  \* bound: requests made in a behaviour
  MaxFaults     \* bound: SQL statements that fail in a behaviour

ASSUME WorkersAssumption == IsFiniteSet(Workers) /\ Workers # {}
ASSUME SizesAssumption ==
  /\ Rows \in Nat \ {0}
  /\ MaxId \in Nat /\ MaxId >= Rows
  /\ BatchSize \in Nat \ {0}
  /\ SaveBatch \in Nat \ {0}
ASSUME RateAssumption == RateLimit \in Int /\ Rates \subseteq Nat \ {0}
ASSUME BoundsAssumption == MaxRequests \in Nat /\ MaxFaults \in Nat
ASSUME OpsAssumption ==
  Ops \subseteq {"pause", "resume", "cancel", "rate", "upload", "delete", "deleteAll"}

VARIABLES
  \* the database
  rcpt,         \* recipients.status by id; "absent" where there is no row
  nextId,       \* the next id the table will give
  row,          \* the campaign's row: status and the three counters
  \* the dispatcher
  dpc, offset, batch, size,
  \* the jobs channel, its receivers, and what each of them holds
  jobs, wpc, job,
  \* CampaignRunner
  paused, pauseCh, ctxDone, runnerStatus, burst, results,
  \* runCampaign after the dispatcher: phase, saved results, final status
  phase, saved, verdict,
  \* HTTP requests: where each one is, the row it read, how many were made
  rpc, snap, asked,
  \* history, read by no action: recipients given to the channel, messages
  \* the mail server accepted, sends made while paused and after the
  \* cancellation, failed statements
  fed, mails, pausedSends, cancelledSends, faults

dbVars         == <<rcpt, nextId, row>>
dispatcherVars == <<dpc, offset, batch, size>>
workerVars     == <<jobs, wpc, job>>
gateVars       == <<paused, pauseCh, ctxDone, runnerStatus, burst>>
finishVars     == <<phase, saved, verdict>>
requestVars    == <<rpc, snap, asked>>
sendHistory    == <<mails, pausedSends, cancelledSends>>
historyVars    == <<fed, sendHistory, faults>>
vars == <<dbVars, dispatcherVars, workerVars, gateVars, results, finishVars,
          requestVars, historyVars>>

-----------------------------------------------------------------------------
(* A definition named Mut... is a faulty form of the one after it, which   *)
(* the properties must reject; nothing refers to it.                       *)

Ids == 1..MaxId
NoJob == 0
NoRow == [status |-> "none", total |-> 0, sent |-> 0, failed |-> 0]

Pending == {r \in Ids : rcpt[r] = "pending"}
RowsWith(s) == {r \in Ids : rcpt[r] = s}
Min2(a, b) == IF a <= b THEN a ELSE b
Max2(a, b) == IF a >= b THEN a ELSE b

\* Position of a pending row in the result of the unpaged query.
Rank(r) == Cardinality({q \in Pending : q <= r})

\* SELECT ... WHERE status = 'pending' LIMIT BatchSize OFFSET offset, and the
\* number of rows it returns.
MutPageOverlaps == {r \in Pending : Rank(r) >= offset /\ Rank(r) <= offset + BatchSize}
Page == {r \in Pending : Rank(r) > offset /\ Rank(r) <= offset + BatchSize}
PageSize == Min2(BatchSize, Max2(0, Cardinality(Pending) - offset))

QueueCap == 2 * Cardinality(Workers)

\* Results of a given status, and the recipients that have a result.
Reported(s) == {i \in DOMAIN results : results[i].status = s}
HasResult(r) == \E i \in DOMAIN results : results[i].id = r

-----------------------------------------------------------------------------
(* The run starts with at least one pending recipient.  Others may already *)
(* have an outcome from an earlier run, and are counted in the row then.   *)

Init ==
  /\ rcpt \in {f \in [Ids -> {"absent", "pending", "sent", "failed"}] :
                 \A r \in Ids : f[r] = "absent" <=> r > Rows}
  /\ Pending # {}
  /\ nextId = Rows + 1
  /\ row = [status |-> "sending", total |-> Rows,
            sent |-> Cardinality(RowsWith("sent")),
            failed |-> Cardinality(RowsWith("failed"))]
  /\ dpc = "check" /\ offset = 0 /\ batch = {} /\ size = 0
  /\ jobs = <<>>
  /\ wpc = [w \in Workers |-> "idle"]
  /\ job = [w \in Workers |-> NoJob]
  /\ paused = FALSE /\ pauseCh = FALSE /\ ctxDone = FALSE
  /\ runnerStatus = "sending"
  /\ burst = RateLimit
  /\ results = <<>>
  /\ phase = "running" /\ saved = 0 /\ verdict = "none"
  /\ rpc = [c \in Clients |-> "idle"]
  /\ snap = [c \in Clients |-> NoRow]
  /\ asked = 0
  /\ fed = {} /\ mails = [r \in Ids |-> 0]
  /\ pausedSends = 0 /\ cancelledSends = 0 /\ faults = 0

-----------------------------------------------------------------------------
(* Dispatcher.Run *)

\* select { case <-ctx.Done(): return; default: }
DispatcherCheck ==
  /\ dpc = "check"
  /\ dpc' = IF ctxDone THEN "closed" ELSE "load"
  /\ UNCHANGED <<offset, batch, size, dbVars, workerVars, gateVars, results,
                 finishVars, requestVars, historyVars>>

\* An empty page ends the dispatch and closes the channel.
DispatcherLoad ==
  /\ dpc = "load"
  /\ batch' = Page
  /\ size' = PageSize
  /\ dpc' = IF size' = 0 THEN "closed" ELSE "feed"
  /\ UNCHANGED <<offset, dbVars, workerVars, gateVars, results, finishVars,
                 requestVars, historyVars>>

\* loadBatch returned an error: logged, and the channel is closed.
DispatcherLoadFails ==
  /\ dpc = "load" /\ faults < MaxFaults
  /\ faults' = faults + 1
  /\ dpc' = "closed"
  /\ UNCHANGED <<offset, batch, size, dbVars, workerVars, gateVars, results,
                 finishVars, requestVars, fed, sendHistory>>

\* case d.jobs <- job: blocks while the channel is full.
DispatcherFeed ==
  /\ dpc = "feed" /\ Len(jobs) < QueueCap
  /\ \E r \in batch :
       /\ \A q \in batch : r <= q
       /\ jobs' = Append(jobs, r)
       /\ batch' = batch \ {r}
       /\ fed' = fed \cup {r}
  /\ UNCHANGED <<dpc, offset, size, dbVars, wpc, job, gateVars, results,
                 finishVars, requestVars, sendHistory, faults>>

\* case <-ctx.Done(): the rest of the page is given up.
DispatcherGivesUp ==
  /\ dpc = "feed" /\ batch # {} /\ ctxDone
  /\ dpc' = "closed" /\ batch' = {}
  /\ UNCHANGED <<offset, size, dbVars, workerVars, gateVars, results,
                 finishVars, requestVars, historyVars>>

\* The page is fed; a short page was the last one.
MutOffsetKept == offset
NextOffset == offset + size
MutFullPageIsLast == size <= BatchSize
LastPage == size < BatchSize

DispatcherNextPage ==
  /\ dpc = "feed" /\ batch = {}
  /\ offset' = NextOffset
  /\ size' = 0
  /\ dpc' = IF LastPage THEN "closed" ELSE "check"
  /\ UNCHANGED <<batch, dbVars, workerVars, gateVars, results, finishVars,
                 requestVars, historyVars>>

Dispatcher ==
  \/ DispatcherCheck \/ DispatcherLoad \/ DispatcherLoadFails
  \/ DispatcherFeed \/ DispatcherGivesUp \/ DispatcherNextPage

-----------------------------------------------------------------------------
(* Worker.Start and processJob.  An idle worker selects among the channel  *)
(* and ctx.Done, either of them when both are ready.                       *)

WorkerTakes(w) ==
  /\ wpc[w] = "idle" /\ jobs # <<>>
  /\ job' = [job EXCEPT ![w] = Head(jobs)]
  /\ jobs' = Tail(jobs)
  /\ wpc' = [wpc EXCEPT ![w] = "gate"]
  /\ UNCHANGED <<dbVars, dispatcherVars, gateVars, results, finishVars,
                 requestVars, historyVars>>

MutExitOnCancelOnly == ctxDone
MayExit == ctxDone \/ (dpc = "closed" /\ jobs = <<>>)

WorkerExits(w) ==
  /\ wpc[w] = "idle" /\ MayExit
  /\ wpc' = [wpc EXCEPT ![w] = "gone"]
  /\ UNCHANGED <<dbVars, dispatcherVars, jobs, job, gateVars, results,
                 finishVars, requestVars, historyVars>>

\* for w.paused.Load()
WorkerGate(w) ==
  /\ wpc[w] = "gate"
  /\ wpc' = [wpc EXCEPT ![w] = IF paused THEN "waiting" ELSE "limit"]
  /\ UNCHANGED <<dbVars, dispatcherVars, jobs, job, gateVars, results,
                 finishVars, requestVars, historyVars>>

\* The pause loop's select: the token of one Resume, or 500 ms.  The timer is
\* fresh each time, so it fires only when the other two cases are not ready.
MutFlagNotReread == "limit"
AfterWake == "gate"

WorkerWakes(w) ==
  /\ wpc[w] = "waiting"
  /\ pauseCh \/ ~ctxDone
  /\ pauseCh' = FALSE
  /\ wpc' = [wpc EXCEPT ![w] = AfterWake]
  /\ UNCHANGED <<dbVars, dispatcherVars, jobs, job, paused, ctxDone,
                 runnerStatus, burst, results, finishVars, requestVars,
                 historyVars>>

\* limiter.Wait: refused at once after the cancellation or when one token is
\* more than the burst; otherwise the worker holds a reservation.
MutLimiterIgnoresCtx == burst >= 1
LimiterAdmits == ~ctxDone /\ burst >= 1

WorkerReserves(w) ==
  /\ wpc[w] = "limit" /\ LimiterAdmits
  /\ wpc' = [wpc EXCEPT ![w] = "reserved"]
  /\ UNCHANGED <<dbVars, dispatcherVars, jobs, job, gateVars, results,
                 finishVars, requestVars, historyVars>>

\* The two returns of processJob that leave no result behind.
MutPausedIgnoresCtx == {"reserved"}
SelectsOnCtx == {"waiting", "reserved"}

WorkerDrops(w) ==
  /\ \/ wpc[w] \in SelectsOnCtx /\ ctxDone
     \/ wpc[w] = "limit" /\ ~LimiterAdmits
  /\ wpc' = [wpc EXCEPT ![w] = "idle"]
  /\ job' = [job EXCEPT ![w] = NoJob]
  /\ UNCHANGED <<dbVars, dispatcherVars, jobs, gateVars, results, finishVars,
                 requestVars, historyVars>>

\* The reservation's time came: the message is built and mailer.Send called.
\* The server accepts it and says so, or refuses it (a message that could not
\* be built is the same to the run), or accepts it and the reply is lost.
WorkerSends(w) ==
  /\ wpc[w] = "reserved"
  /\ \/ /\ mails' = [mails EXCEPT ![job[w]] = @ + 1]
        /\ \/ wpc' = [wpc EXCEPT ![w] = "sent"]
           \/ wpc' = [wpc EXCEPT ![w] = "failed"]
     \/ /\ mails' = mails
        /\ wpc' = [wpc EXCEPT ![w] = "failed"]
  /\ pausedSends' = IF paused THEN pausedSends + 1 ELSE pausedSends
  /\ cancelledSends' = IF ctxDone THEN cancelledSends + 1 ELSE cancelledSends
  /\ UNCHANGED <<dbVars, dispatcherVars, jobs, job, gateVars, results,
                 finishVars, requestVars, fed, faults>>

\* progress.AddResult
WorkerReports(w) ==
  /\ wpc[w] \in {"sent", "failed"}
  /\ results' = Append(results, [id |-> job[w], status |-> wpc[w]])
  /\ wpc' = [wpc EXCEPT ![w] = "idle"]
  /\ job' = [job EXCEPT ![w] = NoJob]
  /\ UNCHANGED <<dbVars, dispatcherVars, jobs, gateVars, finishVars,
                 requestVars, historyVars>>

Worker(w) ==
  \/ WorkerTakes(w) \/ WorkerExits(w) \/ WorkerGate(w) \/ WorkerWakes(w)
  \/ WorkerReserves(w) \/ WorkerDrops(w) \/ WorkerSends(w) \/ WorkerReports(w)

-----------------------------------------------------------------------------
(* runCampaign once dispatcher.Run has returned *)

\* wg.Wait, then the snapshot that saveResults works on.
MutNoJoin == TRUE
WorkersDone == \A w \in Workers : wpc[w] = "gone"

RunnerJoins ==
  /\ phase = "running" /\ dpc = "closed" /\ WorkersDone
  /\ phase' = "saving"
  /\ UNCHANGED <<saved, verdict, dbVars, dispatcherVars, workerVars, gateVars,
                 results, requestVars, historyVars>>

\* One transaction of saveResults.  A failing UPDATE, or a failing commit, is
\* logged and its recipients keep their status; a deleted recipient's UPDATE
\* touches no row.
RunnerSaves ==
  /\ phase = "saving" /\ saved < Len(results)
  /\ LET upTo == Min2(saved + SaveBatch, Len(results))
     IN  \E bad \in SUBSET (saved + 1 .. upTo) :
           /\ bad # {} => faults < MaxFaults
           /\ faults' = IF bad = {} THEN faults ELSE faults + 1
           /\ rcpt' = [r \in Ids |->
                LET hits == {i \in (saved + 1 .. upTo) \ bad : results[i].id = r}
                IN  IF rcpt[r] = "absent" \/ hits = {}
                    THEN rcpt[r]
                    ELSE results[CHOOSE i \in hits : \A j \in hits : j <= i].status]
           /\ saved' = upTo
  /\ UNCHANGED <<phase, verdict, nextId, row, dispatcherVars, workerVars,
                 gateVars, results, requestVars, fed, sendHistory>>

MutLastBatchSkipped == saved + SaveBatch > Len(results)
AllSaved == saved >= Len(results)

RunnerSaved ==
  /\ phase = "saving" /\ AllSaved
  /\ phase' = "judging"
  /\ UNCHANGED <<saved, verdict, dbVars, dispatcherVars, workerVars, gateVars,
                 results, requestVars, historyVars>>

MutRunnerStatus == runnerStatus
FinalStatus == IF ctxDone /\ runnerStatus = "cancelled"
               THEN "cancelled" ELSE "completed"

RunnerJudges ==
  /\ phase = "judging"
  /\ verdict' = FinalStatus
  /\ phase' = "recording"
  /\ UNCHANGED <<saved, dbVars, dispatcherVars, workerVars, gateVars, results,
                 requestVars, historyVars>>

\* The one UPDATE of the campaign's status and counters; its error is ignored.
MutCountersReplaced ==
  [row EXCEPT !.status = verdict,
              !.sent   = Cardinality(Reported("sent")),
              !.failed = Cardinality(Reported("failed"))]
FinalRow ==
  [row EXCEPT !.status = verdict,
              !.sent   = @ + Cardinality(Reported("sent")),
              !.failed = @ + Cardinality(Reported("failed"))]

RunnerRecords ==
  /\ phase = "recording"
  /\ \/ /\ row' = FinalRow
        /\ faults' = faults
     \/ /\ faults < MaxFaults
        /\ faults' = faults + 1
        /\ row' = row
  /\ phase' = "leaving"
  /\ UNCHANGED <<saved, verdict, rcpt, nextId, dispatcherVars, workerVars,
                 gateVars, results, requestVars, fed, sendHistory>>

\* defer delete(s.runners, campaignID)
RunnerLeaves ==
  /\ phase = "leaving"
  /\ phase' = "gone"
  /\ UNCHANGED <<saved, verdict, dbVars, dispatcherVars, workerVars, gateVars,
                 results, requestVars, historyVars>>

Runner ==
  \/ RunnerJoins \/ RunnerSaves \/ RunnerSaved \/ RunnerJudges
  \/ RunnerRecords \/ RunnerLeaves

-----------------------------------------------------------------------------
(* Requests.  A request is its steps in order; the clients decide which to *)
(* make and when, and several may be in progress.                          *)

\* Pause, Resume, Cancel and SetRate first look the runner up, and refuse when
\* the campaign has none; the recipient handlers first read the campaign's row.
Begin(c) ==
  /\ rpc[c] = "idle" /\ asked < MaxRequests
  /\ \E op \in Ops :
       /\ op \in {"pause", "resume", "cancel", "rate"} => phase # "gone"
       /\ rpc' = [rpc EXCEPT ![c] = op]
       /\ snap' = IF op \in {"upload", "delete", "deleteAll"}
                  THEN [snap EXCEPT ![c] = row] ELSE snap
  /\ asked' = asked + 1
  /\ UNCHANGED <<dbVars, dispatcherVars, workerVars, gateVars, results,
                 finishVars, historyVars>>

\* The critical section of Pause.
PauseRunner(c) ==
  /\ rpc[c] = "pause"
  /\ paused' = TRUE
  /\ runnerStatus' = "paused"
  /\ pausedSends' = IF paused THEN pausedSends ELSE 0
  /\ rpc' = [rpc EXCEPT ![c] = "pauseRow"]
  /\ UNCHANGED <<pauseCh, ctxDone, burst, snap, asked, dbVars, dispatcherVars,
                 workerVars, results, finishVars, fed, mails, cancelledSends,
                 faults>>

\* The UPDATE that ends Pause and Resume.
WriteStatus(c, at, status) ==
  /\ rpc[c] = at
  /\ row' = [row EXCEPT !.status = status]
  /\ rpc' = [rpc EXCEPT ![c] = "idle"]
  /\ UNCHANGED <<rcpt, nextId, snap, asked, dispatcherVars, workerVars,
                 gateVars, results, finishVars, historyVars>>

PauseRow(c) == WriteStatus(c, "pauseRow", "paused")

\* The critical section of Resume.
ResumeRunner(c) ==
  /\ rpc[c] = "resume"
  /\ paused' = FALSE
  /\ runnerStatus' = "sending"
  /\ rpc' = [rpc EXCEPT ![c] = "resumeSignal"]
  /\ UNCHANGED <<pauseCh, ctxDone, burst, snap, asked, dbVars, dispatcherVars,
                 workerVars, results, finishVars, historyVars>>

\* The non-blocking send on pauseCh.
ResumeSignal(c) ==
  /\ rpc[c] = "resumeSignal"
  /\ pauseCh' = TRUE
  /\ rpc' = [rpc EXCEPT ![c] = "resumeRow"]
  /\ UNCHANGED <<paused, ctxDone, runnerStatus, burst, snap, asked, dbVars,
                 dispatcherVars, workerVars, results, finishVars, historyVars>>

ResumeRow(c) == WriteStatus(c, "resumeRow", "sending")

CancelRunner(c) ==
  /\ rpc[c] = "cancel"
  /\ runnerStatus' = "cancelled"
  /\ rpc' = [rpc EXCEPT ![c] = "cancelCtx"]
  /\ UNCHANGED <<paused, pauseCh, ctxDone, burst, snap, asked, dbVars,
                 dispatcherVars, workerVars, results, finishVars, historyVars>>

\* runner.cancel()
CancelCtx(c) ==
  /\ rpc[c] = "cancelCtx"
  /\ ctxDone' = TRUE
  /\ rpc' = [rpc EXCEPT ![c] = "idle"]
  /\ UNCHANGED <<paused, pauseCh, runnerStatus, burst, snap, asked, dbVars,
                 dispatcherVars, workerVars, results, finishVars, historyVars>>

SetRate(c) ==
  /\ rpc[c] = "rate"
  /\ burst' \in Rates
  /\ rpc' = [rpc EXCEPT ![c] = "idle"]
  /\ UNCHANGED <<paused, pauseCh, ctxDone, runnerStatus, snap, asked, dbVars,
                 dispatcherVars, workerVars, results, finishVars, historyVars>>

\* Upload and Manual: the rows are inserted ...
UploadRows(c) ==
  /\ rpc[c] = "upload"
  /\ \E n \in 1 .. (MaxId + 1 - nextId) :
       /\ rcpt' = [r \in Ids |-> IF r \in nextId .. (nextId + n - 1)
                                 THEN "pending" ELSE rcpt[r]]
       /\ nextId' = nextId + n
       /\ snap' = [snap EXCEPT ![c].total = @ + n]
  /\ rpc' = [rpc EXCEPT ![c] = "save"]
  /\ UNCHANGED <<row, asked, dispatcherVars, workerVars, gateVars, results,
                 finishVars, historyVars>>

\* ... or the request names no valid recipient and is refused.
UploadRefused(c) ==
  /\ rpc[c] = "upload"
  /\ snap' = [snap EXCEPT ![c] = NoRow]
  /\ rpc' = [rpc EXCEPT ![c] = "idle"]
  /\ UNCHANGED <<asked, dbVars, dispatcherVars, workerVars, gateVars, results,
                 finishVars, historyVars>>

\* Delete: any id of the campaign, whatever the campaign's status; a second
\* deletion of the same id is no error.
DeleteRow(c) ==
  /\ rpc[c] = "delete"
  /\ \E r \in 1 .. (nextId - 1) : rcpt' = [rcpt EXCEPT ![r] = "absent"]
  /\ snap' = [snap EXCEPT ![c].total = Max2(0, @ - 1)]
  /\ rpc' = [rpc EXCEPT ![c] = "save"]
  /\ UNCHANGED <<nextId, row, asked, dispatcherVars, workerVars, gateVars,
                 results, finishVars, historyVars>>

DeleteAllRows(c) ==
  /\ rpc[c] = "deleteAll"
  /\ rcpt' = [r \in Ids |-> "absent"]
  /\ snap' = [snap EXCEPT ![c] =
                [status |-> @.status, total |-> 0, sent |-> 0, failed |-> 0]]
  /\ rpc' = [rpc EXCEPT ![c] = "save"]
  /\ UNCHANGED <<nextId, row, asked, dispatcherVars, workerVars, gateVars,
                 results, finishVars, historyVars>>

\* Upload, Delete and DeleteAll end by saving every column of the row they read.
SaveRow(c) ==
  /\ rpc[c] = "save"
  /\ row' = snap[c]
  /\ snap' = [snap EXCEPT ![c] = NoRow]
  /\ rpc' = [rpc EXCEPT ![c] = "idle"]
  /\ UNCHANGED <<rcpt, nextId, asked, dispatcherVars, workerVars,
                 gateVars, results, finishVars, historyVars>>

Continue(c) ==
  \/ PauseRunner(c) \/ PauseRow(c)
  \/ ResumeRunner(c) \/ ResumeSignal(c) \/ ResumeRow(c)
  \/ CancelRunner(c) \/ CancelCtx(c) \/ SetRate(c)
  \/ UploadRows(c) \/ UploadRefused(c)
  \/ DeleteRow(c) \/ DeleteAllRows(c) \/ SaveRow(c)

-----------------------------------------------------------------------------
\* The run is over and no request is in progress: the only way to stop.
Over == phase = "gone" /\ \A c \in Clients : rpc[c] = "idle"
Stop == Over /\ UNCHANGED vars

Next ==
  \/ Dispatcher
  \/ \E w \in Workers : Worker(w)
  \/ Runner
  \/ \E c \in Clients : Begin(c) \/ Continue(c)
  \/ Stop

Spec == Init /\ [][Next]_vars

\* The goroutines and the handlers that have begun keep going; what the clients
\* ask, and whether they ask at all, is theirs.  For WorkerSends this assumes
\* a mail server that answers or hangs up: the connection has no deadline.
Fairness ==
  /\ WF_vars(Dispatcher)
  /\ \A w \in Workers : WF_vars(Worker(w))
  /\ WF_vars(Runner)
  /\ \A c \in Clients : WF_vars(Continue(c))

FairSpec == Spec /\ Fairness

-----------------------------------------------------------------------------
Statuses == {"draft", "scheduled", "sending", "paused", "completed", "cancelled"}
CampaignRow == [status : Statuses \cup {"none"}, total : Int, sent : Nat, failed : Nat]

WorkerPoints == {"idle", "gate", "waiting", "limit", "reserved", "sent", "failed", "gone"}
RequestPoints == {"idle", "pause", "pauseRow", "resume", "resumeSignal",
                  "resumeRow", "cancel", "cancelCtx", "rate", "upload",
                  "delete", "deleteAll", "save"}

\* Every variable has its type (the state that runCampaign's locals,
\* CampaignRunner, the channel and the database may take).
TypeOK ==
  /\ rcpt \in [Ids -> {"absent", "pending", "sent", "failed"}]
  /\ nextId \in 1 .. (MaxId + 1)
  /\ row \in CampaignRow
  /\ dpc \in {"check", "load", "feed", "closed"}
  /\ offset \in Nat /\ batch \in SUBSET Ids /\ size \in Nat
  /\ jobs \in Seq(Ids)
  /\ wpc \in [Workers -> WorkerPoints]
  /\ job \in [Workers -> Ids \cup {NoJob}]
  /\ paused \in BOOLEAN /\ pauseCh \in BOOLEAN /\ ctxDone \in BOOLEAN
  /\ runnerStatus \in {"sending", "paused", "cancelled"}
  /\ burst \in Int
  /\ results \in Seq([id : Ids, status : {"sent", "failed"}])
  /\ phase \in {"running", "saving", "judging", "recording", "leaving", "gone"}
  /\ saved \in Nat
  /\ verdict \in {"none", "completed", "cancelled"}
  /\ rpc \in [Clients -> RequestPoints]
  /\ snap \in [Clients -> CampaignRow]
  /\ asked \in Nat
  /\ fed \in SUBSET Ids
  /\ mails \in [Ids -> Nat]
  /\ pausedSends \in Nat /\ cancelledSends \in Nat /\ faults \in Nat

\* A recipient is mailed at most once in a run, whatever is uploaded or deleted
\* while the dispatcher pages through the table by offset.
NoDoubleSend == \A r \in Ids : mails[r] <= 1

\* After Pause has stored the flag, and until a Resume, the workers together
\* send no more than one message each: the ones already past the gate.
PauseBound == pausedSends <= Cardinality(Workers)

\* After runner.cancel() the workers together send no more than one message
\* each: the ones whose limiter.Wait had begun.
CancelBound == cancelledSends <= Cardinality(Workers)

\* Once saveResults is through, with no failing statement, a recipient that is
\* still pending has not been mailed, and one marked sent by this run has:
\* starting the campaign again mails nobody twice.
TableTellsTruth ==
  phase \notin {"running", "saving"} /\ faults = 0 =>
    \A r \in Ids :
      /\ rcpt[r] = "pending" => mails[r] = 0 /\ ~HasResult(r)
      /\ rcpt[r] = "sent" /\ r \in fed => mails[r] = 1

\* Nobody has deleted a recipient, or added one.
NoneDeleted == \A r \in 1..Rows : rcpt[r] # "absent"
Unedited == NoneDeleted /\ nextId = Rows + 1

\* After the final UPDATE the campaign's counters are the numbers of recipients
\* with that status, those of earlier runs included, if no statement failed
\* and nobody edited the recipients meanwhile.
CountersMatchTable ==
  phase \in {"leaving", "gone"} /\ faults = 0 /\ Unedited =>
    /\ row.sent = Cardinality(RowsWith("sent"))
    /\ row.failed = Cardinality(RowsWith("failed"))

\* A run that was not cancelled leaves no recipient of its start without an
\* outcome, if no statement failed and no recipient was deleted meanwhile.
RunCoversTable ==
  phase \notin {"running", "saving"} /\ ~ctxDone /\ faults = 0 /\ NoneDeleted =>
    \A r \in 1..Rows : rcpt[r] # "pending"

\* A run whose campaign is not left paused for ever ends: the workers leave the
\* gate, the channel is drained and closed, the results are saved.
RunEnds == <>[](~paused \/ ctxDone) => <>(phase = "gone")

\* A cancelled run ends, even one that is paused and never resumed.
CancelEnds == ctxDone ~> (phase = "gone")

-----------------------------------------------------------------------------
(* What the repository says of a run, and the code does not keep.          *)

\* service.go "Cancel cancels a running campaign": a cancelled run that leaves
\* recipients unsent ends cancelled.
CancelledRunEndsCancelled ==
  phase = "gone" /\ ctxDone /\ Pending # {} => verdict = "cancelled"

\* worker.go "closes the jobs channel when all recipients have been dispatched":
\* a run that was not cancelled has fed every pending recipient.
DispatchesAll ==
  phase # "running" /\ ~ctxDone /\ faults = 0 => Pending \subseteq fed

-----------------------------------------------------------------------------
(* The invariant behind NoDoubleSend, PauseBound and CancelBound.          *)

Attempted(r) ==
  \/ HasResult(r)
  \/ \E w \in Workers : job[w] = r /\ wpc[w] \in {"sent", "failed"}

Held == {job[w] : w \in Workers} \ {NoJob}
Queued == {jobs[i] : i \in DOMAIN jobs}

\* A worker holds a job exactly while processJob runs.
JobInv == \A w \in Workers : job[w] = NoJob <=> wpc[w] \in {"idle", "gone"}

\* A recipient that was given to the channel is in one place of the pipeline at
\* most: one slot of the channel, one worker, or one result.
OneHolder ==
  /\ \A i, j \in DOMAIN jobs : jobs[i] = jobs[j] => i = j
  /\ \A v, w \in Workers : job[v] = job[w] /\ job[v] # NoJob => v = w
  /\ \A i, j \in DOMAIN results : results[i].id = results[j].id => i = j
  /\ \A i \in DOMAIN jobs : jobs[i] \notin Held /\ ~HasResult(jobs[i])
  /\ \A w \in Workers : ~HasResult(job[w])
  /\ Queued \cup Held \subseteq fed
  /\ \A i \in DOMAIN results : results[i].id \in fed

\* Paging by offset never comes back to a row: the pending rows up to one that
\* was loaded never outnumber the rows that were loaded.
PagingInv ==
  /\ batch \cap fed = {}
  /\ \A r \in fed, p \in batch : r < p
  /\ \A r \in fed \cup batch : r < nextId /\ Rank(r) <= offset + size
  /\ dpc \in {"check", "load"} => batch = {} /\ size = 0
  /\ \A r \in Ids : r >= nextId => rcpt[r] = "absent"

\* Only an attempt makes a message, and only one.
MailInv == \A r \in Ids : mails[r] <= (IF Attempted(r) THEN 1 ELSE 0)

\* What is behind PauseBound and CancelBound: a send made while paused (after the
\* cancellation) leaves one worker fewer past the gate (the limiter), and none
\* comes after it.
PastGate == {w \in Workers : wpc[w] \in {"limit", "reserved"}}
PastLimiter == {w \in Workers : wpc[w] = "reserved"}

BoundInv ==
  /\ pausedSends <= Cardinality(Workers)
  /\ paused => pausedSends + Cardinality(PastGate) <= Cardinality(Workers)
  /\ IF ctxDone THEN cancelledSends + Cardinality(PastLimiter) <= Cardinality(Workers)
                ELSE cancelledSends = 0

SendInv == TypeOK /\ JobInv /\ OneHolder /\ PagingInv /\ MailInv /\ BoundInv

-----------------------------------------------------------------------------
(* The invariant behind TableTellsTruth, CountersMatchTable, RunCoversTable *)
(* and the refinement: what the results, the table and the row say of each *)
(* other from the first send to the final UPDATE.                          *)

\* The runner goes on only when the dispatcher and the workers have stopped, and
\* saves every result once.
PhaseInv ==
  /\ phase # "running" => dpc = "closed" /\ WorkersDone
  /\ dpc = "closed" => batch = {}
  /\ saved <= Len(results)
  /\ phase = "running" => saved = 0
  /\ phase \notin {"running", "saving"} => saved = Len(results)

\* "sent" is reported only of a message that the server accepted.
ReportInv ==
  /\ \A w \in Workers : wpc[w] = "sent" => mails[job[w]] > 0
  /\ \A i \in DOMAIN results : results[i].status = "sent" => mails[results[i].id] > 0

\* A recipient that was loaded is pending, or deleted, until the table learns its
\* result; with no failing statement the saved results are in the table.
Learnt(r) == \E i \in DOMAIN results : results[i].id = r /\ results[i].status = rcpt[r]
TableInv ==
  /\ \A r \in fed \cup batch :
       rcpt[r] \in {"pending", "absent"} \/ (phase # "running" /\ Learnt(r))
  /\ faults = 0 =>
       \A i \in 1..saved : rcpt[results[i].id] \in {"absent", results[i].status}

\* While nothing is cancelled a fed recipient stays in the pipeline, and the
\* workers leave an empty channel.
FlowInv ==
  /\ RateLimit >= 1 => burst >= 1
  /\ ~ctxDone /\ RateLimit >= 1 => \A r \in fed : r \in Queued \cup Held \/ HasResult(r)
  /\ ~ctxDone /\ (\E w \in Workers : wpc[w] = "gone") => dpc = "closed" /\ jobs = <<>>

\* A row of the start that the dispatcher has not loaded yet is still ahead of
\* its offset, and the page it works on is a full one.  Uploads come after it.
Undisturbed == ~ctxDone /\ faults = 0 /\ NoneDeleted
AheadInv ==
  /\ nextId > Rows
  /\ Undisturbed =>
       \A r \in 1..Rows : rcpt[r] = "pending" /\ r \notin fed \cup batch =>
         /\ dpc # "closed"
         /\ Rank(r) > offset + size
         /\ dpc = "feed" => size = BatchSize

\* The row counts the outcomes of earlier runs, and after the final UPDATE those
\* of this one, as long as no request saves a row of its own over it.
Counted(s) == IF phase \in {"leaving", "gone"} THEN RowsWith(s) ELSE RowsWith(s) \ fed
CountInv ==
  Unedited =>
    /\ \A c \in Clients : rpc[c] # "save"
    /\ faults = 0 => /\ row.sent = Cardinality(Counted("sent"))
                     /\ row.failed = Cardinality(Counted("failed"))

OutcomeInv == PhaseInv /\ ReportInv /\ TableInv /\ FlowInv /\ AheadInv /\ CountInv
RunInv == SendInv /\ OutcomeInv

-----------------------------------------------------------------------------
(* Refinement: the pipeline does what SendContract promises.               *)

OutcomeOf(r) ==
  IF HasResult(r)
  THEN results[CHOOSE i \in DOMAIN results : results[i].id = r].status
  ELSE "none"

Contract == INSTANCE SendContract WITH
  table     <- rcpt,
  attempted <- {r \in Ids : Attempted(r)},
  delivered <- {r \in Ids : mails[r] > 0},
  told      <- [r \in Ids |-> OutcomeOf(r)],
  open      <- phase = "running"

\* Each recipient is attempted at most once and never after it has an outcome,
\* the outcomes reported are the ones that happened, and the table learns them
\* only when no attempt can follow.
KeepsContract == Contract!Spec
=============================================================================
