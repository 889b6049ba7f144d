----------------------------- MODULE SendControl -----------------------------
(***************************************************************************)
(* The life of one campaign over several sending runs: the requests of     *)
(* sender/service.go and campaign/handler.go that read and write its row,  *)
(* the scheduler, the runners map, and the crash and restart of the        *)
(* server (cmd/server/main.go).                                            *)
(*                                                                         *)
(* A run is seen from its recipients: SendPipeline has its dispatcher,     *)
(* channel and workers.  It loads its recipients in one page.  Of the row  *)
(* only the status and the number of recipients counted as done            *)
(* (sent_count + failed_count) are kept, and a recipient is pending or     *)
(* done; the content checks of Start are taken to pass.  An upload, an     *)
(* addition or a deletion of recipients is seen from the row it saves: Ids *)
(* are recipients there from the first run to the last.  DeleteAll, after  *)
(* which none of them is left, and ids that come or go during a run belong *)
(* to SendPipeline and RecipientList.                                      *)
(*                                                                         *)
(* Any statement may fail, and most of the code goes on as if it had not.  *)
(***************************************************************************)
EXTENDS Integers, FiniteSets

CONSTANTS
  Ids,          \* the campaign's recipients
  Clients,      \* HTTP requests that may be in progress at once
  Scheduler,    \* the scheduler goroutine
  Ops,          \* the kinds of request the clients make
  MaxRequests,  \* bound: requests made in a behaviour
  MaxRuns,      \* bound: runs launched in a behaviour
  MaxCrashes,   \* bound: crashes in a behaviour
  MaxFaults     \* bound: failing statements in a behaviour

ASSUME IdsAssumption == IsFiniteSet(Ids) /\ Ids # {}
ASSUME SchedulerAssumption == Scheduler \notin Clients
ASSUME OpsAssumption ==
  Ops \subseteq {"start", "pause", "resume", "cancel", "schedule", "unschedule",
                 "update", "recipients", "reset"}
ASSUME BoundsAssumption ==
  MaxRequests \in Nat /\ MaxRuns \in Nat /\ MaxCrashes \in Nat /\ MaxFaults \in Nat

VARIABLES
  table,     \* recipients.status by id
  row,       \* the campaign's row
  run,       \* the runs launched so far, each with its CampaignRunner
  runners,   \* s.runners[id]: the number of the registered run, or NoRun
  pc,        \* where each request, and the scheduler, is
  snap,      \* the row that a request has read
  target,    \* the runner that a request has looked up
  asked,     \* requests made
  crashes,   \* crashes so far
  faults,    \* failing statements so far
  mails,     \* history: messages accepted for a recipient since the last reset
  lost,      \* history: outcomes of a recipient that a failing save lost, since then
  unsaved,   \* history: lost outcomes that the row counts, since then
  off        \* history: the row may be off its runs since the server started

vars == <<table, row, run, runners, pc, snap, target, asked, crashes, faults,
          mails, lost, unsaved, off>>

-----------------------------------------------------------------------------
(* As in SendPipeline, Mut... is a faulty form of the definition after it. *)

Procs == Clients \cup {Scheduler}
RunIds == 1..MaxRuns
NoRun == 0
NoRow == [status |-> "none", done |-> 0]

\* A recipient's progress in a run: the page has it, it passed the pause gate
\* and the limiter, mailer.Send returned, its result was added, and saved, or lost
\* by a save that failed.
Progress == {"none", "loaded", "admitted", "attempted", "reported", "saved", "lost"}
NotLaunched == [phase |-> "none", at |-> [r \in Ids |-> "none"], paused |-> FALSE,
                ctxDone |-> FALSE, status |-> "sending", verdict |-> "none"]

MutPendingAll == Ids
Pending == {r \in Ids : table[r] = "pending"}
Launched == {k \in RunIds : run[k].phase # "none"}
In(k, points) == {r \in Ids : run[k].at[r] \in points}

\* A run whose goroutine has not yet made its final UPDATE.
Active(k) == run[k].phase \in {"loading", "sending", "saving", "recording"}

\* There is room for one more run, those about to be launched included.
StartPoints == {"start", "startLoad", "startCount", "startSave", "startLaunch"}
MayLaunch ==
  Cardinality(Launched) + Cardinality({p \in Procs : pc[p] \in StartPoints}) < MaxRuns

Move(k, r, point) == run' = [run EXCEPT ![k].at[r] = point]
Goto(p, point) == pc' = [pc EXCEPT ![p] = point]
KeepRequests == UNCHANGED <<pc, snap, target, asked>>
KeepData == UNCHANGED <<table, mails, crashes, lost, unsaved, off>>

\* A statement succeeds, or fails.
Works == UNCHANGED faults
Fails == faults < MaxFaults /\ faults' = faults + 1
Calm == KeepData /\ Works

Init ==
  /\ table = [r \in Ids |-> "pending"]
  /\ row = [status |-> "draft", done |-> 0]
  /\ run = [k \in RunIds |-> NotLaunched]
  /\ runners = NoRun
  /\ pc = [p \in Procs |-> "idle"]
  /\ snap = [p \in Procs |-> NoRow]
  /\ target = [p \in Procs |-> NoRun]
  /\ asked = 0 /\ crashes = 0 /\ faults = 0
  /\ mails = [r \in Ids |-> 0] /\ lost = [r \in Ids |-> 0]
  /\ unsaved = 0 /\ off = FALSE

-----------------------------------------------------------------------------
(* A run, from runCampaign to the removal of its entry in the map *)

\* A page that cannot be loaded is logged, and the run goes on without it.
RunLoads(k) ==
  /\ run[k].phase = "loading"
  /\ \E page \in {Pending, {}} :
       /\ run' = [run EXCEPT ![k].phase = "sending",
                             ![k].at = [r \in Ids |-> IF r \in page /\ ~run[k].ctxDone
                                                      THEN "loaded" ELSE "none"]]
       /\ IF page = Pending THEN Works ELSE Fails
  /\ UNCHANGED <<row, runners>> /\ KeepRequests /\ KeepData

Admits(k) == ~run[k].paused /\ ~run[k].ctxDone

RunAdmits(k, r) ==
  /\ run[k].phase = "sending" /\ run[k].at[r] = "loaded" /\ Admits(k)
  /\ Move(k, r, "admitted")
  /\ UNCHANGED <<row, runners>> /\ KeepRequests /\ Calm

RunAttempts(k, r) ==
  /\ run[k].phase = "sending" /\ run[k].at[r] = "admitted"
  /\ Move(k, r, "attempted")
  /\ mails' \in {mails, [mails EXCEPT ![r] = @ + 1]}
  /\ UNCHANGED <<table, row, runners, crashes, lost, unsaved, off>>
  /\ KeepRequests /\ Works

\* limiter.Wait is interrupted by the cancellation.
RunDrops(k, r) ==
  /\ run[k].phase = "sending" /\ run[k].at[r] = "admitted" /\ run[k].ctxDone
  /\ Move(k, r, "none")
  /\ UNCHANGED <<row, runners>> /\ KeepRequests /\ Calm

RunReports(k, r) ==
  /\ run[k].phase = "sending" /\ run[k].at[r] = "attempted"
  /\ Move(k, r, "reported")
  /\ UNCHANGED <<row, runners>> /\ KeepRequests /\ Calm

\* The workers are gone: nobody is left to handle, or the run is cancelled and
\* nobody is past the limiter.
RunJoins(k) ==
  /\ run[k].phase = "sending"
  /\ In(k, {"admitted", "attempted"}) = {}
  /\ run[k].ctxDone \/ In(k, {"loaded"}) = {}
  /\ run' = [run EXCEPT ![k].phase = "saving"]
  /\ UNCHANGED <<row, runners>> /\ KeepRequests /\ Calm

\* One transaction of saveResults, which loses the outcomes L of its batch S: an
\* UPDATE that fails is logged, a COMMIT that fails is not noticed.
RunSaves(k) ==
  /\ run[k].phase = "saving"
  /\ \E S \in SUBSET In(k, {"reported"}) \ {{}} : \E L \in SUBSET S :
       /\ run' = [run EXCEPT ![k].at =
                    [r \in Ids |-> IF r \in L THEN "lost"
                                   ELSE IF r \in S THEN "saved" ELSE run[k].at[r]]]
       /\ table' = [r \in Ids |-> IF r \in S \ L THEN "done" ELSE table[r]]
       /\ lost' = [r \in Ids |-> IF r \in L THEN lost[r] + 1 ELSE lost[r]]
       /\ IF L = {} THEN Works ELSE Fails
  /\ UNCHANGED <<row, runners, crashes, mails, unsaved, off>> /\ KeepRequests

MutJudgesUnsaved(k) == TRUE
AllSaved(k) == In(k, {"reported"}) = {}

MutRunnerStatus(k) == run[k].status
FinalStatus(k) == IF run[k].ctxDone /\ run[k].status = "cancelled"
                  THEN "cancelled" ELSE "completed"

RunJudges(k) ==
  /\ run[k].phase = "saving" /\ AllSaved(k)
  /\ run' = [run EXCEPT ![k].phase = "recording",
                        ![k].verdict = FinalStatus(k)]
  /\ UNCHANGED <<row, runners>> /\ KeepRequests /\ Calm

\* The final UPDATE.  Its failure goes unnoticed, and leaves the row as it is.
RunRecords(k) ==
  /\ run[k].phase = "recording"
  /\ \/ /\ row' = [status |-> run[k].verdict,
                    done |-> row.done + Cardinality(In(k, {"reported", "saved", "lost"}))]
        /\ unsaved' = unsaved + Cardinality(In(k, {"lost"}))
        /\ off' = off /\ Works
     \/ UNCHANGED <<row, unsaved>> /\ off' = TRUE /\ Fails
  /\ run' = [run EXCEPT ![k].phase = "leaving"]
  /\ UNCHANGED <<runners, table, mails, crashes, lost>> /\ KeepRequests

\* The deferred delete is by campaign, whichever run is registered.
RunLeaves(k) ==
  /\ run[k].phase = "leaving"
  /\ runners' = NoRun
  /\ run' = [run EXCEPT ![k].phase = "over"]
  /\ UNCHANGED row /\ KeepRequests /\ Calm

Run(k) ==
  \/ RunLoads(k)
  \/ \E r \in Ids : \/ RunAdmits(k, r) \/ RunAttempts(k, r)
                    \/ RunDrops(k, r) \/ RunReports(k, r)
  \/ RunJoins(k) \/ RunSaves(k) \/ RunJudges(k) \/ RunRecords(k) \/ RunLeaves(k)

-----------------------------------------------------------------------------
(* Start: the map, the row, the pending recipients, the full-row save and  *)
(* the registration are five accesses; the lock is not held between them.  *)
(* Start gives up when the row or the count cannot be read, and goes on    *)
(* when the row cannot be saved.                                           *)

\* A refused request leaves; the scheduler first rewrites the row.
MutSchedulerIgnores(p) == Goto(p, "idle")
Refused(p) == Goto(p, IF p = Scheduler THEN "unstartable" ELSE "idle")

MutStartUnchecked == TRUE
NotRunning == runners = NoRun

StartChecksMap(p) ==
  /\ pc[p] = "start"
  /\ IF NotRunning THEN Goto(p, "startLoad") ELSE Refused(p)
  /\ UNCHANGED <<row, run, runners, snap, target, asked>> /\ Calm

Startable == {"draft", "paused", "scheduled"}

StartLoads(p) ==
  /\ pc[p] = "startLoad"
  /\ \/ /\ row.status \in Startable /\ Works
        /\ Goto(p, "startCount") /\ snap' = [snap EXCEPT ![p] = row]
     \/ /\ IF row.status \in Startable THEN Fails ELSE Works
        /\ Refused(p) /\ snap' = snap
  /\ UNCHANGED <<row, run, runners, target, asked>> /\ KeepData

StartCounts(p) ==
  /\ pc[p] = "startCount"
  /\ \/ Pending # {} /\ Goto(p, "startSave") /\ Works
     \/ Refused(p) /\ (IF Pending # {} THEN Fails ELSE Works)
  /\ UNCHANGED <<row, run, runners, snap, target, asked>> /\ KeepData

StartSaves(p) ==
  /\ pc[p] = "startSave"
  /\ \/ row' = [snap[p] EXCEPT !.status = "sending"] /\ off' = off /\ Works
     \/ row' = row /\ off' = TRUE /\ Fails
  /\ snap' = [snap EXCEPT ![p] = NoRow]
  /\ Goto(p, "startLaunch")
  /\ UNCHANGED <<run, runners, target, asked, table, mails, crashes, lost, unsaved>>

StartLaunches(p) ==
  /\ pc[p] = "startLaunch"
  /\ \E k \in RunIds \ Launched :
       /\ \A j \in RunIds \ Launched : k <= j
       /\ run' = [run EXCEPT ![k].phase = "loading"]
       /\ runners' = k
  /\ Goto(p, "idle")
  /\ UNCHANGED <<row, snap, target, asked>> /\ Calm

Start(p) ==
  \/ StartChecksMap(p) \/ StartLoads(p) \/ StartCounts(p)
  \/ StartSaves(p) \/ StartLaunches(p)

-----------------------------------------------------------------------------
(* Pause, Resume and Cancel, on the runner they looked up *)

Ctl(p, from, status, flag) ==
  /\ pc[p] = from
  /\ run' = [run EXCEPT ![target[p]].status = status, ![target[p]].paused = flag]
  /\ UNCHANGED <<row, runners, snap, target, asked>> /\ Calm

PauseRunner(p) == Ctl(p, "pause", "paused", TRUE) /\ Goto(p, "pauseRow")
ResumeRunner(p) == Ctl(p, "resume", "sending", FALSE) /\ Goto(p, "resumeRow")
CancelRunner(p) ==
  Ctl(p, "cancel", "cancelled", run[target[p]].paused) /\ Goto(p, "cancelCtx")

CancelCtx(p) ==
  /\ pc[p] = "cancelCtx"
  /\ run' = [run EXCEPT ![target[p]].ctxDone = TRUE]
  /\ Goto(p, "idle") /\ target' = [target EXCEPT ![p] = NoRun]
  /\ UNCHANGED <<row, runners, snap, asked>> /\ Calm

\* A statement that writes the row, or leaves it.
RowBecomes(r) ==
  \/ row' = r /\ Works
  \/ row' = row /\ Fails

\* The UPDATE of the status alone, whose failure goes unnoticed.
WriteStatus(p, from, status) ==
  /\ pc[p] = from
  /\ RowBecomes([row EXCEPT !.status = status])
  /\ Goto(p, "idle") /\ target' = [target EXCEPT ![p] = NoRun]
  /\ UNCHANGED <<run, runners, snap, asked>> /\ KeepData

Control(p) ==
  \/ PauseRunner(p) \/ WriteStatus(p, "pauseRow", "paused")
  \/ ResumeRunner(p) \/ WriteStatus(p, "resumeRow", "sending")
  \/ CancelRunner(p) \/ CancelCtx(p)

-----------------------------------------------------------------------------
(* Handlers that read the row, decide, and save all of its columns *)

\* The status each handler asks for, and the row it will save.
MutAcceptsAlways(op) == TRUE
Accepts(op) ==
  CASE op = "schedule"   -> row.status = "draft" /\ Pending # {}
    [] op = "unschedule" -> row.status = "scheduled"
    [] op = "update"     -> row.status # "sending"
    [] op = "recipients" -> TRUE
    [] op = "reset"      -> row.status \in {"completed", "cancelled"}

MutResetKeepsCounters(op) ==
  CASE op = "schedule"   -> [row EXCEPT !.status = "scheduled"]
    [] op \in {"unschedule", "reset"} -> [row EXCEPT !.status = "draft"]
    [] op \in {"update", "recipients"} -> row
Saved(op) ==
  CASE op = "schedule"   -> [row EXCEPT !.status = "scheduled"]
    [] op = "unschedule" -> [row EXCEPT !.status = "draft"]
    [] op \in {"update", "recipients"} -> row
    [] op = "reset"      -> [status |-> "draft", done |-> 0]

RowOps == {"schedule", "unschedule", "update", "recipients", "reset"}

\* The row that a request of recipients read while the run went on, saved after
\* its end, says "sending" again.
Stale(p) == snap[p].status = "sending" /\ row.status # "sending"

SaveRow(p) ==
  /\ pc[p] = "save"
  /\ RowBecomes(snap[p])
  /\ off' = (off \/ Stale(p))
  /\ snap' = [snap EXCEPT ![p] = NoRow]
  /\ Goto(p, "idle")
  /\ UNCHANGED <<run, runners, target, asked, table, mails, crashes, lost, unsaved>>

\* ResetToDraft saves the row and the recipients in one transaction, or neither.
ResetSaves(p) ==
  /\ pc[p] = "reset"
  /\ \/ /\ row' = snap[p] /\ table' = [r \in Ids |-> "pending"]
        /\ mails' = [r \in Ids |-> 0] /\ lost' = [r \in Ids |-> 0] /\ unsaved' = 0
        /\ Works
     \/ UNCHANGED <<row, table, mails, lost, unsaved>> /\ Fails
  /\ snap' = [snap EXCEPT ![p] = NoRow]
  /\ Goto(p, "idle")
  /\ UNCHANGED <<run, runners, target, asked, crashes, off>>

Continue(p) == Start(p) \/ Control(p) \/ SaveRow(p) \/ ResetSaves(p)

\* A request arrives and makes its first access: Pause, Resume and Cancel look
\* the runner up, the row handlers read and check the row.
Begin(c) ==
  /\ pc[c] = "idle" /\ asked < MaxRequests
  /\ asked' = asked + 1
  /\ \/ /\ "start" \in Ops /\ MayLaunch
        /\ Goto(c, "start")
        /\ UNCHANGED <<snap, target>>
     \/ \E op \in Ops \cap {"pause", "resume", "cancel"} :
          /\ runners # NoRun
          /\ Goto(c, op)
          /\ target' = [target EXCEPT ![c] = runners]
          /\ UNCHANGED snap
     \/ \E op \in Ops \cap RowOps :
          /\ Accepts(op)
          /\ Goto(c, IF op = "reset" THEN "reset" ELSE "save")
          /\ snap' = [snap EXCEPT ![c] = Saved(op)]
          /\ UNCHANGED target
  /\ UNCHANGED <<row, run, runners>> /\ Calm

-----------------------------------------------------------------------------
(* The scheduler, and the server's death and restart *)

\* checkScheduledCampaigns finds the campaign scheduled and due.
SchedulerFinds ==
  /\ pc[Scheduler] = "idle" /\ row.status = "scheduled" /\ MayLaunch
  /\ Goto(Scheduler, "start")
  /\ UNCHANGED <<row, run, runners, snap, target, asked>> /\ Calm

\* Start failed, for whatever reason: the campaign becomes a draft.
SchedulerGivesUp ==
  /\ pc[Scheduler] = "unstartable"
  /\ RowBecomes([row EXCEPT !.status = "draft"])
  /\ Goto(Scheduler, "idle")
  /\ UNCHANGED <<run, runners, snap, target, asked>> /\ KeepData

MutNoRecovery == row
Recovered == IF row.status = "sending" THEN [row EXCEPT !.status = "paused"] ELSE row

\* Memory is lost, the database is kept; main turns sending into paused, or does
\* not notice that it could not.
CrashAndRestart ==
  /\ crashes < MaxCrashes
  /\ crashes' = crashes + 1
  /\ \/ row' = Recovered /\ off' = FALSE /\ Works
     \/ row' = row /\ off' = TRUE /\ Fails
  /\ run' = [k \in RunIds |-> IF k \in Launched
                              THEN [NotLaunched EXCEPT !.phase = "over"] ELSE run[k]]
  /\ runners' = NoRun
  /\ pc' = [p \in Procs |-> "idle"]
  /\ snap' = [p \in Procs |-> NoRow]
  /\ target' = [p \in Procs |-> NoRun]
  /\ UNCHANGED <<table, asked, mails, lost, unsaved>>

-----------------------------------------------------------------------------
\* Every run is over or waits at the pause gate for a user, and no request is in
\* progress.
Parked(k) ==
  /\ run[k].phase = "sending" /\ run[k].paused /\ ~run[k].ctxDone
  /\ In(k, {"admitted", "attempted"}) = {}
Quiet == /\ \A k \in RunIds : run[k].phase \in {"none", "over"} \/ Parked(k)
         /\ \A p \in Procs : pc[p] = "idle"
Stop == Quiet /\ UNCHANGED vars

Next ==
  \/ \E k \in RunIds : Run(k)
  \/ \E c \in Clients : Begin(c) \/ Continue(c)
  \/ SchedulerFinds \/ SchedulerGivesUp \/ Continue(Scheduler)
  \/ CrashAndRestart
  \/ Stop

Spec == Init /\ [][Next]_vars

\* Goroutines and handlers that have begun go on, the scheduler's ticker ticks,
\* every campaign's time comes; clients and crashes are not to be relied on.
Fairness ==
  /\ \A k \in RunIds : WF_vars(Run(k))
  /\ \A c \in Clients : WF_vars(Continue(c))
  /\ WF_vars(SchedulerFinds \/ SchedulerGivesUp \/ Continue(Scheduler))

FairSpec == Spec /\ Fairness

-----------------------------------------------------------------------------
Row == [status : {"none", "draft", "scheduled", "sending", "paused", "completed",
                  "cancelled"},
        done : Nat]
Runner == [phase : {"none", "loading", "sending", "saving", "recording",
                    "leaving", "over"},
           at : [Ids -> Progress], paused : BOOLEAN, ctxDone : BOOLEAN,
           status : {"sending", "paused", "cancelled"},
           verdict : {"none", "completed", "cancelled"}]

\* Every variable has its type (the campaign's row, Service.runners, the runners).
TypeOK ==
  /\ table \in [Ids -> {"pending", "done"}]
  /\ row \in Row
  /\ run \in [RunIds -> Runner]
  /\ runners \in RunIds \cup {NoRun}
  /\ pc \in [Procs -> StartPoints \cup RowOps \cup
                {"idle", "unstartable", "pause", "pauseRow", "resume", "resumeRow",
                 "cancel", "cancelCtx", "save"}]
  /\ snap \in [Procs -> Row]
  /\ target \in [Procs -> RunIds \cup {NoRun}]
  /\ asked \in Nat /\ crashes \in Nat /\ faults \in Nat /\ unsaved \in Nat
  /\ mails \in [Ids -> Nat] /\ lost \in [Ids -> Nat]
  /\ off \in BOOLEAN

\* A campaign has at most one sending run (service.go "campaign %d is already
\* running").
OneRun == \A j, k \in RunIds : Active(j) /\ Active(k) => j = k

\* Between two resets a recipient is mailed once, and once more at most for each
\* crash of the server and for each of his outcomes whose save failed: only what
\* is not in the table is sent again.
DuplicatesNeedFailures == \A r \in Ids : mails[r] <= 1 + crashes + lost[r]

\* The campaign's counters count a recipient twice only for an outcome that they
\* had counted and whose save had failed, whatever runs were paused, cancelled,
\* killed and started again.
CountersBounded == row.done <= Cardinality(Ids) + unsaved

\* A recipient whose outcome is saved is not mailed again without a reset.
SavedIsFinal ==
  [][\A r \in Ids : table[r] = "done" => mails'[r] <= mails[r]]_vars

\* When no request is in progress, a campaign whose run goes on is shown as
\* sending or paused, the states in which it can be paused or cancelled, unless
\* Start could not save the row.
RunningRow ==
  (\E k \in RunIds : Active(k)) /\ (\A p \in Procs : pc[p] = "idle") /\ ~off =>
     row.status \in {"sending", "paused"}

\* A run that goes on can be reached: it is the one in the runners map.
RunIsRegistered == \A k \in RunIds : Active(k) => runners = k

\* When no request is in progress, a campaign shown as sending has a runner: a
\* run ends by changing the status, and a restart turns sending into paused,
\* from which Start goes on.  Since the server started, neither of these two
\* statements has failed, and no upload, addition or deletion of recipients has
\* saved after the end of a run the row it had read before.  Resume is left out:
\* it may write "sending" after the end of the run, as Pause may write "paused".
SendingHasRunner ==
  row.status = "sending" /\ (\A p \in Procs : pc[p] = "idle") /\ ~off =>
     runners # NoRun

\* A campaign that is due does not stay scheduled: the scheduler starts it, or
\* gives it back as a draft.
ScheduleIsHandled == row.status = "scheduled" ~> row.status # "scheduled"

-----------------------------------------------------------------------------
(* The invariant behind these properties.                                  *)

\* Only one process at a time is about to launch a run: no user starts one, or
\* there is one user and nothing is scheduled.
SingleUser == "schedule" \notin Ops /\ \A c, d \in Clients : c = d
SingleStarter == "start" \notin Ops \/ SingleUser

\* A run that has not ended is the one in the map, and Start found the map empty.
LaunchInv ==
  /\ \A p, q \in Procs : pc[p] \in StartPoints /\ pc[q] \in StartPoints => p = q
  /\ "start" \notin Ops => \A c \in Clients : pc[c] \notin StartPoints
  /\ "schedule" \notin Ops =>
       /\ row.status # "scheduled" /\ pc[Scheduler] = "idle"
       /\ \A p \in Procs : snap[p].status # "scheduled"
  /\ \A p \in Procs : pc[p] \in StartPoints \ {"start"} => runners = NoRun
  /\ \A k \in RunIds : run[k].phase \notin {"none", "over"} => runners = k

\* A request that will save the row it has read.
Holds(p) == pc[p] \in {"startCount", "startSave", "save", "reset"}

\* What the handlers hold of the row, and what it says while a run goes on.
Running == {"draft", "paused", "sending"}
HandlerInv ==
  /\ \A p \in Procs : pc[p] = "reset" => snap[p] = [status |-> "draft", done |-> 0]
  /\ \A p \in Procs : pc[p] \in {"startCount", "startSave"} => row.status \in Startable
  /\ \A p \in Procs : pc[p] = "startLaunch" =>
       row.status \in Running /\ (~off => row.status = "sending")
  /\ \A k \in RunIds : Active(k) =>
       /\ row.status \in Running
       /\ \A p \in Procs : pc[p] # "reset" /\ (pc[p] = "save" => snap[p].status \in Running)
       /\ ~off => /\ row.status # "draft"
                  /\ \A p \in Procs : pc[p] = "save" => snap[p].status # "draft"
  /\ "resume" \notin Ops =>
       /\ \A p \in Procs : pc[p] \notin {"resume", "resumeRow"}
       /\ row.status = "sending" /\ ~off =>
            (\E p \in Procs : pc[p] = "startLaunch") \/ \E k \in RunIds : Active(k)

\* A run handles a recipient only while he is pending, and leaves nobody between
\* the attempt and the table.
ProgressOf(k, r) ==
  /\ run[k].phase \in {"none", "loading"} => run[k].at[r] = "none"
  /\ run[k].at[r] \in {"admitted", "attempted"} => run[k].phase = "sending"
  /\ run[k].at[r] = "reported" => run[k].phase \in {"sending", "saving"}
  /\ run[k].phase \in {"sending", "saving"} /\ run[k].at[r] \notin {"none", "saved"} =>
       table[r] = "pending"
  /\ Active(k) /\ run[k].at[r] = "saved" => table[r] = "done"
ProgressInv == \A k \in RunIds, r \in Ids : ProgressOf(k, r)

\* The attempt that the table does not know yet is the only one that a crash, or
\* a failing save, forgets.
Spent(r) == table[r] = "done" \/ \E k \in RunIds : run[k].at[r] \in {"attempted", "reported"}
CrashInv == \A r \in Ids : mails[r] <= crashes + lost[r] + (IF Spent(r) THEN 1 ELSE 0)

\* The recipients that the row may count: those whose outcome is saved, except
\* by the run that has not recorded yet.
Countable == {r \in Ids : /\ table[r] = "done"
                          /\ \A k \in RunIds : Active(k) => run[k].at[r] # "saved"}
DoneInv ==
  /\ row.done <= Cardinality(Countable) + unsaved
  /\ \A p \in Procs : Holds(p) => snap[p].done <= Cardinality(Countable) + unsaved

UserInv == TypeOK /\ LaunchInv /\ HandlerInv /\ ProgressInv /\ CrashInv /\ DoneInv

-----------------------------------------------------------------------------
(* What the repository says of a campaign, and the code does not keep.     *)

\* USER_GUIDE "paused: resume, cancel": when no request is in progress, a paused
\* campaign has a runner that Resume and Cancel can act on.
PausedHasRunner ==
  row.status = "paused" /\ (\A p \in Procs : pc[p] = "idle") => runners # NoRun
=============================================================================
