---------------------------- MODULE LiveProgress ----------------------------
(***************************************************************************)
(* What a browser on the sending page learns of a run: the progress        *)
(* collector and its ticker (sender/progress.go), the end of the run and   *)
(* the requests that announce a status (sender/service.go), the hub's      *)
(* client with its buffer (internal/websocket), the page's socket          *)
(* (hooks/useWebSocket.ts), its query of the campaign, and its state       *)
(* (pages/SendingPage.tsx).                                                *)
(*                                                                         *)
(* One page, from its mount, and the first run.  Start is one step here:   *)
(* SendControl has its accesses.  sent_count and failed_count are kept as  *)
(* one number, done; a result is its number in the run; row.ver stands for *)
(* updated_at, by which any two writes of the row differ.  An answer and   *)
(* the socket may be lost, and a statement may fail whose error nobody     *)
(* reads.  The rate, the totals and the limit of 200 results are left out, *)
(* and so are the saves of the row by an edit, a reset or a change of the  *)
(* recipients.                                                             *)
(***************************************************************************)
EXTENDS Integers, Sequences, FiniteSets, Functions

CONSTANTS
  Pending,      \* recipients pending when the run is launched
  Buffer,       \* capacity of a hub client's channel (256)
  OtherOps,     \* the requests the other user makes
  MaxRequests,  \* bound: requests made in a behaviour
  MaxHaps       \* bound: ticks, lost answers and connections, failing statements

ASSUME PendingAssumption == Pending \in Nat \ {0}
ASSUME SizesAssumption == Buffer \in Nat \ {0}
Ops == {"start", "schedule", "unschedule", "pause", "resume", "cancel"}
ASSUME OpsAssumption == OtherOps \subseteq Ops
ASSUME BoundsAssumption == MaxRequests \in Nat /\ MaxHaps \in Nat

VARIABLES
  row,     \* the campaign's row
  run,     \* the CampaignRunner: where it is, its flags, its results so far
  feed,    \* the ProgressCollector: its status and the results not flushed
  ticker,  \* the collector's goroutine: at its select or before a broadcast
  says,    \* SetStatus, as called by a request or by the run: its snapshot
  req,     \* the request that each actor has made
  hub,     \* the page's client in the hub
  wire,    \* client.send, and the network behind it
  sock,    \* the page's WebSocket
  query,   \* the cached campaign and the fetch of it that counts
  page,    \* the page's state
  made,    \* requests made
  haps,    \* ticks, losses and failures so far
  seen     \* history: what has gone past the page

vars == <<row, run, feed, ticker, says, req, hub, wire, sock, query, page,
          made, haps, seen>>

-----------------------------------------------------------------------------
(* As in SendPipeline, Mut... is a faulty form of the definition after it. *)

Page == "page"
Other == "other"     \* another user, in a browser of his own
Runner == "runner"   \* the goroutine of runCampaign
Actors == {Page, Other}

Over == {"completed", "cancelled"}
NoRow == [status |-> "none", done |-> 0, ver |-> 0]

\* Events
Progress(d) == [event |-> "progress", done |-> d]
StatusChange(s) == [event |-> "status_change", status |-> s]
SendResults(rs) == [event |-> "send_results", results |-> rs]

Silent == [at |-> "idle", status |-> "none", done |-> 0]
NoRequest == [at |-> "idle", op |-> "none", ok |-> TRUE]

NotLaunched == [phase |-> "none", n |-> 0, paused |-> FALSE, ctxDone |-> FALSE,
                status |-> "sending", verdict |-> "none"]
Running == run.phase \notin {"none", "over"}

Init ==
  /\ row = [status |-> "draft", done |-> 0, ver |-> 1]
  /\ run = NotLaunched
  /\ feed = [status |-> "none", results |-> <<>>]
  /\ ticker = [at |-> "off", done |-> 0, results |-> <<>>]
  /\ says = [p \in Actors \cup {Runner} |-> Silent]
  /\ req = [a \in Actors |-> NoRequest]
  /\ hub = [inMap |-> FALSE, open |-> TRUE]
  /\ wire = <<>>
  /\ sock = "connecting"
  /\ query = [data |-> NoRow, fetch |-> "asked", reply |-> NoRow]
  /\ page = [status |-> "none", done |-> 0, results |-> <<>>, acting |-> "none"]
  /\ made = 0
  /\ haps = 0
  /\ seen = [missed |-> FALSE, lost |-> FALSE, late |-> FALSE, untold |-> FALSE,
             unsaved |-> FALSE, panic |-> FALSE]

KeepServer == UNCHANGED <<row, run, feed, ticker>>
KeepBrowser == UNCHANGED <<sock, query, page>>

Happens == haps < MaxHaps /\ haps' = haps + 1
Calm == UNCHANGED haps
Write(status) == row' = [row EXCEPT !.status = status, !.ver = @ + 1]
Untold(b) == seen' = [seen EXCEPT !.untold = @ \/ b]

\* An UPDATE or a Save whose error is not read, of a row r that is newer, behind
\* the page's back if b: it may fail, and all goes on.
Saves(r, b) ==
  \/ row' = [r EXCEPT !.ver = row.ver + 1] /\ Untold(b) /\ Calm
  \/ row' = row /\ seen' = [seen EXCEPT !.untold = @ \/ b, !.unsaved = TRUE] /\ Happens

-----------------------------------------------------------------------------
(* The hub *)

\* BroadcastToCampaign under the read lock: to the clients in the map that are
\* subscribed, unless the buffer is full.
MutReachesFull == hub.inMap
Reaches == hub.inMap /\ Len(wire) < Buffer

Broadcast(m) ==
  /\ wire' = IF Reaches THEN Append(wire, m) ELSE wire
  /\ seen' = [seen EXCEPT
       !.missed = @ \/ (m.event = "status_change" /\ ~(Reaches /\ sock = "open")),
       !.lost = @ \/ (m.event # "status_change" /\ ~(Reaches /\ sock = "open")),
       !.panic = @ \/ (hub.inMap /\ ~hub.open)]

\* The map forgets the client and its channel is closed, under the lock.
MutUnregisterKeeps == [hub EXCEPT !.open = FALSE]
Unregistered == [hub EXCEPT !.inMap = FALSE, !.open = FALSE]

HubUnregisters ==
  /\ sock = "closed" /\ hub.inMap /\ hub.open
  /\ hub' = Unregistered
  /\ UNCHANGED <<says, req, wire, made, haps, seen>> /\ KeepServer /\ KeepBrowser

-----------------------------------------------------------------------------
(* The collector: SetStatus and the ticker *)

\* SetStatus, up to its unlock.
SetStatus(p, s) ==
  /\ feed' = [feed EXCEPT !.status = s]
  /\ says' = [says EXCEPT ![p] = [at |-> "progress", status |-> s, done |-> run.n]]

\* Its two broadcasts.
AnnouncesProgress(p) ==
  /\ says[p].at = "progress"
  /\ Broadcast(Progress(says[p].done))
  /\ says' = [says EXCEPT ![p].at = "status"]
  /\ UNCHANGED <<req, hub, made, haps>> /\ KeepServer /\ KeepBrowser

AnnouncesStatus(p) ==
  /\ says[p].at = "status"
  /\ Broadcast(StatusChange(says[p].status))
  /\ says' = [says EXCEPT ![p].at = "said"]
  /\ UNCHANGED <<req, hub, made, haps>> /\ KeepServer /\ KeepBrowser

TickerStep == UNCHANGED <<row, run, says, req, hub, made>> /\ KeepBrowser

\* The progress ticker: GetProgress, then the broadcast; it ends by itself when
\* the status is final.
TicksProgress ==
  /\ ticker.at = "select" /\ Happens
  /\ ticker' = IF feed.status \in {"sending", "paused"}
               THEN [ticker EXCEPT !.at = "progress", !.done = run.n]
               ELSE [ticker EXCEPT !.at = "off"]
  /\ UNCHANGED <<feed, wire, seen>> /\ TickerStep

TickerSendsProgress ==
  /\ ticker.at = "progress"
  /\ wire' = IF Reaches THEN Append(wire, Progress(ticker.done)) ELSE wire
  /\ seen' = [seen EXCEPT !.late = @ \/ run.phase = "over" \/ says[Runner].at \in {"status", "said"},
                          !.panic = @ \/ (hub.inMap /\ ~hub.open)]
  /\ ticker' = [ticker EXCEPT !.at = "select", !.done = 0]
  /\ UNCHANGED <<feed, haps>> /\ TickerStep

\* FlushResults gives each result away once.
MutFlushKeeps == [feed EXCEPT !.status = @]
Flushed == [feed EXCEPT !.results = <<>>]

TicksResults ==
  /\ ticker.at = "select" /\ feed.results # <<>> /\ Happens
  /\ ticker' = [ticker EXCEPT !.at = "results", !.results = feed.results]
  /\ feed' = Flushed
  /\ UNCHANGED <<wire, seen>> /\ TickerStep

TickerSendsResults ==
  /\ ticker.at = "results"
  /\ Broadcast(SendResults(ticker.results))
  /\ ticker' = [ticker EXCEPT !.at = "select", !.results = <<>>]
  /\ UNCHANGED <<feed, haps>> /\ TickerStep

\* Stop has closed done.  The select may still prefer a tick that is ready.
TickerEnds ==
  /\ ticker.at = "select" /\ run.phase \notin {"sending"}
  /\ ticker' = [ticker EXCEPT !.at = "off"]
  /\ UNCHANGED <<feed, wire, haps, seen>> /\ TickerStep

-----------------------------------------------------------------------------
(* The run *)

RunStep == UNCHANGED <<ticker, req, hub, made>> /\ KeepBrowser

RunReports ==
  /\ run.phase = "sending" /\ run.n < Pending /\ ~run.paused /\ ~run.ctxDone
  /\ run' = [run EXCEPT !.n = @ + 1]
  /\ feed' = [feed EXCEPT !.results = Append(@, run.n + 1)]
  /\ UNCHANGED <<row, says, wire, seen>> /\ Calm /\ RunStep

\* The workers are gone: Stop, and the last flush.
RunFlushes ==
  /\ run.phase = "sending" /\ (run.n = Pending \/ run.ctxDone)
  /\ run' = [run EXCEPT !.phase = "saving"]
  /\ feed' = Flushed
  /\ IF feed.results # <<>> THEN Broadcast(SendResults(feed.results))
                            ELSE UNCHANGED <<wire, seen>>
  /\ UNCHANGED <<row, says>> /\ Calm /\ RunStep

\* saveResults, and the choice of the final status after it.
FinalStatus == IF run.ctxDone /\ run.status = "cancelled"
               THEN "cancelled" ELSE "completed"

RunJudges ==
  /\ run.phase = "saving"
  /\ run' = [run EXCEPT !.phase = "recording", !.verdict = FinalStatus]
  /\ UNCHANGED <<row, feed, says, wire, seen>> /\ Calm /\ RunStep

\* The final UPDATE, and then the final SetStatus.
RunRecords ==
  /\ run.phase = "recording"
  /\ Saves([row EXCEPT !.status = run.verdict, !.done = @ + run.n], FALSE)
  /\ run' = [run EXCEPT !.phase = "announcing"]
  /\ UNCHANGED <<feed, says, wire>> /\ RunStep

MutAnnouncesUnrecorded ==
  run.phase \in {"recording", "announcing"} /\ says[Runner].at = "idle"
MutAnnouncesCompletion ==
  run.phase = "announcing" /\ says[Runner].at = "idle" /\ run.verdict = "completed"
MayAnnounce == run.phase = "announcing" /\ says[Runner].at = "idle"

RunAnnounces ==
  /\ MayAnnounce
  /\ SetStatus(Runner, run.verdict)
  /\ UNCHANGED <<row, run, wire, seen>> /\ Calm /\ RunStep

\* The deferred removal from the map of runners: nothing refers to the runner.
RunLeaves ==
  /\ run.phase = "announcing" /\ says[Runner].at = "said"
  /\ run' = [NotLaunched EXCEPT !.phase = "over", !.n = run.n]
  /\ says' = [says EXCEPT ![Runner] = Silent]
  /\ UNCHANGED <<row, feed, wire, seen>> /\ Calm /\ RunStep

Run == RunReports \/ RunFlushes \/ RunJudges \/ RunRecords
       \/ RunAnnounces \/ RunLeaves

-----------------------------------------------------------------------------
(* The requests, at the server.  A request is served in the step that makes  *)
(* it: on its way it changes nothing.                                       *)

RequestStep == UNCHANGED <<hub, wire>>

Answer(a, op, ok) ==
  req' = [req EXCEPT ![a] = IF a = Page THEN [at |-> "answered", op |-> op, ok |-> ok]
                            ELSE NoRequest]
Refuse(a, op) ==
  Answer(a, op, FALSE) /\ Calm /\ UNCHANGED <<row, run, feed, ticker, says, seen>>

\* Start: the runner, its collector and its ticker.  Nobody is told.
Startable == row.status \in {"draft", "scheduled", "paused"} /\ ~Running

Launch(b) ==
  /\ run.phase = "none"       \* bound: one run
  /\ Saves([row EXCEPT !.status = "sending"], b)
  /\ run' = [run EXCEPT !.phase = "sending"]
  /\ feed' = [feed EXCEPT !.status = "sending"]
  /\ ticker' = [ticker EXCEPT !.at = "select"]

Start(a) ==
  \/ Startable /\ Launch(a = Other) /\ Answer(a, "start", TRUE) /\ UNCHANGED says
  \/ ~Startable /\ Refuse(a, "start")

SchedulerStarts ==
  /\ row.status = "scheduled"
  /\ Launch(TRUE)
  /\ UNCHANGED <<says, req, made>> /\ RequestStep /\ KeepBrowser

\* HandleSchedule and HandleCancelSchedule.
Reschedule(a, op) ==
  LET from == IF op = "schedule" THEN "draft" ELSE "scheduled"
      to == IF op = "schedule" THEN "scheduled" ELSE "draft" IN
  \/ /\ row.status = from
     /\ Write(to) /\ Answer(a, op, TRUE) /\ Untold(a = Other) /\ Calm
     /\ UNCHANGED <<run, feed, ticker, says>>
  \/ /\ row.status # from
     /\ Refuse(a, op)

\* Pause and Resume up to the unlock in SetStatus: the flags, then the snapshot.
Turned(op) == IF op = "pause" THEN "paused" ELSE "sending"

Turn(a, op) ==
  \/ /\ Running
     /\ run' = [run EXCEPT !.paused = (op = "pause"), !.status = Turned(op)]
     /\ SetStatus(a, Turned(op))
     /\ req' = [req EXCEPT ![a] = [at |-> "telling", op |-> op, ok |-> TRUE]]
     /\ Calm /\ UNCHANGED <<row, ticker, seen>>
  \/ /\ ~Running
     /\ Refuse(a, op)

Cancel(a) ==
  \/ /\ Running
     /\ run' = [run EXCEPT !.status = "cancelled", !.ctxDone = TRUE]
     /\ Answer(a, "cancel", TRUE) /\ Calm
     /\ UNCHANGED <<row, feed, ticker, says, seen>>
  \/ /\ ~Running
     /\ Refuse(a, "cancel")

Serve(a, op) ==
  /\ req[a].at = "idle"
  /\ made < MaxRequests /\ made' = made + 1
  /\ CASE op = "start" -> Start(a)
       [] op \in {"schedule", "unschedule"} -> Reschedule(a, op)
       [] op \in {"pause", "resume"} -> Turn(a, op)
       [] op = "cancel" -> Cancel(a)
  /\ RequestStep

\* Pause and Resume, after their broadcasts: the UPDATE and the answer.
TurnRecords(a) ==
  /\ req[a].at = "telling" /\ says[a].at = "said"
  /\ Saves([row EXCEPT !.status = Turned(req[a].op)], a = Other)
  /\ Answer(a, req[a].op, TRUE)
  /\ says' = [says EXCEPT ![a] = Silent]
  /\ UNCHANGED <<run, feed, ticker, made>> /\ RequestStep /\ KeepBrowser

Says(p) == AnnouncesProgress(p) \/ AnnouncesStatus(p)

-----------------------------------------------------------------------------
(* The users *)

OtherActs(op) == op \in OtherOps /\ Serve(Other, op) /\ KeepBrowser

\* The buttons that the page's status shows.
Buttons(status) ==
  CASE status = "draft" -> {"start", "schedule"}
    [] status = "scheduled" -> {"unschedule"}
    [] status = "sending" -> {"pause", "cancel"}
    [] status = "paused" -> {"resume", "cancel"}
    [] OTHER -> {}

Loaded == query.data # NoRow

\* handleAction, to its await and after it.
PageActs(op) ==
  /\ Loaded /\ page.acting = "none" /\ op \in Buttons(page.status)
  /\ Serve(Page, op)
  /\ page' = [page EXCEPT !.acting = op]
  /\ UNCHANGED <<sock, query>>

\* invalidateQueries: a fetch under way is given up for a new one, unless there
\* is no campaign yet: then it is left to end.
MutInvalidatedJoins ==
  IF query.fetch # "idle" THEN query
  ELSE [query EXCEPT !.fetch = "asked", !.reply = NoRow]
Invalidated ==
  IF ~Loaded /\ query.fetch # "idle" THEN query
  ELSE [query EXCEPT !.fetch = "asked", !.reply = NoRow]

PageAnswered(heard) ==
  /\ req[Page].at = "answered" /\ (heard => req[Page].ok)
  /\ req' = [req EXCEPT ![Page] = NoRequest]
  /\ page' = [page EXCEPT !.acting = "none"]
  /\ query' = IF heard THEN Invalidated ELSE query
  /\ IF req[Page].ok /\ ~heard
     THEN Happens /\ Untold(TRUE)
     ELSE UNCHANGED <<haps, seen>>
  /\ UNCHANGED <<says, hub, wire, made, sock>> /\ KeepServer

-----------------------------------------------------------------------------
(* The page's query of the campaign *)

QueryStep == UNCHANGED <<says, req, hub, wire, made, haps, sock>> /\ KeepServer

FetchServed ==
  /\ query.fetch = "asked"
  /\ query' = [query EXCEPT !.fetch = "served", !.reply = row]
  /\ UNCHANGED <<page, seen>> /\ QueryStep

\* An equal campaign keeps its identity, and the effect on it does not run.
FetchDone ==
  /\ query.fetch = "served"
  /\ query' = [data |-> query.reply, fetch |-> "idle", reply |-> NoRow]
  /\ page' = IF query.reply = query.data THEN page
             ELSE [page EXCEPT !.status = query.reply.status, !.done = query.reply.done]
  /\ UNCHANGED seen /\ QueryStep

-----------------------------------------------------------------------------
(* The page's socket *)

\* ServeWS registers the client; onopen, the effect on isConnected and readPump
\* subscribe it.  Before its last part this is to the hub as if not yet begun.
SockOpens ==
  /\ sock = "connecting" /\ sock' = "open"
  /\ hub' = [hub EXCEPT !.inMap = TRUE]
  /\ UNCHANGED <<says, req, wire, query, page, made, haps, seen>> /\ KeepServer

\* The connection is lost, or refused.  The page does not connect again.
SockCloses ==
  /\ sock # "closed" /\ sock' = "closed" /\ Happens
  /\ wire' = <<>>
  /\ seen' = [seen EXCEPT
       !.missed = @ \/ \E i \in DOMAIN wire : wire[i].event = "status_change",
       !.lost = @ \/ \E i \in DOMAIN wire : wire[i].event # "status_change"]
  /\ UNCHANGED <<says, req, hub, query, page, made>> /\ KeepServer

ReceiveStep == UNCHANGED <<says, req, hub, made, haps, sock>> /\ KeepServer

Receives(event) ==
  /\ sock = "open" /\ wire # <<>> /\ Head(wire).event = event
  /\ wire' = Tail(wire)

\* The handlers of the effect at SendingPage.tsx:77.
OnProgress ==
  /\ Receives("progress")
  /\ page' = [page EXCEPT !.done = Head(wire).done]
  /\ UNCHANGED <<query, seen>> /\ ReceiveStep

OnStatusChange ==
  /\ Receives("status_change")
  /\ page' = [page EXCEPT !.status = Head(wire).status]
  /\ query' = Invalidated
  /\ seen' = [seen EXCEPT !.missed = @ \/ (~Loaded /\ query.fetch = "served")]
  /\ ReceiveStep

OnSendResults ==
  /\ Receives("send_results")
  /\ page' = [page EXCEPT !.results = @ \o Head(wire).results]
  /\ UNCHANGED <<query, seen>> /\ ReceiveStep

PageReceives == OnProgress \/ OnStatusChange \/ OnSendResults

-----------------------------------------------------------------------------
\* Nothing is asked, said or fetched.
Settled ==
  /\ ticker.at \in {"off", "select"} /\ wire = <<>> /\ query.fetch = "idle"
  /\ \A a \in Actors : req[a].at = "idle"

\* And the run is over.
Ended == Settled /\ run.phase = "over" /\ row.status \in Over

Browser ==
  \/ \E heard \in BOOLEAN : PageAnswered(heard)
  \/ FetchServed \/ FetchDone \/ PageReceives

\* The goroutines, the network and the page go on; the users, the scheduler, the
\* clock of the tickers and the failures need not.
System ==
  \/ Run \/ TickerSendsProgress \/ TickerSendsResults \/ TickerEnds
  \/ \E p \in Actors \cup {Runner} : Says(p)
  \/ \E a \in Actors : TurnRecords(a)
  \/ HubUnregisters
  \/ Browser

Next ==
  \/ System
  \/ TicksProgress \/ TicksResults
  \/ SchedulerStarts
  \/ \E op \in Ops : OtherActs(op) \/ PageActs(op)
  \/ SockOpens \/ SockCloses

Fairness == WF_vars(System)

Spec == Init /\ [][Next]_vars
FairSpec == Spec /\ Fairness

-----------------------------------------------------------------------------
(* Properties *)

Statuses == {"draft", "scheduled", "sending", "paused"} \cup Over
Rows == [status : Statuses, done : Nat, ver : Nat \ {0}] \cup {NoRow}
ResultNumbers == Seq(1..Pending)
Events ==
  [event : {"progress"}, done : 0..Pending]
    \cup [event : {"status_change"}, status : Statuses]
    \cup [event : {"send_results"}, results : ResultNumbers]

\* The types of the variables.
TypeOK ==
  /\ row \in Rows \ {NoRow}
  /\ run \in [phase : {"none", "sending", "saving", "recording",
                       "announcing", "over"},
              n : 0..Pending, paused : BOOLEAN, ctxDone : BOOLEAN,
              status : {"sending", "paused", "cancelled"}, verdict : Over \cup {"none"}]
  /\ feed \in [status : Statuses \cup {"none"}, results : ResultNumbers]
  /\ ticker \in [at : {"off", "select", "progress", "results"}, done : 0..Pending,
                 results : ResultNumbers]
  /\ says \in [Actors \cup {Runner} ->
                 [at : {"idle", "progress", "status", "said"},
                  status : Statuses \cup {"none"}, done : 0..Pending]]
  /\ req \in [Actors -> [at : {"idle", "telling", "answered"},
                         op : Ops \cup {"none"}, ok : BOOLEAN]]
  /\ hub \in [inMap : BOOLEAN, open : BOOLEAN]
  /\ wire \in Seq(Events) /\ Len(wire) <= Buffer
  /\ sock \in {"connecting", "open", "closed"}
  /\ query \in [data : Rows, fetch : {"idle", "asked", "served"}, reply : Rows]
  /\ page \in [status : Statuses \cup {"none"}, done : Nat, results : ResultNumbers,
               acting : Ops \cup {"none"}]
  /\ made \in 0..MaxRequests /\ haps \in 0..MaxHaps
  /\ seen \in [missed : BOOLEAN, lost : BOOLEAN, late : BOOLEAN, untold : BOOLEAN,
               unsaved : BOOLEAN, panic : BOOLEAN]

\* The end, once every status_change has come to the page, is shown whatever else
\* was asked, answered or lost: the UPDATE of runCampaign precedes its SetStatus,
\* so no refetch brings back an older status.  Not so if a statement failed: the
\* status of a Pause that is not saved comes after the end and is announced.
FinalStatusShown ==
  Ended /\ ~seen.missed /\ ~seen.unsaved => page.status = row.status

\* Before it, while nothing changes the row behind the page's back (the scheduler,
\* another user, a lost answer), the page's own requests and the run's
\* announcements leave it with the row's status: handleAction refetches after the
\* answer, and a fetch made before it cannot win.  Not so if a statement failed: a
\* Pause is announced whether or not it is saved.
OwnStatusShown ==
  Settled /\ run.phase \in {"none", "sending"}
  /\ ~seen.missed /\ ~seen.untold /\ ~seen.unsaved => page.status = row.status

\* When all is settled the page shows the row's status (SendingPage.tsx:89, 125).
StatusShown == FinalStatusShown /\ OwnStatusShown

\* The counts of SetStatus and of the row agree at the end of a campaign's first
\* run, so the page ends on the row's counts, unless a snapshot of the ticker
\* goes out after the last or a statement failed.
FinalCountsShown ==
  Ended
  /\ ~seen.missed /\ ~seen.lost /\ ~seen.late /\ ~seen.unsaved
    => page.done = row.done

\* FlushResults gives each result to one broadcast, the ticker's or the run's:
\* the page lists none twice, and all at the end unless a message was lost.
ResultsShownOnce ==
  /\ \A i, j \in DOMAIN page.results : page.results[i] = page.results[j] => i = j
  /\ Ended /\ ~seen.lost => Len(page.results) = run.n

\* No broadcast sends on the channel that unregister has closed (a panic that
\* would take the server down).
NoSendOnClosed == ~seen.panic

\* A row that is over for good is shown so in the end by a page that has missed
\* no status_change, if no statement failed.
EndIsShown ==
  <>[](row.status \in Over) =>
    <>[](page.status = row.status \/ seen.missed \/ seen.unsaved)

-----------------------------------------------------------------------------
(* The invariant behind these properties.                                  *)

\* What is on a wire w: a message of a kind, the last one of it, and no snapshot
\* after the last status.
Has(w, kind) == \E i \in DOMAIN w : w[i].event = kind
IsLast(w, i) == \A j \in DOMAIN w : j > i => w[j].event # w[i].event
LastStatus(w, s) ==
  \A i \in DOMAIN w : w[i].event = "status_change" /\ IsLast(w, i) => w[i].status = s
LastProgress(w, d) ==
  \A i \in DOMAIN w : w[i].event = "progress" /\ IsLast(w, i) => w[i].done = d
StatusEnds(w) ==
  \A i \in DOMAIN w :
    w[i].event = "progress" => \E j \in DOMAIN w : j > i /\ w[j].event = "status_change"

Telling(a) == req[a].at = "telling"

\* Who says what, and what the run has written to the row.
StageInv ==
  /\ run.phase \in {"recording", "announcing"} => run.verdict \in Over
  /\ \A a \in Actors : IF Telling(a)
                       THEN says[a].at # "idle" /\ says[a].status = Turned(req[a].op)
                       ELSE says[a].at = "idle"
  /\ says[Runner].at # "idle" => /\ run.phase = "announcing"
                                 /\ says[Runner].status = run.verdict /\ says[Runner].done = run.n
  /\ IF run.phase = "none"
     THEN /\ run.n = 0 /\ row.status \in {"draft", "scheduled"}
          /\ ~Has(wire, "status_change") /\ \A a \in Actors : ~Telling(a)
     ELSE ~seen.unsaved => row.status \in {"sending", "paused"} \cup Over
  /\ row.status \in Over => \/ run.phase = "announcing" /\ row.status = run.verdict
                            \/ run.phase = "over"
  /\ ~seen.unsaved => row.done = IF run.phase \in {"announcing", "over"} THEN run.n ELSE 0

\* What is fetched was the row; the page acts on a campaign that it has.
QueryInv ==
  /\ query.data.ver <= row.ver
  /\ query.fetch = "served" => query.reply # NoRow /\ query.reply.ver <= row.ver
  /\ req[Page].at # "idle" => Loaded

\* The hub forgets a client before its channel is closed.
ChannelInv ==
  /\ ~seen.panic
  /\ hub.inMap \/ sock = "connecting" => hub.open

\* The row is final, and nobody is about to write to it again.
RowFinal == row.status \in Over /\ \A a \in Actors : ~Telling(a)
Announced == run.phase = "over" \/ says[Runner].at = "said"

\* The page has the row's status, or will have it: by a status_change on its way,
\* by the fetch under way, or by the one that follows the answer to its request.
StatusKnown ==
  /\ LastStatus(wire, row.status)
  /\ query.data = row => page.status = row.status \/ Has(wire, "status_change")
StatusComes ==
  \/ Has(wire, "status_change")
  \/ /\ query.fetch = "served" => query.reply = row
     /\ query.fetch = "idle" => page.status = row.status
WillAsk == req[Page].at = "answered" /\ req[Page].ok
OwnOnly == ~seen.untold /\ ~Telling(Other) /\ run.phase \in {"none", "sending"}

StatusInv ==
  ~seen.missed /\ ~seen.unsaved =>
    /\ RowFinal /\ Announced => StatusKnown /\ StatusComes
    /\ OwnOnly => IF Telling(Page)
                  THEN says[Page].at = "said" => LastStatus(wire, says[Page].status)
                  ELSE StatusKnown /\ (StatusComes \/ WillAsk)

\* The same of the row's counts, from the last snapshot on.
CountsKnown ==
  /\ LastProgress(wire, row.done)
  /\ query.data = row => page.done = row.done \/ Has(wire, "progress")
CountsCome ==
  /\ StatusEnds(wire)
  /\ \/ Has(wire, "status_change")
     \/ /\ query.fetch = "served" => query.reply = row
        /\ query.fetch = "idle" => page.done = row.done

CountsInv ==
  RowFinal /\ (Announced \/ says[Runner].at = "status")
  /\ ~seen.missed /\ ~seen.lost /\ ~seen.late /\ ~seen.unsaved =>
    CountsKnown /\ (Announced => CountsCome)

\* Each result is on the page, on the wire, with the ticker or not yet flushed, in
\* one of these places and once.
BatchOf(m) == IF m.event = "send_results" THEN m.results ELSE <<>>
Wired(w) == UNION {Range(BatchOf(w[i])) : i \in DOMAIN w}
WiredOnce(w) ==
  /\ \A i \in DOMAIN w : IsInjective(BatchOf(w[i]))
  /\ \A i, j \in DOMAIN w : Range(BatchOf(w[i])) \cap Range(BatchOf(w[j])) # {} => i = j

ResultsInv ==
  LET P == Range(page.results)
      W == Wired(wire)
      T == Range(ticker.results)
      F == Range(feed.results)
  IN /\ ticker.at # "results" => ticker.results = <<>>
     /\ run.phase # "sending" => feed.results = <<>>
     /\ IsInjective(page.results) /\ WiredOnce(wire)
     /\ IsInjective(ticker.results) /\ IsInjective(feed.results)
     /\ P \cap W = {} /\ (P \cup W) \cap T = {} /\ (P \cup W \cup T) \cap F = {}
     /\ P \cup W \cup T \cup F \subseteq 1..run.n
     /\ ~seen.lost => 1..run.n \subseteq P \cup W \cup T \cup F

PageInv ==
  TypeOK /\ StageInv /\ QueryInv /\ ChannelInv /\ StatusInv /\ CountsInv /\ ResultsInv

=============================================================================
