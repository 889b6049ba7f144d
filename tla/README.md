# manty-blast-mail in TLA+

manty-blast-mail is a bulk mailer: a Go server with a web interface in React, in
which users write campaigns, upload recipients, and start, pause, resume, cancel
or schedule the sending of a campaign. This directory holds TLA+ models of the
parts where its goroutines, its HTTP requests, its database and its pages meet,
the TLC configurations that check them, and proofs that TLAPS checks.

Paths below are relative to `src/`; `service.go` alone is
`internal/sender/service.go`, and `worker.go` is beside it; a file that ends in
`.tsx` is under `web/src`.

## 1. Inventory

### Sending pipeline (`internal/sender`)

*State.* One `CampaignRunner` per running campaign: the atomic flag `paused`,
the channel `pauseCh` (one slot), a context with its `cancel`, a `status`
string, a `ProgressCollector` with all results, a `RateLimiter`. One dispatcher
goroutine, `WorkerCount` workers, a channel of `2 * WorkerCount` jobs. In the
database: `recipients.status` and the campaign's row.

*Operations.* The dispatcher loads pages of the recipients that are pending
(`LIMIT`/`OFFSET`) and feeds them to the channel. A worker takes a job, waits at
the pause gate, waits for the limiter, builds the message, calls `mailer.Send`,
adds the result. When the dispatcher is through, `runCampaign` waits for the
workers, saves the results in transactions of 100, chooses the final status,
updates the row's status and counters, and removes its runner from the map.
`Pause`, `Resume`, `Cancel` and `SetRate` act on the runner and on the row.

*Hard.* The page offset counts rows of a query whose result other requests
change. Pause and Cancel race with workers already past the gate or the limiter.
One token wakes one worker. The dispatcher may block on a full channel while the
workers wait at the gate. Nothing is saved before the last worker is gone. Each
SQL statement may fail, and most failures are only logged.

*Correct when* nobody is mailed twice in a run; a paused or cancelled run stops
after the messages already under way; the run ends; the table and the counters
end up telling what was sent; a run that ends completed has skipped nobody.

### Send control and scheduler (`service.go`, `internal/campaign/handler.go`, `cmd/server/main.go`)

*State.* The map `runners`, the campaign's row, the recipients.

*Operations.* `Start` (looks at the map, reads the row, reads the pending
recipients, saves the row, registers and launches); `Pause`, `Resume`, `Cancel`;
`HandleSchedule`, `HandleCancelSchedule`; the scheduler's tick, which starts what
is due and gives back as draft what `Start` refuses; `Update`, `ResetToDraft`;
the recovery at startup, which turns `sending` into `paused`.

*Hard.* The lock on the map is not held from the check to the registration. The
handlers save every column of a row they read earlier. The runner is in memory
and the status in the database, so a crash separates them; outcomes not yet saved
are lost and sent again.

*Correct when* a campaign has one run; its row agrees with the runners; a
duplicate message needs a crash or a failing save; a saved outcome is final until a
reset; a schedule is handled.

### Recipients (`internal/recipient`)

*State.* The table of recipients and the row's `total_count`. *Operations.*
Upload (Excel, CSV in several encodings), Manual, Delete, DeleteAll; all of them
read the campaign's row first and save it whole at the end. *Hard.* None of them
looks at the campaign's status: they interleave with a run. *Correct when* a run
keeps its promises whatever they do, and the counters stay those of the table.

### Progress feed and WebSocket hub (`progress.go`, `internal/websocket`)

*State.* The collector's counters, unflushed results and status; the hub's
clients, each with a buffer of 256 messages. *Operations.* Two tickers broadcast
progress and flush results; `SetStatus` broadcasts the final state; the hub
registers and unregisters clients and drops messages for slow ones. *Hard.*
`Stop` does not wait for the ticker, so a snapshot taken before the end may be
broadcast after the final one, and results not yet flushed are never broadcast;
a full buffer loses a final status. *Correct when* a client that keeps up learns
the final state and no closed channel is written to.

### Mailer connection pool (`internal/mailer/mailer.go`)

*State.* A channel of `PoolSize` SMTP connections. *Operations.* Take (with a
NOOP), dial, put back or close. *Hard.* The connection broken between NOOP and
use, the full pool, no deadline after the dial. *Correct when* a connection has
one user, every connection ends in the pool or closed, and the pool's bound holds.

### Users, sessions, login (`internal/auth`)

*State.* Users with a role (`admin`, `user`, `pending`); sessions in cookies,
with a copy of the role; failed logins per name, in memory. *Operations.* Login,
logout, OAuth callback, create, delete, change of role. *Hard.* The copied role
is stale until the next login; two role changes overlap; attempts are counted
apart from the check of their number. *Correct when* an administrator remains,
and the limit on attempts holds.

### Attachments (`internal/attachment`)

*State.* Rows and files. *Operations.* Upload (sum of sizes, a free name, file,
row), Delete (file, row). *Hard.* Sum and free name are checked before the file
is created; file and row are two steps. *Correct when* each row has its own file
and the sum stays within the limit.

### Search index (`internal/search`)

*State.* A Bleve index and the time of the last Sync. *Operations.* Incremental
Sync at startup and every so often, index and delete beside the requests.
*Hard.* Sync looks for deleted campaigns only. *Correct when* the index catches
up with the database.

### Sending page and its socket (`pages/SendingPage.tsx`, `hooks/useWebSocket.ts`)

*State.* The status, the counts and the list of results that it shows; the cached
campaign; the buttons' `actionLoading`; one WebSocket, which never reconnects.
*Operations.* Load, the five buttons, and three events. A status change and an
answered button fetch the campaign again, and a fetched campaign overwrites the
status. *Hard.* The status has two sources, the events and the fetches, and each
may be older than the other. *Correct when* the page ends on the row's status.

### Compose page and campaign page (`pages/ComposePage.tsx`, `pages/CampaignDetailPage.tsx`)

*State.* The editors' fields and a `dirty` flag; a copy of the campaign in the
info tab; the pages and the search of the recipients tab; the cached queries.
*Operations.* Edit, save, preview (which saves), test mail (which the server
makes from the row), attach, detach, save of the info tab, upload, add, delete,
page, search. *Hard.* One row is written by two pages, each of which sends some of
its columns; a fetched row replaces what is being edited; answers come after
further edits; the cache is refetched under way. *Correct when* what is said to be
saved stays, what is tested is what is shown, no edit disappears behind the
user's back, and lists are of the table.

### Application shell and administration (`App.tsx`, `components/Layout.tsx`, `pages/AdminPage.tsx`)

*State.* Who is logged in; the list of accounts; the search box with its timer.
*Operations.* `checkAuth`, login, logout, the search, create, delete and change of
accounts. *Hard.* Page, cookie and account are three copies of one role; requests
cross. *Correct when* pages belong to a session, lists and results are those asked
for last.

### The rest

Message building (MIME, templates, iCalendar), encryption of single fields,
reports (read-only; the table `send_logs` that some of them read is written by no
code), the audit log (appended beside the operations it records), configuration
and server wiring. Of the web interface: the pages that show one query or submit
one form (list, new campaign, dashboard, reports, audit log, profile), and a rich
text editor (`EmailEditor.tsx`, `EditorToolbar.tsx`) that no page imports. They
are string layout, pure input and output, or read-only; `PROJECT.json` lists them
with the reason.

## 2. Modules

| module | models |
|---|---|
| `SendPipeline` | one run of one campaign: dispatcher, channel, workers, pause gate, limiter admission, `runCampaign`, `saveResults`; Pause, Resume, Cancel, SetRate; the recipient requests meanwhile |
| `SendContract` | the abstract specification of a run: each recipient attempted at most once, outcomes reported as they happened and recorded only when no attempt can follow |
| `SendPipelineProofs`, `SendPipelineOutcomes` | theorems about `SendPipeline`: what it sends; what it leaves behind, and that it implements `SendContract` |
| `SendControl` | a campaign over several runs: Start in its five steps, Pause/Resume/Cancel, the row handlers, the scheduler, crash and restart |
| `LiveProgress` | what a browser learns of a run: collector, ticker, hub client, socket, and the sending page |
| `CampaignContent` | a campaign's content as one browser edits it on two pages, its attachments, and the handlers behind |
| `RecipientList` | the recipients, their number, and the recipients tab |
| `AppShell` | session, accounts and search box |
| `SendControlProofs`, `LiveProgressProofs`, `CampaignContentProofs`, `RecipientListProofs`, `AppShellProofs` | theorems about each of the others |
| `NumberFacts` | lemmas about sets of numbers: least and greatest members, members by rank |
| `MC...` | values for TLC |

A definition named `Mut...` is a faulty form of the definition that follows it,
the way a plausible bug would write it; nothing in the specifications refers to
it. `PROJECT.json` says which property rejects which.

### SendPipeline

Every action is one atomic access of the program: a channel operation, a
critical section, a load or store of an atomic, or an SQL statement.

| variables | code |
|---|---|
| `rcpt`, `nextId` | `recipients.status` by id, `absent` where there is no row; the auto-increment key |
| `row` | the campaign's status, `total_count`, `sent_count`, `failed_count` |
| `dpc`, `offset`, `batch`, `size` | `Dispatcher.Run`: where it is, its offset, what is left of its page, the page's length |
| `jobs`, `wpc`, `job` | the jobs channel; each worker's place in `processJob` and its job |
| `paused`, `pauseCh`, `ctxDone`, `runnerStatus`, `burst`, `results` | `CampaignRunner`: the flag, the token, the context, the status, the limiter's burst, the collector's results |
| `phase`, `saved`, `verdict` | `runCampaign` after the dispatcher |
| `rpc`, `snap`, `asked` | the HTTP requests: place, row read, number made |
| `fed`, `mails`, `pausedSends`, `cancelledSends`, `faults` | history; no action's guard reads it except `faults`, which bounds the failing statements |

Points where the model follows the code closely and a reader may stumble:

- `DispatcherFeed` and `DispatcherGivesUp` are the two cases of one `select`:
  after a cancellation either may happen while the channel has room.
- `WorkerWakes` is the token of a Resume *or* the 500 ms timer. The timer is made
  anew in each round of the loop, so it does not fire when the other cases are
  ready; hence its guard.
- `limiter.Wait` fails at once after the cancellation, and when the burst is
  below one (a negative rate limit passes the handler that creates a campaign);
  the worker then drops the job and reports nothing: `WorkerDrops`.
- `WorkerSends` has three outcomes, one of them an accepted message whose reply
  is lost: it is reported as failed.
- In `RunnerSaves` any subset of a transaction's updates may fail (logged), or all
  of them (a failed commit).
- Loading in the order of the primary key is an assumption: `loadBatch` has no
  `ORDER BY`. Both stores (MySQL/InnoDB and SQLite) return this query's rows by
  primary key with the indexes that the migrations create.

### SendControl

A run is reduced to its recipients' progress (loaded, admitted, attempted,
reported, saved); channel and paging are `SendPipeline`'s. A request is its
accesses in order, with the row it read in `snap` and the runner it looked up in
`target`: both may be stale by the time they are used. The scheduler is a process
that runs `Start` and rewrites the row when it is refused. `CrashAndRestart`
empties memory, keeps the database, and applies main's recovery. `mails` counts
the messages since the last reset, for a reset means sending again.

A request of recipients (`"recipients"` in `Ops`) is seen from the row: it reads it,
whatever its status, and saves all of it later. Any statement may fail (`Fails`), and
the code mostly goes on: the UPDATE of a recipient or the commit of a batch
(`RunSaves`), the final UPDATE (`RunRecords`), Start's Save (`StartSaves`), the status
of Pause and Resume (`WriteStatus`), the recovery (`CrashAndRestart`), a page of
recipients (`RunLoads`). What this leaves behind is in three history variables: `lost`
counts for each recipient the outcomes that a failing save lost, `unsaved` those of
them that the row counts all the same, and `off` says that the row may be off its
runs since the server started.

### LiveProgress

One page from its mount, one run, one more user. `TableTellsTruth` and the like
are `SendPipeline`'s: here the run is only its number of results, its final status
and the order in which it records and announces it.

| variables | code |
|---|---|
| `row` | status, `sent_count + failed_count` (`done`), and `updated_at` (`ver`) |
| `run`, `feed`, `ticker` | the `CampaignRunner`; the `ProgressCollector`; its goroutine, between its `select` and its broadcast |
| `says` | each call of `SetStatus`: the snapshot it took under the lock, and which of its two broadcasts is next |
| `req` | a request of the page or of the other user |
| `hub`, `wire` | whether the hub's map has the client, whether its channel is open; the channel and the network behind it |
| `sock`, `query`, `page` | `useWebSocket`; the react-query entry; the component's state |
| `seen` | history: whether an event passed the page by, a snapshot went out late, the row was written without an event, or a statement that should have written it failed |

`SetStatus` unlocks before it broadcasts, and `Pause` and `Resume` broadcast
before they write the row, so `Turn`, `Says` and `TurnRecords` are separate
steps. `Start` and the scheduler broadcast nothing. A request is served in the
step that makes it, for on its way it changes nothing; its answer is separate.
`Saves` is a write whose error the code does not read (Start's Save, the UPDATE of
Pause and Resume, the final UPDATE): it may fail, and what follows it goes on.

### CampaignContent

A text is a number and 0 is the empty text, so that "empty is not sent" can be
told. A calendar is empty, built by the builder, *foreign* (the builder reads an
event from it but would write less than it held) or *opaque* (no event found).
The page's two `useEffect`s that keep the builder's fields and the text in step
are `Synced`; the one that loads a fetched row is `Loading`. A row request has two steps in
the server (`RowReads`, `RowWrites`), for each handler saves all columns of the
row it read; an upload three (`UploadChecks`, `UploadStores`, `UploadRecords`), a
deletion three. `elsewhere` is an upload from a second tab; the run's two writes
of the status are `RunTurns`. `mine` says that the component which made a request
is still mounted. `unsent` says whether the page holds an edit that no request has
carried, and whether something was under way when it was made; an edit made while
something was under way stays `busy` until a row is loaded over it, for a save that
follows may be answered and refetched in the same order. `joined` says that the
list of attachments joined a fetch under way, at a change or at a visit of the page.
`kept` is what the page last reported saved: `Kept` takes all that the page showed,
empty texts too, whatever the handler then does with them; `Given` is the handler's
rule.

### RecipientList

A recipient is its id; the search finds the odd ones, so that list, number of
pages and search interact. `cache` is the query cache by page and search, `cq`
the campaign's entry, from which the header has its number. A request's `copy` is
the `total_count` and the status of the row it read; it changes the table next and
saves the copy, plus or minus what it did, last, or fails to. `ResetToDraft`, whose
button is on the same page, sets the number to 0 and keeps the recipients. From
`Elsewhere` come a start, which counts the recipients anew, and an edit, which saves
the whole row it read; `RunEnds` is the end of the run that was started. `stranded`
says that recipients were deleted from a page behind the first, or while the user
turned to one; `seen.off` that the number was left wrong and not set right since,
`seen.behind` that the row was written from elsewhere since it was read.

### AppShell

`auth` is `AuthProvider`'s state, `cookie` the session with the role of the login,
`role` the table. `checks` are the calls of `checkAuth` under way, each with the
cookie it was sent with; a check may fail for any reason (`CheckFails`), which logs
the page out. The answer to a login may be lost after the cookie was set
(`LoginFailed`), a logout may fail or its answer be lost (`LogoutFails`), and the
cookie expires (`CookieExpires`, 24 hours after the login). `View` is what
`PrivateRoute` shows. An administrator's request has its check (`AdminChecks`) apart
from its write (`AdminWrites`), as the middleware and the handler have.

### The query cache

Three modules model react-query (version 5, external) by what the pages rely on:
`invalidateQueries` fetches an entry anew if a component uses it, gives up a fetch
under way when the entry has data, and joins it when it has none; a mount fetches
(`staleTime` is 0) or joins; an equal answer keeps the identity of the old one, so
that effects on it do not run.

### SendContract and the refinement

`KeepsContract` (in `SendPipeline`) instantiates `SendContract` with
`attempted` = the recipients with a result or whose worker has called
`mailer.Send`, `told` = the results, `open` = the phase in which workers run. So
the contract's `Close` is `RunnerJoins`, `Record` is `RunnerSaves`, `Edit` the
recipient requests, and everything else of the pipeline stutters or is an
`Attempt` or a `Report`.

## 3. Runs

| run | question | bounds |
|---|---|---|
| `pipeline_safety` | do two overlapping requests of any kind and a failing statement break a run's promises? All safety properties, the inductive invariant `RunInv`, and the refinement | 2 workers, 2 requests, 2 recipients and 1 more by upload, pages of 1, transactions of 2; 2.2 million states |
| `pipeline_liveness` | does a run end, and a cancelled one even while paused? | 1 worker, a channel of 2, 4 recipients, pages of 2 (a full last page and an empty one after it), a rate limit of -1 until SetRate, 2 requests |
| `control_user` | one user, one request at a time, two crashes and a failing statement anywhere, stale rows saved by requests of recipients: one run, a row that agrees with the runners, a duplicate only by a crash or a lost save; the inductive invariant `UserInv` | 2 recipients, 6 requests, 3 runs, 2 crashes, 1 failing statement |
| `control_scheduler` | the scheduler against two overlapping requests (no Start among them) and a failing statement: is the run reachable, the schedule handled? | 1 recipient, 4 requests, 3 runs, 1 failing statement |
| `live_progress` | does a page that gets its events end on the truth, with a full buffer, lost answers, a lost connection, a failing UPDATE and another user? The inductive invariant `PageInv` | 2 recipients, a buffer of 2, 2 requests, 1 tick, loss or failing UPDATE; 720 thousand states |
| `campaign_content` | does what is saved stay, is what is tested shown, do rows and files of attachments agree? The inductive invariant `ContentInv` | three campaigns to start from, 2 requests in flight when a third is made, 2 files; up to 4 acts on the row, or 3 and a step of the run, or 3 on the files and an upload elsewhere; 1.7 million states |
| `recipient_list` | do header, row, table and list agree, with resets, starts and edits from elsewhere and failing saves? | pages of 1, up to 4 recipients, 2 requests in flight, 3 acts; 2.9 million states |
| `app_shell` | do page, session and accounts agree, is an administrator left, are results of the text? | 2 administrators, one user, one newcomer; 4 acts on the session with one of an administrator and one of the search, or 3 with two faults (a failed or lost request, an expired cookie) and one of an administrator, or 1 and 2 of administrators, or 5 on the search; 2.5 million states |
| `cancel_then_resume` | finding: a cancelled run that ends completed | |
| `delete_while_sending` | finding: a deletion makes the dispatcher skip a recipient | |
| `start_twice` | finding: two overlapping Starts launch two runs | |
| `paused_without_runner` | finding: a paused campaign that Resume and Cancel refuse | |

*Why the bounds are enough to be interesting.* With pages of one row and two or
three rows, every deletion, upload and save can fall between two pages. Two
workers and a channel of four let one worker send while the other waits. Two
requests are what a race of users needs. A second transaction of `saveResults` occurs with
three recipients and transactions of two. The channel fills up only in
`pipeline_liveness`, where the capacity is two and there are four recipients. It has
one worker; that one token of Resume is enough for several was checked apart, with
the same configuration but two workers and three recipients (370 thousand states): two
workers and the seven recipients that would fill their channel are beyond the time of
a run. The theorems of section 5 hold for every value of these constants.

The pages' runs are as small as lets two requests overlap and one fetch fall
between them: two results and a buffer of two fill it up (a progress message, a
status change and a batch of results compete); two files are the limit, so a
third is refused; pages of one recipient have a next page, a last one and an
empty one with three; two administrators are what it takes to remove each other.
Each of `campaign_content` and `app_shell` has its acts in a few *budgets*, since
acts on the row, on the files and on the session meet in few states; a budget
that mixes all is beyond the time of a run.

Requests, failures, runs and crashes are counted (`MaxRequests`, `MaxFaults`,
`MaxRuns`, `MaxCrashes`) and uploads stop at `MaxId` (`MaxRcp`, beyond which
no page is turned to either: a table has no more pages than rows); in the pages'
modules so are ticks, losses and failing statements (`MaxHaps`), what the user does
and, in `AppShell`, what fails (`MaxActs`, `Budgets`) and requests in flight (`MaxInFlight`; two fetches or searches of one
kind in `AppShell`, whose administrators have one request each). Those are the
only bounds in guards, with one more: `LiveProgress` launches one run. Workers,
clients and (in `SendControl`) recipients are symmetric; runs with liveness
properties use no symmetry. Deadlock is checked in the runs of `SendPipeline` and
`SendControl`: the only state without a successor of its own is the end (`Stop`,
in which the run is over, or in `SendControl` over or parked at the pause gate,
and no request is in progress). In the pages' runs the system may stop where the
users stop, and deadlock is not checked.

### Properties

- `NoDoubleSend`: one message per recipient and run, at most.
- `PauseBound`, `CancelBound`: after Pause (Cancel) has set its flag, one more
  message per worker at most. The code promises no less and no more: a worker
  past the gate or past the limiter sends.
- `TableTellsTruth`, `CountersMatchTable`, `RunCoversTable`: what the database
  says when the run is over. They suppose that no SQL statement failed (a failed
  one is only logged); the last two suppose that nobody deleted recipients
  meanwhile, for what happens then is a finding.
- `RunEnds`, `CancelEnds`: termination.
- `OneRun`, `RunIsRegistered`, `RunningRow`, `SendingHasRunner`: map, row and
  runs agree. The last two except, by `off`, what a failing statement or the stale
  row of a request of recipients leaves until the next restart, and
  `SendingHasRunner` supposes in its run that nobody resumes.
- `DuplicatesNeedFailures`: between two resets a recipient is mailed once, and once
  more at most for each crash and for each outcome of his whose save failed.
- `CountersBounded`: a recipient is counted twice only for an outcome that was
  counted and not saved. `SavedIsFinal`: who is saved is not mailed again.
- `ScheduleIsHandled`: a due campaign leaves the status `scheduled`.

Of the pages. Each supposes away, by name, the orders in which the code does break
it; section 4 lists them. *Quiet* means that nothing is asked or fetched.

- `StatusShown`: the page that got its status changes ends on the row's status,
  and shows it before, too, unless the row changed without an event or a statement
  failed. It rests on
  two orders: the last UPDATE before the last announcement, and a fetch given up
  for the one that an event or an answer asks for.
- `FinalCountsShown`, `ResultsShownOnce`: the counts are the row's in the end, and
  every result is listed once, whether the ticker or the end of the run sends it.
- `NoSendOnClosed`: no broadcast goes to a channel that `unregister` has closed.
- `EndIsShown`: a row that is over for good is shown so.
- `TestMailIsShown`, `PreviewIsOfPage`: the server's mail and preview, made from
  the row, are of what the page showed when they were asked for.
- `SavedStays`: what the page showed when it reported a save is in the row, and is
  not undone by another page that writes other columns of it. Two things are
  excepted: a text that was emptied (`Holds`), and the calendar that the info tab
  switches off (`Told`).
- `CacheIsFresh`, `TabIsFresh`: what is on the screen is what the server has.
- `EditsSurvive`: an edit made while nothing was under way leaves the page only by
  a save, a preview, or with the page.
- `FilesAgree`: attachments, files and limit.
- `TotalsAgree`: `total_count` is the number of recipients, while requests do not
  overlap, and except between a reset, a failed save or the deletion of someone gone
  and the next clearing or start.
- `PagesCover`: paging and searching lead to every recipient there is.
- `SessionAgrees`: page and cookie agree on who is logged in. Excepted are, in one
  direction, the back button and a session that ended unseen (an expired cookie, a
  lost answer to PendingPage's logout), in the other, checks that crossed or failed
  and a login whose answer was lost.
- `PagesCanWork`: whoever is shown the pages is not refused as pending by the API
  behind them, but for an approval after the login and the same crossed or lost answers.
- `SomeAdminLeft`, `ListShowsOwn`: of the accounts; `ResultsAreOfText`: of the
  search box.

`RunInv`, `UserInv`, `PageInv` and `ContentInv` are the inductive invariants behind
the properties of their modules, each with the module's `TypeOK` in it; `RunCoversTable`
and the rest follow from them in section 5. Those of `RecipientList` and `AppShell`
are defined beside their proofs; TLC has checked them, too, on the bounds of the two
runs, outside the runs listed above.

### Fairness

`FairSpec` gives weak fairness to the goroutines (dispatcher, each worker,
`runCampaign`, the scheduler) and to each request that has begun: Go's scheduler
runs what can run, and a handler is not abandoned. Clients owe nothing: whether a
request comes at all is not fair, nor is a crash. Two assumptions are the
environment's: the mail server answers or hangs up (`WorkerSends`; the code sets
no deadline after the dial, so a silent server blocks a worker and with it the
end of the run), and database statements return. Weak fairness suffices since
each of these actions, once enabled, stays enabled until it or a rival of the
same process is taken, with one exception: a worker at the gate of a paused run
goes round (`WorkerGate`, `WorkerWakes`), which is why `RunEnds` supposes that
the run is not paused for ever.

In `LiveProgress` weak fairness is of `System` as a whole: goroutines, network and
page go on until nothing of theirs is left to do, each step using up something
finite (a result, a message, an answer, a fetch). Users, the scheduler, the clock of the ticker, and the
losses owe nothing. The other modules of the pages state safety only.

## 4. Where the code and its promises part

With a run and a counterexample (`PROJECT.json`, `findings`):

1. `cancel_then_resume`: the final status is read from `runner.status`, which
   Pause and Resume overwrite after Cancel; the campaign ends `completed` with
   pending recipients.
2. `delete_while_sending`: the offset counts rows of a shrinking result; a
   deletion between two pages makes the dispatcher skip a recipient.
3. `start_twice`: `Start` is not atomic; two at once launch two runs.
4. `paused_without_runner`: after a restart, or after a Pause that overtakes the
   end of its run, the campaign is `paused` and has no runner.

Met while modelling, without a run of their own:

- `Update` (campaign/handler.go:190-237) and `HandleCancelSchedule`
  (service.go:635-655) read the row, check its status and save all columns. A
  Start in between is overwritten: the row says `draft` while the run goes on.
  `control_user` and `control_scheduler` keep those two pairs apart, by one
  client, and by checking no property there that relates the row to the runs.
- Deleting the same recipient twice lowers `total_count` twice
  (recipient/handler.go:340). Uploads, additions and deletions save a status and
  counters that may be old (lines 126, 216, 344, 392): one that was read during a run
  and saved after its end leaves the campaign `sending` without a runner until the
  next restart, and takes back the run's counts.
- `ResetToDraft` sets `total_count` to 0 and keeps the recipients
  (campaign/handler.go:330-333); the header says 0 until a start counts them.
- Resume of a run that is ending may write `sending` after the final update; that
  campaign can be neither started nor edited until a restart.
- A campaign with a negative rate limit completes with nothing sent.
- Most failing statements are only logged, or not even read. A result whose UPDATE
  (service.go:315) or commit (line 312) failed stays `pending` and is counted: the
  next Start mails the recipient again, and counts him again. A final UPDATE that
  failed (line 286) leaves the campaign `sending` without a runner; Start's Save
  (line 152) leaves a draft whose run goes on; Pause and Resume (lines 342, 370)
  announce a status that the row does not get.

On the sending page (exceptions of the properties of `LiveProgress`):

- `Stop` does not wait for the ticker: its last snapshot, or batch of results, may
  go out after the final ones.
- A page whose socket closed, or whose client's buffer was full, is not told and
  does not ask: it stays as it was until it is loaded again. `Start` and the
  scheduler announce nothing, so other pages do not learn that a run began.
- `Pause` and `Resume` announce before they write the row; whoever fetches in
  between gets the old status, and no event follows.
- A Pause that overtakes the end leaves the row `paused` and the page `completed`.
- A second run counts from zero while the row's counts go on; a page shows the one
  after an event and the other after a fetch.
- docs/USER_GUIDE.md:236 lists only pause for a campaign that is sending; the page
  has cancel, too.

On the compose and campaign pages (of `CampaignContent`):

- Saving the info tab switches the calendar off: it sends no `ics_enabled`, and the
  handler takes that for false (campaign/handler.go:229).
- A body, a calendar or a field of the info tab that is emptied is never saved, and
  the page says that it was (ComposePage.tsx:311): empty means "not given" to the
  handler (campaign/handler.go:207-232).
- Edits made while a save is under way are marked clean when it is answered, and
  lost when the row it wrote is fetched.
- Switching the calendar between builder and text does not mark the page dirty; a
  foreign calendar opens in the builder and is cut to what that can write.
- A page that was switched to MIME stays in that mode when an HTML row is fetched, and
  its preview is of the stored HTML body.
- Leaving the page drops its edits without a question.
- Two overlapping uploads may choose one path, and exceed the limit together.

On the recipients tab (of `RecipientList`):

- Overlapping requests lose counts, and a recipient deleted twice counts twice.
- Deleting the last recipient of the last page leaves the user on a page that says
  there are none (web/src/i18n/locales/en.json:149), without a pager.
- A change during the first fetch of a list is joined to it, and not seen.

In the shell (of `AppShell`):

- A user who is approved and refreshes is shown the pages, but the API refuses him
  until he logs in again: the session has the role of the login.
- Logout leaves `AuthProvider` authenticated; the browser's back button shows the
  pages again, which fail.
- Any failure of `getMe`, a broken network as well, shows the login page although the
  session goes on (App.tsx:63-65); so does a login whose answer is lost after the
  cookie was set (LoginPage.tsx:31). A logout that fails goes to the login page all the
  same (Layout.tsx:133-136), the session kept. A session ends after 24 hours
  (session.go:19) without the page's knowledge.
- Answers of `getMe` that cross log the user out; lists of accounts that cross show
  the older; search answers that come late show results of another text, or of
  none.
- Two administrators who demote each other at once leave none.

## 5. Proofs

Every invariant and action property of the passing runs, and the refinement, is a
theorem of its specification: it holds for all values of the constants that satisfy
the module's named assumptions, where a run shows it for one. The bounds are
constants as well: any number of requests, crashes, uploads or pages is covered. What
stays fixed is in the modules: the 9 up to which a budget of `CampaignContent` or
`AppShell` may count, one request of each kind in the former, two checks, searches and
fetches of a list at once in the latter.

Each proof goes the same way. A conjunction of named parts is inductive: there is a
lemma for each part and kind of step, one that goes through `Next`, and the
properties follow from the conjunction in a few lines. What follows says what the
parts are needed for.

### SendPipeline (`SendPipelineProofs`, `SendPipelineOutcomes`)

Assumed: a finite, non-empty set of workers; at least one recipient; pages and
transactions of at least one; rates that `SetRate` accepts. The first module proves
`TypeCorrect` (not inductive by itself: a result names a recipient only because a
worker that reports has a job) and `SendInv`:

- `JobInv`: a worker has a job exactly while `processJob` runs;
- `OneHolder`: a recipient given to the channel is in one slot of it, or with
  one worker, or in one result;
- `PagingInv`: for each recipient `r` that was ever loaded, at most
  `offset + size` pending rows have ids up to `r`, and the ids loaded later are
  greater. Saving and deleting lower that number, uploads use new ids, so the
  next page, which starts after `offset` rows, starts after `r`;
- `MailInv`: only an attempt makes a message, and only one;
- `BoundInv`: messages sent while paused (after the cancellation) plus workers
  past the gate (past the limiter) are at most the workers.

`NobodyIsMailedTwice` follows from `MailInv`, `FewSendsWhilePaused` and
`FewSendsAfterCancel` from `BoundInv`. The second module adds `OutcomeInv`, which
makes `RunInv`, for the end of the run:

- `PhaseInv`: `runCampaign` goes on when dispatcher and workers have stopped, and
  has saved as many results as there are when it stops saving;
- `ReportInv`: only an accepted message is reported as sent;
- `TableInv`: a recipient that was loaded is pending, or gone, until the table has
  his result, and saved results are in the table while no statement failed;
- `FlowInv`: what was fed stays in the channel, with a worker or in a result, until
  the cancellation, and workers leave an empty channel behind;
- `AheadInv`: a row of the start that was not loaded yet still ranks behind
  `offset + size`, the mirror of `PagingInv`;
- `CountInv`: the row counts the outcomes of earlier runs, and of this one at its end.

From it come `TableIsTrue`, `CountersAreRight` and `NobodyIsSkipped`. The last
supposes a rate limit of at least one: with a negative one the worker drops its jobs
(section 4). `PipelineKeepsContract` is the refinement: `WorkerSends` is `Attempt` of
the worker's recipient, `WorkerReports` is `Report`, `RunnerJoins` is `Close`,
`RunnerSaves` is `Record`, an upload or deletion is `Edit`, and every other step
stutters; the outcome under a result is the one the contract was told, since
`OneHolder` leaves one result for each recipient.

### SendControl (`SendControlProofs`)

`ControlTypes` holds without a hypothesis. The other theorems have one, which the
findings show to be needed: `SingleStarter` (no user starts campaigns, as with the
scheduler alone, or there is one user and no schedule) for `OneRunAtATime` and
`RunsAreRegistered`, and `SingleUser` (one user, one request at a time, no schedule;
crashes and failing statements wherever they like) for the rest. Without the first,
`start_twice` is the counterexample; without the second, requests overwrite each
other's rows. `RowHasRun` supposes also that nobody resumes, because Resume may write
`sending` after the end of its run.

- `LaunchInv`: one process at a time is between Start's first look at the map and
  its entry there, it found the map empty, and a run that goes on is in the map;
- `HandlerInv`: what a handler holds of the row (`snap`) while a run goes on, and
  that a row left `sending` without a run is `off`: a failing statement, or the stale
  row of a request of recipients (`RowShowsRun`, `RowHasRun`);
- `ProgressInv`: a run handles a recipient only while he is pending;
- `CrashInv`: a recipient's messages are at most the crashes and his lost outcomes,
  and one more if his outcome is saved or on its way (`MailedOncePerFailure`);
- `DoneInv`: the row counts at most the recipients that are saved and whose run has
  recorded, and the lost outcomes that it counted (`unsaved`); so does the copy of the
  row that a handler will write back (`CountersStayBounded`).

`SavedStaysFinal` is an action property: by `ProgressInv` no run mails whom the table
has as done.

### LiveProgress (`LiveProgressProofs`)

For any number of results, buffer, requests and losses. The messages on the wire are a
sequence to which the hub appends and from which the page takes: lemmas on sequences
say what a message appended, taken, or dropped does to the last status, the last
progress and the set of results on it (`LastStatus`, `StatusEnds`, `Wired`).

- `StageInv`, `QueryInv`, `ChannelInv`: who says what, what a fetch may have seen, and
  that a client is out of the map before its channel is closed (`ChannelIsOpen`);
- `StatusInv`: once the row is final and announced, the page has its status or has it
  coming, if no statement failed (`seen.unsaved`): a `status_change` on the wire, the
  fetch under way, or the one that the answer to its own request causes. Before the end the same holds while the page alone
  acts (`SettledStatus`);
- `CountsInv`: the same of the counts, from the last snapshot on (`EndCounts`);
- `ResultsInv`: each result is on the page, on the wire, with the ticker or not
  flushed yet, in one of these and once (`ResultsOnce`).

### CampaignContent (`CampaignContentProofs`)

For any campaigns to start from, any `MaxFiles` and any number of requests in flight.

- `VerInv`, `FreshInv`: `updated_at` tells a copy of the row from the row, and a row
  that was written is being fetched, or an answer is due that has it fetched
  (`ScreenIsFresh`); `FormInv`: the same of the info tab's copy;
- `ListInv`, `IdInv`, `DiskInv`: the list of attachments lacks only what an answer is
  still to say; ids are not given twice; the files are those of the rows, less the one
  that a deletion has removed, more the one that an upload has written
  (`FilesAndRowsAgree`);
- `BodyInv`, `SavedInv`: a page leaves the columns of the other alone, and the row
  holds what the page reported saved, texts that were emptied apart, or will have
  reported by the request that has written it (`SavedContentStays`, and
  `PreviewIsShown` with the body of the preview);
- `MailInv`: a page that is clean, with the row's version, has what the row has
  (`MailIsShown`);
- `QuietInv`: an edit made while nothing was under way stays alone until it is sent
  (`EditsAreKept`).

The proof found two orders that the runs' budgets had hidden, and which the properties
now name: an edit made while a save was under way, then saved or previewed itself
(`busy`, section 2), and a list of attachments that a visit of the page joins to a
fetch under way (`joined`).

### RecipientList (`RecipientListProofs`)

For any size of a page, of files and of the table, and any number of requests.

- `CountInv` follows the one request that there is until requests overlap: it holds a
  copy equal to `total_count` until it changes the table, and after that what it will
  save is the number of recipients (`OneCounts`), unless `seen.off`; a clearing and a
  start bring their own number, and make it right again. That a file adds as many
  recipients as it holds rests on ids that are new (`TotalAgrees`).
- `TabInv` is about the screen. `HeaderInv`: when no request waits for its answer, the
  header has the row's number and status, or is fetching them, or the row was written
  from elsewhere. `FreshInv`: when no request has
  changed the table without an answer, lists that were read are the table's.
  `LowInv`: as long as nothing was deleted they are at least no longer than it, and
  that is why a next page that a list offers exists (`PlaceInv`). From these,
  `TabShowsTable` and `PagingCovers`.

A page is the matching recipients by rank, the number of them with a smaller id.
`NumberFacts` proves that each rank below the cardinality has its member, so a page
with recipients behind its first shows some; `CeilingCovers` relates the number of
pages, a rounded quotient, to the products by which pages begin.

### AppShell (`AppShellProofs`)

For any number of administrators and texts, and budgets up to 9.

- `AdminInv` (`AnAdministratorIsLeft`): that the one who acts is himself left follows
  from `OneChecked`: until two checks overlap there is at most one request past its
  check, its owner is an administrator still, and it changes somebody else.
- `SearchInv` (`ResultsAreOfTheText`): until something came late, the timer and the
  requests are of the text in the box.
- `ListInv` (`OwnChangesAreListed`): an administrator whose fetches never crossed has
  one at most, and what it has read of an account that he changed last is the
  account's role.
- `SessionInv` (`PageAndCookieAgree`, `ShownPagesWork`): where the browser is
  (`PlaceInv`); that a page without a session is being left, or the session ended
  unseen (`CookieInv`); that a check with the session is under way or due until the page
  knows of it, or failed, or the login's answer was lost (`HeardInv`), and until it
  knows that the session is pending (`PendingInv`). `RequestInv` adds that an
  account that is gone stays gone.

### Only model-checked

The liveness properties `RunEnds`, `CancelEnds`, `ScheduleIsHandled` and `EndIsShown`,
which speak of fairness and with it of ENABLED, out of the prover's reach; and the four
findings, which are counterexamples. That the constants' assumptions have instances is
what the runs show.

## 6. Not modelled

Contents of messages, attachments and templates; durations (the limiter's waits
and the 500 ms are present as steps, not as times); the
connection pool (its effect, an attempt's outcome, is in `WorkerSends`); the
checks of a campaign's content in `Start`; several campaigns at once (they share
only the SMTP pool and the database). Of the pages: the rate control and the cut to
200 results; the deletion of a campaign; passwords, the OAuth login and the counting of failed
logins; the role that `Layout` asks for to show its menu; pages with one query or
one form. Of the handlers: the failure to write an attachment's file or row and its
clean-up (attachment/handler.go:110-141), a failure between the removal of the file
and that of its row, and the search index, which Bleve keeps. Of react-query: that it
fetches again when the network comes back (`refetchOnReconnect`, which App.tsx:19-26
leaves on), and its one retry; `EditsSurvive` is about a network that stays.

What one module leaves to another, or to none: `SendControl` has no DeleteAll and no
recipients that come or go, only the rows saved by those requests; `RecipientList` has
no crash and no Pause, after which Start's `total_count` may differ from the number of
recipients; in `LiveProgress` the row is written by the run, the requests of the
sending page and the scheduler, not by edits, resets or requests of recipients;
`CampaignContent` supposes that no answer is lost.

Some hazards of `PROJECT.json` have no property because the code does run into them:
overlapping handlers that overwrite each other's rows, the scheduler's draft over a
campaign that is sent, two resets, the late ticker, a full buffer, edits during a save,
lists and answers that cross, administrators that demote each other. The properties
except those orders by name, section 4 describes them, and a note at each hazard says
which exception it is.

## 7. Plan

Done: `SendPipeline` with `SendContract`, `SendControl`, `LiveProgress`,
`CampaignContent`, `RecipientList` and `AppShell`, their runs, and the theorems of
section 5.

Every safety and action property that a run checks is a theorem. Next, most important
first:

1. `MailerPool` - ownership and bound of connections, `Close` at shutdown; a proof
   that a connection has one owner.
2. `SearchIndex` - the index against the database, which Sync keeps in step.
3. Login attempts and OAuth's find-or-create, in `AppShell` or beside it.
4. Pure operators: column detection and validation of recipients, rate limit
   bounds, against reference definitions over bounded inputs.
5. Proofs: the measure behind `EndIsShown` and `RunEnds` (that no step of the system
   raises it, and which lowers it), which is as near to the liveness properties as
   the prover comes.

A step that adds a module adds it to a run there is, or replaces one.
