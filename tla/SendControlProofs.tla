-------------------------- MODULE SendControlProofs --------------------------
(***************************************************************************)
(* Theorems about SendControl, for any number of recipients, clients,      *)
(* requests, runs, crashes and failing statements.                         *)
(***************************************************************************)
EXTENDS SendControl, FiniteSetTheorems, TLAPS

-----------------------------------------------------------------------------
(* Type correctness *)

Points == StartPoints \cup RowOps \cup
            {"idle", "unstartable", "pause", "pauseRow", "resume", "resumeRow",
             "cancel", "cancelCtx", "save"}

\* Any set of recipients has a number of members.
LEMMA IdsFinite ==
  ASSUME NEW S \in SUBSET Ids
  PROVE  IsFiniteSet(S) /\ Cardinality(S) \in Nat
  BY IdsAssumption, FS_Subset, FS_CardinalityType

\* The names of requests and runs.
LEMMA Names ==
  /\ \A c \in Clients : c \in Procs /\ c # Scheduler
  /\ Scheduler \in Procs
  /\ NoRun \notin RunIds
  BY SchedulerAssumption, BoundsAssumption DEF Procs, NoRun, RunIds

\* The updates of a row give a row.
LEMMA RowUpdates ==
  ASSUME NEW x \in Row
  PROVE  /\ \A s \in {"draft", "scheduled", "sending", "paused"} : [x EXCEPT !.status = s] \in Row
         /\ [status |-> "draft", done |-> 0] \in Row
         /\ NoRow \in Row
  BY DEF Row, NoRow

\* The initial states have their types.
LEMMA TypeInit == Init => TypeOK
<1> SUFFICES ASSUME Init PROVE TypeOK
  OBVIOUS
<1>1. NotLaunched \in Runner
  BY DEF NotLaunched, Runner, Progress
<1>2. QED
  BY <1>1 DEF Init, TypeOK, Row, NoRow, StartPoints, NoRun

\* A step of a run changes that run alone, and no request.
LEMMA RunStepType ==
  ASSUME TypeOK, NEW k \in RunIds, Run(k)
  PROVE  /\ run' \in [RunIds -> Runner]
         /\ \A j \in RunIds \ {k} : run'[j] = run[j]
         /\ run'[k].paused = run[k].paused
         /\ UNCHANGED <<pc, snap, target, asked, crashes>>
<1> USE DEF KeepRequests, KeepData, Calm
<1>1. run \in [RunIds -> Runner] /\ run[k] \in Runner
  BY DEF TypeOK
<1>2. ASSUME NEW r \in Ids, NEW point \in Progress, Move(k, r, point)
      PROVE  /\ run' \in [RunIds -> Runner]
             /\ \A j \in RunIds \ {k} : run'[j] = run[j]
             /\ run'[k].paused = run[k].paused
  <2>1. [run[k].at EXCEPT ![r] = point] \in [Ids -> Progress]
    BY <1>1 DEF Runner
  <2>2. [run[k] EXCEPT !.at[r] = point] \in Runner
    BY <1>1, <2>1 DEF Runner
  <2>3. QED
    BY <1>1, <1>2, <2>2 DEF Move, Runner
<1>3. CASE \E r \in Ids : RunAdmits(k, r) \/ RunAttempts(k, r) \/ RunDrops(k, r) \/ RunReports(k, r)
  <2>1. PICK r \in Ids : RunAdmits(k, r) \/ RunAttempts(k, r) \/ RunDrops(k, r) \/ RunReports(k, r)
    BY <1>3
  <2>2. PICK point \in Progress : Move(k, r, point)
    BY <2>1 DEF RunAdmits, RunAttempts, RunDrops, RunReports, Progress
  <2>3. QED
    BY <1>2, <2>1, <2>2 DEF RunAdmits, RunAttempts, RunDrops, RunReports
<1>4. CASE RunLoads(k)
  <2>1. PICK page \in {Pending, {}} :
          run' = [run EXCEPT ![k].phase = "sending",
                             ![k].at = [r \in Ids |-> IF r \in page /\ ~run[k].ctxDone
                                                      THEN "loaded" ELSE "none"]]
    BY <1>4 DEF RunLoads
  <2>2. [r \in Ids |-> IF r \in page /\ ~run[k].ctxDone THEN "loaded" ELSE "none"]
          \in [Ids -> Progress]
    BY DEF Progress
  <2>3. QED
    BY <1>1, <1>4, <2>1, <2>2 DEF RunLoads, Runner
<1>5. CASE RunSaves(k)
  <2>0. PICK Z \in SUBSET In(k, {"reported"}) \ {{}} : \E L \in SUBSET Z :
          run' = [run EXCEPT ![k].at = [r \in Ids |-> IF r \in L THEN "lost"
                                          ELSE IF r \in Z THEN "saved" ELSE run[k].at[r]]]
    BY ZenonT(30), <1>5 DEF RunSaves
  <2>4. Z \subseteq Ids
    BY <2>0 DEF In
  <2>1. PICK S \in SUBSET Ids, L \in SUBSET Ids :
          run' = [run EXCEPT ![k].at = [r \in Ids |-> IF r \in L THEN "lost"
                                          ELSE IF r \in S THEN "saved" ELSE run[k].at[r]]]
    BY ONLY <2>0, <2>4, Zenon
  <2>2. [r \in Ids |-> IF r \in L THEN "lost"
                        ELSE IF r \in S THEN "saved" ELSE run[k].at[r]] \in [Ids -> Progress]
    BY <1>1 DEF Runner, Progress
  <2>3. QED
    BY <1>1, <1>5, <2>1, <2>2 DEF RunSaves, Runner
<1>6. CASE RunJudges(k)
  BY <1>1, <1>6 DEF RunJudges, FinalStatus, Runner
<1>7. CASE RunJoins(k) \/ RunRecords(k) \/ RunLeaves(k)
  BY <1>1, <1>7 DEF RunJoins, RunRecords, RunLeaves, Runner
<1>8. QED
  BY <1>3, <1>4, <1>5, <1>6, <1>7 DEF Run

\* What the steps of a run write to the database has its type.
LEMMA TypeRun ==
  ASSUME TypeOK, NEW k \in RunIds, Run(k)
  PROVE  TypeOK'
<1> USE DEF KeepRequests, KeepData, Calm
<1>1. run' \in [RunIds -> Runner] /\ UNCHANGED <<pc, snap, target, asked, crashes>>
  BY RunStepType
<1>2. runners' \in RunIds \cup {NoRun}
  BY DEF Run, RunLoads, RunAdmits, RunAttempts, RunDrops, RunReports, RunJoins, RunSaves,
     RunJudges, RunRecords, RunLeaves, TypeOK
<1>3. table' \in [Ids -> {"pending", "done"}]
  BY DEF Run, RunLoads, RunAdmits, RunAttempts, RunDrops, RunReports, RunJoins, RunSaves,
     RunJudges, RunRecords, RunLeaves, TypeOK
<1>4. mails' \in [Ids -> Nat]
  BY DEF Run, RunLoads, RunAdmits, RunAttempts, RunDrops, RunReports, RunJoins, RunSaves,
     RunJudges, RunRecords, RunLeaves, TypeOK
<1>5. row' \in Row /\ unsaved' \in Nat
  <2>1. CASE RunRecords(k)
    <3>1. /\ Cardinality(In(k, {"reported", "saved", "lost"})) \in Nat
          /\ Cardinality(In(k, {"lost"})) \in Nat
      BY IdsFinite DEF In
    <3>2. row.done \in Nat /\ run[k].verdict \in {"none", "completed", "cancelled"}
      BY DEF TypeOK, Row, Runner
    <3>3. row \in Row /\ unsaved \in Nat
      BY DEF TypeOK
    <3>4. QED
      BY <2>1, <3>1, <3>2, <3>3 DEF RunRecords, Row
  <2>2. CASE UNCHANGED <<row, unsaved>>
    BY <2>2 DEF TypeOK
  <2>3. QED
    BY <2>1, <2>2 DEF Run, RunLoads, RunAdmits, RunAttempts, RunDrops, RunReports, RunJoins,
       RunSaves, RunJudges, RunLeaves
<1>6. lost' \in [Ids -> Nat]
  BY DEF Run, RunLoads, RunAdmits, RunAttempts, RunDrops, RunReports, RunJoins, RunSaves,
     RunJudges, RunRecords, RunLeaves, TypeOK
<1>7. faults' \in Nat
  BY DEF Run, RunLoads, RunAdmits, RunAttempts, RunDrops, RunReports, RunJoins, RunSaves,
     RunJudges, RunRecords, RunLeaves, Works, Fails, TypeOK
<1>8. off' \in BOOLEAN
  BY DEF Run, RunLoads, RunAdmits, RunAttempts, RunDrops, RunReports, RunJoins, RunSaves,
     RunJudges, RunRecords, RunLeaves, TypeOK
<1>9. QED
  BY <1>1, <1>2, <1>3, <1>4, <1>5, <1>6, <1>7, <1>8 DEF TypeOK

\* A process that goes from one point to another stays among the points.
LEMMA GotoType ==
  ASSUME TypeOK, NEW p \in Procs, NEW point \in Points, Goto(p, point)
  PROVE  /\ pc' \in [Procs -> Points] /\ pc'[p] = point
         /\ \A q \in Procs \ {p} : pc'[q] = pc[q]
  BY DEF Goto, TypeOK, Points

\* The five steps of Start.
LEMMA TypeStart ==
  ASSUME TypeOK, NEW p \in Procs, Start(p)
  PROVE  TypeOK'
<1> USE DEF KeepData, Calm
<1>1. pc' \in [Procs -> Points]
  BY GotoType DEF Start, StartChecksMap, StartLoads, StartCounts, StartSaves, StartLaunches,
     Refused, Points, StartPoints
<1>2. UNCHANGED <<table, mails, target, asked, crashes, lost, unsaved>>
  BY DEF Start, StartChecksMap, StartLoads, StartCounts, StartSaves, StartLaunches
<1>6. faults' \in Nat
  BY DEF Start, StartChecksMap, StartLoads, StartCounts, StartSaves, StartLaunches, Works, Fails,
     TypeOK
<1>7. off' \in BOOLEAN
  BY DEF Start, StartChecksMap, StartLoads, StartCounts, StartSaves, StartLaunches, TypeOK
<1>3. row' \in Row /\ snap' \in [Procs -> Row]
  <2>1. row \in Row /\ snap \in [Procs -> Row]
    BY DEF TypeOK
  <2>2. CASE StartSaves(p)
    BY <2>1, <2>2, RowUpdates DEF StartSaves
  <2>3. CASE StartChecksMap(p) \/ StartLoads(p) \/ StartCounts(p) \/ StartLaunches(p)
    BY <2>1, <2>3 DEF StartChecksMap, StartLoads, StartCounts, StartLaunches
  <2>4. QED
    BY <2>2, <2>3 DEF Start
<1>4. run' \in [RunIds -> Runner] /\ runners' \in RunIds \cup {NoRun}
  <2>1. CASE StartLaunches(p)
    <3>1. PICK k \in RunIds : run' = [run EXCEPT ![k].phase = "loading"] /\ runners' = k
      BY <2>1 DEF StartLaunches
    <3>2. run \in [RunIds -> Runner]
      BY DEF TypeOK
    <3>3. [run[k] EXCEPT !.phase = "loading"] \in Runner
      BY ONLY <3>2, k \in RunIds DEF Runner
    <3>4. QED
      BY <3>1, <3>2, <3>3
  <2>2. CASE UNCHANGED <<run, runners>>
    BY <2>2 DEF TypeOK
  <2>3. QED
    BY <2>1, <2>2 DEF Start, StartChecksMap, StartLoads, StartCounts, StartSaves
<1>5. QED
  BY <1>1, <1>2, <1>3, <1>4, <1>6, <1>7 DEF TypeOK, Points

\* A request that acts on a runner changes its status, its pause and its context.
LEMMA ControlRuns ==
  ASSUME TypeOK, NEW p \in Procs, Control(p)
  PROVE  /\ run' \in [RunIds -> Runner]
         /\ \A k \in RunIds : run'[k].phase = run[k].phase /\ run'[k].at = run[k].at
                              /\ run'[k].verdict = run[k].verdict
         /\ UNCHANGED <<table, runners, snap, asked, crashes, mails, lost, unsaved, off>>
<1> USE DEF KeepData, Calm
<1>1. run \in [RunIds -> Runner] /\ target[p] \in RunIds \cup {NoRun}
  BY DEF TypeOK
<1>2. ASSUME NEW from, NEW status \in {"sending", "paused", "cancelled"}, NEW flag,
             target[p] \in RunIds => flag \in BOOLEAN, Ctl(p, from, status, flag)
      PROVE  /\ run' \in [RunIds -> Runner]
             /\ \A k \in RunIds : run'[k].phase = run[k].phase /\ run'[k].at = run[k].at
                                  /\ run'[k].verdict = run[k].verdict
  <2>1. CASE target[p] \in RunIds
    BY <1>1, <1>2, <2>1 DEF Ctl, Runner
  <2>2. CASE target[p] \notin RunIds
    BY <1>1, <1>2, <2>2 DEF Ctl
  <2>3. QED
    BY <2>1, <2>2
<1>3. CASE PauseRunner(p) \/ ResumeRunner(p)
  BY <1>2, <1>3 DEF PauseRunner, ResumeRunner, Ctl
<1>4. CASE CancelRunner(p)
  <2>1. target[p] \in RunIds => run[target[p]].paused \in BOOLEAN
    BY <1>1 DEF Runner
  <2>2. QED
    BY <1>2, <1>4, <2>1 DEF CancelRunner, Ctl
<1>5. CASE CancelCtx(p)
  BY ZenonT(30), <1>1, <1>5 DEF CancelCtx, Runner
<1>6. CASE WriteStatus(p, "pauseRow", "paused") \/ WriteStatus(p, "resumeRow", "sending")
  BY <1>1, <1>6 DEF WriteStatus
<1>7. QED
  BY <1>3, <1>4, <1>5, <1>6 DEF Control

\* Pause, Resume and Cancel.
LEMMA TypeControl ==
  ASSUME TypeOK, NEW p \in Procs, Control(p)
  PROVE  TypeOK'
<1> USE DEF KeepData, Calm
<1>1. pc' \in [Procs -> Points]
  BY GotoType DEF Control, PauseRunner, ResumeRunner, CancelRunner, CancelCtx, WriteStatus, Points
<1>2. target' \in [Procs -> RunIds \cup {NoRun}]
  BY DEF Control, PauseRunner, ResumeRunner, CancelRunner, CancelCtx, WriteStatus, Ctl, TypeOK
<1>3. row' \in Row
  BY RowUpdates DEF Control, PauseRunner, ResumeRunner, CancelRunner, CancelCtx, WriteStatus,
     RowBecomes, Ctl, TypeOK
<1>4. faults' \in Nat
  BY DEF Control, PauseRunner, ResumeRunner, CancelRunner, CancelCtx, WriteStatus, Ctl,
     RowBecomes, Works, Fails, TypeOK
<1>5. QED
  BY <1>1, <1>2, <1>3, <1>4, ControlRuns DEF TypeOK, Points

\* The handlers of the row, and the arrival of a request.
LEMMA TypeRequests ==
  ASSUME TypeOK
  PROVE  /\ \A p \in Procs : SaveRow(p) \/ ResetSaves(p) => TypeOK'
         /\ \A c \in Clients : Begin(c) => TypeOK'
<1> USE DEF KeepData, Calm
<1>1. ASSUME NEW p \in Procs, SaveRow(p) \/ ResetSaves(p)
      PROVE  TypeOK'
  <2>1. pc' \in [Procs -> Points]
    BY <1>1, GotoType DEF SaveRow, ResetSaves, Points
  <2>2. row' \in Row /\ snap' \in [Procs -> Row]
    <3>1. snap \in [Procs -> Row] /\ snap[p] \in Row /\ NoRow \in Row
      BY DEF TypeOK, Row, NoRow
    <3>2. row' \in {row, snap[p]} /\ snap' = [snap EXCEPT ![p] = NoRow]
      BY <1>1 DEF SaveRow, ResetSaves, RowBecomes
    <3>3. QED
      BY <3>1, <3>2 DEF TypeOK
  <2>3. /\ table' \in [Ids -> {"pending", "done"}]
        /\ mails' \in [Ids -> Nat] /\ lost' \in [Ids -> Nat]
        /\ unsaved' \in Nat /\ faults' \in Nat
    BY <1>1 DEF SaveRow, ResetSaves, RowBecomes, Works, Fails, TypeOK
  <2>4. off' \in BOOLEAN
    <3>1. Stale(p) \in BOOLEAN
      BY DEF Stale
    <3>2. QED
      BY <1>1, <3>1 DEF SaveRow, ResetSaves, TypeOK
  <2>5. UNCHANGED <<run, runners, target, asked, crashes>>
    BY <1>1 DEF SaveRow, ResetSaves
  <2>6. QED
    BY <2>1, <2>2, <2>3, <2>4, <2>5 DEF TypeOK, Points
<1>2. ASSUME NEW c \in Clients, Begin(c)
      PROVE  TypeOK'
  <2>1. c \in Procs
    BY Names
  <2>2. pc' \in [Procs -> Points]
    BY <1>2, <2>1, GotoType DEF Begin, Points, StartPoints, RowOps
  <2>3. snap' \in [Procs -> Row]
    <3>1. \A op \in RowOps : Saved(op) \in Row
      BY RowUpdates DEF RowOps, Saved, TypeOK
    <3>2. QED
      BY <1>2, <3>1 DEF Begin, TypeOK
  <2>4. target' \in [Procs -> RunIds \cup {NoRun}] /\ asked' \in Nat
    BY <1>2 DEF Begin, TypeOK
  <2>5. QED
    BY <1>2, <2>2, <2>3, <2>4 DEF Begin, Works, TypeOK, Points
<1>3. QED
  BY <1>1, <1>2

\* The scheduler, and a crash.
LEMMA TypeServer ==
  ASSUME TypeOK, SchedulerFinds \/ SchedulerGivesUp \/ CrashAndRestart
  PROVE  TypeOK'
<1> USE DEF KeepData, Calm
<1>1. CASE SchedulerFinds \/ SchedulerGivesUp
  <2>1. pc' \in [Procs -> Points]
    BY <1>1, Names, GotoType DEF SchedulerFinds, SchedulerGivesUp, Points, StartPoints
  <2>2. row' \in Row
    BY <1>1, RowUpdates DEF SchedulerFinds, SchedulerGivesUp, RowBecomes, TypeOK
  <2>3. faults' \in Nat
    BY <1>1 DEF SchedulerFinds, SchedulerGivesUp, RowBecomes, Works, Fails, TypeOK
  <2>4. QED
    BY <1>1, <2>1, <2>2, <2>3 DEF SchedulerFinds, SchedulerGivesUp, TypeOK, Points
<1>2. CASE CrashAndRestart
  <2>1. [NotLaunched EXCEPT !.phase = "over"] \in Runner
    BY DEF NotLaunched, Runner, Progress
  <2>2. run' \in [RunIds -> Runner]
    BY <1>2, <2>1 DEF CrashAndRestart, TypeOK
  <2>3. row' \in Row /\ snap' \in [Procs -> Row]
    BY <1>2, RowUpdates DEF CrashAndRestart, Recovered, TypeOK
  <2>4. faults' \in Nat
    BY <1>2 DEF CrashAndRestart, Works, Fails, TypeOK
  <2>6. off' \in BOOLEAN
    BY <1>2 DEF CrashAndRestart
  <2>5. QED
    BY <1>2, <2>2, <2>3, <2>4, <2>6 DEF CrashAndRestart, TypeOK
<1>3. QED
  BY <1>1, <1>2

\* Every step keeps the types.
LEMMA TypeStep ==
  ASSUME TypeOK, [Next]_vars
  PROVE  TypeOK'
<1>1. ASSUME NEW p \in Procs, Continue(p)
      PROVE  TypeOK'
  BY <1>1, TypeStart, TypeControl, TypeRequests DEF Continue
<1>2. CASE UNCHANGED vars
  BY <1>2 DEF vars, TypeOK
<1>3. QED
  BY <1>1, <1>2, Names, TypeRun, TypeRequests, TypeServer DEF Next, Stop

\* TypeOK, an invariant whatever the clients do.
THEOREM ControlTypes == Spec => []TypeOK
  BY TypeInit, TypeStep, PTL DEF Spec

-----------------------------------------------------------------------------
(* One run at a time, when one process at a time starts *)

Busy(k) == run[k].phase \notin {"none", "over"}

\* A step of a run finds it busy, and leaves it so unless the run is removed from
\* the map; the row is written when the run ends.
LEMMA RunStepShape ==
  ASSUME TypeOK, NEW k \in RunIds, Run(k)
  PROVE  /\ Busy(k)
         /\ \/ Busy(k)' /\ UNCHANGED runners
            \/ runners' = NoRun /\ run[k].phase = "leaving" /\ run'[k].phase = "over"
         /\ \/ UNCHANGED row
            \/ /\ run[k].phase = "recording" /\ run'[k].phase = "leaving"
               /\ row'.status \in {"none", "completed", "cancelled"}
         /\ Active(k)' => Active(k) /\ UNCHANGED <<row, off>>
         /\ Active(k) => Active(k)' \/ off' \/ row'.status \in {"none", "completed", "cancelled"}
         /\ off => off'
<1> USE DEF Busy, Active, KeepRequests, KeepData, Calm
<1>1. run \in [RunIds -> Runner] /\ run[k] \in Runner
  BY DEF TypeOK
<1>2. ASSUME NEW r \in Ids, NEW point, Move(k, r, point)
      PROVE  run'[k].phase = run[k].phase
  BY <1>1, <1>2 DEF Move, Runner
<1>3. CASE \E r \in Ids : RunAdmits(k, r) \/ RunAttempts(k, r) \/ RunDrops(k, r) \/ RunReports(k, r)
  <2>1. PICK r \in Ids : RunAdmits(k, r) \/ RunAttempts(k, r) \/ RunDrops(k, r) \/ RunReports(k, r)
    BY <1>3
  <2>2. PICK point : Move(k, r, point)
    BY <2>1 DEF RunAdmits, RunAttempts, RunDrops, RunReports
  <2>3. QED
    BY <1>2, <2>1, <2>2 DEF RunAdmits, RunAttempts, RunDrops, RunReports
<1>4. CASE RunLoads(k)
  BY <1>1, <1>4 DEF RunLoads, Runner
<1>5. CASE RunSaves(k)
  BY <1>1, <1>5 DEF RunSaves, Runner
<1>6. CASE RunRecords(k)
  BY <1>1, <1>6 DEF RunRecords, Runner
<1>7. CASE RunJoins(k) \/ RunJudges(k) \/ RunLeaves(k)
  BY <1>1, <1>7 DEF RunJoins, RunJudges, RunLeaves, Runner
<1>8. QED
  BY <1>3, <1>4, <1>5, <1>6, <1>7 DEF Run

\* A request that does not start a run, and what it may write to the row.
Writes(p) == Control(p) \/ SaveRow(p) \/ ResetSaves(p)

LEMMA WritesShape ==
  ASSUME TypeOK, NEW p \in Procs, Writes(p)
  PROVE  /\ pc[p] \notin StartPoints \cup {"idle"} /\ pc'[p] \notin StartPoints
         /\ \A q \in Procs \ {p} : pc'[q] = pc[q]
         /\ \A k \in RunIds : run'[k].phase = run[k].phase /\ run'[k].at = run[k].at
         /\ \/ UNCHANGED row
            \/ pc[p] \in {"pauseRow", "resumeRow"} /\ row'.done = row.done
               /\ row'.status = (IF pc[p] = "pauseRow" THEN "paused" ELSE "sending")
            \/ pc[p] = "reset" /\ row' = snap[p]
            \/ pc[p] = "save" /\ row' = snap[p] /\ (Stale(p) => off')
         /\ snap' \in {snap, [snap EXCEPT ![p] = NoRow]}
         /\ off => off'
         /\ UNCHANGED <<runners, crashes>>
<1> USE DEF KeepData, Calm
<1>1. CASE Control(p)
  <2>1. \A k \in RunIds : run'[k].phase = run[k].phase /\ run'[k].at = run[k].at
    BY <1>1, ControlRuns
  <2>2. CASE WriteStatus(p, "pauseRow", "paused") \/ WriteStatus(p, "resumeRow", "sending")
    BY <2>1, <2>2, GotoType DEF WriteStatus, RowBecomes, StartPoints, TypeOK, Row, Points
  <2>3. CASE PauseRunner(p) \/ ResumeRunner(p) \/ CancelRunner(p) \/ CancelCtx(p)
    <3>1. pc'[p] \in {"pauseRow", "resumeRow", "cancelCtx", "idle"} /\ \A q \in Procs \ {p} : pc'[q] = pc[q]
      BY <2>3, GotoType DEF PauseRunner, ResumeRunner, CancelRunner, CancelCtx, Points
    <3>2. QED
      BY <2>1, <2>3, <3>1 DEF PauseRunner, ResumeRunner, CancelRunner, CancelCtx, Ctl, StartPoints
  <2>4. QED
    BY <1>1, <2>2, <2>3 DEF Control
<1>2. CASE SaveRow(p)
  <2>1. pc'[p] = "idle" /\ \A q \in Procs \ {p} : pc'[q] = pc[q]
    BY <1>2, GotoType DEF SaveRow, Points
  <2>2. (off => off') /\ (Stale(p) => off')
    BY <1>2 DEF SaveRow
  <2>3. QED
    BY <1>2, <2>1, <2>2 DEF SaveRow, RowBecomes, StartPoints
<1>3. CASE ResetSaves(p)
  <2>1. pc'[p] = "idle" /\ \A q \in Procs \ {p} : pc'[q] = pc[q]
    BY <1>3, GotoType DEF ResetSaves, Points
  <2>2. QED
    BY <1>3, <2>1 DEF ResetSaves, StartPoints
<1>4. QED
  BY <1>1, <1>2, <1>3 DEF Writes

\* The steps of Start move between its points; the first finds the map empty, the
\* last adds a run that no step has touched.
LEMMA StartShape ==
  ASSUME TypeOK, NEW p \in Procs, Start(p)
  PROVE  /\ pc[p] \in StartPoints
         /\ \A q \in Procs \ {p} : pc'[q] = pc[q]
         /\ pc'[p] \in {"startLoad", "startCount", "startSave", "startLaunch"} =>
              runners' = runners /\ (pc[p] = "start" => runners = NoRun)
         /\ pc'[p] \notin StartPoints => pc'[p] = (IF p = Scheduler /\ pc[p] # "startLaunch"
                                                  THEN "unstartable" ELSE "idle")
         /\ pc'[p] # "start"
         /\ \/ UNCHANGED <<run, runners>>
            \/ /\ pc[p] = "startLaunch" /\ UNCHANGED <<row, snap, off>>
               /\ \E k \in RunIds :
                    /\ runners' = k /\ run[k].phase = "none" /\ run'[k].phase = "loading"
                    /\ run'[k].at = run[k].at
                    /\ \A j \in RunIds \ {k} : run'[j] = run[j]
         /\ \/ UNCHANGED row
            \/ pc[p] = "startSave" /\ row'.status = "sending" /\ row'.done = snap[p].done
               /\ pc'[p] = "startLaunch"
         /\ \/ snap' = [snap EXCEPT ![p] = NoRow]
            \/ UNCHANGED snap /\ pc[p] # "startSave"
            \/ /\ snap' = [snap EXCEPT ![p] = row] /\ row.status \in Startable
               /\ pc[p] = "startLoad"
         /\ pc'[p] = "startCount" => row.status \in Startable
         /\ pc'[p] = "startSave" => pc[p] = "startCount"
         /\ pc'[p] = "startLaunch" => off' \/ row'.status = "sending"
         /\ pc[p] # "startSave" => UNCHANGED off
         /\ off => off'
         /\ UNCHANGED <<table, crashes, mails, lost, unsaved>>
<1> USE DEF KeepData, Calm, Points, StartPoints
<1>1. CASE StartChecksMap(p)
  BY <1>1, GotoType DEF StartChecksMap, NotRunning, Refused
<1>2. CASE StartLoads(p)
  BY <1>2, GotoType DEF StartLoads, Refused
<1>3. CASE StartCounts(p)
  BY <1>3, GotoType DEF StartCounts, Refused
<1>4. CASE StartSaves(p)
  BY <1>4, GotoType DEF StartSaves, TypeOK, Row
<1>5. CASE StartLaunches(p)
  <2>1. PICK k \in RunIds : /\ run[k].phase = "none" /\ runners' = k
                            /\ run' = [run EXCEPT ![k].phase = "loading"]
    BY <1>5 DEF StartLaunches, Launched
  <2>2. /\ run'[k].phase = "loading" /\ run'[k].at = run[k].at
        /\ \A j \in RunIds \ {k} : run'[j] = run[j]
    BY <2>1 DEF TypeOK, Runner
  <2>3. QED
    BY <1>5, <2>1, <2>2, GotoType DEF StartLaunches
<1>6. QED
  BY <1>1, <1>2, <1>3, <1>4, <1>5 DEF Start

\* A request arrives.
LEMMA BeginShape ==
  ASSUME TypeOK, NEW c \in Clients, Begin(c)
  PROVE  /\ c \in Procs /\ pc[c] = "idle"
         /\ \A q \in Procs \ {c} : pc'[q] = pc[q]
         /\ \/ pc'[c] = "start" /\ "start" \in Ops /\ UNCHANGED snap
            \/ pc'[c] \in Ops \cap {"pause", "resume", "cancel"} /\ UNCHANGED snap
            \/ \E op \in Ops \cap RowOps :
                 /\ Accepts(op) /\ snap' = [snap EXCEPT ![c] = Saved(op)]
                 /\ pc'[c] = IF op = "reset" THEN "reset" ELSE "save"
         /\ UNCHANGED <<table, row, run, runners, crashes, mails, lost, unsaved, off>>
<1>1. c \in Procs
  BY Names
<1>2. QED
  BY <1>1, GotoType DEF Begin, KeepData, Calm, Points, StartPoints, RowOps

\* No run, no request.
LEMMA LaunchInit == Init => LaunchInv
<1> SUFFICES ASSUME Init PROVE LaunchInv
  OBVIOUS
<1>1. /\ \A p \in Procs : pc[p] = "idle" /\ snap[p] = NoRow
      /\ \A k \in RunIds : run[k].phase = "none"
      /\ row.status = "draft"
  BY DEF Init, NotLaunched
<1>2. QED
  BY <1>1, Names DEF LaunchInv, StartPoints, NoRow

\* A step of a run.
LEMMA LaunchRun ==
  ASSUME TypeOK, LaunchInv, NEW k \in RunIds, Run(k)
  PROVE  LaunchInv'
<1>1. /\ \A j \in RunIds \ {k} : run'[j] = run[j]
      /\ UNCHANGED <<pc, snap>>
  BY RunStepType
<1>2. /\ Busy(k)
      /\ (Busy(k)' /\ UNCHANGED runners) \/ (runners' = NoRun /\ ~Busy(k)')
      /\ UNCHANGED row \/ row'.status # "scheduled"
  BY RunStepShape DEF Busy
<1>3. \A j \in RunIds : Busy(j) => runners = j
  BY DEF LaunchInv, Busy
<1>4. \A j \in RunIds : Busy(j)' => runners' = j
  BY <1>1, <1>2, <1>3 DEF Busy
<1>5. \A p \in Procs : pc'[p] \in StartPoints \ {"start"} => runners' = NoRun
  BY <1>1, <1>2 DEF LaunchInv
<1>6. QED
  BY <1>1, <1>2, <1>4, <1>5 DEF LaunchInv, Busy

\* A request that does not start a run.
LEMMA LaunchWrites ==
  ASSUME TypeOK, LaunchInv, NEW p \in Procs, Writes(p)
  PROVE  LaunchInv'
<1>1. /\ \A q \in Procs : pc'[q] \in StartPoints => pc'[q] = pc[q]
      /\ \A q \in Procs : pc[q] = "idle" => pc'[q] = "idle"
      /\ \A k \in RunIds : run'[k].phase = run[k].phase
      /\ UNCHANGED runners
  BY WritesShape
<1>2. row'.status = "scheduled" => row.status = "scheduled" \/ snap[p].status = "scheduled"
  BY WritesShape
<1>3. \A q \in Procs : snap'[q].status = "scheduled" => snap[q].status = "scheduled"
  BY WritesShape DEF NoRow, TypeOK
<1>4. QED
  BY <1>1, <1>2, <1>3, Names DEF LaunchInv

\* A step of Start.
LEMMA LaunchStart ==
  ASSUME TypeOK, LaunchInv, NEW p \in Procs, Start(p)
  PROVE  LaunchInv'
<1>1. /\ pc[p] \in StartPoints /\ \A q \in Procs : pc'[q] \in StartPoints => pc[q] \in StartPoints
      /\ \A q \in Procs \ {p} : pc'[q] = pc[q] /\ pc[q] \notin StartPoints
  BY StartShape DEF LaunchInv
<1>2. pc'[p] \in StartPoints => runners' = NoRun
  <2>1. pc[p] # "start" => runners = NoRun
    BY <1>1 DEF LaunchInv
  <2>2. QED
    BY <2>1, StartShape DEF StartPoints
<1>3. \A j \in RunIds : Busy(j)' => runners' = j
  <2>1. CASE UNCHANGED <<run, runners>>
    BY <2>1 DEF LaunchInv, Busy
  <2>2. CASE pc[p] = "startLaunch"
    <3>1. runners = NoRun
      BY <2>2, <1>1 DEF LaunchInv, StartPoints
    <3>2. \A j \in RunIds : ~Busy(j)
      BY <3>1, Names DEF LaunchInv, Busy
    <3>3. QED
      BY <2>1, <3>2, StartShape DEF Busy
  <2>3. QED
    BY <2>1, <2>2, StartShape
<1>4. ASSUME "schedule" \notin Ops
      PROVE  /\ row'.status # "scheduled" /\ pc'[Scheduler] = "idle"
             /\ \A q \in Procs : snap'[q].status # "scheduled"
  <2>1. /\ row.status # "scheduled" /\ pc[Scheduler] = "idle"
        /\ \A q \in Procs : snap[q].status # "scheduled"
    BY <1>4 DEF LaunchInv
  <2>2. p # Scheduler
    BY <1>1, <2>1 DEF StartPoints
  <2>3. row'.status # "scheduled"
    BY <2>1, StartShape
  <2>4. \A q \in Procs : snap'[q].status # "scheduled"
    BY <2>1, StartShape DEF NoRow, TypeOK
  <2>5. QED
    BY <1>1, <2>1, <2>2, <2>3, <2>4, Names
<1>5. ("start" \notin Ops => \A c \in Clients : pc'[c] \notin StartPoints)
  BY <1>1, Names DEF LaunchInv
<1>6. QED
  BY <1>1, <1>2, <1>3, <1>4, <1>5 DEF LaunchInv, Busy

\* The arrival of a request: whoever else could start a run is ruled out.
LEMMA LaunchBegin ==
  ASSUME SingleStarter, TypeOK, LaunchInv, NEW c \in Clients, Begin(c)
  PROVE  LaunchInv'
<1>1. /\ c \in Procs /\ c # Scheduler /\ pc[c] = "idle"
      /\ \A q \in Procs \ {c} : pc'[q] = pc[q]
      /\ UNCHANGED <<row, run, runners>>
  BY BeginShape, Names
<1>2. pc'[c] \in StartPoints => pc'[c] = "start" /\ "start" \in Ops
  BY BeginShape DEF StartPoints, RowOps
<1>3. ASSUME pc'[c] \in StartPoints, NEW q \in Procs, q # c
      PROVE  pc[q] \notin StartPoints
  <2>1. SingleUser
    BY <1>2, <1>3 DEF SingleStarter
  <2>2. q = Scheduler /\ pc[q] = "idle"
    BY <1>3, <2>1 DEF SingleUser, Procs, LaunchInv
  <2>3. QED
    BY <2>2 DEF StartPoints
<1>4. ASSUME "schedule" \notin Ops, NEW q \in Procs
      PROVE  snap'[q].status # "scheduled"
  <2>1. /\ row.status # "scheduled" /\ snap[q].status # "scheduled"
    BY <1>4 DEF LaunchInv
  <2>2. \A op \in (Ops \cap RowOps) : Saved(op).status # "scheduled"
    BY <1>4, <2>1 DEF RowOps, Saved, TypeOK, Row
  <2>3. QED
    BY <2>1, <2>2, BeginShape DEF TypeOK
<1>5. \A p, q \in Procs : pc'[p] \in StartPoints /\ pc'[q] \in StartPoints => p = q
  BY <1>1, <1>3 DEF LaunchInv
<1>6. "start" \notin Ops => \A d \in Clients : pc'[d] \notin StartPoints
  BY <1>1, <1>2, Names DEF LaunchInv
<1>7. \A p \in Procs : pc'[p] \in StartPoints \ {"start"} => runners' = NoRun
  BY <1>1, <1>2 DEF LaunchInv
<1>8. QED
  BY <1>1, <1>4, <1>5, <1>6, <1>7, Names DEF LaunchInv

\* The scheduler, where only it starts runs.
LEMMA LaunchScheduler ==
  ASSUME SingleStarter, TypeOK, LaunchInv, SchedulerFinds \/ SchedulerGivesUp
  PROVE  LaunchInv'
<1>1. Scheduler \in Procs /\ UNCHANGED <<run, runners, snap>>
  BY Names DEF SchedulerFinds, SchedulerGivesUp
<1>2. CASE SchedulerFinds
  <2>1. pc'[Scheduler] = "start" /\ \A q \in Procs \ {Scheduler} : pc'[q] = pc[q]
    BY <1>1, <1>2, GotoType DEF SchedulerFinds, Points, StartPoints
  <2>2. "start" \notin Ops /\ "schedule" \in Ops
    BY <1>2 DEF SchedulerFinds, LaunchInv, SingleStarter, SingleUser
  <2>3. \A q \in Procs \ {Scheduler} : pc[q] \notin StartPoints
    BY <2>2 DEF Procs, LaunchInv
  <2>4. QED
    BY <1>1, <2>1, <2>2, <2>3, Names DEF LaunchInv
<1>3. CASE SchedulerGivesUp
  <2>1. pc[Scheduler] = "unstartable" /\ pc'[Scheduler] = "idle" /\ \A q \in Procs \ {Scheduler} : pc'[q] = pc[q]
    BY <1>1, <1>3, GotoType DEF SchedulerGivesUp, Points
  <2>2. "schedule" \in Ops
    BY <2>1 DEF LaunchInv
  <2>3. \A q \in Procs : pc'[q] \in StartPoints => pc'[q] = pc[q]
    BY <2>1 DEF StartPoints
  <2>4. QED
    BY <1>1, <2>1, <2>2, <2>3, Names DEF LaunchInv
<1>4. QED
  BY <1>2, <1>3

\* A crash takes every run and request.
LEMMA LaunchCrash ==
  ASSUME TypeOK, LaunchInv, CrashAndRestart
  PROVE  LaunchInv'
<1>1. \A p \in Procs : pc'[p] = "idle" /\ snap'[p] = NoRow
  BY DEF CrashAndRestart
<1>2. \A k \in RunIds : run'[k].phase \in {"none", "over"}
  BY DEF CrashAndRestart, Launched, NotLaunched
<1>3. row'.status = "scheduled" => row.status = "scheduled"
  BY DEF CrashAndRestart, Recovered, TypeOK, Row
<1>4. QED
  BY <1>1, <1>2, <1>3, Names DEF LaunchInv, StartPoints, NoRow

\* Every step keeps it.
LEMMA LaunchStep ==
  ASSUME SingleStarter, TypeOK, LaunchInv, [Next]_vars
  PROVE  LaunchInv'
<1>1. ASSUME NEW p \in Procs, Continue(p)
      PROVE  LaunchInv'
  BY <1>1, LaunchStart, LaunchWrites DEF Continue, Writes
<1>2. CASE UNCHANGED vars
  BY <1>2 DEF vars, LaunchInv
<1>3. QED
  BY <1>1, <1>2, Names, LaunchRun, LaunchBegin, LaunchScheduler, LaunchCrash DEF Next, Stop

\* LaunchInv, when one process at a time may start a run: no user starts one, or
\* there is one user and no schedule.  Two users, or a user and the scheduler, can
\* both find the map empty (the run start_twice shows it).
THEOREM OneStarter ==
  ASSUME SingleStarter
  PROVE  Spec => [](TypeOK /\ LaunchInv)
<1>1. Init => TypeOK /\ LaunchInv
  BY TypeInit, LaunchInit
<1>2. TypeOK /\ LaunchInv /\ [Next]_vars => (TypeOK /\ LaunchInv)'
  BY SingleStarter, TypeStep, LaunchStep
<1>3. QED
  BY <1>1, <1>2, PTL DEF Spec

\* OneRun: a campaign has at most one sending run.
THEOREM OneRunAtATime ==
  ASSUME SingleStarter
  PROVE  Spec => []OneRun
<1>1. TypeOK /\ LaunchInv => OneRun
  BY DEF LaunchInv, OneRun, Active
<1>2. QED
  BY <1>1, OneStarter, PTL

\* RunIsRegistered: a run that goes on is the one in the runners map, so Pause,
\* Resume and Cancel reach it.
THEOREM RunsAreRegistered ==
  ASSUME SingleStarter
  PROVE  Spec => []RunIsRegistered
<1>1. TypeOK /\ LaunchInv => RunIsRegistered
  BY DEF LaunchInv, RunIsRegistered, Active
<1>2. QED
  BY <1>1, OneStarter, PTL

-----------------------------------------------------------------------------
(* One user: what the row says, and what a run has done *)

\* At most one process is at work: the user's request.
LEMMA OnlyOne ==
  ASSUME SingleUser, LaunchInv, NEW p \in Procs, NEW q \in Procs,
         pc[p] # "idle", pc[q] # "idle"
  PROVE  p = q
  BY DEF SingleUser, LaunchInv, Procs

\* No run, no request.
LEMMA HandlerInit == Init => HandlerInv
<1> SUFFICES ASSUME Init PROVE HandlerInv
  OBVIOUS
<1>1. /\ \A p \in Procs : pc[p] = "idle" /\ snap[p] = NoRow
      /\ \A k \in RunIds : run[k].phase = "none"
      /\ row.status = "draft"
  BY DEF Init, NotLaunched
<1>2. QED
  BY <1>1 DEF HandlerInv, Active

\* A step of a run: it is the only one, and it leaves the row at its end.
LEMMA HandlerRun ==
  ASSUME TypeOK, LaunchInv, HandlerInv, NEW k \in RunIds, Run(k)
  PROVE  HandlerInv'
<1>1. /\ \A j \in RunIds \ {k} : run'[j] = run[j]
      /\ UNCHANGED <<pc, snap>>
  BY RunStepType
<1>2. /\ Busy(k)
      /\ Active(k)' => Active(k) /\ UNCHANGED <<row, off>>
      /\ Active(k) => Active(k)' \/ off' \/ row'.status \in {"none", "completed", "cancelled"}
      /\ UNCHANGED row \/ row'.status \in {"none", "completed", "cancelled"}
      /\ off => off'
  BY RunStepShape
<1>3. \A j \in RunIds : Busy(j) => j = k
  BY <1>2 DEF LaunchInv, Busy
<1>4. \A j \in RunIds \ {k} : ~Active(j) /\ ~Active(j)'
  BY <1>1, <1>3 DEF Busy, Active
<1>5. \A p \in Procs : pc[p] \notin {"startCount", "startSave", "startLaunch"}
  BY <1>2, Names DEF LaunchInv, Busy, StartPoints
<1>6. \A j \in RunIds : Active(j)' => Active(j) /\ UNCHANGED <<row, off>>
  BY <1>2, <1>4
<1>7. row'.status = "sending" /\ ~off' =>
        row.status = "sending" /\ ~off /\ \A j \in RunIds : Active(j) => Active(j)'
  BY <1>2, <1>4
<1>8. \A j \in RunIds : Active(j)' =>
        /\ row'.status \in Running
        /\ \A p \in Procs : pc'[p] # "reset" /\ (pc'[p] = "save" => snap'[p].status \in Running)
        /\ ~off' => /\ row'.status # "draft"
                    /\ \A p \in Procs : pc'[p] = "save" => snap'[p].status # "draft"
  BY <1>1, <1>6 DEF HandlerInv
<1>9. QED
  BY <1>1, <1>5, <1>7, <1>8 DEF HandlerInv

\* A request that does not start a run: while one goes on, the row it saves is one
\* that it read of a campaign going on.
LEMMA HandlerWrites ==
  ASSUME SingleUser, TypeOK, LaunchInv, HandlerInv, NEW p \in Procs, Writes(p)
  PROVE  HandlerInv'
<1>1. /\ pc[p] # "idle" /\ \A q \in Procs \ {p} : pc'[q] = pc[q]
      /\ \A k \in RunIds : Active(k)' <=> Active(k)
      /\ pc'[p] \notin StartPoints
      /\ pc[p] \notin StartPoints
      /\ off => off'
  BY WritesShape DEF Active
<1>2. \A q \in Procs \ {p} : pc[q] = "idle" /\ pc'[q] = "idle"
  BY <1>1, OnlyOne
<1>3. pc'[p] \in {"idle", "pauseRow", "resumeRow", "cancelCtx"}
  BY GotoType DEF Writes, Control, PauseRunner, ResumeRunner, CancelRunner, CancelCtx,
     WriteStatus, SaveRow, ResetSaves, Points
<1>4. pc'[p] = "resumeRow" => pc[p] = "resume"
  BY GotoType DEF Writes, Control, PauseRunner, ResumeRunner, CancelRunner, CancelCtx,
     WriteStatus, SaveRow, ResetSaves, Points, Ctl
<1>5. ASSUME NEW k \in RunIds, Active(k)'
      PROVE  row'.status \in Running /\ (~off' => row'.status # "draft")
  <2>1. /\ row.status \in Running /\ pc[p] # "reset" /\ (pc[p] = "save" => snap[p].status \in Running)
        /\ ~off => row.status # "draft" /\ (pc[p] = "save" => snap[p].status # "draft")
    BY <1>1, <1>5 DEF HandlerInv
  <2>2. \/ UNCHANGED row
        \/ row'.status \in {"paused", "sending"}
        \/ pc[p] = "reset"
        \/ pc[p] = "save" /\ row' = snap[p]
    BY WritesShape
  <2>3. QED
    BY <1>1, <2>1, <2>2 DEF Running
<1>6. \A q \in Procs : pc'[q] \notin {"reset", "save", "startLaunch", "startCount", "startSave"}
  BY <1>2, <1>3
<1>7. ASSUME "resume" \notin Ops
      PROVE  /\ \A q \in Procs : pc'[q] \notin {"resume", "resumeRow"}
             /\ row'.status = "sending" /\ ~off' => \E k \in RunIds : Active(k)'
  <2>1. \A q \in Procs : pc[q] \notin {"resume", "resumeRow"}
    BY <1>7 DEF HandlerInv
  <2>2. \A q \in Procs : pc'[q] \notin {"resume", "resumeRow"}
    BY <1>2, <1>3, <1>4, <2>1
  <2>3. row'.status = "sending" /\ ~off' => row.status = "sending" /\ ~off
    BY <1>1, <2>1, WritesShape DEF HandlerInv, Stale
  <2>4. \A q \in Procs : pc[q] # "startLaunch"
    BY <1>1, <1>2 DEF StartPoints
  <2>5. QED
    BY <1>1, <1>7, <2>2, <2>3, <2>4 DEF HandlerInv
<1>8. QED
  BY <1>5, <1>6, <1>7 DEF HandlerInv

\* A step of Start, while no run is busy.
LEMMA HandlerStart ==
  ASSUME SingleUser, TypeOK, LaunchInv, HandlerInv, NEW p \in Procs, Start(p)
  PROVE  HandlerInv'
<1>1. /\ pc[p] \in StartPoints /\ \A q \in Procs \ {p} : pc'[q] = pc[q]
      /\ off => off'
  BY StartShape
<1>2. \A q \in Procs \ {p} : pc[q] = "idle" /\ pc'[q] = "idle"
  BY <1>1, OnlyOne DEF StartPoints
<1>3. pc'[p] \in {"idle", "unstartable"} \cup StartPoints
  BY StartShape
<1>4. \A q \in Procs : pc'[q] \notin {"save", "reset", "resume", "resumeRow"}
  BY <1>2, <1>3 DEF StartPoints
<1>5. CASE pc[p] = "startLaunch" /\ ~UNCHANGED <<run, runners>>
  <2>1. PICK k \in RunIds : /\ runners' = k /\ run'[k].phase = "loading"
                            /\ \A j \in RunIds \ {k} : run'[j] = run[j]
    BY <1>5, StartShape
  <2>2. row.status \in Running /\ (~off => row.status = "sending") /\ UNCHANGED <<row, off>>
    BY <1>5, StartShape DEF HandlerInv
  <2>3. Active(k)' /\ k \in RunIds
    BY <2>1 DEF Active
  <2>4. pc'[p] \notin {"startLaunch", "startCount", "startSave"}
    BY <1>5 DEF Start, StartChecksMap, StartLoads, StartCounts, StartSaves, StartLaunches,
       Goto, TypeOK
  <2>5. QED
    BY <1>2, <1>4, <2>2, <2>3, <2>4 DEF HandlerInv
<1>6. CASE UNCHANGED <<run, runners>>
  <2>1. \A k \in RunIds : Active(k)' <=> Active(k)
    BY <1>6 DEF Active
  <2>2. \A k \in RunIds : Active(k) => pc[p] = "start" /\ UNCHANGED <<row, off>>
    BY <1>1, Names, StartShape DEF LaunchInv, Active
  <2>3. pc[p] # "startLaunch"
    BY <1>6, Names DEF Start, StartChecksMap, StartLoads, StartCounts, StartSaves,
       StartLaunches, TypeOK, LaunchInv, StartPoints
  <2>4. pc'[p] = "startLaunch" => row'.status \in Running /\ (~off' => row'.status = "sending")
    <3>1. pc'[p] = "startLaunch" => pc[p] = "startSave"
      BY <1>6, GotoType, Names DEF Start, StartChecksMap, StartLoads, StartCounts, StartSaves,
         StartLaunches, Refused, Points, StartPoints, TypeOK
    <3>2. pc[p] = "startSave" => row.status \in Startable
      BY DEF HandlerInv
    <3>3. row.status # "scheduled"
      BY DEF SingleUser, LaunchInv
    <3>4. row'.status = "sending" \/ UNCHANGED row
      BY StartShape
    <3>5. pc'[p] = "startLaunch" => off' \/ row'.status = "sending"
      BY StartShape
    <3>6. QED
      BY <3>1, <3>2, <3>3, <3>4, <3>5 DEF Running, Startable
  <2>5. pc'[p] \in {"startCount", "startSave"} => row'.status \in Startable
    <3>1. pc'[p] \in {"startCount", "startSave"} => UNCHANGED row
      BY StartShape
    <3>2. pc'[p] = "startSave" => pc[p] = "startCount"
      BY StartShape
    <3>3. pc'[p] = "startCount" => row.status \in Startable
      BY StartShape
    <3>4. QED
      BY <3>1, <3>2, <3>3 DEF HandlerInv
  <2>6. row'.status = "sending" /\ ~off' =>
          \/ pc'[p] = "startLaunch"
          \/ row.status = "sending" /\ ~off /\ \A q \in Procs : pc[q] # "startLaunch"
    <3>1. UNCHANGED row \/ pc'[p] = "startLaunch"
      BY StartShape
    <3>2. QED
      BY <1>1, <1>2, <2>3, <3>1
  <2>7. \A k \in RunIds : Active(k)' => row'.status \in Running /\ (~off' => row'.status # "draft")
    BY <2>1, <2>2 DEF HandlerInv
  <2>8. \A q \in Procs : /\ pc'[q] = "startLaunch" =>
                              row'.status \in Running /\ (~off' => row'.status = "sending")
                         /\ pc'[q] \in {"startCount", "startSave"} => row'.status \in Startable
    BY <1>2, <2>4, <2>5
  <2>9. QED
    BY <1>4, <2>1, <2>6, <2>7, <2>8 DEF HandlerInv
<1>7. QED
  BY <1>5, <1>6, StartShape

\* The arrival of a request: reset and unschedule do not accept the row of a run
\* that goes on, and the others save it as it is.
LEMMA HandlerBegin ==
  ASSUME SingleUser, TypeOK, LaunchInv, HandlerInv, NEW c \in Clients, Begin(c)
  PROVE  HandlerInv'
<1>1. /\ c \in Procs /\ pc[c] = "idle"
      /\ \A q \in Procs \ {c} : pc'[q] = pc[q]
      /\ UNCHANGED <<row, run, runners, off>>
  BY BeginShape
<1>2. \A k \in RunIds : Active(k)' <=> Active(k)
  BY <1>1 DEF Active
<1>3. \A q \in Procs : pc'[q] \in {"startLaunch", "startCount", "startSave"} => pc'[q] = pc[q]
  BY <1>1, BeginShape DEF RowOps
<1>4. CASE UNCHANGED snap /\ pc'[c] \in Ops /\ pc'[c] \in {"start", "pause", "resume", "cancel"}
  <2>1. \A q \in Procs : pc'[q] \in {"save", "reset"} => pc'[q] = pc[q]
    BY <1>1, <1>4
  <2>2. "resume" \notin Ops => \A q \in Procs : pc'[q] \in {"resume", "resumeRow"} => pc'[q] = pc[q]
    BY <1>1, <1>4
  <2>3. \A q \in Procs : pc[q] = "startLaunch" => pc'[q] = "startLaunch"
    BY <1>1
  <2>4. QED
    BY <1>1, <1>2, <1>3, <1>4, <2>1, <2>2, <2>3 DEF HandlerInv
<1>5. ASSUME NEW op \in (Ops \cap RowOps), Accepts(op), snap' = [snap EXCEPT ![c] = Saved(op)],
             pc'[c] = IF op = "reset" THEN "reset" ELSE "save"
      PROVE  HandlerInv'
  <2>1. op \in {"schedule", "unschedule", "update", "recipients", "reset"}
    BY <1>5 DEF RowOps
  <2>2. op # "schedule" /\ row.status # "scheduled"
    BY <1>5 DEF SingleUser, LaunchInv
  <2>3. /\ op = "reset" => Saved(op) = [status |-> "draft", done |-> 0]
        /\ row.status \in Running => op \in {"update", "recipients"} /\ Saved(op) = row
    BY <1>5, <2>1, <2>2 DEF Accepts, Saved, Running
  <2>4. snap'[c] = Saved(op) /\ \A q \in Procs \ {c} : snap'[q] = snap[q]
    BY <1>1, <1>5 DEF TypeOK
  <2>5. \A q \in Procs : pc'[q] = "reset" => snap'[q] = [status |-> "draft", done |-> 0]
    BY <1>1, <1>5, <2>3, <2>4 DEF HandlerInv
  <2>6. ASSUME NEW k \in RunIds, Active(k)'
        PROVE  /\ row'.status \in Running
               /\ \A q \in Procs : pc'[q] # "reset" /\ (pc'[q] = "save" => snap'[q].status \in Running)
               /\ ~off' => /\ row'.status # "draft"
                           /\ \A q \in Procs : pc'[q] = "save" => snap'[q].status # "draft"
    <3>1. /\ row.status \in Running
          /\ \A q \in Procs : pc[q] # "reset" /\ (pc[q] = "save" => snap[q].status \in Running)
          /\ ~off => /\ row.status # "draft"
                     /\ \A q \in Procs : pc[q] = "save" => snap[q].status # "draft"
      BY <1>2, <2>6 DEF HandlerInv
    <3>2. pc'[c] = "save" /\ snap'[c] = row
      BY <1>5, <2>3, <2>4, <3>1
    <3>3. QED
      BY <1>1, <2>4, <3>1, <3>2
  <2>7. pc'[c] \notin {"resume", "resumeRow"} /\ pc[c] # "startLaunch"
    BY <1>1, <1>5
  <2>8. QED
    BY <1>1, <1>2, <1>3, <2>5, <2>6, <2>7 DEF HandlerInv
<1>6. QED
  BY <1>4, <1>5, BeginShape

\* A crash takes every run and request, and the row is not "sending" unless the
\* recovery failed.
LEMMA HandlerCrash ==
  ASSUME TypeOK, HandlerInv, CrashAndRestart
  PROVE  HandlerInv'
<1>1. \A p \in Procs : pc'[p] = "idle" /\ snap'[p] = NoRow
  BY DEF CrashAndRestart
<1>2. \A k \in RunIds : ~Active(k)'
  BY DEF CrashAndRestart, Launched, NotLaunched, Active
<1>3. row'.status # "sending" \/ off'
  BY DEF CrashAndRestart, Recovered, TypeOK, Row
<1>4. QED
  BY <1>1, <1>2, <1>3 DEF HandlerInv

\* Every step keeps it.
LEMMA HandlerStep ==
  ASSUME SingleUser, TypeOK, LaunchInv, HandlerInv, [Next]_vars
  PROVE  HandlerInv'
<1>1. ASSUME NEW p \in Procs, Continue(p)
      PROVE  HandlerInv'
  BY <1>1, HandlerStart, HandlerWrites DEF Continue, Writes
<1>2. CASE UNCHANGED vars
  BY <1>2 DEF vars, HandlerInv, Active
<1>3. ~SchedulerFinds /\ ~SchedulerGivesUp
  BY DEF SingleUser, LaunchInv, SchedulerFinds, SchedulerGivesUp
<1>4. QED
  BY <1>1, <1>2, <1>3, Names, HandlerRun, HandlerBegin, HandlerCrash DEF Next, Stop

\* No run.
LEMMA ProgressInit == Init => ProgressInv
  BY DEF Init, ProgressInv, ProgressOf, NotLaunched, Active

\* A run that is not busy handles nobody.
LEMMA ProgressIdle ==
  ASSUME TypeOK, ProgressInv, NEW k \in RunIds, ~Busy(k), run'[k] = run[k], NEW r \in Ids
  PROVE  ProgressOf(k, r)'
<1>1. ProgressOf(k, r)
  BY DEF ProgressInv
<1>2. QED
  BY <1>1 DEF ProgressOf, Busy, Active

\* What a step of a run does with its recipients.
LEMMA RunSteps ==
  ASSUME TypeOK, NEW k \in RunIds, Run(k)
  PROVE  \/ /\ run[k].phase = "loading" /\ run'[k].phase = "sending"
            /\ \A r \in Ids : run'[k].at[r] = "none" \/ (run'[k].at[r] = "loaded" /\ table[r] = "pending")
            /\ UNCHANGED <<table, row, mails, lost, unsaved>>
         \/ /\ run[k].phase = "sending" /\ run'[k].phase = "sending"
            /\ \E r \in Ids :
                 /\ \A s \in Ids \ {r} : run'[k].at[s] = run[k].at[s]
                 /\ \/ run[k].at[r] = "loaded" /\ run'[k].at[r] = "admitted" /\ UNCHANGED mails
                    \/ run[k].at[r] = "admitted" /\ run'[k].at[r] = "none" /\ UNCHANGED mails
                    \/ run[k].at[r] = "attempted" /\ run'[k].at[r] = "reported" /\ UNCHANGED mails
                    \/ /\ run[k].at[r] = "admitted" /\ run'[k].at[r] = "attempted"
                       /\ mails' \in {mails, [mails EXCEPT ![r] = @ + 1]}
            /\ UNCHANGED <<table, row, lost, unsaved>>
         \/ /\ run[k].phase = "saving" /\ run'[k].phase = "saving"
            /\ \A r \in Ids :
                 \/ /\ run'[k].at[r] = run[k].at[r] /\ table'[r] = table[r]
                    /\ lost'[r] = lost[r]
                 \/ /\ run[k].at[r] = "reported" /\ run'[k].at[r] = "saved"
                    /\ table'[r] = "done" /\ lost'[r] = lost[r]
                 \/ /\ run[k].at[r] = "reported" /\ run'[k].at[r] = "lost"
                    /\ table'[r] = table[r] /\ lost'[r] = lost[r] + 1
            /\ UNCHANGED <<row, mails, unsaved>>
         \/ /\ run'[k].at = run[k].at /\ UNCHANGED <<table, mails, lost>>
            /\ \/ /\ run[k].phase = "sending" /\ run'[k].phase = "saving"
                  /\ In(k, {"admitted", "attempted"}) = {} /\ UNCHANGED <<row, unsaved>>
               \/ /\ run[k].phase = "saving" /\ run'[k].phase = "recording"
                  /\ In(k, {"reported"}) = {} /\ UNCHANGED <<row, unsaved>>
               \/ /\ run[k].phase = "recording" /\ run'[k].phase = "leaving"
                  /\ \/ UNCHANGED <<row, unsaved>>
                     \/ /\ row'.done = row.done + Cardinality(In(k, {"reported", "saved", "lost"}))
                        /\ unsaved' = unsaved + Cardinality(In(k, {"lost"}))
               \/ /\ run[k].phase = "leaving" /\ run'[k].phase = "over"
                  /\ UNCHANGED <<row, unsaved>>
<1> USE DEF KeepRequests, KeepData, Calm
<1>1. run \in [RunIds -> Runner] /\ run[k] \in Runner /\ run[k].at \in [Ids -> Progress]
  BY DEF TypeOK, Runner
<1>2. ASSUME NEW r \in Ids, NEW point, Move(k, r, point)
      PROVE  /\ run'[k].phase = run[k].phase /\ run'[k].at[r] = point
             /\ \A s \in Ids \ {r} : run'[k].at[s] = run[k].at[s]
  BY <1>1, <1>2 DEF Move, Runner
<1>3. ASSUME NEW r \in Ids, RunAdmits(k, r) \/ RunDrops(k, r) \/ RunReports(k, r)
      PROVE  /\ run[k].phase = "sending" /\ run'[k].phase = "sending"
             /\ \A s \in Ids \ {r} : run'[k].at[s] = run[k].at[s]
             /\ \/ run[k].at[r] = "loaded" /\ run'[k].at[r] = "admitted"
                \/ run[k].at[r] = "admitted" /\ run'[k].at[r] = "none"
                \/ run[k].at[r] = "attempted" /\ run'[k].at[r] = "reported"
             /\ UNCHANGED <<table, row, mails, lost, unsaved>>
  BY <1>2, <1>3 DEF RunAdmits, RunDrops, RunReports
<1>4. ASSUME NEW r \in Ids, RunAttempts(k, r)
      PROVE  /\ run[k].phase = "sending" /\ run'[k].phase = "sending"
             /\ \A s \in Ids \ {r} : run'[k].at[s] = run[k].at[s]
             /\ run[k].at[r] = "admitted" /\ run'[k].at[r] = "attempted"
             /\ mails' \in {mails, [mails EXCEPT ![r] = @ + 1]}
             /\ UNCHANGED <<table, row, lost, unsaved>>
  BY <1>2, <1>4 DEF RunAttempts
<1>5. CASE RunLoads(k)
  BY <1>1, <1>5 DEF RunLoads, Pending, Runner
<1>6. CASE RunSaves(k)
  <2>1. PICK S \in SUBSET In(k, {"reported"}), L \in SUBSET In(k, {"reported"}) :
          /\ L \subseteq S
          /\ run' = [run EXCEPT ![k].at = [r \in Ids |-> IF r \in L THEN "lost"
                                            ELSE IF r \in S THEN "saved" ELSE run[k].at[r]]]
          /\ table' = [r \in Ids |-> IF r \in S \ L THEN "done" ELSE table[r]]
          /\ lost' = [r \in Ids |-> IF r \in L THEN lost[r] + 1 ELSE lost[r]]
    <3>1. PICK S \in SUBSET In(k, {"reported"}) : \E L \in SUBSET S :
          /\ run' = [run EXCEPT ![k].at = [r \in Ids |-> IF r \in L THEN "lost"
                                            ELSE IF r \in S THEN "saved" ELSE run[k].at[r]]]
          /\ table' = [r \in Ids |-> IF r \in S \ L THEN "done" ELSE table[r]]
          /\ lost' = [r \in Ids |-> IF r \in L THEN lost[r] + 1 ELSE lost[r]]
      BY <1>6 DEF RunSaves
    <3>2. QED
      BY <3>1
  <2>2. run'[k].phase = run[k].phase
        /\ \A r \in Ids : run'[k].at[r] = IF r \in L THEN "lost"
                                          ELSE IF r \in S THEN "saved" ELSE run[k].at[r]
    BY <1>1, <2>1 DEF Runner
  <2>3. L \subseteq S /\ \A r \in S : run[k].at[r] = "reported"
    BY <2>1 DEF In
  <2>4. QED
    BY <1>6, <2>1, <2>2, <2>3 DEF RunSaves
<1>7. CASE RunRecords(k)
  BY <1>1, <1>7 DEF RunRecords, Runner
<1>8. CASE RunJoins(k) \/ RunJudges(k) \/ RunLeaves(k)
  BY <1>1, <1>8 DEF RunJoins, RunJudges, AllSaved, RunLeaves, Runner
<1>9. QED
  BY <1>3, <1>4, <1>5, <1>6, <1>7, <1>8 DEF Run

\* A step of a run.
LEMMA ProgressRun ==
  ASSUME TypeOK, LaunchInv, ProgressInv, NEW k \in RunIds, Run(k)
  PROVE  ProgressInv'
<1>1. \A j \in RunIds \ {k} : run'[j] = run[j] /\ ~Busy(j)
  BY RunStepType, RunStepShape DEF LaunchInv, Busy
<1>2. ASSUME NEW r \in Ids PROVE ProgressOf(k, r)'
  <2>1. ProgressOf(k, r)
    BY DEF ProgressInv
  <2>2. In(k, {"admitted", "attempted"}) = {} => run[k].at[r] \notin {"admitted", "attempted"}
    BY DEF In
  <2>3. In(k, {"reported"}) = {} => run[k].at[r] # "reported"
    BY DEF In
  <2>4. QED
    BY <2>1, <2>2, <2>3, RunSteps DEF ProgressOf, Active
<1>3. QED
  BY <1>1, <1>2, ProgressIdle DEF ProgressInv

\* A step that is no run's: only the reset touches the table, and only a crash the
\* progress of a run.
LEMMA ProgressKept ==
  ASSUME ProgressInv, \A k \in RunIds : ~Active(k) \/ UNCHANGED table,
         \A k \in RunIds : run'[k].at = run[k].at /\ run'[k].phase = run[k].phase
  PROVE  ProgressInv'
<1> SUFFICES ASSUME NEW k \in RunIds, NEW r \in Ids PROVE ProgressOf(k, r)'
  BY DEF ProgressInv
<1>1. ProgressOf(k, r)
  BY DEF ProgressInv
<1>2. QED
  BY <1>1 DEF ProgressOf, Active

\* Every step keeps it.
LEMMA ProgressStep ==
  ASSUME SingleUser, TypeOK, LaunchInv, HandlerInv, ProgressInv, [Next]_vars
  PROVE  ProgressInv'
<1> USE DEF KeepData, Calm
<1>1. ASSUME NEW p \in Procs, Writes(p)
      PROVE  ProgressInv'
  <2>1. UNCHANGED table \/ pc[p] = "reset"
    BY <1>1 DEF Writes, Control, PauseRunner, ResumeRunner, CancelRunner, CancelCtx, Ctl,
       WriteStatus, SaveRow, ResetSaves
  <2>2. \A k \in RunIds : ~Active(k) \/ UNCHANGED table
    BY <2>1 DEF HandlerInv
  <2>3. QED
    BY <1>1, <2>2, WritesShape, ProgressKept
<1>2. ASSUME NEW p \in Procs, Start(p)
      PROVE  ProgressInv'
  <2>1. CASE UNCHANGED run
    BY <1>2, <2>1, StartShape, ProgressKept
  <2>2. ASSUME NEW k \in RunIds, run[k].phase = "none", run'[k].phase = "loading",
               run'[k].at = run[k].at, \A j \in RunIds \ {k} : run'[j] = run[j]
        PROVE  ProgressInv'
    <3>1. UNCHANGED table
      BY <1>2, StartShape
    <3>2. ASSUME NEW r \in Ids PROVE ProgressOf(k, r)'
      <4>1. ProgressOf(k, r)
        BY DEF ProgressInv
      <4>2. QED
        BY <2>2, <4>1 DEF ProgressOf, Active
    <3>3. ASSUME NEW j \in RunIds \ {k}, NEW r \in Ids PROVE ProgressOf(j, r)'
      <4>1. ProgressOf(j, r)
        BY DEF ProgressInv
      <4>2. QED
        BY <2>2, <3>1, <4>1 DEF ProgressOf, Active
    <3>4. QED
      BY <3>2, <3>3 DEF ProgressInv
  <2>3. QED
    BY <1>2, <2>1, <2>2, StartShape
<1>3. CASE CrashAndRestart
  <2>1. ASSUME NEW k \in RunIds, NEW r \in Ids PROVE ProgressOf(k, r)'
    <3>1. ProgressOf(k, r)
      BY DEF ProgressInv
    <3>2. run'[k].at[r] = "none" /\ run'[k].phase \in {"none", "over"}
      BY <1>3, <3>1 DEF CrashAndRestart, Launched, NotLaunched, ProgressOf
    <3>3. QED
      BY <3>2 DEF ProgressOf, Active
  <2>2. QED
    BY <2>1 DEF ProgressInv
<1>4. CASE UNCHANGED vars
  BY <1>4, ProgressKept DEF vars
<1>5. ASSUME NEW c \in Clients, Begin(c)
      PROVE  ProgressInv'
  BY <1>5, BeginShape, ProgressKept
<1>6. ~SchedulerFinds /\ ~SchedulerGivesUp
  BY DEF SingleUser, LaunchInv, SchedulerFinds, SchedulerGivesUp
<1>7. QED
  BY <1>1, <1>2, <1>3, <1>4, <1>5, <1>6, Names, ProgressRun DEF Next, Stop, Continue, Writes

-----------------------------------------------------------------------------
(* What is mailed twice, and what is counted *)

\* The states of a run's recipients that the busy run does not have are not its.
LEMMA OnlyBusyHandles ==
  ASSUME TypeOK, LaunchInv, ProgressInv, NEW k \in RunIds, Busy(k),
         NEW j \in RunIds \ {k}, NEW r \in Ids
  PROVE  ~Busy(j) /\ run[j].at[r] \notin {"admitted", "attempted", "reported"}
<1>1. ProgressOf(j, r) /\ ~Busy(j)
  BY DEF ProgressInv, LaunchInv, Busy
<1>2. QED
  BY <1>1 DEF ProgressOf, Busy

\* Nobody has been mailed.
LEMMA CrashInit == Init => CrashInv
  BY DEF Init, CrashInv

\* A recipient whose mails stay is spent if he was, or a crash is counted.
LEMMA CrashKept ==
  ASSUME TypeOK, CrashInv, UNCHANGED <<mails, crashes, lost>>,
         \A r \in Ids : Spent(r) => Spent(r)'
  PROVE  CrashInv'
<1>1. \A r \in Ids : mails[r] \in Nat /\ lost[r] \in Nat /\ crashes \in Nat
  BY DEF TypeOK
<1>2. ASSUME NEW r \in Ids
      PROVE  mails'[r] <= crashes' + lost'[r] + (IF Spent(r)' THEN 1 ELSE 0)
  <2>1. mails[r] <= crashes + lost[r] + (IF Spent(r) THEN 1 ELSE 0)
    BY DEF CrashInv
  <2>2. QED
    BY <1>1, <2>1
<1>3. QED
  BY <1>2 DEF CrashInv

\* A run attempts only those that are not spent, and loses one outcome at a time.
LEMMA CrashRun ==
  ASSUME TypeOK, LaunchInv, ProgressInv, CrashInv, NEW k \in RunIds, Run(k)
  PROVE  CrashInv'
<1>1. Busy(k) /\ crashes' = crashes /\ \A j \in RunIds \ {k} : run'[j] = run[j]
  BY RunStepShape, RunStepType
<1>2. ASSUME NEW r \in Ids, Spent(r),
             \/ table'[r] = "done"
             \/ run'[k].at[r] \in {"attempted", "reported"}
             \/ run[k].at[r] \notin {"attempted", "reported"} /\ table'[r] = table[r]
      PROVE  Spent(r)'
  BY <1>1, <1>2, OnlyBusyHandles DEF Spent
<1>3. \A r \in Ids : Spent(r) => Spent(r)' \/ lost'[r] = lost[r] + 1
  <2>1. ASSUME NEW r \in Ids PROVE ProgressOf(k, r)
    BY DEF ProgressInv
  <2>2. ASSUME NEW r \in Ids, Spent(r), lost'[r] # lost[r] + 1 PROVE Spent(r)'
    <3>1. ProgressOf(k, r) /\ run[k].at[r] \in Progress /\ table[r] \in {"pending", "done"}
      BY <2>1 DEF TypeOK, Runner
    <3>2. CASE UNCHANGED table /\ run'[k].at = run[k].at
      BY <1>1, <2>2, <3>2 DEF Spent
    <3>3. CASE run[k].phase = "loading" /\ UNCHANGED table
      <4>1. run[k].at[r] = "none"
        BY <3>1, <3>3 DEF ProgressOf
      <4>2. QED
        BY <1>2, <2>2, <3>3, <4>1
    <3>4. CASE /\ UNCHANGED table
               /\ \/ run'[k].at[r] = run[k].at[r]
                  \/ run[k].at[r] \in {"loaded", "admitted"}
                  \/ run'[k].at[r] \in {"attempted", "reported"}
      BY <1>2, <2>2, <3>4 DEF Progress
    <3>5. CASE table'[r] = "done"
      BY <3>5 DEF Spent
    <3>6. CASE run'[k].at[r] = run[k].at[r] /\ table'[r] = table[r]
      BY <1>2, <2>2, <3>6
    <3>7. QED
      BY <2>2, <3>2, <3>3, <3>4, <3>5, <3>6, RunSteps
  <2>3. QED
    BY <2>2
<1>4. \A r \in Ids : /\ mails[r] \in Nat /\ lost[r] \in Nat /\ crashes \in Nat
                     /\ lost'[r] \in {lost[r], lost[r] + 1}
                     /\ mails[r] <= crashes + lost[r] + (IF Spent(r) THEN 1 ELSE 0)
  <2>1. \A r \in Ids : mails[r] \in Nat /\ lost[r] \in Nat /\ crashes \in Nat
    BY DEF TypeOK
  <2>2. \A r \in Ids : lost'[r] \in {lost[r], lost[r] + 1}
    BY RunSteps
  <2>3. QED
    BY <2>1, <2>2 DEF CrashInv
<1>5. CASE UNCHANGED mails
  <2>1. ASSUME NEW r \in Ids
        PROVE  mails'[r] <= crashes' + lost'[r] + (IF Spent(r)' THEN 1 ELSE 0)
    BY <1>1, <1>3, <1>4, <1>5
  <2>2. QED
    BY <2>1 DEF CrashInv
<1>6. ASSUME NEW r \in Ids, run[k].phase = "sending", run[k].at[r] = "admitted",
             run'[k].at[r] = "attempted", mails' \in {mails, [mails EXCEPT ![r] = @ + 1]},
             UNCHANGED lost
      PROVE  CrashInv'
  <2>1. ~Spent(r)
    <3>1. ProgressOf(k, r)
      BY DEF ProgressInv
    <3>2. QED
      BY <1>1, <1>6, <3>1, OnlyBusyHandles DEF Spent, ProgressOf
  <2>2. Spent(r)'
    BY <1>6 DEF Spent
  <2>3. mails'[r] <= mails[r] + 1 /\ \A s \in Ids \ {r} : mails'[s] = mails[s]
    BY <1>6 DEF TypeOK
  <2>4. \A s \in Ids : mails'[s] \in Nat
    BY <1>6 DEF TypeOK
  <2>5. mails[r] <= crashes + lost[r]
    BY <2>1, <1>4
  <2>6. ASSUME NEW s \in Ids
        PROVE  mails'[s] <= crashes' + lost'[s] + (IF Spent(s)' THEN 1 ELSE 0)
    <3>1. mails'[s] \in Nat /\ mails[s] \in Nat /\ lost[s] \in Nat /\ crashes \in Nat
      BY <1>4, <2>4
    <3>2. CASE s = r
      BY <1>1, <1>6, <2>2, <2>3, <2>5, <3>1, <3>2
    <3>3. CASE s # r
      BY <1>1, <1>3, <1>4, <1>6, <2>3, <3>1, <3>3
    <3>4. QED
      BY <3>2, <3>3
  <2>7. QED
    BY <2>6 DEF CrashInv
<1>7. QED
  BY <1>5, <1>6, RunSteps

\* Every step keeps it: a crash forgets the attempt in progress, and is counted.
LEMMA CrashStep ==
  ASSUME SingleUser, TypeOK, LaunchInv, HandlerInv, ProgressInv, CrashInv, [Next]_vars
  PROVE  CrashInv'
<1> USE DEF KeepData, Calm
<1>1. ASSUME UNCHANGED <<table, mails, crashes, lost>>, \A k \in RunIds : run'[k].at = run[k].at
      PROVE  CrashInv'
  <2>1. \A r \in Ids : Spent(r)' <=> Spent(r)
    BY <1>1 DEF Spent
  <2>2. QED
    BY <1>1, <2>1, CrashKept
<1>2. ASSUME NEW p \in Procs, Writes(p)
      PROVE  CrashInv'
  <2>1. CASE ResetSaves(p) /\ ~UNCHANGED <<table, mails, lost>>
    <3>1. \A r \in Ids : mails'[r] = 0 /\ lost'[r] = 0
      BY <2>1 DEF ResetSaves
    <3>2. crashes' \in Nat
      BY <2>1 DEF ResetSaves, TypeOK
    <3>3. QED
      BY <3>1, <3>2 DEF CrashInv
  <2>2. CASE ~ResetSaves(p) \/ UNCHANGED <<table, mails, lost>>
    <3>1. UNCHANGED <<table, mails, lost>>
      BY <1>2, <2>2 DEF Writes, Control, PauseRunner, ResumeRunner, CancelRunner, CancelCtx, Ctl,
         WriteStatus, SaveRow
    <3>2. QED
      BY <1>1, <1>2, <3>1, WritesShape
  <2>3. QED
    BY <2>1, <2>2
<1>3. ASSUME NEW p \in Procs, Start(p)
      PROVE  CrashInv'
  <2>1. \A k \in RunIds : run'[k].at = run[k].at
    BY <1>3, StartShape
  <2>2. QED
    BY <1>1, <1>3, <2>1, StartShape
<1>4. CASE CrashAndRestart
  <2>1. \A r \in Ids : mails[r] \in Nat /\ lost[r] \in Nat /\ crashes \in Nat
    BY DEF TypeOK
  <2>2. /\ UNCHANGED <<mails, table, lost>> /\ crashes' = crashes + 1
    BY <1>4 DEF CrashAndRestart
  <2>3. \A r \in Ids : mails[r] <= crashes + lost[r] + 1
    BY <2>1 DEF CrashInv
  <2>4. QED
    BY <2>1, <2>2, <2>3 DEF CrashInv
<1>5. CASE UNCHANGED vars
  BY <1>1, <1>5 DEF vars
<1>6. ASSUME NEW c \in Clients, Begin(c)
      PROVE  CrashInv'
  BY <1>1, <1>6, BeginShape
<1>7. ~SchedulerFinds /\ ~SchedulerGivesUp
  BY DEF SingleUser, LaunchInv, SchedulerFinds, SchedulerGivesUp
<1>8. QED
  BY <1>2, <1>3, <1>4, <1>5, <1>6, <1>7, Names, CrashRun DEF Next, Stop, Continue, Writes

\* The row counts nobody.
LEMMA DoneInit == Init => DoneInv
<1> SUFFICES ASSUME Init PROVE DoneInv
  OBVIOUS
<1>1. Cardinality(Countable) \in Nat
  BY IdsFinite DEF Countable
<1>2. row.done = 0 /\ unsaved = 0 /\ \A p \in Procs : snap[p].done = 0
  BY DEF Init, NoRow
<1>3. QED
  BY <1>1, <1>2 DEF DoneInv

\* When nobody stops being countable, the counters may stay.
LEMMA DoneKept ==
  ASSUME TypeOK, TypeOK', DoneInv, Countable \subseteq Countable', UNCHANGED unsaved,
         \/ row'.done = row.done
         \/ \E p \in Procs : Holds(p) /\ row'.done = snap[p].done,
         \A p \in Procs : Holds(p)' => \/ Holds(p) /\ snap'[p].done = snap[p].done
                                       \/ snap'[p].done = row.done
                                       \/ snap'[p].done = 0
  PROVE  DoneInv'
<1>1. Countable' \in SUBSET Ids /\ Countable \in SUBSET Ids
  BY DEF Countable
<1>2. /\ Cardinality(Countable) <= Cardinality(Countable')
      /\ Cardinality(Countable) \in Nat /\ Cardinality(Countable') \in Nat
  BY <1>1, IdsFinite, FS_Subset
<1>3. /\ row.done \in Nat /\ \A p \in Procs : snap[p].done \in Nat
      /\ row'.done \in Nat /\ \A p \in Procs : snap'[p].done \in Nat
      /\ unsaved \in Nat /\ unsaved' \in Nat
  BY DEF TypeOK, Row
<1>4. row'.done <= Cardinality(Countable') + unsaved'
  BY <1>2, <1>3 DEF DoneInv
<1>5. ASSUME NEW p \in Procs, Holds(p)'
      PROVE  snap'[p].done <= Cardinality(Countable') + unsaved'
  BY <1>2, <1>3, <1>5 DEF DoneInv
<1>6. QED
  BY <1>4, <1>5 DEF DoneInv

\* A step of a run: those it saved become countable when it records them, and those
\* it lost are counted apart.
LEMMA DoneRun ==
  ASSUME TypeOK, TypeOK', LaunchInv, ProgressInv, DoneInv, NEW k \in RunIds, Run(k)
  PROVE  DoneInv'
<1>1. /\ Busy(k) /\ \A j \in RunIds \ {k} : run'[j] = run[j] /\ ~Busy(j)
      /\ UNCHANGED <<pc, snap>>
  BY RunStepShape, RunStepType, OnlyBusyHandles DEF LaunchInv, Busy
<1>2. \A r \in Ids : ProgressOf(k, r)
  BY DEF ProgressInv
<1>3. \A j \in RunIds \ {k} : ~Active(j) /\ ~Active(j)'
  BY <1>1 DEF Busy, Active
<1>4. Countable \subseteq Countable'
  <2>1. SUFFICES ASSUME NEW r \in Ids, table[r] = "done", Active(k) => run[k].at[r] # "saved"
                 PROVE  table'[r] = "done" /\ (Active(k)' => run'[k].at[r] # "saved")
    BY <1>3 DEF Countable
  <2>2. ProgressOf(k, r)
    BY <1>2
  <2>3. QED
    BY <2>1, <2>2, RunSteps DEF ProgressOf, Active
<1>5. CASE row'.done = row.done /\ unsaved' = unsaved
  BY <1>1, <1>4, <1>5, DoneKept DEF Holds
<1>6. CASE /\ run[k].phase = "recording" /\ run'[k].phase = "leaving" /\ run'[k].at = run[k].at
           /\ row'.done = row.done + Cardinality(In(k, {"reported", "saved", "lost"}))
           /\ unsaved' = unsaved + Cardinality(In(k, {"lost"}))
           /\ UNCHANGED table
  <2> DEFINE S == In(k, {"saved"})
  <2> DEFINE L == In(k, {"lost"})
  <2>1. \A r \in S : r \in Ids /\ run[k].at[r] = "saved" /\ table[r] = "done"
    BY <1>2, <1>6 DEF In, ProgressOf, Active
  <2>2. S \cap Countable = {} /\ S \cup Countable \subseteq Countable'
    BY <1>3, <1>4, <1>6, <2>1 DEF Countable, Active
  <2>3. S \in SUBSET Ids /\ L \in SUBSET Ids /\ Countable \in SUBSET Ids /\ Countable' \in SUBSET Ids
    BY DEF Countable, In
  <2>4. In(k, {"reported", "saved", "lost"}) = S \cup L /\ S \cap L = {}
    BY <1>2, <1>6 DEF In, ProgressOf
  <2> HIDE DEF S, L
  <2>5. /\ IsFiniteSet(S) /\ IsFiniteSet(L) /\ IsFiniteSet(Countable) /\ IsFiniteSet(Countable')
        /\ Cardinality(S) \in Nat /\ Cardinality(L) \in Nat
        /\ Cardinality(Countable) \in Nat /\ Cardinality(Countable') \in Nat
    BY <2>3, IdsFinite
  <2>6. ASSUME NEW A, NEW B, IsFiniteSet(A), IsFiniteSet(B), A \cap B = {}
        PROVE  Cardinality(A \cup B) = Cardinality(A) + Cardinality(B)
    <3>1. Cardinality(A \cap B) = 0
      BY <2>6, FS_EmptySet
    <3>2. Cardinality(A \cup B) = Cardinality(A) + Cardinality(B) - Cardinality(A \cap B)
      BY <2>6, FS_Union
    <3>3. Cardinality(A) \in Nat /\ Cardinality(B) \in Nat
      BY <2>6, FS_CardinalityType
    <3>4. QED
      BY <3>1, <3>2, <3>3
  <2>7. Cardinality(S \cup Countable) = Cardinality(S) + Cardinality(Countable)
    BY <2>2, <2>5, <2>6
  <2>8. Cardinality(S \cup L) = Cardinality(S) + Cardinality(L)
    BY <2>4, <2>5, <2>6
  <2>9. Cardinality(S \cup Countable) <= Cardinality(Countable')
    BY <2>2, <2>5, FS_Subset
  <2>10. /\ row.done \in Nat /\ unsaved \in Nat /\ row.done <= Cardinality(Countable) + unsaved
         /\ unsaved' = unsaved + Cardinality(L)
         /\ row'.done = row.done + Cardinality(S) + Cardinality(L)
    <3>1. row'.done = row.done + (Cardinality(S) + Cardinality(L)) /\ unsaved' = unsaved + Cardinality(L)
      BY <1>6, <2>4, <2>8 DEF L
    <3>2. row.done \in Nat /\ unsaved \in Nat /\ row.done <= Cardinality(Countable) + unsaved
      BY DEF DoneInv, TypeOK, Row
    <3>3. QED
      BY <2>5, <3>1, <3>2
  <2>11. row'.done <= Cardinality(Countable') + unsaved'
    BY <2>5, <2>7, <2>9, <2>10
  <2>12. ASSUME NEW p \in Procs, Holds(p)'
         PROVE  snap'[p].done <= Cardinality(Countable') + unsaved'
    <3>1. snap[p].done <= Cardinality(Countable) + unsaved /\ snap'[p].done = snap[p].done
      BY <1>1, <2>12 DEF DoneInv, Holds
    <3>2. snap[p].done \in Nat
      BY DEF TypeOK, Row
    <3>3. QED
      BY <2>5, <2>7, <2>9, <2>10, <3>1, <3>2
  <2>13. QED
    BY <2>11, <2>12 DEF DoneInv
<1>7. QED
  BY <1>5, <1>6, RunSteps

\* Start copies the counters, and its run has saved nobody.
LEMMA DoneStart ==
  ASSUME TypeOK, TypeOK', ProgressInv, DoneInv, NEW p \in Procs, Start(p)
  PROVE  DoneInv'
<1>1. /\ UNCHANGED <<table, unsaved>> /\ \A q \in Procs \ {p} : pc'[q] = pc[q]
      /\ pc'[p] \in StartPoints \cup {"idle", "unstartable"}
  BY StartShape
<1>2. Countable \subseteq Countable'
  <2>1. CASE UNCHANGED run
    BY <1>1, <2>1 DEF Countable, Active
  <2>2. ASSUME NEW k \in RunIds, run[k].phase = "none", run'[k].at = run[k].at,
               \A j \in RunIds \ {k} : run'[j] = run[j]
        PROVE  Countable \subseteq Countable'
    <3>1. \A r \in Ids : run'[k].at[r] = "none"
      BY <2>2 DEF ProgressInv, ProgressOf
    <3>2. QED
      BY <1>1, <2>2, <3>1 DEF Countable, Active
  <2>3. QED
    BY <2>1, <2>2, StartShape
<1>3. row'.done = row.done \/ (Holds(p) /\ row'.done = snap[p].done)
  BY StartShape DEF Holds
<1>4. Holds(p)' => \/ Holds(p) /\ snap'[p].done = snap[p].done
                   \/ snap'[p].done = row.done
  <2>1. CASE StartLoads(p)
    BY <1>1, <2>1, GotoType DEF StartLoads, Refused, Holds, TypeOK, Points, StartPoints
  <2>2. CASE StartCounts(p)
    BY <2>2 DEF StartCounts, Holds
  <2>3. CASE StartChecksMap(p) \/ StartSaves(p) \/ StartLaunches(p)
    BY <2>3, GotoType DEF StartChecksMap, StartSaves, StartLaunches, Refused, Holds, Points, StartPoints
  <2>4. QED
    BY <2>1, <2>2, <2>3 DEF Start
<1>5. \A q \in Procs \ {p} : snap'[q] = snap[q] /\ (Holds(q)' <=> Holds(q))
  BY <1>1, StartShape DEF Holds, TypeOK
<1>6. QED
  BY <1>1, <1>2, <1>3, <1>4, <1>5, DoneKept

\* Every step keeps it: the counters and the outcomes are reset together.
LEMMA DoneStep ==
  ASSUME SingleUser, TypeOK, TypeOK', LaunchInv, HandlerInv, ProgressInv, DoneInv, [Next]_vars
  PROVE  DoneInv'
<1> USE DEF KeepData, Calm
<1>1. ASSUME UNCHANGED table, \A k \in RunIds : run'[k].at = run[k].at /\ run'[k].phase = run[k].phase
      PROVE  Countable \subseteq Countable'
  BY <1>1 DEF Countable, Active
<1>2. ASSUME NEW p \in Procs, Writes(p)
      PROVE  DoneInv'
  <2>1. CASE ResetSaves(p) /\ ~UNCHANGED <<row, table, unsaved>>
    <3>1. row'.done = 0 /\ unsaved' = 0
      BY <2>1 DEF ResetSaves, HandlerInv
    <3>2. \A q \in Procs : ~Holds(q)'
      <4>1. pc'[p] = "idle"
        BY <2>1 DEF ResetSaves, Goto, TypeOK
      <4>2. \A q \in Procs \ {p} : pc'[q] = "idle"
        BY <1>2, WritesShape, OnlyOne
      <4>3. QED
        BY <4>1, <4>2 DEF Holds
    <3>3. Cardinality(Countable') \in Nat
      <4>1. Countable' \in SUBSET Ids
        BY DEF Countable
      <4>2. QED
        BY <4>1, IdsFinite
    <3>4. QED
      BY <3>1, <3>2, <3>3 DEF DoneInv
  <2>2. CASE ~ResetSaves(p) \/ UNCHANGED <<row, table, unsaved>>
    <3>1. UNCHANGED <<table, unsaved>> /\ pc'[p] \in {"idle", "pauseRow", "resumeRow", "cancelCtx"}
      BY <1>2, <2>2, GotoType DEF Writes, Control, PauseRunner, ResumeRunner, CancelRunner,
         CancelCtx, Ctl, WriteStatus, SaveRow, ResetSaves, Points
    <3>2. Countable \subseteq Countable'
      BY <1>1, <1>2, <3>1, WritesShape
    <3>3. row'.done = row.done \/ (Holds(p) /\ row'.done = snap[p].done)
      BY <1>2, WritesShape DEF Holds
    <3>4. \A q \in Procs : Holds(q)' => Holds(q) /\ snap'[q].done = snap[q].done
      BY <1>2, <3>1, WritesShape DEF Holds, TypeOK
    <3>5. QED
      BY <3>1, <3>2, <3>3, <3>4, DoneKept
  <2>3. QED
    BY <2>1, <2>2
<1>3. ASSUME NEW c \in Clients, Begin(c)
      PROVE  DoneInv'
  <2>1. Countable \subseteq Countable'
    BY <1>1, <1>3, BeginShape
  <2>2. ASSUME NEW op \in RowOps, Accepts(op)
        PROVE  Saved(op).done \in {row.done, 0}
    BY <2>2 DEF RowOps, Saved, TypeOK, Row
  <2>3. \A q \in Procs : Holds(q)' => \/ Holds(q) /\ snap'[q].done = snap[q].done
                                      \/ snap'[q].done = row.done
                                      \/ snap'[q].done = 0
    BY <1>3, <2>2, BeginShape DEF Holds, TypeOK, RowOps
  <2>4. UNCHANGED <<row, unsaved>>
    BY <1>3, BeginShape
  <2>5. QED
    BY <2>1, <2>3, <2>4, DoneKept
<1>4. CASE CrashAndRestart
  <2>1. \A k \in RunIds : ~Active(k)'
    BY <1>4 DEF CrashAndRestart, Launched, NotLaunched, Active
  <2>2. Countable \subseteq Countable'
    BY <1>4, <2>1 DEF CrashAndRestart, Countable
  <2>3. row'.done = row.done /\ \A q \in Procs : ~Holds(q)'
    BY <1>4 DEF CrashAndRestart, Recovered, Holds, TypeOK, Row
  <2>4. QED
    BY <1>4, <2>2, <2>3, DoneKept DEF CrashAndRestart
<1>5. CASE UNCHANGED vars
  BY <1>1, <1>5, DoneKept DEF vars, Holds
<1>6. ~SchedulerFinds /\ ~SchedulerGivesUp
  BY DEF SingleUser, LaunchInv, SchedulerFinds, SchedulerGivesUp
<1>7. QED
  BY <1>2, <1>3, <1>4, <1>5, <1>6, Names, DoneRun, DoneStart DEF Next, Stop, Continue, Writes

-----------------------------------------------------------------------------
(* The theorems of one user *)

\* UserInv, when one user makes one request at a time and nothing is scheduled,
\* whatever the server's crashes and the statements that fail.  Two handlers of
\* one campaign can overwrite each other's row, or start it twice: the runs
\* start_twice, cancel_then_resume and paused_without_runner show what is lost
\* without this hypothesis.
THEOREM OneUser ==
  ASSUME SingleUser
  PROVE  Spec => []UserInv
<1>1. SingleStarter
  BY SingleUser DEF SingleStarter
<1>2. Init => UserInv
  BY TypeInit, LaunchInit, HandlerInit, ProgressInit, CrashInit, DoneInit DEF UserInv
<1>3. UserInv /\ [Next]_vars => UserInv'
  BY <1>1, SingleUser, TypeStep, LaunchStep, HandlerStep, ProgressStep, CrashStep, DoneStep
     DEF UserInv
<1>4. QED
  BY <1>2, <1>3, PTL DEF Spec

\* RunningRow: a campaign whose run goes on is shown as sending or paused, so it
\* can be paused or cancelled, unless Start could not save the row.
THEOREM RowShowsRun ==
  ASSUME SingleUser
  PROVE  Spec => []RunningRow
<1>1. UserInv => RunningRow
  BY DEF UserInv, HandlerInv, RunningRow, Running
<1>2. QED
  BY <1>1, OneUser, PTL

\* SendingHasRunner: where nobody resumes, a campaign shown as sending has a
\* runner, unless since the server's start the end of a run, or the recovery, could
\* not be written, or an older row was saved over that end.
THEOREM RowHasRun ==
  ASSUME SingleUser, "resume" \notin Ops
  PROVE  Spec => []SendingHasRunner
<1>1. UserInv => SendingHasRunner
  <2> SUFFICES ASSUME UserInv, row.status = "sending", ~off, \A p \in Procs : pc[p] = "idle"
               PROVE  runners # NoRun
    BY DEF SendingHasRunner
  <2>1. PICK k \in RunIds : Active(k)
    BY DEF UserInv, HandlerInv
  <2>2. QED
    BY <2>1, Names DEF UserInv, LaunchInv, Active
<1>2. QED
  BY <1>1, OneUser, PTL

\* DuplicatesNeedFailures: between two resets a recipient is mailed once, and once
\* more at most for each crash and for each of his outcomes that a failing save
\* lost.
THEOREM MailedOncePerFailure ==
  ASSUME SingleUser
  PROVE  Spec => []DuplicatesNeedFailures
<1>1. UserInv => DuplicatesNeedFailures
  <2> SUFFICES ASSUME UserInv, NEW r \in Ids PROVE mails[r] <= 1 + crashes + lost[r]
    BY DEF DuplicatesNeedFailures
  <2>1. mails[r] \in Nat /\ crashes \in Nat /\ lost[r] \in Nat
    BY DEF UserInv, TypeOK
  <2>2. mails[r] <= crashes + lost[r] + (IF Spent(r) THEN 1 ELSE 0)
    BY DEF UserInv, CrashInv
  <2>3. QED
    BY <2>1, <2>2
<1>2. QED
  BY <1>1, OneUser, PTL

\* CountersBounded: the row counts nobody twice but the recipients whose outcome it
\* had counted and a failing save lost.
THEOREM CountersStayBounded ==
  ASSUME SingleUser
  PROVE  Spec => []CountersBounded
<1>1. UserInv => CountersBounded
  <2> SUFFICES ASSUME UserInv PROVE row.done <= Cardinality(Ids) + unsaved
    BY DEF CountersBounded
  <2>1. /\ Cardinality(Countable) <= Cardinality(Ids)
        /\ Cardinality(Countable) \in Nat /\ Cardinality(Ids) \in Nat
    BY IdsFinite, IdsAssumption, FS_Subset DEF Countable
  <2>2. row.done \in Nat /\ unsaved \in Nat /\ row.done <= Cardinality(Countable) + unsaved
    BY DEF UserInv, TypeOK, Row, DoneInv
  <2>3. QED
    BY <2>1, <2>2
<1>2. QED
  BY <1>1, OneUser, PTL

\* SavedIsFinal: a recipient whose outcome is saved is not mailed again without a
\* reset, over all the runs of the campaign.
THEOREM SavedStaysFinal ==
  ASSUME SingleUser
  PROVE  Spec => SavedIsFinal
<1>1. UserInv /\ [Next]_vars => [\A r \in Ids : table[r] = "done" => mails'[r] <= mails[r]]_vars
  <2> SUFFICES ASSUME UserInv, [Next]_vars, NEW r \in Ids, table[r] = "done"
               PROVE  mails'[r] <= mails[r]
    OBVIOUS
  <2>1. mails[r] \in Nat
    BY DEF UserInv, TypeOK
  <2>2. CASE mails'[r] = mails[r]
    BY <2>1, <2>2
  <2>3. ASSUME NEW k \in RunIds, Run(k) PROVE mails'[r] = mails[r]
    <3>1. ProgressOf(k, r)
      BY DEF UserInv, ProgressInv
    <3>2. \A s \in Ids : run[k].phase = "sending" /\ run[k].at[s] = "admitted" => s # r
      BY <3>1 DEF ProgressOf
    <3>3. QED
      BY <2>3, <3>2, RunSteps DEF UserInv, TypeOK
  <2>4. ASSUME NEW p \in Procs, ResetSaves(p) PROVE mails'[r] <= mails[r]
    BY <2>1, <2>4 DEF ResetSaves
  <2>5. ASSUME NEW p \in Procs, Start(p) \/ Control(p) \/ SaveRow(p) PROVE UNCHANGED mails
    BY <2>5, StartShape, ControlRuns DEF SaveRow, UserInv
  <2>6. CASE (\E c \in Clients : Begin(c)) \/ SchedulerFinds \/ SchedulerGivesUp \/ CrashAndRestart
               \/ UNCHANGED vars
    BY <2>2, <2>6 DEF Begin, SchedulerFinds, SchedulerGivesUp, CrashAndRestart, KeepData, Calm, vars
  <2>7. QED
    BY <2>2, <2>3, <2>4, <2>5, <2>6, Names DEF Next, Stop, Continue
<1>2. QED
  BY <1>1, OneUser, PTL DEF Spec, SavedIsFinal

=============================================================================
