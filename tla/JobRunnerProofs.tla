--------------------------- MODULE JobRunnerProofs ---------------------------
(***************************************************************************)
(* Proofs about JobRunner for any number of processes, restarts and logs:  *)
(* the log monitor reclaims only executions that are over, and a closed    *)
(* log keeps its verdict.  Both need that a grace period outlasts every    *)
(* execution the monitor could take for dead: SoundGrace.                  *)
(***************************************************************************)
EXTENDS JobRunner, TLAPS

-----------------------------------------------------------------------------
(* The inductive invariant *)

\* With a timeout the grace period covers every execution; without one the
\* RUNNER_ID tells them apart only if nobody else runs the job.
SoundGrace == HasTimeout \/ \A p, q \in Process : p = q

Task(p, t) == exec[p][t].pc = "task"

\* A RUNNER_ID was drawn, and whoever executes or scans has one.
IdsDrawn ==
    /\ \A p \in Process : runner[p] <= starts
    /\ \A p \in Process : runner[p] = 0 =>
         found[p] = {} /\ \A t \in Trigger : exec[p][t].pc = "idle"

\* An execution works on a log of its own, written under its RUNNER_ID.
LogsOwned ==
    /\ \A p \in Process, t \in Trigger : Task(p, t) =>
         log[exec[p][t].log].status # "none" /\ log[exec[p][t].log].runner = runner[p]
    /\ \A p, q \in Process, t, u \in Trigger :
         Task(p, t) /\ Task(q, u) /\ exec[p][t].log = exec[q][u].log => p = q /\ t = u

\* Only logs that were written grow old or are found, the latter by others.
OldLogs ==
    /\ \A l \in old : log[l].status # "none"
    /\ \A p \in Process : \A l \in found[p] : l \in old /\ log[l].runner # runner[p]

\* What is under way is neither beyond its grace period nor closed.
UnderWay ==
    /\ HasTimeout => \A l \in old : ~Executing(l)
    /\ \A p \in Process, t \in Trigger : Task(p, t) =>
         log[exec[p][t].log].status \in {"running", "gone"} /\ log[exec[p][t].log].by = "none"

Inv == TypeOK /\ IdsDrawn /\ LogsOwned /\ OldLogs

-----------------------------------------------------------------------------
(* Executions *)

ExecRow == [pc : {"idle", "insert", "task"}, log : Log \cup {NoLog}]

\* What TypeOK says of one execution.
LEMMA ExecutionType ==
    ASSUME TypeOK, NEW p \in Process, NEW t \in Trigger
    PROVE  /\ exec[p][t] \in ExecRow
           /\ Task(p, t) <=> exec[p][t].log # NoLog
           /\ Task(p, t) => exec[p][t].log \in Log
BY DEF TypeOK, ExecRow, Task

\* A log is being executed by somebody's task on it.
LEMMA ExecutingTask ==
    ASSUME TypeOK, NEW l \in Log
    PROVE  Executing(l) <=> \E p \in Process, t \in Trigger : Task(p, t) /\ exec[p][t].log = l
<1>1. ASSUME NEW p \in Process, NEW t \in Trigger
      PROVE  exec[p][t] = [pc |-> "task", log |-> l] <=> Task(p, t) /\ exec[p][t].log = l
  BY ExecutionType DEF ExecRow, Task
<1> QED
  BY <1>1 DEF Executing

\* One execution moves.
LEMMA BecomeMoves ==
    ASSUME TypeOK, NEW p \in Process, NEW t \in Trigger, NEW e \in ExecRow, Become(p, t, e)
    PROVE  /\ exec'[p][t] = e
           /\ \A q \in Process, u \in Trigger : q # p \/ u # t => exec'[q][u] = exec[q][u]
           /\ exec' \in [Process -> [Trigger -> ExecRow]]
BY DEF TypeOK, Become, ExecRow

\* What most steps do: executions end, stay or have not inserted their log yet,
\* rows are rewritten under their runner, found and old logs are written ones.
StepsKeepRunners ==
    /\ UNCHANGED <<runner, starts>>
    /\ job' \in {"enabled", "disabled", "deleted"} /\ tenantOn' \in BOOLEAN
    /\ log' \in [Log -> LogRow] /\ old' \subseteq Log /\ found' \in [Process -> SUBSET Log]
    /\ exec' \in [Process -> [Trigger -> ExecRow]]
    /\ \A l \in Log : log'[l].runner = log[l].runner /\ (log'[l].status = "none" => log[l].status = "none")
    /\ \A l \in old' : l \in old \/ log[l].status # "none"
    /\ old \subseteq old'
    /\ \A p \in Process, t \in Trigger :
         \/ exec'[p][t] = exec[p][t]
         \/ exec'[p][t] = Idle
         \/ exec'[p][t] = [pc |-> "insert", log |-> NoLog] /\ runner[p] # 0
    /\ \A p \in Process :
         \/ found'[p] \subseteq found[p]
         \/ runner[p] # 0 /\ \A l \in found'[p] : l \in old /\ log[l].runner # runner[p]

\* Such a step keeps the invariant.
LEMMA StepKeeps ==
    ASSUME Inv, StepsKeepRunners
    PROVE  Inv'
<1>1. \A p \in Process, t \in Trigger :
        /\ exec'[p][t].pc = "task" <=> exec'[p][t].log # NoLog
        /\ exec'[p][t].pc = "task" => exec[p][t].pc = "task" /\ exec'[p][t] = exec[p][t]
  BY ExecutionType DEF Inv, StepsKeepRunners, Idle, Task
<1>2. TypeOK'
  BY <1>1 DEF Inv, TypeOK, StepsKeepRunners, ExecRow
<1>3. IdsDrawn'
  <2>1. ASSUME NEW p \in Process, runner'[p] = 0
        PROVE  found'[p] = {} /\ \A t \in Trigger : exec'[p][t].pc = "idle"
    <3>1. runner[p] = 0 /\ found[p] = {} /\ \A t \in Trigger : exec[p][t].pc = "idle"
      BY <2>1 DEF Inv, IdsDrawn, StepsKeepRunners
    <3>2. found'[p] \subseteq {}
      BY <3>1 DEF StepsKeepRunners
    <3>3. \A t \in Trigger : exec'[p][t].pc = "idle"
      BY <3>1 DEF StepsKeepRunners, Idle
    <3> QED
      BY <3>2, <3>3
  <2> QED
    BY <2>1 DEF Inv, IdsDrawn, StepsKeepRunners
<1>4. LogsOwned'
  <2>1. \A p \in Process, t \in Trigger : Task(p, t) => exec[p][t].log \in Log
    BY ExecutionType DEF Inv
  <2>2. ASSUME NEW p \in Process, NEW t \in Trigger, exec'[p][t].pc = "task"
        PROVE  log'[exec'[p][t].log].status # "none" /\ log'[exec'[p][t].log].runner = runner'[p]
    <3>1. Task(p, t) /\ exec'[p][t] = exec[p][t]
      BY <1>1, <2>2 DEF Task
    <3>2. log[exec[p][t].log].status # "none" /\ log[exec[p][t].log].runner = runner[p]
      BY <3>1 DEF Inv, LogsOwned
    <3> QED
      BY <2>1, <3>1, <3>2 DEF StepsKeepRunners
  <2>3. ASSUME NEW p \in Process, NEW q \in Process, NEW t \in Trigger, NEW u \in Trigger,
               exec'[p][t].pc = "task", exec'[q][u].pc = "task", exec'[p][t].log = exec'[q][u].log
        PROVE  p = q /\ t = u
    BY <1>1, <2>3 DEF Inv, LogsOwned, Task
  <2> QED
    BY <2>2, <2>3 DEF LogsOwned, Task
<1>5. OldLogs'
  <2>1. \A l \in old' : log'[l].status # "none"
    BY DEF Inv, OldLogs, StepsKeepRunners
  <2>2. ASSUME NEW p \in Process, NEW l \in found'[p]
        PROVE  l \in old' /\ log'[l].runner # runner'[p]
    <3>1. l \in Log
      BY DEF StepsKeepRunners
    <3> QED
      BY <3>1, <2>2 DEF Inv, OldLogs, StepsKeepRunners
  <2> QED
    BY <2>1, <2>2 DEF OldLogs
<1> QED
  BY <1>2, <1>3, <1>4, <1>5 DEF Inv

-----------------------------------------------------------------------------
(* One lemma per kind of step *)

\* An execution that passes its checks, or whose log cannot be inserted.
LEMMA CheckKeeps ==
    ASSUME Inv, NEW p \in Process, NEW t \in Trigger, Check(p, t) \/ InsertFails(p, t)
    PROVE  Inv'
<1>1. PICK e \in {Idle, [pc |-> "insert", log |-> NoLog]} :
        Become(p, t, e) /\ (e # Idle => runner[p] # 0)
  BY DEF Check, InsertFails
<1>2. e \in ExecRow
  BY DEF Idle, ExecRow
<1>3. StepsKeepRunners
  BY <1>1, <1>2, BecomeMoves DEF Inv, Check, InsertFails, config, StepsKeepRunners, TypeOK
<1> QED
  BY <1>3, StepKeeps

\* What an execution may leave of its log when it ends.
LEMMA FinishKeeps ==
    ASSUME Inv, NEW p \in Process, NEW t \in Trigger, Task(p, t), NEW rows, Finish(p, t, rows),
           rows = log \/ \E st \in {"success", "failed"} : rows = Closed(exec[p][t].log, st)
    PROVE  Inv'
<1>1. exec[p][t].log \in Log
  BY ExecutionType DEF Inv
<1>2. Idle \in ExecRow
  BY DEF Idle, ExecRow
<1>3. /\ log' \in [Log -> LogRow]
      /\ \A l \in Log : log'[l].runner = log[l].runner /\ (log'[l].status = "none" => log[l].status = "none")
  <2>1. CASE log' = log
    BY <2>1 DEF Inv, TypeOK
  <2>2. ASSUME NEW st \in {"success", "failed"}, log' = Closed(exec[p][t].log, st)
        PROVE  /\ log' \in [Log -> LogRow]
               /\ \A l \in Log : /\ log'[l].runner = log[l].runner
                                 /\ log'[l].status = "none" => log[l].status = "none"
    <3>1. log \in [Log -> LogRow]
      BY DEF Inv, TypeOK
    <3> DEFINE k == exec[p][t].log
               row == [log[k] EXCEPT !.status = st, !.by = "runner"]
    <3>2. log' = [log EXCEPT ![k] = row]
      BY <1>1, <2>2, <3>1 DEF Closed
    <3>3. row \in LogRow /\ row.runner = log[k].runner /\ row.status = st
      BY <1>1, <3>1 DEF LogRow, LogStatus
    <3> HIDE DEF row
    <3> QED
      BY <1>1, <3>1, <3>2, <3>3
  <2> QED
    BY <2>1, <2>2 DEF Finish
<1>4. StepsKeepRunners
  BY <1>2, <1>3, BecomeMoves DEF Inv, Finish, config, StepsKeepRunners, TypeOK
<1> QED
  BY <1>4, StepKeeps

\* The ends of an execution all finish it in one of these ways.
LEMMA EndsFinish ==
    ASSUME NEW p \in Process, NEW t \in Trigger,
           SetupFails(p, t) \/ TaskReturns(p, t) \/ TaskFails(p, t) \/ CloseFails(p, t)
    PROVE  /\ Task(p, t)
           /\ \E rows : /\ Finish(p, t, rows)
                        /\ rows = log \/ \E st \in {"success", "failed"} : rows = Closed(exec[p][t].log, st)
BY DEF SetupFails, TaskReturns, TaskFails, CloseFails, HandlerMark, Task

\* A log that was never written gets its row and its execution.
LEMMA InsertKeeps ==
    ASSUME Inv, NEW p \in Process, NEW t \in Trigger, NEW l \in Log, InsertLog(p, t, l)
    PROVE  Inv'
<1> DEFINE e == [pc |-> "task", log |-> l]
           row == [status |-> "running", runner |-> runner[p], by |-> "none"]
<1>1. e \in ExecRow /\ e.pc = "task" /\ e.log = l /\ l # NoLog
  BY JobAssumption DEF ExecRow
<1>2. /\ exec'[p][t] = e
      /\ \A q \in Process, u \in Trigger : q # p \/ u # t => exec'[q][u] = exec[q][u]
      /\ exec' \in [Process -> [Trigger -> ExecRow]]
  BY <1>1, BecomeMoves DEF Inv, InsertLog
<1>3. /\ log'[l] = row /\ row \in LogRow /\ row.status = "running" /\ row.runner = runner[p]
      /\ \A k \in Log \ {l} : log'[k] = log[k]
      /\ log' \in [Log -> LogRow] /\ log[l].status = "none" /\ exec[p][t].pc = "insert"
      /\ UNCHANGED <<job, tenantOn, old, runner, starts, found>>
  BY DEF InsertLog, Inv, TypeOK, LogRow, LogStatus, RunnerId, config
<1> HIDE DEF e, row
<1>4. \A q \in Process, u \in Trigger : Task(q, u) => exec[q][u].log \in Log \ {l}
  BY <1>3, ExecutionType DEF Inv, LogsOwned
<1>5. TypeOK'
  <2>1. \A q \in Process, u \in Trigger : (exec'[q][u].pc = "task") = (exec'[q][u].log # NoLog)
    BY <1>1, <1>2 DEF Inv, TypeOK
  <2> QED
    BY <1>2, <1>3, <2>1 DEF Inv, TypeOK, ExecRow
<1>6. IdsDrawn'
  BY <1>2, <1>3 DEF Inv, IdsDrawn
<1>7. LogsOwned'
  <2>1. \A q \in Process, u \in Trigger :
          Task(q, u)' => (q = p /\ u = t) \/ (Task(q, u) /\ exec'[q][u] = exec[q][u])
    BY <1>2 DEF Task
  <2>2. \A q \in Process, u \in Trigger : Task(q, u)' =>
          log'[exec'[q][u].log].status # "none" /\ log'[exec'[q][u].log].runner = runner[q]
    BY <1>1, <1>2, <1>3, <1>4, <2>1 DEF Inv, LogsOwned
  <2>3. ASSUME NEW q \in Process, NEW r \in Process, NEW u \in Trigger, NEW v \in Trigger,
               Task(q, u)', Task(r, v)', exec'[q][u].log = exec'[r][v].log
        PROVE  q = r /\ u = v
    BY <1>1, <1>2, <1>4, <2>1, <2>3 DEF Inv, LogsOwned
  <2> QED
    BY <1>3, <2>2, <2>3 DEF LogsOwned
<1>8. OldLogs'
  <2>1. \A k \in old : k \in Log \ {l}
    BY <1>3 DEF Inv, OldLogs, TypeOK
  <2>2. \A k \in old : log'[k] = log[k]
    BY <1>3, <2>1
  <2> QED
    BY <1>3, <2>2 DEF Inv, OldLogs
<1> QED
  BY <1>5, <1>6, <1>7, <1>8 DEF Inv

\* A process stops with everything it was doing.
LEMMA StopKeeps ==
    ASSUME Inv, NEW p \in Process, Stop(p)
    PROVE  Inv'
<1>1. /\ runner'[p] = 0 /\ found'[p] = {} /\ \A t \in Trigger : exec'[p][t] = Idle
      /\ \A q \in Process \ {p} : runner'[q] = runner[q] /\ found'[q] = found[q] /\ exec'[q] = exec[q]
      /\ UNCHANGED <<job, tenantOn, log, old, starts>>
  BY DEF Stop, Inv, TypeOK, config
<1>2. TypeOK'
  <2>1. runner' \in [Process -> RunnerId] /\ found' \in [Process -> SUBSET Log]
    BY JobAssumption DEF Stop, Inv, TypeOK, RunnerId
  <2>2. exec' \in [Process -> [Trigger -> ExecRow]]
    BY DEF Stop, Inv, TypeOK, ExecRow, Idle
  <2>3. \A q \in Process, t \in Trigger : (exec'[q][t].pc = "task") = (exec'[q][t].log # NoLog)
    BY <1>1 DEF Inv, TypeOK, Idle
  <2> QED
    BY <1>1, <2>1, <2>2, <2>3 DEF Inv, TypeOK, ExecRow
<1>3. IdsDrawn'
  <2>1. starts \in Nat
    BY JobAssumption DEF Inv, TypeOK, RunnerId
  <2> QED
    BY <1>1, <2>1 DEF Inv, IdsDrawn, Idle
<1>4. LogsOwned'
  BY <1>1 DEF Inv, LogsOwned, Task, Idle
<1>5. OldLogs'
  BY <1>1 DEF Inv, OldLogs
<1> QED
  BY <1>2, <1>3, <1>4, <1>5 DEF Inv

\* A process starts with a RUNNER_ID nobody has.
LEMMA StartKeeps ==
    ASSUME Inv, NEW p \in Process, Start(p)
    PROVE  Inv'
<1>1. /\ runner[p] = 0 /\ runner'[p] = starts + 1 /\ starts' = starts + 1 /\ starts < MaxRunner
      /\ \A q \in Process \ {p} : runner'[q] = runner[q]
      /\ UNCHANGED <<job, tenantOn, log, old, exec, found>>
      /\ starts \in Nat /\ \A q \in Process : runner[q] \in Nat /\ runner[q] <= starts
  BY JobAssumption DEF Start, Inv, TypeOK, IdsDrawn, config, RunnerId
<1>2. found[p] = {} /\ \A t \in Trigger : ~Task(p, t)
  BY <1>1 DEF Inv, IdsDrawn, Task
<1>3. TypeOK'
  <2>1. runner' \in [Process -> RunnerId] /\ starts' \in RunnerId
    BY <1>1, JobAssumption DEF Start, Inv, TypeOK, RunnerId
  <2>2. \A q, r \in Process : runner'[q] = runner'[r] => q = r \/ runner'[q] = 0
    BY <1>1 DEF Inv, TypeOK
  <2> QED
    BY <1>1, <2>1, <2>2 DEF Inv, TypeOK
<1>4. IdsDrawn'
  BY <1>1, <1>2 DEF Inv, IdsDrawn
<1>5. LogsOwned'
  BY <1>1, <1>2 DEF Inv, LogsOwned, Task
<1>6. OldLogs'
  BY <1>1, <1>2 DEF Inv, OldLogs
<1> QED
  BY <1>3, <1>4, <1>5, <1>6 DEF Inv

\* Reclaiming: rows keep their runner, only found running ones change.
LEMMA ReclaimRows ==
    ASSUME Inv, NEW p \in Process, MonitorReclaim(p)
    PROVE  /\ log' \in [Log -> LogRow]
           /\ \A l \in Log : /\ log'[l].runner = log[l].runner
                             /\ log'[l].status = "none" => log[l].status = "none"
                             /\ \/ log'[l] = log[l]
                                \/ /\ l \in found[p] /\ log[l].status = "running"
                                   /\ log'[l].status = "failed" /\ log'[l].by = p
<1>1. log \in [Log -> LogRow]
  BY DEF Inv, TypeOK
<1>2. log' = [l \in Log |-> IF l \in found[p] /\ Reclaimable(l)
                              THEN [log[l] EXCEPT !.status = "failed", !.by = p] ELSE log[l]]
  BY DEF MonitorReclaim
<1>3. ASSUME NEW l \in Log
      PROVE  /\ log'[l] \in LogRow /\ log'[l].runner = log[l].runner
             /\ log'[l].status = "none" => log[l].status = "none"
             /\ \/ log'[l] = log[l]
                \/ /\ l \in found[p] /\ log[l].status = "running"
                   /\ log'[l].status = "failed" /\ log'[l].by = p
  <2>1. log[l] \in LogRow
    BY <1>1
  <2>2. [log[l] EXCEPT !.status = "failed", !.by = p] \in LogRow
    BY <2>1 DEF LogRow, LogStatus
  <2>3. CASE l \in found[p] /\ Reclaimable(l)
    BY <1>2, <2>1, <2>2, <2>3 DEF LogRow, Reclaimable
  <2>4. CASE ~(l \in found[p] /\ Reclaimable(l))
    BY <1>2, <2>1, <2>4
  <2> QED
    BY <2>3, <2>4
<1> QED
  BY <1>2, <1>3

\* Deleting logs: rows keep their runner and their auditing columns.
LEMMA DeleteRows ==
    ASSUME Inv, DeleteJob \/ \E l \in Log : DeleteLog(l)
    PROVE  /\ log' \in [Log -> LogRow]
           /\ \A l \in Log : /\ log'[l].runner = log[l].runner /\ log'[l].by = log[l].by
                             /\ log'[l].status = "none" => log[l].status = "none"
                             /\ log'[l] = log[l] \/ log'[l].status = "gone"
<1>1. log \in [Log -> LogRow]
  BY DEF Inv, TypeOK
<1>2. \A l \in Log : LET gone == [log[l] EXCEPT !.status = "gone"] IN
        gone \in LogRow /\ gone.runner = log[l].runner /\ gone.by = log[l].by /\ gone.status = "gone"
  BY <1>1 DEF LogRow, LogStatus
<1>3. \E S \in SUBSET Log :
        log' = [l \in Log |-> IF l \in S THEN [log[l] EXCEPT !.status = "gone"] ELSE log[l]]
  <2>1. CASE DeleteJob
    <3>1. {l \in Log : log[l].status # "none"} \in SUBSET Log
      OBVIOUS
    <3>2. log' = [l \in Log |-> IF l \in {k \in Log : log[k].status # "none"}
                                  THEN [log[l] EXCEPT !.status = "gone"] ELSE log[l]]
      BY <2>1 DEF DeleteJob
    <3> QED
      BY <3>1, <3>2
  <2>2. ASSUME NEW k \in Log, DeleteLog(k)
        PROVE  log' = [l \in Log |-> IF l \in {k} THEN [log[l] EXCEPT !.status = "gone"] ELSE log[l]]
    BY <1>1, <2>2 DEF DeleteLog
  <2>3. \A k \in Log : {k} \in SUBSET Log
    OBVIOUS
  <2> QED
    BY <2>1, <2>2, <2>3
<1> QED
  BY <1>1, <1>2, <1>3

\* The monitor.
LEMMA MonitorKeeps ==
    ASSUME Inv, NEW p \in Process, MonitorScan(p) \/ MonitorReclaim(p) \/ MonitorFails(p)
    PROVE  Inv'
<1>1. CASE MonitorScan(p) \/ MonitorFails(p)
  <2>1. \/ found' = [found EXCEPT ![p] = {l \in Log : Orphan(p, l)}] /\ runner[p] # 0
        \/ found' = [found EXCEPT ![p] = {}]
    BY <1>1 DEF MonitorScan, MonitorFails
  <2>2. \A l \in Log : Orphan(p, l) => l \in old /\ log[l].runner # runner[p]
    BY DEF Orphan
  <2>3. /\ found' \in [Process -> SUBSET Log]
        /\ \A q \in Process :
             \/ found'[q] \subseteq found[q]
             \/ runner[q] # 0 /\ \A l \in found'[q] : l \in old /\ log[l].runner # runner[q]
    BY <2>1, <2>2 DEF Inv, TypeOK
  <2>4. StepsKeepRunners
    BY <1>1, <2>3 DEF MonitorScan, MonitorFails, config, StepsKeepRunners, Inv, TypeOK, ExecRow
  <2> QED
    BY <2>4, StepKeeps
<1>2. CASE MonitorReclaim(p)
  <2>1. /\ found' \in [Process -> SUBSET Log]
        /\ \A q \in Process : found'[q] \subseteq found[q]
    BY <1>2 DEF MonitorReclaim, Inv, TypeOK
  <2>2. StepsKeepRunners
    BY <1>2, <2>1, ReclaimRows DEF MonitorReclaim, config, StepsKeepRunners, Inv, TypeOK, ExecRow
  <2> QED
    BY <2>2, StepKeeps
<1> QED
  BY <1>1, <1>2

\* The administration and the clock.
LEMMA AdminKeeps ==
    ASSUME Inv, AdminStep \/ \E l \in Log : GraceOver(l)
    PROVE  Inv'
<1>1. ASSUME NEW l \in Log, GraceOver(l) PROVE StepsKeepRunners
  BY <1>1 DEF GraceOver, config, StepsKeepRunners, Inv, TypeOK, ExecRow
<1>2. ASSUME NEW st \in {"enabled", "disabled"}, SetStatus(st) PROVE StepsKeepRunners
  BY <1>2 DEF SetStatus, StepsKeepRunners, Inv, TypeOK, ExecRow
<1>3. ASSUME SwitchTenant PROVE StepsKeepRunners
  <2>1. tenantOn' \in BOOLEAN /\ UNCHANGED <<job, log, old, runner, starts, exec, found>>
    BY <1>3 DEF SwitchTenant, Inv, TypeOK
  <2> QED
    BY <2>1 DEF StepsKeepRunners, Inv, TypeOK, ExecRow
<1>4. ASSUME DeleteJob \/ \E l \in Log : DeleteLog(l) PROVE StepsKeepRunners
  <2>1. /\ job' \in {"enabled", "disabled", "deleted"}
        /\ UNCHANGED <<tenantOn, old, runner, starts, exec, found>>
    BY <1>4 DEF DeleteJob, DeleteLog, config, Inv, TypeOK
  <2>2. /\ log' \in [Log -> LogRow]
        /\ \A l \in Log : log'[l].runner = log[l].runner /\ (log'[l].status = "none" => log[l].status = "none")
    BY <1>4, DeleteRows
  <2> QED
    BY <2>1, <2>2 DEF StepsKeepRunners, Inv, TypeOK, ExecRow
<1> QED
  BY <1>1, <1>2, <1>3, <1>4, StepKeeps DEF AdminStep

-----------------------------------------------------------------------------
(* Type correctness *)

\* Nothing runs at first.
LEMMA InitInv == Init => Inv
BY JobAssumption DEF Init, Idle, Inv, TypeOK, LogRow, LogStatus, RunnerId, IdsDrawn, LogsOwned, OldLogs, Task

\* Every step keeps the invariant.
LEMMA NextInv == Inv /\ [Next]_vars => Inv'
<1> SUFFICES ASSUME Inv, [Next]_vars PROVE Inv'
  OBVIOUS
<1>1. ASSUME NEW p \in Process, NEW t \in Trigger, ExecutionStep(p, t) PROVE Inv'
  BY <1>1, CheckKeeps, InsertKeeps, EndsFinish, FinishKeeps DEF ExecutionStep
<1>2. ASSUME NEW p \in Process, ProcessStep(p) PROVE Inv'
  BY <1>2, StopKeeps, StartKeeps, MonitorKeeps DEF ProcessStep
<1>3. CASE AdminStep \/ \E l \in Log : GraceOver(l)
  BY <1>3, AdminKeeps
<1>4. CASE UNCHANGED vars
  BY <1>4 DEF vars, Inv, TypeOK, IdsDrawn, LogsOwned, OldLogs, Task
<1> QED
  BY <1>1, <1>2, <1>3, <1>4 DEF Next

\* RUNNER_IDs stay distinct and executions on logs of their own, in every
\* reachable state.
THEOREM Invariance == Spec => []Inv
BY InitInv, NextInv, PTL DEF Spec

\* Types, distinct RUNNER_IDs and the shape of executions.
THEOREM TypeCorrect == Spec => []TypeOK
<1>1. Inv => TypeOK
  BY DEF Inv
<1> QED
  BY <1>1, Invariance, PTL

-----------------------------------------------------------------------------
(* Reclaiming *)

\* What a step may do to executions, and to the logs of those that go on.
ExecutionsStand ==
    /\ \A p \in Process, t \in Trigger : Task(p, t)' =>
         /\ Task(p, t) /\ exec'[p][t] = exec[p][t]
         /\ \/ log'[exec[p][t].log] = log[exec[p][t].log]
            \/ log'[exec[p][t].log].status = "gone" /\ log'[exec[p][t].log].by = log[exec[p][t].log].by
    /\ \A l \in old' : l \in old \/ (HasTimeout => ~Executing(l))

\* Executions that merely stand, stand rightly.
LEMMA StandingSound ==
    ASSUME Inv, Inv', UnderWay, ExecutionsStand
    PROVE  UnderWay'
<1>1. ASSUME HasTimeout, NEW l \in old' PROVE ~Executing(l)'
  <2>1. l \in Log /\ ~Executing(l)
    BY <1>1 DEF ExecutionsStand, UnderWay, Inv, TypeOK
  <2>2. ASSUME NEW p \in Process, NEW t \in Trigger, exec'[p][t] = [pc |-> "task", log |-> l]
        PROVE  FALSE
    <3>1. Task(p, t)'
      BY <2>2 DEF Task
    <3>2. exec[p][t] = [pc |-> "task", log |-> l]
      BY <2>2, <3>1 DEF ExecutionsStand
    <3> QED
      BY <2>1, <3>2 DEF Executing
  <2> QED
    BY <2>2 DEF Executing
<1>2. \A p \in Process, t \in Trigger : Task(p, t)' =>
        log'[exec'[p][t].log].status \in {"running", "gone"} /\ log'[exec'[p][t].log].by = "none"
  BY DEF ExecutionsStand, UnderWay
<1> QED
  BY <1>1, <1>2 DEF UnderWay

\* What a monitor found is not under way.
LEMMA FoundIsDead ==
    ASSUME SoundGrace, Inv, UnderWay, NEW p \in Process, NEW l \in found[p]
    PROVE  l \in Log /\ ~Executing(l)
<1>1. l \in Log /\ l \in old /\ log[l].runner # runner[p]
  BY DEF Inv, TypeOK, OldLogs
<1>2. CASE HasTimeout
  BY <1>1, <1>2 DEF UnderWay
<1>3. CASE \A q \in Process : q = p
  <2>1. \A q \in Process, t \in Trigger : Task(q, t) => log[exec[q][t].log].runner = runner[p]
    BY <1>3 DEF Inv, LogsOwned
  <2> QED
    BY <1>1, <2>1, ExecutingTask DEF Inv
<1> QED
  BY <1>2, <1>3 DEF SoundGrace

\* Every step lets what is under way stand, or starts or ends an execution.
LEMMA NextUnderWay ==
    ASSUME SoundGrace, Inv, Inv', UnderWay, [Next]_vars
    PROVE  UnderWay'
<1>1. ASSUME NEW p \in Process, NEW t \in Trigger, ExecutionStep(p, t) PROVE UnderWay'
  <2>1. CASE Check(p, t) \/ InsertFails(p, t)
    <3>1. PICK e \in {Idle, [pc |-> "insert", log |-> NoLog]} : Become(p, t, e)
      BY <2>1 DEF Check, InsertFails
    <3>2. e \in ExecRow /\ e.pc # "task"
      BY DEF Idle, ExecRow
    <3>3. UNCHANGED <<log, old>>
      BY <2>1 DEF Check, InsertFails
    <3>4. ExecutionsStand
      BY <3>1, <3>2, <3>3, BecomeMoves DEF ExecutionsStand, Task, Inv
    <3> QED
      BY <3>4, StandingSound
  <2>2. ASSUME NEW l \in Log, InsertLog(p, t, l) PROVE UnderWay'
    <3> DEFINE e == [pc |-> "task", log |-> l]
    <3>1. e \in ExecRow /\ e.pc = "task" /\ e.log = l
      BY DEF ExecRow
    <3>2. /\ exec'[p][t] = e
          /\ \A q \in Process, u \in Trigger : q # p \/ u # t => exec'[q][u] = exec[q][u]
      BY <2>2, <3>1, BecomeMoves DEF Inv, InsertLog
    <3>3. /\ log'[l].status = "running" /\ log'[l].by = "none" /\ log[l].status = "none"
          /\ \A k \in Log \ {l} : log'[k] = log[k]
          /\ old' = old
      BY <2>2 DEF InsertLog, Inv, TypeOK
    <3> HIDE DEF e
    <3>4. \A q \in Process, u \in Trigger : Task(q, u) => exec[q][u].log \in Log \ {l}
      BY <3>3, ExecutionType DEF Inv, LogsOwned
    <3>5. \A q \in Process, u \in Trigger :
            Task(q, u)' => (q = p /\ u = t) \/ (Task(q, u) /\ exec'[q][u] = exec[q][u])
      BY <3>2 DEF Task
    <3>6. \A q \in Process, u \in Trigger : Task(q, u)' =>
            log'[exec'[q][u].log].status \in {"running", "gone"} /\ log'[exec'[q][u].log].by = "none"
      BY <3>1, <3>2, <3>3, <3>4, <3>5 DEF UnderWay
    <3>7. ASSUME HasTimeout, NEW k \in old PROVE ~Executing(k)'
      <4>1. k \in Log /\ k # l /\ ~Executing(k)
        BY <3>3, <3>7 DEF Inv, TypeOK, OldLogs, UnderWay
      <4>2. \A q \in Process, u \in Trigger : Task(q, u) => exec[q][u].log # k
        BY <4>1, ExecutingTask DEF Inv
      <4>3. \A q \in Process, u \in Trigger : Task(q, u)' => exec'[q][u].log # k
        BY <3>1, <3>2, <3>5, <4>1, <4>2
      <4>4. \A q \in Process, u \in Trigger : exec'[q][u] # [pc |-> "task", log |-> k]
        BY <4>3 DEF Task
      <4> QED
        BY <4>4 DEF Executing
    <3> QED
      BY <3>3, <3>6, <3>7 DEF UnderWay
  <2>3. CASE SetupFails(p, t) \/ TaskReturns(p, t) \/ TaskFails(p, t) \/ CloseFails(p, t)
    <3>1. PICK rows : /\ Task(p, t) /\ Finish(p, t, rows)
                      /\ rows = log \/ \E st \in {"success", "failed"} : rows = Closed(exec[p][t].log, st)
      BY <2>3, EndsFinish
    <3>2. Idle \in ExecRow /\ Idle.pc # "task"
      BY DEF Idle, ExecRow
    <3>3. /\ exec'[p][t] = Idle
          /\ \A q \in Process, u \in Trigger : q # p \/ u # t => exec'[q][u] = exec[q][u]
      BY <3>1, <3>2, BecomeMoves DEF Inv, Finish
    <3>4. \A l \in Log : l # exec[p][t].log => log'[l] = log[l]
      <4>1. exec[p][t].log \in Log /\ log \in [Log -> LogRow]
        BY <3>1, ExecutionType DEF Inv, TypeOK
      <4> QED
        BY <3>1, <4>1 DEF Finish, Closed
    <3>5. \A q \in Process, u \in Trigger : Task(q, u)' =>
            Task(q, u) /\ exec'[q][u] = exec[q][u] /\ log'[exec[q][u].log] = log[exec[q][u].log]
      BY <3>1, <3>2, <3>3, <3>4, ExecutionType DEF Inv, LogsOwned, Task
    <3>6. old' = old
      BY <3>1 DEF Finish
    <3> QED
      BY <3>5, <3>6, StandingSound DEF ExecutionsStand
  <2> QED
    BY <1>1, <2>1, <2>2, <2>3 DEF ExecutionStep
<1>2. ASSUME NEW p \in Process, ProcessStep(p) PROVE UnderWay'
  <2>1. CASE Stop(p)
    <3>1. /\ \A t \in Trigger : exec'[p][t] = Idle
          /\ \A q \in Process \ {p} : exec'[q] = exec[q]
          /\ UNCHANGED <<log, old>>
      BY <2>1 DEF Stop, Inv, TypeOK
    <3>2. ExecutionsStand
      BY <3>1 DEF ExecutionsStand, Task, Idle
    <3> QED
      BY <3>2, StandingSound
  <2>2. CASE Start(p) \/ MonitorScan(p) \/ MonitorFails(p)
    <3>1. UNCHANGED <<log, old, exec>>
      BY <2>2 DEF Start, MonitorScan, MonitorFails
    <3>2. ExecutionsStand
      BY <3>1 DEF ExecutionsStand, Task
    <3> QED
      BY <3>2, StandingSound
  <2>3. CASE MonitorReclaim(p)
    <3>1. UNCHANGED <<old, exec>>
      BY <2>3 DEF MonitorReclaim
    <3>2. \A q \in Process, t \in Trigger : Task(q, t) => exec[q][t].log \in Log \ found[p]
      BY FoundIsDead, ExecutionType, ExecutingTask DEF Inv
    <3>3. ExecutionsStand
      BY <2>3, <3>1, <3>2, ReclaimRows DEF ExecutionsStand, Task
    <3> QED
      BY <3>3, StandingSound
  <2> QED
    BY <1>2, <2>1, <2>2, <2>3 DEF ProcessStep
<1>3. CASE AdminStep
  <2>1. CASE DeleteJob \/ \E l \in Log : DeleteLog(l)
    <3>1. UNCHANGED <<old, exec>>
      BY <2>1 DEF DeleteJob, DeleteLog
    <3>2. ExecutionsStand
      BY <2>1, <3>1, DeleteRows, ExecutionType DEF ExecutionsStand, Task, Inv
    <3> QED
      BY <3>2, StandingSound
  <2>2. CASE SwitchTenant \/ \E st \in {"enabled", "disabled"} : SetStatus(st)
    <3>1. UNCHANGED <<log, old, exec>>
      BY <2>2 DEF SwitchTenant, SetStatus
    <3>2. ExecutionsStand
      BY <3>1 DEF ExecutionsStand, Task
    <3> QED
      BY <3>2, StandingSound
  <2> QED
    BY <1>3, <2>1, <2>2 DEF AdminStep
<1>4. ASSUME NEW l \in Log, GraceOver(l) PROVE UnderWay'
  <2>1. UNCHANGED <<log, exec>> /\ old' = old \cup {l} /\ (HasTimeout => ~Executing(l))
    BY <1>4 DEF GraceOver
  <2>2. ExecutionsStand
    BY <2>1 DEF ExecutionsStand, Task
  <2> QED
    BY <2>2, StandingSound
<1>5. CASE UNCHANGED vars
  <2>1. ExecutionsStand
    BY <1>5 DEF vars, ExecutionsStand, Task
  <2> QED
    BY <2>1, StandingSound
<1> QED
  BY <1>1, <1>2, <1>3, <1>4, <1>5 DEF Next

\* An execution is under way in every reachable state only where it should be.
THEOREM ExecutionsStaySound ==
    ASSUME SoundGrace
    PROVE  Spec => [](Inv /\ UnderWay)
<1>1. Init => Inv /\ UnderWay
  <2>1. Init => UnderWay
    BY DEF Init, UnderWay, Task, Idle
  <2> QED
    BY <2>1, InitInv
<1>2. (Inv /\ UnderWay) /\ [Next]_vars => (Inv /\ UnderWay)'
  BY NextInv, NextUnderWay
<1> QED
  BY <1>1, <1>2, PTL DEF Spec

\* The monitor never declares an execution dead that is under way, whichever
\* process runs it and however often processes restart.
THEOREM ReclaimingIsSound ==
    ASSUME SoundGrace
    PROVE  Spec => []ReclaimedIsDead
<1>1. Inv /\ UnderWay => ReclaimedIsDead
  <2> SUFFICES ASSUME Inv, UnderWay, NEW l \in Log, log[l].by \in Process PROVE ~Executing(l)
    BY DEF ReclaimedIsDead
  <2>1. log[l].by # "none"
    BY JobAssumption
  <2> QED
    BY <2>1, ExecutingTask DEF Inv, UnderWay
<1> QED
  BY <1>1, ExecutionsStaySound, PTL

\* No runner and no second monitor overwrites the verdict of a finished log.
THEOREM VerdictsAreFinal ==
    ASSUME SoundGrace
    PROVE  Spec => FinishedIsFinal
<1> DEFINE Final == \A l \in Log : log[l].status \in {"success", "failed"} =>
                       log'[l] = log[l] \/ log'[l].status = "gone"
<1>1. ASSUME Inv, UnderWay, Next PROVE Final
  <2>1. ASSUME NEW p \in Process, NEW t \in Trigger, ExecutionStep(p, t) PROVE Final
    <3>1. CASE Check(p, t) \/ InsertFails(p, t)
      BY <3>1 DEF Check, InsertFails
    <3>2. ASSUME NEW l \in Log, InsertLog(p, t, l) PROVE Final
      BY <3>2 DEF InsertLog, Inv, TypeOK
    <3>3. CASE SetupFails(p, t) \/ TaskReturns(p, t) \/ TaskFails(p, t) \/ CloseFails(p, t)
      <4> DEFINE k == exec[p][t].log
      <4>1. k \in Log /\ log[k].status \in {"running", "gone"} /\ log \in [Log -> LogRow]
        BY <1>1, <3>3, EndsFinish, ExecutionType DEF UnderWay, Inv, TypeOK
      <4>2. \A l \in Log : l # k => log'[l] = log[l]
        <5>1. log' = log \/ \E st \in {"success", "failed"} : log' = Closed(k, st)
          BY <3>3, EndsFinish DEF Finish
        <5> QED
          BY <4>1, <5>1 DEF Closed
      <4> QED
        BY <4>1, <4>2
    <3> QED
      BY <2>1, <3>1, <3>2, <3>3 DEF ExecutionStep
  <2>2. ASSUME NEW p \in Process, ProcessStep(p) PROVE Final
    <3>1. CASE MonitorReclaim(p)
      BY <1>1, <3>1, ReclaimRows
    <3>2. CASE ~MonitorReclaim(p)
      BY <2>2, <3>2 DEF ProcessStep, Stop, Start, MonitorScan, MonitorFails
    <3> QED
      BY <3>1, <3>2
  <2>3. CASE AdminStep
    <3>1. CASE DeleteJob \/ \E l \in Log : DeleteLog(l)
      BY <1>1, <3>1, DeleteRows
    <3>2. CASE SwitchTenant \/ \E st \in {"enabled", "disabled"} : SetStatus(st)
      BY <3>2 DEF SwitchTenant, SetStatus
    <3> QED
      BY <2>3, <3>1, <3>2 DEF AdminStep
  <2>4. ASSUME NEW l \in Log, GraceOver(l) PROVE Final
    BY <2>4 DEF GraceOver
  <2> QED
    BY <1>1, <2>1, <2>2, <2>3, <2>4 DEF Next
<1>2. (Inv /\ UnderWay) /\ [Next]_vars => [Final]_vars
  BY <1>1
<1> QED
  BY <1>2, ExecutionsStaySound, PTL DEF Spec, FinishedIsFinal
=============================================================================
