------------------------------ MODULE JobRunner ------------------------------
(***************************************************************************)
(* Execution of one scheduled job: the scheduler processes that run it,    *)
(* its execution logs, and the monitor that reclaims logs of dead          *)
(* processes.  Every process draws a RUNNER_ID when it starts.  APScheduler *)
(* runs at most one instance per job id, and a job has two ids in each     *)
(* process: its schedule and its manual trigger.                           *)
(*                                                                         *)
(* A step reads or commits the database once; between two steps of an      *)
(* execution everything else may happen.                                   *)
(***************************************************************************)
EXTENDS Naturals, FiniteSets

CONSTANTS
    Process,      \* scheduler processes (embedded workers or the stand-alone one)
    Log,          \* execution logs that may be written
    MaxRunner,    \* bound on process starts: RUNNER_IDs are 1..MaxRunner
    Exclusive,    \* sys_job.concurrent = "2"
    Retries,      \* sys_job.max_retries > 0
    HasTimeout,   \* sys_job.timeout_seconds is set
    MonitorRuns,  \* JobLogMonitor is started: APP_ROLE = "all"
    DbFaults,     \* statements on an open session may fail
    NoLog

Trigger  == {"schedule", "manual"}
RunnerId == 0..MaxRunner    \* 0: the process is down

ASSUME JobAssumption ==
    /\ MaxRunner \in Nat
    /\ {Exclusive, Retries, HasTimeout, MonitorRuns, DbFaults} \subseteq BOOLEAN
    /\ NoLog \notin Log
    /\ {"none", "runner"} \cap Process = {}

VARIABLES
    job,       \* sys_job.status, or "deleted"
    tenantOn,  \* the tenant is enabled
    log,       \* sys_job_log rows
    old,       \* logs older than their grace period
    runner,    \* RUNNER_ID of each process
    starts,    \* process starts so far
    exec,      \* what each process does for each trigger
    found      \* orphans the monitor of a process has selected

vars == <<job, tenantOn, log, old, runner, starts, exec, found>>
config == <<job, tenantOn>>

LogStatus == {"none", "running", "success", "failed", "gone"}
LogRow    == [status : LogStatus, runner : RunnerId, by : Process \cup {"none", "runner"}]
Idle      == [pc |-> "idle", log |-> NoLog]

Executing(l)  == \E p \in Process, t \in Trigger : exec[p][t] = [pc |-> "task", log |-> l]
Closed(l, st) == [log EXCEPT ![l].status = st, ![l].by = "runner"]

Become(p, t, e) == exec' = [exec EXCEPT ![p][t] = e]

Init ==
    /\ job = "enabled" /\ tenantOn = TRUE
    /\ log = [l \in Log |-> [status |-> "none", runner |-> 0, by |-> "none"]]
    /\ old = {}
    /\ runner = [p \in Process |-> 0]
    /\ starts = 0
    /\ exec = [p \in Process |-> [t \in Trigger |-> Idle]]
    /\ found = [p \in Process |-> {}]

-----------------------------------------------------------------------------
(* _do_execute *)

\* A manual trigger skips the status check; a running log blocks both.
MayRun(t) ==
    /\ tenantOn
    /\ job = "enabled" \/ (t = "manual" /\ job = "disabled")
    /\ Exclusive => \A l \in Log : log[l].status # "running"

\* The checks pass; nothing is written yet.
Check(p, t) ==
    /\ runner[p] # 0 /\ exec[p][t] = Idle
    /\ MayRun(t)
    /\ Become(p, t, [pc |-> "insert", log |-> NoLog])
    /\ UNCHANGED <<config, log, old, runner, starts, found>>

\* The running log is committed under the process's RUNNER_ID.
InsertLog(p, t, l) ==
    /\ exec[p][t].pc = "insert"
    /\ log[l].status = "none"
    /\ job # "deleted"
    /\ log' = [log EXCEPT ![l] = [status |-> "running", runner |-> runner[p], by |-> "none"]]
    /\ Become(p, t, [pc |-> "task", log |-> l])
    /\ UNCHANGED <<config, old, runner, starts, found>>

\* The job is gone (foreign key) or the database failed: rollback, no log.
InsertFails(p, t) ==
    /\ exec[p][t].pc = "insert"
    /\ job = "deleted" \/ DbFaults
    /\ Become(p, t, Idle)
    /\ UNCHANGED <<config, log, old, runner, starts, found>>

\* The handler of _do_execute marks the log, if its attributes are loaded.
HandlerMark(l) == Closed(l, "failed")

\* A log deleted meanwhile cannot be updated: the execution just ends.
Finish(p, t, rows) ==
    /\ log' = IF log[exec[p][t].log].status = "gone" THEN log ELSE rows
    /\ Become(p, t, Idle)
    /\ UNCHANGED <<config, old, runner, starts, found>>

\* _run_task fails before the first attempt, e.g. on malformed job_args.
SetupFails(p, t) ==
    /\ exec[p][t].pc = "task"
    /\ Finish(p, t, HandlerMark(exec[p][t].log))

TaskReturns(p, t) ==
    /\ exec[p][t].pc = "task"
    /\ Finish(p, t, Closed(exec[p][t].log, "success"))

\* An exception or a timeout.  The last attempt marks the log.  Before another
\* attempt the session is rolled back, which expires job and log; reading
\* job.job_id for the retry message then needs I/O outside a greenlet and
\* raises, and so does log.start_time in the handler of _do_execute: there is
\* no second attempt and the log is left as it is.
TaskFails(p, t) ==
    LET l == exec[p][t].log IN
    /\ exec[p][t].pc = "task"
    /\ Finish(p, t, IF Retries THEN log ELSE Closed(l, "failed"))

\* The closing COMMIT raises, before or after it took effect; the rollback
\* expires the rows with the same consequence.
CloseFails(p, t) ==
    /\ DbFaults
    /\ exec[p][t].pc = "task"
    /\ \E rows \in {log, Closed(exec[p][t].log, "success"), Closed(exec[p][t].log, "failed")} :
          Finish(p, t, rows)

-----------------------------------------------------------------------------
(* Processes *)

\* A crash, or a shutdown: APScheduler cancels the tasks without any handler.
Stop(p) ==
    /\ runner[p] # 0
    /\ runner' = [runner EXCEPT ![p] = 0]
    /\ exec' = [exec EXCEPT ![p] = [t \in Trigger |-> Idle]]
    /\ found' = [found EXCEPT ![p] = {}]
    /\ UNCHANGED <<config, log, old, starts>>

\* Faulty variant: the id identifies the host, not the process start.
StartReusingId(p) ==
    /\ runner[p] = 0 /\ starts < MaxRunner
    /\ starts' = starts + 1
    /\ runner' = [runner EXCEPT ![p] = 1]
    /\ UNCHANGED <<config, log, old, exec, found>>

\* RUNNER_ID is a fresh random value of each process start.
Start(p) ==
    /\ runner[p] = 0 /\ starts < MaxRunner
    /\ starts' = starts + 1
    /\ runner' = [runner EXCEPT ![p] = starts + 1]
    /\ UNCHANGED <<config, log, old, exec, found>>

\* The grace period is twice the timeout (or an hour): an execution that has a
\* timeout, and as above only one attempt, has ended by then.
GraceOver(l) ==
    /\ l \notin old /\ log[l].status = "running"
    /\ HasTimeout => ~Executing(l)
    /\ old' = old \cup {l}
    /\ UNCHANGED <<config, log, runner, starts, exec, found>>

-----------------------------------------------------------------------------
(* JobLogMonitor._scan_once *)

\* Faulty variants: no grace period; the wrong side of the comparison.
OrphanWithoutGrace(p, l) == log[l].status = "running" /\ log[l].runner # runner[p]
OrphanOfThisProcess(p, l) == log[l].status = "running" /\ log[l].runner = runner[p] /\ l \in old

\* Running, not of this process, and beyond its grace period.
Orphan(p, l) == log[l].status = "running" /\ log[l].runner # runner[p] /\ l \in old

MonitorScan(p) ==
    /\ MonitorRuns /\ runner[p] # 0 /\ tenantOn
    /\ found[p] = {}
    /\ \E l \in Log : Orphan(p, l)
    /\ found' = [found EXCEPT ![p] = {l \in Log : Orphan(p, l)}]
    /\ UNCHANGED <<config, log, old, runner, starts, exec>>

\* Faulty variant: the UPDATE selects by primary key only.
ReclaimBlindly(l) == log[l].status # "gone"

\* UPDATE ... WHERE status = RUNNING.
Reclaimable(l) == log[l].status = "running"

\* All updates of a scan are committed together.
MonitorReclaim(p) ==
    /\ found[p] # {}
    /\ log' = [l \in Log |-> IF l \in found[p] /\ Reclaimable(l)
                               THEN [log[l] EXCEPT !.status = "failed", !.by = p] ELSE log[l]]
    /\ found' = [found EXCEPT ![p] = {}]
    /\ UNCHANGED <<config, old, runner, starts, exec>>

\* The scan fails; the loop backs off and goes on.
MonitorFails(p) ==
    /\ DbFaults /\ found[p] # {}
    /\ found' = [found EXCEPT ![p] = {}]
    /\ UNCHANGED <<config, log, old, runner, starts, exec>>

-----------------------------------------------------------------------------
(* Administration *)

SetStatus(st) ==
    /\ job # "deleted" /\ st \in {"enabled", "disabled"} \ {job}
    /\ job' = st
    /\ UNCHANGED <<tenantOn, log, old, runner, starts, exec, found>>

\* Only a disabled job; its logs go with it.
DeleteJob ==
    /\ job = "disabled"
    /\ job' = "deleted"
    /\ log' = [l \in Log |-> IF log[l].status = "none" THEN log[l] ELSE [log[l] EXCEPT !.status = "gone"]]
    /\ UNCHANGED <<tenantOn, old, runner, starts, exec, found>>

\* Batch deletion and age-based cleaning of logs, whatever their status.
DeleteLog(l) ==
    /\ log[l].status \notin {"none", "gone"}
    /\ log' = [log EXCEPT ![l].status = "gone"]
    /\ UNCHANGED <<config, old, runner, starts, exec, found>>

SwitchTenant ==
    /\ tenantOn' = ~tenantOn
    /\ UNCHANGED <<job, log, old, runner, starts, exec, found>>

-----------------------------------------------------------------------------

ExecutionStep(p, t) ==
    \/ Check(p, t)
    \/ \E l \in Log : InsertLog(p, t, l)
    \/ InsertFails(p, t) \/ SetupFails(p, t)
    \/ TaskReturns(p, t) \/ TaskFails(p, t) \/ CloseFails(p, t)

ProcessStep(p) ==
    Stop(p) \/ Start(p) \/ MonitorScan(p) \/ MonitorReclaim(p) \/ MonitorFails(p)

AdminStep ==
    \/ \E st \in {"enabled", "disabled"} : SetStatus(st)
    \/ DeleteJob \/ SwitchTenant
    \/ \E l \in Log : DeleteLog(l)

Next ==
    \/ \E p \in Process, t \in Trigger : ExecutionStep(p, t)
    \/ \E p \in Process : ProcessStep(p)
    \/ \E l \in Log : GraceOver(l)
    \/ AdminStep

Spec == Init /\ [][Next]_vars

\* Time passes, a stopped process is started again by its supervisor, a task
\* with a timeout ends, and the monitor loop runs every 60 s, backing off on
\* errors but never giving up.
Fairness ==
    /\ \A l \in Log : WF_vars(GraceOver(l))
    /\ \A p \in Process :
         /\ WF_vars(Start(p))
         /\ SF_vars(MonitorScan(p)) /\ SF_vars(MonitorReclaim(p))
         /\ \A t \in Trigger :
              WF_vars(SetupFails(p, t) \/ TaskReturns(p, t) \/ TaskFails(p, t) \/ CloseFails(p, t))

FairSpec == Spec /\ Fairness

-----------------------------------------------------------------------------
(* Correctness *)

\* Every variable has its shape, RUNNER_IDs are drawn once, and an execution
\* holds a log exactly while its task runs.
TypeOK ==
    /\ job \in {"enabled", "disabled", "deleted"} /\ tenantOn \in BOOLEAN
    /\ log \in [Log -> LogRow]
    /\ old \subseteq Log
    /\ runner \in [Process -> RunnerId] /\ starts \in RunnerId
    /\ exec \in [Process -> [Trigger -> [pc : {"idle", "insert", "task"}, log : Log \cup {NoLog}]]]
    /\ found \in [Process -> SUBSET Log]
    /\ \A p, q \in Process : runner[p] = runner[q] => p = q \/ runner[p] = 0
    /\ \A p \in Process, t \in Trigger : (exec[p][t].pc = "task") = (exec[p][t].log # NoLog)

\* The monitor never declares an execution dead that is still under way,
\* whichever process it runs in and however the restarts interleave.
ReclaimedIsDead ==
    \A l \in Log : log[l].by \in Process => ~Executing(l)

\* A finished log keeps its verdict: no runner, and no second monitor, overwrites
\* the status or the auditing columns; it can only be deleted.
FinishedIsFinal ==
    [][\A l \in Log : log[l].status \in {"success", "failed"} =>
          log'[l] = log[l] \/ log'[l].status = "gone"]_vars

\* The monitor spares every running log of a live process as a long task.  That
\* is right only if each of them is indeed being executed by that process.
RunningIsExecuted ==
    \A p \in Process, l \in Log :
        runner[p] # 0 /\ log[l].status = "running" /\ log[l].runner = runner[p]
            => \E t \in Trigger : exec[p][t].log = l

\* A log whose process died does not stay running, so that it cannot keep a
\* non-concurrent job from ever running again (unless its tenant is disabled).
OrphanOf(l) == log[l].status = "running" /\ \A p \in Process : runner[p] # log[l].runner

OrphanRecovers ==
    <>[]tenantOn /\ []<>(\E p \in Process : runner[p] # 0)
        => \A l \in Log : OrphanOf(l) ~> ~OrphanOf(l)

\* A job that does not allow concurrency is executed at most once at a time.
\* The code does not meet it (README, "Where documents and code part").
NoOverlap ==
    Exclusive => Cardinality({l \in Log : Executing(l)}) <= 1
=============================================================================
