----------------------------- MODULE JobSchedule -----------------------------
(***************************************************************************)
(* Alignment of the in-memory schedule of the scheduler process with the   *)
(* table sys_job through Redis pub/sub (src/app/core/scheduler.py, the job *)
(* API, src/app/scheduler_worker.py and the tool job.update_cron).         *)
(*                                                                         *)
(* A request commits its change first and publishes afterwards; what is    *)
(* published while nobody is subscribed is gone.  The scheduler handles    *)
(* one event at a time and answers job_changed by reading the whole table. *)
(***************************************************************************)
EXTENDS Integers, Sequences, FiniteSets

CONSTANTS Admin,        \* concurrent requests
          Job,          \* jobs
          Trigger,      \* cron expressions and intervals
          MaxChanges,   \* bound: committed changes
          MaxStarts     \* bound: starts of the scheduler process

None == "none"

VARIABLES
  table,      \* sys_job: the trigger and status of each job, or None
  sched,      \* APScheduler: the trigger registered for each job, or None
  channel,    \* events delivered to the subscriber and not yet handled
  listening,  \* the scheduler process: down, starting,
              \* started or subscribed
  loading,    \* the enabled jobs a reload has read, or <<>>
  admin,      \* what each request still has to publish
  unheard,    \* changes that no event will announce: lost, ai
  changes, starts

vars == <<table, sched, channel, listening, loading, admin, unheard,
          changes, starts>>

NoJob == [trigger |-> None, on |-> FALSE]
Nothing == [j \in Job |-> None]

Init ==
  /\ table = [j \in Job |-> NoJob] /\ sched = Nothing
  /\ channel = <<>> /\ listening = "down" /\ loading = <<>>
  /\ admin = [a \in Admin |-> <<>>] /\ unheard = {}
  /\ changes = 0 /\ starts = 0

(***************************************************************************)
(* Administration                                                          *)
(***************************************************************************)

\* What reload_jobs reads: the enabled jobs and their triggers.
Enabled(t) == [j \in Job |-> IF t[j].on THEN t[j].trigger ELSE None]

\* The commit of a request and the events it owes.
Change(a, j, row, events) ==
  /\ admin[a] = <<>> /\ changes < MaxChanges
  /\ table' = [table EXCEPT ![j] = row] /\ changes' = changes + 1
  /\ admin' = [admin EXCEPT ![a] = events]
  /\ UNCHANGED <<sched, channel, listening, loading, unheard, starts>>

\* create: with run_on_enable an enabled job is run at once as well.
Add(a, j, g, on, run) ==
  /\ table[j] = NoJob
  /\ Change(a, j, [trigger |-> g, on |-> on],
            IF on /\ run THEN <<"changed", "run">> ELSE <<"changed">>)

Update(a, j, g) ==
  /\ table[j] # NoJob
  /\ Change(a, j, [table[j] EXCEPT !.trigger = g], <<"changed">>)

UpdateStatus(a, j, on, run) ==
  /\ table[j] # NoJob
  /\ Change(a, j, [table[j] EXCEPT !.on = on],
            IF on /\ run THEN <<"changed", "run">> ELSE <<"changed">>)

\* delete and batch_delete refuse enabled jobs.
Delete(a, j) ==
  /\ table[j] # NoJob /\ ~table[j].on
  /\ Change(a, j, NoJob, <<"changed">>)

\* run_now publishes only.
RunNow(a, j) ==
  /\ table[j] # NoJob /\ admin[a] = <<>> /\ changes < MaxChanges
  /\ changes' = changes + 1 /\ admin' = [admin EXCEPT ![a] = <<"run">>]
  /\ UNCHANGED <<table, sched, channel, listening, loading, unheard, starts>>

\* job_update_cron commits through the gateway; no caller publishes.
AiUpdateCron(j, g) ==
  /\ table[j] # NoJob /\ changes < MaxChanges /\ g # table[j].trigger
  /\ table' = [table EXCEPT ![j].trigger = g] /\ changes' = changes + 1
  /\ unheard' = unheard \cup {"ai"}
  /\ UNCHANGED <<sched, channel, listening, loading, admin, starts>>

\* notify_job_changed and notify_manual_trigger.
Publish(a) ==
  /\ admin[a] # <<>>
  /\ admin' = [admin EXCEPT ![a] = Tail(@)]
  /\ channel' = IF listening = "subscribed" THEN Append(channel, Head(admin[a]))
                ELSE channel
  /\ unheard' = IF listening # "subscribed" /\ Head(admin[a]) = "changed"
                THEN unheard \cup {"lost"} ELSE unheard
  /\ UNCHANGED <<table, sched, listening, loading, changes, starts>>

\* _safe_publish: an error of Redis is logged and the request succeeds; so
\* does a process that dies between its commit and the publication.
PublishFails(a) ==
  /\ admin[a] # <<>>
  /\ admin' = [admin EXCEPT ![a] = Tail(@)]
  /\ unheard' = IF Head(admin[a]) = "changed" THEN unheard \cup {"lost"}
                ELSE unheard
  /\ UNCHANGED <<table, sched, channel, listening, loading, changes, starts>>

(***************************************************************************)
(* The scheduler process                                                   *)
(***************************************************************************)

\* The query of reload_jobs; a change that commits after it has its own event.
ReadJobs == loading' = Enabled(table)

\* mutant: jobs that are already registered are left alone
AlignNewOnly(s, jobs) ==
  [j \in Job |-> IF jobs[j] = None \/ s[j] = None THEN jobs[j] ELSE s[j]]

\* The rest of reload_jobs: stopped and deleted jobs are removed, new and
\* changed triggers registered, the others left alone.
Aligned(s, jobs) ==
  [j \in Job |-> IF s[j] # None /\ s[j] = jobs[j] THEN s[j] ELSE jobs[j]]

Apply == sched' = Aligned(sched, loading)

\* _run of the worker (or the lifespan of APP_ROLE=all) reads the table ...
Start ==
  /\ listening = "down" /\ starts < MaxStarts
  /\ starts' = starts + 1 /\ ReadJobs /\ listening' = "starting"
  /\ unheard' = {}
  /\ UNCHANGED <<table, sched, channel, admin, changes>>

Started ==
  /\ listening = "starting"
  /\ Apply /\ loading' = <<>> /\ listening' = "started"
  /\ UNCHANGED <<table, channel, admin, unheard, changes, starts>>

\* ... and only then subscribes; so does _listen_events after an error.
Subscribe ==
  /\ listening = "started" /\ listening' = "subscribed"
  /\ UNCHANGED <<table, sched, channel, loading, admin, unheard, changes, starts>>

\* The connection breaks: events not yet handled are lost with it.
Disconnect ==
  /\ listening = "subscribed" /\ loading = <<>>
  /\ listening' = "started" /\ channel' = <<>>
  /\ unheard' = IF \E i \in DOMAIN channel : channel[i] = "changed"
                THEN unheard \cup {"lost"} ELSE unheard
  /\ UNCHANGED <<table, sched, loading, admin, changes, starts>>

\* The listener takes job_changed and reads the table.
Hear ==
  /\ listening = "subscribed" /\ loading = <<>> /\ channel # <<>>
  /\ Head(channel) = "changed"
  /\ channel' = Tail(channel) /\ ReadJobs
  /\ unheard' = {}
  /\ UNCHANGED <<table, sched, listening, admin, changes, starts>>

Reload ==
  /\ listening = "subscribed" /\ loading # <<>>
  /\ Apply /\ loading' = <<>>
  /\ UNCHANGED <<table, channel, listening, admin, unheard, changes, starts>>

\* The reload fails: the error is logged and the event is gone.
ReloadFails ==
  /\ listening = "subscribed" /\ loading # <<>>
  /\ loading' = <<>> /\ unheard' = unheard \cup {"lost"}
  /\ UNCHANGED <<table, sched, channel, listening, admin, changes, starts>>

\* manual_trigger: a run of its own, whatever the schedule says.
HearRun ==
  /\ listening = "subscribed" /\ loading = <<>> /\ channel # <<>>
  /\ Head(channel) = "run" /\ channel' = Tail(channel)
  /\ UNCHANGED <<table, sched, listening, loading, admin, unheard, changes, starts>>

\* The process stops or dies; its schedule was in memory.
Stop ==
  /\ listening # "down" /\ listening' = "down"
  /\ sched' = Nothing /\ channel' = <<>> /\ loading' = <<>>
  /\ UNCHANGED <<table, admin, unheard, changes, starts>>

Administration(a) ==
  \/ \E j \in Job, g \in Trigger, on, run \in BOOLEAN : Add(a, j, g, on, run)
  \/ \E j \in Job, g \in Trigger : Update(a, j, g)
  \/ \E j \in Job, on, run \in BOOLEAN : UpdateStatus(a, j, on, run)
  \/ \E j \in Job : Delete(a, j) \/ RunNow(a, j)
  \/ Publish(a) \/ PublishFails(a)

Next ==
  \/ \E a \in Admin : Administration(a)
  \/ \E j \in Job, g \in Trigger : AiUpdateCron(j, g)
  \/ Start \/ Started \/ Subscribe \/ Disconnect
  \/ Hear \/ Reload \/ ReloadFails \/ HearRun \/ Stop

Spec == Init /\ [][Next]_vars

(***************************************************************************)
(* Properties                                                              *)
(***************************************************************************)

\* Nothing is on its way: no event to publish, deliver or handle.
Quiet ==
  /\ listening \in {"started", "subscribed"} /\ loading = <<>>
  /\ channel = <<>> /\ \A a \in Admin : admin[a] = <<>>

\* Unless an event was lost since the last reload, a scheduler with nothing
\* left to hear runs exactly the enabled jobs, with the triggers of the table,
\* whatever changes committed between its query and its registrations, or
\* between its first query and its subscription.
ScheduleCatchesUp == Quiet /\ unheard = {} => sched = Enabled(table)

\* What notify_job_changed (src/app/core/scheduler.py:307) is for: every
\* committed change of a job is announced, so that only lost events leave a
\* difference.
\* The code does not meet it (README, "Where documents and code part").
EveryChangeIsHeard == Quiet /\ "lost" \notin unheard => sched = Enabled(table)
=============================================================================
