------------------------------- MODULE ChatRun -------------------------------
(***************************************************************************)
(* The Redis side of one conversation: the guard that admits one chat run  *)
(* at a time, its hand-off to a pending confirmation, and the channel on   *)
(* which POST /ai/confirm wakes the run that waits for the decision, with  *)
(* in-process events (memory mode) or publish/subscribe.                   *)
(*                                                                         *)
(* PostgreSQL holds the actions; what PreparedAction says in detail about  *)
(* deciding and executing them is here pending -> running -> done.  A step *)
(* is one Redis command (or script), one transaction, or one turn of an    *)
(* event loop.                                                             *)
(***************************************************************************)
EXTENDS Naturals, FiniteSets

CONSTANTS
    Run,        \* POST /ai/chat streams; each draws its owner token
    Action,     \* prepared actions the runs may create
    Worker,     \* confirm requests and sweeps
    PubSub,     \* AI_HITL_MODE = "redis_pubsub", otherwise "memory"
    MaxTools,   \* bound on the confirmations one run asks for
    None

ASSUME ChatAssumption ==
    /\ PubSub \in BOOLEAN
    /\ MaxTools \in Nat
    /\ None \notin Run \cup Action

VARIABLES
    guard,    \* value of ai:chat:run
    lease,    \* its TTL: "run" 60 s, "pending" confirmation window plus grace
    act,      \* actions in PostgreSQL: status, decision, creating run
    late,     \* actions whose expires_at has passed
    env,      \* pending envelopes in Redis
    wake,     \* decision claimed: wake state, or _PendingEntry.action
    entry,    \* in-process entries (memory mode)
    mail,     \* per subscription: "off", "none" or the message received
    run,      \* the streams
    res,      \* POST /ai/chat/resume on each action
    req,      \* the workers
    early     \* actions whose waiter was woken before it subscribed

vars == <<guard, lease, act, late, env, wake, entry, mail, run, res, req, early>>
redis == <<guard, lease, env, wake>>
channel == <<entry, mail>>

Decision == {"approved", "rejected"}
Sub      == {"run", "resume"}
NoAct    == [status |-> "none", dec |-> "none", run |-> None]
NoMail   == [s \in Sub |-> "off"]
IdleRun  == [pc |-> "idle", act |-> None, handoff |-> FALSE, tools |-> 0]
IdleReq  == [pc |-> "idle", act |-> None, dec |-> "none"]

\* The stream exists and its heartbeat task runs.
Live == {"stream", "handoff", "create", "hang", "check", "wait"}

Open(a) == act[a].status = "running" \/ (act[a].status = "pending" /\ a \notin late)

\* has_in_progress_for_conversation ignores expired proposals.
InProgress == \E a \in Action : Open(a)

Init ==
    /\ guard = None /\ lease = "none"
    /\ act = [a \in Action |-> NoAct]
    /\ late = {} /\ env = {}
    /\ wake = [a \in Action |-> "none"]
    /\ entry = {}
    /\ mail = [a \in Action |-> NoMail]
    /\ run = [r \in Run |-> IdleRun]
    /\ res = [a \in Action |-> "off"]
    /\ req = [c \in Worker |-> IdleReq]
    /\ early = {}

-----------------------------------------------------------------------------
(* ChatRunGuard and HitlManager *)

\* Faulty variant: SET NX without EX.
LeaseForEver(r) == guard = None /\ guard' = r /\ lease' = "forever"

\* acquire: SET NX EX.
TakeGuard(r) == guard = None /\ guard' = r /\ lease' = "run"

\* release: delete if the value is the owner's token.
Release(r) ==
    /\ guard' = IF guard = r THEN None ELSE guard
    /\ lease' = IF guard = r THEN "none" ELSE lease

\* delete_pending: envelope and wake state.
DeletePending(a) ==
    /\ env' = env \ {a}
    /\ wake' = IF PubSub THEN [wake EXCEPT ![a] = "none"] ELSE wake

\* The run's waiter goes away: entry popped, or unsubscribed.
Unhang(a) ==
    /\ entry' = entry \ {a}
    /\ mail' = [mail EXCEPT ![a]["run"] = "off"]

\* The decision is claimed: first writer wins.
ClaimWake(a) == wake[a] = "none" /\ IF PubSub THEN a \in env ELSE a \in entry

\* What wake() returns.  The script returns 2 for a decision already claimed and
\* -1 for a publication nobody was subscribed to.
Reached(a) ==
    IF PubSub
      THEN a \in env /\ (wake[a] # "none" \/ \E s \in Sub : mail[a][s] # "off")
      ELSE ClaimWake(a)

Publish(a, d) ==
    mail' = [mail EXCEPT ![a] =
               [s \in Sub |-> IF PubSub /\ ClaimWake(a) /\ @[s] = "none" THEN d ELSE @[s]]]

-----------------------------------------------------------------------------
(* POST /ai/chat *)

To(r, pc) == run' = [run EXCEPT ![r].pc = pc]

\* First check; an open action is refused with 409.
Admit(r) ==
    /\ run[r].pc = "idle" /\ ~InProgress
    /\ To(r, "admitted")
    /\ UNCHANGED <<redis, act, late, channel, res, req, early>>

Acquire(r) ==
    /\ run[r].pc = "admitted"
    /\ \/ TakeGuard(r) /\ To(r, "owner")
       \/ guard # None /\ To(r, "done") /\ UNCHANGED <<guard, lease>>
    /\ UNCHANGED <<act, late, env, wake, channel, res, req, early>>

\* Second check, under the guard.
Recheck(r) ==
    /\ run[r].pc = "owner" /\ InProgress
    /\ Release(r) /\ To(r, "done")
    /\ UNCHANGED <<act, late, env, wake, channel, res, req, early>>

\* The source message is committed and the stream starts, or this fails.
Begin(r) ==
    /\ run[r].pc = "owner" /\ ~InProgress
    /\ \/ To(r, "stream") /\ UNCHANGED <<guard, lease>>
       \/ Release(r) /\ To(r, "done")
    /\ UNCHANGED <<act, late, env, wake, channel, res, req, early>>

\* heartbeat_guard renews by owner ...
Heartbeat(r) ==
    /\ run[r].pc \in Live /\ guard = r
    /\ lease' = IF run[r].handoff THEN "pending" ELSE "run"
    /\ UNCHANGED <<guard, env, wake, act, late, channel, run, res, req, early>>

\* ... and cancels the stream when the guard is gone (or Redis failed).
GuardLost(r) ==
    /\ run[r].pc \in {"stream", "handoff", "hang", "check", "wait"}
    /\ To(r, "ending")
    /\ IF run[r].pc \in {"stream", "handoff"} THEN UNCHANGED channel ELSE Unhang(run[r].act)
    /\ UNCHANGED <<redis, act, late, res, req, early>>

\* _hang_for_confirmation: create_pending ...
CreatePending(r, a) ==
    /\ run[r].pc = "stream" /\ run[r].tools < MaxTools
    /\ act[a] = NoAct /\ a \notin env
    /\ \A q \in Run : run[q].act # a
    /\ env' = env \cup {a}
    /\ wake' = [wake EXCEPT ![a] = "none"]
    /\ entry' = IF PubSub THEN entry ELSE entry \cup {a}
    /\ run' = [run EXCEPT ![r].pc = "handoff", ![r].act = a, ![r].tools = @ + 1]
    /\ UNCHANGED <<guard, lease, act, late, mail, res, req, early>>

\* Faulty variant: a lost guard is not noticed.
HandsOffAlways(r) == TRUE

\* handoff_pending renews by owner, for the confirmation window plus grace.
HandsOff(r) == guard = r

Handoff(r) ==
    LET a == run[r].act IN
    /\ run[r].pc = "handoff"
    /\ \/ /\ HandsOff(r)
          /\ lease' = IF guard = r THEN "pending" ELSE lease
          /\ run' = [run EXCEPT ![r].pc = "create", ![r].handoff = TRUE]
          /\ UNCHANGED <<env, wake>>
       \/ /\ ~HandsOff(r)
          /\ DeletePending(a)
          /\ To(r, "stream")
          /\ UNCHANGED lease
    /\ UNCHANGED <<guard, act, late, channel, res, req, early>>

\* The action is committed and its confirmation emitted.
CreateAction(r) ==
    /\ run[r].pc = "create"
    /\ act' = [act EXCEPT ![run[r].act] = [status |-> "pending", dec |-> "none", run |-> r]]
    /\ To(r, "hang")
    /\ UNCHANGED <<redis, late, channel, res, req, early>>

\* _rollback_failed_confirmation_setup: the lease returns to its normal TTL and
\* the run goes on, or ends if it was cancelled.  The commit may have happened.
CreateFails(r) ==
    LET a == run[r].act IN
    /\ run[r].pc = "create"
    /\ DeletePending(a)
    /\ act' \in {act, [act EXCEPT ![a] = [status |-> "pending", dec |-> "none", run |-> r]]}
    /\ lease' = IF guard = r THEN "run" ELSE lease
    /\ \E pc \in {"stream", "ending"} :
         run' = [run EXCEPT ![r].pc = pc, ![r].handoff = FALSE]
    /\ UNCHANGED <<guard, late, channel, res, req, early>>

\* hang: wait for the event, or subscribe and then look at the wake state.
Hang(r) ==
    LET a == run[r].act IN
    /\ run[r].pc = "hang"
    /\ IF PubSub THEN mail' = [mail EXCEPT ![a]["run"] = "none"] /\ To(r, "check")
                 ELSE UNCHANGED mail /\ To(r, "wait")
    /\ UNCHANGED <<redis, act, late, entry, res, req, early>>

\* Faulty variant: the wake state is not looked at after subscribing.
ClaimedIgnored(a) == FALSE

\* get_pending: the envelope, with the wake state merged in.
Claimed(a) == a \in env /\ wake[a] # "none"

CheckMissed(r) ==
    /\ run[r].pc = "check" /\ ~Claimed(run[r].act)
    /\ To(r, "wait")
    /\ UNCHANGED <<redis, act, late, channel, res, req, early>>

\* What a waiting run can see of the decision.
Told(r) ==
    LET a == run[r].act IN
    CASE run[r].pc = "check" -> Claimed(a)
      [] run[r].pc = "wait" /\ PubSub -> mail[a]["run"] \in Decision
      [] run[r].pc = "wait" /\ ~PubSub -> a \in entry /\ wake[a] # "none"
      [] OTHER -> FALSE

\* hang returns; the run deletes the envelope and owns its guard again.
Woken(r) ==
    LET a == run[r].act IN
    /\ Told(r)
    /\ Unhang(a) /\ DeletePending(a)
    /\ run' = [run EXCEPT ![r].pc = "stream", ![r].handoff = FALSE]
    /\ UNCHANGED <<guard, lease, act, late, res, req, early>>

\* TimeoutError: a settled action is read back, an open one expired by CAS, an
\* unknown outcome ends the stream with the guard handed off.
HangTimeout(r) ==
    LET a == run[r].act IN
    /\ run[r].pc = "wait" /\ a \in late
    /\ Unhang(a)
    /\ \/ /\ act[a].status = "done"
          /\ run' = [run EXCEPT ![r].pc = "stream", ![r].handoff = FALSE]
          /\ UNCHANGED <<env, wake, act>>
       \/ /\ act[a].status = "pending"
          /\ act' = [act EXCEPT ![a].status = "done", ![a].dec = "rejected"]
          /\ run' = [run EXCEPT ![r].pc = "stream", ![r].handoff = FALSE]
          /\ DeletePending(a)
       \/ /\ act[a].status = "running"
          /\ To(r, "ending")
          /\ UNCHANGED <<env, wake, act>>
    /\ UNCHANGED <<guard, lease, late, res, req, early>>

\* The stream ends: the turn is finalised and the guard released, unless it was
\* handed off to a confirmation.
Finish(r) ==
    /\ run[r].pc \in {"stream", "ending"}
    /\ IF run[r].handoff THEN UNCHANGED <<guard, lease>> ELSE Release(r)
    /\ To(r, "done")
    /\ UNCHANGED <<act, late, env, wake, channel, res, req, early>>

\* The client disconnects while the run waits: the guard stays handed off.
Disconnect(r) ==
    /\ run[r].pc \in {"hang", "check", "wait"}
    /\ Unhang(run[r].act)
    /\ To(r, "done")
    /\ UNCHANGED <<redis, act, late, res, req, early>>

\* A process dies and nothing is cleaned up: one of several, or (memory mode)
\* the only one, with every stream and request in it.
Die(r) ==
    LET gone == IF PubSub THEN {r} ELSE Run
        subs == {run[q].act : q \in gone}
    IN
    /\ run[r].pc \notin {"idle", "done"}
    /\ run' = [q \in Run |-> IF q \in gone /\ run[q].pc # "idle"
                             THEN [run[q] EXCEPT !.pc = "done"] ELSE run[q]]
    /\ mail' = [a \in Action |-> IF a \in subs THEN [mail[a] EXCEPT !["run"] = "off"] ELSE mail[a]]
    /\ IF PubSub
         THEN UNCHANGED <<entry, req, res>>
         ELSE /\ entry' = {}
              /\ req' = [c \in Worker |-> IdleReq]
              /\ res' = [a \in Action |-> "off"]
    /\ UNCHANGED <<redis, act, late, early>>

-----------------------------------------------------------------------------
(* POST /ai/confirm and the sweeper *)

Work(c, pc, a, d) == req' = [req EXCEPT ![c] = [pc |-> pc, act |-> a, dec |-> d]]

\* Faulty variant: the waiter is woken by the claim, before the execution.
DecideWakes(c, a, d) ==
    /\ req[c].pc = "idle" /\ act[a].status = "pending"
    /\ act' = [act EXCEPT ![a].status = IF d = "approved" THEN "running" ELSE "done", ![a].dec = d]
    /\ Work(c, "notify", a, d)
    /\ UNCHANGED <<redis, late, channel, run, res, early>>

\* A proposal is closed, by the user or because it expired, or claimed.
Decide(c, a, d) ==
    /\ req[c].pc = "idle" /\ act[a].status = "pending"
    /\ IF d = "approved" /\ a \notin late
         THEN /\ act' = [act EXCEPT ![a].status = "running", ![a].dec = d]
              /\ Work(c, "exec", a, d)
         ELSE /\ act' = [act EXCEPT ![a].status = "done", ![a].dec = "rejected"]
              /\ Work(c, "notify", a, "rejected")
    /\ UNCHANGED <<redis, late, channel, run, res, early>>

\* Success or failure is committed (or found committed by the sweeper).
Settle(c) ==
    LET a == req[c].act IN
    /\ req[c].pc = "exec"
    /\ act' = [act EXCEPT ![a].status = "done"]
    /\ req' = [req EXCEPT ![c].pc = "notify"]
    /\ UNCHANGED <<redis, late, channel, run, res, early>>

\* A repeated confirmation of an executed write projects its facts and notifies.
ConfirmAgain(c, a) ==
    /\ req[c].pc = "idle" /\ act[a].status = "done" /\ act[a].dec = "approved"
    /\ Work(c, "notify", a, "approved")
    /\ UNCHANGED <<redis, act, late, channel, run, res, early>>

\* Faulty variant: the in-process entry is popped by the wake-up.
NotifyPops(c) ==
    LET a == req[c].act d == req[c].dec IN
    /\ req[c].pc = "notify"
    /\ wake' = IF ClaimWake(a) THEN [wake EXCEPT ![a] = d] ELSE wake
    /\ entry' = IF run[act[a].run].pc = "wait" THEN entry ELSE entry \ {a}
    /\ early' = IF \E r \in Run : run[r].act = a /\ run[r].pc = "hang" THEN early \cup {a} ELSE early
    /\ req' = [req EXCEPT ![c] = IdleReq]
    /\ UNCHANGED <<guard, lease, env, act, late, mail, run, res>>

\* _notify_prepared_terminal: wake; only if nobody was reached clean up.
Notify(c) ==
    LET a == req[c].act d == req[c].dec IN
    /\ req[c].pc = "notify"
    /\ wake' = IF ClaimWake(a) THEN [wake EXCEPT ![a] = d] ELSE wake
    /\ Publish(a, d)
    /\ early' = IF \E r \in Run : run[r].act = a /\ run[r].pc = "hang" THEN early \cup {a} ELSE early
    /\ req' = [req EXCEPT ![c] = IF Reached(a) THEN IdleReq ELSE [@ EXCEPT !.pc = "release"]]
    /\ UNCHANGED <<guard, lease, env, act, late, entry, run, res>>

CleanGuard(c) ==
    /\ req[c].pc = "release"
    /\ Release(act[req[c].act].run)
    /\ req' = [req EXCEPT ![c].pc = "purge"]
    /\ UNCHANGED <<act, late, env, wake, channel, run, res, early>>

CleanEnvelope(c) ==
    /\ req[c].pc = "purge"
    /\ DeletePending(req[c].act)
    /\ req' = [req EXCEPT ![c] = IdleReq]
    /\ UNCHANGED <<guard, lease, act, late, channel, run, res, early>>

\* A worker dies, or gives up on Redis.
Drop(c) ==
    /\ req[c].pc # "idle"
    /\ req' = [req EXCEPT ![c] = IdleReq]
    /\ UNCHANGED <<redis, act, late, channel, run, res, early>>

\* cleanup_prepared_actions_on_startup and the expiry loop read their candidates:
\* expired proposals and running actions; a process that starts beside others
\* (pub/sub mode) reads valid proposals too.
SweepRead(c, a) ==
    /\ req[c].pc = "idle"
    /\ \/ act[a].status = "pending" /\ a \in late /\ Work(c, "expire", a, "none")
       \/ act[a].status = "running" /\ Work(c, "reconcile", a, "none")
       \/ /\ act[a].status = "pending" /\ a \notin late
          /\ PubSub
          /\ Work(c, "rebuild", a, "none")
    /\ UNCHANGED <<redis, act, late, channel, run, res, early>>

\* The candidate is locked and looked at again.  The facts of a write that was
\* settled meanwhile are projected and cleaned up like its own; a read is skipped.
SweepSettle(c) ==
    LET a == req[c].act
        orphan == \A w \in Worker : req[w].pc = "exec" => req[w].act # a
    IN
    /\ \/ req[c].pc = "expire" /\ act[a].status = "pending"
       \/ req[c].pc = "reconcile" /\ (act[a].status = "done" \/ orphan)
    /\ act' = [act EXCEPT ![a].status = "done", ![a].dec = IF @ = "none" THEN "rejected" ELSE @]
    /\ Work(c, "release", a, "none")
    /\ UNCHANGED <<redis, late, channel, run, res, early>>

\* The guard of a proposal that was valid when read is rebuilt.
Rebuild(c) ==
    LET r == act[req[c].act].run IN
    /\ req[c].pc = "rebuild"
    /\ guard' = IF guard = None THEN r ELSE guard
    /\ lease' = IF guard = None THEN "pending" ELSE lease
    /\ req' = [req EXCEPT ![c] = IdleReq]
    /\ UNCHANGED <<act, late, env, wake, channel, run, res, early>>

\* In memory mode there is one process, and it serves nobody while it starts.
Restart(a) ==
    /\ ~PubSub /\ act[a].status = "pending" /\ a \notin late
    /\ \A r \in Run : run[r].pc \in {"idle", "done"}
    /\ \A c \in Worker : req[c] = IdleReq
    /\ \A b \in Action : res[b] = "off"
    /\ guard = None /\ guard' = act[a].run /\ lease' = "pending"
    /\ entry' = {}
    /\ UNCHANGED <<act, late, env, wake, mail, run, res, req, early>>

-----------------------------------------------------------------------------
(* POST /ai/chat/resume *)

\* A pending action with its envelope; pub/sub mode subscribes, memory mode
\* polls the database.
Resume(a) ==
    /\ res[a] = "off" /\ act[a].status = "pending" /\ a \in env \ late
    /\ ~PubSub \/ wake[a] = "none"
    /\ res' = [res EXCEPT ![a] = "wait"]
    /\ mail' = IF PubSub THEN [mail EXCEPT ![a]["resume"] = "none"] ELSE mail
    /\ UNCHANGED <<redis, act, late, entry, run, req, early>>

\* The action is settled: the stream replays it; a new one may do so at once.
ResumeSettled(a) ==
    /\ act[a].status = "done"
    /\ \/ res[a] = "off"
       \/ res[a] = "wait" /\ (PubSub => mail[a]["resume"] \in Decision \/ Claimed(a))
    /\ res' = [res EXCEPT ![a] = "clean"]
    /\ mail' = [mail EXCEPT ![a]["resume"] = "off"]
    /\ UNCHANGED <<redis, act, late, entry, run, req, early>>

\* _cleanup_durable_resume.
ResumeClean(a) ==
    /\ res[a] = "clean"
    /\ Release(act[a].run) /\ DeletePending(a)
    /\ res' = [res EXCEPT ![a] = "off"]
    /\ UNCHANGED <<act, late, channel, run, req, early>>

\* _terminalize_durable_resume_failure: the resumed wait times out or fails; a
\* proposal that is still pending is closed.
ResumeTimeout(a) ==
    /\ res[a] = "wait" /\ act[a].status # "running"
    /\ act' = [act EXCEPT ![a].status = "done", ![a].dec = IF @ = "none" THEN "rejected" ELSE @]
    /\ res' = [res EXCEPT ![a] = "clean"]
    /\ mail' = [mail EXCEPT ![a]["resume"] = "off"]
    /\ UNCHANGED <<redis, late, entry, run, req, early>>

\* The resumed stream disconnects.
ResumeEnds(a) ==
    /\ res[a] # "off"
    /\ res' = [res EXCEPT ![a] = "off"]
    /\ mail' = [mail EXCEPT ![a]["resume"] = "off"]
    /\ UNCHANGED <<redis, act, late, entry, run, req, early>>

-----------------------------------------------------------------------------
(* Time *)

\* The confirmation window closes; the envelope's TTL is the same window.
WindowCloses(a) ==
    /\ act[a].status # "none" /\ a \notin late
    /\ late' = late \cup {a}
    /\ UNCHANGED <<redis, act, channel, run, res, req, early>>

EnvelopeExpires(a) ==
    /\ a \in env \cap late
    /\ DeletePending(a)
    /\ UNCHANGED <<guard, lease, act, late, channel, run, res, req, early>>

\* Faulty variant: a handed-off guard has no TTL.
LeaseOfRunsOnly ==
    /\ lease = "run"
    /\ guard' = None /\ lease' = "none"
    /\ UNCHANGED <<act, late, env, wake, channel, run, res, req, early>>

\* A short lease may run out at any moment (stalled loop, dead process), a
\* pending one not before the window of its confirmation has closed; setting the
\* confirmation up takes less than that.
LeaseExpires ==
    /\ \/ lease = "run"
       \/ /\ lease = "pending" /\ run[guard].pc # "create"
          /\ \A a \in Action : act[a].run = guard => a \in late \/ act[a].status = "done"
    /\ guard' = None /\ lease' = "none"
    /\ UNCHANGED <<act, late, env, wake, channel, run, res, req, early>>

-----------------------------------------------------------------------------

RunStep(r) ==
    \/ Admit(r) \/ Acquire(r) \/ Recheck(r) \/ Begin(r)
    \/ Heartbeat(r) \/ GuardLost(r)
    \/ \E a \in Action : CreatePending(r, a)
    \/ Handoff(r) \/ CreateAction(r) \/ CreateFails(r)
    \/ Hang(r) \/ CheckMissed(r) \/ Woken(r) \/ HangTimeout(r)
    \/ Finish(r) \/ Disconnect(r) \/ Die(r)

WorkerStep(c) ==
    \/ \E a \in Action : (\E d \in Decision : Decide(c, a, d)) \/ ConfirmAgain(c, a) \/ SweepRead(c, a)
    \/ Settle(c) \/ SweepSettle(c) \/ Rebuild(c) \/ Notify(c) \/ CleanGuard(c) \/ CleanEnvelope(c) \/ Drop(c)

ActionStep(a) ==
    \/ Restart(a)
    \/ Resume(a) \/ ResumeSettled(a) \/ ResumeTimeout(a) \/ ResumeClean(a) \/ ResumeEnds(a)
    \/ WindowCloses(a) \/ EnvelopeExpires(a)

Next ==
    \/ \E r \in Run : RunStep(r)
    \/ \E c \in Worker : WorkerStep(c)
    \/ \E a \in Action : ActionStep(a)
    \/ LeaseExpires

Spec == Init /\ [][Next]_vars

\* Streams go on or end (the model run is bounded by usage limits and timeouts)
\* and time passes: the window closes, and a lease nobody renews runs out.
\* Nothing is assumed of the requests and the sweeper: all of them may be dead.
FairSpec ==
    /\ Spec
    /\ \A r \in Run :
         WF_vars(\/ Acquire(r) \/ Recheck(r) \/ Begin(r)
                 \/ Handoff(r) \/ CreateAction(r) \/ CreateFails(r) \/ Hang(r)
                 \/ CheckMissed(r) \/ Woken(r) \/ HangTimeout(r) \/ Finish(r))
    /\ \A a \in Action : WF_vars(WindowCloses(a))
    /\ WF_vars(guard # None /\ run[guard].pc = "done" /\ LeaseExpires)

-----------------------------------------------------------------------------
(* Properties *)

\* Every variable stays in its domain.
TypeOK ==
    /\ guard \in Run \cup {None}
    /\ lease \in {"none", "run", "pending"}
    /\ act \in [Action -> [status : {"none", "pending", "running", "done"},
                          dec : Decision \cup {"none"}, run : Run \cup {None}]]
    /\ late \subseteq Action /\ env \subseteq Action
    /\ entry \subseteq Action /\ early \subseteq Action
    /\ wake \in [Action -> Decision \cup {"none"}]
    /\ mail \in [Action -> [Sub -> Decision \cup {"off", "none"}]]
    /\ run \in [Run -> [pc : Live \cup {"idle", "admitted", "owner", "ending", "done"},
                       act : Action \cup {None}, handoff : BOOLEAN, tools : 0..MaxTools]]
    /\ res \in [Action -> {"off", "wait", "clean"}]
    /\ req \in [Worker -> [pc : {"idle", "exec", "notify", "release", "purge",
                                "expire", "reconcile", "rebuild"},
                          act : Action \cup {None}, dec : Decision \cup {"none"}]]

\* What the run is told of the decision is what PostgreSQL holds: a waiter reads
\* "approved" only once the execution is committed, "rejected" only once the
\* proposal is closed unexecuted.
WakeIsTruth ==
    \A a \in Action, d \in Decision :
       (wake[a] = d \/ \E s \in Sub : mail[a][s] = d)
          => act[a].status = "done" /\ act[a].dec = d

\* SUBSCRIBE, then read the wake state: a decision claimed in Redis (or in the
\* entry) at any moment around them reaches the run that waits.
ClaimedIsSeen ==
    \A r \in Run :
       LET a == run[r].act IN
       run[r].pc = "wait" /\ wake[a] # "none" /\ (IF PubSub THEN a \in env ELSE a \in entry)
          => Told(r)

\* A decision that arrives between create_pending and hang is seen by the run
\* once it waits (_wake_memory, and the module comment for pub/sub mode).
WakeNotLost ==
    \A r \in Run : run[r].pc = "wait" /\ run[r].act \in early => Told(r)

\* The guard and the two checks of POST /ai/chat: two runs never have actions
\* open at the same time, whatever leases run out and processes die.  It needs
\* MaxTools = 1: see NotifySparesStream for what a second confirmation meets.
OneRunActs ==
    \A a, b \in Action : Open(a) /\ Open(b) => act[a].run = act[b].run

\* _notify_prepared_terminal: "only clean guard/cache when no stream owns them".
NotifySparesStream ==
    [][\A c \in Worker :
          CleanGuard(c) /\ req[c].dec # "none"
             => LET r == act[req[c].act].run IN guard # r \/ run[r].pc \notin Live]_vars

\* The conversation becomes free again, whichever stream, request or process
\* dies with its guard: by the stream's release or by the lease.
ConversationFreed == []<>(guard = None)

=============================================================================
