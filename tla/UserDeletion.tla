---------------------------- MODULE UserDeletion ----------------------------
(***************************************************************************)
(* Hard deletion of users.  ai_conversation has a foreign key ON DELETE    *)
(* CASCADE to sys_user and ai_message one to ai_conversation, so deleting  *)
(* a user destroys the context an unsettled AI operation is verified       *)
(* against.  user_delete_dependency_service therefore reads a plan of all  *)
(* dependent rows, locks them in one order, reads the plan again, locks    *)
(* the users, reads it a third time and only then deletes.                 *)
(*                                                                         *)
(* A transaction is <<"http", n>> (an administrator's request) or          *)
(* <<"op", c>> (the execution of the operation confirmed in conversation   *)
(* c).  Each conversation carries one operation, which edits or deletes    *)
(* users; source message, action and audit row are locked under the lock   *)
(* of their conversation and are not separate locks here.                  *)
(***************************************************************************)
EXTENDS Integers, FiniteSets, FiniteSetsExt

CONSTANTS User,      \* user ids, numbers: rows are locked in ascending order
          Conv,      \* conversation ids, numbers
          Owner,     \* [Conv -> User]
          Early,     \* the conversations that exist at the start
          Request    \* numbers of the deletion requests over HTTP

VARIABLES alive,     \* the rows of sys_user
          conv,      \* conversation rows: "none" yet, "live" or "gone"
          op,        \* the operation of each conversation
          txn,       \* the deleting and executing transactions
          convLock, userLock

vars == <<alive, conv, op, txn, convLock, userLock>>

Txn == ({"http"} \X Request) \cup ({"op"} \X Conv)

\* Outcomes with a complete proof, which _assert_resolved accepts: a verified
\* preflight, a committed or rolled-back write, a proposal never started.
Settled == {"none", "preflight", "succeeded", "failed", "cancelled"}

NoPlan == [convs |-> {}, logs |-> {}, acts |-> {}]
Idle   == [at |-> "idle", goal |-> {}, plan |-> NoPlan, retried |-> FALSE]
NoOp   == [st |-> "none", kind |-> "none", goal |-> {}]

Init ==
  /\ alive = User
  /\ conv = [c \in Conv |-> IF c \in Early THEN "live" ELSE "none"]
  /\ op = [c \in Conv |-> NoOp]
  /\ txn = [t \in Txn |-> Idle]
  /\ convLock = [c \in Conv |-> {}]
  /\ userLock = [u \in User |-> {}]

rows  == <<alive, conv, op>>
locks == <<convLock, userLock>>

IsOp(t)      == t[1] = "op"
At(t, at)    == txn[t].at = at
Goto(t, at)  == txn' = [txn EXCEPT ![t].at = at]
OwnConv(t)   == IF IsOp(t) THEN {t[2]} ELSE {}
Unlocked     == [c \in Conv |-> convLock[c] = {}]

\* What a transaction holds is released when it ends.
Release(t) ==
  /\ convLock' = [c \in Conv |-> convLock[c] \ {t}]
  /\ userLock' = [u \in User |-> userLock[u] \ {t}]

(***************************************************************************)
(* The conversations' own traffic, each one short transaction              *)
(***************************************************************************)

\* The insert of a conversation references its user's row, so it waits for a
\* FOR UPDATE on that row (guard_new_or_existing run start).
NewConversation(c) ==
  /\ conv[c] = "none" /\ Owner[c] \in alive /\ userLock[Owner[c]] = {}
  /\ conv' = [conv EXCEPT ![c] = "live"]
  /\ UNCHANGED <<alive, op, txn, locks>>

Step(c, from, to) ==
  /\ conv[c] = "live" /\ Unlocked[c] /\ op[c].st = from
  /\ op' = [op EXCEPT ![c].st = to]
  /\ UNCHANGED <<alive, conv, txn, locks>>

\* _start_log under lock_source_binding: a write's audit row, with a proven
\* preflight failure or still open.
StartLog(c) == Step(c, "none", "log") \/ Step(c, "none", "preflight")

\* create_pending: the dry run has resolved the targets and froze their ids;
\* the actor is never one of them.
Propose(c) ==
  /\ conv[c] = "live" /\ Unlocked[c] /\ op[c].st = "log"
  /\ \E k \in {"edit", "delete"}, g \in SUBSET (alive \ {Owner[c]}) :
       /\ g # {} /\ (k = "edit" => Cardinality(g) = 1)
       /\ op' = [op EXCEPT ![c] = [st |-> "pending", kind |-> k, goal |-> g]]
  /\ UNCHANGED <<alive, conv, txn, locks>>

Cancel(c)  == Step(c, "pending", "cancelled")
Approve(c) == Step(c, "pending", "running")

(***************************************************************************)
(* The plan                                                                *)
(***************************************************************************)

\* plan: the conversations of the targets and the executing one, and the ids
\* of the actions and audit rows in them.  Their statuses are no part of it.
PlanNow(t) ==
  LET cs == {c \in Conv : conv[c] = "live" /\ Owner[c] \in txn[t].goal}
                 \cup OwnConv(t)
  IN  [convs |-> cs,
       logs  |-> {c \in cs : op[c].st # "none"},
       acts  |-> {c \in cs : op[c].st \notin {"none", "log", "preflight"}}]

\* _assert_resolved: every operation of the targets is settled.
Resolved(t) == \A c \in txn[t].plan.convs \ OwnConv(t) : op[c].st \in Settled

Recheck(t) == txn[t].plan = PlanNow(t)

\* The rows still to lock, in ascending order.
ToLock(t) == {c \in txn[t].plan.convs : t \notin convLock[c]}

\* mutant: the execution locks its own conversation before the plan's
OwnFirst(t) == IF OwnConv(t) \cap ToLock(t) # {} THEN CHOOSE c \in OwnConv(t) : TRUE
               ELSE Min(ToLock(t))

NextContext(t) == Min(ToLock(t))

ToLockUsers(t) == {u \in txn[t].goal : t \notin userLock[u]}

(***************************************************************************)
(* The end of a transaction                                                *)
(***************************************************************************)

\* A failed execution is recorded in a transaction of its own that locks the
\* same context again; the deletion itself left nothing.
Fail(t) ==
  /\ txn' = [txn EXCEPT ![t] = IF IsOp(t) THEN [@ EXCEPT !.at = "settle"]
                               ELSE [Idle EXCEPT !.at = "done"]]
  /\ Release(t) /\ UNCHANGED rows

SettleFailed(t) ==
  /\ At(t, "settle") /\ Unlocked[t[2]]
  /\ op' = [op EXCEPT ![t[2]].st = "failed"]
  /\ txn' = [txn EXCEPT ![t] = [Idle EXCEPT !.at = "done"]]
  /\ UNCHANGED <<alive, conv, locks>>

\* UserDeleteDependencyChanged: everything is rolled back and planned once
\* more, with the actor's authority read again; a second change is final.
Changed(t) ==
  IF txn[t].retried THEN Fail(t)
  ELSE /\ txn' = [txn EXCEPT ![t] = [@ EXCEPT !.at = "plan", !.plan = NoPlan,
                                                !.retried = TRUE]]
       /\ Release(t) /\ UNCHANGED rows

\* A lock wait ends after the two seconds of lock_timeout.
LockTimeout(t, holders) == holders # {} /\ Fail(t)

(***************************************************************************)
(* Deleting users: plan, lock, recheck, lock users, recheck, delete        *)
(***************************************************************************)

\* delete_user and batch_delete_users over HTTP; execute_claim of a
\* user.batch_delete with the frozen ids.
Start(t) ==
  /\ At(t, "idle")
  /\ IF IsOp(t)
     THEN /\ op[t[2]].st = "running" /\ op[t[2]].kind = "delete"
          /\ txn' = [txn EXCEPT ![t] = [@ EXCEPT !.at = "plan", !.goal = op[t[2]].goal]]
     ELSE \E g \in SUBSET User :
            g # {} /\ txn' = [txn EXCEPT ![t] = [@ EXCEPT !.at = "plan", !.goal = g]]
  /\ UNCHANGED <<rows, locks>>

MakePlan(t) ==
  /\ At(t, "plan")
  /\ \/ /\ txn[t].goal \subseteq alive
        /\ txn' = [txn EXCEPT ![t].at = "contexts", ![t].plan = PlanNow(t)]
        /\ UNCHANGED <<rows, locks>>
     \/ ~(txn[t].goal \subseteq alive) /\ Fail(t)

\* lock_plan takes the rows in order and then rechecks the plan.  A row that
\* is gone by then is not found, and the plan has changed.
LockContext(t) ==
  /\ At(t, "contexts") /\ ToLock(t) # {}
  /\ LET c == NextContext(t) IN
     \/ /\ convLock[c] = {}
        /\ convLock' = [convLock EXCEPT ![c] = {t}]
        /\ UNCHANGED <<rows, txn, userLock>>
     \/ LockTimeout(t, convLock[c])

CheckPlan(t) ==
  /\ At(t, "contexts") /\ ToLock(t) = {}
  /\ \/ ~Recheck(t) /\ Changed(t)
     \/ Recheck(t) /\ ~Resolved(t) /\ Fail(t)
     \/ /\ Recheck(t) /\ Resolved(t)
        /\ Goto(t, IF IsOp(t) THEN "claim" ELSE "users")
        /\ UNCHANGED <<rows, locks>>

\* lock_claim, validate_execution and ensure_current_write_authority; the
\* lease or the authority may have lapsed.
CheckClaim(t) ==
  /\ At(t, "claim")
  /\ \/ /\ conv[t[2]] = "live" /\ op[t[2]].st = "running" /\ Owner[t[2]] \in alive
        /\ Goto(t, "users") /\ UNCHANGED <<rows, locks>>
     \/ Fail(t)

LockUser(t) ==
  /\ At(t, "users") /\ ToLockUsers(t) # {}
  /\ LET u == Min(ToLockUsers(t)) IN
     \/ /\ userLock[u] = {} /\ u \in alive
        /\ userLock' = [userLock EXCEPT ![u] = {t}]
        /\ UNCHANGED <<rows, txn, convLock>>
     \/ userLock[u] = {} /\ u \notin alive /\ Fail(t)
     \/ LockTimeout(t, userLock[u])

\* The rows of the users, their conversations and messages go; an execution
\* commits its outcome in the same transaction.
Cascade(t) ==
  /\ alive' = alive \ txn[t].goal
  /\ conv' = [c \in Conv |-> IF conv[c] = "live" /\ Owner[c] \in txn[t].goal
                             THEN "gone" ELSE conv[c]]
  /\ op' = IF IsOp(t) THEN [op EXCEPT ![t[2]].st = "succeeded"] ELSE op
  /\ txn' = [txn EXCEPT ![t] = [Idle EXCEPT !.at = "done"]]
  /\ Release(t)

\* mutant: the plan is not read again once the users are locked
RecheckOnce(t) == Cascade(t)

\* recheck_after_user_locks, then the delete.
RecheckAndDelete(t) ==
  IF ~Recheck(t) THEN Changed(t) ELSE IF Resolved(t) THEN Cascade(t) ELSE Fail(t)

Delete(t) == At(t, "users") /\ ToLockUsers(t) = {} /\ RecheckAndDelete(t)

(***************************************************************************)
(* Executing an edit: own context first, then the target's row             *)
(***************************************************************************)
LockEdit(t) ==
  /\ IsOp(t) /\ At(t, "idle")
  /\ op[t[2]].st = "running" /\ op[t[2]].kind = "edit"
  /\ convLock[t[2]] = {} /\ conv[t[2]] = "live"
  /\ convLock' = [convLock EXCEPT ![t[2]] = {t}]
  /\ txn' = [txn EXCEPT ![t] = [@ EXCEPT !.at = "edit", !.goal = op[t[2]].goal]]
  /\ UNCHANGED <<rows, userLock>>

\* The handler locks the target and writes; outcome and edit are committed
\* together.
Edit(t) ==
  /\ At(t, "edit")
  /\ LET u == CHOOSE u \in txn[t].goal : TRUE IN
     \/ /\ userLock[u] = {} /\ u \in alive
        /\ op' = [op EXCEPT ![t[2]].st = "succeeded"]
        /\ txn' = [txn EXCEPT ![t] = [Idle EXCEPT !.at = "done"]]
        /\ Release(t) /\ UNCHANGED <<alive, conv>>
     \/ u \notin alive /\ Fail(t)
     \/ LockTimeout(t, userLock[u])

Next ==
  \/ \E c \in Conv : \/ NewConversation(c) \/ StartLog(c) \/ Propose(c)
                     \/ Cancel(c) \/ Approve(c)
  \/ \E t \in Txn : \/ Start(t) \/ MakePlan(t) \/ LockContext(t) \/ CheckPlan(t)
                    \/ CheckClaim(t) \/ LockUser(t) \/ Delete(t)
                    \/ LockEdit(t) \/ Edit(t) \/ SettleFailed(t)

Spec == Init /\ [][Next]_vars

-----------------------------------------------------------------------------
TypeOK ==
  /\ alive \subseteq User
  /\ conv \in [Conv -> {"none", "live", "gone"}]
  /\ \A c \in Conv : op[c].st \in Settled \cup {"log", "pending", "running"}
  /\ \A c \in Conv : convLock[c] \subseteq Txn /\ Cardinality(convLock[c]) <= 1

\* A deletion never cascades over an operation whose outcome is still open: the
\* conversation goes only when its operation is settled, although the operation
\* may be started, proposed and approved between any two steps of the deletion
\* and in a conversation the plan never saw (docs/AI-SECURITY.md:63).
EvidenceSurvives ==
  \A c \in Conv : conv[c] = "live" /\ conv'[c] = "gone" => op[c].st \in Settled

\* The transactions t waits for.
WaitsFor(t) ==
  CASE At(t, "contexts") /\ ToLock(t) # {}   -> convLock[NextContext(t)]
    [] At(t, "users") /\ ToLockUsers(t) # {} -> userLock[Min(ToLockUsers(t))]
    [] At(t, "edit")                         -> UNION {userLock[u] : u \in txn[t].goal}
    [] OTHER                                 -> {}

\* Deletions over HTTP and by the assistant, with targets that are each other's
\* actors and owners, and edits of those users never wait for each other in a
\* circle: two seconds of lock_timeout end slow waits, not deadlocks.
NoWaitCycle ==
  \A S \in SUBSET Txn : S # {} => \E t \in S : WaitsFor(t) \cap S = {}
=============================================================================
