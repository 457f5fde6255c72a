--------------------------- MODULE PreparedAction ---------------------------
(***************************************************************************)
(* The durable confirmation protocol of the AI gateway: one conversation,  *)
(* its prepared actions, the HTTP requests that confirm them, the claim,   *)
(* the atomic execution transaction, the reconciliation of lost COMMIT     *)
(* acknowledgements and the background sweeper.                            *)
(*                                                                         *)
(* PostgreSQL is the authority.  Every writer of a protected action first  *)
(* takes the conversation row FOR UPDATE, so a conversation has at most    *)
(* one open transaction: txn.  Its writes are invisible until COMMIT.  A   *)
(* client may lose the acknowledgement of its COMMIT (or die); txn then    *)
(* stays open, detached, until the server commits or aborts it.            *)
(***************************************************************************)
EXTENDS Naturals, FiniteSets

CONSTANTS
    Action,      \* prepared actions of the conversation
    DbAction,    \* those whose tool is in DB_TOOLS
    FileAction,  \* those whose tool is in FILE_TOOLS; the rest are read-only
    Request,     \* concurrent POST /ai/confirm requests
    Sweeper,     \* the startup cleanup / 30 s expiry loop
    NoProc, NoAct, NoTxn

Write == DbAction \cup FileAction
Proc  == Request \cup {Sweeper}

VARIABLES
    pa,          \* ai_prepared_action rows
    log,         \* ai_operation_log rows bound to them
    effect,      \* committed executions of the business handler
    artifact,    \* files written by a FILE tool, outside the transaction
    card,        \* tool card of the assistant message
    timeUp,      \* expires_at <= now
    convDeleted, \* ai_conversation.deleted_at is set
    txn,         \* the open transaction holding the conversation lock
    req,         \* control state of each process
    resp,        \* last answer of each confirm request
    todo         \* candidates of the running sweep

vars == <<pa, log, effect, artifact, card, timeUp, convDeleted, txn, req, resp, todo>>

-----------------------------------------------------------------------------
(* Rows *)

Cancelled == {"rejected", "expired"}
Finished  == {"succeeded", "failed"}
Terminal  == Cancelled \cup Finished
Status    == {"absent", "pending", "running"} \cup Terminal
LogStatus == {"absent", "pending", "running", "success", "failed"} \cup Cancelled

ResumeErr == {"AI_HITL_TIMEOUT", "RESUME_INTERNAL_ERROR"}
Err == {"none", "USER_REJECTED", "AI_HITL_EXPIRED", "REVALIDATION_FAILED",
        "AI_CONVERSATION_DELETED", "TOOL_ERROR", "AI_INTERNAL_ERROR",
        "EXECUTION_INTERRUPTED", "SETUP_FAILED"} \cup ResumeErr

PaRow  == [status : Status, ver : 0..4, owner : Request \cup {NoProc},
           lease : {"none", "live", "over"}, err : Err, approved : BOOLEAN]
LogRow == [status : LogStatus, started : BOOLEAN, note : BOOLEAN, err : Err,
           approved : BOOLEAN]
Card   == {"none", "ok", "failed"}
TxnRow == [by : Proc, act : Action, pa : PaRow, log : LogRow, eff : {0, 1},
           card : Card, sealed : BOOLEAN, attached : BOOLEAN]

ASSUME ProtocolAssumption ==
    /\ Write \subseteq Action
    /\ DbAction \cap FileAction = {}
    /\ Sweeper \notin Request
    /\ NoProc \notin Proc
    /\ NoAct \notin Action
    /\ NoTxn \notin TxnRow

NoPa  == [status |-> "absent", ver |-> 0, owner |-> NoProc, lease |-> "none",
          err |-> "none", approved |-> FALSE]
NoLog == [status |-> "absent", started |-> FALSE, note |-> FALSE, err |-> "none",
          approved |-> FALSE]

\* create_pending: the immutable proposal, row_version 1.
PendingRow == [NoPa EXCEPT !.status = "pending", !.ver = 1]

\* pending -> approved -> running, two CAS updates of one transaction.
ClaimedRow(r, p) == [r EXCEPT !.status = "running", !.ver = @ + 2, !.owner = p,
                              !.lease = "live", !.approved = TRUE]

\* Faulty variant: the version is bumped by the caller and by the statement.
ClosedRowCountedTwice(r, st, e) ==
    [r EXCEPT !.status = st, !.ver = @ + 2, !.owner = NoProc, !.lease = "none",
              !.err = e, !.approved = @ \/ st = "rejected"]

\* transition_status to a terminal status: owner and lease are cleared ...
ClosedRow(r, st, e) == [r EXCEPT !.status = st, !.ver = @ + 1, !.owner = NoProc,
                                 !.lease = "none", !.err = e,
                                 !.approved = @ \/ st = "rejected"]

\* ... except that a rolled back DB claim keeps its owner as provenance.
FailedRow(r, e) == [ClosedRow(r, "failed", e) EXCEPT !.owner = r.owner]

\* mark_approved and mark_running.
RunningLog(l) == [l EXCEPT !.status = "running", !.started = TRUE, !.approved = TRUE]

\* Faulty variant: mark_rejected_if_pending forgets who decided.
ClosedLogWithoutApprover(l, st, e) == [l EXCEPT !.status = st, !.err = e]

\* mark_*_if_pending, _finish_log: rejecting records who decided and no error.
ClosedLog(l, st, e) == [l EXCEPT !.status = st, !.err = e,
                                 !.approved = @ \/ st = "rejected"]

-----------------------------------------------------------------------------
(* Facts read under the conversation lock *)

\* Faulty variant: the reconciliation annotation is not looked at.
CheckLogIgnoringNote(a, st) ==
    /\ log[a].status = st
    /\ log[a].started = (st # "pending")
    /\ log[a].err = pa[a].err
    /\ log[a].approved = pa[a].approved

\* _check_log: the required log is bound to the action and unannotated.
CheckLog(a, st) ==
    /\ ~log[a].note
    /\ log[a].status = st
    /\ log[a].started = (st # "pending")
    /\ log[a].err = pa[a].err
    /\ log[a].approved = pa[a].approved

LogStatusOf(st) == IF st = "succeeded" THEN "success" ELSE st

\* Faulty variant: the claim is trusted, only the log is compared.
LockClaimUnchecked(a, owner, ver, executing) ==
    pa[a].ver >= ver /\ CheckLog(a, LogStatusOf(pa[a].status))

\* _check_action and the rest of lock_claim, for a claim (owner, version).
LockClaim(a, owner, ver, executing) ==
    LET r == pa[a] IN
    /\ \/ r.status = "running" /\ r.owner = owner /\ r.ver = ver
       \/ /\ ~executing
          /\ r.status \in Finished
          /\ r.ver = ver + 1
          /\ r.lease = "none"
          /\ r.owner = IF r.status = "succeeded" THEN NoProc ELSE owner
          /\ (r.status = "succeeded") = (r.err = "none")
    /\ r.approved
    /\ CheckLog(a, LogStatusOf(r.status))
    /\ executing => ~convDeleted /\ r.lease = "live"

\* validate_locked_terminal: a complete execution fact.
ValidTerminal(a) ==
    LET r == pa[a] IN
    /\ r.status \in Finished
    /\ r.lease = "none"
    /\ r.approved
    /\ IF r.status = "succeeded" THEN r.owner = NoProc /\ r.err = "none"
                                 ELSE a \in Write /\ r.owner # NoProc /\ r.err # "none"
    /\ CheckLog(a, LogStatusOf(r.status))

\* validate_locked_unexecuted_terminal: the sole pending(1) -> closed(2) move.
ValidUnexecuted(a) ==
    LET r == pa[a] l == log[a] IN
    /\ r.status \in Cancelled
    /\ r.ver = 2
    /\ r.owner = NoProc
    /\ r.lease = "none"
    /\ ~l.note
    /\ ~l.started
    /\ l.status = r.status
    /\ l.approved = r.approved
    /\ IF r.status = "rejected"
         THEN r.approved /\ r.err = "USER_REJECTED" /\ l.err \in {"none", "USER_REJECTED"}
         ELSE ~r.approved /\ r.err # "none" /\ l.err = r.err

-----------------------------------------------------------------------------
(* Processes and transactions *)

Idle   == [pc |-> "idle", act |-> NoAct, dec |-> "none", claim |-> 0]
NoResp == [act |-> NoAct, status |-> "none"]

Committing == {"termCommit", "claimCommit", "execCommit", "finishCommit",
               "recCommit", "sweepCommit"}
Locking    == {"lock", "exec", "finish", "reconcile", "factRead", "project",
               "proof", "sweepLock"}
PC == {"idle", "handler", "read", "readCas", "sweep"} \cup Committing \cup Locking

Decision == {"none", "approve", "reject", "ok", "failed", "due", "all"}
ReqRow   == [pc : PC, act : Action \cup {NoAct}, dec : Decision, claim : 0..4]
RespRow  == [act : Action \cup {NoAct}, status : Status \cup {"none", "error", "notfound"}]

At(p, l)   == req[p].pc = l
Goto(p, l) == req' = [req EXCEPT ![p].pc = l]

\* An answer ends the request; a sweep goes on with its next candidate.
Answer(p, st) ==
    IF p = Sweeper
      THEN /\ req' = [req EXCEPT ![p].pc = "sweep", ![p].act = NoAct]
           /\ UNCHANGED resp
      ELSE /\ req' = [req EXCEPT ![p] = Idle]
           /\ resp' = [resp EXCEPT ![p] = [act |-> req[p].act, status |-> st]]

\* p opens (and still holds) the transaction on its action.
Txn(p, r, l, e, c, sealed) ==
    txn' = [by |-> p, act |-> req[p].act, pa |-> r, log |-> l, eff |-> e,
            card |-> c, sealed |-> sealed, attached |-> TRUE]

\* What COMMIT makes visible.
Apply ==
    /\ pa'     = [pa EXCEPT ![txn.act] = txn.pa]
    /\ log'    = [log EXCEPT ![txn.act] = txn.log]
    /\ effect' = [effect EXCEPT ![txn.act] = @ + txn.eff]
    /\ card'   = [card EXCEPT ![txn.act] = txn.card]
    /\ txn'    = NoTxn

rows  == <<pa, log, effect, card>>
world == <<artifact, timeUp, convDeleted>>

Init ==
    /\ pa = [a \in Action |-> NoPa]
    /\ log = [a \in Action |-> NoLog]
    /\ effect = [a \in Action |-> 0]
    /\ artifact = [a \in Action |-> FALSE]
    /\ card = [a \in Action |-> "none"]
    /\ timeUp = [a \in Action |-> FALSE]
    /\ convDeleted = FALSE
    /\ txn = NoTxn
    /\ req = [p \in Proc |-> Idle]
    /\ resp = [p \in Request |-> NoResp]
    /\ todo = {}

-----------------------------------------------------------------------------
(* Creation by the chat stream *)

\* _start_log commits the pending audit row before anything else happens.
StartLog(a) ==
    /\ txn = NoTxn /\ ~convDeleted
    /\ log[a].status = "absent"
    /\ log' = [log EXCEPT ![a].status = "pending"]
    /\ UNCHANGED <<pa, effect, card, world, txn, req, resp, todo>>

\* _hang_for_confirmation persists the action under the source lock and binds
\* the still unbound pending log to it, in one transaction.
CreatePending(a) ==
    /\ txn = NoTxn /\ ~convDeleted
    /\ pa[a].status = "absent" /\ log[a].status = "pending"
    /\ pa' = [pa EXCEPT ![a] = PendingRow]
    /\ UNCHANGED <<log, effect, card, world, txn, req, resp, todo>>

\* The set-up failed: _finish_log_final closes the log unless an action owns it.
SetupFailed(a) ==
    /\ txn = NoTxn
    /\ pa[a].status = "absent" /\ log[a].status = "pending"
    /\ log' = [log EXCEPT ![a] = ClosedLog(@, "failed", "SETUP_FAILED")]
    /\ UNCHANGED <<pa, effect, card, world, txn, req, resp, todo>>

-----------------------------------------------------------------------------
(* POST /ai/confirm *)

\* First, unlocked read of the action: a settled write is only read back.
BeginConfirm(p, a, d) ==
    /\ At(p, "idle") /\ pa[a].status # "absent"
    /\ req' = [req EXCEPT ![p] =
         IF log[a].note THEN Idle
         ELSE [pc |-> CASE a \in Write /\ pa[a].status \in Cancelled -> "proof"
                        [] a \in Write /\ pa[a].status \in Finished \cup {"running"} -> "reconcile"
                        [] OTHER -> "lock",
               act |-> a, dec |-> d, claim |-> 0]]
    /\ resp' = [resp EXCEPT ![p] = IF log[a].note THEN [act |-> a, status |-> "running"] ELSE NoResp]
    /\ UNCHANGED <<rows, world, txn, todo>>

\* lock_confirmation_context finds the conversation deleted.
ConfirmGone(p) ==
    /\ At(p, "lock") /\ txn = NoTxn /\ convDeleted
    /\ IF req[p].act \in Write /\ pa[req[p].act].status \in Finished \cup {"running"}
         THEN Goto(p, "reconcile") /\ UNCHANGED resp
         ELSE Answer(p, "notfound")
    /\ UNCHANGED <<rows, world, txn, todo>>

\* Under the locks another request turns out to have decided already.
ConfirmDecided(p) ==
    LET a == req[p].act st == pa[a].status IN
    /\ At(p, "lock") /\ txn = NoTxn /\ ~convDeleted
    /\ st # "pending"
    /\ \/ a \in Write /\ st \in Cancelled /\ Goto(p, "proof") /\ UNCHANGED resp
       \/ a \in Write /\ st = "running" /\ Goto(p, "reconcile") /\ UNCHANGED resp
       \/ a \in Write /\ (st = "succeeded" \/ (st = "failed" /\ pa[a].owner # NoProc))
          /\ Goto(p, "project") /\ UNCHANGED resp
       \/ a \in Write /\ st = "failed" /\ pa[a].owner = NoProc /\ Answer(p, st)
       \/ a \notin Write /\ Answer(p, st)
       \* entry permission revoked or user disabled meanwhile
       \/ (a \notin Write \/ st \in Finished) /\ req[p].dec = "approve" /\ Answer(p, "error")
    /\ UNCHANGED <<rows, world, txn, todo>>

\* Faulty variant: no CAS on the status read under the lock.
CanLeaveAnyState(a) == ~log[a].note

\* transition_status: the action is still pending and its log unannotated.
CanLeavePending(a) == pa[a].status = "pending" /\ ~log[a].note

\* _terminalize_before_execution: expired, rejected by the user, or refused by
\* a revalidation (permission, disabled user, snapshot, data scope).
ConfirmClose(p, st, e) ==
    LET a == req[p].act IN
    /\ At(p, "lock") /\ txn = NoTxn /\ ~convDeleted
    /\ CanLeavePending(a)
    /\ \/ timeUp[a] /\ st = "expired" /\ e = "AI_HITL_EXPIRED"
       \/ ~timeUp[a] /\ req[p].dec = "reject" /\ st = "rejected" /\ e = "USER_REJECTED"
       \/ ~timeUp[a] /\ req[p].dec = "approve" /\ st = "expired" /\ e = "REVALIDATION_FAILED"
    /\ Txn(p, ClosedRow(pa[a], st, e),
           ClosedLog(log[a], st, IF st = "rejected" THEN "none" ELSE e), 0, "failed", TRUE)
    /\ Goto(p, "termCommit")
    /\ UNCHANGED <<rows, world, resp, todo>>

\* Approve: both CAS updates and the log move in the claim transaction.
ConfirmClaim(p) ==
    LET a == req[p].act IN
    /\ At(p, "lock") /\ txn = NoTxn /\ ~convDeleted
    /\ CanLeavePending(a) /\ ~timeUp[a] /\ req[p].dec = "approve"
    /\ a \in Write => CheckLog(a, "pending")
    /\ Txn(p, ClaimedRow(pa[a], p), RunningLog(log[a]), 0, card[a], TRUE)
    /\ req' = [req EXCEPT ![p].pc = "claimCommit", ![p].claim = pa[a].ver + 2]
    /\ UNCHANGED <<rows, world, resp, todo>>

-----------------------------------------------------------------------------
(* COMMIT with an eight second budget *)

\* Faulty variant: a timed out COMMIT is taken for a success.
UnackedTakenForDone == txn.pa.status

\* What a request answers whose closing COMMIT was not acknowledged.
UnackedAnswer == "error"

\* A refused revalidation commits the expiry and then raises its own error.
ClosingAnswer == IF txn.pa.err = "REVALIDATION_FAILED" THEN "error" ELSE txn.pa.status

\* The acknowledgement arrives.
CommitAcked(p) ==
    /\ req[p].pc \in Committing
    /\ txn # NoTxn /\ txn.by = p /\ txn.attached
    /\ Apply
    /\ \/ At(p, "termCommit") /\ Answer(p, ClosingAnswer)
       \/ /\ At(p, "claimCommit")
          /\ Goto(p, IF req[p].act \in Write THEN "exec" ELSE "read")
          /\ UNCHANGED resp
       \/ req[p].pc \in {"execCommit", "finishCommit", "recCommit"} /\ Goto(p, "project") /\ UNCHANGED resp
       \/ At(p, "sweepCommit") /\ Answer(p, "none")
    /\ UNCHANGED <<world, todo>>

\* Timeout, error or cancellation: the connection is quarantined, never a
\* proof of rollback; the writer of a claim reconciles on a fresh one.
CommitUnknown(p) ==
    /\ req[p].pc \in Committing
    /\ txn # NoTxn /\ txn.by = p /\ txn.attached
    /\ txn' = [txn EXCEPT !.attached = FALSE]
    /\ \/ At(p, "termCommit") /\ Answer(p, UnackedAnswer) /\ UNCHANGED todo
       \/ /\ At(p, "claimCommit")
          /\ IF req[p].act \in Write THEN Goto(p, "reconcile") /\ UNCHANGED resp
                                     ELSE Answer(p, UnackedAnswer)
          /\ UNCHANGED todo
       \/ req[p].pc \in {"execCommit", "finishCommit"} /\ Goto(p, "reconcile") /\ UNCHANGED <<resp, todo>>
       \/ At(p, "recCommit") /\ Goto(p, "factRead") /\ UNCHANGED <<resp, todo>>
       \/ At(p, "sweepCommit") /\ req' = [req EXCEPT ![p] = Idle] /\ todo' = {} /\ UNCHANGED resp
    /\ UNCHANGED <<rows, world>>

\* The server finishes a transaction whose client is gone.
ServerCommit ==
    /\ txn # NoTxn /\ ~txn.attached /\ txn.sealed
    /\ Apply
    /\ UNCHANGED <<world, req, resp, todo>>

ServerAbort ==
    /\ txn # NoTxn /\ ~txn.attached
    /\ txn' = NoTxn
    /\ UNCHANGED <<rows, world, req, resp, todo>>

-----------------------------------------------------------------------------
(* execute_claim: business, action and audit in one transaction *)

\* lock_claim and every revalidation pass: the handler runs under the locks.
ExecBegin(p) ==
    LET a == req[p].act IN
    /\ At(p, "exec") /\ txn = NoTxn
    /\ LockClaim(a, p, req[p].claim, TRUE)
    /\ Txn(p, pa[a], log[a], 0, card[a], FALSE)
    /\ Goto(p, "handler")
    /\ UNCHANGED <<rows, world, resp, todo>>

\* The claim no longer holds, or a revalidation refuses: nothing ran.
ExecRefused(p) ==
    /\ At(p, "exec") /\ txn = NoTxn
    /\ Goto(p, "finish")
    /\ UNCHANGED <<rows, world, txn, resp, todo>>

\* complete_success is flushed into the handler's transaction.
HandlerOk(p) ==
    LET a == req[p].act IN
    /\ At(p, "handler")
    /\ artifact' = [artifact EXCEPT ![a] = @ \/ a \in FileAction]
    /\ Txn(p, ClosedRow(pa[a], "succeeded", "none"), ClosedLog(log[a], "success", "none"),
           1, card[a], TRUE)
    /\ Goto(p, "execCommit")
    /\ UNCHANGED <<rows, timeUp, convDeleted, resp, todo>>

\* The handler, a late revalidation or complete_success raised: rollback.  A
\* FILE tool may have written its file by then.
HandlerRollback(p) ==
    LET a == req[p].act IN
    /\ At(p, "handler")
    /\ \/ a \in FileAction /\ artifact' = [artifact EXCEPT ![a] = TRUE]
       \/ UNCHANGED artifact
    /\ txn' = NoTxn
    /\ Goto(p, "finish")
    /\ UNCHANGED <<rows, timeUp, convDeleted, resp, todo>>

\* The rollback itself failed: outcome unknown, session quarantined.
HandlerRollbackLost(p) ==
    /\ At(p, "handler")
    /\ \/ req[p].act \in FileAction /\ artifact' = [artifact EXCEPT ![req[p].act] = TRUE]
       \/ UNCHANGED artifact
    /\ txn' = [txn EXCEPT !.attached = FALSE]
    /\ Answer(p, "running")
    /\ UNCHANGED <<rows, timeUp, convDeleted, todo>>

\* Faulty variant: a FILE claim is fenced like a DB claim.
FenceAnyWrite(a) == a \in Write

\* complete_failed: a rollback proves that nothing happened only if the tool
\* writes nothing but the database.
Fenceable(a) == a \in DbAction

\* _finish_rolled_back: only a DB claim still running may be failed.
FinishRolledBack(p, e) ==
    LET a == req[p].act IN
    /\ At(p, "finish")
    /\ e \in {"TOOL_ERROR", "AI_INTERNAL_ERROR"}
    /\ \/ /\ ~Fenceable(a)
          /\ Answer(p, "running") /\ UNCHANGED txn
       \/ /\ Fenceable(a) /\ txn = NoTxn
          /\ ~LockClaim(a, p, req[p].claim, FALSE)
          /\ Answer(p, "running") /\ UNCHANGED txn
       \/ /\ Fenceable(a) /\ txn = NoTxn
          /\ LockClaim(a, p, req[p].claim, FALSE)
          /\ IF pa[a].status = "running"
               THEN /\ Txn(p, FailedRow(pa[a], e), ClosedLog(log[a], "failed", e), 0, card[a], TRUE)
                    /\ Goto(p, "finishCommit")
               ELSE UNCHANGED txn /\ Goto(p, "project")
          /\ UNCHANGED resp
    /\ UNCHANGED <<rows, world, todo>>

-----------------------------------------------------------------------------
(* Reconciliation: read the facts, or fence a DB claim that cannot finish *)

\* CompletionRecoveryService.reconcile under the locks.  A request that holds a
\* claim is resolving its own lost COMMIT and may fence at once; everybody else
\* only after the lease ran out on the database clock.
Reconcile(p) ==
    LET a     == req[p].act
        own   == req[p].claim # 0
        owner == IF own THEN p ELSE pa[a].owner
        ver   == IF own THEN req[p].claim
                 ELSE IF pa[a].status = "running" THEN pa[a].ver ELSE pa[a].ver - 1
        known == IF own \/ pa[a].status = "running" THEN LockClaim(a, owner, ver, FALSE)
                 ELSE ValidTerminal(a)
    IN
    /\ At(p, "reconcile")
    /\ \/ /\ ~Fenceable(a) /\ pa[a].status # "succeeded"
          /\ Answer(p, "running") /\ UNCHANGED txn
       \/ /\ Fenceable(a) \/ pa[a].status = "succeeded"
          /\ txn = NoTxn
          /\ \/ ~known /\ Answer(p, "running") /\ UNCHANGED txn
             \/ known /\ pa[a].status \in Finished /\ Goto(p, "project") /\ UNCHANGED <<txn, resp>>
             \/ /\ known /\ pa[a].status = "running"
                /\ ~own /\ pa[a].lease = "live"
                /\ Answer(p, "running") /\ UNCHANGED txn
             \/ /\ known /\ pa[a].status = "running"
                /\ own \/ pa[a].lease = "over"
                /\ Txn(p, FailedRow(pa[a], "EXECUTION_INTERRUPTED"),
                       ClosedLog(log[a], "failed", "EXECUTION_INTERRUPTED"), 0, card[a], TRUE)
                /\ Goto(p, "recCommit") /\ UNCHANGED resp
    /\ UNCHANGED <<rows, world, todo>>

\* _read_terminal_outcome: after a lost recovery COMMIT, facts only.
FactRead(p) ==
    LET a == req[p].act IN
    /\ At(p, "factRead") /\ txn = NoTxn
    /\ IF /\ IF req[p].claim # 0 THEN LockClaim(a, p, req[p].claim, FALSE) ELSE ValidTerminal(a)
          /\ pa[a].status = "succeeded" \/ (pa[a].status = "failed" /\ a \in DbAction)
         THEN Goto(p, "project") /\ UNCHANGED resp
         ELSE Answer(p, "running")
    /\ UNCHANGED <<rows, world, txn, todo>>

\* _project_prepared_completion and _project_recovered_completion: the answer
\* and the card come from freshly locked facts.
Project(p) ==
    LET a  == req[p].act
        st == pa[a].status
        ok == IF req[p].claim # 0 THEN LockClaim(a, p, req[p].claim, FALSE) ELSE ValidTerminal(a)
    IN
    /\ At(p, "project") /\ txn = NoTxn
    /\ IF ok /\ st \in Finished /\ ~(st = "failed" /\ a \in FileAction)
         THEN /\ Answer(p, st)
              /\ \/ /\ ~convDeleted
                    /\ card' = [card EXCEPT ![a] = IF st = "succeeded" THEN "ok" ELSE "failed"]
                 \/ UNCHANGED card     \* display write lost or not authorised
         ELSE Answer(p, "running") /\ UNCHANGED card
    /\ UNCHANGED <<pa, log, effect, world, txn, todo>>

\* _read_unexecuted_response: a cancelled label is reported only with its proof.
ReadUnexecuted(p) ==
    LET a == req[p].act IN
    /\ At(p, "proof") /\ txn = NoTxn
    /\ Answer(p, IF ValidUnexecuted(a) THEN pa[a].status ELSE "running")
    /\ UNCHANGED <<rows, world, txn, todo>>

\* Lock timeout or database error at a locking step.
GiveUp(p) ==
    /\ req[p].pc \in Locking
    /\ \/ At(p, "exec") /\ Goto(p, "finish") /\ UNCHANGED <<resp, todo>>
       \/ At(p, "sweepLock") /\ req' = [req EXCEPT ![p] = Idle] /\ todo' = {} /\ UNCHANGED resp
       \/ req[p].pc \notin {"exec", "sweepLock"} /\ Answer(p, "running") /\ UNCHANGED todo
    /\ UNCHANGED <<rows, world, txn>>

-----------------------------------------------------------------------------
(* Read-only tools keep the older lease-only protocol *)

RenewLease(p) ==
    LET a == req[p].act IN
    /\ At(p, "read") /\ (txn # NoTxn => txn.act # a)
    /\ pa[a].status = "running" /\ pa[a].owner = p
    /\ pa' = [pa EXCEPT ![a].lease = "live"]
    /\ UNCHANGED <<log, effect, card, world, txn, req, resp, todo>>

\* Faulty variant: the row is always read again.
SeenVersionFresh(p, ok) ==
    IF pa[req[p].act].status = "running" THEN pa[req[p].act].ver ELSE 0

\* The tool returned.  Its failure rolls the session back, which expires the
\* loaded row: the next read sees the current one.  After a success the session
\* (expire_on_commit = False) still holds the row as it was claimed.
SeenVersion(p, ok) ==
    IF ok THEN req[p].claim
    ELSE IF pa[req[p].act].status = "running" THEN pa[req[p].act].ver ELSE 0

ReadDone(p, ok) ==
    /\ At(p, "read")
    /\ req' = [req EXCEPT ![p].pc = "readCas", ![p].dec = IF ok THEN "ok" ELSE "failed",
                          ![p].claim = SeenVersion(p, ok)]
    /\ UNCHANGED <<rows, world, txn, resp, todo>>

\* transition_status RUNNING -> terminal, the log and the card in one commit.
\* After a lost CAS the closed log refuses the stale running row; a row seen
\* terminal is left alone, but the turn is finalised with the tool's own result.
ReadCas(p) ==
    LET a == req[p].act
        seenRunning == req[p].claim # 0
        ok == req[p].dec = "ok"
        st == IF ok THEN "succeeded" ELSE "failed"
        e  == IF ok THEN "none" ELSE "TOOL_ERROR"
        NewCard == IF convDeleted THEN card ELSE [card EXCEPT ![a] = req[p].dec]
    IN
    /\ At(p, "readCas") /\ txn = NoTxn
    /\ \/ /\ seenRunning /\ pa[a].status = "running" /\ pa[a].ver = req[p].claim
          /\ pa'  = [pa EXCEPT ![a] = ClosedRow(@, st, e)]
          /\ log' = [log EXCEPT ![a] = ClosedLog(@, IF ok THEN "success" ELSE "failed", e)]
          /\ card' = NewCard
          /\ Answer(p, st)
       \/ /\ seenRunning /\ pa[a].status # "running"
          /\ Answer(p, "error") /\ UNCHANGED <<pa, log, card>>
       \/ /\ ~seenRunning
          /\ card' = NewCard
          /\ Answer(p, pa[a].status) /\ UNCHANGED <<pa, log>>
    /\ UNCHANGED <<effect, world, txn, todo>>

-----------------------------------------------------------------------------
(* cleanup_prepared_actions_on_startup and run_pending_expiry_loop *)

\* Faulty variants: the loop looks at proposals only, or only at claims.
CandidatePendingOnly(a, due) == pa[a].status = "pending" /\ (due => timeUp[a])
CandidateRunningOnly(a, due) == pa[a].status = "running"

\* The rows a scan selects: expired_only in the loop, all open ones at startup.
Candidate(a, due) ==
    \/ pa[a].status = "pending" /\ (due => timeUp[a])
    \/ pa[a].status = "running"

\* One scan; its rows are stale by the time a candidate is handled.
SweepScan(due) ==
    /\ At(Sweeper, "idle")
    /\ todo' = {[act |-> a, status |-> pa[a].status] : a \in {b \in Action : Candidate(b, due)}}
    /\ req' = [req EXCEPT ![Sweeper].pc = "sweep",
                          ![Sweeper].dec = IF due THEN "due" ELSE "all"]
    /\ UNCHANGED <<rows, world, txn, resp>>

\* DB claims are reconciled, other running writes left alone, live pendings
\* kept; the rest is closed under the locks.
SweepRoute(c) ==
    CASE c.status = "running" /\ c.act \in DbAction -> "reconcile"
      [] c.status = "running" /\ c.act \in FileAction -> "sweep"
      [] c.status = "pending" /\ ~timeUp[c.act] /\ ~convDeleted -> "sweep"
      [] OTHER -> "sweepLock"

SweepPick(c) ==
    /\ At(Sweeper, "sweep") /\ c \in todo
    /\ todo' = todo \ {c}
    /\ req' = [req EXCEPT ![Sweeper].pc = SweepRoute(c), ![Sweeper].act = c.act]
    /\ UNCHANGED <<rows, world, txn, resp>>

SweepLocked ==
    LET a    == req[Sweeper].act
        lost == a \notin Write /\ pa[a].lease # "live"
        close == \/ pa[a].status = "pending" /\ (req[Sweeper].dec = "due" => timeUp[a])
                 \/ pa[a].status = "running" /\ lost
        st == IF pa[a].status = "pending" THEN "expired" ELSE "failed"
        e  == IF pa[a].status = "pending" THEN "AI_HITL_EXPIRED" ELSE "EXECUTION_INTERRUPTED"
    IN
    /\ At(Sweeper, "sweepLock") /\ txn = NoTxn
    /\ IF ~convDeleted /\ close /\ ~log[a].note
         THEN /\ Txn(Sweeper, ClosedRow(pa[a], st, e), ClosedLog(log[a], st, e), 0, "failed", TRUE)
              /\ Goto(Sweeper, "sweepCommit") /\ UNCHANGED resp
         ELSE Answer(Sweeper, "none") /\ UNCHANGED txn
    /\ UNCHANGED <<rows, world, todo>>

SweepEnd ==
    /\ At(Sweeper, "sweep") /\ todo = {}
    /\ req' = [req EXCEPT ![Sweeper] = Idle]
    /\ UNCHANGED <<rows, world, txn, resp, todo>>

-----------------------------------------------------------------------------
(* The streams that wait for the decision *)

\* Original stream: hang() timed out; CAS on the version it created.
WaiterTimeout(a) ==
    /\ txn = NoTxn /\ timeUp[a]
    /\ CanLeavePending(a) /\ pa[a].ver = 1
    /\ pa'   = [pa EXCEPT ![a] = ClosedRow(@, "expired", "AI_HITL_EXPIRED")]
    /\ log'  = [log EXCEPT ![a] = ClosedLog(@, "expired", "AI_HITL_EXPIRED")]
    /\ card' = [card EXCEPT ![a] = "failed"]
    /\ UNCHANGED <<effect, world, txn, req, resp, todo>>

\* Resumed stream: _terminalize_durable_resume_failure stores its own error on
\* the action, but mark_expired_if_pending is called without one.
ResumeFailure(a, e) ==
    /\ txn = NoTxn /\ ~convDeleted
    /\ CanLeavePending(a)
    /\ e \in ResumeErr /\ (e = "AI_HITL_TIMEOUT" => timeUp[a])
    /\ pa'   = [pa EXCEPT ![a] = ClosedRow(@, "expired", e)]
    /\ log'  = [log EXCEPT ![a] = ClosedLog(@, "expired", "AI_HITL_EXPIRED")]
    /\ card' = [card EXCEPT ![a] = "failed"]
    /\ UNCHANGED <<effect, world, txn, req, resp, todo>>

-----------------------------------------------------------------------------
(* Deletion, annotation, time and crashes *)

\* Faulty variant: a running execution does not block the deletion.
UnresolvedTerminalOnly(a) ==
    a \in Write /\ pa[a].status \in Terminal /\ ~(ValidTerminal(a) \/ ValidUnexecuted(a))

\* expire_for_conversation_delete: an outcome that is not proved blocks it.
Unresolved(a) ==
    \/ pa[a].status = "absent" /\ log[a].status # "absent" /\ a \in Write
    \/ pa[a].status = "running"
    \/ /\ a \in Write /\ pa[a].status \in Finished
       /\ ~ValidTerminal(a) \/ (a \in FileAction /\ pa[a].status = "failed")
    \/ a \in Write /\ pa[a].status \in Cancelled /\ ~ValidUnexecuted(a)

DeleteConversation ==
    /\ txn = NoTxn /\ ~convDeleted
    /\ \A a \in Action : ~Unresolved(a)
    /\ convDeleted' = TRUE
    /\ pa'  = [a \in Action |-> IF pa[a].status = "pending"
                 THEN ClosedRow(pa[a], "expired", "AI_CONVERSATION_DELETED") ELSE pa[a]]
    /\ log' = [a \in Action |-> IF pa[a].status = "pending" /\ log[a].status = "pending"
                 THEN ClosedLog(log[a], "expired", "AI_CONVERSATION_DELETED") ELSE log[a]]
    /\ UNCHANGED <<effect, artifact, card, timeUp, txn, req, resp, todo>>

\* scripts/reconcile_ai_legacy annotates an interrupted or running write.
Annotate(a) ==
    /\ txn = NoTxn /\ a \in Write /\ ~log[a].note
    /\ pa[a].status # "absent"
    /\ \/ log[a].status = "running"
       \/ log[a].status = "failed" /\ log[a].err \in {"AI_INTERNAL_ERROR", "EXECUTION_INTERRUPTED"}
    /\ log' = [log EXCEPT ![a].note = TRUE]
    /\ UNCHANGED <<pa, effect, card, world, txn, req, resp, todo>>

ConfirmationExpires(a) ==
    /\ ~timeUp[a] /\ pa[a].status # "absent"
    /\ timeUp' = [timeUp EXCEPT ![a] = TRUE]
    /\ UNCHANGED <<rows, artifact, convDeleted, txn, req, resp, todo>>

LeaseExpires(a) ==
    /\ pa[a].lease = "live"
    /\ pa' = [pa EXCEPT ![a].lease = "over"]
    /\ UNCHANGED <<log, effect, card, world, txn, req, resp, todo>>

\* A worker dies or its request is cancelled; an unfinished COMMIT is detached.
Crash(p) ==
    /\ ~At(p, "idle")
    /\ req' = [req EXCEPT ![p] = Idle]
    /\ txn' = IF txn # NoTxn /\ txn.by = p THEN [txn EXCEPT !.attached = FALSE] ELSE txn
    /\ todo' = IF p = Sweeper THEN {} ELSE todo
    /\ UNCHANGED <<rows, world, resp>>

-----------------------------------------------------------------------------

ConfirmStep(p) ==
    \/ \E a \in Action, d \in {"approve", "reject"} : BeginConfirm(p, a, d)
    \/ ConfirmGone(p) \/ ConfirmDecided(p) \/ ConfirmClaim(p)
    \/ \E st \in Cancelled, e \in Err : ConfirmClose(p, st, e)
    \/ ExecBegin(p) \/ ExecRefused(p)
    \/ HandlerOk(p) \/ HandlerRollback(p) \/ HandlerRollbackLost(p)
    \/ \E e \in Err : FinishRolledBack(p, e)
    \/ ReadUnexecuted(p)
    \/ RenewLease(p) \/ (\E ok \in BOOLEAN : ReadDone(p, ok)) \/ ReadCas(p)

RecoveryStep(p) ==
    \/ Reconcile(p) \/ FactRead(p) \/ Project(p)
    \/ CommitAcked(p) \/ CommitUnknown(p) \/ GiveUp(p) \/ Crash(p)

SweepStep ==
    \/ \E due \in BOOLEAN : SweepScan(due)
    \/ \E c \in todo : SweepPick(c)
    \/ SweepLocked \/ SweepEnd

ActionStep(a) ==
    \/ StartLog(a) \/ CreatePending(a) \/ SetupFailed(a)
    \/ WaiterTimeout(a) \/ \E e \in ResumeErr : ResumeFailure(a, e)
    \/ Annotate(a) \/ ConfirmationExpires(a) \/ LeaseExpires(a)

Next ==
    \/ \E p \in Request : ConfirmStep(p)
    \/ \E p \in Proc : RecoveryStep(p)
    \/ SweepStep
    \/ \E a \in Action : ActionStep(a)
    \/ ServerCommit \/ ServerAbort \/ DeleteConversation

Spec == Init /\ [][Next]_vars

\* Clocks advance; the server ends a transaction whose client is gone; handlers
\* and read-only tools are bounded by the L3 timeout and COMMITs by their budget.
\* The expiry loop runs every 30 s for as long as the service lives, so a step of
\* it that is possible again and again is not prevented forever by lock timeouts,
\* restarts or other transactions.
Fairness ==
    /\ \A a \in Action : WF_vars(LeaseExpires(a))
    /\ WF_vars(ServerCommit \/ ServerAbort)
    /\ \A p \in Request :
         /\ WF_vars(HandlerOk(p) \/ HandlerRollback(p) \/ HandlerRollbackLost(p))
         /\ WF_vars(\E ok \in BOOLEAN : ReadDone(p, ok))
         /\ WF_vars(CommitAcked(p) \/ CommitUnknown(p))
    /\ SF_vars(SweepScan(TRUE)) /\ WF_vars(SweepEnd)
    /\ \A a \in Action : SF_vars(\E c \in todo : c.act = a /\ SweepPick(c))
    /\ SF_vars(SweepLocked) /\ SF_vars(CommitAcked(Sweeper))
    /\ SF_vars(Reconcile(Sweeper)) /\ SF_vars(FactRead(Sweeper)) /\ SF_vars(Project(Sweeper))

\* Requests for the conversation do not arrive forever: a client that confirms
\* again at every moment the sweeper has the lock timeout running could starve it.
RequestsCease ==
    <>[][\A p \in Request : At(p, "idle") => req'[p].pc = "idle"]_vars

FairSpec == Spec /\ Fairness /\ RequestsCease

-----------------------------------------------------------------------------
(* Correctness *)

\* Every variable has its shape; in particular no row is ever written by more
\* than the four CAS updates of its longest path (row_version <= 4).
TypeOK ==
    /\ pa \in [Action -> PaRow]
    /\ log \in [Action -> LogRow]
    /\ effect \in [Action -> Nat]
    /\ artifact \in [Action -> BOOLEAN]
    /\ card \in [Action -> Card]
    /\ timeUp \in [Action -> BOOLEAN]
    /\ convDeleted \in BOOLEAN
    /\ txn \in TxnRow \cup {NoTxn}
    /\ req \in [Proc -> ReqRow]
    /\ resp \in [Request -> RespRow]
    /\ todo \subseteq [act : Action, status : Status]

\* A write has taken effect exactly once if its action is recorded as succeeded,
\* and not at all under any other record: double confirmations, lost COMMIT
\* acknowledgements, fencing and crashes included.
EffectMatchesRecord ==
    \A a \in Action :
        effect[a] = IF a \in Write /\ pa[a].status = "succeeded" THEN 1 ELSE 0

\* What is recorded as failed, rejected or expired left nothing behind, a file
\* of a FILE tool included: such a claim stays running (outcome unknown).
NoPhantomFailure ==
    \A a \in Write :
        pa[a].status \in Terminal \ {"succeeded"} => effect[a] = 0 /\ ~artifact[a]

\* Whoever was told a terminal outcome was told the truth, for good.
AnswersAreFacts ==
    \A p \in Request :
        resp[p].status \in Terminal => pa[resp[p].act].status = resp[p].status

\* The tool card never claims a result the action does not have, however late
\* the stream or the worker that writes it.
CardIsTrue ==
    \A a \in Action :
        /\ card[a] = "ok" => pa[a].status = "succeeded"
        /\ card[a] = "failed" => pa[a].status \in Terminal \ {"succeeded"}

\* A write that reached a terminal status can prove it: action and log agree in
\* every field the validators compare, so that it neither blocks the
\* conversation nor is reported as unknown.  Annotated logs are excluded by
\* design, a FILE tool never fails.
FactsBind(a) == ValidTerminal(a) \/ ValidUnexecuted(a)

SettledFactsBind ==
    \A a \in Write :
        pa[a].status \in Terminal /\ ~log[a].note /\ pa[a].err \notin ResumeErr => FactsBind(a)

\* The same for every terminal write, those closed by a resumed stream included.
EverySettledFactBinds ==
    \A a \in Write : pa[a].status \in Terminal /\ ~log[a].note => FactsBind(a)

\* A deleted conversation has no action that could still be decided or run.
DeletedIsSettled ==
    convDeleted => \A a \in Action : pa[a].status \notin {"pending", "running"}

\* Once the operator annotated a write for manual reconciliation no confirmation,
\* worker or sweep changes its record or runs it.
AnnotatedIsFrozen ==
    [][\A a \in Action : log[a].note =>
          /\ log'[a] = log[a]
          /\ pa'[a].status = pa[a].status
          /\ effect'[a] = effect[a]]_vars

\* A terminal record is final: status, version, owner and error never change.
TerminalIsFinal ==
    [][\A a \in Action : pa[a].status \in Terminal => pa'[a] = pa[a]]_vars

\* An interrupted execution is settled without any user doing anything: a DB claim
\* is fenced or found complete, a read-only one failed or finished, unless an
\* operator froze it.  (A FILE claim may stay unknown.)
RunningSettles ==
    \A a \in Action \ FileAction :
        pa[a].status = "running" ~> (pa[a].status \in Terminal \/ log[a].note)

\* A proposal does not stay open beyond its expiry, even if its stream is gone.
ExpirySettles ==
    \A a \in Action :
        (pa[a].status = "pending" /\ timeUp[a]) ~> (pa[a].status # "pending")

\* The protocol implements the one-shot actions of ActionOutcome: the status
\* column, together with the committed business changes, moves only as it says.
Outcome == INSTANCE ActionOutcome WITH
    outcome <- [a \in Write |-> pa[a].status],
    effect  <- [a \in Write |-> effect[a]]

ImplementsOutcome == Outcome!Spec
=============================================================================
