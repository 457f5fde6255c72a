----------------------------- MODULE ToolGateway -----------------------------
(***************************************************************************)
(* One conversation's tool calls through the gateway: the checks, the dry  *)
(* run, the audit row that is committed before anything else, the atomic   *)
(* import preview, the hand-off to a confirmable action, and the deletion  *)
(* of the conversation meanwhile (src/app/modules/ai/agents/gateway/       *)
(* executor.py, preview_execution.py, preview_handoff.py and               *)
(* service/preview_completion_service.py).                                 *)
(*                                                                         *)
(* Three kinds of tools exist: reads, writes (always confirmed) and the    *)
(* import preview, a write of its own that may continue with the           *)
(* confirmation of user.import_execute.  What happens to an action after   *)
(* the hand-off is module PreparedAction's; here it settles.  Every        *)
(* database transaction holds the locks of the conversation and of the     *)
(* source message from its first statement and is one step; the reply to   *)
(* a COMMIT may get lost either way.                                       *)
(***************************************************************************)
EXTENDS Naturals, FiniteSets

CONSTANTS Call   \* tool calls of the conversation

Kinds == {"read", "write", "preview"}
Unfinished == {"none", "pending", "running"}

VARIABLES
  call,     \* step, kind, permission snapshot, injection hit, answer of each call
  log,      \* its row in ai_operation_log
  child,    \* the row of the execute call a preview continues with
  act,      \* status of the durable action of the call
  batch,    \* the import batch a preview committed
  allowed,  \* the user's permissions as the database has them
  deleted   \* ai_conversation.deleted_at is set

vars == <<call, log, child, act, batch, allowed, deleted>>
rows == <<log, child, act, batch>>

NoLog == [st |-> "none", proof |-> "none", bound |-> FALSE]

Init ==
  /\ call = [c \in Call |-> [at |-> "idle", kind |-> "read", may |-> FALSE,
                             inj |-> FALSE, go |-> FALSE, dry |-> "ok", told |-> "none"]]
  /\ log = [c \in Call |-> NoLog] /\ child = [c \in Call |-> NoLog]
  /\ act = [c \in Call |-> "none"] /\ batch = [c \in Call |-> "none"]
  /\ allowed = TRUE /\ deleted = FALSE

At(c, s) == call[c].at = s
Goto(c, s) == call' = [call EXCEPT ![c].at = s]
Tell(c, answer) == call' = [call EXCEPT ![c].at = "done", ![c].told = answer]
Unknown(c) == Tell(c, "unknown")
IsHitl(c) == call[c].kind = "write" \/ call[c].inj

\* mutant: the binding check forgets that the conversation may be deleted
SourceEvenDeleted == TRUE

\* lock_source_binding: the conversation is live and owned, the source active.
SourceLive == ~deleted

(***************************************************************************)
(* Before the audit row                                                    *)
(***************************************************************************)

\* The model calls a tool: permissions are those the run started with.
Begin(c) ==
  /\ At(c, "idle")
  /\ \E k \in Kinds, inj \in BOOLEAN, go \in BOOLEAN :
       /\ go => k = "preview"
       /\ call' = [call EXCEPT ![c] = [@ EXCEPT !.at = "checks", !.kind = k,
                     !.may = allowed, !.inj = inj, !.go = go]]
  /\ UNCHANGED <<rows, allowed, deleted>>

\* Unknown tool, foreign agent, gateway-only tool, missing outcome.
Refuse(c) ==
  /\ At(c, "checks") /\ Tell(c, "refused")
  /\ UNCHANGED <<rows, allowed, deleted>>

\* Permission and super-administrator gates, on the snapshot.
Permit(c) ==
  /\ At(c, "checks")
  /\ IF call[c].may THEN Goto(c, IF call[c].kind = "write" THEN "capacity" ELSE "log")
     ELSE Tell(c, "refused")
  /\ UNCHANGED <<rows, allowed, deleted>>

\* Capacity (module ToolQuota): a refusal or a Redis failure ends the call.
Capacity(c) ==
  /\ At(c, "capacity") /\ (Goto(c, "dryrun") \/ Tell(c, "refused"))
  /\ UNCHANGED <<rows, allowed, deleted>>

\* The dry run has a session of its own and changes nothing.
DryRun(c) ==
  /\ At(c, "dryrun")
  /\ \E o \in {"ok", "failed"} :
       call' = [call EXCEPT ![c].at = "log", ![c].dry = o]
  /\ UNCHANGED <<rows, allowed, deleted>>

(***************************************************************************)
(* The audit row                                                           *)
(***************************************************************************)

\* The row start_operation writes; with a failed dry run it is terminal at
\* once and carries the proof that nothing was executed.
StartRow(c) ==
  IF call[c].dry = "failed" THEN [st |-> "failed", proof |-> "preflight", bound |-> FALSE]
  ELSE [NoLog EXCEPT !.st = IF IsHitl(c) THEN "pending" ELSE "running"]

\* _start_log: nothing is executed unless the row is committed.
StartLog(c) ==
  /\ At(c, "log")
  /\ \/ /\ SourceLive /\ log' = [log EXCEPT ![c] = StartRow(c)]
        /\ IF call[c].dry = "failed" THEN Tell(c, "failed") ELSE Goto(c, "guard")
     \/ Tell(c, "failed") /\ UNCHANGED log
  /\ UNCHANGED <<child, act, batch, allowed, deleted>>

\* _finish_log_final: at most three attempts, then the row stays as it is; a
\* row that has an action or is terminal is left alone.
Finished(row, st) ==
  IF row.bound \/ row.st \notin {"pending", "running"} THEN {row}
  ELSE {row, [row EXCEPT !.st = st]}

FinishLog(c, st) ==
  /\ \E r \in Finished(log[c], st) : log' = [log EXCEPT ![c] = r]
  /\ UNCHANGED child

\* check_repeated_failure refuses, or Redis is down.
RepeatedFailure(c) ==
  /\ At(c, "guard") /\ FinishLog(c, "failed") /\ Tell(c, "failed")
  /\ UNCHANGED <<act, batch, allowed, deleted>>

PassGuard(c) ==
  /\ At(c, "guard")
  /\ Goto(c, IF IsHitl(c) THEN "setup"
             ELSE IF call[c].kind = "preview" THEN "preview" ELSE "invoke")
  /\ UNCHANGED <<rows, allowed, deleted>>

(***************************************************************************)
(* Reads: _invoke_tool_fn                                                  *)
(***************************************************************************)
Invoke(c) ==
  /\ At(c, "invoke")
  /\ \E ok \in BOOLEAN :
       /\ FinishLog(c, IF ok THEN "success" ELSE "failed")
       /\ Tell(c, IF ok THEN "ok" ELSE "failed")
  /\ UNCHANGED <<act, batch, allowed, deleted>>

(***************************************************************************)
(* The import preview                                                      *)
(***************************************************************************)

\* lock_preview and the authority check of execute_preview.
MayPreview(c) == SourceLive /\ log[c].st = "running" /\ ~log[c].bound /\ allowed

\* The parser rejects the file before it creates anything.
PreviewFieldErrors(c) ==
  /\ At(c, "preview") /\ MayPreview(c)
  /\ FinishLog(c, "failed") /\ Tell(c, "failed")
  /\ UNCHANGED <<act, batch, allowed, deleted>>

\* Any other failure is rolled back and leaves the row running.
PreviewFails(c) ==
  /\ At(c, "preview") /\ Unknown(c)
  /\ UNCHANGED <<rows, allowed, deleted>>

\* complete_preview: batch and audit row are committed together; the reply
\* arrives or not.
PreviewCommit(c) ==
  /\ At(c, "preview") /\ MayPreview(c)
  /\ batch' = [batch EXCEPT ![c] = "open"]
  /\ log' = [log EXCEPT ![c].st = "success", ![c].proof = "preview"]
  /\ (Goto(c, "previewed") \/ Goto(c, "readback"))
  /\ UNCHANGED <<child, act, allowed, deleted>>

PreviewCommitLost(c) ==
  /\ At(c, "preview") /\ MayPreview(c) /\ Goto(c, "readback")
  /\ UNCHANGED <<rows, allowed, deleted>>

\* verify_historical_preview
VerifiedPreview(c) == log[c].st = "success" /\ log[c].proof = "preview"

\* mutant: a receipt read back after a lost COMMIT is taken for the answer of
\* an execution as well
ReplayAnswersAll(c) ==
  /\ At(c, "readback")
  /\ IF SourceLive /\ allowed /\ VerifiedPreview(c) THEN Tell(c, "ok") ELSE Unknown(c)
  /\ UNCHANGED <<rows, allowed, deleted>>

\* read_preview_result: a receipt, never a proposal.
ReadPreview(c) ==
  /\ At(c, "readback")
  /\ IF SourceLive /\ allowed /\ VerifiedPreview(c) /\ ~call[c].go
     THEN Tell(c, "ok") ELSE Unknown(c)
  /\ UNCHANGED <<rows, allowed, deleted>>

\* The result is emitted; preview_only ends here.
PreviewEmitted(c) ==
  /\ At(c, "previewed")
  /\ \/ Unknown(c)
     \/ call[c].go /\ Goto(c, "childlog")
     \/ ~call[c].go /\ Tell(c, "ok")
  /\ UNCHANGED <<rows, allowed, deleted>>

\* The execute call goes through the same pipeline; every failure of it is
\* reported as unknown.
StartChild(c) ==
  /\ At(c, "childlog")
  /\ \/ /\ call[c].may /\ SourceLive
        /\ child' = [child EXCEPT ![c].st = "pending"] /\ Goto(c, "handoff")
     \/ Unknown(c) /\ UNCHANGED child
  /\ UNCHANGED <<log, act, batch, allowed, deleted>>

ChildGuard(c) ==
  /\ At(c, "handoff")
  /\ \E r \in Finished(child[c], "failed") : child' = [child EXCEPT ![c] = r]
  /\ Unknown(c)
  /\ UNCHANGED <<log, act, batch, allowed, deleted>>

\* lock_handoff: no action of this preview yet, both rows as they were left,
\* the batch still open and the proposal the committed one.
MayHandOff(c) ==
  /\ SourceLive /\ allowed /\ act[c] = "none" /\ VerifiedPreview(c)
  /\ child[c].st = "pending" /\ ~child[c].bound /\ batch[c] = "open"

HandOff(c) ==
  /\ At(c, "handoff") /\ MayHandOff(c)
  /\ act' = [act EXCEPT ![c] = "pending"]
  /\ child' = [child EXCEPT ![c].bound = TRUE]
  /\ (Goto(c, "wait") \/ Goto(c, "readhandoff"))
  /\ UNCHANGED <<log, batch, allowed, deleted>>

HandOffFails(c) ==
  /\ At(c, "handoff") /\ Goto(c, "readhandoff")
  /\ UNCHANGED <<rows, allowed, deleted>>

\* read_handoff accepts only the action that was to be created.
ReadHandOff(c) ==
  /\ At(c, "readhandoff")
  /\ IF SourceLive /\ act[c] = "pending" /\ child[c].bound THEN Goto(c, "wait") ELSE Unknown(c)
  /\ UNCHANGED <<rows, allowed, deleted>>

(***************************************************************************)
(* Confirmation                                                            *)
(***************************************************************************)

\* _hang_for_confirmation of a direct tool: the action is created under the
\* locks and bound to the row.
SetUp(c) ==
  /\ At(c, "setup") /\ SourceLive /\ log[c].st = "pending" /\ ~log[c].bound
  /\ act' = [act EXCEPT ![c] = "pending"] /\ log' = [log EXCEPT ![c].bound = TRUE]
  /\ (Goto(c, "wait") \/ Goto(c, "setupfailed"))
  /\ UNCHANGED <<child, batch, allowed, deleted>>

SetUpFails(c) ==
  /\ At(c, "setup") /\ Goto(c, "setupfailed")
  /\ UNCHANGED <<rows, allowed, deleted>>

\* _rollback_failed_confirmation_setup, then the fallback write of the row.
SetUpFailed(c) ==
  /\ At(c, "setupfailed") /\ FinishLog(c, "failed") /\ Tell(c, "failed")
  /\ UNCHANGED <<act, batch, allowed, deleted>>

\* _load_prepared_terminal_result
Answer(c) ==
  IF act[c] = "succeeded" THEN "ok"
  ELSE IF act[c] = "failed" /\ call[c].kind = "preview" THEN "unknown" ELSE "failed"

LoadTerminal(c) ==
  /\ At(c, "wait") /\ act[c] \notin Unfinished /\ Tell(c, Answer(c))
  /\ UNCHANGED <<rows, allowed, deleted>>

\* The owner of the action (module PreparedAction): claim, execution, refusal.
Claim(c) ==
  /\ act[c] = "pending" /\ SourceLive /\ allowed
  /\ act' = [act EXCEPT ![c] = "running"]
  /\ UNCHANGED <<call, log, child, batch, allowed, deleted>>

CloseRow(row, st) == IF row.bound THEN [row EXCEPT !.st = st] ELSE row

Settle(c) ==
  /\ \E st \in {"succeeded", "failed", "rejected", "expired"} :
       /\ IF st \in {"succeeded", "failed"} THEN act[c] = "running" ELSE act[c] = "pending"
       /\ act' = [act EXCEPT ![c] = st]
       /\ log' = [log EXCEPT ![c] = CloseRow(@, st)]
       /\ child' = [child EXCEPT ![c] = CloseRow(@, st)]
  /\ ~deleted
  /\ UNCHANGED <<call, batch, allowed, deleted>>

(***************************************************************************)
(* The world                                                               *)
(***************************************************************************)

\* Rows whose outcome is not proved: no action owns them, they are neither a
\* dry run's refusal nor a committed preview.
Unproved(c) ==
  \/ /\ call[c].kind # "read" /\ log[c].st # "none" /\ ~log[c].bound
     /\ log[c].proof = "none"
  \/ child[c].st # "none" /\ ~child[c].bound

Unresolved == \E c \in Call : Unproved(c) \/ act[c] = "running"

DeleteConversation ==
  /\ ~deleted /\ ~Unresolved /\ deleted' = TRUE
  /\ act' = [c \in Call |-> IF act[c] = "pending" THEN "expired" ELSE act[c]]
  /\ log' = [c \in Call |-> IF act[c] = "pending" THEN CloseRow(log[c], "expired") ELSE log[c]]
  /\ child' = [c \in Call |-> IF act[c] = "pending" THEN CloseRow(child[c], "expired") ELSE child[c]]
  /\ UNCHANGED <<call, batch, allowed>>

SwitchAuthority ==
  /\ allowed' = ~allowed
  /\ UNCHANGED <<call, rows, deleted>>

\* The preview token of a batch runs out.
ExpireBatch(c) ==
  /\ batch[c] = "open" /\ batch' = [batch EXCEPT ![c] = "expired"]
  /\ UNCHANGED <<call, log, child, act, allowed, deleted>>

\* The request is cancelled or the process dies: no answer, no clean-up.
Crash(c) ==
  /\ call[c].at \notin {"idle", "done"} /\ Tell(c, "nothing")
  /\ UNCHANGED <<rows, allowed, deleted>>

Next ==
  \/ \E c \in Call :
       \/ Begin(c) \/ Refuse(c) \/ Permit(c) \/ Capacity(c) \/ DryRun(c)
       \/ StartLog(c) \/ RepeatedFailure(c) \/ PassGuard(c) \/ Invoke(c)
       \/ PreviewFieldErrors(c) \/ PreviewFails(c) \/ PreviewCommit(c)
       \/ PreviewCommitLost(c) \/ ReadPreview(c) \/ PreviewEmitted(c)
       \/ StartChild(c) \/ ChildGuard(c) \/ HandOff(c) \/ HandOffFails(c)
       \/ ReadHandOff(c) \/ SetUp(c) \/ SetUpFails(c) \/ SetUpFailed(c)
       \/ LoadTerminal(c) \/ Claim(c) \/ Settle(c) \/ ExpireBatch(c) \/ Crash(c)
  \/ DeleteConversation \/ SwitchAuthority

Spec == Init /\ [][Next]_vars

(***************************************************************************)
(* Properties                                                              *)
(***************************************************************************)

\* Deletion closes the conversation's business: whatever calls were under way
\* between their dry run, audit row, preview, hand-off and confirmation, no
\* batch, no audit row and no action appears in it or moves afterwards.
DeletedIsClosed ==
  deleted => /\ \A c \in Call : batch[c] = "none" => batch'[c] = "none"
             /\ act' = act
             /\ \A c \in Call : log[c].st = "none" => log'[c].st = "none"

\* The answer of an import preview is true of what was committed, although
\* the reply of either COMMIT may be lost and the row's last write may fail:
\* a plain failure means that no batch was left behind or that the user or
\* the clock refused the execution, a success that the batch exists and, when
\* execution was asked for, that the action succeeded.
PreviewAnswerIsTrue ==
  \A c \in Call : (call[c].kind = "preview" /\ ~call[c].inj) =>
    /\ call[c].told = "failed" => batch[c] = "none" \/ act[c] \in {"rejected", "expired"}
    /\ call[c].told = "ok" => /\ batch[c] # "none"
                              /\ call[c].go => act[c] = "succeeded"
=============================================================================
