---------------------------- MODULE ResumeStream ----------------------------
(***************************************************************************)
(* GET /ai/chat/resume: a client whose stream broke asks again for the     *)
(* result of one confirmation.  PostgreSQL holds the action, Redis only    *)
(* the hot hand-off and the lock of the stream that took the wait over.    *)
(* A resume never executes the tool: it settles an interrupted execution   *)
(* by reconciliation, expires a proposal nobody answers, replays a settled *)
(* fact, or says that the outcome is unknown and leaves a notice in the    *)
(* conversation.  Meanwhile POST /ai/confirm decides, executes, projects   *)
(* and notifies, its process dies, the sweeper fences what it left, and    *)
(* keys expire.                                                            *)
(*                                                                         *)
(* PreparedAction has the execution and its reconciliation in detail; here *)
(* an action is its status, whether somebody approved it, and whether its  *)
(* receipt is in the turn.                                                 *)
(***************************************************************************)
EXTENDS Naturals

CONSTANTS Resume   \* concurrent resume requests for one confirmation

VARIABLES
    mode,      \* AI_HITL_MODE = "memory"; the tool is in DB_TOOLS or FILE_TOOLS
    act,       \* status of the action
    approved,  \* its confirmation was accepted
    alive,     \* a confirm request executes it
    shown,     \* its receipt is in the assistant message
    notice,    \* the notice of an unknown outcome is
    hot,       \* the envelope in Redis: "open", "woken" or "gone"
    window,    \* of the confirmation: 60 s left or more, less, none
    lock,      \* owner of the resume lock, or 0
    guard,     \* the run of the action holds the guard of the conversation
    req,       \* the requests: step, status read first
    told       \* results shown to clients

vars == <<mode, act, approved, alive, shown, notice, hot, window, lock, guard, req, told>>
db  == <<act, approved, alive, shown, notice>>
cache == <<hot, window, lock, guard>>

Cancelled == {"rejected", "expired"}
Finished  == {"succeeded", "failed"}
Terminal  == Cancelled \cup Finished

\* _requires_completion_proof, by the status that was read.
NeedsProof(st) == mode.write /\ st \in {"running"} \cup Finished

Init ==
    /\ mode \in [memory : BOOLEAN, write : BOOLEAN]
    /\ act = "pending" /\ approved = FALSE /\ alive = FALSE
    /\ shown = FALSE /\ notice = FALSE
    /\ hot = "open" /\ window = "long" /\ lock = 0 /\ guard = TRUE
    /\ req = [r \in Resume |-> [pc |-> "idle", saw |-> "none"]]
    /\ told = {}

To(r, pc) == req' = [req EXCEPT ![r].pc = pc]

-----------------------------------------------------------------------------
(* POST /ai/confirm, the sweeper and the clock *)

Approve ==
    /\ act = "pending" /\ window # "over"
    /\ act' = "running" /\ approved' = TRUE /\ alive' = TRUE
    /\ UNCHANGED <<mode, shown, notice, cache, req, told>>

\* A decision against it, or its expiry, is committed with its receipt.
Cancel ==
    /\ act = "pending"
    /\ act' = IF window = "over" THEN "expired" ELSE "rejected"
    /\ shown' = TRUE /\ notice' = FALSE
    /\ UNCHANGED <<mode, approved, alive, cache, req, told>>

\* The receipt of a read is committed with its status, that of a write later.
Settle ==
    /\ act = "running" /\ alive
    /\ act' \in Finished /\ alive' = FALSE
    /\ shown' = ~mode.write
    /\ notice' = (notice /\ mode.write)
    /\ UNCHANGED <<mode, approved, cache, req, told>>

Crash ==
    /\ alive /\ alive' = FALSE
    /\ UNCHANGED <<mode, act, approved, shown, notice, cache, req, told>>

\* The sweeper fences an execution nobody carries on.
Fence ==
    /\ act = "running" /\ ~alive
    /\ act' = "failed"
    /\ UNCHANGED <<mode, approved, alive, shown, notice, cache, req, told>>

\* finalize_prepared_action: the receipt replaces the notice.
Project ==
    /\ act \in Terminal /\ ~shown
    /\ shown' = TRUE /\ notice' = FALSE
    /\ UNCHANGED <<mode, act, approved, alive, cache, req, told>>

\* The waiters are told; without any the hand-off is cleaned up.
Notify ==
    /\ act \in Terminal /\ shown /\ hot = "open"
    /\ \/ hot' = "woken" /\ UNCHANGED guard
       \/ hot' = "gone" /\ guard' = FALSE
    /\ UNCHANGED <<mode, db, window, lock, req, told>>

Tick ==
    /\ window # "over"
    /\ window' = IF window = "long" THEN "short" ELSE "over"
    /\ UNCHANGED <<mode, db, hot, lock, guard, req, told>>

HotExpires ==
    /\ window = "over" /\ hot # "gone" /\ hot' = "gone"
    /\ UNCHANGED <<mode, db, window, lock, guard, req, told>>

\* The lock lives 60 s, the wait it covers up to the whole window.
LockExpires ==
    /\ lock # 0 /\ lock' = 0
    /\ UNCHANGED <<mode, db, hot, window, guard, req, told>>

-----------------------------------------------------------------------------
(* The request *)

Start(r) ==
    /\ req[r].pc = "idle"
    /\ req' = [req EXCEPT ![r] = [pc |-> IF NeedsProof(act) THEN "reconcile" ELSE "open", saw |-> act]]
    /\ UNCHANGED <<mode, db, cache, told>>

\* reconcile_prepared_completion: a proved fact, a fenced orphan, or unknown (a
\* live execution, a lost lock race, a spent budget).
Reconcile(r) ==
    /\ req[r].pc = "reconcile"
    /\ \/ act \in Terminal /\ To(r, "load") /\ UNCHANGED act
       \/ act = "running" /\ ~alive /\ act' = "failed" /\ To(r, "load")
       \/ To(r, "notice") /\ UNCHANGED act
    /\ UNCHANGED <<mode, approved, alive, shown, notice, cache, told>>

\* Without the permission to chat or to see the result: the bare status; a
\* cancellation is named only when it is proved.
Minimal(r) ==
    /\ req[r].pc \in {"load", "notice", "open"}
    /\ To(r, "done")
    /\ \/ told' = told \cup (IF act \in Terminal THEN {act} ELSE {})
       \/ UNCHANGED told
    /\ UNCHANGED <<mode, db, cache>>

\* Faulty variant: the notice is written for the status read before.
NoticeBlind == TRUE

\* finalize_assistant_turn reads the facts again under the conversation lock: a
\* settled action turns the notice into its receipt.
NoticeStands == act \notin Terminal

\* _persist_unknown_resume_notice: an optional display; the client is told that
\* the outcome is unknown either way.
PersistNotice(r) ==
    /\ req[r].pc = "notice"
    /\ \/ notice' = NoticeStands /\ shown' = (shown \/ ~NoticeStands)
       \/ UNCHANGED <<notice, shown>>
    /\ To(r, "done")
    /\ UNCHANGED <<mode, act, approved, alive, cache, told>>

\* The rest of the checks before a wait: a settled action is replayed, a hand-off
\* that is gone, decided or about to close is refused, one stream waits.
Open(r) ==
    /\ req[r].pc = "open"
    /\ \/ req[r].saw \in Terminal /\ To(r, "load") /\ UNCHANGED lock
       \/ /\ req[r].saw \notin Terminal
          /\ hot # "open" \/ window # "long" \/ lock # 0
          /\ To(r, "done") /\ UNCHANGED lock
       \/ /\ req[r].saw \notin Terminal
          /\ hot = "open" /\ window = "long" /\ lock = 0
          /\ lock' = r /\ To(r, "wait")
    /\ UNCHANGED <<mode, db, hot, window, guard, told>>

\* Memory mode polls the database, the other waits for the wake-up.
Observe(r) ==
    /\ req[r].pc = "wait"
    /\ IF mode.memory THEN act \in Terminal ELSE hot = "woken"
    /\ To(r, "load")
    /\ UNCHANGED <<mode, db, cache, told>>

\* The window closed, or Redis failed (hang).
GiveUp(r) ==
    /\ req[r].pc = "wait"
    /\ window = "over" \/ ~mode.memory
    /\ To(r, "expire")
    /\ UNCHANGED <<mode, db, cache, told>>

\* Faulty variant: what was pending when the wait began is expired.
StillPendingWhenRead(r) == req[r].saw = "pending"

\* Under the lock of the conversation, with a CAS on status and version.
StillPending(r) == act = "pending"

\* _terminalize_durable_resume_failure.
ExpireUnanswered(r) ==
    /\ req[r].pc = "expire"
    /\ IF StillPending(r)
         THEN /\ act' = "expired" /\ shown' = TRUE /\ notice' = FALSE
              /\ To(r, "load")
         ELSE /\ To(r, IF act = "running" THEN "free" ELSE "load")
              /\ UNCHANGED <<act, shown, notice>>
    /\ UNCHANGED <<mode, approved, alive, cache, told>>

\* lock_terminal, lock_unexecuted_terminal: action, log and context agree on the
\* end of it.
Proved == act \in Terminal

\* _load_durable_resume_terminal: the fact read under its lock, or (an error, a
\* timeout, a projection that is not allowed) nothing about it.
Load(r) ==
    /\ req[r].pc = "load"
    /\ \/ Proved /\ told' = told \cup {act}
       \/ UNCHANGED told
    /\ To(r, "clean")
    /\ UNCHANGED <<mode, db, cache>>

\* _cleanup_durable_resume reads the action again; guard and envelope go when it
\* is settled.
CleanUp(r) ==
    /\ req[r].pc = "clean"
    /\ \/ Proved /\ guard' = FALSE /\ hot' = "gone"
       \/ UNCHANGED <<guard, hot>>
    /\ To(r, "free")
    /\ UNCHANGED <<mode, db, window, lock, told>>

FreeLock(r) ==
    /\ req[r].pc = "free"
    /\ lock' = IF lock = r THEN 0 ELSE lock
    /\ To(r, "done")
    /\ UNCHANGED <<mode, db, hot, window, guard, told>>

\* The client leaves its stream.
Leave(r) ==
    /\ req[r].pc \in {"wait", "expire", "load", "clean"}
    /\ To(r, "free")
    /\ UNCHANGED <<mode, db, cache, told>>

\* The client asks again.
Again(r) ==
    /\ req[r].pc = "done" /\ To(r, "idle")
    /\ UNCHANGED <<mode, db, cache, told>>

Next ==
    \/ Approve \/ Cancel \/ Settle \/ Crash \/ Fence \/ Project \/ Notify
    \/ Tick \/ HotExpires \/ LockExpires
    \/ \E r \in Resume :
         \/ Start(r) \/ Reconcile(r) \/ Minimal(r) \/ PersistNotice(r) \/ Open(r)
         \/ Observe(r) \/ GiveUp(r) \/ ExpireUnanswered(r) \/ Load(r) \/ CleanUp(r)
         \/ FreeLock(r) \/ Leave(r) \/ Again(r)

Spec == Init /\ [][Next]_vars

-----------------------------------------------------------------------------
\* A result a resume shows is the result for good, and a stream that gives up
\* never closes a confirmation somebody has accepted meanwhile
\* (_terminalize_durable_resume_failure, _load_durable_resume_terminal).
ResumedIsTrue ==
    /\ told \subseteq {act}
    /\ act \in Cancelled => ~approved

\* The notice of an unknown outcome, written in a transaction of its own long
\* after the status was read, never stands beside the receipt
\* (_persist_unknown_resume_notice against finalize_prepared_action).
NoticeYieldsToReceipt == ~(notice /\ shown)
=============================================================================
