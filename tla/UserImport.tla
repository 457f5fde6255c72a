----------------------------- MODULE UserImport -----------------------------
(***************************************************************************)
(* User import: preview, execution, cancellation, expiry and retention of  *)
(* one batch, run by concurrent requests and cron tasks, over the users    *)
(* its rows are about (src/app/modules/system/service/                     *)
(* user_import_service.py, user_import_state.py,                           *)
(* transfer_cleanup_service.py and the callers in api/user.py,             *)
(* ai_tools/user_transfer.py, tasks/user_cleanup_tasks.py).                *)
(*                                                                         *)
(* Row r of the file is about user r.  An execution is ONE transaction:    *)
(* its compare-and-set to RUNNING holds the batch row until the commit, so *)
(* RUNNING is never visible outside it; inside, rows and chunks are        *)
(* savepoints.  Files and the Redis entry are outside every transaction.   *)
(***************************************************************************)
EXTENDS Integers, Sequences, FiniteSets

CONSTANTS Request,      \* HTTP requests, AI executions and cron tasks
          Rows,         \* rows of the file
          ChunkSize,    \* USER_IMPORT_CHUNK_SIZE
          MaxDrift      \* bound: changes of departments and roles

Row == 1..Rows
None == "none"
Ended == {"SUCCESS", "PARTIAL_SUCCESS", "FAILED"}
Terminal == Ended \cup {"EXPIRED", "CANCELLED"}
Modes == {"skip", "overwrite", "fail_fast"}
Syncs == {"CREATE_ONLY", "UPDATE_PROFILE"}

VARIABLES
  batch,   \* the committed batch row
  users,   \* committed users: absent, named or numbered (an existing user
           \* matched by name or by employee number), created or updated
           \* (by this import)
  facts,   \* what a row's department and role resolve to for the operator
  drifts,  \* number of changes of facts so far
  files,   \* owned artifacts that exist
  op,      \* the AI operation bound to the batch: none, open,
           \* running or settled
  lock,    \* the transaction that holds the batch row
  pc, tx   \* control state and private state of each request

vars == <<batch, users, facts, drifts, files, op, lock, pc, tx>>

NoTx == [mode |-> None, sync |-> None, facts |-> <<>>, users |-> <<>>,
         todo |-> <<>>, pos |-> 0, done |-> {}, chunk |-> {},
         success |-> 0, over |-> 0, skipped |-> 0, failed |-> 0, bind |-> {}]

NoBatch == [status |-> "NONE", channel |-> None, age |-> 0, success |-> 0,
            over |-> 0, skipped |-> 0, failed |-> 0, errors |-> None]

Init ==
  /\ batch = NoBatch
  /\ users \in [Row -> {"absent", "named", "numbered"}]
  /\ facts = [r \in Row |-> "ok"] /\ drifts = 0
  /\ files = {} /\ op = None /\ lock = None
  /\ pc = [q \in Request |-> "idle"] /\ tx = [q \in Request |-> NoTx]

Goto(q, at) == pc' = [pc EXCEPT ![q] = at]
End(q) == Goto(q, "idle") /\ tx' = [tx EXCEPT ![q] = NoTx]

(***************************************************************************)
(* Preview                                                                 *)
(***************************************************************************)

\* dry_run_import_users and the caller's commit: CREATED and PREVIEW_DONE are
\* written by one transaction.  A failure rolls it back as a whole.
HttpPreview(q) ==
  /\ pc[q] = "idle" /\ batch.status = "NONE"
  /\ batch' = [batch EXCEPT !.status = "PREVIEW_DONE", !.channel = "http"]
  /\ UNCHANGED <<users, facts, drifts, files, op, lock, pc, tx>>

\* user_import_preview: the same, with the source kept as an owned artifact
\* and a prepared action that awaits its confirmation.
AiPreview(q) ==
  /\ pc[q] = "idle" /\ batch.status = "NONE"
  /\ batch' = [batch EXCEPT !.status = "PREVIEW_DONE", !.channel = "ai"]
  /\ files' = files \cup {"source"} /\ op' = "open"
  /\ UNCHANGED <<users, facts, drifts, lock, pc, tx>>

(***************************************************************************)
(* Execution                                                               *)
(***************************************************************************)

\* The compare-and-set of _transition_batch_status: it waits for the holder
\* of the row and then compares the committed status.
Claimable(from) == lock = None /\ batch.status = from

\* import_users with dry_run = false.
HttpExecute(q, mode, sync) ==
  /\ pc[q] = "idle" /\ batch.channel = "http" /\ Claimable("PREVIEW_DONE")
  /\ lock' = q /\ Goto(q, "resolve")
  /\ tx' = [tx EXCEPT ![q].mode = mode, ![q].sync = sync]
  /\ UNCHANGED <<batch, users, facts, drifts, files, op>>

\* user_import_execute, run by the one claim of the confirmed action, reads
\* batch and source before the compare-and-set.
AiExecute(q, mode, sync) ==
  /\ pc[q] = "idle" /\ batch.channel = "ai" /\ op = "open"
  /\ "source" \in files
  /\ op' = "running" /\ Goto(q, "ready")
  /\ tx' = [tx EXCEPT ![q].mode = mode, ![q].sync = sync]
  /\ UNCHANGED <<batch, users, facts, drifts, files, lock>>

AiClaim(q) ==
  /\ pc[q] = "ready" /\ Claimable("PREVIEW_DONE")
  /\ lock' = q /\ Goto(q, "resolve")
  /\ UNCHANGED <<batch, users, facts, drifts, files, op, tx>>

\* First half of _lock_import_authorization_targets: references are resolved
\* before anything is locked.
Resolve(q) ==
  /\ pc[q] = "resolve"
  /\ tx' = [tx EXCEPT ![q].facts = facts, ![q].users = users]
  /\ Goto(q, "locking")
  /\ UNCHANGED <<batch, users, facts, drifts, files, op, lock>>

\* _classify_records and the routing of existing rows.
Exists(t) == {r \in Row : t.facts[r] = "ok" /\ t.users[r] # "absent"}
ByNumber(t) == {r \in Exists(t) : t.users[r] = "numbered"}
New(t) == {r \in Row : t.facts[r] = "ok" /\ t.users[r] = "absent"}

Rejected(t) ==
  {r \in Row : t.facts[r] # "ok"}
  \cup (IF t.sync = "CREATE_ONLY" THEN ByNumber(t) ELSE {})
  \cup (IF t.mode = "fail_fast" THEN Exists(t) \ ByNumber(t) ELSE {})

Overwrites(t) ==
  (IF t.sync = "CREATE_ONLY" THEN {} ELSE ByNumber(t))
  \cup (IF t.mode = "overwrite" THEN Exists(t) \ ByNumber(t) ELSE {})

\* Rows in the order of the file.
InOrder(S) ==
  LET n == Cardinality(S) IN
  CHOOSE s \in [1..n -> S] : \A i, j \in 1..n : i < j => s[i] < s[j]

\* The rows to write (creations first), the skipped and the failed ones.
Plan(t) ==
  LET stopped == t.mode = "fail_fast" /\ Rejected(t) # {}
      outside == \E r \in Row : t.facts[r] = "outside"
  IN [t EXCEPT
        !.todo = IF stopped \/ outside THEN <<>>
                 ELSE InOrder(New(t)) \o InOrder(Overwrites(t)),
        !.skipped = IF t.mode = "skip" THEN Cardinality(Exists(t) \ ByNumber(t))
                    ELSE 0,
        !.failed = IF stopped THEN Rows ELSE Cardinality(Rejected(t))]

\* Second half: the targets are locked, resolved again and classified.
LockTargets(q) ==
  /\ pc[q] = "locking"
  /\ tx[q].facts = facts /\ tx[q].users = users
  /\ tx' = [tx EXCEPT ![q] = Plan(@)]
  /\ Goto(q, "rows")
  /\ UNCHANGED <<batch, users, facts, drifts, files, op, lock>>

ChunkStart(t) == (t.pos \div ChunkSize) * ChunkSize
Creates(t, r) == t.users[r] = "absent"

\* The next row is over; the chunk's savepoint is released with its last row.
Advance(t, wrote) ==
  LET n == t.pos + 1
      whole == n % ChunkSize = 0 \/ n = Len(t.todo)
  IN [t EXCEPT !.pos = n,
        !.done = IF whole THEN @ \cup t.chunk \cup wrote ELSE @,
        !.chunk = IF whole THEN {} ELSE @ \cup wrote]

\* _process_create_row and _process_overwrite_row in the row's savepoint.
WriteRow(q) ==
  /\ pc[q] = "rows" /\ tx[q].pos < Len(tx[q].todo)
  /\ LET t == tx[q]
         r == t.todo[t.pos + 1]
     IN /\ Creates(t, r) => users[r] = "absent"
        /\ tx' = [tx EXCEPT ![q] =
             [Advance(t, {r}) EXCEPT
                !.success = t.success + (IF Creates(t, r) THEN 1 ELSE 0),
                !.over = t.over + (IF Creates(t, r) THEN 0 ELSE 1)]]
  /\ UNCHANGED <<batch, users, facts, drifts, files, op, lock, pc>>

\* A recoverable error, such as a name somebody else took meanwhile.
RefuseRow(q) ==
  /\ pc[q] = "rows" /\ tx[q].pos < Len(tx[q].todo)
  /\ tx[q].mode # "fail_fast"
  /\ LET t == tx[q]
         r == t.todo[t.pos + 1]
     IN /\ users[r] # "absent"
        /\ tx' = [tx EXCEPT ![q] = [Advance(t, {}) EXCEPT !.failed = t.failed + 1]]
  /\ UNCHANGED <<batch, users, facts, drifts, files, op, lock, pc>>

\* Mutant: only the chunk of the error is rolled back, in a strict batch too.
AbortedChunkOnly(t) ==
  [t EXCEPT !.chunk = {}, !.pos = Len(t.todo),
            !.failed = @ + Len(t.todo) - ChunkStart(t)]

\* What is left of the transaction after a fatal error, or any error of a
\* strict batch: the chunk is rolled back and the rest of the file is given
\* up; a strict batch is undone as a whole and its counts are reset.
Aborted(t) ==
  IF t.mode = "fail_fast"
  THEN [t EXCEPT !.done = {}, !.chunk = {}, !.success = 0, !.over = 0,
                 !.skipped = 0, !.failed = Len(t.todo), !.pos = Len(t.todo)]
  ELSE [t EXCEPT !.chunk = {}, !.pos = Len(t.todo),
                 !.failed = @ + Len(t.todo) - ChunkStart(t)]

AbortRows(q) ==
  /\ pc[q] = "rows" /\ tx[q].pos < Len(tx[q].todo)
  /\ tx' = [tx EXCEPT ![q] = Aborted(@)]
  /\ UNCHANGED <<batch, users, facts, drifts, files, op, lock, pc>>

\* The list of failed rows is published before the transaction commits.
SaveErrors(q) ==
  /\ pc[q] = "rows" /\ tx[q].pos = Len(tx[q].todo)
  /\ files' = IF tx[q].failed > 0 /\ batch.channel = "ai"
              THEN files \cup {"errors"} ELSE files
  /\ Goto(q, "commit")
  /\ UNCHANGED <<batch, users, facts, drifts, op, lock, tx>>

\* Mutant: a batch that wrote somebody is a success.
EndStatusByWrites(t) ==
  IF t.failed = 0 \/ t.success + t.over > 0 THEN "SUCCESS" ELSE "FAILED"

\* _determine_end_status
EndStatus(t) ==
  IF t.failed = 0 THEN "SUCCESS"
  ELSE IF t.success + t.over > 0 THEN "PARTIAL_SUCCESS" ELSE "FAILED"

\* The final compare-and-set and the commit of API or atomic execution.
CommitRun(q) ==
  /\ pc[q] = "commit"
  /\ LET t == tx[q] IN
       /\ batch' = [batch EXCEPT !.status = EndStatus(t), !.success = t.success,
            !.over = t.over, !.skipped = t.skipped, !.failed = t.failed,
            !.errors = IF t.failed = 0 THEN None
                       ELSE IF batch.channel = "ai" THEN "owned" ELSE "plain"]
       /\ users' = [r \in Row |-> IF r \notin t.done THEN users[r]
                                  ELSE IF Creates(t, r) THEN "created"
                                  ELSE "updated"]
  /\ op' = IF op = "running" THEN "settled" ELSE op
  /\ lock' = None /\ End(q)
  /\ UNCHANGED <<facts, drifts, files>>

\* Drift of the snapshot, an authorization error, a lost connection or a
\* crash: everything but the files is undone.
RollBack(q) ==
  /\ pc[q] \in {"ready", "resolve", "locking", "rows", "commit"}
  /\ op' = IF op = "running" THEN "settled" ELSE op
  /\ lock' = IF lock = q THEN None ELSE lock
  /\ End(q)
  /\ UNCHANGED <<batch, users, facts, drifts, files>>

(***************************************************************************)
(* Cancellation, expiry and retention                                      *)
(***************************************************************************)

\* The artifacts the batch row refers to (cleanup_resource).
Bound == (IF batch.channel = "ai" THEN {"source"} ELSE {})
         \cup (IF batch.errors = "owned" THEN {"errors"} ELSE {})

Unresolved == op \in {"open", "running"}

\* guard_cleanup_rows: every file has an owner, no operation is unresolved.
Cleanable == batch.errors # "plain" /\ Bound \subseteq files /\ ~Unresolved

Due(kind) ==
  CASE kind = "cancel" -> batch.status = "PREVIEW_DONE"
    [] kind = "expire" -> batch.status = "PREVIEW_DONE" /\ batch.age >= 1
    [] kind = "purge"  -> batch.status \in Terminal /\ batch.age >= 2

\* Mutant: the files are deleted before the new status is committed.
StartWithFiles(q, kind) ==
  /\ pc[q] = "idle" /\ Due(kind) /\ Cleanable
  /\ Goto(q, kind) /\ tx' = [tx EXCEPT ![q].bind = Bound]
  /\ files' = files \ Bound
  /\ UNCHANGED <<batch, users, facts, drifts, op, lock>>

\* cancel_batch, cleanup_expired_previews and cleanup_expired_batches up to
\* the lock: the row is read without it, and so may be out of date.
StartCleanup(q, kind) ==
  /\ pc[q] = "idle" /\ Due(kind) /\ Cleanable
  /\ Goto(q, kind) /\ tx' = [tx EXCEPT ![q].bind = Bound]
  /\ UNCHANGED <<batch, users, facts, drifts, files, op, lock>>

\* lock_cleanup_row and the second look at the status.
StillDue(q, kind) == lock = None /\ Bound = tx[q].bind /\ Cleanable /\ Due(kind)

CommitCleanup(q, kind) ==
  /\ pc[q] = kind /\ StillDue(q, kind)
  /\ batch' = IF kind = "purge" THEN [NoBatch EXCEPT !.status = "DELETED"]
              ELSE [batch EXCEPT !.status = IF kind = "cancel" THEN "CANCELLED"
                                            ELSE "EXPIRED"]
  /\ Goto(q, "drain")
  /\ UNCHANGED <<users, facts, drifts, files, op, lock, tx>>

DropCleanup(q, kind) ==
  /\ pc[q] = kind /\ lock = None /\ ~StillDue(q, kind)
  /\ End(q)
  /\ UNCHANGED <<batch, users, facts, drifts, files, op, lock>>

\* finish_committed_cleanup, after the commit and under fresh locks.
DrainCleanup(q) ==
  /\ pc[q] = "drain" /\ lock = None
  /\ files' = IF batch.status \in {"CANCELLED", "EXPIRED", "DELETED"} /\ ~Unresolved
              THEN files \ tx[q].bind ELSE files
  /\ End(q)
  /\ UNCHANGED <<batch, users, facts, drifts, op, lock>>

\* The deletion fails or its process dies: private bytes are retained.
AbandonDrain(q) ==
  /\ pc[q] = "drain" /\ End(q)
  /\ UNCHANGED <<batch, users, facts, drifts, files, op, lock>>

(***************************************************************************)
(* Environment                                                             *)
(***************************************************************************)

\* The confirmation is rejected or expires.
DeclineAction ==
  /\ op = "open"
  /\ op' = "settled"
  /\ UNCHANGED <<batch, users, facts, drifts, files, lock, pc, tx>>

\* A user is added by hand.  The unique index makes the insertion wait for a
\* transaction that has inserted the same name.
AddUser(r) ==
  /\ users[r] = "absent"
  /\ \A q \in Request : r \notin tx[q].done \cup tx[q].chunk
  /\ users' = [users EXCEPT ![r] = "named"]
  /\ UNCHANGED <<batch, facts, drifts, files, op, lock, pc, tx>>

\* Departments and roles change, unless an import holds its targets.
Drift(r, f) ==
  /\ drifts < MaxDrift /\ f # facts[r]
  /\ \A q \in Request : pc[q] \notin {"rows", "commit"}
  /\ facts' = [facts EXCEPT ![r] = f] /\ drifts' = drifts + 1
  /\ UNCHANGED <<batch, users, files, op, lock, pc, tx>>

\* Ten minutes, then ninety days, pass.
Age ==
  /\ batch.status \notin {"NONE", "DELETED"} /\ batch.age < 2
  /\ batch' = [batch EXCEPT !.age = @ + 1]
  /\ UNCHANGED <<users, facts, drifts, files, op, lock, pc, tx>>

Execution(q) ==
  \/ \E m \in Modes, s \in Syncs : HttpExecute(q, m, s) \/ AiExecute(q, m, s)
  \/ AiClaim(q) \/ Resolve(q) \/ LockTargets(q)
  \/ WriteRow(q) \/ RefuseRow(q) \/ AbortRows(q)
  \/ SaveErrors(q) \/ CommitRun(q) \/ RollBack(q)

Cleanup(q) ==
  \/ \E k \in {"cancel", "expire", "purge"} :
       StartCleanup(q, k) \/ CommitCleanup(q, k) \/ DropCleanup(q, k)
  \/ DrainCleanup(q) \/ AbandonDrain(q)

Next ==
  \/ \E q \in Request : HttpPreview(q) \/ AiPreview(q) \/ Execution(q) \/ Cleanup(q)
  \/ \E r \in Row : AddUser(r) \/ \E f \in {"ok", "conflict", "outside"} : Drift(r, f)
  \/ DeclineAction \/ Age

Spec == Init /\ [][Next]_vars
(***************************************************************************)
(* Properties                                                              *)
(***************************************************************************)

Created == {r \in Row : users[r] = "created"}
Updated == {r \in Row : users[r] = "updated"}
Written == Created \cup Updated

\* A batch that is refused, cancelled, expired or failed has written nobody,
\* and one recorded as SUCCESS has left no row of its file without a user
\* (the status is decided from counters, the users by savepoints; names are
\* taken and previews cancelled while the file is written).
RecordMatchesUsers ==
  /\ Written # {} => batch.status \in {"SUCCESS", "PARTIAL_SUCCESS", "DELETED"}
  /\ batch.status = "SUCCESS" => \A r \in Row : users[r] # "absent"

\* A strict batch (fail_fast) writes the whole file or nothing, across its
\* chunks, and its counters say which.  The transaction is looked at when its
\* rows are over.
StrictIsWhole ==
  \A q \in Request :
    pc[q] = "commit" /\ tx[q].mode = "fail_fast" =>
      /\ tx[q].done \in {{}, Row}
      /\ tx[q].success + tx[q].over = Cardinality(tx[q].done)

\* Files outlive their use: the source of a batch that is not cancelled,
\* expired or deleted, and the list of failed rows a batch refers to, are
\* never removed by a clean-up that started from an older state of the row.
FilesOutliveUse ==
  /\ batch.status \in {"PREVIEW_DONE"} \cup Ended => Bound \subseteq files

\* What src/app/modules/system/service/user_import_service.py:1309 says of a
\* fatal error: the whole current chunk is marked failed.  Hence the recorded
\* successes are the users the batch wrote.
\* The code does not meet it (README, "Where documents and code part").
CountsAreTrue ==
  batch.status \in Ended =>
    /\ batch.success = Cardinality(Created)
    /\ batch.over = Cardinality(Updated)
=============================================================================
