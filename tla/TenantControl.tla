--------------------------- MODULE TenantControl ---------------------------
(***************************************************************************)
(* The platform control plane over tenants: prepare, bootstrap, activate   *)
(* and disable a tenant (a system super administrator's requests), purge   *)
(* old tenant logs (a platform principal's request) and replace a          *)
(* principal's permissions (the maintenance command).  Every request       *)
(* writes an authorization intent in a transaction of its own, does its    *)
(* business in the request's transaction and leaves a completion record.   *)
(*                                                                         *)
(* Abstracted: names, passwords and models are one request body, compared  *)
(* by the fingerprint; the tenant's seeded rows are a mark per module that *)
(* says whether they are absent, as seeded, or changed since.  Advisory    *)
(* locks and row locks are held until the transaction ends.                *)
(***************************************************************************)
EXTENDS Naturals, Sequences, FiniteSets

CONSTANTS Request,      \* slots of concurrent requests
          Tenant,       \* tenant ids, positive numbers
          Key,          \* idempotency keys
          Body,         \* request bodies, one tenant code each
          MaxRequests,  \* bound: requests ever submitted
          MaxOld        \* bound: expired log rows of a tenant

VARIABLES
  tenant,     \* sys_tenant and the rows bootstrap seeds for it
  old,        \* tenant log rows older than the retention cutoff
  principal,  \* the platform principal: version and retention permission
  req,        \* the live requests
  held,       \* locks each request's transaction holds
  audit,      \* the audit records of each live request
  did,        \* history: the request's business transaction committed
  submitted   \* requests submitted so far
vars == <<tenant, old, principal, req, held, audit, did, submitted>>

None == "none"
NoTenant == 0
Cli == {"replace"}
Platform == {"purge"}   \* authenticated by a platform token

Absent == [life |-> "absent", key |-> None, body |-> None, bootKey |-> None,
           bootBody |-> None, system |-> "none", ai |-> "none"]

Idle == [pc |-> "idle", kind |-> None, key |-> None, body |-> None,
         target |-> NoTenant, seen |-> 0, expected |-> 0, locks |-> 0, why |-> None]

Asks ==
  [kind : {"prepare"}, key : Key, body : Body, target : {NoTenant}]
  \cup [kind : {"bootstrap"}, key : Key, body : Body, target : Tenant]
  \cup [kind : {"activate", "disable"}, key : {None}, body : {None}, target : Tenant]
  \cup [kind : {"purge"}, key : {None}, body : {None}, target : Tenant]
  \cup [kind : {"replace"}, key : {None}, body : {None}, target : {NoTenant}]

Init ==
  /\ tenant = [t \in Tenant |-> Absent]
  /\ old = [t \in Tenant |-> 0]
  /\ principal = [version |-> 1, may |-> TRUE]
  /\ req = [r \in Request |-> Idle]
  /\ held = [r \in Request |-> {}]
  /\ audit = [r \in Request |-> {}]
  /\ did = [r \in Request |-> FALSE]
  /\ submitted = 0

Share == <<"share", 0>>
Principal == <<"principal", 0>>
Row(t) == <<"row", t>>

\* FOR SHARE on the principal's row conflicts with FOR UPDATE on it only.
Free(r, lock) ==
  \A q \in Request \ {r} :
    /\ lock # Share => lock \notin held[q]
    /\ lock = Share => Principal \notin held[q]
    /\ lock = Principal => Share \notin held[q]

(* ----- one request ------------------------------------------------------ *)

\* What a retention preview counts, and what a purge counts again.
Retained(t) == old[t]
Preview(ask) == IF ask.kind = "purge" THEN Retained(ask.target) ELSE 0

\* A request arrives.  A purge carries a token that names the principal's
\* version and the count its preview gave for the tenant.
Submit(r) ==
  /\ req[r].pc = "idle" /\ submitted < MaxRequests
  /\ \E ask \in Asks :
       req' = [req EXCEPT ![r] = [Idle EXCEPT !.pc = "resolve", !.kind = ask.kind,
         !.key = ask.key, !.body = ask.body, !.target = ask.target,
         !.seen = principal.version,
         !.expected = Preview(ask)]]
  /\ submitted' = submitted + 1
  /\ UNCHANGED <<tenant, old, principal, held, audit, did>>

Unused == Tenant \ ({t \in Tenant : tenant[t].life # "absent"}
                    \cup {req[q].target : q \in Request})
Prepared(key) == {t \in Tenant : tenant[t].key = key}

\* The lock that serializes the choice of a target with the business of the
\* requests that carry the same key.
\* mutant: two first-seen retries choose their targets side by side
UnlockedTarget(r) == {}
TargetLock(r) == {<<"key", req[r].key>>}

ResolveTarget(r) ==
  /\ req[r].pc = "resolve" /\ req[r].kind = "prepare"
  /\ \A lock \in TargetLock(r) : Free(r, lock)
  /\ \E t \in IF Prepared(req[r].key) # {} THEN Prepared(req[r].key)
              ELSE {u \in Unused : \A v \in Unused : u <= v} :
       req' = [req EXCEPT ![r].pc = "authorize", ![r].target = t]
  /\ held' = [held EXCEPT ![r] = TargetLock(r)]
  /\ UNCHANGED <<tenant, old, principal, audit, did, submitted>>

\* The row lock the platform token's check takes on the principal.
\* mutant: the principal is only read
UnlockedPrincipal(r) == {}
PrincipalLock(r) == {Share}

\* A stale token ends the request before anything is recorded.
CheckToken(r) ==
  /\ req[r].pc = "resolve" /\ req[r].kind \in Platform
  /\ \A lock \in PrincipalLock(r) : Free(r, lock)
  /\ IF req[r].seen = principal.version
       THEN /\ req' = [req EXCEPT ![r].pc = "authorize"]
            /\ held' = [held EXCEPT ![r] = PrincipalLock(r)]
       ELSE /\ req' = [req EXCEPT ![r] = Idle]
            /\ UNCHANGED held
  /\ UNCHANGED <<tenant, old, principal, audit, did, submitted>>

\* The command verifies the password against a snapshot of the principal.
Snapshot(r) ==
  /\ req[r].pc = "resolve" /\ req[r].kind \in Cli
  /\ req' = [req EXCEPT ![r].pc = "authorize", ![r].seen = principal.version]
  /\ UNCHANGED <<tenant, old, principal, held, audit, did, submitted>>

\* The other requests name their target in the path.
TakeTarget(r) ==
  /\ req[r].pc = "resolve" /\ req[r].kind \in {"bootstrap", "activate", "disable"}
  /\ req' = [req EXCEPT ![r].pc = "authorize"]
  /\ UNCHANGED <<tenant, old, principal, held, audit, did, submitted>>

\* The transaction is rolled back and the caller is told of an error.
GivenUp(r, records) ==
  /\ req' = [req EXCEPT ![r].pc = "done"]
  /\ held' = [held EXCEPT ![r] = {}]
  /\ audit' = [audit EXCEPT ![r] = records]
  /\ UNCHANGED <<tenant, old, principal, did, submitted>>

Intent == {"authorized"}

\* The intent is committed on its own; without it no business runs.
Authorize(r) ==
  /\ req[r].pc = "authorize"
  /\ req[r].kind \notin Platform \/ principal.may
  /\ req' = [req EXCEPT ![r].pc = "lock"]
  /\ audit' = [audit EXCEPT ![r] = Intent]
  /\ UNCHANGED <<tenant, old, principal, held, did, submitted>>

\* Missing context or permission is recorded and refused; a record that
\* cannot be written refuses the request as well.
Deny(r) ==
  /\ req[r].pc = "authorize"
  /\ \E records \in {{}, {"denied"}} : GivenUp(r, records)

\* The locks each business step takes before it reads, in the code's order.
LockOrder(r) ==
  LET q == req[r]
  IN [prepare   |-> << <<"code", q.body>>, <<"key", q.key>> >>,
      bootstrap |-> << <<"boot", q.key>>, <<"target", q.target>> >>,
      activate  |-> << Row(q.target) >>,
      disable   |-> << Row(q.target) >>,
      purge     |-> << <<"retention", q.target>> >>,
      replace   |-> << Principal >>][q.kind]

TakeLock(r) ==
  LET next == req[r].locks + 1
  IN /\ req[r].pc = "lock" /\ next <= Len(LockOrder(r))
     /\ Free(r, LockOrder(r)[next])
     /\ held' = [held EXCEPT ![r] = @ \cup {LockOrder(r)[next]}]
     /\ req' = [req EXCEPT ![r].locks = next]
     /\ UNCHANGED <<tenant, old, principal, audit, did, submitted>>

(* ----- what each request decides ---------------------------------------- *)

PrepareVerdict(r) ==
  LET q == req[r]
  IN IF Prepared(q.key) # {}
       THEN IF \E t \in Prepared(q.key) : tenant[t].body # q.body THEN "conflict"
            ELSE IF q.target \notin Prepared(q.key) THEN "mismatch" ELSE "replay"
       ELSE IF \E t \in Tenant : tenant[t].body = q.body THEN "exists" ELSE "new"

Bootstrapped(key) == {t \in Tenant : tenant[t].bootKey = key}

\* A replay is answered from the rows that are there now: the two seeded
\* roles, one user named admin, an enabled default model policy.
SystemSummary(t) == tenant[t].system = "seeded"
AiSummary(t) == tenant[t].ai = "seeded"

Clean(t) == tenant[t].system = "none"
AiClean(t) == tenant[t].ai = "none"

BootstrapVerdict(r) ==
  LET q == req[r] t == q.target
  IN IF Bootstrapped(q.key) # {}
       THEN IF t \notin Bootstrapped(q.key) THEN "mismatch"
            ELSE IF tenant[t].bootBody # q.body THEN "conflict"
            ELSE IF SystemSummary(t) /\ AiSummary(t) THEN "replay" ELSE "incomplete"
       ELSE IF tenant[t].bootKey # None \/ tenant[t].life # "prepared" THEN "state"
            ELSE IF Clean(t) /\ AiClean(t) THEN "new" ELSE "dirty"

ActivateVerdict(r) ==
  LET t == req[r].target
  IN IF tenant[t].life = "active" THEN "replay"
     ELSE IF tenant[t].life = "absent" \/ tenant[t].bootKey = None THEN "state"
     ELSE "new"

DisableVerdict(r) ==
  LET t == req[r].target
  IN IF tenant[t].life = "absent" THEN "state"
     ELSE IF tenant[t].life = "disabled" THEN "replay" ELSE "new"

PurgeVerdict(r) ==
  IF tenant[req[r].target].life = "absent" THEN "state"
  ELSE IF Retained(req[r].target) = req[r].expected THEN "new" ELSE "stale"

ReplaceVerdict(r) == IF principal.version = req[r].seen THEN "new" ELSE "changed"

Verdict(r) == CASE req[r].kind = "prepare" -> PrepareVerdict(r)
                [] req[r].kind = "bootstrap" -> BootstrapVerdict(r)
                [] req[r].kind = "activate" -> ActivateVerdict(r)
                [] req[r].kind = "disable" -> DisableVerdict(r)
                [] req[r].kind = "purge" -> PurgeVerdict(r)
                [] req[r].kind = "replace" -> ReplaceVerdict(r)

\* Bootstrap locks the tenant's row only after it has ruled out a replay; the
\* chosen model may be unavailable.
RowFirst(r) == IF req[r].kind = "bootstrap" /\ Bootstrapped(req[r].key) = {}
               THEN {Row(req[r].target)} ELSE {}

Decide(r) ==
  /\ req[r].pc = "lock" /\ req[r].locks = Len(LockOrder(r))
  /\ \A lock \in RowFirst(r) : Free(r, lock)
  /\ held' = [held EXCEPT ![r] = @ \cup RowFirst(r)]
  /\ req' = [req EXCEPT ![r].pc = IF Verdict(r) \in {"new", "replay"} THEN "commit"
                                 ELSE "refused",
                       ![r].why = Verdict(r)]
  /\ UNCHANGED <<tenant, old, principal, audit, did, submitted>>

NoUsableModel(r) ==
  /\ req[r].pc = "lock" /\ req[r].kind = "bootstrap" /\ req[r].locks = 2
  /\ BootstrapVerdict(r) = "new" /\ Free(r, Row(req[r].target))
  /\ req' = [req EXCEPT ![r].pc = "refused", ![r].why = "model"]
  /\ UNCHANGED <<tenant, old, principal, held, audit, did, submitted>>

\* A refusal is recorded beside the rolled-back transaction, if it can be.
Refuse(r) ==
  /\ req[r].pc = "refused"
  /\ \E failed \in {{}, {"failed"}} : GivenUp(r, audit[r] \cup failed)

(* ----- the end of the transaction --------------------------------------- *)

PreparedRow(r) == [Absent EXCEPT !.life = "prepared", !.key = req[r].key,
                                 !.body = req[r].body]
SystemSeed(row) == [row EXCEPT !.system = "seeded"]
AiSeed(row) == [row EXCEPT !.ai = "seeded"]
Complete(r, row) == [row EXCEPT !.bootKey = req[r].key, !.bootBody = req[r].body]

NewRow(r) ==
  LET row == tenant[req[r].target]
  IN [prepare   |-> PreparedRow(r),
      bootstrap |-> Complete(r, AiSeed(SystemSeed(row))),
      activate  |-> [row EXCEPT !.life = "active"],
      disable   |-> [row EXCEPT !.life = "disabled"]][req[r].kind]

Write(r) ==
  LET q == req[r]
  IN IF q.why = "replay" THEN UNCHANGED <<tenant, old, principal>>
     ELSE IF q.kind = "purge"
       THEN old' = [old EXCEPT ![q.target] = 0] /\ UNCHANGED <<tenant, principal>>
     ELSE IF q.kind = "replace"
       THEN /\ \E may \in BOOLEAN :
                 principal' = [version |-> principal.version
                                 + (IF may = principal.may THEN 0 ELSE 1), may |-> may]
            /\ UNCHANGED <<tenant, old>>
     ELSE tenant' = [tenant EXCEPT ![q.target] = NewRow(r)]
          /\ UNCHANGED <<old, principal>>

\* The completion record is staged in the business transaction and shares its
\* fate, whether or not the reply of COMMIT arrives.
Commit(r) ==
  /\ req[r].pc = "commit" /\ req[r].kind \notin Cli
  /\ Write(r)
  /\ audit' = [audit EXCEPT ![r] = @ \cup {"completed"}]
  /\ did' = [did EXCEPT ![r] = TRUE]
  /\ req' = [req EXCEPT ![r].pc = IF req[r].kind \in Platform THEN "middleware" ELSE "done"]
  /\ held' = [held EXCEPT ![r] = {}]
  /\ UNCHANGED submitted

\* What is left of the records when the transaction did not commit: staging
\* failed, COMMIT failed, or the client went away first.
\* mutant: the completion is committed in a session of its own
CompletedAhead(r) == audit[r] \cup {"completed"}
RolledBack(r) == audit[r]

NotCommitted(r) ==
  /\ req[r].pc = "commit" /\ req[r].kind \notin Cli
  /\ req' = [req EXCEPT ![r].pc = IF req[r].kind \in Platform THEN "middleware" ELSE "done"]
  /\ held' = [held EXCEPT ![r] = {}]
  /\ audit' = [audit EXCEPT ![r] = RolledBack(r)]
  /\ UNCHANGED <<tenant, old, principal, did, submitted>>

\* One completion per intent: the first writer wins.
\* mutant: a later completion is appended beside the first
EveryWriter(r, record) == audit[r] \cup {record}
FirstWriter(r, record) ==
  IF audit[r] \cap {"completed", "failed"} = {} THEN audit[r] \cup {record} ELSE audit[r]

\* After a principal's request the middleware appends the failure it saw: the
\* transaction did not commit, or its reply was lost.  After a committed
\* reply it appends nothing, and what it appends may be lost.
Middleware(r) ==
  /\ req[r].pc = "middleware"
  /\ \E records \in {audit[r], FirstWriter(r, "failed")} :
       audit' = [audit EXCEPT ![r] = records]
  /\ req' = [req EXCEPT ![r].pc = "done"]
  /\ UNCHANGED <<tenant, old, principal, held, did, submitted>>

\* The command commits the permissions first and records the outcome after.
CommitCli(r) ==
  /\ req[r].pc = "commit" /\ req[r].kind \in Cli
  /\ Write(r)
  /\ \E reply \in {"completed", "failed"} : req' = [req EXCEPT ![r].pc = "append", ![r].why = reply]
  /\ did' = [did EXCEPT ![r] = TRUE]
  /\ held' = [held EXCEPT ![r] = {}]
  /\ UNCHANGED <<audit, submitted>>

FailCli(r) ==
  /\ req[r].pc = "commit" /\ req[r].kind \in Cli
  /\ req' = [req EXCEPT ![r].pc = "append", ![r].why = "failed"]
  /\ held' = [held EXCEPT ![r] = {}]
  /\ UNCHANGED <<tenant, old, principal, audit, did, submitted>>

AppendCli(r) ==
  /\ req[r].pc = "append"
  /\ \E records \in {audit[r], FirstWriter(r, req[r].why)} :
       audit' = [audit EXCEPT ![r] = records]
  /\ req' = [req EXCEPT ![r].pc = "done"]
  /\ UNCHANGED <<tenant, old, principal, held, did, submitted>>

Forget(r) ==
  /\ req[r].pc = "done"
  /\ req' = [req EXCEPT ![r] = Idle]
  /\ audit' = [audit EXCEPT ![r] = {}]
  /\ did' = [did EXCEPT ![r] = FALSE]
  /\ UNCHANGED <<tenant, old, principal, held, submitted>>

(* ----- the tenants themselves ------------------------------------------- *)

\* An active tenant's administrator adds a role or renames the administrator;
\* the platform changes the tenant's default model policy.
Edit(t) ==
  /\ \/ /\ tenant[t].life = "active" /\ tenant[t].system = "seeded"
        /\ tenant' = [tenant EXCEPT ![t].system = "edited"]
     \/ /\ tenant[t].ai = "seeded" /\ \A q \in Request : Row(t) \notin held[q]
        /\ tenant' = [tenant EXCEPT ![t].ai = "edited"]
  /\ UNCHANGED <<old, principal, req, held, audit, did, submitted>>

\* A tenant log row passes the cutoff that later previews name.
Age(t) ==
  /\ tenant[t].life # "absent" /\ old[t] < MaxOld
  /\ \A r \in Request : req[r].kind = "purge" => req[r].target # t
  /\ old' = [old EXCEPT ![t] = @ + 1]
  /\ UNCHANGED <<tenant, principal, req, held, audit, did, submitted>>

Next ==
  \/ \E r \in Request :
       \/ Submit(r) \/ ResolveTarget(r) \/ CheckToken(r) \/ Snapshot(r) \/ TakeTarget(r)
       \/ Authorize(r) \/ Deny(r) \/ TakeLock(r) \/ Decide(r) \/ NoUsableModel(r)
       \/ Refuse(r) \/ Commit(r) \/ NotCommitted(r) \/ Middleware(r)
       \/ CommitCli(r) \/ FailCli(r) \/ AppendCli(r) \/ Forget(r)
  \/ \E t \in Tenant : Edit(t) \/ Age(t)

Spec == Init /\ [][Next]_vars

TypeOK ==
  /\ \A t \in Tenant : /\ tenant[t].life \in {"absent", "prepared", "active", "disabled"}
                       /\ tenant[t].system \in {"none", "seeded", "edited"}
                       /\ tenant[t].ai \in {"none", "seeded", "edited"}
                       /\ old[t] \in 0..MaxOld
  /\ \A r \in Request : /\ req[r].target \in Tenant \cup {NoTenant}
                        /\ audit[r] \subseteq {"authorized", "denied", "completed", "failed"}
                        /\ did[r] \in BOOLEAN
  /\ submitted \in 0..MaxRequests

\* The audit tells what happened: once a request is over, its business is
\* committed exactly when a completion of success stands beside its intent, and
\* nothing that was committed is recorded as failed.  It holds although COMMIT
\* may fail, its reply may be lost, and each record may fail to be written.
AuditIsTrue ==
  \A r \in Request :
    req[r].pc = "done" /\ req[r].kind \notin Cli =>
      /\ did[r] <=> "completed" \in audit[r]
      /\ did[r] => "authorized" \in audit[r] /\ "failed" \notin audit[r]

\* The command that replaces a principal's permissions tells the truth as well.
\* The code does not meet it (README, "Where documents and code part").
CliAuditIsTrue ==
  \A r \in Request :
    req[r].pc = "done" /\ req[r].kind \in Cli /\ "failed" \in audit[r] => ~did[r]

\* A key names one tenant: however the first requests that carry it are
\* interleaved, all of them authorize the same target, and none is refused for
\* having authorized another than the one its key has made.
KeyNamesOneTenant ==
  /\ \A key \in Key : Cardinality(Prepared(key)) <= 1
  /\ \A r \in Request : req[r].kind = "prepare" => req[r].why # "mismatch"

\* A platform principal's request commits only under the permissions the
\* principal has at that moment, whatever was replaced since its token was read.
LiveAuthority ==
  \A r \in Request :
    req[r].kind \in Platform /\ req[r].pc \in {"lock", "commit"} =>
      principal.may /\ principal.version = req[r].seen

\* A retried bootstrap is answered like the first one.
\* The code does not meet it (README, "Where documents and code part").
ReplayAnswers ==
  \A r \in Request : req[r].kind = "bootstrap" => req[r].why # "incomplete"

-----------------------------------------------------------------------------
(***************************************************************************)
(* The inductive invariant behind TypeOK, AuditIsTrue, KeyNamesOneTenant   *)
(* and LiveAuthority.                                                      *)
(***************************************************************************)
TenantRow ==
  [life : {"absent", "prepared", "active", "disabled"},
   key : Key \cup {None}, body : Body \cup {None},
   bootKey : Key \cup {None}, bootBody : Body \cup {None},
   system : {"none", "seeded", "edited"}, ai : {"none", "seeded", "edited"}]

Slot ==
  [pc : {"idle", "resolve", "authorize", "lock", "commit", "refused", "middleware",
         "append", "done"},
   kind : {None, "prepare", "bootstrap", "activate", "disable", "purge", "replace"},
   key : Key \cup {None}, body : Body \cup {None}, target : Tenant \cup {NoTenant},
   seen : Nat, expected : Nat, locks : Nat,
   why : {None, "new", "replay", "conflict", "mismatch", "exists", "state", "dirty",
          "incomplete", "stale", "changed", "model", "completed", "failed"}]

Types ==
  /\ tenant \in [Tenant -> TenantRow] /\ old \in [Tenant -> 0..MaxOld]
  /\ principal \in [version : Nat, may : BOOLEAN]
  /\ req \in [Request -> Slot] /\ held = [r \in Request |-> held[r]]
  /\ audit \in [Request -> SUBSET {"authorized", "denied", "completed", "failed"}]
  /\ did \in [Request -> BOOLEAN]
  /\ submitted \in 0..MaxRequests

\* A lock has one holder, but for the shared lock on the principal.
Exclusive ==
  \A r, q \in Request : r # q =>
    /\ \A lock \in held[r] : lock # Share => lock \notin held[q]
    /\ Share \in held[r] => Principal \notin held[q]

\* The records of a request and its business go together at every step.
AuditInv(r) ==
  LET pc == req[r].pc IN
  /\ pc \in {"idle", "resolve", "authorize"} => audit[r] = {} /\ ~did[r]
  /\ pc \in {"lock", "commit", "refused"} => audit[r] = Intent /\ ~did[r]
  /\ pc = "middleware" => audit[r] = IF did[r] THEN Intent \cup {"completed"} ELSE Intent
  /\ pc = "append" => req[r].kind \in Cli /\ req[r].why \in {"completed", "failed"}
  /\ pc = "done" /\ req[r].kind \notin Cli =>
       IF did[r] THEN audit[r] = Intent \cup {"completed"} ELSE "completed" \notin audit[r]

\* What a request read stays true under the locks it holds.
LockInv(r) ==
  LET q == req[r] IN
  /\ q.pc = "idle" \/ q.kind # None
  /\ q.pc \in {"idle", "resolve", "authorize"} => q.locks = 0
  /\ q.kind = "replace" /\ (q.pc = "commit" \/ (q.pc = "lock" /\ q.locks > 0)) =>
       Principal \in held[r]
  /\ q.kind = "purge" /\ q.pc \in {"authorize", "lock", "commit"} =>
       /\ Share \in held[r] /\ principal.version = q.seen
       /\ q.pc # "authorize" => principal.may
  /\ q.kind = "prepare" =>
       /\ q.key \in Key /\ q.why # "mismatch"
       /\ q.pc \in {"authorize", "lock", "commit"} =>
            <<"key", q.key>> \in held[r] /\ Prepared(q.key) \subseteq {q.target}

Inv ==
  /\ Types /\ Exclusive
  /\ \A key \in Key : \A t, u \in Prepared(key) : t = u
  /\ \A r \in Request : AuditInv(r) /\ LockInv(r)
=============================================================================
