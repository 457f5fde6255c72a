---------------------------- MODULE GrantBounds ----------------------------
(***************************************************************************)
(* Delegated administration of roles: who may give what to whom            *)
(* (src/app/modules/system/service/user_role_assignment_service.py,        *)
(* role_management_service.py, role_delegation_service.py, role_service.py *)
(* and grant_authority.py, with the tools of ai_tools/role.py and          *)
(* user_assignment.py).                                                    *)
(*                                                                         *)
(* The authority of an account is what its enabled roles grant: menus with *)
(* their permissions, assistants, and a data scope, here all accounts or   *)
(* only its own.  A writer evaluates, locks the rows of the roles and then *)
(* of the accounts it depends on, evaluates again, writes and commits.     *)
(***************************************************************************)
EXTENDS Integers, FiniteSets

CONSTANTS Job,        \* concurrent requests
          Person,     \* accounts that exist or can be created
          Role,       \* roles that exist or can be created
          Super,      \* the protected role R_SUPER
          Menu,       \* grantable permissions with their menus
          Agent,      \* grantable assistants
          FirstRole,  \* definition of each role at first
          FirstHold,  \* roles of each account at first; an empty set: no account
          Actor,      \* accounts that make requests
          Choice,     \* sets of roles they ask for
          MaxRequests \* bound: requests made

Auth == "auth"        \* the permissions that administration itself needs
Grant == {Auth} \cup Menu \cup Agent

VARIABLES
  role,    \* rows of sys_role: live, on, grants, wide (data scope ALL)
  holds,   \* roles of each account
  job,     \* state of each request
  made     \* requests made

vars == <<role, holds, job, made>>

NoRole == [live |-> FALSE, on |-> FALSE, grants |-> {}, wide |-> FALSE]
NoJob == [at |-> "idle", op |-> "none", by |-> Auth, u |-> Auth, r |-> Super,
          def |-> NoRole, set |-> {}, approved |-> FALSE,
          seen |-> <<>>, roles |-> {}, users |-> {}]

Exists(u) == holds[u] # {}
Members(r) == {u \in Person : r \in holds[u]}

(***************************************************************************)
(* Authority                                                               *)
(***************************************************************************)

\* What a set of roles grants under definitions rs: only enabled roles count,
\* and the protected role sees everything.
Authority(rs, set) ==
  LET on == {r \in set : rs[r].on} IN
  [super |-> Super \in on,
   grants |-> UNION {rs[r].grants : r \in on},
   wide |-> Super \in on \/ \E r \in on : rs[r].wide,
   some |-> on # {}]

Of(u) == Authority(role, holds[u])

\* Accounts inside the data scope of a.
Sees(a, by, u) == a.wide \/ u = by

\* The actor's authority is an upper bound of a candidate's.
Dominates(a, c) == ~a.super => (c.grants \subseteq a.grants /\ (c.wide => a.wide))

\* A definition is within the actor's authority, whether anybody holds it or
\* not.  Any scope kind at all suffices to hand out the narrowest one.
DefinitionDominated(a, def) ==
  ~a.super => (def.grants \subseteq a.grants /\ (IF def.wide THEN a.wide ELSE a.some))

Allows(a, code) == ~a.super => code \in a.grants

(***************************************************************************)
(* Evaluation of a request                                                 *)
(***************************************************************************)

Available(set) == set # {} /\ \A r \in set : role[r].live /\ role[r].on

TargetProtected(j) == Of(j.u).super \/ Authority(role, j.set).super

\* Replacing the roles of an account: both sets must be within the bound.
AssignAllowed(j) ==
  LET a == Of(j.by) IN
  /\ Allows(a, Auth) /\ Available(j.set)
  /\ TargetProtected(j) => a.super
  /\ j.op = "assign" => Exists(j.u) /\ (~a.super => Sees(a, j.by, j.u))
  /\ j.op = "hire" => a.wide    \* the departments of a new account are in scope
  /\ Dominates(a, Of(j.u)) /\ Dominates(a, Authority(role, j.set))
  \* a non-empty scope of an old account must lie inside the actor's
  /\ j.op = "assign" /\ ~a.super /\ ~a.wide => ~Of(j.u).some

\* Members of the edited role: never the actor, nobody out of scope, nobody
\* who holds the protected role.
MemberBoundary(a, j) ==
  ~a.super =>
    /\ j.r # Super /\ j.by \notin Members(j.r)
    /\ \A u \in Members(j.r) : Sees(a, j.by, u) /\ ~Of(u).super

After(j) == [role EXCEPT ![j.r] = j.def]

EditAllowed(j) ==
  LET a == Of(j.by) IN
  /\ Allows(a, Auth) /\ role[j.r].live
  /\ MemberBoundary(a, j)
  /\ DefinitionDominated(a, role[j.r]) /\ DefinitionDominated(a, j.def)
  /\ \A u \in Members(j.r) :
       Dominates(a, Of(u)) /\ Dominates(a, Authority(After(j), holds[u]))

\* A new role has no grants yet, only a scope.
FoundAllowed(j) ==
  Allows(Of(j.by), Auth) /\ role[j.r] = NoRole /\ DefinitionDominated(Of(j.by), j.def)

Allowed(j) ==
  CASE j.op \in {"assign", "hire"} -> AssignAllowed(j)
    [] j.op \in {"edit", "agents"} -> EditAllowed(j)
    [] j.op = "found"              -> FoundAllowed(j)
    [] j.op = "drop"               -> Of(j.by).super /\ role[j.r].live /\ j.r # Super

\* The facts a request compares when it holds its locks.  The page's role
\* assignment compares memberships only and authorises afresh, an approved one
\* compares everything its card showed.
Impact(j) ==
  [u \in Members(j.r) |-> <<holds[u], Of(u), Authority(After(j), holds[u])>>]

Version(by) == <<Of(by), [r \in {r \in holds[by] : role[r].on} |-> role[r]]>>

Facts(j) ==
  CASE j.op \in {"assign", "hire"} ->
         IF j.approved
         THEN <<holds[j.by], holds[j.u], Version(j.by), Of(j.u), Authority(role, j.set)>>
         ELSE <<holds[j.by], holds[j.u]>>
    [] j.op = "edit"   -> <<Version(j.by), role[j.r], Impact(j)>>
    [] j.op = "agents" -> <<Version(j.by), role[j.r],
                            IF Of(j.by).super THEN <<>> ELSE Impact(j)>>
    [] j.op = "found"  -> <<Version(j.by)>>
    [] j.op = "drop"   -> <<Members(j.r), role[j.r].live>>

\* A super admin's change of assistants does not look at the members.
Touched(j) == IF j.op = "agents" /\ Of(j.by).super THEN {} ELSE Members(j.r)

RolesToLock(j) ==
  CASE j.op \in {"assign", "hire"} -> holds[j.by] \cup holds[j.u] \cup j.set
    [] j.op \in {"edit", "agents"} ->
         {j.r} \cup holds[j.by] \cup UNION {holds[u] : u \in Touched(j)}
    [] j.op = "found"              -> holds[j.by]
    [] j.op = "drop"               -> {j.r} \cup {r \in holds[j.by] : role[r].on}

UsersToLock(j) ==
  CASE j.op = "assign" -> {j.by, j.u}
    [] j.op = "hire"   -> {j.by, j.u}
    [] j.op = "found"  -> {j.by}
    [] OTHER           -> {j.by} \cup Touched(j)

(***************************************************************************)
(* Requests                                                                *)
(***************************************************************************)

Init ==
  /\ role = [r \in Role |-> IF r \in DOMAIN FirstRole THEN FirstRole[r] ELSE NoRole]
  /\ holds = FirstHold
  /\ job = [j \in Job |-> NoJob] /\ made = 0

Keep == UNCHANGED <<role, holds, made>>
Goto(t, where) == job' = [job EXCEPT ![t].at = where]
End(t) == job' = [job EXCEPT ![t] = NoJob]

Locks(j) == [j EXCEPT !.roles = RolesToLock(j), !.users = UsersToLock(j)]

\* First evaluation.  The pages that give roles to an account only load the rows
\* here; a tool of the assistant stops here and shows a card.
Start(t, j, where) ==
  /\ job[t].at = "idle" /\ made < MaxRequests /\ made' = made + 1
  /\ Exists(j.by)
  /\ IF j.op \in {"assign", "hire"} /\ ~j.approved
     THEN Available(j.set) /\ (j.op = "assign" => Exists(j.u)) ELSE Allowed(j)
  /\ j.op = "found" => \A s \in Job : job[s].op = "found" => job[s].r # j.r
  /\ j.op = "hire" => ~Exists(j.u) /\ \A s \in Job : job[s].op = "hire" => job[s].u # j.u
  /\ job' = [job EXCEPT ![t] = Locks([j EXCEPT !.at = where, !.seen = Facts(j)])]
  /\ UNCHANGED <<role, holds>>

NewJob(op, by) == [NoJob EXCEPT !.op = op, !.by = by]

UpdateUserRoles(t, by, u, set) ==
  by # u /\ Start(t, [NewJob("assign", by) EXCEPT !.u = u, !.set = set], "roles")

ToolUpdateRoles(t, by, u, set) ==
  by # u /\ Start(t, [NewJob("assign", by) EXCEPT !.u = u, !.set = set,
                                                    !.approved = TRUE], "card")

\* A new account and its roles are one transaction.
AddUser(t, by, u, set) ==
  Start(t, [NewJob("hire", by) EXCEPT !.u = u, !.set = set], "roles")

NewRole(wide) == [NoRole EXCEPT !.live = TRUE, !.on = TRUE, !.wide = wide]

AddRole(t, by, r, wide) ==
  Start(t, [NewJob("found", by) EXCEPT !.r = r, !.def = NewRole(wide)], "roles")

\* Status and data scope of one role.
Edits(r) == {[role[r] EXCEPT !.on = ~@], [role[r] EXCEPT !.wide = ~@]}

UpdateRole(t, by, r, def) ==
  Start(t, [NewJob("edit", by) EXCEPT !.r = r, !.def = def], "roles")

\* One menu of a role is added or taken away.
WithMenu(r, m) ==
  [role[r] EXCEPT !.grants = IF m \in @ THEN @ \ {m} ELSE @ \cup {m}]

UpdateRoleMenu(t, by, r, m) ==
  Start(t, [NewJob("edit", by) EXCEPT !.r = r, !.def = WithMenu(r, m)], "roles")

WithAgents(r, ags) == [role[r] EXCEPT !.grants = (@ \ Agent) \cup ags]

PutBinding(t, by, r, ags) ==
  Start(t, [NewJob("agents", by) EXCEPT !.r = r, !.def = WithAgents(r, ags)], "roles")

RemoveRole(t, by, r) == Start(t, [NewJob("drop", by) EXCEPT !.r = r], "roles")

\* The dry runs of the assistant's role tools.
DryRunUpdate(t, by, r, def) ==
  Start(t, [NewJob("edit", by) EXCEPT !.r = r, !.def = def], "card")
DryRunUpdateMenus(t, by, r, m) ==
  Start(t, [NewJob("edit", by) EXCEPT !.r = r, !.def = WithMenu(r, m)], "card")
DryRunUpdateAgents(t, by, r, ags) ==
  Start(t, [NewJob("agents", by) EXCEPT !.r = r, !.def = WithAgents(r, ags)], "card")

\* The user approves the card: the handler evaluates again and keeps the facts
\* of the card to compare.
Approve(t) ==
  /\ job[t].at = "card" /\ Keep
  /\ IF Allowed(job[t])
     THEN job' = [job EXCEPT ![t] = Locks([job[t] EXCEPT !.at = "roles"])]
     ELSE End(t)

HeldRoles(t) == UNION {job[s].roles : s \in {s \in Job \ {t} : job[s].at \in {"users", "check", "write"}}}
HeldUsers(t) == UNION {job[s].users : s \in {s \in Job \ {t} : job[s].at \in {"check", "write"}}}

\* Roles in ascending order, then accounts; a row that is gone ends the request.
LockRoles(t) ==
  /\ job[t].at = "roles" /\ job[t].roles \cap HeldRoles(t) = {} /\ Keep
  /\ IF \A r \in job[t].roles : role[r].live THEN Goto(t, "users") ELSE End(t)

LockUsers(t) ==
  /\ job[t].at = "users" /\ job[t].users \cap HeldUsers(t) = {} /\ Keep
  /\ Goto(t, "check")

\* mutant: the authority read before the locks is trusted
TrustsFirst(j) ==
  /\ RolesToLock(j) \subseteq j.roles
  /\ j.op = "drop" => Members(j.r) = {}

\* mutant: the facts are evaluated again but not compared
NotCompared(j) == j.op # "drop" => Allowed(j)

\* The second evaluation.  A deletion looks at the references again, not at
\* the authority of the actor.
Confirmed(j) ==
  /\ j.op # "drop" => Allowed(j)
  /\ Facts(j) = j.seen
  /\ j.op # "drop" => Locks(j) = j
  /\ j.op = "drop" => Members(j.r) = {}

Recheck(t) ==
  /\ job[t].at = "check" /\ Keep
  /\ IF Confirmed(job[t]) THEN Goto(t, "write") ELSE End(t)

ReplaceRoles(j) == holds' = [holds EXCEPT ![j.u] = j.set] /\ UNCHANGED role
DefineRole(j) == role' = After(j) /\ UNCHANGED holds

\* The grants of a deleted role go with it, and so would memberships.
DeleteRole(j) ==
  /\ role' = [role EXCEPT ![j.r] = [NoRole EXCEPT !.on = TRUE]]  \* never used again
  /\ holds' = [u \in Person |-> holds[u] \ {j.r}]

Commit(t) ==
  LET j == job[t] IN
  /\ j.at = "write" /\ End(t) /\ UNCHANGED made
  /\ \/ j.op \in {"assign", "hire"} /\ ReplaceRoles(j)
     \/ j.op \in {"edit", "agents", "found"} /\ DefineRole(j)
     \/ j.op = "drop" /\ DeleteRole(j)

RollBack(t) == job[t].at # "idle" /\ End(t) /\ Keep

Next ==
  \E t \in Job :
    \/ \E by \in Actor :
         \/ \E u \in Person, set \in Choice :
              \/ UpdateUserRoles(t, by, u, set) \/ ToolUpdateRoles(t, by, u, set)
              \/ AddUser(t, by, u, set)
         \/ \E r \in Role :
              \/ \E w \in BOOLEAN : AddRole(t, by, r, w)
              \/ \E def \in Edits(r) : UpdateRole(t, by, r, def) \/ DryRunUpdate(t, by, r, def)
              \/ \E m \in Menu \cup {Auth} :
                   UpdateRoleMenu(t, by, r, m) \/ DryRunUpdateMenus(t, by, r, m)
              \/ \E ags \in SUBSET Agent :
                   PutBinding(t, by, r, ags) \/ DryRunUpdateAgents(t, by, r, ags)
              \/ RemoveRole(t, by, r)
    \/ Approve(t) \/ LockRoles(t) \/ LockUsers(t)
    \/ Recheck(t) \/ Commit(t) \/ RollBack(t)

Spec == Init /\ [][Next]_vars

(***************************************************************************)
(* Properties                                                              *)
(***************************************************************************)

\* What the pending write of a request makes of the roles and memberships.
HoldsAfter(j) == IF j.op \in {"assign", "hire"} THEN [holds EXCEPT ![j.u] = j.set] ELSE holds
RolesAfter(j) == IF j.op \in {"edit", "agents", "found"} THEN After(j) ELSE role

\* Nobody gives away, through any sequence of concurrent edits, what he does
\* not hold at the moment of the commit: a write of an account without the
\* super role leaves each account it changes within the actor's own authority,
\* and touches neither the actor nor a super admin.
NoEscalation ==
  \A t \in Job : LET j == job[t] IN
    j.at = "write" /\ j.op # "drop" /\ ~Of(j.by).super =>
      \A u \in Person :
        LET new == Authority(RolesAfter(j), HoldsAfter(j)[u]) IN
        new # Of(u) => u # j.by /\ ~Of(u).super /\ ~new.super /\ Dominates(Of(j.by), new)

\* A role that is about to be deleted has no member, although the members were
\* read before: no account silently loses a role.
DeletedIsUnused ==
  \A t \in Job : job[t].at = "write" /\ job[t].op = "drop" => Members(job[t].r) = {}

\* An approved assignment has exactly the effect its card showed.
ApprovedIsApplied ==
  \A t \in Job : LET j == job[t] IN
    j.at = "write" /\ j.op = "assign" /\ j.approved =>
      j.seen[4] = Of(j.u) /\ j.seen[5] = Authority(role, j.set)

\* What the suite checks of this component and GrantBoundsProofs proves of it.
GrantsHold == NoEscalation /\ DeletedIsUnused /\ ApprovedIsApplied
=============================================================================
