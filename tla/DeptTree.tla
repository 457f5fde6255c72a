------------------------------ MODULE DeptTree ------------------------------
(***************************************************************************)
(* Department tree of one tenant and the accounts whose data scope hangs   *)
(* on it (src/app/modules/system/service/dept_service.py, authorization_   *)
(* lock.py, the department writers of user_department_assignment_service.  *)
(* py and the tools of ai_tools/dept.py).                                  *)
(*                                                                         *)
(* A writer evaluates its request against committed facts, locks the rows  *)
(* of roles, departments and users it depends on, one kind after the       *)
(* other, evaluates again and compares, writes, and commits.  Other        *)
(* writers commit between any two of these steps unless a row keeps them   *)
(* out.                                                                    *)
(*                                                                         *)
(* Each department keeps its parent and a copy of the path above it; scope *)
(* queries use the copy.  root holds the super role, mgr and boss hold one *)
(* DEPT_AND_SUB role each, and a CUSTOM role nobody holds refers to a set  *)
(* of departments.                                                         *)
(***************************************************************************)
EXTENDS Integers, FiniteSets, Sequences, SequencesExt

CONSTANTS Tx,         \* concurrent requests
          Dept,       \* departments that exist or can be created: numbers
          FirstTree,  \* parent of each department that exists at first
          FirstHome,  \* departments of each manager at first
          MaxLevel,   \* DEPT_MAX_LEVEL
          MaxAsks     \* bound: requests made

Nil == 0              \* no parent
Managers == {"mgr", "boss"}
Actors == {"root"} \cup Managers

\* The row locks on roles: one role per account, and the CUSTOM role.
CustomRole == "custom"

VARIABLES
  dept,    \* rows of sys_dept: live, parent, path (root first), enabled
  home,    \* departments of each manager (sys_user_dept)
  custom,  \* departments of the CUSTOM role (sys_role_dept)
  tx,      \* state of each request
  asks     \* requests made

vars == <<dept, home, custom, tx, asks>>

NoDept == [live |-> FALSE, parent |-> Nil, path |-> <<>>, on |-> FALSE]
Deleted == [NoDept EXCEPT !.on = TRUE]  \* an identifier is never used again
NoTx == [at |-> "idle", op |-> "none", by |-> "root", d |-> Nil, p |-> Nil,
         who |-> {}, seen |-> <<>>, roles |-> {}, depts |-> {}, users |-> {}]

Live == {d \in Dept : dept[d].live}
Above(d) == IF d = Nil THEN {} ELSE Range(dept[d].path)
AtOrAbove(d) == IF d = Nil THEN {} ELSE {d} \cup Above(d)

\* Departments whose path names d, and d.
Under(t, d) == {d} \cup {e \in Dept : t[e].live /\ d \in Range(t[e].path)}

\* The data scope of somebody in departments ds, as the resolver computes it
\* from a tree t.
ScopeIn(t, ds) == UNION {Under(t, d) : d \in ds}
Scope(u) == ScopeIn(dept, home[u])

Super(u) == u = "root"
InScope(u, ds) == ~Super(u) => ds \subseteq Scope(u)
UserInScope(u, v) == ~Super(u) /\ v # u => home[v] \cap Scope(u) # {}

(***************************************************************************)
(* What the writes make of the tree and of the memberships                 *)
(***************************************************************************)

PathBelow(p) == IF p = Nil THEN <<>> ELSE Append(dept[p].path, p)

\* The subtree keeps its shape: every path below d has its prefix replaced.
Moved(d, p) ==
  [e \in Dept |->
     IF e = d THEN [dept[e] EXCEPT !.parent = p, !.path = PathBelow(p)]
     ELSE IF e \in Under(dept, d)
          THEN [dept[e] EXCEPT !.path =
                  PathBelow(p) \o SubSeq(@, Len(dept[d].path) + 1, Len(@))]
     ELSE dept[e]]

\* The members of d become who: others leave d, newcomers keep their places.
Regrouped(d, who) ==
  [u \in Managers |-> IF u \in who THEN home[u] \cup {d} ELSE home[u] \ {d}]

Level(d) == IF d = Nil THEN 0 ELSE Len(dept[d].path) + 1

\* Depth of the subtree of d counted from the children of d.
MaxChildDepth(d) ==
  LET below == Under(dept, d) \ {d} IN
  IF below = {} THEN 0
  ELSE Max({Len(dept[e].path) - Len(dept[d].path) - 1 : e \in below})

Children(d) == {e \in Live : dept[e].parent = d}
MembersOf(ds) == {u \in Managers : home[u] \cap ds # {}}

\* Tree and memberships after the request r.
TreeAfter(r) == IF r.op = "move" THEN Moved(r.d, r.p) ELSE dept
HomeAfter(r) ==
  CASE r.op = "join"    -> [u \in Managers |-> IF u \in r.who THEN {r.d} ELSE home[u]]
    [] r.op = "members" -> Regrouped(r.d, r.who)
    [] OTHER            -> home

(***************************************************************************)
(* Evaluation: who is affected, is it allowed                              *)
(***************************************************************************)

\* Managers in a department above the old or the new place.
Anchors(r) == AtOrAbove(dept[r.d].parent) \cup AtOrAbove(r.p)

Affected(r) ==
  CASE r.op = "move"    -> MembersOf(Anchors(r))
    [] r.op = "join"    -> r.who
    [] r.op = "members" -> {u \in Managers : HomeAfter(r)[u] # home[u]}
    [] OTHER            -> {}

\* The scope of each affected account before and after.
Impact(r) ==
  [u \in Affected(r) |->
     [before |-> Scope(u), after |-> ScopeIn(TreeAfter(r), HomeAfter(r)[u])]]

\* A scoped manager may not change the scope of an account it does not see,
\* nor give or take departments outside its own scope.
ImpactAllowed(r) ==
  ~Super(r.by) =>
    \A u \in Affected(r) :
      /\ UserInScope(r.by, u)
      /\ Impact(r)[u].before \cup Impact(r)[u].after \subseteq Scope(r.by)

CreateAllowed(r) ==
  /\ dept[r.d] = NoDept
  /\ IF r.p = Nil THEN Super(r.by)
     ELSE /\ dept[r.p].live /\ dept[r.p].on /\ InScope(r.by, {r.p})
          /\ Level(r.p) + 1 <= MaxLevel

MoveAllowed(r) ==
  LET old == dept[r.d].parent IN
  /\ dept[r.d].live /\ old # r.p
  /\ r.p # Nil => dept[r.p].live /\ dept[r.p].on /\ r.d \notin AtOrAbove(r.p)
  /\ r.p = Nil \/ old = Nil => Super(r.by)
  /\ r.p # Nil => Level(r.p) + 1 + MaxChildDepth(r.d) <= MaxLevel
  /\ InScope(r.by, ({old, r.p} \ {Nil}) \cup Under(dept, r.d))
  /\ ImpactAllowed(r)

\* A status change touches the CUSTOM role that refers to the department.
StatusAllowed(r) ==
  /\ dept[r.d].live /\ InScope(r.by, {r.d})
  /\ r.d \in custom => InScope(r.by, {e \in custom : dept[e].on} \cup {r.d})

\* Putting one account into one department instead of its present ones.
JoinAllowed(r) ==
  /\ dept[r.d].live /\ dept[r.d].on
  /\ InScope(r.by, {r.d} \cup UNION {home[u] : u \in r.who})
  /\ ImpactAllowed(r)

\* Replacing the member list of one department.
MembersAllowed(r) ==
  /\ dept[r.d].live /\ InScope(r.by, {r.d})
  /\ \A u \in r.who \cup MembersOf({r.d}) : UserInScope(r.by, u)
  /\ r.who \ MembersOf({r.d}) # {} => dept[r.d].on
  /\ InScope(r.by, UNION {home[u] : u \in Affected(r)})
  /\ ImpactAllowed(r)

\* Deletion: nothing may refer to the department.
Unreferenced(d) == Children(d) = {} /\ MembersOf({d}) = {} /\ d \notin custom

Allowed(r) ==
  CASE r.op = "create"  -> CreateAllowed(r)
    [] r.op = "move"    -> MoveAllowed(r)
    [] r.op = "status"  -> StatusAllowed(r)
    [] r.op = "delete"  -> Super(r.by) /\ dept[r.d].live
    [] r.op = "join"    -> JoinAllowed(r)
    [] r.op = "members" -> MembersAllowed(r)
    [] r.op = "custom"  -> dept[r.d].live /\ Super(r.by)

(***************************************************************************)
(* Facts to find again, rows to lock                                       *)
(***************************************************************************)

Authority(by) ==
  IF Super(by) THEN <<>> ELSE <<home[by], Scope(by), MembersOf(Scope(by))>>

\* The tree writers freeze the whole tree, the actor's authority and the
\* impact; deletion only what refers to the department; the page that moves one
\* account only the two accounts' departments.
Facts(r) ==
  CASE r.op = "delete"  -> <<Children(r.d), MembersOf({r.d}), r.d \in custom>>
    [] r.op = "join"    -> <<IF Super(r.by) THEN {} ELSE home[r.by],
                             [u \in r.who |-> home[u]]>>
    [] r.op = "members" -> <<Authority(r.by), dept[r.d], MembersOf({r.d}), Impact(r)>>
    [] r.op = "custom"  -> <<custom>>
    [] OTHER            -> <<Authority(r.by), dept, r.d \in custom, Impact(r)>>

\* Roles of the affected accounts, and the CUSTOM role if it is concerned.
RolesToLock(r) ==
  {r.by} \cup Affected(r)
  \cup (IF r.op = "custom" \/ (r.op \in {"status", "delete"} /\ r.d \in custom)
        THEN {CustomRole} ELSE {})

ImpactDepts(r) ==
  UNION {Impact(r)[u].before \cup Impact(r)[u].after : u \in Affected(r)}

DeptsToLock(r) ==
  CASE r.op = "create"  -> AtOrAbove(r.p)
    [] r.op = "status"  -> AtOrAbove(r.d) \cup (IF r.d \in custom THEN custom ELSE {})
    [] r.op = "move"    -> Anchors(r) \cup Under(dept, r.d) \cup ImpactDepts(r)
    [] r.op = "delete"  -> {r.d} \cup Children(r.d)
    [] r.op \in {"join", "members"} ->
         {r.d} \cup ImpactDepts(r) \cup UNION {home[u] : u \in Affected(r)}
         \cup (IF Super(r.by) THEN {} ELSE Scope(r.by))
    [] r.op = "custom"  -> custom \cup {r.d}

UsersToLock(r) ==
  {r.by} \cup Affected(r)
  \cup (CASE r.op = "delete"  -> MembersOf({r.d})
          [] r.op = "members" -> r.who \cup MembersOf({r.d})
          [] OTHER            -> {})

(***************************************************************************)
(* Requests                                                                *)
(***************************************************************************)

Init ==
  /\ dept = [d \in Dept |->
       IF d \in DOMAIN FirstTree
       THEN [live |-> TRUE, parent |-> FirstTree[d], on |-> TRUE,
             path |-> IF FirstTree[d] = Nil THEN <<>> ELSE <<FirstTree[d]>>]
       ELSE NoDept]
  /\ home = FirstHome
  /\ custom = {} /\ tx = [t \in Tx |-> NoTx] /\ asks = 0

Idle(t) == tx' = [tx EXCEPT ![t] = NoTx]
Goto(t, where) == tx' = [tx EXCEPT ![t].at = where]
Keep == UNCHANGED <<dept, home, custom, asks>>

Locks(r) == [r EXCEPT !.roles = RolesToLock(r), !.depts = DeptsToLock(r),
                      !.users = UsersToLock(r)]

\* First evaluation.  A tool of the assistant stops here and shows a card.
Ask(t, r, where) ==
  /\ tx[t].at = "idle" /\ asks < MaxAsks /\ asks' = asks + 1
  /\ Allowed(r)
  /\ r.op = "create" => \A s \in Tx : tx[s].op = r.op => tx[s].d # r.d  \* a fresh id
  /\ tx' = [tx EXCEPT ![t] = Locks([r EXCEPT !.at = where, !.seen = Facts(r)])]
  /\ UNCHANGED <<dept, home, custom>>

Req(op, by, d) == [NoTx EXCEPT !.op = op, !.by = by, !.d = d]

AddDept(t, by, d, p)     == Ask(t, [Req("create", by, d) EXCEPT !.p = p], "roles")
MoveDept(t, by, d, p)    == Ask(t, [Req("move", by, d) EXCEPT !.p = p], "roles")
UpdateDept(t, by, d)     == Ask(t, Req("status", by, d), "roles")
RemoveDept(t, by, d)     == Ask(t, Req("delete", by, d), "roles")
UpdateUserDepts(t, by, u, d) == Ask(t, [Req("join", by, d) EXCEPT !.who = {u}], "roles")
UpdateDeptUsers(t, by, d, who) == Ask(t, [Req("members", by, d) EXCEPT !.who = who], "roles")
UpdateRoleDepts(t, by, d) == Ask(t, Req("custom", by, d), "roles")

DryRunCreate(t, by, d, p) == Ask(t, [Req("create", by, d) EXCEPT !.p = p], "card")
DryRunMove(t, by, d, p)   == Ask(t, [Req("move", by, d) EXCEPT !.p = p], "card")
DryRunUpdate(t, by, d)    == Ask(t, Req("status", by, d), "card")

\* The user approves the card: the handler evaluates again and keeps the facts
\* of the card to compare.
Approve(t) ==
  /\ tx[t].at = "card" /\ Keep
  /\ IF Allowed(tx[t])
     THEN tx' = [tx EXCEPT ![t] = Locks([tx[t] EXCEPT !.at = "roles"])]
     ELSE Idle(t)

\* Rows other requests hold.
Holding(t, places) == {s \in Tx \ {t} : tx[s].at \in places}
HeldRoles(t) == UNION {tx[s].roles : s \in Holding(t, {"depts", "users", "check", "write"})}
HeldDepts(t) == UNION {tx[s].depts : s \in Holding(t, {"users", "check", "write"})}
HeldUsers(t) == UNION {tx[s].users : s \in Holding(t, {"check", "write"})}

LockRoles(t) ==
  /\ tx[t].at = "roles" /\ tx[t].roles \cap HeldRoles(t) = {}
  /\ Goto(t, "depts") /\ Keep

\* A row that is gone makes the request stale.
LockDepts(t) ==
  /\ tx[t].at = "depts" /\ tx[t].depts \cap HeldDepts(t) = {} /\ Keep
  /\ IF tx[t].depts \subseteq Live THEN Goto(t, "users") ELSE Idle(t)

LockUsers(t) ==
  /\ tx[t].at = "users" /\ tx[t].users \cap HeldUsers(t) = {}
  /\ Goto(t, "check") /\ Keep

\* mutant: the request is authorised again, the facts are not compared
NotCompared(r) == Allowed(r)

\* The second evaluation finds the request allowed and the same facts.
Unchanged(r) ==
  /\ Allowed(r)
  /\ Facts(r) = r.seen
  /\ IF r.op \in {"join", "members"}
     THEN DeptsToLock(r) \subseteq r.depts
     ELSE r = Locks(r)
  /\ r.op = "delete" => Unreferenced(r.d)

Recheck(t) ==
  /\ tx[t].at = "check" /\ Keep
  /\ IF Unchanged(tx[t]) THEN Goto(t, "write") ELSE Idle(t)

\* The statements of a request take effect at its commit.
Insert(r) ==
  /\ dept' = [dept EXCEPT ![r.d] =
       [live |-> TRUE, parent |-> r.p, path |-> PathBelow(r.p), on |-> TRUE]]
  /\ UNCHANGED <<home, custom>>

\* mutant: only the moved department gets its new path
MovedAlone(r) ==
  /\ dept' = [dept EXCEPT ![r.d].parent = r.p, ![r.d].path = PathBelow(r.p)]
  /\ UNCHANGED <<home, custom>>

Reparent(r) == dept' = Moved(r.d, r.p) /\ UNCHANGED <<home, custom>>

SwitchStatus(r) == dept' = [dept EXCEPT ![r.d].on = ~@] /\ UNCHANGED <<home, custom>>

\* The memberships and role links of a deleted department go with it (ON
\* DELETE CASCADE).
Delete(r) ==
  /\ dept' = [dept EXCEPT ![r.d] = Deleted]
  /\ home' = [u \in Managers |-> home[u] \ {r.d}]
  /\ custom' = custom \ {r.d}

ReplaceHomes(r) == home' = HomeAfter(r) /\ UNCHANGED <<dept, custom>>

ReplaceRoleDepts(r) ==
  /\ custom' = IF r.d \in custom THEN custom \ {r.d} ELSE custom \cup {r.d}
  /\ UNCHANGED <<dept, home>>

Commit(t) ==
  LET r == tx[t] IN
  /\ r.at = "write" /\ Idle(t) /\ UNCHANGED asks
  /\ \/ r.op = "create" /\ Insert(r)
     \/ r.op = "move" /\ Reparent(r)
     \/ r.op = "status" /\ SwitchStatus(r)
     \/ r.op = "delete" /\ Delete(r)
     \/ r.op \in {"join", "members"} /\ ReplaceHomes(r)
     \/ r.op = "custom" /\ ReplaceRoleDepts(r)

\* The client goes away, the card expires, the database refuses.
RollBack(t) == tx[t].at # "idle" /\ Idle(t) /\ Keep

Next ==
  \E t \in Tx :
    \/ \E by \in Actors, d \in Dept :
         \/ \E p \in Dept \cup {Nil} :
              \/ AddDept(t, by, d, p) \/ MoveDept(t, by, d, p)
              \/ DryRunCreate(t, by, d, p) \/ DryRunMove(t, by, d, p)
         \/ UpdateDept(t, by, d) \/ DryRunUpdate(t, by, d)
         \/ RemoveDept(t, by, d) \/ UpdateRoleDepts(t, by, d)
         \/ \E u \in Managers : UpdateUserDepts(t, by, u, d)
         \/ \E who \in SUBSET Managers : UpdateDeptUsers(t, by, d, who)
    \/ Approve(t) \/ LockRoles(t) \/ LockDepts(t) \/ LockUsers(t)
    \/ Recheck(t) \/ Commit(t) \/ RollBack(t)

Spec == Init /\ [][Next]_vars

(***************************************************************************)
(* Properties                                                              *)
(***************************************************************************)

\* The path copied into each row is the chain of its parents, so there is no
\* cycle and a scope query sees the same subtree as the tree itself, whatever
\* concurrent creates, moves and deletes did.
PathIsTrue ==
  \A d \in Live :
    LET p == dept[d].parent IN
    IF p = Nil THEN dept[d].path = <<>>
    ELSE dept[p].live /\ dept[d].path = Append(dept[p].path, p)

\* A department about to be deleted has no child, no member and no role that
\* refers to it, although the reference check ran before the commit: the
\* cascades of the database never remove anything.
NothingCascades ==
  \A t \in Tx : tx[t].at = "write" /\ tx[t].op = "delete" => Unreferenced(tx[t].d)

\* What the write of a scoped manager does to anybody's data scope at its
\* commit stays inside the scope the manager has at that moment; what a move
\* does is what its card showed.
ImpactStaysInside ==
  \A t \in Tx : LET r == tx[t] IN
    r.at = "write" =>
      \A u \in Managers :
        LET after == ScopeIn(TreeAfter(r), HomeAfter(r)[u]) IN
        after # Scope(u) =>
          /\ Super(r.by) \/ Scope(u) \cup after \subseteq Scope(r.by)
          /\ r.op = "move" => u \in DOMAIN r.seen[4]
                              /\ r.seen[4][u] = [before |-> Scope(u), after |-> after]

\* DEPT_MAX_LEVEL bounds the depth of the tree.
\* The code does not meet it (README, "Where documents and code part").
LevelsBounded == \A d \in Live : Level(d) <= MaxLevel
=============================================================================
