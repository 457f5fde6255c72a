-------------------------- MODULE GrantBoundsProofs --------------------------
(***************************************************************************)
(* Proofs about GrantBounds for any accounts, roles, permissions and       *)
(* requests: whatever the concurrent administrations do, nobody gives away *)
(* what he does not hold at the moment of the commit, a deleted role has   *)
(* no member, and an approved assignment has the effect of its card.       *)
(***************************************************************************)
EXTENDS GrantBounds, TLAPS

RoleRow == [live : BOOLEAN, on : BOOLEAN, grants : SUBSET Grant, wide : BOOLEAN]

\* The rows at first: every role an account holds exists (foreign key of
\* sys_user_role), and requests ask for roles and are made by accounts.
Constants ==
    /\ Super \in Role /\ Actor \subseteq Person /\ Choice \subseteq SUBSET Role
    /\ DOMAIN FirstRole \subseteq Role /\ \A r \in DOMAIN FirstRole : FirstRole[r] \in RoleRow
    /\ FirstHold \in [Person -> SUBSET Role]
    /\ \A u \in Person : \A r \in FirstHold[u] : r \in DOMAIN FirstRole /\ FirstRole[r].live

-----------------------------------------------------------------------------
(* The inductive invariant *)

\* A request is a record of these fields; what it has seen depends on its kind.
IsJob(j) ==
    j = [at |-> j.at, op |-> j.op, by |-> j.by, u |-> j.u, r |-> j.r, def |-> j.def, set |-> j.set,
         approved |-> j.approved, seen |-> j.seen, roles |-> j.roles, users |-> j.users]

Kinds == {"assign", "hire", "edit", "agents", "found", "drop"}

\* What a request asks for.
Asks(j) ==
    /\ IsJob(j) /\ j.op \in Kinds
    /\ j.by \in Person /\ j.r \in Role /\ j.set \in SUBSET Role
    /\ j.op \in {"assign", "hire"} => j.u \in Person /\ j.by # j.u
    /\ j.op \in {"edit", "agents", "found"} => j.def \in RoleRow /\ j.def.live

\* A request that runs; a deletion remembers a role that existed.
Runs(j) == Asks(j) /\ (j.op = "drop" => j.seen[2] = TRUE /\ j.r \in j.roles)

\* What a request relies on that is about to commit: its evaluation holds now, and
\* every row the evaluation reads is locked.
Sound(j) ==
    /\ j.op # "drop" => Allowed(j) /\ j.roles = RolesToLock(j) /\ j.users = UsersToLock(j)
    /\ j.op = "drop" => role[j.r].live /\ Members(j.r) = {}
    /\ j.op = "assign" /\ j.approved => j.seen[4] = Of(j.u) /\ j.seen[5] = Authority(role, j.set)

Types ==
    /\ role \in [Role -> RoleRow] /\ holds \in [Person -> SUBSET Role]
    /\ DOMAIN job = Job /\ job = [t \in Job |-> job[t]]

\* Roles that are held exist.
HeldAreLive == \A u \in Person : \A r \in holds[u] : role[r].live

JobInv(j) ==
    \/ j = NoJob
    \/ /\ j.at \in {"card", "roles", "users", "check", "write"} /\ Runs(j)
       /\ j.at = "write" => Sound(j)

HoldsRoles(j) == j.at \in {"users", "check", "write"}
HoldsUsers(j) == j.at \in {"check", "write"}

\* Two requests hold locks of different rows, and create different roles.
Apart(i, j) ==
    /\ HoldsRoles(i) /\ HoldsRoles(j) => i.roles \cap j.roles = {}
    /\ HoldsUsers(i) /\ HoldsUsers(j) => i.users \cap j.users = {}
    /\ i.op = "found" /\ j.op = "found" => i.r # j.r

Inv ==
    /\ Types /\ HeldAreLive
    /\ \A t \in Job : JobInv(job[t])
    /\ \A s, t \in Job : s # t => Apart(job[s], job[t])

-----------------------------------------------------------------------------
(* Lemmas about the operators *)

\* What a set of roles grants depends on the definitions of these roles only.
LEMMA SameAuthority ==
    ASSUME NEW rs, NEW qs, NEW set, \A r \in set : rs[r] = qs[r]
    PROVE  Authority(rs, set) = Authority(qs, set)
<1>1. {r \in set : rs[r].on} = {r \in set : qs[r].on}
  OBVIOUS
<1>2. PICK on : on = {r \in set : rs[r].on}
  OBVIOUS
<1>3. /\ UNION {rs[r].grants : r \in on} = UNION {qs[r].grants : r \in on}
      /\ (\E r \in on : rs[r].wide) <=> (\E r \in on : qs[r].wide)
  BY <1>2
<1> QED
  BY <1>1, <1>2, <1>3, Zenon DEF Authority

\* An authority is that of a super admin through the protected role only.
LEMMA SuperIsARow ==
    ASSUME NEW rs, NEW set
    PROVE  Authority(rs, set).super <=> Super \in set /\ rs[Super].on
BY DEF Authority

\* Two requests that ask for the same.
SameAsk(j, k) ==
    /\ k.op = j.op /\ k.by = j.by /\ k.u = j.u /\ k.r = j.r
    /\ k.def = j.def /\ k.set = j.set /\ k.approved = j.approved

\* They are evaluated alike.
LEMMA EvaluatedAlike ==
    ASSUME NEW j, NEW k, SameAsk(j, k), j.op \in Kinds
    PROVE  /\ Allowed(j) <=> Allowed(k)
           /\ RolesToLock(j) = RolesToLock(k) /\ UsersToLock(j) = UsersToLock(k)
<1>1. After(j) = After(k)
  BY DEF SameAsk, After
<1>2. Touched(j) = Touched(k)
  BY DEF SameAsk, Touched
<1>3. TargetProtected(j) <=> TargetProtected(k)
  BY DEF SameAsk, TargetProtected
<1>4. AssignAllowed(j) <=> AssignAllowed(k)
  BY <1>3 DEF SameAsk, AssignAllowed
<1>5. \A a : MemberBoundary(a, j) <=> MemberBoundary(a, k)
  BY DEF SameAsk, MemberBoundary
<1>6. EditAllowed(j) <=> EditAllowed(k)
  BY <1>1, <1>5 DEF SameAsk, EditAllowed
<1>7. FoundAllowed(j) <=> FoundAllowed(k)
  BY DEF SameAsk, FoundAllowed
<1>8. Allowed(j) <=> Allowed(k)
  BY <1>4, <1>6, <1>7 DEF SameAsk, Allowed, Kinds
<1>9. RolesToLock(j) = RolesToLock(k)
  BY <1>2 DEF SameAsk, RolesToLock
<1>10. UsersToLock(j) = UsersToLock(k)
  BY <1>2 DEF SameAsk, UsersToLock
<1> QED
  BY <1>8, <1>9, <1>10

\* A request moves on: it asks for the same and keeps what it saw and locked.
LEMMA MovesOn ==
    ASSUME NEW j, IsJob(j), NEW w, NEW k, k = [j EXCEPT !.at = w]
    PROVE  /\ IsJob(k) /\ k.at = w /\ SameAsk(j, k)
           /\ k.seen = j.seen /\ k.roles = j.roles /\ k.users = j.users
<1>1. k = [at |-> w, op |-> j.op, by |-> j.by, u |-> j.u, r |-> j.r, def |-> j.def, set |-> j.set,
           approved |-> j.approved, seen |-> j.seen, roles |-> j.roles, users |-> j.users]
  BY DEF IsJob
<1> QED
  BY <1>1 DEF IsJob, SameAsk

\* It notes the rows it must lock.
LEMMA NotesLocks ==
    ASSUME NEW j, IsJob(j), NEW k, k = Locks(j)
    PROVE  /\ IsJob(k) /\ k.at = j.at /\ SameAsk(j, k) /\ k.seen = j.seen
           /\ k.roles = RolesToLock(j) /\ k.users = UsersToLock(j)
<1>1. PICK rs, us : rs = RolesToLock(j) /\ us = UsersToLock(j)
  OBVIOUS
<1>2. k = [j EXCEPT !.roles = rs, !.users = us]
  BY <1>1 DEF Locks
<1>3. k = [at |-> j.at, op |-> j.op, by |-> j.by, u |-> j.u, r |-> j.r, def |-> j.def, set |-> j.set,
           approved |-> j.approved, seen |-> j.seen, roles |-> rs, users |-> us]
  BY <1>2 DEF IsJob
<1> QED
  BY <1>1, <1>3 DEF IsJob, SameAsk

-----------------------------------------------------------------------------
(* What a request relies on when it is about to commit *)

\* Nothing it reads is written by others.
Untouched(j) ==
    /\ \A r \in RolesToLock(j) : role'[r] = role[r]
    /\ \A u \in UsersToLock(j) : holds'[u] = holds[u]
    /\ j.op = "found" => role'[j.r] = role[j.r]
    /\ j.op \in {"edit", "agents"} => Members(j.r)' = Members(j.r)

\* The authority of an account that is read is unchanged.
LEMMA SameHolder ==
    ASSUME NEW u, holds'[u] = holds[u], \A r \in holds[u] : role'[r] = role[r]
    PROVE  Of(u)' = Of(u)
<1>1. PICK set : set = holds[u]
  OBVIOUS
<1>2. \A rs, qs : (\A r \in set : rs[r] = qs[r]) => Authority(rs, set) = Authority(qs, set)
  BY SameAuthority
<1>3. Authority(role', set) = Authority(role, set)
  BY <1>1, <1>2
<1> QED
  BY <1>1, <1>3 DEF Of

\* An assignment stays allowed.
LEMMA AssignStays ==
    ASSUME NEW j, Asks(j), j.op \in {"assign", "hire"}, Untouched(j), AssignAllowed(j)
    PROVE  /\ AssignAllowed(j)' /\ RolesToLock(j)' = RolesToLock(j) /\ UsersToLock(j)' = UsersToLock(j)
           /\ Of(j.u)' = Of(j.u) /\ Authority(role, j.set)' = Authority(role, j.set)
<1>1. /\ RolesToLock(j) = holds[j.by] \cup holds[j.u] \cup j.set /\ UsersToLock(j) = {j.by, j.u}
      /\ RolesToLock(j)' = holds'[j.by] \cup holds'[j.u] \cup j.set /\ UsersToLock(j)' = {j.by, j.u}
  BY DEF RolesToLock, UsersToLock
<1>2. Of(j.by)' = Of(j.by) /\ Of(j.u)' = Of(j.u)
  BY <1>1, SameHolder DEF Untouched
<1>3. Authority(role, j.set)' = Authority(role, j.set)
  BY <1>1, SameAuthority DEF Untouched
<1>4. holds'[j.u] = holds[j.u] /\ holds'[j.by] = holds[j.by]
  BY <1>1 DEF Untouched
<1>5. Available(j.set)' /\ (TargetProtected(j)' <=> TargetProtected(j)) /\ (Exists(j.u)' <=> Exists(j.u))
  BY <1>1, <1>2, <1>3, <1>4 DEF AssignAllowed, Available, Untouched, TargetProtected, Exists
<1>6. AssignAllowed(j)'
  BY <1>2, <1>3, <1>5 DEF AssignAllowed
<1> QED
  BY <1>1, <1>2, <1>3, <1>4, <1>6

\* So does the foundation of a role.
LEMMA FoundStays ==
    ASSUME NEW j, Asks(j), j.op = "found", Untouched(j), FoundAllowed(j)
    PROVE  FoundAllowed(j)' /\ RolesToLock(j)' = RolesToLock(j) /\ UsersToLock(j)' = UsersToLock(j)
<1>1. /\ RolesToLock(j) = holds[j.by] /\ UsersToLock(j) = {j.by}
      /\ RolesToLock(j)' = holds'[j.by] /\ UsersToLock(j)' = {j.by}
  BY DEF RolesToLock, UsersToLock
<1>2. Of(j.by)' = Of(j.by)
  BY <1>1, SameHolder DEF Untouched
<1> QED
  BY <1>1, <1>2 DEF Untouched, FoundAllowed

\* So does an edit: the members are locked, or the editor is a super admin who is
\* bound by nothing.
LEMMA EditStays ==
    ASSUME Types, Types', NEW j, Asks(j), j.op \in {"edit", "agents"}, Untouched(j), EditAllowed(j)
    PROVE  EditAllowed(j)' /\ RolesToLock(j)' = RolesToLock(j) /\ UsersToLock(j)' = UsersToLock(j)
<1>1. /\ RolesToLock(j) = {j.r} \cup holds[j.by] \cup UNION {holds[u] : u \in Touched(j)}
      /\ UsersToLock(j) = {j.by} \cup Touched(j)
      /\ RolesToLock(j)' = {j.r} \cup holds'[j.by] \cup UNION {holds'[u] : u \in Touched(j)'}
      /\ UsersToLock(j)' = {j.by} \cup Touched(j)'
  BY DEF RolesToLock, UsersToLock
<1>2. Of(j.by)' = Of(j.by) /\ role'[j.r] = role[j.r] /\ holds'[j.by] = holds[j.by]
  BY <1>1, SameHolder DEF Untouched
<1>3. Members(j.r)' = Members(j.r)
  BY DEF Untouched
<1>4. Touched(j)' = Touched(j)
  BY <1>2, <1>3 DEF Touched
<1>5. \A u \in Touched(j) : holds'[u] = holds[u] /\ \A r \in holds[u] : role'[r] = role[r]
  BY <1>1 DEF Untouched
<1>6. RolesToLock(j)' = RolesToLock(j) /\ UsersToLock(j)' = UsersToLock(j)
  <2>1. {holds'[u] : u \in Touched(j)'} = {holds[u] : u \in Touched(j)}
    BY <1>4, <1>5
  <2> QED
    BY <1>1, <1>2, <1>4, <2>1
<1>7. EditAllowed(j)'
  <2>1. CASE Of(j.by).super
    BY <2>1, <1>2, <1>3 DEF EditAllowed, MemberBoundary, DefinitionDominated, Dominates, Allows
  <2>2. CASE ~Of(j.by).super
    <3>1. Touched(j) = Members(j.r)
      BY <2>2 DEF Touched
    <3>2. \A u \in Members(j.r) : Of(u)' = Of(u)
      BY <1>5, <3>1, SameHolder
    <3>3. \A u \in Members(j.r) : Authority(After(j), holds[u])' = Authority(After(j), holds[u])
      <4> SUFFICES ASSUME NEW u \in Members(j.r)
                   PROVE  Authority(After(j), holds[u])' = Authority(After(j), holds[u])
        OBVIOUS
      <4>1. PICK set : set = holds[u]
        OBVIOUS
      <4>2. holds'[u] = set
        BY <1>5, <3>1, <4>1
      <4>3. \A r \in set : After(j)'[r] = After(j)[r]
        <5>1. set \in SUBSET Role
          BY <4>1 DEF Members, Types
        <5> QED
          BY <1>5, <3>1, <4>1, <5>1 DEF After, Types
      <4>4. Authority(After(j)', set) = Authority(After(j), set)
        BY <4>3, SameAuthority
      <4> QED
        BY <4>1, <4>2, <4>4
    <3>4. MemberBoundary(Of(j.by), j)'
      BY <1>2, <1>3, <3>2 DEF EditAllowed, MemberBoundary
    <3> QED
      BY <1>2, <1>3, <3>2, <3>3, <3>4 DEF EditAllowed
  <2> QED
    BY <2>1, <2>2
<1> QED
  BY <1>6, <1>7

\* What a request relies on survives steps that write nothing it reads.
LEMMA SoundStays ==
    ASSUME Types, Types', NEW j, Asks(j), Sound(j), j.op # "drop", Untouched(j)
    PROVE  Sound(j)'
<1>1. Allowed(j) /\ j.roles = RolesToLock(j) /\ j.users = UsersToLock(j)
  BY DEF Sound
<1>2. CASE j.op \in {"assign", "hire"}
  <2>1. AssignAllowed(j)
    BY <1>1, <1>2 DEF Allowed
  <2>2. /\ AssignAllowed(j)' /\ RolesToLock(j)' = RolesToLock(j) /\ UsersToLock(j)' = UsersToLock(j)
        /\ Of(j.u)' = Of(j.u) /\ Authority(role, j.set)' = Authority(role, j.set)
    BY <1>2, <2>1, AssignStays
  <2>3. Allowed(j)'
    BY <1>2, <2>2 DEF Allowed
  <2> QED
    BY <1>1, <1>2, <2>2, <2>3 DEF Sound
<1>3. CASE j.op \in {"edit", "agents"}
  <2>1. EditAllowed(j)
    BY <1>1, <1>3 DEF Allowed
  <2>2. EditAllowed(j)' /\ RolesToLock(j)' = RolesToLock(j) /\ UsersToLock(j)' = UsersToLock(j)
    BY <1>3, <2>1, EditStays
  <2>3. Allowed(j)'
    BY <1>3, <2>2 DEF Allowed
  <2> QED
    BY <1>1, <1>3, <2>2, <2>3 DEF Sound
<1>4. CASE j.op = "found"
  <2>1. FoundAllowed(j)
    BY <1>1, <1>4 DEF Allowed
  <2>2. FoundAllowed(j)' /\ RolesToLock(j)' = RolesToLock(j) /\ UsersToLock(j)' = UsersToLock(j)
    BY <1>4, <2>1, FoundStays
  <2>3. Allowed(j)'
    BY <1>4, <2>2 DEF Allowed
  <2> QED
    BY <1>1, <1>4, <2>2, <2>3 DEF Sound
<1> QED
  BY <1>2, <1>3, <1>4 DEF Asks, Kinds

\* The roles whose rows a request reads exist when it is about to commit, and it
\* locks the row of the role it edits.
LEMMA LocksLive ==
    ASSUME Types, HeldAreLive, NEW j, Asks(j), Sound(j), j.op # "drop"
    PROVE  /\ \A r \in j.roles : r \in Role /\ role[r].live
           /\ j.op \in {"edit", "agents"} => j.r \in j.roles /\ role[j.r].live
<1>1. Allowed(j) /\ j.roles = RolesToLock(j) /\ \A u \in Person : holds[u] \in SUBSET Role
  BY DEF Sound, Types
<1>2. CASE j.op \in {"assign", "hire"}
  <2>1. j.roles = holds[j.by] \cup holds[j.u] \cup j.set /\ AssignAllowed(j)
    BY <1>1, <1>2 DEF RolesToLock, Allowed
  <2> QED
    BY <1>1, <1>2, <2>1 DEF AssignAllowed, Available, HeldAreLive, Asks
<1>3. CASE j.op \in {"edit", "agents"}
  <2>1. /\ j.roles = {j.r} \cup holds[j.by] \cup UNION {holds[u] : u \in Touched(j)}
        /\ role[j.r].live /\ Touched(j) \subseteq Person
    BY <1>1, <1>3 DEF RolesToLock, Allowed, EditAllowed, Touched, Members
  <2> QED
    BY <1>1, <1>3, <2>1 DEF HeldAreLive, Asks
<1>4. CASE j.op = "found"
  <2>1. j.roles = holds[j.by]
    BY <1>1, <1>4 DEF RolesToLock
  <2> QED
    BY <1>1, <1>4, <2>1 DEF HeldAreLive, Asks
<1> QED
  BY <1>2, <1>3, <1>4 DEF Asks, Kinds

-----------------------------------------------------------------------------
(* A commit *)

\* What one commit writes: rows it locked, except that of a role it creates.
Writes(j) ==
    /\ \A r \in Role : role'[r] # role[r] =>
         /\ r = j.r
         /\ \/ j.op = "found" /\ role[r] = NoRole
            \/ j.r \in j.roles /\ role[r].live
    /\ \A u \in Person : holds'[u] # holds[u] =>
         /\ u \in j.users
         /\ \A r \in Role : (r \in holds'[u]) # (r \in holds[u]) => r \in j.roles

\* Roles that are held exist afterwards too.
LEMMA Commits ==
    ASSUME Types, HeldAreLive, NEW j, Runs(j), Sound(j),
           \/ j.op \in {"assign", "hire"} /\ ReplaceRoles(j)
           \/ j.op \in {"edit", "agents", "found"} /\ DefineRole(j)
           \/ j.op = "drop" /\ DeleteRole(j)
    PROVE  /\ role' \in [Role -> RoleRow] /\ holds' \in [Person -> SUBSET Role]
           /\ HeldAreLive' /\ Writes(j)
<1>1. Asks(j) /\ role \in [Role -> RoleRow] /\ holds \in [Person -> SUBSET Role]
  BY DEF Runs, Types
<1>2. CASE j.op \in {"assign", "hire"}
  <2>1. role' = role /\ holds' = [holds EXCEPT ![j.u] = j.set] /\ j.u \in Person /\ j.set \in SUBSET Role
    BY <1>1, <1>2 DEF ReplaceRoles, Asks
  <2>2. AssignAllowed(j) /\ j.roles = holds[j.by] \cup holds[j.u] \cup j.set /\ j.users = {j.by, j.u}
    BY <1>2 DEF Sound, Allowed, RolesToLock, UsersToLock
  <2>3. HeldAreLive'
    BY <1>1, <2>1, <2>2 DEF HeldAreLive, AssignAllowed, Available
  <2> QED
    BY <1>1, <2>1, <2>2, <2>3 DEF Writes
<1>3. CASE j.op \in {"edit", "agents", "found"}
  <2>1. /\ holds' = holds /\ role' = [role EXCEPT ![j.r] = j.def]
        /\ j.def \in RoleRow /\ j.def.live /\ j.r \in Role
    BY <1>1, <1>3 DEF DefineRole, After, Asks
  <2>2. HeldAreLive'
    BY <1>1, <2>1 DEF HeldAreLive
  <2>3. j.op = "found" => role[j.r] = NoRole
    BY DEF Sound, Allowed, FoundAllowed
  <2>4. j.op # "found" => j.r \in j.roles /\ role[j.r].live
    BY <1>1, <1>3, LocksLive
  <2> QED
    BY <1>1, <2>1, <2>2, <2>3, <2>4 DEF Writes
<1>4. CASE j.op = "drop"
  <2>1. /\ role' = [role EXCEPT ![j.r] = [NoRole EXCEPT !.on = TRUE]]
        /\ holds' = [u \in Person |-> holds[u] \ {j.r}]
        /\ role[j.r].live /\ Members(j.r) = {} /\ j.r \in j.roles /\ j.r \in Role
    BY <1>1, <1>4 DEF DeleteRole, Sound, Runs, Asks
  <2>2. \A u \in Person : j.r \notin holds[u]
    BY <2>1 DEF Members
  <2>3. holds' = holds
    BY <1>1, <2>1, <2>2
  <2>4. [NoRole EXCEPT !.on = TRUE] \in RoleRow
    BY DEF NoRole, RoleRow
  <2>5. role' \in [Role -> RoleRow] /\ \A r \in Role : r # j.r => role'[r] = role[r]
    BY <1>1, <2>1, <2>4
  <2>6. HeldAreLive'
    BY <1>1, <2>2, <2>3, <2>5 DEF HeldAreLive
  <2> QED
    BY <1>1, <2>1, <2>3, <2>5, <2>6 DEF Writes
<1> QED
  BY <1>2, <1>3, <1>4

\* The locks keep one commit out of what another request relies on.
LEMMA OthersUntouched ==
    ASSUME Types, Types', HeldAreLive, NEW i, NEW j, Runs(i), Runs(j), Sound(j),
           i.at = "write", j.at = "write", Writes(i), Apart(i, j)
    PROVE  Sound(j)'
<1>1. i.roles \cap j.roles = {} /\ i.users \cap j.users = {} /\ Asks(j)
  BY DEF Apart, HoldsRoles, HoldsUsers, Runs
<1>2. NoRole.live = FALSE
  BY DEF NoRole
<1>3. ASSUME NEW r \in Role, r \in j.roles, role[r].live PROVE role'[r] = role[r]
  BY <1>1, <1>2, <1>3 DEF Writes
<1>4. ASSUME NEW r \in Role, r \in j.roles PROVE Members(r)' = Members(r)
  BY <1>1, <1>4 DEF Writes, Members
<1>5. CASE j.op = "drop"
  <2>1. j.r \in Role /\ j.r \in j.roles /\ role[j.r].live /\ Members(j.r) = {}
    BY <1>1, <1>5 DEF Runs, Asks, Sound
  <2>2. role'[j.r] = role[j.r] /\ Members(j.r)' = Members(j.r)
    BY <2>1, <1>3, <1>4
  <2> QED
    BY <1>5, <2>1, <2>2 DEF Sound
<1>6. CASE j.op # "drop"
  <2>1. /\ Allowed(j) /\ j.roles = RolesToLock(j) /\ j.users = UsersToLock(j)
        /\ \A r \in j.roles : r \in Role /\ role[r].live
        /\ j.op \in {"edit", "agents"} => j.r \in j.roles
    BY <1>1, <1>6, LocksLive DEF Sound
  <2>2. \A r \in RolesToLock(j) : role'[r] = role[r]
    BY <1>3, <2>1
  <2>3. UsersToLock(j) \subseteq Person
    BY <1>1 DEF UsersToLock, Touched, Members, Asks, Kinds
  <2>4. \A u \in UsersToLock(j) : holds'[u] = holds[u]
    BY <1>1, <2>1, <2>3 DEF Writes
  <2>5. j.op = "found" => role'[j.r] = role[j.r]
    <3>1. j.op = "found" => role[j.r] = NoRole /\ j.r \in Role
      BY <1>1, <2>1 DEF Allowed, FoundAllowed, Asks
    <3>2. i.op = "found" /\ j.op = "found" => i.r # j.r
      BY DEF Apart
    <3> QED
      BY <1>2, <3>1, <3>2 DEF Writes
  <2>6. j.op \in {"edit", "agents"} => Members(j.r)' = Members(j.r)
    BY <1>1, <1>4, <2>1 DEF Asks
  <2> QED
    BY <1>1, <1>6, <2>2, <2>4, <2>5, <2>6, SoundStays DEF Untouched
<1> QED
  BY <1>5, <1>6

-----------------------------------------------------------------------------
(* Steps of one request *)

\* One request moves.
Moves(t, k) == job' = [job EXCEPT ![t] = k]

\* While it writes nothing, the others are not concerned.
LEMMA OneMoves ==
    ASSUME Inv, NEW t \in Job, NEW k, Moves(t, k), UNCHANGED <<role, holds>>, JobInv(k),
           \A s \in Job \ {t} : Apart(job[s], k) /\ Apart(k, job[s])
    PROVE  Inv'
<1>1. Types' /\ job'[t] = k /\ \A s \in Job \ {t} : job'[s] = job[s]
  BY DEF Inv, Types, Moves
<1>2. HeldAreLive'
  BY DEF Inv, HeldAreLive
<1>3. ASSUME NEW j, JobInv(j) PROVE JobInv(j)'
  <2>1. \A r : Members(r)' = Members(r)
    BY DEF Members
  <2>2. ASSUME Runs(j), Sound(j) PROVE Sound(j)'
    <3>1. CASE j.op = "drop"
      BY <2>1, <2>2, <3>1 DEF Sound
    <3>2. CASE j.op # "drop"
      BY <1>1, <2>1, <2>2, <3>2, SoundStays DEF Untouched, Runs, Inv
    <3> QED
      BY <3>1, <3>2
  <2> QED
    BY <1>3, <2>2 DEF JobInv, Runs, Asks
<1>4. \A s \in Job : JobInv(job[s])'
  <2> SUFFICES ASSUME NEW s \in Job PROVE JobInv(job[s])'
    OBVIOUS
  <2>1. PICK j : j = job'[s]
    OBVIOUS
  <2>2. JobInv(j)
    BY <1>1, <2>1 DEF Inv
  <2>3. JobInv(j)'
    BY <1>3, <2>2
  <2> QED
    BY <2>1, <2>3 DEF JobInv, Sound, Runs, Asks
<1>5. \A s, q \in Job : s # q => Apart(job[s], job[q])'
  <2>1. \A s, q \in Job : s # q => Apart(job'[s], job'[q])
    BY <1>1 DEF Inv
  <2> QED
    BY <2>1 DEF Apart, HoldsRoles, HoldsUsers
<1> QED
  BY <1>1, <1>2, <1>4, <1>5 DEF Inv

\* A request that holds no lock and creates no role is apart from all.
LEMMA NobodyIsApart ==
    ASSUME NEW i, NEW k, ~HoldsRoles(k), ~HoldsUsers(k), k.op # "found" \/ i.op # "found" \/ i.r # k.r
    PROVE  Apart(i, k) /\ Apart(k, i)
BY DEF Apart

\* It ends.
LEMMA Ends ==
    ASSUME Inv, NEW t \in Job, End(t), UNCHANGED <<role, holds>>
    PROVE  Inv'
<1>1. Moves(t, NoJob) /\ JobInv(NoJob)
  BY DEF End, Moves, JobInv
<1>2. ~HoldsRoles(NoJob) /\ ~HoldsUsers(NoJob) /\ NoJob.op # "found"
  BY DEF NoJob, HoldsRoles, HoldsUsers
<1> QED
  BY <1>1, <1>2, NobodyIsApart, OneMoves

\* A request that runs and changes its state only.
LEMMA RunsOn ==
    ASSUME NEW j, NEW k, Runs(j), IsJob(k), SameAsk(j, k), k.seen = j.seen, k.roles = j.roles
    PROVE  Runs(k)
BY DEF Runs, Asks, SameAsk

\* The first evaluation: nothing is locked yet.
LEMMA Starts ==
    ASSUME Inv, NEW t \in Job, NEW j, NEW where \in {"card", "roles"}, Asks(j), Start(t, j, where)
    PROVE  Inv'
<1>1. PICK facts : facts = Facts(j)
  OBVIOUS
<1>2. PICK i : i = [j EXCEPT !.at = where, !.seen = facts]
  OBVIOUS
<1>3. i = [at |-> where, op |-> j.op, by |-> j.by, u |-> j.u, r |-> j.r, def |-> j.def, set |-> j.set,
           approved |-> j.approved, seen |-> facts, roles |-> j.roles, users |-> j.users]
  BY <1>2 DEF Asks, IsJob
<1>4. IsJob(i) /\ i.at = where /\ i.seen = facts /\ SameAsk(j, i)
  BY <1>3 DEF IsJob, SameAsk
<1>5. PICK k : k = Locks(i)
  OBVIOUS
<1>6. /\ IsJob(k) /\ k.at = where /\ k.seen = facts /\ SameAsk(i, k) /\ k.roles = RolesToLock(i)
  BY <1>4, <1>5, NotesLocks
<1>7. Moves(t, k) /\ UNCHANGED <<role, holds>>
  BY <1>1, <1>2, <1>5 DEF Start, Moves
<1>8. JobInv(k)
  <2>1. Asks(k)
    BY <1>4, <1>6 DEF Asks, SameAsk
  <2>2. k.op = "drop" => k.seen[2] = TRUE /\ k.r \in k.roles
    <3> SUFFICES ASSUME k.op = "drop" PROVE k.seen[2] = TRUE /\ k.r \in k.roles
      OBVIOUS
    <3>1. j.op = "drop" /\ i.op = "drop" /\ i.r = k.r
      BY <1>4, <1>6 DEF SameAsk
    <3>2. role[j.r].live /\ facts = <<Members(j.r), role[j.r].live>>
      BY <1>1, <3>1 DEF Start, Allowed, Facts
    <3>3. j.r \in Role /\ role[j.r].live \in BOOLEAN
      BY DEF Inv, Types, Asks, RoleRow
    <3> QED
      BY <1>6, <3>1, <3>2, <3>3 DEF RolesToLock
  <2> QED
    BY <1>6, <2>1, <2>2 DEF JobInv, Runs
<1>9. \A s \in Job : k.op = "found" => job[s].op # "found" \/ job[s].r # k.r
  BY <1>4, <1>6 DEF Start, SameAsk
<1>10. ~HoldsRoles(k) /\ ~HoldsUsers(k)
  BY <1>6 DEF HoldsRoles, HoldsUsers
<1> QED
  BY <1>7, <1>8, <1>9, <1>10, NobodyIsApart, OneMoves

\* The card is approved: the rows to lock are noted again.
LEMMA Approves ==
    ASSUME Inv, NEW t \in Job, Approve(t)
    PROVE  Inv'
<1>1. PICK j : j = job[t]
  OBVIOUS
<1>2. j.at = "card" /\ UNCHANGED <<role, holds>> /\ JobInv(j) /\ Runs(j)
  BY <1>1 DEF Approve, Keep, Inv, JobInv, NoJob
<1>3. CASE End(t)
  BY <1>2, <1>3, Ends
<1>4. CASE ~End(t)
  <2>1. PICK i : i = [j EXCEPT !.at = "roles"]
    OBVIOUS
  <2>2. IsJob(i) /\ i.at = "roles" /\ SameAsk(j, i) /\ i.seen = j.seen
    BY <1>2, <2>1, MovesOn DEF Runs, Asks
  <2>3. PICK k : k = Locks(i)
    OBVIOUS
  <2>4. IsJob(k) /\ k.at = "roles" /\ SameAsk(i, k) /\ k.seen = j.seen /\ k.roles = RolesToLock(i)
    BY <2>2, <2>3, NotesLocks
  <2>5. Moves(t, k)
    BY <1>1, <1>4, <2>1, <2>3 DEF Approve, Moves
  <2>6. JobInv(k)
    <3>1. Asks(k)
      BY <1>2, <2>2, <2>4 DEF Runs, Asks, SameAsk
    <3>2. k.op = "drop" => k.seen[2] = TRUE /\ k.r \in k.roles
      BY <1>2, <2>2, <2>4 DEF Runs, SameAsk, RolesToLock
    <3> QED
      BY <2>4, <3>1, <3>2 DEF JobInv, Runs
  <2>7. \A s \in Job \ {t} : k.op = "found" => job[s].op # "found" \/ job[s].r # k.r
    BY <1>1, <2>2, <2>4 DEF Inv, Apart, SameAsk
  <2>8. ~HoldsRoles(k) /\ ~HoldsUsers(k)
    BY <2>4 DEF HoldsRoles, HoldsUsers
  <2> QED
    BY <1>2, <2>5, <2>6, <2>7, <2>8, NobodyIsApart, OneMoves
<1> QED
  BY <1>3, <1>4

\* A request takes a lock or is confirmed: its rows are nobody else's.
LEMMA Advances ==
    ASSUME Inv, NEW t \in Job, NEW w \in {"users", "check", "write"}, Goto(t, w), UNCHANGED <<role, holds>>,
           NEW j, j = job[t], Runs(j),
           w = "users" => j.roles \cap HeldRoles(t) = {},
           w = "check" => HoldsRoles(j) /\ j.users \cap HeldUsers(t) = {},
           w = "write" => HoldsUsers(j) /\ \A k : SameAsk(j, k) /\ k.seen = j.seen /\ k.roles = j.roles
                                                     /\ k.users = j.users => Sound(k)
    PROVE  Inv'
<1>1. PICK k : k = [j EXCEPT !.at = w]
  OBVIOUS
<1>2. /\ IsJob(k) /\ k.at = w /\ SameAsk(j, k)
      /\ k.seen = j.seen /\ k.roles = j.roles /\ k.users = j.users
  BY <1>1, MovesOn DEF Runs, Asks
<1>3. Moves(t, k)
  BY <1>1 DEF Goto, Moves
<1>4. JobInv(k)
  BY <1>2, RunsOn DEF JobInv
<1>5. ASSUME NEW s \in Job \ {t} PROVE Apart(job[s], k) /\ Apart(k, job[s])
  <2>1. Apart(job[s], j)
    BY DEF Inv
  <2>2. HoldsRoles(job[s]) => job[s].roles \cap k.roles = {}
    BY <1>2, <2>1 DEF HeldRoles, HoldsRoles, HoldsUsers, Apart
  <2>3. HoldsUsers(job[s]) /\ HoldsUsers(k) => job[s].users \cap k.users = {}
    BY <1>2, <2>1 DEF HeldUsers, HoldsRoles, HoldsUsers, Apart
  <2>4. job[s].op = "found" /\ k.op = "found" => job[s].r # k.r
    BY <1>2, <2>1 DEF Apart, SameAsk
  <2> QED
    BY <2>2, <2>3, <2>4 DEF Apart
<1> QED
  BY <1>3, <1>4, <1>5, OneMoves

\* The second evaluation confirms, under the locks, what the commit relies on.
LEMMA Rechecks ==
    ASSUME Inv, NEW t \in Job, Recheck(t)
    PROVE  Inv'
<1>1. PICK j : j = job[t]
  OBVIOUS
<1>2. j.at = "check" /\ UNCHANGED <<role, holds>> /\ Runs(j) /\ HoldsUsers(j)
  BY <1>1 DEF Recheck, Keep, Inv, JobInv, NoJob, HoldsUsers
<1>3. CASE ~Confirmed(j)
  BY <1>1, <1>2, <1>3, Ends DEF Recheck
<1>4. CASE Confirmed(j)
  <2>1. Goto(t, "write")
    BY <1>1, <1>4 DEF Recheck
  <2>2. Sound(j)
    <3>1. CASE j.op = "drop"
      <4>1. Members(j.r) = {} /\ j.seen = <<Members(j.r), role[j.r].live>> /\ j.seen[2] = TRUE
        BY <1>2, <1>4, <3>1 DEF Confirmed, Facts, Runs
      <4> QED
        BY <3>1, <4>1 DEF Sound
    <3>2. CASE j.op # "drop"
      <4>1. PICK k : k = Locks(j)
        OBVIOUS
      <4>2. Allowed(j) /\ k = j /\ Facts(j) = j.seen
        BY <1>4, <3>2, <4>1 DEF Confirmed
      <4>3. j.roles = RolesToLock(j) /\ j.users = UsersToLock(j)
        BY <1>2, <4>1, <4>2, NotesLocks DEF Runs, Asks
      <4>4. j.op = "assign" /\ j.approved =>
              j.seen = <<holds[j.by], holds[j.u], Version(j.by), Of(j.u), Authority(role, j.set)>>
        BY <4>2 DEF Facts
      <4> QED
        BY <3>2, <4>2, <4>3, <4>4 DEF Sound
    <3> QED
      BY <3>1, <3>2
  <2>3. ASSUME NEW k, SameAsk(j, k), k.seen = j.seen, k.roles = j.roles, k.users = j.users
        PROVE  Sound(k)
    <3>1. /\ j.op # "drop" => (Allowed(j) <=> Allowed(k))
          /\ RolesToLock(j) = RolesToLock(k) /\ UsersToLock(j) = UsersToLock(k)
      BY <1>2, <2>3, EvaluatedAlike DEF Runs, Asks
    <3> QED
      BY <2>2, <2>3, <3>1 DEF Sound, SameAsk
  <2> QED
    BY <1>1, <1>2, <2>1, <2>3, Advances
<1> QED
  BY <1>3, <1>4

\* The commit writes what the request locked; what the others rely on stays true.
LEMMA CommitsApart ==
    ASSUME Inv, NEW t \in Job, Commit(t)
    PROVE  Inv'
<1>1. PICK j : j = job[t]
  OBVIOUS
<1>2. j.at = "write" /\ Runs(j) /\ Sound(j) /\ Types /\ HeldAreLive /\ Moves(t, NoJob)
  BY <1>1 DEF Commit, End, Moves, Inv, JobInv, NoJob
<1>3. \/ j.op \in {"assign", "hire"} /\ ReplaceRoles(j)
      \/ j.op \in {"edit", "agents", "found"} /\ DefineRole(j)
      \/ j.op = "drop" /\ DeleteRole(j)
  BY <1>1 DEF Commit
<1>4. /\ role' \in [Role -> RoleRow] /\ holds' \in [Person -> SUBSET Role]
      /\ HeldAreLive' /\ Writes(j)
  BY <1>2, <1>3, Commits
<1>5. Types' /\ job'[t] = NoJob /\ \A s \in Job \ {t} : job'[s] = job[s]
  BY <1>2, <1>4 DEF Types, Moves
<1>6. ASSUME NEW s \in Job PROVE JobInv(job[s])'
  <2>1. PICK i : i = job'[s]
    OBVIOUS
  <2>2. CASE s = t
    BY <1>5, <2>2 DEF JobInv
  <2>3. CASE s # t
    <3>1. i = job[s] /\ JobInv(i) /\ Apart(j, i)
      BY <1>1, <1>5, <2>1, <2>3 DEF Inv
    <3>2. i.at = "write" /\ i # NoJob => Runs(i) /\ Sound(i)
      BY <3>1 DEF JobInv
    <3>3. i.at = "write" /\ i # NoJob => Sound(i)'
      BY <1>2, <1>4, <1>5, <3>1, <3>2, OthersUntouched
    <3>4. JobInv(i)'
      BY <3>1, <3>3 DEF JobInv, Runs, Asks
    <3> QED
      BY <2>1, <3>4 DEF JobInv, Sound, Runs, Asks
  <2> QED
    BY <2>2, <2>3
<1>7. \A s, q \in Job : s # q => Apart(job[s], job[q])'
  <2>1. ~HoldsRoles(NoJob) /\ ~HoldsUsers(NoJob) /\ NoJob.op # "found"
    BY DEF NoJob, HoldsRoles, HoldsUsers
  <2>2. \A s, q \in Job : s # q => Apart(job'[s], job'[q])
    BY <1>5, <2>1, NobodyIsApart DEF Inv
  <2> QED
    BY <2>2 DEF Apart, HoldsRoles, HoldsUsers
<1> QED
  BY <1>4, <1>5, <1>6, <1>7 DEF Inv

-----------------------------------------------------------------------------
(* What is asked for *)

\* The blank request of an actor.
LEMMA Blank ==
    ASSUME NEW op, NEW by
    PROVE  NewJob(op, by) = [at |-> "idle", op |-> op, by |-> by, u |-> Auth, r |-> Super, def |-> NoRole,
             set |-> {}, approved |-> FALSE, seen |-> <<>>, roles |-> {}, users |-> {}]
<1>1. PICK j : j = NoJob
  OBVIOUS
<1>2. j = [at |-> "idle", op |-> "none", by |-> Auth, u |-> Auth, r |-> Super, def |-> NoRole,
           set |-> {}, approved |-> FALSE, seen |-> <<>>, roles |-> {}, users |-> {}]
  BY <1>1 DEF NoJob
<1>3. NewJob(op, by) = [j EXCEPT !.op = op, !.by = by]
  BY <1>1 DEF NewJob
<1> QED
  BY <1>2, <1>3

\* Requests that give roles to an account.
LEMMA AsksForRoles ==
    ASSUME Constants, NEW op \in {"assign", "hire"}, NEW by \in Actor, NEW u \in Person, by # u,
           NEW set \in Choice, NEW j,
           \/ j = [NewJob(op, by) EXCEPT !.u = u, !.set = set]
           \/ j = [NewJob(op, by) EXCEPT !.u = u, !.set = set, !.approved = TRUE]
    PROVE  Asks(j)
<1>1. PICK yes : j = [at |-> "idle", op |-> op, by |-> by, u |-> u, r |-> Super, def |-> NoRole,
             set |-> set, approved |-> yes, seen |-> <<>>, roles |-> {}, users |-> {}]
  BY Blank
<1>2. by \in Person /\ Super \in Role /\ set \in SUBSET Role
  BY DEF Constants
<1> QED
  BY <1>1, <1>2 DEF Asks, IsJob, Kinds

\* The record of a request about a role.
AboutRole(op, by, r, def) ==
    [at |-> "idle", op |-> op, by |-> by, u |-> Auth, r |-> r, def |-> def,
     set |-> {}, approved |-> FALSE, seen |-> <<>>, roles |-> {}, users |-> {}]

\* It is what the pages and the tools fill in.
LEMMA FilledIn ==
    ASSUME NEW op, NEW by, NEW r, NEW def, NEW j, j = [NewJob(op, by) EXCEPT !.r = r, !.def = def]
    PROVE  j = AboutRole(op, by, r, def)
BY Blank DEF AboutRole

\* Its fields.
LEMMA FormOfRole ==
    ASSUME NEW op, NEW by, NEW r, NEW def, NEW j, j = AboutRole(op, by, r, def)
    PROVE  IsJob(j) /\ j.op = op /\ j.by = by /\ j.r = r /\ j.set = {} /\ j.def = def
BY DEF IsJob, AboutRole

\* Requests about a role.
LEMMA AsksForRole ==
    ASSUME Constants, NEW op \in {"edit", "agents", "found"}, NEW by \in Actor, NEW r \in Role, NEW def \in RoleRow,
           def.live, NEW j, j = AboutRole(op, by, r, def)
    PROVE  Asks(j)
<1>1. IsJob(j) /\ j.op = op /\ j.by = by /\ j.r = r /\ j.set = {} /\ j.def = def
  BY FormOfRole
<1>2. by \in Person
  BY DEF Constants
<1> QED
  BY <1>1, <1>2 DEF Asks, Kinds

\* A deletion.
LEMMA AsksForDeletion ==
    ASSUME Constants, NEW by \in Actor, NEW r \in Role, NEW j, j = [NewJob("drop", by) EXCEPT !.r = r]
    PROVE  Asks(j)
<1>1. j = [at |-> "idle", op |-> "drop", by |-> by, u |-> Auth, r |-> r, def |-> NoRole,
           set |-> {}, approved |-> FALSE, seen |-> <<>>, roles |-> {}, users |-> {}]
  BY Blank
<1>2. by \in Person
  BY DEF Constants
<1> QED
  BY <1>1, <1>2 DEF Asks, IsJob, Kinds

\* The definitions an edit can ask for: one field of an existing row changes.
Edited(r) ==
    Edits(r) \cup {WithMenu(r, m) : m \in Menu \cup {Auth}} \cup {WithAgents(r, ags) : ags \in SUBSET Agent}

\* They leave the role alive.
LEMMA EditedIsARow ==
    ASSUME Types, NEW r \in Role, NEW def \in Edited(r)
    PROVE  def \in RoleRow /\ def.live = role[r].live
<1>1. PICK row : row = role[r]
  OBVIOUS
<1>2. row \in RoleRow
  BY <1>1 DEF Types
<1>3. CASE def \in Edits(r)
  BY <1>1, <1>2, <1>3 DEF Edits, RoleRow
<1>4. CASE \E m \in Menu \cup {Auth} : def = WithMenu(r, m)
  <2>1. PICK m \in Menu \cup {Auth} : def = WithMenu(r, m)
    BY <1>4
  <2>2. m \in Grant /\ row.grants \in SUBSET Grant
    BY <1>2 DEF Grant, RoleRow
  <2>3. PICK gs \in SUBSET Grant : def = [row EXCEPT !.grants = gs]
    BY <1>1, <2>1, <2>2 DEF WithMenu
  <2> QED
    BY <1>1, <1>2, <2>3 DEF RoleRow
<1>5. CASE \E ags \in SUBSET Agent : def = WithAgents(r, ags)
  <2>1. PICK ags \in SUBSET Agent : def = WithAgents(r, ags)
    BY <1>5
  <2>2. row.grants \in SUBSET Grant
    BY <1>2 DEF RoleRow
  <2>3. PICK gs \in SUBSET Grant : def = [row EXCEPT !.grants = gs]
    BY <1>1, <2>1, <2>2 DEF WithAgents, Grant
  <2> QED
    BY <1>1, <1>2, <2>3 DEF RoleRow
<1> QED
  BY <1>3, <1>4, <1>5 DEF Edited

\* Whatever a page or a tool asks for begins with the first evaluation.
LEMMA Asked ==
    ASSUME Constants, Inv, NEW t \in Job, NEW by \in Actor,
           \/ \E u \in Person, set \in Choice :
                \/ UpdateUserRoles(t, by, u, set) \/ ToolUpdateRoles(t, by, u, set)
                \/ AddUser(t, by, u, set)
           \/ \E r \in Role :
                \/ \E w \in BOOLEAN : AddRole(t, by, r, w)
                \/ \E def \in Edits(r) : UpdateRole(t, by, r, def) \/ DryRunUpdate(t, by, r, def)
                \/ \E m \in Menu \cup {Auth} :
                     UpdateRoleMenu(t, by, r, m) \/ DryRunUpdateMenus(t, by, r, m)
                \/ \E ags \in SUBSET Agent :
                     PutBinding(t, by, r, ags) \/ DryRunUpdateAgents(t, by, r, ags)
                \/ RemoveRole(t, by, r)
    PROVE  Inv'
<1>1. CASE \E u \in Person, set \in Choice : UpdateUserRoles(t, by, u, set)
  <2>1. PICK u \in Person, set \in Choice : UpdateUserRoles(t, by, u, set)
    BY <1>1
  <2>2. PICK j : j = [NewJob("assign", by) EXCEPT !.u = u, !.set = set]
    OBVIOUS
  <2>3. by # u /\ Start(t, j, "roles")
    BY <2>1, <2>2 DEF UpdateUserRoles
  <2> QED
    BY <2>2, <2>3, AsksForRoles, Starts
<1>2. CASE \E u \in Person, set \in Choice : ToolUpdateRoles(t, by, u, set)
  <2>1. PICK u \in Person, set \in Choice : ToolUpdateRoles(t, by, u, set)
    BY <1>2
  <2>2. PICK j : j = [NewJob("assign", by) EXCEPT !.u = u, !.set = set, !.approved = TRUE]
    OBVIOUS
  <2>3. by # u /\ Start(t, j, "card")
    BY <2>1, <2>2 DEF ToolUpdateRoles
  <2> QED
    BY <2>2, <2>3, AsksForRoles, Starts
<1>3. CASE \E u \in Person, set \in Choice : AddUser(t, by, u, set)
  <2>1. PICK u \in Person, set \in Choice : AddUser(t, by, u, set)
    BY <1>3
  <2>2. PICK j : j = [NewJob("hire", by) EXCEPT !.u = u, !.set = set]
    OBVIOUS
  <2>3. Start(t, j, "roles")
    BY <2>1, <2>2 DEF AddUser
  <2>4. j.op = "hire" /\ j.by = by /\ j.u = u
    BY <2>2, Blank
  <2>5. by # u
    BY <2>3, <2>4 DEF Start
  <2> QED
    BY <2>2, <2>3, <2>5, AsksForRoles, Starts
<1>4. CASE \E r \in Role, w \in BOOLEAN : AddRole(t, by, r, w)
  <2>1. PICK r \in Role, w \in BOOLEAN : AddRole(t, by, r, w)
    BY <1>4
  <2>2. PICK def : def = NewRole(w)
    OBVIOUS
  <2>3. def \in RoleRow /\ def.live
    BY <2>2 DEF NewRole, NoRole, RoleRow
  <2>4. PICK j : j = [NewJob("found", by) EXCEPT !.r = r, !.def = def]
    OBVIOUS
  <2>5. Start(t, j, "roles")
    BY <2>1, <2>2, <2>4 DEF AddRole
  <2>6. j = AboutRole("found", by, r, def)
    BY <2>4, FilledIn
  <2>7. Asks(j)
    BY <2>3, <2>6, AsksForRole
  <2> QED
    BY <2>5, <2>7, Starts
<1>5. ASSUME NEW r \in Role, NEW def \in Edited(r), NEW op \in {"edit", "agents"}, NEW where \in {"roles", "card"},
             Start(t, [NewJob(op, by) EXCEPT !.r = r, !.def = def], where)
      PROVE  Inv'
  <2>1. PICK j : j = [NewJob(op, by) EXCEPT !.r = r, !.def = def]
    OBVIOUS
  <2>2. j = AboutRole(op, by, r, def) /\ Start(t, j, where)
    BY <1>5, <2>1, FilledIn
  <2>3. j.op = op /\ j.r = r
    BY <2>2, FormOfRole
  <2>4. role[r].live
    BY <2>2, <2>3 DEF Start, Allowed, EditAllowed
  <2>5. def \in RoleRow /\ def.live
    BY <2>4, EditedIsARow DEF Inv
  <2>6. Asks(j)
    BY <2>2, <2>5, AsksForRole
  <2> QED
    BY <2>2, <2>6, Starts
<1>6. CASE \E r \in Role : \E def \in Edits(r) : UpdateRole(t, by, r, def) \/ DryRunUpdate(t, by, r, def)
  BY <1>5, <1>6 DEF UpdateRole, DryRunUpdate, Edited
<1>7. CASE \E r \in Role, m \in Menu \cup {Auth} : UpdateRoleMenu(t, by, r, m) \/ DryRunUpdateMenus(t, by, r, m)
  BY <1>5, <1>7 DEF UpdateRoleMenu, DryRunUpdateMenus, Edited
<1>8. CASE \E r \in Role, ags \in SUBSET Agent : PutBinding(t, by, r, ags) \/ DryRunUpdateAgents(t, by, r, ags)
  BY <1>5, <1>8 DEF PutBinding, DryRunUpdateAgents, Edited
<1>9. CASE \E r \in Role : RemoveRole(t, by, r)
  <2>1. PICK r \in Role : RemoveRole(t, by, r)
    BY <1>9
  <2>2. PICK j : j = [NewJob("drop", by) EXCEPT !.r = r]
    OBVIOUS
  <2>3. Start(t, j, "roles")
    BY <2>1, <2>2 DEF RemoveRole
  <2> QED
    BY <2>2, <2>3, AsksForDeletion, Starts
<1> QED
  BY <1>1, <1>2, <1>3, <1>4, <1>6, <1>7, <1>8, <1>9

-----------------------------------------------------------------------------
(* Theorems *)

\* The invariant holds at the start and after every step of every request.
THEOREM Invariance ==
    ASSUME Constants
    PROVE  Spec => []Inv
<1>1. Init => Inv
  <2> SUFFICES ASSUME Init PROVE Inv
    OBVIOUS
  <2>1. NoRole \in RoleRow
    BY DEF NoRole, RoleRow
  <2>2. Types
    BY <2>1 DEF Init, Types, Constants
  <2>3. HeldAreLive
    BY DEF Init, HeldAreLive, Constants
  <2>4. \A t \in Job : job[t] = NoJob
    BY DEF Init
  <2>5. ~HoldsRoles(NoJob) /\ ~HoldsUsers(NoJob) /\ NoJob.op # "found"
    BY DEF NoJob, HoldsRoles, HoldsUsers
  <2> QED
    BY <2>2, <2>3, <2>4, <2>5, NobodyIsApart DEF Inv, JobInv
<1>2. ASSUME Inv, NEW t \in Job, LockRoles(t) PROVE Inv'
  <2>1. PICK j : j = job[t]
    OBVIOUS
  <2>2. Runs(j) /\ UNCHANGED <<role, holds>> /\ j.roles \cap HeldRoles(t) = {}
    BY <1>2, <2>1 DEF LockRoles, Keep, Inv, JobInv, NoJob
  <2>3. CASE Goto(t, "users")
    BY <1>2, <2>1, <2>2, <2>3, Advances
  <2>4. CASE End(t)
    BY <1>2, <2>2, <2>4, Ends
  <2> QED
    BY <1>2, <2>3, <2>4 DEF LockRoles
<1>3. ASSUME Inv, NEW t \in Job, LockUsers(t) PROVE Inv'
  <2>1. PICK j : j = job[t]
    OBVIOUS
  <2>2. Runs(j) /\ UNCHANGED <<role, holds>> /\ HoldsRoles(j) /\ j.users \cap HeldUsers(t) = {} /\ Goto(t, "check")
    BY <1>3, <2>1 DEF LockUsers, Keep, Inv, JobInv, NoJob, HoldsRoles
  <2> QED
    BY <1>3, <2>1, <2>2, Advances
<1>4. ASSUME Inv, NEW t \in Job, RollBack(t) PROVE Inv'
  BY <1>4, Ends DEF RollBack, Keep
<1>5. ASSUME Inv, UNCHANGED vars PROVE Inv'
  <2>1. CASE Job = {}
    BY <1>5, <2>1 DEF Inv, Types, HeldAreLive, vars
  <2>2. CASE Job # {}
    <3>1. PICK t \in Job : TRUE
      BY <2>2
    <3>2. PICK k : k = job[t]
      OBVIOUS
    <3>3. Moves(t, k)
      BY <1>5, <3>2 DEF Moves, vars, Inv, Types
    <3> QED
      BY <1>5, <3>2, <3>3, OneMoves DEF vars, Inv
  <2> QED
    BY <2>1, <2>2
<1>6. Inv /\ [Next]_vars => Inv'
  <2> SUFFICES ASSUME Inv, Next PROVE Inv'
    BY <1>5
  <2>1. PICK t \in Job :
          \/ \E by \in Actor :
               \/ \E u \in Person, set \in Choice :
                    \/ UpdateUserRoles(t, by, u, set) \/ ToolUpdateRoles(t, by, u, set)
                    \/ AddUser(t, by, u, set)
               \/ \E r \in Role :
                    \/ \E w \in BOOLEAN : AddRole(t, by, r, w)
                    \/ \E def \in Edits(r) : UpdateRole(t, by, r, def) \/ DryRunUpdate(t, by, r, def)
                    \/ \E m \in Menu \cup {Auth} :
                         UpdateRoleMenu(t, by, r, m) \/ DryRunUpdateMenus(t, by, r, m)
                    \/ \E ags \in SUBSET Agent :
                         PutBinding(t, by, r, ags) \/ DryRunUpdateAgents(t, by, r, ags)
                    \/ RemoveRole(t, by, r)
          \/ Approve(t) \/ LockRoles(t) \/ LockUsers(t)
          \/ Recheck(t) \/ Commit(t) \/ RollBack(t)
    BY Zenon DEF Next
  <2> QED
    BY <1>2, <1>3, <1>4, <2>1, Asked, Approves, Rechecks, CommitsApart
<1> QED
  BY <1>1, <1>6, PTL DEF Spec

\* What one sound request of an account without the super role makes of another
\* account stays within its own authority.
LEMMA SoundIsBounded ==
    ASSUME Types, HeldAreLive, NEW j, Runs(j), Sound(j), j.op # "drop", ~Of(j.by).super, NEW u \in Person,
           NEW new, new = Authority(RolesAfter(j), HoldsAfter(j)[u]), new # Of(u)
    PROVE  u # j.by /\ ~Of(u).super /\ ~new.super /\ Dominates(Of(j.by), new)
<1>1. Asks(j) /\ Allowed(j)
  BY DEF Runs, Sound
<1>2. CASE j.op \in {"assign", "hire"}
  <2>1. AssignAllowed(j) /\ j.u \in Person /\ j.by # j.u
    BY <1>1, <1>2 DEF Allowed, Asks
  <2>2. new = Authority(role, [holds EXCEPT ![j.u] = j.set][u])
    BY <1>2 DEF RolesAfter, HoldsAfter
  <2>3. u = j.u /\ new = Authority(role, j.set)
    BY <2>1, <2>2 DEF Of, Types
  <2> QED
    BY <2>1, <2>3 DEF AssignAllowed, TargetProtected
<1>3. CASE j.op \in {"edit", "agents"}
  <2>1. EditAllowed(j) /\ j.r \in Role
    BY <1>1, <1>3 DEF Allowed, Asks
  <2>2. new = Authority(After(j), holds[u]) /\ holds[u] \in SUBSET Role
    BY <1>3 DEF RolesAfter, HoldsAfter, Types
  <2>3. \A r \in Role : r # j.r => After(j)[r] = role[r]
    BY DEF After, Types
  <2>4. u \in Members(j.r)
    <3>1. CASE j.r \notin holds[u]
      <4>1. \A r \in holds[u] : After(j)[r] = role[r]
        BY <2>2, <2>3, <3>1
      <4>2. Authority(After(j), holds[u]) = Authority(role, holds[u])
        BY <4>1, SameAuthority
      <4> QED
        BY <2>2, <4>2 DEF Of
    <3> QED
      BY <3>1 DEF Members
  <2>5. j.r # Super /\ u # j.by /\ ~Of(u).super /\ Dominates(Of(j.by), new)
    BY <2>1, <2>2, <2>4 DEF EditAllowed, MemberBoundary
  <2>6. ~new.super
    <3>1. new.super => Super \in holds[u] /\ After(j)[Super].on
      BY <2>2, SuperIsARow
    <3>2. Super \in holds[u] /\ role[Super].on => Of(u).super
      BY SuperIsARow DEF Of
    <3> QED
      BY <2>2, <2>3, <2>5, <3>1, <3>2
  <2> QED
    BY <2>5, <2>6
<1>4. CASE j.op = "found"
  <2>1. role[j.r] = NoRole /\ j.r \in Role
    BY <1>1, <1>4 DEF Allowed, FoundAllowed, Asks
  <2>2. new = Authority(After(j), holds[u]) /\ holds[u] \in SUBSET Role
    BY <1>4 DEF RolesAfter, HoldsAfter, Types
  <2>3. j.r \notin holds[u]
    BY <2>1 DEF HeldAreLive, NoRole
  <2>4. \A r \in holds[u] : After(j)[r] = role[r]
    BY <2>2, <2>3 DEF After, Types
  <2> QED
    BY <2>2, <2>4, SameAuthority DEF Of
<1> QED
  BY <1>1, <1>2, <1>3, <1>4 DEF Asks, Kinds

\* Nobody gives away, through any sequence of concurrent edits, what he does not
\* hold at the moment of the commit; a deleted role has no member; an approved
\* assignment has the effect its card showed.
THEOREM GrantsStayBounded ==
    ASSUME Constants
    PROVE  Spec => []GrantsHold
<1>1. Inv => GrantsHold
  <2> SUFFICES ASSUME Inv PROVE GrantsHold
    OBVIOUS
  <2>1. ASSUME NEW t \in Job, NEW j, j = job[t], j.at = "write"
        PROVE  Runs(j) /\ Sound(j) /\ Types /\ HeldAreLive
    BY <2>1 DEF Inv, JobInv, NoJob
  <2>2. NoEscalation
    BY <2>1, SoundIsBounded DEF NoEscalation
  <2>3. DeletedIsUnused
    BY <2>1 DEF DeletedIsUnused, Sound
  <2>4. ApprovedIsApplied
    BY <2>1 DEF ApprovedIsApplied, Sound
  <2> QED
    BY <2>2, <2>3, <2>4 DEF GrantsHold
<1> QED
  BY <1>1, Invariance, PTL
=============================================================================
