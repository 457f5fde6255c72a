-------------------------- MODULE MCAdministration --------------------------
(***************************************************************************)
(* The administration suite: small instances of the components that keep   *)
(* accounts, tenants, departments, roles, menus and dictionaries.          *)
(*                                                                         *)
(* On the modelled paths these components share no state.  A behaviour     *)
(* therefore picks one of them (part) and moves only that one, and all use *)
(* the variables s1, s2, ... in turn for theirs: the states of the suite   *)
(* are exactly the states of every component by itself.                    *)
(***************************************************************************)
EXTENDS Integers, Sequences, FiniteSets, TLC

CONSTANTS Request,    \* two concurrent requests, of whatever kind
          Password,   \* passwords of the account
          Address,    \* mail addresses
          MaxTries,   \* verifications of a recovery code,
          MaxCode,    \* bounds of the codes issued
          MaxVersion, \* and of the account's version
          FileRows,   \* rows of the file of an import,
          Chunk,      \* written in chunks
          Tenant,     \* tenant ids,
          IdemKey,    \* idempotency keys
          Body,       \* and bodies of the requests to the platform
          MaxControls,\* bounds of these requests
          MaxOld,     \* and of a tenant's expired logs
          Dept,       \* departments,
          FirstTree,  \* the parents of those that exist at first,
          FirstHome,  \* the departments of each manager at first,
          MaxLevel,   \* DEPT_MAX_LEVEL,
          MaxAsks,    \* and a bound of the requests about them
          DictType,   \* dictionary types,
          Datum,      \* their data
          Word        \* and the values of their codes and names

\* A request is no stand-in for the free row lock.
ASSUME RequestsAreSomebody == "none" \notin Request

\* A bound of zero versions would leave no first version.
ASSUME RecoveryBounds == MaxTries \in Nat /\ MaxCode \in Nat /\ MaxVersion \in Nat \ {0}

\* A chunk has a row.
ASSUME ImportBounds == FileRows \in Nat /\ Chunk \in Nat \ {0}

\* No key is the mark of a tenant that was prepared with none.
ASSUME TenantBounds == "none" \notin IdemKey /\ MaxControls \in Nat /\ MaxOld \in Nat

\* At first there are roots and their children, and the managers are in some of them.
ASSUME DeptBounds ==
  /\ Dept \subseteq Nat \ {0} /\ DOMAIN FirstTree \subseteq Dept
  /\ \A d \in DOMAIN FirstTree :
       FirstTree[d] # 0 => FirstTree[d] \in DOMAIN FirstTree /\ FirstTree[FirstTree[d]] = 0
  /\ FirstHome \in [{"mgr", "boss"} -> SUBSET DOMAIN FirstTree]

\* The tables of the dictionaries are finite.
ASSUME FinitelyManyTypes == IsFiniteSet(DictType)

VARIABLES part, s1, s2, s3, s4, s5, s6, s7, s8, s9, s10, s11

from10 == <<s10, s11>>
from9 == <<s9, from10>>
from7 == <<s7, s8, from9>>
from6 == <<s6, from7>>
from5 == <<s5, from6>>
from4 == <<s4, from5>>
vars == <<part, s1, s2, s3, from4>>

Sessions == INSTANCE AuthSessionProofs WITH
  AccessLife <- 1, RefreshLife <- 1, MaxClock <- 1, MaxEpoch <- 2, MaxPairs <- 2,
  clock <- s1, tenant <- s2, user <- s3, pairs <- s4, black <- s5, req <- s6,
  epoch <- s7, proof <- s8, redeemed <- s9, twice <- s10, stale <- s11

Recovery == INSTANCE AccountRecovery WITH
  user <- s1, codes <- s2, mailed <- s3, issued <- s4, lock <- s5, req <- s6,
  spent <- s7, born <- s8, proved <- s9

Import == INSTANCE UserImport WITH
  Rows <- FileRows, ChunkSize <- Chunk, MaxDrift <- 1,
  batch <- s1, users <- s2, facts <- s3, drifts <- s4, files <- s5, op <- s6,
  lock <- s7, pc <- s8, tx <- s9

\* Each of the two accounts owns the other's conversation; one conversation
\* exists at the start.
Owner == [c \in {1, 2} |-> 3 - c]

Deletion == INSTANCE UserDeletionProofs WITH
  User <- {1, 2}, Conv <- {1, 2}, Owner <- Owner, Early <- {1},
  Request <- {1},
  alive <- s1, conv <- s2, op <- s3, txn <- s4, convLock <- s5, userLock <- s6

Tenants == INSTANCE TenantControl WITH
  Key <- IdemKey, MaxRequests <- MaxControls,
  tenant <- s1, old <- s2, principal <- s3, req <- s4, held <- s5, audit <- s6,
  did <- s7, submitted <- s8

\* A root department with two children; the second manager leads one of them.
TwoChildren == (1 :> 0) @@ (2 :> 1) @@ (3 :> 1)
RootAndChild == ("boss" :> {1}) @@ ("mgr" :> {2})

Departments == INSTANCE DeptTree WITH
  Tx <- Request,
  dept <- s1, home <- s2, custom <- s3, tx <- s4, asks <- s5

\* A super administrator, a manager with a wide role, an employee, a newcomer.
FirstRole == [r \in {"RS", "R1", "R2"} |->
  [live |-> TRUE, on |-> TRUE,
   grants |-> (IF r = "R2" THEN {} ELSE {"auth"}) \cup (IF r = "RS" THEN {} ELSE {"m"}),
   wide |-> r # "R2"]]

Persons == {"root", "mgr", "emp", "new"}
FirstHold == [u \in Persons |->
  CASE u = "root" -> {"RS"} [] u = "mgr" -> {"R1"} [] u = "emp" -> {"R2"} [] u = "new" -> {}]

Grants == INSTANCE GrantBoundsProofs WITH
  Job <- Request, Person <- Persons,
  Role <- {"RS", "R1", "R2", "R3"}, Super <- "RS",
  Menu <- {"m"}, Agent <- {"a"}, Actor <- {"root", "mgr"},
  Choice <- {{"RS"}, {"R1"}, {"R2"}}, MaxRequests <- 2,
  FirstRole <- FirstRole, FirstHold <- FirstHold,
  role <- s1, holds <- s2, job <- s3, made <- s4

Menus == INSTANCE MenuTree WITH
  Role <- {"o1"}, Code <- {"c"}, Lists <- {<<>>, <<"c", "c">>}, MaxMenu <- 3,
  MaxWrites <- 3,
  menu <- s1, grant <- s2, req <- s3, last <- s4, writes <- s5

Words == INSTANCE Dictionary WITH
  Type <- DictType,
  type <- s1, datum <- s2, req <- s3

\* The values of the variables that the chosen component does not need.
Idle3 == s4 = 0
Idle4 == s5 = 0
Idle5 == s6 = 0
Idle6 == s7 = 0 /\ s8 = 0
Idle8 == s9 = 0
Idle9 == s10 = 0 /\ s11 = 0

Init ==
  \/ part = "sessions" /\ Sessions!Init
  \/ part = "recovery" /\ Recovery!Init /\ Idle9
  \/ part = "import" /\ Import!Init /\ Idle9
  \/ part = "tenants" /\ Tenants!Init /\ Idle8 /\ Idle9
  \/ part = "deletion" /\ Deletion!Init /\ Idle6 /\ Idle8 /\ Idle9
  \/ part = "departments" /\ Departments!Init /\ Idle5 /\ Idle6 /\ Idle8 /\ Idle9
  \/ part = "menus" /\ Menus!Init /\ Idle5 /\ Idle6 /\ Idle8 /\ Idle9
  \/ part = "grants" /\ Grants!Init /\ Idle4 /\ Idle5 /\ Idle6 /\ Idle8 /\ Idle9
  \/ part = "words" /\ Words!Init /\ Idle3 /\ Idle4 /\ Idle5 /\ Idle6 /\ Idle8 /\ Idle9

Next ==
  /\ UNCHANGED part
  /\ \/ part = "sessions" /\ Sessions!Next
     \/ part = "recovery" /\ Recovery!Next /\ UNCHANGED from10
     \/ part = "import" /\ Import!Next /\ UNCHANGED from10
     \/ part = "tenants" /\ Tenants!Next /\ UNCHANGED from9
     \/ part = "deletion" /\ Deletion!Next /\ UNCHANGED from7
     \/ part = "departments" /\ Departments!Next /\ UNCHANGED from6
     \/ part = "menus" /\ Menus!Next /\ UNCHANGED from6
     \/ part = "grants" /\ Grants!Next /\ UNCHANGED from5
     \/ part = "words" /\ Words!Next /\ UNCHANGED from4

Spec == Init /\ [][Next]_vars

Symmetry == Permutations(Request) \cup Permutations(Password)

-----------------------------------------------------------------------------
\* After a password change, a revocation or a logout no request enters or
\* writes with an older token, and a refresh token is redeemed once however
\* many refreshes race (auth/service.py, auth/api.py).
SessionsHold == part = "sessions" => Sessions!SessionsHold

\* A recovery code is spent once, dies with the account version it was made
\* for, and an address counts as verified only when its owner proved it
\* (account_security_service.py, email_verification_service.py).
RecoveryHolds ==
  part = "recovery" =>
    /\ Recovery!TypeOK
    /\ Recovery!CodeSpentOnce /\ Recovery!VerifiedIsProved /\ Recovery!OldCodeIsDead

\* A finished import's record matches the accounts it wrote, a strict import
\* writes all rows or none, and the files of a preview outlive their use
\* (user_import_service.py).
ImportHolds ==
  part = "import" =>
    Import!RecordMatchesUsers /\ Import!StrictIsWhole /\ Import!FilesOutliveUse

\* What the platform's audit says of a control request is what was done, one
\* idempotency key prepares one tenant, and a request acts with an authority
\* that still holds when it commits (platform/audit.py, platform/auth.py).
TenantsHold ==
  part = "tenants" =>
    /\ Tenants!TypeOK
    /\ Tenants!AuditIsTrue /\ Tenants!KeyNamesOneTenant /\ Tenants!LiveAuthority

\* Deleting a user takes along no conversation whose operation is unsettled,
\* and no deletions or edits of users wait for each other in a circle
\* (user_delete_dependency_service.py).
DeletionHolds ==
  /\ [](part = "deletion" => Deletion!TypeOK /\ Deletion!NoWaitCycle)
  /\ [][part = "deletion" => Deletion!EvidenceSurvives]_vars

\* Concurrent creations, moves and deletions keep every ancestor path true,
\* delete nothing in use, and touch only what the approver may see
\* (dept_service.py).
DepartmentsHold ==
  part = "departments" =>
    /\ Departments!PathIsTrue
    /\ Departments!NothingCascades /\ Departments!ImpactStaysInside

\* Nobody grants more than they hold at the commit, a deleted role had no
\* member left, and what is applied is what was approved
\* (user_role_assignment_service.py, role_management_service.py).
GrantsHold == part = "grants" => Grants!GrantsHold

\* Concurrent edits of the menus leave no orphan, lose no grant but those the
\* form removed, and give a user exactly the reachable routes (menu_service.py).
MenusHold ==
  /\ [](part = "menus" =>
          Menus!TypeOK /\ Menus!NothingDangles /\ Menus!RoutesAreReachable)
  /\ [][part = "menus" => Menus!EditIsExact]_vars

\* Dictionary data keep their type whatever is deleted or renamed meanwhile
\* (dict_type_service.py).
WordsHold == part = "words" => Words!TypeOK /\ Words!DictionaryIsWhole
=============================================================================
