------------------------ MODULE AdministrationProofs ------------------------
(***************************************************************************)
(* Theorems about the administration suite: what its runs check holds of   *)
(* every behaviour of the suite.  Sessions, deletions and grants have      *)
(* proof modules, whose theorems about one component are carried over to   *)
(* the suite; of the other components the proofs are here.                 *)
(*                                                                         *)
(* A behaviour of the suite is a behaviour of the component it picked, and *)
(* says nothing of the others: each theorem ends with that argument.       *)
(***************************************************************************)
EXTENDS MCAdministration, FiniteSetTheorems, TLAPS

\* No step of the suite turns to another component.
LEMMA PartStays == ASSUME NEW p PROVE ~(part = p) /\ [Next]_vars => ~(part = p)'
  BY DEF Next, vars

-----------------------------------------------------------------------------
(* Components with proofs of their own *)

\* No revoked token lets a request in or lets it write, and a refresh token is
\* redeemed once (auth/service.py).
THEOREM SessionsAreSound == Spec => []SessionsHold
<1>1. Sessions!Spec => []Sessions!SessionsHold
  BY Sessions!SessionsStaySound DEF Sessions!Constants
<1>2. part = "sessions" /\ Init => Sessions!Init
  BY DEF Init
<1>3. part = "sessions" /\ [Next]_vars =>
        [Sessions!Next]_Sessions!vars /\ (part = "sessions")'
  BY DEF Next, vars, from4, from5, from6, from7, from9, from10,
         Sessions!vars, Sessions!ghosts
<1>4. (part = "sessions" => Sessions!SessionsHold) => SessionsHold
  BY DEF SessionsHold
<1>5. ~(part = "sessions") /\ [Next]_vars => ~(part = "sessions")'
  BY PartStays
<1> QED BY <1>1, <1>2, <1>3, <1>4, <1>5, PTL DEF Spec, Sessions!Spec

\* Types are correct, deletions and executions never wait for each other in a circle, and
\* no deletion cascades over an operation whose outcome is open
\* (user_delete_dependency_service.py).
THEOREM DeletionsAreSound == Spec => DeletionHolds
<1>1. Deletion!Constants
  <2>1. Owner \in [{1, 2} -> {1, 2}]
    BY DEF Owner
  <2> QED BY <2>1 DEF Deletion!Constants
<1>2. Deletion!Spec => [](Deletion!TypeOK /\ Deletion!NoWaitCycle)
  BY <1>1, Deletion!NoDeadlock
<1>3. Deletion!Spec => [][Deletion!EvidenceSurvives]_Deletion!vars
  BY <1>1, Deletion!EvidenceIsKept
<1>4. part = "deletion" /\ Init => Deletion!Init
  BY DEF Init
<1>5. part = "deletion" /\ [Next]_vars =>
        [Deletion!Next]_Deletion!vars /\ (part = "deletion")'
  BY DEF Next, vars, from4, from5, from6, from7, from9, from10, Deletion!vars
<1>6. part = "deletion" /\ [Next]_vars /\ [Deletion!EvidenceSurvives]_Deletion!vars =>
        [part = "deletion" => Deletion!EvidenceSurvives]_vars
  BY DEF Next, vars, from4, from5, from6, from7, from9, from10, Deletion!vars
<1>7. ~(part = "deletion") => [part = "deletion" => Deletion!EvidenceSurvives]_vars
  OBVIOUS
<1>8. ~(part = "deletion") /\ [Next]_vars => ~(part = "deletion")'
  BY PartStays
<1>9. DeletionHolds <=>
        /\ [](part = "deletion" => Deletion!TypeOK /\ Deletion!NoWaitCycle)
        /\ [][part = "deletion" => Deletion!EvidenceSurvives]_vars
  BY DEF DeletionHolds
<1> QED BY <1>2, <1>3, <1>4, <1>5, <1>6, <1>7, <1>8, <1>9, PTL DEF Spec, Deletion!Spec

\* Nobody gives away what he does not hold at the commit, a deleted role has no member, and
\* an approved assignment has the effect of its card (user_role_assignment_service.py,
\* role_management_service.py).
THEOREM GrantsAreBounded == Spec => []GrantsHold
<1>1. Grants!Constants
  <2>1. DOMAIN FirstRole = {"RS", "R1", "R2"} /\ \A r \in DOMAIN FirstRole : FirstRole[r].live
    BY DEF FirstRole
  <2>2. \A r \in {"RS", "R1", "R2"} : FirstRole[r] \in Grants!RoleRow
    BY DEF FirstRole, Grants!RoleRow, Grants!Grant, Grants!Auth
  <2>3. FirstHold \in [Persons -> SUBSET {"RS", "R1", "R2"}]
    BY DEF FirstHold, Persons
  <2> QED BY <2>1, <2>2, <2>3 DEF Grants!Constants, Persons
<1>2. Grants!Spec => []Grants!GrantsHold
  BY <1>1, Grants!GrantsStayBounded
<1>3. part = "grants" /\ Init => Grants!Init
  BY DEF Init
<1>4. part = "grants" /\ [Next]_vars => [Grants!Next]_Grants!vars /\ (part = "grants")'
  BY DEF Next, vars, from4, from5, from6, from7, from9, from10, Grants!vars
<1>5. (part = "grants" => Grants!GrantsHold) => GrantsHold
  BY DEF GrantsHold
<1>6. ~(part = "grants") /\ [Next]_vars => ~(part = "grants")'
  BY PartStays
<1> QED BY <1>2, <1>3, <1>4, <1>5, <1>6, PTL DEF Spec, Grants!Spec

-----------------------------------------------------------------------------
(* Recovery of accounts *)

\* At first there is no code and nobody has shown one.
LEMMA RecoveryStarts == Recovery!Init => Recovery!Inv
<1> SUFFICES ASSUME Recovery!Init PROVE Recovery!Inv
  OBVIOUS
<1>1. 1 \in 1 .. MaxVersion /\ 0 \in 0 .. MaxVersion /\ 0 \in 0 .. MaxCode
  BY RecoveryBounds
<1>2. Recovery!TypeOK /\ s1.verified = 0
  BY <1>1 DEF Recovery!Init, Recovery!TypeOK, Recovery!UserRow
<1>3. s8 \in [1 .. MaxCode -> 0 .. MaxVersion]
  BY <1>1 DEF Recovery!Init
<1>4. \A r \in Request : s6[r] = Recovery!Idle
  BY DEF Recovery!Init
<1>5. \A r \in Request : Recovery!ReqInv(r)
  BY <1>4 DEF Recovery!ReqInv, Recovery!Taken, Recovery!Idle
<1> QED BY <1>2, <1>3, <1>5
        DEF Recovery!Init, Recovery!Inv, Recovery!CodeSpentOnce, Recovery!VerifiedIsProved

\* The keys of codes for the account carry its version; registrations have none.
LEMMA RecoveryKeys ==
  ASSUME Recovery!TypeOK, NEW m \in Address
  PROVE  /\ Recovery!ResetKey \in Recovery!Key /\ Recovery!ResetKey.ver = s1.ver
         /\ Recovery!BindKey(m) \in Recovery!Key /\ Recovery!BindKey(m).ver = s1.ver
         /\ Recovery!RegisterKey(m) \in Recovery!Key
         /\ Recovery!RegisterKey(m).purpose = "register"
<1>1. 1 \in 1 .. MaxVersion /\ 0 \in 0 .. MaxCode
  BY RecoveryBounds
<1> QED BY <1>1 DEF Recovery!TypeOK, Recovery!UserRow, Recovery!Key, Recovery!ResetKey,
          Recovery!BindKey, Recovery!RegisterKey

\* A code that is issued, sent or not, has a fresh identity and the version of its time.
LEMMA RecoveryIssue ==
  ASSUME Recovery!Inv, NEW k \in Recovery!Key, NEW sent \in BOOLEAN,
         Recovery!IssueCode(k, sent), k.purpose # "register" => k.ver = s1.ver,
         NEW r, s6' = s6 \/ (r \in Request /\ s6' = [s6 EXCEPT ![r] = Recovery!Idle]),
         UNCHANGED <<s1, s5, s7, s9>>
  PROVE  Recovery!Inv'
<1>1. /\ s4 \in Nat /\ s4 + 1 \in 1 .. MaxCode /\ s4' = s4 + 1
      /\ s8' = [s8 EXCEPT ![s4 + 1] = s1.ver]
  BY RecoveryBounds DEF Recovery!IssueCode, Recovery!Inv, Recovery!TypeOK
<1>2. DEFINE new == [key |-> k, id |-> s4 + 1, tries |-> 0]
<1>3. s2' \subseteq s2 \cup {new} /\ new \in [key : Recovery!Key, id : 1 .. MaxCode, tries : 0 .. MaxTries]
  BY <1>1, RecoveryBounds DEF Recovery!IssueCode
<1>4. Recovery!TypeOK'
  BY <1>1, <1>3, RecoveryBounds DEF Recovery!Inv, Recovery!TypeOK, Recovery!IssueCode
<1>5. s8' \in [1 .. MaxCode -> 0 .. MaxVersion] /\ s8'[s4 + 1] = s1.ver
      /\ \A i \in 1 .. s4 : s8'[i] = s8[i]
  BY <1>1, RecoveryBounds DEF Recovery!Inv, Recovery!TypeOK, Recovery!UserRow
<1>6. \A c \in s2 : Recovery!CodeInv(c) /\ c.id \in 1 .. s4
  BY DEF Recovery!Inv, Recovery!CodeInv, Recovery!TypeOK
<1>7. \A c \in s2' : Recovery!CodeInv(c)'
  BY <1>1, <1>3, <1>5, <1>6 DEF Recovery!CodeInv, Recovery!Inv
<1>8. s6' = [q \in Request |-> s6'[q]] /\ \A q \in Request : s6'[q] = s6[q] \/ s6'[q] = Recovery!Idle
  BY DEF Recovery!Inv
<1>9. \A q \in Request : Recovery!ReqInv(q)'
  BY <1>1, <1>3, <1>5, <1>8 DEF Recovery!ReqInv, Recovery!Taken, Recovery!Inv, Recovery!Idle
<1> QED BY <1>1, <1>4, <1>5, <1>7, <1>8, <1>9
        DEF Recovery!Inv, Recovery!CodeSpentOnce, Recovery!VerifiedIsProved

\* Attempts with a wrong code and expiry take codes away or count an attempt.
LEMMA RecoveryCodesFade ==
  ASSUME Recovery!Inv, UNCHANGED <<s1, s3, s4, s5, s6, s7, s8, s9>>,
         NEW c \in s2,
         Recovery!CodeExpires(c) \/ \E total \in BOOLEAN : Recovery!WrongCode(c, total)
  PROVE  Recovery!Inv'
<1>1. CASE s2' = s2 \ {c}
  <2>1. Recovery!TypeOK'
    BY <1>1 DEF Recovery!Inv, Recovery!TypeOK
  <2>2. \A d \in s2' : Recovery!CodeInv(d)'
    BY <1>1 DEF Recovery!Inv, Recovery!CodeInv
  <2>3. \A q \in Request : Recovery!ReqInv(q)'
    BY <1>1 DEF Recovery!Inv, Recovery!ReqInv, Recovery!Taken
  <2> QED BY <2>1, <2>2, <2>3
          DEF Recovery!Inv, Recovery!CodeSpentOnce, Recovery!VerifiedIsProved
<1>2. CASE /\ c.tries + 1 <= MaxTries
           /\ s2' = (s2 \ {c}) \cup {[c EXCEPT !.tries = @ + 1]}
  <2> DEFINE d == [c EXCEPT !.tries = @ + 1]
  <2>1. c \in [key : Recovery!Key, id : 1 .. MaxCode, tries : 0 .. MaxTries]
    BY DEF Recovery!Inv, Recovery!TypeOK
  <2>2. d \in [key : Recovery!Key, id : 1 .. MaxCode, tries : 0 .. MaxTries]
        /\ d.id = c.id /\ d.key = c.key
    BY <1>2, <2>1, RecoveryBounds
  <2> HIDE DEF d
  <2>3. s2' = (s2 \ {c}) \cup {d}
    BY <1>2 DEF d
  <2>4. Recovery!TypeOK'
    BY <2>2, <2>3 DEF Recovery!Inv, Recovery!TypeOK
  <2>5. \A e \in s2' : Recovery!CodeInv(e)'
    BY <2>2, <2>3 DEF Recovery!Inv, Recovery!CodeInv
  <2>6. \A q \in Request : Recovery!ReqInv(q)'
    BY <2>2, <2>3 DEF Recovery!Inv, Recovery!ReqInv, Recovery!Taken
  <2> QED BY <2>4, <2>5, <2>6
          DEF Recovery!Inv, Recovery!CodeSpentOnce, Recovery!VerifiedIsProved
<1>3. c.tries + 1 <= MaxTries \/ ~(c.tries + 1 <= MaxTries)
  OBVIOUS
<1> QED BY <1>1, <1>2, RecoveryBounds
        DEF Recovery!CodeExpires, Recovery!WrongCode, Recovery!Inv, Recovery!TypeOK

\* An account is its four columns.
LEMMA RecoveryRow ==
  ASSUME NEW u \in Recovery!UserRow
  PROVE  u = [status |-> u.status, ver |-> u.ver, mail |-> u.mail, verified |-> u.verified]
  BY DEF Recovery!UserRow

\* A request that takes a code owns it from then on.
LEMMA RecoveryTake ==
  ASSUME Recovery!Inv, NEW r \in Request, NEW k, NEW c \in s2, NEW q,
         Recovery!Consume(k, c), s6' = [s6 EXCEPT ![r] = q],
         q.code = c.id, q.row \in Recovery!PendingRow,
         \/ q.pc = "commit" /\ s5 = Recovery!NoOne /\ s5' = r
            /\ s1.status = "on" /\ k.purpose # "register" /\ k.ver = s1.ver
         \/ q.pc = "insert" /\ s5' = s5,
         UNCHANGED <<s1, s3, s4, s7, s8, s9>>
  PROVE  Recovery!Inv'
<1>1. s2' = s2 \ {c} /\ c.key = k
  BY DEF Recovery!Consume, Recovery!CodeTaken
<1>2. c.id \in 1 .. s4 /\ (k.purpose # "register" => s8[c.id] = k.ver)
  BY <1>1 DEF Recovery!Inv, Recovery!CodeInv, Recovery!TypeOK
<1>3. Recovery!TypeOK'
  BY <1>1 DEF Recovery!Inv, Recovery!TypeOK
<1>4. \A d \in s2' : Recovery!CodeInv(d)' /\ d.id # c.id
  BY <1>1 DEF Recovery!Inv, Recovery!CodeInv
<1>5. s6' = [p \in Request |-> s6'[p]] /\ s6'[r] = q /\ \A p \in Request \ {r} : s6'[p] = s6[p]
  BY DEF Recovery!Inv
<1>6. \A x \in s7 : x[1] # c.id
  BY DEF Recovery!Inv, Recovery!CodeInv
<1>7. \A p \in Request \ {r} : Recovery!Taken(p) => s6[p].code # c.id
  BY DEF Recovery!Inv, Recovery!ReqInv
<1>8. Recovery!ReqInv(r)'
  BY <1>2, <1>4, <1>5, <1>6, <1>7 DEF Recovery!ReqInv, Recovery!Taken
<1>9. ASSUME NEW p \in Request, p # r PROVE Recovery!ReqInv(p)'
  <2>1. s6[p].pc = "commit" => s5' = p
    BY RequestsAreSomebody DEF Recovery!Inv, Recovery!ReqInv, Recovery!NoOne
  <2> QED BY <1>1, <1>5, <1>7, <1>9, <2>1 DEF Recovery!Inv, Recovery!ReqInv, Recovery!Taken
<1> QED BY <1>3, <1>4, <1>5, <1>8, <1>9
        DEF Recovery!Inv, Recovery!CodeSpentOnce, Recovery!VerifiedIsProved

\* The three requests that spend a code.
LEMMA RecoveryTakes ==
  ASSUME Recovery!Inv, NEW r \in Request, NEW c \in s2, NEW m \in Address,
         \/ Recovery!ResetTake(r, c) \/ Recovery!BindTake(r, m, c)
         \/ Recovery!RegisterTake(r, m, c)
  PROVE  Recovery!Inv'
<1>1. s1 \in Recovery!UserRow /\ c.id \in 1 .. MaxCode
  BY DEF Recovery!Inv, Recovery!TypeOK
<1>2. CASE Recovery!ResetTake(r, c)
  <2>1. [s1 EXCEPT !.ver = @ + 1] \in Recovery!PendingRow
    BY <1>1, RecoveryBounds DEF Recovery!UserRow, Recovery!PendingRow
  <2>2. Recovery!ResetKey.ver = s1.ver /\ Recovery!ResetKey.purpose # "register"
    BY <1>1 DEF Recovery!ResetKey, Recovery!UserRow
  <2> DEFINE q == [pc |-> "commit", code |-> c.id, row |-> [s1 EXCEPT !.ver = @ + 1]]
  <2>3. q.pc = "commit" /\ q.code = c.id /\ q.row \in Recovery!PendingRow
    BY <2>1
  <2>4. /\ Recovery!Consume(Recovery!ResetKey, c) /\ s6' = [s6 EXCEPT ![r] = q]
        /\ s5 = Recovery!NoOne /\ s5' = r /\ s1.status = "on"
        /\ UNCHANGED <<s1, s3, s4, s7, s8, s9>>
    BY <1>2 DEF Recovery!ResetTake, Recovery!Goto, Recovery!Recoverable
  <2> HIDE DEF q
  <2> QED BY <2>2, <2>3, <2>4, RecoveryTake
<1>3. CASE Recovery!BindTake(r, m, c)
  <2>1. [s1 EXCEPT !.mail = m, !.verified = c.id] \in Recovery!PendingRow
    <3>1. ASSUME NEW u, u = [status |-> s1.status, ver |-> s1.ver, mail |-> s1.mail,
                               verified |-> s1.verified],
                 NEW v, v = [u EXCEPT !.mail = m, !.verified = c.id]
          PROVE  v = [status |-> s1.status, ver |-> s1.ver, mail |-> m, verified |-> c.id]
      BY <3>1
    <3>2. [s1 EXCEPT !.mail = m, !.verified = c.id] =
            [status |-> s1.status, ver |-> s1.ver, mail |-> m, verified |-> c.id]
      BY <1>1, <3>1, RecoveryRow
    <3> QED BY <1>1, <3>2, RecoveryBounds DEF Recovery!UserRow, Recovery!PendingRow
  <2>2. Recovery!BindKey(m).ver = s1.ver /\ Recovery!BindKey(m).purpose # "register"
    BY <1>1 DEF Recovery!BindKey, Recovery!ResetKey, Recovery!UserRow
  <2> DEFINE q == [pc |-> "commit", code |-> c.id,
                   row |-> [s1 EXCEPT !.mail = m, !.verified = c.id]]
  <2>3. q.pc = "commit" /\ q.code = c.id /\ q.row \in Recovery!PendingRow
    BY <2>1
  <2>4. /\ Recovery!Consume(Recovery!BindKey(m), c) /\ s6' = [s6 EXCEPT ![r] = q]
        /\ s5 = Recovery!NoOne /\ s5' = r /\ s1.status = "on"
        /\ UNCHANGED <<s1, s3, s4, s7, s8, s9>>
    BY <1>3 DEF Recovery!BindTake, Recovery!Goto, Recovery!BindingContext
  <2> HIDE DEF q
  <2> QED BY <2>2, <2>3, <2>4, RecoveryTake
<1>4. CASE Recovery!RegisterTake(r, m, c)
  <2>1. [status |-> "on", ver |-> 1, mail |-> m, verified |-> c.id] \in Recovery!PendingRow
    BY <1>1, RecoveryBounds DEF Recovery!PendingRow
  <2> DEFINE q == [pc |-> "insert", code |-> c.id,
                   row |-> [status |-> "on", ver |-> 1, mail |-> m, verified |-> c.id]]
  <2>2. q.pc = "insert" /\ q.code = c.id /\ q.row \in Recovery!PendingRow
    BY <2>1
  <2>3. /\ Recovery!Consume(Recovery!RegisterKey(m), c) /\ s6' = [s6 EXCEPT ![r] = q]
        /\ s5' = s5 /\ UNCHANGED <<s1, s3, s4, s7, s8, s9>>
    BY <1>4 DEF Recovery!RegisterTake, Recovery!Goto
  <2> HIDE DEF q
  <2> QED BY <2>2, <2>3, RecoveryTake
<1> QED BY <1>2, <1>3, <1>4

\* A commit by the holder of the row, or the first INSERT of the account.
LEMMA RecoveryCommit ==
  ASSUME Recovery!Inv, NEW r \in Request, Recovery!Commit(r)
  PROVE  Recovery!Inv'
<1>1. /\ Recovery!Taken(r) /\ s1' = s6[r].row /\ s6[r].row \in Recovery!UserRow
      /\ s7' = s7 \cup {<<s6[r].code, Recovery!Cardinality(s7)>>}
      /\ s9' = s9 \cup {s1'.mail}
      /\ s6' = [s6 EXCEPT ![r] = Recovery!Idle]
      /\ UNCHANGED <<s2, s3, s4, s8>>
      /\ s5' \in {s5, Recovery!NoOne}
  BY RecoveryBounds DEF Recovery!Commit, Recovery!Inv, Recovery!ReqInv, Recovery!Taken, Recovery!Goto,
     Recovery!PendingRow, Recovery!UserRow
<1>2. Recovery!TypeOK'
  BY <1>1 DEF Recovery!Inv, Recovery!TypeOK
<1>3. /\ s6[r].code \in 1 .. s4
      /\ \A c \in s2 : c.id # s6[r].code
      /\ \A x \in s7 : x[1] # s6[r].code
      /\ \A q \in Request \ {r} : Recovery!Taken(q) => s6[q].code # s6[r].code
  BY <1>1 DEF Recovery!Inv, Recovery!ReqInv
<1>4. Recovery!CodeSpentOnce' /\ \A x \in s7' : x[1] \in 1 .. s4'
  BY <1>1, <1>3 DEF Recovery!Inv, Recovery!CodeSpentOnce
<1>5. \A c \in s2' : Recovery!CodeInv(c)'
  BY <1>1, <1>3 DEF Recovery!Inv, Recovery!CodeInv
<1>6. s6' = [p \in Request |-> s6'[p]] /\ s6'[r] = Recovery!Idle
      /\ \A p \in Request \ {r} : s6'[p] = s6[p]
  BY <1>1 DEF Recovery!Inv
<1>7. \A p \in Request \ {r} : s6[p].pc # "commit"
  BY RequestsAreSomebody DEF Recovery!Commit, Recovery!Inv, Recovery!ReqInv, Recovery!Exists
<1>8. ASSUME NEW p \in Request PROVE Recovery!ReqInv(p)'
  BY <1>1, <1>3, <1>6, <1>7 DEF Recovery!Inv, Recovery!ReqInv, Recovery!Taken, Recovery!Idle
<1> QED BY <1>1, <1>2, <1>4, <1>5, <1>6, <1>8 DEF Recovery!Inv, Recovery!VerifiedIsProved

\* A request that comes in, gives up or returns leaves codes and account alone.
LEMMA RecoveryMoves ==
  ASSUME Recovery!Inv, NEW r \in Request,
         Recovery!Enter(r) \/ Recovery!Abort(r) \/ Recovery!Return(r)
  PROVE  Recovery!Inv'
<1>1. /\ UNCHANGED <<s1, s2, s3, s4, s7, s8, s9>>
      /\ s5' = s5 \/ (s5 = r /\ s5' = Recovery!NoOne)
      /\ \/ s6' = [s6 EXCEPT ![r] = [pc |-> "in", seen |-> s1]]
         \/ s6' = [s6 EXCEPT ![r] = [pc |-> "idle"]]
  BY DEF Recovery!Enter, Recovery!Abort, Recovery!Return, Recovery!Goto, Recovery!Idle
<1>2. Recovery!TypeOK'
  BY <1>1 DEF Recovery!Inv, Recovery!TypeOK
<1>3. \A c \in s2' : Recovery!CodeInv(c)'
  BY <1>1 DEF Recovery!Inv, Recovery!CodeInv
<1>4. /\ s6' = [p \in Request |-> s6'[p]] /\ \A p \in Request \ {r} : s6'[p] = s6[p]
      /\ s6'[r].pc = "idle" \/ (s6'[r].pc = "in" /\ s6'[r].seen = s1)
  BY <1>1 DEF Recovery!Inv
<1>5. ASSUME NEW p \in Request PROVE Recovery!ReqInv(p)'
  <2>1. s1 \in Recovery!UserRow
    BY DEF Recovery!Inv, Recovery!TypeOK
  <2> QED BY <1>1, <1>4, <2>1 DEF Recovery!Inv, Recovery!ReqInv, Recovery!Taken
<1> QED BY <1>1, <1>2, <1>3, <1>4, <1>5
        DEF Recovery!Inv, Recovery!CodeSpentOnce, Recovery!VerifiedIsProved

\* A write to the free row keeps the addresses on record as verified proved.
LEMMA RecoveryWrite ==
  ASSUME Recovery!Inv, s5 = Recovery!NoOne, s1' \in Recovery!UserRow,
         s1'.verified # 0 => s1.verified # 0 /\ s1'.mail = s1.mail,
         s6' = s6 \/ (\E r \in Request : s6' = [s6 EXCEPT ![r] = Recovery!Idle]),
         UNCHANGED <<s2, s3, s4, s5, s7, s8, s9>>
  PROVE  Recovery!Inv'
<1>1. Recovery!TypeOK' /\ Recovery!VerifiedIsProved'
  BY DEF Recovery!Inv, Recovery!TypeOK, Recovery!VerifiedIsProved
<1>2. \A c \in s2' : Recovery!CodeInv(c)'
  BY DEF Recovery!Inv, Recovery!CodeInv
<1>3. /\ s6' = [p \in Request |-> s6'[p]]
      /\ \A p \in Request : s6'[p] = s6[p] \/ s6'[p] = Recovery!Idle
  BY DEF Recovery!Inv
<1>4. \A p \in Request : s6[p].pc # "commit"
  BY RequestsAreSomebody DEF Recovery!Inv, Recovery!ReqInv, Recovery!NoOne
<1>5. ASSUME NEW p \in Request PROVE Recovery!ReqInv(p)'
  BY <1>3, <1>4 DEF Recovery!Inv, Recovery!ReqInv, Recovery!Taken, Recovery!Idle
<1> QED BY <1>1, <1>2, <1>3, <1>5 DEF Recovery!Inv, Recovery!CodeSpentOnce

\* The trigger forgets the verification of an address that is replaced.
LEMMA RecoveryTrust ==
  ASSUME Recovery!TypeOK, NEW m \in Address
  PROVE  LET u == Recovery!WithMail(s1, m) IN
         /\ u = [status |-> s1.status, ver |-> s1.ver, mail |-> m,
                 verified |-> IF m = s1.mail THEN s1.verified ELSE 0]
         /\ u \in Recovery!UserRow
<1>1. s1 \in Recovery!UserRow /\ 0 \in 0 .. MaxCode
  BY RecoveryBounds DEF Recovery!TypeOK
<1>2. Recovery!WithMail(s1, m) =
        [status |-> s1.status, ver |-> s1.ver, mail |-> m,
         verified |-> IF m = s1.mail THEN s1.verified ELSE 0]
  <2>1. ASSUME NEW u, u = [status |-> s1.status, ver |-> s1.ver, mail |-> s1.mail,
                             verified |-> s1.verified],
               NEW v, v = Recovery!WithMail(u, m)
        PROVE  v =
                 [status |-> s1.status, ver |-> s1.ver, mail |-> m,
                  verified |-> IF m = s1.mail THEN s1.verified ELSE 0]
    BY <2>1 DEF Recovery!WithMail
  <2> QED BY <1>1, <2>1, RecoveryRow
<1> QED BY <1>1, <1>2 DEF Recovery!UserRow

\* The writers of the account that use no code.
LEMMA RecoveryWriters ==
  ASSUME Recovery!Inv, NEW m \in Address, NEW switch \in BOOLEAN,
         \/ Recovery!EditByAdmin(m, switch) \/ Recovery!Revoke
         \/ \E r \in Request : Recovery!UpdateProfile(r, m)
  PROVE  Recovery!Inv'
<1>1. /\ Recovery!TypeOK /\ s1 \in Recovery!UserRow /\ 0 \in 0 .. MaxCode
  BY RecoveryBounds DEF Recovery!Inv, Recovery!TypeOK
<1> DEFINE u == Recovery!WithMail(s1, m)
<1>2. /\ u = [status |-> s1.status, ver |-> s1.ver, mail |-> m,
              verified |-> IF m = s1.mail THEN s1.verified ELSE 0]
      /\ u \in Recovery!UserRow
  BY <1>1, RecoveryTrust
<1> HIDE DEF u
<1>3. CASE Recovery!EditByAdmin(m, switch)
  <2>1. s5 = Recovery!NoOne /\ UNCHANGED <<s2, s3, s4, s5, s6, s7, s8, s9>> /\ s1.ver < MaxVersion
    BY <1>3 DEF Recovery!EditByAdmin
  <2>2. CASE switch
    <3>1. s1' = [u EXCEPT !.status = IF @ = "on" THEN "off" ELSE "on", !.ver = @ + 1]
      BY <1>3, <2>2 DEF Recovery!EditByAdmin, u
    <3>2. s1' = [status |-> IF u.status = "on" THEN "off" ELSE "on", ver |-> u.ver + 1,
                 mail |-> u.mail, verified |-> u.verified]
      BY <1>2, <3>1
    <3>3. s1' \in Recovery!UserRow
      BY <1>1, <1>2, <2>1, <3>2, RecoveryBounds DEF Recovery!UserRow
    <3> QED BY <1>2, <2>1, <3>2, <3>3, RecoveryWrite
  <2>3. CASE ~switch
    <3>1. s1' = u
      BY <1>3, <2>3 DEF Recovery!EditByAdmin, u
    <3> QED BY <1>2, <2>1, <3>1, RecoveryWrite
  <2> QED BY <2>2, <2>3
<1>4. CASE Recovery!Revoke
  <2>1. /\ s5 = Recovery!NoOne /\ UNCHANGED <<s2, s3, s4, s5, s6, s7, s8, s9>>
        /\ s1' = [s1 EXCEPT !.ver = @ + 1] /\ s1.ver < MaxVersion
    BY <1>4 DEF Recovery!Revoke
  <2>2. s1' \in Recovery!UserRow /\ s1'.mail = s1.mail /\ s1'.verified = s1.verified
    BY <1>1, <2>1, RecoveryBounds DEF Recovery!UserRow
  <2> QED BY <2>1, <2>2, RecoveryWrite
<1>5. ASSUME NEW r \in Request, Recovery!UpdateProfile(r, m) PROVE Recovery!Inv'
  <2>1. /\ s5 = Recovery!NoOne /\ UNCHANGED <<s2, s3, s4, s5, s7, s8, s9>>
        /\ s6' = [s6 EXCEPT ![r] = Recovery!Idle]
        /\ s1' = [u EXCEPT !.verified = IF s6[r].seen.verified = 0 THEN @ ELSE 0]
    BY <1>5 DEF Recovery!UpdateProfile, Recovery!Goto, u
  <2>2. s1' = [status |-> u.status, ver |-> u.ver, mail |-> u.mail,
               verified |-> IF s6[r].seen.verified = 0 THEN u.verified ELSE 0]
    BY <1>2, <2>1
  <2>3. s1' \in Recovery!UserRow
    BY <1>1, <1>2, <2>2 DEF Recovery!UserRow
  <2> QED BY <1>2, <2>1, <2>2, <2>3, RecoveryWrite
<1> QED BY <1>3, <1>4, <1>5

\* Every step of the self service keeps its invariant.
LEMMA RecoveryStep ==
  ASSUME Recovery!Inv, [Recovery!Next]_Recovery!vars
  PROVE  Recovery!Inv'
<1>1. ASSUME NEW sent \in BOOLEAN, Recovery!SendCode(sent) PROVE Recovery!Inv'
  <2>1. UNCHANGED <<s1, s5, s6, s7, s9>> /\ Recovery!TypeOK
    BY <1>1 DEF Recovery!SendCode, Recovery!Inv
  <2>2. CASE Recovery!IssueCode(Recovery!ResetKey, sent)
    <3>1. s1.mail \in Address
      BY <2>1 DEF Recovery!TypeOK, Recovery!UserRow
    <3> QED BY <2>1, <2>2, <3>1, RecoveryKeys, RecoveryIssue
  <2>3. ASSUME NEW m \in Address, Recovery!IssueCode(Recovery!RegisterKey(m), sent)
        PROVE  Recovery!Inv'
    BY <2>1, <2>3, RecoveryKeys, RecoveryIssue
  <2> QED BY <1>1, <2>2, <2>3 DEF Recovery!SendCode
<1>2. ASSUME NEW r \in Request, NEW m \in Address, NEW sent \in BOOLEAN,
             Recovery!SendBindCode(r, m, sent)
      PROVE  Recovery!Inv'
  <2>1. /\ UNCHANGED <<s1, s5, s7, s9>> /\ s6' = [s6 EXCEPT ![r] = Recovery!Idle]
        /\ Recovery!IssueCode(Recovery!BindKey(m), sent) /\ Recovery!TypeOK
    BY <1>2 DEF Recovery!SendBindCode, Recovery!Goto, Recovery!Inv
  <2> QED BY <2>1, RecoveryKeys, RecoveryIssue
<1>3. ASSUME NEW c \in s2,
             Recovery!CodeExpires(c) \/ \E total \in BOOLEAN : Recovery!WrongCode(c, total)
      PROVE  Recovery!Inv'
  <2>1. UNCHANGED <<s1, s3, s4, s5, s6, s7, s8, s9>>
    BY <1>3 DEF Recovery!CodeExpires, Recovery!WrongCode
  <2> QED BY <1>3, <2>1, RecoveryCodesFade
<1>4. ASSUME NEW r \in Request, NEW c \in s2, Recovery!ResetTake(r, c)
      PROVE  Recovery!Inv'
  <2>1. PICK m \in Address : TRUE
    BY DEF Recovery!Inv, Recovery!TypeOK, Recovery!UserRow
  <2> QED BY <1>4, RecoveryTakes
<1>5. ASSUME NEW r \in Request, NEW c \in s2, NEW m \in Address,
             Recovery!BindTake(r, m, c) \/ Recovery!RegisterTake(r, m, c)
      PROVE  Recovery!Inv'
  BY <1>5, RecoveryTakes
<1>6. ASSUME NEW m \in Address, NEW switch \in BOOLEAN, Recovery!EditByAdmin(m, switch)
      PROVE  Recovery!Inv'
  BY <1>6, RecoveryWriters
<1>7. ASSUME NEW r \in Request, NEW m \in Address, Recovery!UpdateProfile(r, m)
      PROVE  Recovery!Inv'
  BY <1>7, RecoveryWriters
<1>8. ASSUME Recovery!Revoke PROVE Recovery!Inv'
  <2>1. s1.mail \in Address
    BY DEF Recovery!Inv, Recovery!TypeOK, Recovery!UserRow
  <2> QED BY <1>8, <2>1, RecoveryWriters
<1>9. CASE UNCHANGED Recovery!vars
  BY <1>9 DEF Recovery!vars, Recovery!Inv, Recovery!TypeOK, Recovery!CodeSpentOnce,
     Recovery!VerifiedIsProved, Recovery!CodeInv, Recovery!ReqInv, Recovery!Taken
<1> QED BY <1>1, <1>2, <1>3, <1>4, <1>5, <1>6, <1>7, <1>8, <1>9, RecoveryMoves, RecoveryCommit
        DEF Recovery!Next

\* A recovery code is spent once, dies with the account version it was made for, and
\* an address counts as verified only when its owner proved it
\* (account_security_service.py, email_verification_service.py).
THEOREM RecoveryIsSound == Spec => []RecoveryHolds
<1>1. part = "recovery" /\ Init => Recovery!Inv
  BY RecoveryStarts DEF Init
<1>2. part = "recovery" /\ Recovery!Inv /\ [Next]_vars => Recovery!Inv' /\ (part = "recovery")'
  BY RecoveryStep DEF Next, vars, from4, from5, from6, from7, from9, Recovery!vars
<1>3. (part = "recovery" => Recovery!Inv) => RecoveryHolds
  BY DEF RecoveryHolds, Recovery!Inv, Recovery!OldCodeIsDead, Recovery!ReqInv
<1>4. ~(part = "recovery") /\ [Next]_vars => ~(part = "recovery")'
  BY PartStays
<1> QED BY <1>1, <1>2, <1>3, <1>4, PTL DEF Spec

-----------------------------------------------------------------------------
(* Tenants *)

\* Nothing is prepared at first.
LEMMA TenantsStart == Tenants!Init => Tenants!Inv
<1> SUFFICES ASSUME Tenants!Init PROVE Tenants!Inv
  OBVIOUS
<1>1. 0 \in 0..MaxOld /\ 0 \in 0..MaxControls
  BY TenantBounds
<1>2. Tenants!Absent \in Tenants!TenantRow /\ Tenants!Idle \in Tenants!Slot
  BY DEF Tenants!Absent, Tenants!TenantRow, Tenants!Idle, Tenants!Slot, Tenants!None, Tenants!NoTenant
<1>3. Tenants!Types /\ Tenants!Exclusive
  BY <1>1, <1>2 DEF Tenants!Init, Tenants!Types, Tenants!Exclusive
<1>4. \A key \in IdemKey : Tenants!Prepared(key) = {}
  BY TenantBounds DEF Tenants!Init, Tenants!Prepared, Tenants!Absent, Tenants!None
<1>5. \A r \in Request : s4[r] = Tenants!Idle /\ s6[r] = {} /\ s7[r] = FALSE
  BY DEF Tenants!Init
<1>6. \A r \in Request : Tenants!AuditInv(r) /\ Tenants!LockInv(r)
  BY <1>5 DEF Tenants!AuditInv, Tenants!LockInv, Tenants!Idle, Tenants!None
<1> QED BY <1>3, <1>4, <1>6 DEF Tenants!Inv

TenantsPc == {"resolve", "authorize", "lock", "commit", "refused", "middleware", "append", "done"}
TenantsWhy == {"new", "replay", "conflict", "mismatch", "exists", "state", "dirty", "incomplete",
               "stale", "changed", "model", "completed", "failed"}

\* What a step concluded is a field of the request.
LEMMA TenantsSlot ==
    ASSUME NEW q \in Tenants!Slot, NEW pc \in TenantsPc, NEW why \in TenantsWhy
    PROVE  [q EXCEPT !.pc = pc, !.why = why] \in Tenants!Slot
<1> DEFINE A == {"idle", "resolve", "authorize", "lock", "commit", "refused", "middleware", "append", "done"}
           K == {Tenants!None, "prepare", "bootstrap", "activate", "disable", "purge", "replace"}
           W == {Tenants!None, "new", "replay", "conflict", "mismatch", "exists", "state", "dirty",
                 "incomplete", "stale", "changed", "model", "completed", "failed"}
<1>1. Tenants!Slot = [pc : A, kind : K, key : IdemKey \cup {Tenants!None}, body : Body \cup {Tenants!None},
                      target : Tenant \cup {Tenants!NoTenant}, seen : Nat, expected : Nat, locks : Nat, why : W]
  BY Zenon DEF Tenants!Slot
<1>2. pc \in A /\ why \in W
  BY DEF TenantsPc, TenantsWhy
<1> HIDE DEF A, K, W
<1> QED BY <1>1, <1>2

\* The fields a step of a request writes keep their types.
LEMMA TenantsSlots ==
  ASSUME Tenants!Types, NEW r \in Request,
         \/ \E pc \in TenantsPc : s4' = [s4 EXCEPT ![r].pc = pc]
         \/ \E n \in Nat : s4' = [s4 EXCEPT ![r].locks = n]
         \/ \E pc \in TenantsPc, t \in Tenant : s4' = [s4 EXCEPT ![r].pc = pc, ![r].target = t]
         \/ \E pc \in TenantsPc, n \in Nat : s4' = [s4 EXCEPT ![r].pc = pc, ![r].seen = n]
         \/ \E pc \in TenantsPc, why \in TenantsWhy :
              s4' = [s4 EXCEPT ![r].pc = pc, ![r].why = why]
  PROVE  s4' \in [Request -> Tenants!Slot] /\ \A p \in Request \ {r} : s4'[p] = s4[p]
<1>1. s4 \in [Request -> Tenants!Slot] /\ s4[r] \in Tenants!Slot
  BY DEF Tenants!Types
<1>2. ASSUME NEW q \in Tenants!Slot, s4' = [s4 EXCEPT ![r] = q]
      PROVE  s4' \in [Request -> Tenants!Slot] /\ \A p \in Request \ {r} : s4'[p] = s4[p]
  BY <1>1, <1>2
<1>3. ASSUME NEW pc \in TenantsPc, s4' = [s4 EXCEPT ![r].pc = pc]
      PROVE  \E q \in Tenants!Slot : s4' = [s4 EXCEPT ![r] = q]
  <2>1. s4' = [s4 EXCEPT ![r] = [s4[r] EXCEPT !.pc = pc]]
    BY <1>1, <1>3
  <2>2. [s4[r] EXCEPT !.pc = pc] \in Tenants!Slot
    BY <1>1 DEF Tenants!Slot, TenantsPc
  <2> QED BY <2>1, <2>2
<1>4. ASSUME NEW n \in Nat, s4' = [s4 EXCEPT ![r].locks = n]
      PROVE  \E q \in Tenants!Slot : s4' = [s4 EXCEPT ![r] = q]
  <2>1. s4' = [s4 EXCEPT ![r] = [s4[r] EXCEPT !.locks = n]]
    BY <1>1, <1>4
  <2>2. [s4[r] EXCEPT !.locks = n] \in Tenants!Slot
    BY <1>1 DEF Tenants!Slot
  <2> QED BY <2>1, <2>2
<1>5. ASSUME NEW pc \in TenantsPc, NEW t \in Tenant,
             s4' = [s4 EXCEPT ![r].pc = pc, ![r].target = t]
      PROVE  \E q \in Tenants!Slot : s4' = [s4 EXCEPT ![r] = q]
  <2>1. s4' = [s4 EXCEPT ![r] = [s4[r] EXCEPT !.pc = pc, !.target = t]]
    BY <1>1, <1>5
  <2>2. [s4[r] EXCEPT !.pc = pc, !.target = t] \in Tenants!Slot
    BY <1>1 DEF Tenants!Slot, TenantsPc
  <2> QED BY <2>1, <2>2
<1>6. ASSUME NEW pc \in TenantsPc, NEW n \in Nat,
             s4' = [s4 EXCEPT ![r].pc = pc, ![r].seen = n]
      PROVE  \E q \in Tenants!Slot : s4' = [s4 EXCEPT ![r] = q]
  <2>1. s4' = [s4 EXCEPT ![r] = [s4[r] EXCEPT !.pc = pc, !.seen = n]]
    BY <1>1, <1>6
  <2>2. [s4[r] EXCEPT !.pc = pc, !.seen = n] \in Tenants!Slot
    BY <1>1 DEF Tenants!Slot, TenantsPc
  <2> QED BY <2>1, <2>2
<1>7. ASSUME NEW pc \in TenantsPc, NEW why \in TenantsWhy,
             s4' = [s4 EXCEPT ![r].pc = pc, ![r].why = why]
      PROVE  \E q \in Tenants!Slot : s4' = [s4 EXCEPT ![r] = q]
  <2>1. s4' = [s4 EXCEPT ![r] = [s4[r] EXCEPT !.pc = pc, !.why = why]]
    BY <1>1, <1>7, ZenonT(60)
  <2>2. [s4[r] EXCEPT !.pc = pc, !.why = why] \in Tenants!Slot
    BY <1>1, TenantsSlot, Zenon
  <2> QED BY <2>1, <2>2, Zenon
<1> QED BY <1>2, <1>3, <1>4, <1>5, <1>6, <1>7

\* A step of one request: what it takes was free, what it leaves alone stays.
TenantsMove(r) ==
  /\ \A q \in Request \ {r} :
       s4'[q] = s4[q] /\ s5'[q] = s5[q] /\ s6'[q] = s6[q] /\ s7'[q] = s7[q]
  /\ \A lock \in s5'[r] : lock \in s5[r] \/ Tenants!Free(r, lock)

\* Locks that are free when they are taken stay exclusive.
LEMMA TenantsExclude ==
  ASSUME Tenants!Inv, NEW r \in Request, TenantsMove(r)
  PROVE  Tenants!Exclusive'
<1>0. Tenants!Share # Tenants!Principal
  BY DEF Tenants!Share, Tenants!Principal
<1> SUFFICES ASSUME NEW p \in Request, NEW q \in Request, p # q
             PROVE  /\ \A lock \in s5'[p] : lock # Tenants!Share => lock \notin s5'[q]
                    /\ Tenants!Share \in s5'[p] => Tenants!Principal \notin s5'[q]
  BY DEF Tenants!Exclusive, Tenants!Share, Tenants!Principal
<1> QED BY <1>0 DEF TenantsMove, Tenants!Inv, Tenants!Exclusive, Tenants!Free

\* A step that writes no tenant's key and not the principal keeps the invariant if it
\* keeps that of its own request.
LEMMA TenantsKept ==
  ASSUME Tenants!Inv, NEW r \in Request, TenantsMove(r), Tenants!Types',
         \A t \in Tenant : s1'[t].key = s1[t].key, s3' = s3,
         Tenants!AuditInv(r)', Tenants!LockInv(r)'
  PROVE  Tenants!Inv'
<1>1. \A key : Tenants!Prepared(key)' = Tenants!Prepared(key)
  BY DEF Tenants!Prepared
<1>2. ASSUME NEW q \in Request, q # r PROVE Tenants!AuditInv(q)' /\ Tenants!LockInv(q)'
  <2>1. /\ Tenants!AuditInv(q) /\ Tenants!LockInv(q)
        /\ s4'[q] = s4[q] /\ s5'[q] = s5[q] /\ s6'[q] = s6[q] /\ s7'[q] = s7[q]
    BY <1>2 DEF TenantsMove, Tenants!Inv
  <2>2. Tenants!AuditInv(q)'
    BY <2>1 DEF Tenants!AuditInv
  <2>3. Tenants!LockInv(q)'
    BY <1>1, <2>1 DEF Tenants!LockInv
  <2> QED BY <2>2, <2>3
<1> QED BY <1>1, <1>2, TenantsExclude DEF Tenants!Inv

\* Requests that have not taken a lock yet.
LEMMA TenantsArrive ==
  ASSUME Tenants!Inv, NEW r \in Request, Tenants!Submit(r)
  PROVE  Tenants!Inv'
<1>1. PICK ask \in Tenants!Asks :
        s4' = [s4 EXCEPT ![r] = [Tenants!Idle EXCEPT !.pc = "resolve", !.kind = ask.kind,
                 !.key = ask.key, !.body = ask.body, !.target = ask.target,
                 !.seen = s3.version, !.expected = Tenants!Preview(ask)]]
  BY DEF Tenants!Submit
<1>2. /\ ask.kind \in {"prepare", "bootstrap", "activate", "disable", "purge", "replace"}
      /\ ask.key \in IdemKey \cup {Tenants!None} /\ ask.body \in Body \cup {Tenants!None}
      /\ ask.target \in Tenant \cup {Tenants!NoTenant}
      /\ ask.kind = "prepare" => ask.key \in IdemKey
      /\ ask.kind = "purge" => ask.target \in Tenant
  BY DEF Tenants!Asks
<1>3. Tenants!Preview(ask) \in Nat /\ s3.version \in Nat
  BY <1>2, TenantBounds DEF Tenants!Preview, Tenants!Retained, Tenants!Inv, Tenants!Types
<1> DEFINE q == [pc |-> "resolve", kind |-> ask.kind, key |-> ask.key, body |-> ask.body,
                 target |-> ask.target, seen |-> s3.version, expected |-> Tenants!Preview(ask),
                 locks |-> 0, why |-> Tenants!None]
<1>4. s4' = [s4 EXCEPT ![r] = q]
  <2>1. ASSUME NEW v, v = [Tenants!Idle EXCEPT !.pc = "resolve", !.kind = ask.kind,
                 !.key = ask.key, !.body = ask.body, !.target = ask.target,
                 !.seen = s3.version, !.expected = Tenants!Preview(ask)]
        PROVE  v = q
    BY <2>1 DEF Tenants!Idle
  <2> QED BY <1>1, <2>1
<1>5. q \in Tenants!Slot
  BY <1>2, <1>3 DEF Tenants!Slot
<1> HIDE DEF q
<1>6. /\ s4'[r] = q /\ s5' = s5 /\ s6' = s6 /\ s7' = s7 /\ s1' = s1 /\ s2' = s2 /\ s3' = s3
      /\ \A p \in Request \ {r} : s4'[p] = s4[p]
      /\ s4' \in [Request -> Tenants!Slot] /\ s8' \in 0..MaxControls /\ s4[r].pc = "idle"
  BY <1>4, <1>5, TenantBounds DEF Tenants!Submit, Tenants!Inv, Tenants!Types
<1>7. Tenants!Types' /\ TenantsMove(r)
  BY <1>6 DEF Tenants!Inv, Tenants!Types, TenantsMove
<1>8. /\ q.pc = "resolve" /\ q.locks = 0 /\ q.kind = ask.kind /\ q.key = ask.key
      /\ q.why = Tenants!None
  BY DEF q
<1>9. Tenants!AuditInv(r)' /\ Tenants!LockInv(r)'
  BY <1>2, <1>6, <1>8 DEF Tenants!Inv, Tenants!AuditInv, Tenants!LockInv, Tenants!None
<1> QED BY <1>6, <1>7, <1>9, TenantsKept

\* Replies and messages are over: the slot is free again.
LEMMA TenantsForget ==
  ASSUME Tenants!Inv, NEW r \in Request,
         Tenants!Forget(r) \/ (Tenants!CheckToken(r) /\ s4[r].seen # s3.version)
  PROVE  Tenants!Inv'
<1>1. Tenants!Idle \in Tenants!Slot
  BY DEF Tenants!Idle, Tenants!Slot, Tenants!None, Tenants!NoTenant
<1>2. /\ UNCHANGED <<s1, s2, s3, s5, s8>> /\ s4' = [s4 EXCEPT ![r] = Tenants!Idle]
      /\ \/ s6' = [s6 EXCEPT ![r] = {}] /\ s7' = [s7 EXCEPT ![r] = FALSE]
         \/ s6' = s6 /\ s7' = s7 /\ s4[r].pc = "resolve"
  BY DEF Tenants!Forget, Tenants!CheckToken
<1>3. Tenants!Types' /\ TenantsMove(r)
  BY <1>1, <1>2 DEF Tenants!Inv, Tenants!Types, TenantsMove
<1>4. s4'[r] = Tenants!Idle /\ s6'[r] = {} /\ ~s7'[r]
  BY <1>2 DEF Tenants!Inv, Tenants!Types, Tenants!AuditInv
<1>5. Tenants!AuditInv(r)' /\ Tenants!LockInv(r)'
  BY <1>4 DEF Tenants!AuditInv, Tenants!LockInv, Tenants!Idle, Tenants!None
<1> QED BY <1>2, <1>3, <1>5, TenantsKept

\* The target of a first request with a key is chosen under the lock of the key.
LEMMA TenantsResolve ==
  ASSUME Tenants!Inv, NEW r \in Request, Tenants!ResolveTarget(r)
  PROVE  Tenants!Inv'
<1>1. PICK t \in Tenant :
        /\ s4' = [s4 EXCEPT ![r].pc = "authorize", ![r].target = t]
        /\ Tenants!Prepared(s4[r].key) # {} => t \in Tenants!Prepared(s4[r].key)
  BY DEF Tenants!ResolveTarget, Tenants!Prepared, Tenants!Unused
<1>2. /\ s4[r].pc = "resolve" /\ s4[r].kind = "prepare" /\ s5' = [s5 EXCEPT ![r] = Tenants!TargetLock(r)]
      /\ UNCHANGED <<s1, s2, s3, s6, s7, s8>>
      /\ \A lock \in Tenants!TargetLock(r) : Tenants!Free(r, lock)
  BY DEF Tenants!ResolveTarget
<1>3. Tenants!Types' /\ TenantsMove(r)
  <2>1. s4' \in [Request -> Tenants!Slot] /\ \A p \in Request \ {r} : s4'[p] = s4[p]
    BY <1>1, <1>2, TenantsSlots, ZenonT(30) DEF Tenants!Inv, TenantsPc
  <2> QED BY <1>1, <1>2, <2>1 DEF Tenants!Inv, Tenants!Types, TenantsMove
<1>4. /\ s4'[r].pc = "authorize" /\ s4'[r].target = t /\ s4'[r].kind = "prepare"
      /\ s4'[r].key = s4[r].key /\ s4'[r].locks = s4[r].locks /\ s4'[r].why = s4[r].why
      /\ s5'[r] = {<<"key", s4[r].key>>}
  BY <1>1, <1>2 DEF Tenants!Inv, Tenants!Types, Tenants!Slot, Tenants!TargetLock
<1>5. Tenants!Prepared(s4[r].key) \subseteq {t}
  BY <1>1, <1>2 DEF Tenants!Inv, Tenants!LockInv
<1>6. Tenants!AuditInv(r)'
  BY <1>2, <1>4 DEF Tenants!Inv, Tenants!AuditInv
<1>7. Tenants!LockInv(r)'
  BY <1>2, <1>4, <1>5 DEF Tenants!Inv, Tenants!LockInv, Tenants!Prepared
<1> QED BY <1>2, <1>3, <1>6, <1>7, TenantsKept

\* A token is checked under the shared lock; the others read and go on.
LEMMA TenantsGoOn ==
  ASSUME Tenants!Inv, NEW r \in Request,
         \/ Tenants!CheckToken(r) /\ s4[r].seen = s3.version
         \/ Tenants!Snapshot(r) \/ Tenants!TakeTarget(r)
  PROVE  Tenants!Inv'
<1>1. /\ UNCHANGED <<s1, s2, s3, s6, s7, s8>> /\ s4[r].pc = "resolve"
      /\ \/ /\ s4' = [s4 EXCEPT ![r].pc = "authorize"] /\ s4[r].kind = "purge"
            /\ s4[r].seen = s3.version
            /\ s5' = [s5 EXCEPT ![r] = {Tenants!Share}] /\ Tenants!Free(r, Tenants!Share)
         \/ /\ \/ s4' = [s4 EXCEPT ![r].pc = "authorize", ![r].seen = s3.version]
               \/ s4' = [s4 EXCEPT ![r].pc = "authorize"]
            /\ s4[r].kind \notin {"purge", "prepare"} /\ s5' = s5
  BY DEF Tenants!CheckToken, Tenants!Snapshot, Tenants!TakeTarget, Tenants!PrincipalLock,
         Tenants!Platform, Tenants!Cli
<1>2. Tenants!Types' /\ TenantsMove(r)
  <2>1. s4' \in [Request -> Tenants!Slot] /\ \A p \in Request \ {r} : s4'[p] = s4[p]
    BY <1>1, TenantsSlots DEF Tenants!Inv, Tenants!Types, TenantsPc
  <2> QED BY <1>1, <2>1 DEF Tenants!Inv, Tenants!Types, TenantsMove
<1>3. /\ s4'[r].pc = "authorize" /\ s4'[r].kind = s4[r].kind /\ s4'[r].locks = s4[r].locks
      /\ s4[r].kind = "purge" => s4'[r].seen = s3.version /\ Tenants!Share \in s5'[r]
      /\ s4[r].kind # "prepare"
  BY <1>1 DEF Tenants!Inv, Tenants!Types, Tenants!Slot
<1>4. Tenants!AuditInv(r)' /\ Tenants!LockInv(r)'
  BY <1>1, <1>3 DEF Tenants!Inv, Tenants!AuditInv, Tenants!LockInv
<1> QED BY <1>1, <1>2, <1>4, TenantsKept

\* The intent is on record before the business begins.
LEMMA TenantsAuthorize ==
  ASSUME Tenants!Inv, NEW r \in Request, Tenants!Authorize(r)
  PROVE  Tenants!Inv'
<1>1. /\ UNCHANGED <<s1, s2, s3, s5, s7, s8>> /\ s4[r].pc = "authorize"
      /\ s4[r].kind = "purge" => s3.may
      /\ s4' = [s4 EXCEPT ![r].pc = "lock"] /\ s6' = [s6 EXCEPT ![r] = Tenants!Intent]
  BY DEF Tenants!Authorize, Tenants!Platform
<1>2. Tenants!Types' /\ TenantsMove(r)
  <2>1. s4' \in [Request -> Tenants!Slot] /\ \A p \in Request \ {r} : s4'[p] = s4[p]
    BY <1>1, TenantsSlots DEF Tenants!Inv, Tenants!Types, TenantsPc
  <2> QED BY <1>1, <2>1 DEF Tenants!Inv, Tenants!Types, TenantsMove, Tenants!Intent
<1>3. /\ s4'[r].pc = "lock" /\ s4'[r].kind = s4[r].kind /\ s4'[r].locks = s4[r].locks
      /\ s4'[r].key = s4[r].key /\ s4'[r].why = s4[r].why /\ s4'[r].seen = s4[r].seen
      /\ s4'[r].target = s4[r].target /\ s6'[r] = Tenants!Intent
  BY <1>1 DEF Tenants!Inv, Tenants!Types, Tenants!Slot
<1>4. Tenants!AuditInv(r)'
  BY <1>1, <1>3 DEF Tenants!Inv, Tenants!AuditInv
<1>5. Tenants!LockInv(r)'
  BY <1>1, <1>3 DEF Tenants!Inv, Tenants!LockInv, Tenants!Prepared
<1> QED BY <1>1, <1>2, <1>4, <1>5, TenantsKept

\* A request that was refused, or whose intent could not be written, is over.
LEMMA TenantsGiveUp ==
  ASSUME Tenants!Inv, NEW r \in Request, Tenants!Deny(r) \/ Tenants!Refuse(r)
  PROVE  Tenants!Inv'
<1>1. PICK records \in SUBSET {"authorized", "denied", "completed", "failed"} :
        Tenants!GivenUp(r, records) /\ "completed" \notin records /\ ~s7[r]
  BY DEF Tenants!Deny, Tenants!Refuse, Tenants!Inv, Tenants!AuditInv, Tenants!Intent
<1>2. /\ UNCHANGED <<s1, s2, s3, s7, s8>> /\ s4' = [s4 EXCEPT ![r].pc = "done"]
      /\ s5' = [s5 EXCEPT ![r] = {}] /\ s6' = [s6 EXCEPT ![r] = records]
  BY <1>1 DEF Tenants!GivenUp
<1>3. Tenants!Types' /\ TenantsMove(r)
  <2>1. s4' \in [Request -> Tenants!Slot] /\ \A p \in Request \ {r} : s4'[p] = s4[p]
    BY <1>2, TenantsSlots DEF Tenants!Inv, TenantsPc
  <2> QED BY <1>2, <2>1 DEF Tenants!Inv, Tenants!Types, TenantsMove
<1>4. /\ s4'[r].pc = "done" /\ s4'[r].kind = s4[r].kind /\ s4'[r].key = s4[r].key
      /\ s4'[r].why = s4[r].why /\ s6'[r] = records
  BY <1>2 DEF Tenants!Inv, Tenants!Types, Tenants!Slot
<1>5. Tenants!AuditInv(r)'
  BY <1>1, <1>2, <1>4 DEF Tenants!AuditInv, Tenants!Inv, Tenants!Types
<1>6. Tenants!LockInv(r)'
  <2>1. s4[r].pc # "idle" /\ Tenants!LockInv(r)
    BY DEF Tenants!Deny, Tenants!Refuse, Tenants!Inv
  <2> QED BY <1>4, <2>1 DEF Tenants!LockInv
<1> QED BY <1>2, <1>3, <1>5, <1>6, TenantsKept

\* Locks are taken one at a time, in the order of the request's kind.
LEMMA TenantsTakeLock ==
  ASSUME Tenants!Inv, NEW r \in Request, Tenants!TakeLock(r)
  PROVE  Tenants!Inv'
<1> DEFINE n == s4[r].locks + 1
           lock == Tenants!LockOrder(r)[n]
<1>1. /\ UNCHANGED <<s1, s2, s3, s6, s7, s8>> /\ s4[r].pc = "lock"
      /\ n \in Nat /\ n <= Len(Tenants!LockOrder(r)) /\ Tenants!Free(r, lock)
      /\ s5' = [s5 EXCEPT ![r] = @ \cup {lock}] /\ s4' = [s4 EXCEPT ![r].locks = n]
  BY DEF Tenants!TakeLock, Tenants!Inv, Tenants!Types, Tenants!Slot
<1>2. s4[r].kind = "replace" => lock = Tenants!Principal
  <2> SUFFICES ASSUME s4[r].kind = "replace" PROVE lock = Tenants!Principal
    OBVIOUS
  <2>1. Tenants!LockOrder(r) = <<Tenants!Principal>>
    BY DEF Tenants!LockOrder
  <2>2. n >= 1
    BY DEF Tenants!Inv, Tenants!Types, Tenants!Slot
  <2>3. n = 1
    BY <1>1, <2>1, <2>2
  <2> QED BY <2>1, <2>3
<1> HIDE DEF lock
<1>3. Tenants!Types' /\ TenantsMove(r)
  <2>1. s4' \in [Request -> Tenants!Slot] /\ \A p \in Request \ {r} : s4'[p] = s4[p]
    BY <1>1, TenantsSlots DEF Tenants!Inv
  <2> QED BY <1>1, <2>1 DEF Tenants!Inv, Tenants!Types, TenantsMove
<1>4. /\ s4'[r].pc = "lock" /\ s4'[r].kind = s4[r].kind /\ s4'[r].key = s4[r].key
      /\ s4'[r].why = s4[r].why /\ s4'[r].seen = s4[r].seen /\ s4'[r].target = s4[r].target
      /\ s5'[r] = s5[r] \cup {lock}
  BY <1>1 DEF Tenants!Inv, Tenants!Types, Tenants!Slot
<1>5. Tenants!AuditInv(r)'
  BY <1>1, <1>4 DEF Tenants!Inv, Tenants!AuditInv
<1>6. Tenants!LockInv(r)'
  <2>1. Tenants!LockInv(r) /\ Tenants!Prepared(s4[r].key)' = Tenants!Prepared(s4[r].key)
    BY <1>1 DEF Tenants!Inv, Tenants!Prepared
  <2>2. s4[r].kind = "replace" => Tenants!Principal \in s5'[r]
    BY <1>2, <1>4
  <2> QED BY <1>1, <1>4, <2>1, <2>2 DEF Tenants!LockInv
<1> QED BY <1>1, <1>3, <1>5, <1>6, TenantsKept

\* What a request decides is one of the answers the platform knows, and a request that
\* prepares a tenant finds the target it has authorized.
LEMMA TenantsVerdict ==
  ASSUME Tenants!Inv, NEW r \in Request, s4[r].pc = "lock"
  PROVE  /\ Tenants!Verdict(r) \in TenantsWhy
         /\ s4[r].kind = "prepare" => Tenants!Verdict(r) # "mismatch"
<1>1. s4[r].kind \in {"prepare", "bootstrap", "activate", "disable", "purge", "replace"}
  BY DEF Tenants!Inv, Tenants!Types, Tenants!Slot, Tenants!LockInv
<1>2. CASE s4[r].kind = "prepare"
  <2>1. Tenants!Prepared(s4[r].key) \subseteq {s4[r].target}
    BY <1>2 DEF Tenants!Inv, Tenants!LockInv
  <2>2. Tenants!PrepareVerdict(r) \in TenantsWhy /\ Tenants!PrepareVerdict(r) # "mismatch"
    BY <2>1 DEF Tenants!PrepareVerdict, TenantsWhy
  <2> QED BY <1>2, <2>2 DEF Tenants!Verdict
<1>3. CASE s4[r].kind = "bootstrap"
  BY <1>3 DEF Tenants!Verdict, Tenants!BootstrapVerdict, TenantsWhy
<1>4. CASE s4[r].kind \in {"activate", "disable", "purge", "replace"}
  BY <1>4 DEF Tenants!Verdict, Tenants!ActivateVerdict, Tenants!DisableVerdict,
     Tenants!PurgeVerdict, Tenants!ReplaceVerdict, TenantsWhy
<1> QED BY <1>1, <1>2, <1>3, <1>4

\* A request decides under its locks.
LEMMA TenantsDecide ==
  ASSUME Tenants!Inv, NEW r \in Request, Tenants!Decide(r)
  PROVE  Tenants!Inv'
<1>1. PICK pc \in {"commit", "refused"}, why \in TenantsWhy :
        /\ s4' = [s4 EXCEPT ![r].pc = pc, ![r].why = why]
        /\ s4[r].kind = "prepare" => why # "mismatch"
  <2>1. Tenants!Verdict(r) \in TenantsWhy
        /\ (s4[r].kind = "prepare" => Tenants!Verdict(r) # "mismatch")
    BY TenantsVerdict DEF Tenants!Decide
  <2> QED BY <2>1 DEF Tenants!Decide
<1>2. /\ UNCHANGED <<s1, s2, s3, s6, s7, s8>> /\ s4[r].pc = "lock"
      /\ s5' = [s5 EXCEPT ![r] = @ \cup Tenants!RowFirst(r)]
      /\ \A lock \in Tenants!RowFirst(r) : Tenants!Free(r, lock)
      /\ s4[r].locks = Len(Tenants!LockOrder(r))
  BY DEF Tenants!Decide
<1>3. s4[r].kind = "replace" => s4[r].locks = 1
  <2>1. s4[r].kind = "replace" => Tenants!LockOrder(r) = <<Tenants!Principal>>
    BY DEF Tenants!LockOrder
  <2> QED BY <1>2, <2>1
<1>4. Tenants!Types' /\ TenantsMove(r)
  <2>1. s4' \in [Request -> Tenants!Slot] /\ \A p \in Request \ {r} : s4'[p] = s4[p]
    BY <1>1, TenantsSlots DEF Tenants!Inv, TenantsPc
  <2> QED BY <1>2, <2>1 DEF Tenants!Inv, Tenants!Types, TenantsMove
<1>5. /\ s4'[r].pc = pc /\ s4'[r].kind = s4[r].kind /\ s4'[r].key = s4[r].key
      /\ s4'[r].why = why /\ s4'[r].seen = s4[r].seen /\ s4'[r].target = s4[r].target
      /\ s5[r] \subseteq s5'[r]
  BY <1>1, <1>2 DEF Tenants!Inv, Tenants!Types, Tenants!Slot
<1>6. Tenants!AuditInv(r)'
  BY <1>2, <1>5 DEF Tenants!Inv, Tenants!AuditInv
<1>7. Tenants!LockInv(r)'
  <2>1. Tenants!LockInv(r)
    BY DEF Tenants!Inv
  <2>2. s4[r].kind = "replace" => Tenants!Principal \in s5'[r]
    <3>1. s4[r].kind = "replace" => s4[r].locks > 0
      BY <1>3
    <3> QED BY <1>2, <1>5, <2>1, <3>1 DEF Tenants!LockInv
  <2>3. s4[r].kind = "purge" =>
          Tenants!Share \in s5'[r] /\ s3'.version = s4'[r].seen /\ s3'.may
    BY <1>2, <1>5, <2>1 DEF Tenants!LockInv
  <2>4. s4[r].kind = "prepare" =>
          /\ s4'[r].key \in IdemKey /\ s4'[r].why # "mismatch"
          /\ <<"key", s4'[r].key>> \in s5'[r]
          /\ Tenants!Prepared(s4'[r].key) \subseteq {s4'[r].target}
    BY <1>1, <1>2, <1>5, <2>1 DEF Tenants!LockInv
  <2> QED BY <1>2, <1>5, <2>1, <2>2, <2>3, <2>4 DEF Tenants!LockInv, Tenants!Prepared
<1> QED BY <1>2, <1>4, <1>6, <1>7, TenantsKept

\* A bootstrap whose model cannot be used is refused.
LEMMA TenantsNoModel ==
  ASSUME Tenants!Inv, NEW r \in Request, Tenants!NoUsableModel(r)
  PROVE  Tenants!Inv'
<1>1. /\ UNCHANGED <<s1, s2, s3, s5, s6, s7, s8>> /\ s4[r].pc = "lock" /\ s4[r].kind = "bootstrap"
      /\ s4' = [s4 EXCEPT ![r].pc = "refused", ![r].why = "model"]
  BY DEF Tenants!NoUsableModel
<1>2. Tenants!Types' /\ TenantsMove(r)
  <2>1. s4' \in [Request -> Tenants!Slot] /\ \A p \in Request \ {r} : s4'[p] = s4[p]
    BY <1>1, TenantsSlots, ZenonT(30) DEF Tenants!Inv, TenantsPc, TenantsWhy
  <2> QED BY <1>1, <2>1 DEF Tenants!Inv, Tenants!Types, TenantsMove
<1>3. s4'[r].pc = "refused" /\ s4'[r].kind = "bootstrap"
  BY <1>1 DEF Tenants!Inv, Tenants!Types, Tenants!Slot
<1>4. Tenants!AuditInv(r)' /\ Tenants!LockInv(r)'
  BY <1>1, <1>3 DEF Tenants!Inv, Tenants!AuditInv, Tenants!LockInv
<1> QED BY <1>1, <1>2, <1>4, TenantsKept

\* The transaction did not commit, and the middleware and the command add to the records
\* what they saw, unless there is a completion already.
LEMMA TenantsRecord ==
  ASSUME Tenants!Inv, NEW r \in Request,
         \/ Tenants!NotCommitted(r) \/ Tenants!Middleware(r)
         \/ Tenants!FailCli(r) \/ Tenants!AppendCli(r)
  PROVE  Tenants!Inv'
<1>1. /\ UNCHANGED <<s1, s2, s3, s7, s8>>
      /\ s5' = s5 \/ s5' = [s5 EXCEPT ![r] = {}]
  BY DEF Tenants!NotCommitted, Tenants!Middleware, Tenants!FailCli, Tenants!AppendCli
<1>2. PICK pc \in {"middleware", "append", "done"} :
        \/ s4' = [s4 EXCEPT ![r].pc = pc]
        \/ s4[r].kind = "replace" /\ s4' = [s4 EXCEPT ![r].pc = pc, ![r].why = "failed"]
  BY ZenonT(30) DEF Tenants!NotCommitted, Tenants!Middleware, Tenants!FailCli, Tenants!AppendCli, Tenants!Cli
<1>3. s4' \in [Request -> Tenants!Slot] /\ \A p \in Request \ {r} : s4'[p] = s4[p]
  BY <1>2, TenantsSlots, ZenonT(30) DEF Tenants!Inv, TenantsPc, TenantsWhy
<1>4. /\ s4'[r].pc = pc /\ s4'[r].kind = s4[r].kind /\ s4'[r].key = s4[r].key
      /\ s4[r].kind # "replace" => s4'[r].why = s4[r].why
  BY <1>2 DEF Tenants!Inv, Tenants!Types, Tenants!Slot
<1>5. /\ s6' \in [Request -> SUBSET {"authorized", "denied", "completed", "failed"}]
      /\ \A p \in Request \ {r} : s6'[p] = s6[p]
      /\ Tenants!AuditInv(r)'
  <2>1. CASE Tenants!NotCommitted(r)
    <3>1. s6' = s6
      BY <2>1 DEF Tenants!NotCommitted, Tenants!RolledBack, Tenants!Inv, Tenants!Types
    <3>2. s4[r].pc = "commit" /\ s4[r].kind # "replace" /\ s7[r] = FALSE /\ s6[r] = Tenants!Intent
      BY <2>1 DEF Tenants!NotCommitted, Tenants!Cli, Tenants!Inv, Tenants!AuditInv, Tenants!Types
    <3>3. s4'[r].pc \in {"middleware", "done"}
      BY <2>1 DEF Tenants!NotCommitted, Tenants!Inv, Tenants!Types, Tenants!Slot
    <3> QED BY <1>1, <1>4, <3>1, <3>2, <3>3
            DEF Tenants!AuditInv, Tenants!Intent, Tenants!Inv, Tenants!Types
  <2>2. CASE Tenants!Middleware(r)
    <3>1. s4[r].pc = "middleware" /\ s4'[r].pc = "done"
      BY <2>2 DEF Tenants!Middleware, Tenants!Inv, Tenants!Types, Tenants!Slot
    <3>2. PICK records \in {s6[r], Tenants!FirstWriter(r, "failed")} : s6' = [s6 EXCEPT ![r] = records]
      BY <2>2 DEF Tenants!Middleware
    <3>3. s6[r] = IF s7[r] THEN Tenants!Intent \cup {"completed"} ELSE Tenants!Intent
      BY <3>1 DEF Tenants!Inv, Tenants!AuditInv
    <3>4. /\ records \subseteq {"authorized", "denied", "completed", "failed"}
          /\ IF s7[r] THEN records = Tenants!Intent \cup {"completed"} ELSE "completed" \notin records
      BY <3>2, <3>3 DEF Tenants!FirstWriter, Tenants!Intent
    <3>5. s6'[r] = records
      BY <3>2 DEF Tenants!Inv, Tenants!Types
    <3> QED BY <1>1, <1>4, <3>1, <3>2, <3>4, <3>5 DEF Tenants!AuditInv, Tenants!Inv, Tenants!Types
  <2>3. CASE Tenants!FailCli(r)
    <3>1. s6' = s6 /\ s4'[r].pc = "append" /\ s4[r].kind \in Tenants!Cli /\ s4'[r].why = "failed"
      BY <2>3 DEF Tenants!FailCli, Tenants!Inv, Tenants!Types, Tenants!Slot
    <3> QED BY <1>1, <1>4, <3>1 DEF Tenants!AuditInv, Tenants!Inv, Tenants!Types
  <2>4. CASE Tenants!AppendCli(r)
    <3>1. s4[r].pc = "append" /\ s4'[r].pc = "done" /\ s4[r].kind = "replace"
      BY <2>4 DEF Tenants!AppendCli, Tenants!Inv, Tenants!Types, Tenants!Slot, Tenants!AuditInv,
                  Tenants!Cli
    <3>2. PICK records \in {s6[r], Tenants!FirstWriter(r, s4[r].why)} :
            s6' = [s6 EXCEPT ![r] = records]
      BY <2>4 DEF Tenants!AppendCli
    <3>3. records \subseteq {"authorized", "denied", "completed", "failed"}
      BY <3>1, <3>2 DEF Tenants!FirstWriter, Tenants!Inv, Tenants!Types, Tenants!AuditInv
    <3> QED BY <1>1, <1>4, <3>1, <3>2, <3>3 DEF Tenants!AuditInv, Tenants!Inv, Tenants!Types
  <2> QED BY <2>1, <2>2, <2>3, <2>4
<1>6. Tenants!Types' /\ TenantsMove(r)
  BY <1>1, <1>3, <1>5 DEF Tenants!Inv, Tenants!Types, TenantsMove
<1>7. Tenants!LockInv(r)'
  <2>1. s4[r].pc # "idle" /\ Tenants!LockInv(r)
    BY DEF Tenants!NotCommitted, Tenants!Middleware, Tenants!FailCli, Tenants!AppendCli, Tenants!Inv
  <2> QED BY <1>2, <1>4, <2>1 DEF Tenants!LockInv
<1> QED BY <1>1, <1>5, <1>6, <1>7, TenantsKept

\* A commit makes a tenant's row, changes it without touching its key, clears old logs or
\* replaces the principal's permissions.
LEMMA TenantsWrite ==
  ASSUME Tenants!Inv, NEW r \in Request, s4[r].pc = "commit", Tenants!Write(r)
  PROVE  /\ s1' \in [Tenant -> Tenants!TenantRow] /\ s2' \in [Tenant -> 0..MaxOld]
         /\ s3' \in [version : Nat, may : BOOLEAN]
         /\ s4[r].kind # "replace" => s3' = s3
         /\ \A t \in Tenant : \/ s1'[t].key = s1[t].key
                              \/ /\ s4[r].kind = "prepare" /\ t = s4[r].target
                                 /\ s1'[t].key = s4[r].key
<1> DEFINE q == s4[r]
           row == s1[q.target]
<1>1. /\ s1 \in [Tenant -> Tenants!TenantRow] /\ s2 \in [Tenant -> 0..MaxOld]
      /\ s3 \in [version : Nat, may : BOOLEAN] /\ q \in Tenants!Slot
      /\ q.kind # Tenants!None
  BY DEF Tenants!Inv, Tenants!Types, Tenants!LockInv
<1>2. CASE q.why = "replay"
  BY <1>1, <1>2 DEF Tenants!Write
<1>3. CASE q.why # "replay" /\ q.kind = "purge"
  <2>1. s2' = [s2 EXCEPT ![q.target] = 0] /\ s1' = s1 /\ s3' = s3
    BY <1>3 DEF Tenants!Write
  <2>2. s2' \in [Tenant -> 0..MaxOld]
    <3>1. 0 \in 0..MaxOld
      BY TenantBounds
    <3>2. ASSUME NEW f \in [Tenant -> 0..MaxOld], NEW u PROVE [f EXCEPT ![u] = 0] \in [Tenant -> 0..MaxOld]
      BY <3>1
    <3> QED BY <1>1, <2>1, <3>2
  <2> QED BY <1>1, <2>1, <2>2
<1>4. CASE q.why # "replay" /\ q.kind = "replace"
  <2>1. PICK may \in BOOLEAN :
          /\ s3' = [version |-> s3.version + (IF may = s3.may THEN 0 ELSE 1), may |-> may]
          /\ s1' = s1 /\ s2' = s2
    BY <1>4 DEF Tenants!Write
  <2>2. s3.version + (IF may = s3.may THEN 0 ELSE 1) \in Nat
    BY <1>1
  <2> QED BY <1>1, <1>4, <2>1, <2>2
<1>5. CASE q.why # "replay" /\ q.kind \in {"prepare", "bootstrap", "activate", "disable"}
  <2>1. s1' = [s1 EXCEPT ![q.target] = Tenants!NewRow(r)] /\ s2' = s2 /\ s3' = s3
    BY <1>5 DEF Tenants!Write
  <2>2. ASSUME q.target \in Tenant
        PROVE  /\ Tenants!NewRow(r) \in Tenants!TenantRow
               /\ Tenants!NewRow(r).key = IF q.kind = "prepare" THEN q.key ELSE row.key
    <3>1. row \in Tenants!TenantRow
      BY <1>1, <2>2
    <3>2. CASE q.kind = "prepare"
      <4>1. Tenants!NewRow(r) = Tenants!PreparedRow(r)
        BY <3>2 DEF Tenants!NewRow
      <4>2. q.key \in IdemKey \cup {Tenants!None} /\ q.body \in Body \cup {Tenants!None}
        BY <1>1 DEF Tenants!Slot
      <4>3. Tenants!PreparedRow(r) =
              [life |-> "prepared", key |-> q.key, body |-> q.body, bootKey |-> Tenants!None,
               bootBody |-> Tenants!None, system |-> "none", ai |-> "none"]
        <5>1. ASSUME NEW v, v = Tenants!PreparedRow(r)
              PROVE  v = [life |-> "prepared", key |-> q.key, body |-> q.body,
                          bootKey |-> Tenants!None, bootBody |-> Tenants!None,
                          system |-> "none", ai |-> "none"]
          BY <5>1 DEF Tenants!PreparedRow, Tenants!Absent
        <5> QED BY <5>1
      <4> QED BY <3>2, <4>1, <4>2, <4>3 DEF Tenants!TenantRow
    <3>3. CASE q.kind = "bootstrap"
      <4>1. Tenants!NewRow(r) = Tenants!Complete(r, Tenants!AiSeed(Tenants!SystemSeed(row)))
        BY <3>3 DEF Tenants!NewRow
      <4>2. Tenants!SystemSeed(row) \in Tenants!TenantRow /\ Tenants!SystemSeed(row).key = row.key
        BY <3>1 DEF Tenants!SystemSeed, Tenants!TenantRow
      <4>3. ASSUME NEW seeded \in Tenants!TenantRow
            PROVE  Tenants!AiSeed(seeded) \in Tenants!TenantRow
                   /\ Tenants!AiSeed(seeded).key = seeded.key
        BY DEF Tenants!AiSeed, Tenants!TenantRow
      <4>4. ASSUME NEW seeded \in Tenants!TenantRow
            PROVE  Tenants!Complete(r, seeded) \in Tenants!TenantRow
                   /\ Tenants!Complete(r, seeded).key = seeded.key
        BY <1>1 DEF Tenants!Complete, Tenants!TenantRow, Tenants!Slot
      <4> QED BY <3>3, <4>1, <4>2, <4>3, <4>4
    <3>4. CASE q.kind = "activate"
      <4>1. Tenants!NewRow(r) = [row EXCEPT !.life = "active"]
        BY <3>4 DEF Tenants!NewRow
      <4> QED BY <3>1, <3>4, <4>1 DEF Tenants!TenantRow
    <3>5. CASE q.kind = "disable"
      <4>1. Tenants!NewRow(r) = [row EXCEPT !.life = "disabled"]
        BY <3>5 DEF Tenants!NewRow
      <4> QED BY <3>1, <3>5, <4>1 DEF Tenants!TenantRow
    <3> QED BY <1>5, <3>2, <3>3, <3>4, <3>5
  <2> QED BY <1>1, <1>5, <2>1, <2>2
<1> QED BY <1>1, <1>2, <1>3, <1>4, <1>5 DEF Tenants!Slot

\* The business and its completion are committed together; the command commits first.
LEMMA TenantsCommit ==
  ASSUME Tenants!Inv, NEW r \in Request, Tenants!Commit(r) \/ Tenants!CommitCli(r)
  PROVE  Tenants!Inv'
<1>1. /\ s4[r].pc = "commit" /\ Tenants!Write(r) /\ s8' = s8
      /\ s5' = [s5 EXCEPT ![r] = {}] /\ s7' = [s7 EXCEPT ![r] = TRUE]
  BY DEF Tenants!Commit, Tenants!CommitCli
<1>2. /\ s1' \in [Tenant -> Tenants!TenantRow] /\ s2' \in [Tenant -> 0..MaxOld]
      /\ s3' \in [version : Nat, may : BOOLEAN]
      /\ s4[r].kind # "replace" => s3' = s3
      /\ \A t \in Tenant : \/ s1'[t].key = s1[t].key
                           \/ /\ s4[r].kind = "prepare" /\ t = s4[r].target
                              /\ s1'[t].key = s4[r].key
  BY <1>1, TenantsWrite
<1>3. PICK pc \in {"middleware", "append", "done"}, why \in {"completed", "failed"} :
        \/ /\ s4' = [s4 EXCEPT ![r].pc = pc] /\ s4[r].kind # "replace" /\ pc # "append"
           /\ s6' = [s6 EXCEPT ![r] = @ \cup {"completed"}]
        \/ /\ s4' = [s4 EXCEPT ![r].pc = pc, ![r].why = why] /\ s4[r].kind = "replace"
           /\ pc = "append" /\ s6' = s6
  BY ZenonT(30) DEF Tenants!Commit, Tenants!CommitCli, Tenants!Cli
<1>4. s4' \in [Request -> Tenants!Slot] /\ \A p \in Request \ {r} : s4'[p] = s4[p]
  BY <1>3, TenantsSlots, ZenonT(30) DEF Tenants!Inv, TenantsPc, TenantsWhy
<1>5. Tenants!Types' /\ TenantsMove(r)
  <2>1. /\ s5' = [p \in Request |-> s5'[p]] /\ s5'[r] = {} /\ s7' \in [Request -> BOOLEAN]
        /\ \A p \in Request \ {r} : s5'[p] = s5[p] /\ s7'[p] = s7[p]
        /\ s8' \in 0..MaxControls
    BY <1>1 DEF Tenants!Inv, Tenants!Types
  <2>2. /\ s6' \in [Request -> SUBSET {"authorized", "denied", "completed", "failed"}]
        /\ \A p \in Request \ {r} : s6'[p] = s6[p]
    BY <1>3 DEF Tenants!Inv, Tenants!Types
  <2> QED BY <1>2, <1>4, <2>1, <2>2 DEF Tenants!Types, TenantsMove
<1>6. /\ s4'[r].pc = pc /\ s4'[r].kind = s4[r].kind /\ s4'[r].key = s4[r].key
      /\ s4[r].kind # "replace" => s4'[r].why = s4[r].why
      /\ s4[r].kind = "replace" => s4'[r].why = why
  BY <1>3 DEF Tenants!Inv, Tenants!Types, Tenants!Slot
<1>7. Tenants!AuditInv(r)'
  <2>1. s6[r] = Tenants!Intent
    BY <1>1 DEF Tenants!Inv, Tenants!AuditInv
  <2>2. s7'[r] /\ (s4[r].kind # "replace" => s6'[r] = Tenants!Intent \cup {"completed"})
    BY <1>1, <1>3, <2>1 DEF Tenants!Inv, Tenants!Types
  <2> QED BY <1>3, <1>6, <2>2 DEF Tenants!AuditInv, Tenants!Cli
<1>8. Tenants!LockInv(r)'
  <2>1. Tenants!LockInv(r)
    BY DEF Tenants!Inv
  <2> QED BY <1>1, <1>3, <1>6, <2>1 DEF Tenants!LockInv
<1>9. s4[r].kind = "prepare" =>
        s4[r].key \in IdemKey /\ <<"key", s4[r].key>> \in s5[r]
        /\ Tenants!Prepared(s4[r].key) \subseteq {s4[r].target}
  BY <1>1 DEF Tenants!Inv, Tenants!LockInv
<1>10. \A key : \/ Tenants!Prepared(key)' \subseteq Tenants!Prepared(key)
                \/ /\ s4[r].kind = "prepare" /\ key = s4[r].key
                   /\ Tenants!Prepared(key)' \subseteq {s4[r].target}
  BY <1>2, <1>9 DEF Tenants!Prepared
<1>11. \A key \in IdemKey : \A t, u \in Tenants!Prepared(key)' : t = u
  BY <1>10 DEF Tenants!Inv
<1>12. ASSUME NEW q \in Request, q # r PROVE Tenants!AuditInv(q)' /\ Tenants!LockInv(q)'
  <2>1. /\ Tenants!AuditInv(q) /\ Tenants!LockInv(q)
        /\ s4'[q] = s4[q] /\ s5'[q] = s5[q] /\ s6'[q] = s6[q] /\ s7'[q] = s7[q]
    BY <1>5, <1>12 DEF TenantsMove, Tenants!Inv
  <2>2. Tenants!AuditInv(q)'
    BY <2>1 DEF Tenants!AuditInv
  <2>3. /\ \A lock \in s5[r] : lock # Tenants!Share => lock \notin s5[q]
        /\ Tenants!Share \in s5[q] => Tenants!Principal \notin s5[r]
    BY <1>12 DEF Tenants!Inv, Tenants!Exclusive
  <2>4. s4[q].kind = "purge" /\ s4[q].pc \in {"authorize", "lock", "commit"} => s3' = s3
    <3>1. s4[r].kind = "replace" => Tenants!Principal \in s5[r]
      BY <1>1 DEF Tenants!Inv, Tenants!LockInv
    <3> QED BY <1>2, <2>1, <2>3, <3>1 DEF Tenants!LockInv
  <2>5. s4[q].kind = "prepare" /\ s4[q].pc \in {"authorize", "lock", "commit"} =>
          Tenants!Prepared(s4[q].key)' \subseteq {s4[q].target}
    <3>1. \A key : <<"key", key>> # Tenants!Share
      BY DEF Tenants!Share
    <3> QED BY <1>9, <1>10, <2>1, <2>3, <3>1 DEF Tenants!LockInv
  <2>6. Tenants!LockInv(q)'
    BY <2>1, <2>4, <2>5 DEF Tenants!LockInv
  <2> QED BY <2>2, <2>6
<1> QED BY <1>5, <1>7, <1>8, <1>11, <1>12, TenantsExclude DEF Tenants!Inv

\* What happens in and to the tenants touches neither keys nor requests.
LEMMA TenantsLive ==
  ASSUME Tenants!Inv, NEW t \in Tenant, Tenants!Edit(t) \/ Tenants!Age(t)
  PROVE  Tenants!Inv'
<1>1. UNCHANGED <<s3, s4, s5, s6, s7, s8>>
  BY DEF Tenants!Edit, Tenants!Age
<1>2. s1' \in [Tenant -> Tenants!TenantRow] /\ \A u \in Tenant : s1'[u].key = s1[u].key
  <2>1. s1 \in [Tenant -> Tenants!TenantRow]
    BY DEF Tenants!Inv, Tenants!Types
  <2>2. \/ s1' = s1 \/ s1' = [s1 EXCEPT ![t] = [s1[t] EXCEPT !.system = "edited"]]
        \/ s1' = [s1 EXCEPT ![t] = [s1[t] EXCEPT !.ai = "edited"]]
    BY <2>1 DEF Tenants!Edit, Tenants!Age
  <2>3. /\ [s1[t] EXCEPT !.system = "edited"] \in Tenants!TenantRow
        /\ [s1[t] EXCEPT !.system = "edited"].key = s1[t].key
    BY <2>1 DEF Tenants!TenantRow
  <2>4. /\ [s1[t] EXCEPT !.ai = "edited"] \in Tenants!TenantRow
        /\ [s1[t] EXCEPT !.ai = "edited"].key = s1[t].key
    BY <2>1 DEF Tenants!TenantRow
  <2> QED BY <2>1, <2>2, <2>3, <2>4
<1>3. s2' \in [Tenant -> 0..MaxOld]
  BY TenantBounds DEF Tenants!Edit, Tenants!Age, Tenants!Inv, Tenants!Types
<1>4. \A key : Tenants!Prepared(key)' = Tenants!Prepared(key)
  BY <1>2 DEF Tenants!Prepared
<1>5. ASSUME NEW q \in Request PROVE Tenants!AuditInv(q)' /\ Tenants!LockInv(q)'
  <2>1. Tenants!AuditInv(q) /\ Tenants!LockInv(q)
    BY DEF Tenants!Inv
  <2>2. Tenants!AuditInv(q)'
    BY <1>1, <2>1 DEF Tenants!AuditInv
  <2>3. Tenants!LockInv(q)'
    BY <1>1, <1>4, <2>1 DEF Tenants!LockInv
  <2> QED BY <2>2, <2>3
<1>6. Tenants!Types' /\ Tenants!Exclusive'
  BY <1>1, <1>2, <1>3 DEF Tenants!Inv, Tenants!Types, Tenants!Exclusive, Tenants!Share,
     Tenants!Principal
<1> QED BY <1>4, <1>5, <1>6 DEF Tenants!Inv

\* Every step of the control plane keeps its invariant.
LEMMA TenantsStep ==
  ASSUME Tenants!Inv, [Tenants!Next]_Tenants!vars
  PROVE  Tenants!Inv'
<1>1. ASSUME NEW r \in Request, Tenants!CheckToken(r) PROVE Tenants!Inv'
  BY <1>1, TenantsForget, TenantsGoOn
<1>2. CASE UNCHANGED Tenants!vars
  <2>1. \A key : Tenants!Prepared(key)' = Tenants!Prepared(key)
    BY <1>2 DEF Tenants!vars, Tenants!Prepared
  <2>2. Tenants!Types' /\ Tenants!Exclusive'
    BY <1>2 DEF Tenants!vars, Tenants!Inv, Tenants!Types, Tenants!Exclusive, Tenants!Share,
       Tenants!Principal
  <2>3. \A q \in Request : Tenants!AuditInv(q)'
    BY <1>2 DEF Tenants!vars, Tenants!Inv, Tenants!AuditInv
  <2>4. \A q \in Request : Tenants!LockInv(q)'
    BY <1>2, <2>1 DEF Tenants!vars, Tenants!Inv, Tenants!LockInv
  <2> QED BY <2>1, <2>2, <2>3, <2>4 DEF Tenants!Inv
<1> QED BY <1>1, <1>2, TenantsArrive, TenantsResolve, TenantsGoOn, TenantsAuthorize,
           TenantsGiveUp, TenantsTakeLock, TenantsDecide, TenantsNoModel, TenantsCommit,
           TenantsRecord, TenantsForget, TenantsLive
        DEF Tenants!Next

\* The count of TenantControl is the library's.
LEMMA TenantsCount == ASSUME NEW S PROVE Tenants!Cardinality(S) = Cardinality(S)
  BY DEF Tenants!Cardinality, Tenants!IsFiniteSet, Cardinality, IsFiniteSet

\* What the platform's audit says of a control request is what was done, one idempotency
\* key prepares one tenant, and a request acts with an authority that still holds when it
\* commits (platform/audit.py, platform/auth.py, service/tenant_provision_service.py).
THEOREM TenantsAreControlled == Spec => []TenantsHold
<1>1. part = "tenants" /\ Init => Tenants!Inv
  BY TenantsStart DEF Init
<1>2. part = "tenants" /\ Tenants!Inv /\ [Next]_vars => Tenants!Inv' /\ (part = "tenants")'
  BY TenantsStep DEF Next, vars, from4, from5, from6, from7, from9, Tenants!vars
<1>3. (part = "tenants" => Tenants!Inv) => TenantsHold
  <2> SUFFICES ASSUME Tenants!Inv
               PROVE  /\ Tenants!TypeOK /\ Tenants!AuditIsTrue
                      /\ Tenants!KeyNamesOneTenant /\ Tenants!LiveAuthority
    BY DEF TenantsHold
  <2>1. Tenants!TypeOK
    BY DEF Tenants!Inv, Tenants!Types, Tenants!TypeOK, Tenants!TenantRow, Tenants!Slot
  <2>2. Tenants!AuditIsTrue
    BY DEF Tenants!Inv, Tenants!AuditInv, Tenants!AuditIsTrue, Tenants!Intent
  <2>3. ASSUME NEW key \in IdemKey PROVE Tenants!Cardinality(Tenants!Prepared(key)) <= 1
    <3>1. Tenants!Prepared(key) = {} \/ \E t : Tenants!Prepared(key) = {t}
      BY DEF Tenants!Inv
    <3>2. CASE Tenants!Prepared(key) = {}
      BY <3>2, TenantsCount, FS_EmptySet
    <3>3. ASSUME NEW t, Tenants!Prepared(key) = {t}
          PROVE  Tenants!Cardinality(Tenants!Prepared(key)) <= 1
      <4>1. Cardinality({t}) = 1
        BY FS_Singleton
      <4>2. Tenants!Cardinality({t}) = 1
        BY <4>1, TenantsCount
      <4> QED BY <3>3, <4>2
    <3> QED BY <3>1, <3>2, <3>3
  <2>4. Tenants!KeyNamesOneTenant
    BY <2>3 DEF Tenants!Inv, Tenants!LockInv, Tenants!KeyNamesOneTenant
  <2>5. Tenants!LiveAuthority
    BY DEF Tenants!Inv, Tenants!LockInv, Tenants!LiveAuthority, Tenants!Platform
  <2> QED BY <2>1, <2>2, <2>4, <2>5
<1>4. ~(part = "tenants") /\ [Next]_vars => ~(part = "tenants")'
  BY PartStays
<1> QED BY <1>1, <1>2, <1>3, <1>4, PTL DEF Spec

-----------------------------------------------------------------------------
(* Dictionaries *)

\* A commit writes all its rows, if they meet the constraints, or none.
LEMMA WordsCommit ==
  ASSUME NEW r \in Request, NEW op, NEW types, NEW data,
         Words!Inv, Words!Typed(types, data), Words!Commit(r, op, types, data)
  PROVE  Words!Inv'
<1>1. /\ s3 = [q \in Request |-> s3[q]]
      /\ \A q \in Request : s3[q].op \in {"add_type", "put_type"} => s3[q].row \in Words!Row
      /\ s3' = [s3 EXCEPT ![r] = Words!Idle]
  BY DEF Words!Inv, Words!Commit
<1>2. /\ s3' = [q \in Request |-> s3'[q]]
      /\ \A q \in Request :
           s3'[q].op \in {"add_type", "put_type"} => s3'[q].row \in Words!Row
  BY <1>1 DEF Words!Idle
<1>3. Words!Typed(s1, s2)' /\ Words!Unique(s1)' /\ Words!Referenced(s1, s2)'
  <2>1. CASE Words!Unique(types) /\ Words!Referenced(types, data)
    <3>1. s1' = types /\ s2' = data
      BY <2>1 DEF Words!Commit
    <3> QED BY <2>1, <3>1 DEF Words!Typed, Words!Unique, Words!Referenced, Words!CodesOf
  <2>2. CASE ~(Words!Unique(types) /\ Words!Referenced(types, data))
    <3>1. s1' = s1 /\ s2' = s2
      BY <2>2 DEF Words!Commit
    <3> QED BY <3>1 DEF Words!Inv, Words!Typed, Words!Unique, Words!Referenced, Words!CodesOf
  <2> QED BY <2>1, <2>2
<1> QED BY <1>2, <1>3 DEF Words!Inv

\* Creating, editing and deleting types and data leaves rows.
LEMMA WordsStayTyped ==
  ASSUME Words!Inv, NEW r \in Request
  PROVE  /\ \A t \in DictType : s3[r].op = "add_type" =>
               Words!Typed(Words!Put(s1, t, s3[r].row), s2)
         /\ s3[r].op = "put_type" => Words!Typed(Words!Edit(s1, s3[r].id, s3[r].row), s2)
         /\ \A ids : Words!Typed(Words!Keep(s1, ids), s2)
         /\ \A d \in Datum : Words!Typed(s1, Words!Put(s2, d, s3[r].code))
         /\ Words!Typed(s1, Words!Edit(s2, s3[r].id, s3[r].code))
  BY DEF Words!Inv, Words!Typed, Words!Put, Words!Edit, Words!Keep

\* Reading and checking changes no row.
LEMMA WordsStart ==
  ASSUME NEW r \in Request, NEW q, Words!Inv, Words!Start(r, q),
         q.op \in {"add_type", "put_type"} => q.row \in Words!Row
  PROVE  Words!Inv'
<1>1. /\ s3 = [p \in Request |-> s3[p]]
      /\ \A p \in Request : s3[p].op \in {"add_type", "put_type"} => s3[p].row \in Words!Row
      /\ s3' = [s3 EXCEPT ![r] = q]
      /\ s1' = s1 /\ s2' = s2
  BY DEF Words!Inv, Words!Start
<1>2. /\ s3' = [p \in Request |-> s3'[p]]
      /\ \A p \in Request :
           s3'[p].op \in {"add_type", "put_type"} => s3'[p].row \in Words!Row
  BY <1>1
<1> QED BY <1>1, <1>2
        DEF Words!Inv, Words!Typed, Words!Unique, Words!Referenced, Words!CodesOf

\* The handlers of types and data keep the invariant.
LEMMA WordsStep == ASSUME Words!Inv, [Words!Next]_Words!vars PROVE Words!Inv'
<1>1. ASSUME NEW r \in Request, Words!CheckCreateType(r) PROVE Words!Inv'
  <2>1. PICK code \in Word \ Words!CodesOf(s1), name \in Word \ Words!NamesOf(s1) :
          Words!Start(r, [op |-> "add_type", row |-> [code |-> code, name |-> name]])
    BY <1>1 DEF Words!CheckCreateType
  <2> QED BY <2>1, WordsStart DEF Words!Row
<1>2. ASSUME NEW r \in Request, Words!CheckUpdateType(r) PROVE Words!Inv'
  <2>1. PICK t \in DOMAIN s1, code \in Word, name \in Word :
          Words!Start(r, [op |-> "put_type", id |-> t, row |-> [code |-> code, name |-> name]])
    BY <1>2 DEF Words!CheckUpdateType
  <2> QED BY <2>1, WordsStart DEF Words!Row
<1>3. ASSUME NEW r \in Request,
             Words!CheckDeleteTypes(r) \/ Words!CheckCreateData(r) \/ Words!CheckUpdateData(r)
      PROVE  Words!Inv'
  <2>1. ASSUME Words!CheckDeleteTypes(r) PROVE Words!Inv'
    BY <2>1, WordsStart DEF Words!CheckDeleteTypes
  <2>2. ASSUME Words!CheckCreateData(r) PROVE Words!Inv'
    BY <2>2, WordsStart DEF Words!CheckCreateData
  <2>3. ASSUME Words!CheckUpdateData(r) PROVE Words!Inv'
    BY <2>3, WordsStart DEF Words!CheckUpdateData
  <2> QED BY <1>3, <2>1, <2>2, <2>3
<1>4. ASSUME NEW r \in Request, Words!AddType(r) PROVE Words!Inv'
  BY <1>4, WordsCommit, WordsStayTyped DEF Words!AddType, Words!Commit
<1>5. ASSUME NEW r \in Request, Words!PutType(r) PROVE Words!Inv'
  <2>1. s3[r].op = "put_type"
    BY <1>5 DEF Words!PutType, Words!Commit
  <2> QED BY <1>5, <2>1, WordsCommit, WordsStayTyped DEF Words!PutType
<1>6. ASSUME NEW r \in Request, Words!DropTypes(r) PROVE Words!Inv'
  BY <1>6, WordsCommit, WordsStayTyped DEF Words!DropTypes
<1>7. ASSUME NEW r \in Request, Words!AddData(r) PROVE Words!Inv'
  BY <1>7, WordsCommit, WordsStayTyped DEF Words!AddData
<1>8. ASSUME NEW r \in Request, Words!PutData(r) PROVE Words!Inv'
  BY <1>8, WordsCommit, WordsStayTyped DEF Words!PutData
<1>9. ASSUME Words!DropData PROVE Words!Inv'
  BY <1>9 DEF Words!DropData, Words!Inv, Words!Typed, Words!Unique, Words!Referenced,
              Words!CodesOf, Words!Keep
<1>10. CASE UNCHANGED Words!vars
  BY <1>10 DEF Words!vars, Words!Inv, Words!Typed, Words!Unique, Words!Referenced,
               Words!CodesOf
<1> QED BY <1>1, <1>2, <1>3, <1>4, <1>5, <1>6, <1>7, <1>8, <1>9, <1>10 DEF Words!Next

\* Types whose codes are unique are as many as their codes.
LEMMA WordsCount ==
  ASSUME Words!Inv
  PROVE  Cardinality(Words!CodesOf(s1)) = Cardinality(DOMAIN s1)
<1> DEFINE code == [t \in DOMAIN s1 |-> s1[t].code]
<1>1. IsFiniteSet(DOMAIN s1)
  BY FinitelyManyTypes, FS_Subset DEF Words!Inv, Words!Typed
<1>2. code \in Bijection(DOMAIN s1, Words!CodesOf(s1))
  BY DEF Words!Inv, Words!Unique, Words!CodesOf, Bijection, Injection, Surjection, IsInjective
<1> QED BY <1>1, <1>2, FS_Bijection DEF ExistsBijection

\* The count of Dictionary is the library's.
LEMMA WordsCard == ASSUME NEW S PROVE Words!Cardinality(S) = Cardinality(S)
  BY DEF Words!Cardinality, Words!IsFiniteSet, Cardinality, IsFiniteSet

\* Every datum keeps a type and no two types share a code, whatever was
\* created, renamed or deleted between a handler's check and its commit
\* (dict_type_service.py).
THEOREM DictionariesStayWhole == Spec => []WordsHold
<1>1. part = "words" /\ Init => Words!Inv
  BY DEF Init, Words!Init, Words!Inv, Words!Typed, Words!Unique, Words!Referenced, Words!Idle
<1>2. part = "words" /\ Words!Inv /\ [Next]_vars => Words!Inv' /\ (part = "words")'
  BY WordsStep DEF Next, vars, from4, Words!vars
<1>3. (part = "words" => Words!Inv) => WordsHold
  <2>1. ASSUME Words!Inv PROVE Words!TypeOK /\ Words!DictionaryIsWhole
    <3>1. Words!Typed(s1, s2) /\ \A d \in DOMAIN s2 : s2[d] \in Words!CodesOf(s1)
      BY <2>1 DEF Words!Inv, Words!Referenced
    <3> QED BY <2>1, <3>1, WordsCount, WordsCard DEF Words!TypeOK, Words!DictionaryIsWhole
  <2> QED BY <2>1 DEF WordsHold
<1>4. ~(part = "words") /\ [Next]_vars => ~(part = "words")'
  BY PartStays
<1> QED BY <1>1, <1>2, <1>3, <1>4, PTL DEF Spec
-----------------------------------------------------------------------------
(* User import *)

\* The count of UserImport is the library's.
LEMMA ImportCard == ASSUME NEW S PROVE Import!Cardinality(S) = Cardinality(S)
  BY DEF Import!Cardinality, Import!IsFiniteSet, Cardinality, IsFiniteSet

\* An injection between finite sets of one size reaches everything.
LEMMA InjectionReachesAll ==
    ASSUME NEW S, NEW T, IsFiniteSet(S), IsFiniteSet(T), Cardinality(S) = Cardinality(T),
           NEW f \in Injection(S, T)
    PROVE  f \in Surjection(S, T)
<1> DEFINE image == {f[x] : x \in S}
<1>1. f \in [S -> T] /\ image \in SUBSET T
  BY DEF Injection
<1>2. f \in Bijection(S, image)
  BY DEF Injection, Bijection, Surjection, IsInjective
<1> HIDE DEF image
<1>3. Cardinality(image) = Cardinality(T)
  BY <1>2, FS_Bijection DEF ExistsBijection
<1>4. image = T
  BY <1>1, <1>3, FS_Subset
<1> QED BY <1>1, <1>4 DEF Surjection, image

\* A function on the first numbers is a sequence.
LEMMA FunctionIsSequence ==
    ASSUME NEW A, NEW n \in Nat, NEW s \in [1..n -> A]
    PROVE  s \in Seq(A) /\ Len(s) = n
  OBVIOUS

\* Rows can be put in order: a row's place is the number of rows not behind it.
LEMMA OrderExists ==
    ASSUME NEW S \in SUBSET (1..FileRows)
    PROVE  /\ IsFiniteSet(S)
           /\ \E s \in [1..Cardinality(S) -> S] :
                \A i, j \in 1..Cardinality(S) : i < j => s[i] < s[j]
<1> DEFINE n == Cardinality(S)
           upto(x) == {y \in S : y <= x}
           f == [x \in S |-> Cardinality(upto(x))]
<1>1. IsFiniteSet(S) /\ n \in Nat /\ \A x \in S : x \in Nat
  <2>1. FileRows \in Int /\ 1 \in Int
    BY ImportBounds
  <2>2. IsFiniteSet(1..FileRows)
    BY <2>1, FS_Interval
  <2>3. IsFiniteSet(S)
    BY <2>2, FS_Subset
  <2>4. \A x \in S : x \in 1..FileRows
    OBVIOUS
  <2>5. \A x \in S : x \in Nat
    BY <2>1, <2>4
  <2> QED BY <2>3, <2>5, FS_CardinalityType
<1>2. ASSUME NEW x \in S PROVE IsFiniteSet(upto(x)) /\ Cardinality(upto(x)) \in 1..n
  <2>1. upto(x) \in SUBSET S /\ x \in upto(x)
    BY <1>1
  <2> HIDE DEF upto
  <2>2. IsFiniteSet(upto(x)) /\ Cardinality(upto(x)) <= n /\ Cardinality(upto(x)) \in Nat
    BY <1>1, <2>1, FS_Subset, FS_CardinalityType
  <2>3. Cardinality(upto(x)) # 0
    BY <2>1, <2>2, FS_EmptySet
  <2> QED BY <1>1, <2>2, <2>3
<1>3. ASSUME NEW x \in S, NEW y \in S, x < y PROVE f[x] < f[y]
  <2>5. x \in Nat /\ y \in Nat
    BY <1>1
  <2>6. \A z \in S : z \in Nat /\ (z <= x => z <= y)
    BY <1>1, <1>3, <2>5
  <2>1. upto(x) \in SUBSET upto(y) /\ y \in upto(y) /\ y \notin upto(x)
    <3>1. y <= y /\ ~(y <= x)
      BY <1>3, <2>5
    <3> QED BY <2>6, <3>1
  <2>2. IsFiniteSet(upto(x)) /\ IsFiniteSet(upto(y))
        /\ Cardinality(upto(x)) \in 1..n /\ Cardinality(upto(y)) \in 1..n
    BY <1>2
  <2>3. f[x] = Cardinality(upto(x)) /\ f[y] = Cardinality(upto(y))
    OBVIOUS
  <2> HIDE DEF upto, f
  <2>4. Cardinality(upto(x)) <= Cardinality(upto(y)) /\ Cardinality(upto(x)) # Cardinality(upto(y))
    BY <2>1, <2>2, FS_Subset
  <2> QED BY <1>1, <2>2, <2>3, <2>4
<1>4. f \in [S -> 1..n]
  BY <1>2
<1> HIDE DEF f, upto
<1>5. f \in Injection(S, 1..n)
  <2>1. ASSUME NEW x \in S, NEW y \in S, f[x] = f[y] PROVE x = y
    <3>1. x \in Nat /\ y \in Nat /\ f[x] \in Nat
      BY <1>1, <1>4
    <3>2. ~(x < y) /\ ~(y < x)
      BY <1>3, <2>1, <3>1
    <3> QED BY <3>1, <3>2
  <2> QED BY <1>4, <2>1 DEF Injection, IsInjective
<1>6. f \in Surjection(S, 1..n)
  <2>1. IsFiniteSet(1..n) /\ Cardinality(1..n) = n
    BY <1>1, FS_Interval
  <2> QED BY <1>1, <1>5, <2>1, InjectionReachesAll
<1> DEFINE s == [i \in 1..n |-> CHOOSE x \in S : f[x] = i]
<1>7. ASSUME NEW i \in 1..n PROVE s[i] \in S /\ f[s[i]] = i
  BY <1>6 DEF Surjection
<1>8. s \in [1..n -> S]
  BY <1>7
<1> HIDE DEF s
<1>9. ASSUME NEW i \in 1..n, NEW j \in 1..n, i < j PROVE s[i] < s[j]
  <2>4. s[i] \in S /\ s[j] \in S /\ f[s[i]] = i /\ f[s[j]] = j
    BY <1>7
  <2>5. s[i] \in Nat /\ s[j] \in Nat
    BY <1>1, <2>4
  <2> HIDE DEF n
  <2>6. i \in Nat /\ j \in Nat
    BY <1>1
  <2>1. /\ s[i] \in S /\ s[j] \in S /\ f[s[i]] = i /\ f[s[j]] = j
        /\ s[i] \in Nat /\ s[j] \in Nat /\ i \in Nat /\ j \in Nat
    BY <2>4, <2>5, <2>6
  <2>2. ~(s[j] < s[i])
    BY <1>3, <1>9, <2>1
  <2>3. s[i] # s[j]
    BY <1>9, <2>1
  <2> QED BY <2>1, <2>2, <2>3
<1> QED BY <1>1, <1>8, <1>9

\* InOrder lists every row of a set once.
LEMMA InOrderLists ==
    ASSUME NEW S \in SUBSET (1..FileRows)
    PROVE  /\ IsFiniteSet(S) /\ Cardinality(S) \in Nat
           /\ Import!InOrder(S) \in Seq(1..FileRows)
           /\ Len(Import!InOrder(S)) = Cardinality(S)
           /\ \A i \in 1..Cardinality(S) : Import!InOrder(S)[i] \in S
           /\ \A r \in S : \E i \in 1..Cardinality(S) : Import!InOrder(S)[i] = r
<1> DEFINE n == Cardinality(S)
           s == Import!InOrder(S)
<1>1. IsFiniteSet(S) /\ n \in Nat
  BY OrderExists, FS_CardinalityType
<1>2. s \in [1..n -> S] /\ \A i, j \in 1..n : i < j => s[i] < s[j]
  <2>1. s = CHOOSE c \in [1..n -> S] : \A i, j \in 1..n : i < j => c[i] < c[j]
    BY ImportCard DEF Import!InOrder
  <2>2. \E c \in [1..n -> S] : \A i, j \in 1..n : i < j => c[i] < c[j]
    BY OrderExists
  <2> HIDE DEF n, s
  <2> QED BY <2>1, <2>2
<1> HIDE DEF s
<1>3. s \in Injection(1..n, S)
  <2>1. ASSUME NEW i \in 1..n, NEW j \in 1..n, s[i] = s[j] PROVE i = j
    <3>4. s[i] \in S /\ s[i] \in 1..FileRows
      BY <1>2
    <3> HIDE DEF n
    <3>5. i \in Nat /\ j \in Nat
      BY <1>1
    <3>1. s[i] \in S /\ s[i] \in 1..FileRows /\ i \in Nat /\ j \in Nat
      BY <3>4, <3>5
    <3>3. s[i] \in Nat
      BY <3>1, ImportBounds
    <3>2. ~(i < j) /\ ~(j < i)
      BY <1>2, <2>1, <3>3
    <3> QED BY <3>1, <3>2
  <2> QED BY <1>2, <2>1 DEF Injection, IsInjective
<1>4. s \in Surjection(1..n, S)
  <2>1. IsFiniteSet(1..n) /\ Cardinality(1..n) = n
    BY <1>1, FS_Interval
  <2> QED BY <1>1, <1>3, <2>1, InjectionReachesAll
<1>5. s \in Seq(1..FileRows) /\ Len(s) = n
  <2>1. s \in [1..n -> 1..FileRows]
    BY <1>2
  <2> HIDE DEF n
  <2> QED BY <1>1, <2>1, FunctionIsSequence
<1> QED BY <1>1, <1>2, <1>4, <1>5 DEF Surjection, s

ImportPcs == {"idle", "ready", "resolve", "locking", "rows", "commit",
              "cancel", "expire", "purge", "drain"}
Holders == {"resolve", "locking", "rows", "commit"}

ImportTx == [mode : {"none", "skip", "overwrite", "fail_fast"},
             sync : {"none", "CREATE_ONLY", "UPDATE_PROFILE"},
             facts : {<<>>} \cup [1..FileRows -> {"ok", "conflict", "outside"}],
             users : {<<>>} \cup [1..FileRows -> {"absent", "named", "numbered", "created", "updated"}],
             todo : Seq(1..FileRows), pos : Nat, done : SUBSET (1..FileRows), chunk : SUBSET (1..FileRows),
             success : Nat, over : Nat, skipped : Nat, failed : Nat,
             bind : SUBSET {"source", "errors"}]

ImportBatches == [status : {"NONE", "DELETED", "PREVIEW_DONE", "SUCCESS", "PARTIAL_SUCCESS", "FAILED",
                            "EXPIRED", "CANCELLED"},
                  channel : {"none", "http", "ai"}, age : Nat, success : Nat, over : Nat,
                  skipped : Nat, failed : Nat, errors : {"none", "owned", "plain"}]

ImportTypes ==
    /\ s1 \in ImportBatches
    /\ s2 \in [1..FileRows -> {"absent", "named", "numbered", "created", "updated"}]
    /\ s3 \in [1..FileRows -> {"ok", "conflict", "outside"}]
    /\ s8 \in [Request -> ImportPcs]
    /\ s9 \in [Request -> ImportTx]

\* A transaction that has claimed the batch holds its row, and nobody has changed it since.
ClaimInv(q) == s8[q] \in Holders => s7 = q /\ s1.status = "PREVIEW_DONE"

\* Before the rows nothing is written.
FreshInv(t) ==
    /\ t.todo = <<>> /\ t.pos = 0 /\ t.done = {} /\ t.chunk = {} /\ t.success = 0 /\ t.over = 0

\* Without failures every row has its user, or is yet to be written or written.
CoverInv(t, users) ==
    t.failed = 0 =>
      /\ \A r \in 1..FileRows : users[r] # "absent" \/ \E i \in 1..Len(t.todo) : t.todo[i] = r
      /\ \A i \in 1..t.pos : t.todo[i] \in t.done \cup t.chunk

\* A strict batch has written as far as it got, or has been undone or refused.
WholeInv(t) ==
    \/ t.done = {} /\ t.chunk = {} /\ t.success = 0 /\ t.over = 0 /\ t.pos = Len(t.todo)
    \/ /\ t.done \cup t.chunk = {t.todo[i] : i \in 1..t.pos} /\ t.success + t.over = t.pos
       /\ {t.todo[i] : i \in 1..Len(t.todo)} = 1..FileRows /\ Len(t.todo) = FileRows

RowsInv(t, users) ==
    /\ t.pos <= Len(t.todo) /\ (t.pos = Len(t.todo) => t.chunk = {})
    /\ t.done \cup t.chunk # {} => t.success + t.over # 0
    /\ CoverInv(t, users)
    /\ t.mode = "fail_fast" => WholeInv(t)

TxInv(q) ==
    /\ ClaimInv(q)
    /\ s8[q] \in {"idle", "ready", "resolve", "locking"} => FreshInv(s9[q])
    /\ s8[q] \in {"rows", "commit"} => RowsInv(s9[q], s2)
    /\ s8[q] = "commit" => /\ s9[q].pos = Len(s9[q].todo)
                           /\ s9[q].failed # 0 /\ s1.channel = "ai" => "errors" \in s5

\* The record, the users and the files agree.
BatchInv ==
    /\ Import!RecordMatchesUsers /\ Import!FilesOutliveUse
    /\ s1.status \in {"NONE", "DELETED"} => s1.errors = "none" /\ s1.channel = "none"

ImportInv == ImportTypes /\ BatchInv /\ \A q \in Request : TxInv(q)

\* A step that leaves a transaction alone, and the world it has locked.
LEMMA TxStays ==
    ASSUME ImportTypes, NEW q \in Request, TxInv(q), s8'[q] = s8[q], s9'[q] = s9[q],
           s8[q] \in Holders => /\ s7' = s7 /\ s1'.status = s1.status /\ s1'.channel = s1.channel
                                /\ ("errors" \in s5 => "errors" \in s5'),
           \A r \in 1..FileRows : s2[r] # "absent" => s2'[r] # "absent"
    PROVE  TxInv(q)'
<1>1. ClaimInv(q)'
  BY DEF TxInv, ClaimInv
<1>2. s8[q] \in {"rows", "commit"} => RowsInv(s9[q], s2')
  BY DEF TxInv, RowsInv, CoverInv
<1>3. (s8[q] \in {"rows", "commit"} => RowsInv(s9[q], s2))'
  <2>1. (s8[q] \in {"rows", "commit"} => RowsInv(s9[q], s2))'
          <=> (s8'[q] \in {"rows", "commit"} => RowsInv(s9'[q], s2'))
    BY DEF RowsInv, CoverInv, WholeInv
  <2> QED BY <1>2, <2>1
<1>4. (s8[q] \in {"idle", "ready", "resolve", "locking"} => FreshInv(s9[q]))'
  BY DEF TxInv, FreshInv
<1>5. (s8[q] = "commit" => /\ s9[q].pos = Len(s9[q].todo)
                           /\ s9[q].failed # 0 /\ s1.channel = "ai" => "errors" \in s5)'
  BY DEF TxInv, Holders
<1> QED BY <1>1, <1>3, <1>4, <1>5 DEF TxInv

\* A step of one transaction, when no other holds the batch or what it holds stays.
LEMMA TxMoves ==
    ASSUME ImportInv, ImportTypes', BatchInv', NEW q \in Request, TxInv(q)',
           \A u \in Request \ {q} : s8'[u] = s8[u] /\ s9'[u] = s9[u],
           \/ s7 \in {q, "none"}
           \/ /\ s7' = s7 /\ s1'.status = s1.status /\ s1'.channel = s1.channel
              /\ ("errors" \in s5 => "errors" \in s5'),
           \A r \in 1..FileRows : s2[r] # "absent" => s2'[r] # "absent"
    PROVE  ImportInv'
<1>1. ASSUME NEW u \in Request \ {q} PROVE TxInv(u)'
  <2>1. TxInv(u) /\ u \in Request /\ u # "none" /\ u # q /\ ImportTypes
    BY RequestsAreSomebody DEF ImportInv
  <2>2. s8[u] \in Holders => s7 = u
    BY <2>1 DEF TxInv, ClaimInv
  <2> QED BY <2>1, <2>2, TxStays
<1> QED BY <1>1 DEF ImportInv

\* Two lists of different rows, one behind the other, list their union.
LEMMA ListsUnite ==
    ASSUME NEW S \in SUBSET (1..FileRows), NEW T \in SUBSET (1..FileRows), S \cap T = {}
    PROVE  LET list == Import!InOrder(S) \o Import!InOrder(T) IN
           /\ list \in Seq(1..FileRows) /\ Len(list) = Cardinality(S \cup T)
           /\ {list[i] : i \in 1..Len(list)} = S \cup T
<1> DEFINE a == Import!InOrder(S)
           b == Import!InOrder(T)
           list == a \o b
           m == Cardinality(S)
           n == Cardinality(T)
<1>1. /\ IsFiniteSet(S) /\ m \in Nat /\ a \in Seq(1..FileRows) /\ Len(a) = m
      /\ \A i \in 1..m : a[i] \in S
      /\ \A r \in S : \E i \in 1..m : a[i] = r
  BY InOrderLists
<1>2. /\ IsFiniteSet(T) /\ n \in Nat /\ b \in Seq(1..FileRows) /\ Len(b) = n
      /\ \A i \in 1..n : b[i] \in T
      /\ \A r \in T : \E i \in 1..n : b[i] = r
  BY InOrderLists
<1>3. Cardinality(S \cup T) = m + n
  <2>1. Cardinality(S \cup T) = Cardinality(S) + Cardinality(T) - Cardinality(S \cap T)
    BY <1>1, <1>2, FS_Union
  <2>2. Cardinality(S \cap T) = 0
    BY FS_EmptySet
  <2> QED BY <1>1, <1>2, <2>1, <2>2
<1> HIDE DEF a, b, m, n
<1>4. /\ list \in Seq(1..FileRows) /\ Len(list) = m + n
      /\ \A i \in 1..m : list[i] = a[i]
      /\ \A i \in 1..n : list[m + i] = b[i]
  BY <1>1, <1>2
<1>5. \A i \in 1..m : i \in 1..(m + n)
  BY <1>1, <1>2
<1>6. \A i \in 1..n : m + i \in 1..(m + n)
  BY <1>1, <1>2
<1>7. \A i \in 1..(m + n) : i \in 1..m \/ \E j \in 1..n : i = m + j
  <2>1. ASSUME NEW i \in 1..(m + n), i \notin 1..m PROVE i - m \in 1..n /\ i = m + (i - m)
    BY <1>1, <1>2, <2>1
  <2> QED BY <2>1
<1> HIDE DEF list
<1>8. ASSUME NEW i \in 1..(m + n) PROVE list[i] \in S \cup T
  <2>1. CASE i \in 1..m
    BY <1>1, <1>4, <2>1
  <2>2. ASSUME NEW j \in 1..n, i = m + j PROVE list[i] \in S \cup T
    BY <1>2, <1>4, <2>2
  <2> QED BY <1>7, <2>1, <2>2
<1>9. \A r \in S \cup T : \E i \in 1..(m + n) : list[i] = r
  BY <1>1, <1>2, <1>4, <1>5, <1>6
<1>10. {list[i] : i \in 1..Len(list)} = S \cup T
  <2>1. {list[i] : i \in 1..Len(list)} = {list[i] : i \in 1..(m + n)}
    BY <1>4
  <2>2. {list[i] : i \in 1..(m + n)} = S \cup T
    <3>1. {list[i] : i \in 1..(m + n)} \subseteq S \cup T
      BY <1>8
    <3>2. S \cup T \subseteq {list[i] : i \in 1..(m + n)}
      BY <1>9
    <3> QED BY <3>1, <3>2
  <2> QED BY <2>1, <2>2
<1> QED BY <1>3, <1>4, <1>10 DEF list, a, b

\* The plan covers the file, and a strict one is all or nothing.
LEMMA PlanCovers ==
    ASSUME NEW t \in ImportTx, FreshInv(t),
           t.facts \in [1..FileRows -> {"ok", "conflict", "outside"}],
           t.users \in [1..FileRows -> {"absent", "named", "numbered", "created", "updated"}]
    PROVE  Import!Plan(t) \in ImportTx /\ RowsInv(Import!Plan(t), t.users)
<1> DEFINE new == Import!New(t)
           over == Import!Overwrites(t)
           bad == Import!Rejected(t)
           stopped == t.mode = "fail_fast" /\ bad # {}
           outside == \E r \in 1..FileRows : t.facts[r] = "outside"
           list == Import!InOrder(new) \o Import!InOrder(over)
           todo == IF stopped \/ outside THEN <<>> ELSE list
           skipped == IF t.mode = "skip"
                      THEN Import!Cardinality(Import!Exists(t) \ Import!ByNumber(t)) ELSE 0
           failed == IF stopped THEN FileRows ELSE Import!Cardinality(bad)
           p == [t EXCEPT !.todo = todo, !.skipped = skipped, !.failed = failed]
<1>1. Import!Plan(t) = p
  BY DEF Import!Plan, Import!Row
<1>2. /\ new \in SUBSET (1..FileRows) /\ over \in SUBSET (1..FileRows) /\ bad \in SUBSET (1..FileRows)
      /\ Import!Exists(t) \ Import!ByNumber(t) \in SUBSET (1..FileRows) /\ new \cap over = {}
  BY DEF Import!New, Import!Overwrites, Import!Rejected, Import!Exists, Import!ByNumber, Import!Row
<1>3. /\ list \in Seq(1..FileRows) /\ Len(list) = Cardinality(new \cup over)
      /\ {list[i] : i \in 1..Len(list)} = new \cup over
  BY <1>2, ListsUnite
<1>4. failed \in Nat /\ skipped \in Nat
  <2>1. Cardinality(bad) \in Nat /\ Cardinality(Import!Exists(t) \ Import!ByNumber(t)) \in Nat
    BY <1>2, OrderExists, FS_CardinalityType
  <2> QED BY <2>1, ImportBounds, ImportCard
<1>5. failed = 0 => (bad = {} \/ 1..FileRows = {})
  <2>1. IsFiniteSet(bad)
    BY <1>2, OrderExists
  <2>2. Import!Cardinality(bad) = 0 => bad = {}
    BY <2>1, ImportCard, FS_EmptySet
  <2>3. FileRows = 0 => 1..FileRows = {}
    OBVIOUS
  <2> QED BY <2>2, <2>3
<1>6. bad = {} => /\ ~stopped /\ ~outside
                  /\ \A r \in 1..FileRows : t.users[r] # "absent" \/ r \in new \cup over
                  /\ t.mode = "fail_fast" => new \cup over = 1..FileRows
  BY DEF Import!New, Import!Overwrites, Import!Rejected, Import!Exists, Import!ByNumber, Import!Row
<1>7. bad # {} /\ t.mode = "fail_fast" => todo = <<>>
  OBVIOUS
<1>8. Cardinality(1..FileRows) = FileRows
  BY ImportBounds, FS_Interval
<1> HIDE DEF new, over, bad, list, skipped, failed
<1>9. todo \in Seq(1..FileRows)
  <2>1. <<>> \in Seq(1..FileRows)
    OBVIOUS
  <2> QED BY <1>3, <2>1
<1>10. bad = {} => todo = list
  BY <1>6
<1> HIDE DEF todo
<1>11. /\ p \in ImportTx /\ p.todo = todo /\ p.pos = t.pos /\ p.done = t.done /\ p.chunk = t.chunk
       /\ p.success = t.success /\ p.over = t.over /\ p.failed = failed /\ p.mode = t.mode
  BY <1>4, <1>9 DEF ImportTx
<1> HIDE DEF p
<1>12. p.pos = 0 /\ p.done = {} /\ p.chunk = {} /\ p.success = 0 /\ p.over = 0
  BY <1>11 DEF FreshInv
<1>13. p.pos <= Len(p.todo) /\ Len(p.todo) \in Nat
  BY <1>9, <1>11, <1>12
<1>14. CoverInv(p, t.users)
  <2> SUFFICES ASSUME failed = 0
               PROVE  \A r \in 1..FileRows : t.users[r] # "absent" \/ \E i \in 1..Len(todo) : todo[i] = r
    BY <1>11, <1>12 DEF CoverInv
  <2>1. CASE bad = {}
    <3>1. \A r \in new \cup over : \E i \in 1..Len(todo) : todo[i] = r
      BY <1>3, <1>10, <2>1
    <3> QED BY <1>6, <2>1, <3>1
  <2> QED BY <1>5, <2>1
<1>15. p.mode = "fail_fast" => WholeInv(p)
  <2> SUFFICES ASSUME t.mode = "fail_fast" PROVE WholeInv(p)
    BY <1>11
  <2>1. CASE bad = {}
    <3>3. todo = list /\ new \cup over = 1..FileRows
      BY <1>6, <1>10, <2>1
    <3>4. Len(list) = Cardinality(new \cup over) /\ {list[i] : i \in 1..Len(list)} = new \cup over
      BY <1>3
    <3>1. {todo[i] : i \in 1..Len(todo)} = 1..FileRows /\ Len(todo) = FileRows
      BY <1>8, <3>3, <3>4
    <3>2. {todo[i] : i \in 1..0} = {}
      OBVIOUS
    <3> QED BY <1>11, <1>12, <3>1, <3>2 DEF WholeInv
  <2>2. CASE bad # {}
    <3>1. todo = <<>> /\ Len(todo) = 0
      BY <1>7, <2>2
    <3> QED BY <1>11, <1>12, <3>1 DEF WholeInv
  <2> QED BY <2>1, <2>2
<1> QED BY <1>1, <1>11, <1>12, <1>13, <1>14, <1>15 DEF RowsInv


\* The fields of a transaction whose next row is over.
LEMMA AdvanceIs ==
    ASSUME NEW t \in ImportTx, NEW wrote \in SUBSET (1..FileRows)
    PROVE  LET p == Import!Advance(t, wrote) IN
           /\ p \in ImportTx /\ p.todo = t.todo /\ p.mode = t.mode /\ p.pos = t.pos + 1
           /\ p.done \cup p.chunk = t.done \cup t.chunk \cup wrote
           /\ (p.pos = Len(t.todo) => p.chunk = {})
           /\ p.success = t.success /\ p.over = t.over /\ p.failed = t.failed
<1> DEFINE n == t.pos + 1
           whole == n % Chunk = 0 \/ n = Len(t.todo)
           done == IF whole THEN t.done \cup t.chunk \cup wrote ELSE t.done
           chunk == IF whole THEN {} ELSE t.chunk \cup wrote
           p == [t EXCEPT !.pos = n, !.done = done, !.chunk = chunk]
<1>1. Import!Advance(t, wrote) = p
  BY DEF Import!Advance, ImportTx
<1>2. n \in Nat /\ done \in SUBSET (1..FileRows) /\ chunk \in SUBSET (1..FileRows)
  <2>1. t.pos \in Nat /\ t.done \in SUBSET (1..FileRows) /\ t.chunk \in SUBSET (1..FileRows)
    BY DEF ImportTx
  <2>2. n \in Nat
    BY <2>1
  <2> HIDE DEF whole
  <2>3. CASE whole
    BY <2>1, <2>2, <2>3
  <2>4. CASE ~whole
    BY <2>1, <2>2, <2>4
  <2> QED BY <2>3, <2>4
<1>3. done \cup chunk = t.done \cup t.chunk \cup wrote /\ (n = Len(t.todo) => chunk = {})
  OBVIOUS
<1>4. n = t.pos + 1
  OBVIOUS
<1> HIDE DEF n, done, chunk
<1>5. /\ p \in ImportTx /\ p.todo = t.todo /\ p.mode = t.mode /\ p.pos = n /\ p.done = done
      /\ p.chunk = chunk /\ p.success = t.success /\ p.over = t.over /\ p.failed = t.failed
  BY <1>2 DEF ImportTx
<1> HIDE DEF p
<1> QED BY <1>1, <1>3, <1>4, <1>5

\* A row that is over is written in its chunk, or it failed in a batch that is not strict.
LEMMA RowKeeps ==
    ASSUME NEW t \in ImportTx, NEW p \in ImportTx, NEW users, RowsInv(t, users), t.pos < Len(t.todo),
           NEW wrote, p.todo = t.todo, p.mode = t.mode, p.pos = t.pos + 1,
           p.done \cup p.chunk = t.done \cup t.chunk \cup wrote,
           p.pos = Len(t.todo) => p.chunk = {},
           \/ /\ wrote = {t.todo[t.pos + 1]} /\ p.failed = t.failed
              /\ p.success + p.over = t.success + t.over + 1
           \/ /\ wrote = {} /\ p.failed = t.failed + 1 /\ t.mode # "fail_fast"
              /\ p.success = t.success /\ p.over = t.over
    PROVE  RowsInv(p, users)
<1>1. /\ t.pos \in Nat /\ Len(t.todo) \in Nat /\ t.success \in Nat /\ t.over \in Nat /\ t.failed \in Nat
      /\ p.success \in Nat /\ p.over \in Nat /\ p.failed \in Nat
  BY DEF ImportTx
<1>2. p.pos <= Len(p.todo) /\ (p.pos = Len(p.todo) => p.chunk = {})
  BY <1>1
<1>3. p.done \cup p.chunk # {} => p.success + p.over # 0
  <2>1. t.done \cup t.chunk # {} => t.success + t.over # 0
    BY DEF RowsInv
  <2> QED BY <1>1, <2>1
<1>4. \A i \in 1..p.pos : i \in 1..t.pos \/ i = t.pos + 1
  BY <1>1
<1>5. CoverInv(p, users)
  <2> SUFFICES ASSUME p.failed = 0 PROVE CoverInv(p, users)
    BY DEF CoverInv
  <2>1. t.failed = 0 /\ wrote = {t.todo[t.pos + 1]}
    BY <1>1
  <2>2. /\ \A r \in 1..FileRows : users[r] # "absent" \/ \E i \in 1..Len(t.todo) : t.todo[i] = r
        /\ \A i \in 1..t.pos : t.todo[i] \in t.done \cup t.chunk
    BY <2>1 DEF RowsInv, CoverInv
  <2>3. \A i \in 1..p.pos : p.todo[i] \in p.done \cup p.chunk
    BY <1>4, <2>1, <2>2
  <2> QED BY <2>2, <2>3 DEF CoverInv
<1>6. p.mode = "fail_fast" => WholeInv(p)
  <2> SUFFICES ASSUME p.mode = "fail_fast" PROVE WholeInv(p)
    OBVIOUS
  <2>1. wrote = {t.todo[t.pos + 1]} /\ p.success + p.over = t.success + t.over + 1
    OBVIOUS
  <2>2. /\ t.done \cup t.chunk = {t.todo[i] : i \in 1..t.pos} /\ t.success + t.over = t.pos
        /\ {t.todo[i] : i \in 1..Len(t.todo)} = 1..FileRows /\ Len(t.todo) = FileRows
    BY <1>1 DEF RowsInv, WholeInv
  <2>3. {t.todo[i] : i \in 1..(t.pos + 1)} = {t.todo[i] : i \in 1..t.pos} \cup {t.todo[t.pos + 1]}
    <3>1. \A i \in 1..t.pos : i \in 1..(t.pos + 1)
      BY <1>1
    <3>2. t.pos + 1 \in 1..(t.pos + 1)
      BY <1>1
    <3>3. \A i \in 1..(t.pos + 1) : i \in 1..t.pos \/ i = t.pos + 1
      BY <1>1
    <3> QED BY <3>1, <3>2, <3>3
  <2>4. p.done \cup p.chunk = {p.todo[i] : i \in 1..p.pos}
    <3>1. p.done \cup p.chunk = {t.todo[i] : i \in 1..t.pos} \cup {t.todo[t.pos + 1]}
      BY <2>1, <2>2
    <3>2. {p.todo[i] : i \in 1..p.pos} = {t.todo[i] : i \in 1..(t.pos + 1)}
      OBVIOUS
    <3> QED BY <2>3, <3>1, <3>2
  <2>5. p.success + p.over = p.pos
    BY <2>1, <2>2
  <2> QED BY <2>2, <2>4, <2>5 DEF WholeInv
<1> QED BY <1>2, <1>3, <1>5, <1>6 DEF RowsInv

\* The start of a chunk is not behind its rows.
LEMMA ChunkStarts ==
    ASSUME NEW n \in Nat, NEW c \in Nat \ {0}
    PROVE  (n \div c) * c \in Nat /\ (n \div c) * c <= n
  OBVIOUS

\* What is given up has failed, and a strict batch is undone.
LEMMA AbortKeeps ==
    ASSUME NEW t \in ImportTx, NEW users, RowsInv(t, users), t.pos < Len(t.todo)
    PROVE  Import!Aborted(t) \in ImportTx /\ RowsInv(Import!Aborted(t), users)
<1>1. t.pos \in Nat /\ Len(t.todo) \in Nat /\ t.failed \in Nat
  BY DEF ImportTx
<1>2. CASE t.mode = "fail_fast"
  <2> DEFINE n == Len(t.todo)
             p == [t EXCEPT !.done = {}, !.chunk = {}, !.success = 0, !.over = 0,
                            !.skipped = 0, !.failed = n, !.pos = n]
  <2>1. Import!Aborted(t) = p
    BY <1>2 DEF Import!Aborted
  <2>2. n \in Nat /\ n # 0
    BY <1>1
  <2> HIDE DEF n
  <2>3. /\ p \in ImportTx /\ p.done = {} /\ p.chunk = {} /\ p.success = 0 /\ p.over = 0
        /\ p.failed = n /\ p.pos = n /\ p.todo = t.todo
    BY <2>2 DEF ImportTx
  <2> HIDE DEF p
  <2>4. RowsInv(p, users)
    BY <2>2, <2>3 DEF RowsInv, CoverInv, WholeInv, n
  <2> QED BY <2>1, <2>3, <2>4
<1>3. CASE t.mode # "fail_fast"
  <2> DEFINE n == Len(t.todo)
             f == t.failed + Len(t.todo) - Import!ChunkStart(t)
             p == [t EXCEPT !.chunk = {}, !.pos = n, !.failed = f]
  <2>1. Import!Aborted(t) = p
    BY <1>3 DEF Import!Aborted, ImportTx
  <2>2. n \in Nat /\ f \in Nat /\ f # 0
    <3>1. Import!ChunkStart(t) \in Nat /\ Import!ChunkStart(t) <= t.pos
      BY <1>1, ImportBounds, ChunkStarts DEF Import!ChunkStart
    <3> QED BY <1>1, <3>1
  <2> HIDE DEF n, f
  <2>3. /\ p \in ImportTx /\ p.done = t.done /\ p.chunk = {} /\ p.success = t.success
        /\ p.over = t.over /\ p.failed = f /\ p.pos = n /\ p.todo = t.todo /\ p.mode = t.mode
    BY <2>2 DEF ImportTx
  <2> HIDE DEF p
  <2>4. t.done \cup t.chunk # {} => t.success + t.over # 0
    BY DEF RowsInv
  <2>5. RowsInv(p, users)
    BY <1>3, <2>2, <2>3, <2>4 DEF RowsInv, CoverInv, n
  <2> QED BY <2>1, <2>3, <2>5
<1> QED BY <1>2, <1>3

\* What a claim that ended leaves in its row.
LEMMA IdleTx == Import!NoTx \in ImportTx /\ FreshInv(Import!NoTx)
<1>1. <<>> \in Seq(1..FileRows)
  OBVIOUS
<1> QED BY <1>1 DEF Import!NoTx, Import!None, ImportTx, FreshInv

\* A step that leaves batch, users and files alone leaves the record of the batch true.
LEMMA BatchStays ==
    ASSUME BatchInv, s1' = s1, s2' = s2, s5 \subseteq s5'
    PROVE  BatchInv'
<1>1. Import!RecordMatchesUsers'
  BY DEF BatchInv, Import!RecordMatchesUsers, Import!Written, Import!Created, Import!Updated, Import!Row
<1>2. Import!FilesOutliveUse'
  BY DEF BatchInv, Import!FilesOutliveUse, Import!Bound
<1> QED BY <1>1, <1>2 DEF BatchInv

\* A preview is made.
LEMMA PreviewStep ==
    ASSUME ImportInv, NEW q \in Request, Import!HttpPreview(q) \/ Import!AiPreview(q)
    PROVE  ImportInv'
<1>1. /\ ImportTypes /\ BatchInv /\ TxInv(q) /\ s8[q] = "idle" /\ s1.status = "NONE"
      /\ s2' = s2 /\ s3' = s3 /\ s7' = s7 /\ s8' = s8 /\ s9' = s9
  BY DEF ImportInv, Import!HttpPreview, Import!AiPreview
<1>2. PICK c \in {"http", "ai"} :
        /\ s1' = [s1 EXCEPT !.status = "PREVIEW_DONE", !.channel = c]
        /\ \/ c = "http" /\ s5' = s5
           \/ c = "ai" /\ s5' = s5 \cup {"source"}
  BY DEF Import!HttpPreview, Import!AiPreview
<1>3. s1' \in ImportBatches /\ s1'.status = "PREVIEW_DONE" /\ s1'.channel = c /\ s1'.errors = s1.errors
  BY <1>1, <1>2 DEF ImportTypes, ImportBatches
<1>4. ImportTypes'
  BY <1>1, <1>3 DEF ImportTypes
<1>5. BatchInv'
  <2>1. s1.errors = "none" /\ Import!Written = {}
    BY <1>1 DEF BatchInv, Import!RecordMatchesUsers
  <2>2. Import!RecordMatchesUsers'
    BY <1>1, <1>3, <2>1 DEF Import!RecordMatchesUsers, Import!Written, Import!Created, Import!Updated, Import!Row
  <2>3. Import!FilesOutliveUse'
    BY <1>2, <1>3, <2>1 DEF Import!FilesOutliveUse, Import!Bound
  <2> QED BY <1>3, <2>2, <2>3 DEF BatchInv
<1>6. ASSUME NEW u \in Request PROVE TxInv(u)'
  <2>1. TxInv(u) /\ s8[u] \notin Holders
    BY <1>1 DEF ImportInv, TxInv, ClaimInv
  <2> QED BY <1>1, <2>1, TxStays
<1> QED BY <1>4, <1>5, <1>6 DEF ImportInv

\* The steps of an execution up to its rows, and a clean-up's that changes nothing of the batch.
LEMMA ClaimingStep ==
    ASSUME ImportInv, NEW q \in Request, NEW pc \in ImportPcs, NEW t \in ImportTx,
           s8' = [s8 EXCEPT ![q] = pc], s9' = [s9 EXCEPT ![q] = t],
           UNCHANGED <<s1, s2, s3>>,
           s5' = s5 \/ (s5' \subseteq s5 /\ s7 = "none" /\ s1.status \in {"CANCELLED", "EXPIRED", "DELETED"}),
           \/ s7' = s7 /\ (pc \in Holders => s7 = q /\ s8[q] \in Holders)
           \/ s7 = "none" /\ s7' = q /\ s1.status = "PREVIEW_DONE"
           \/ s7 = q /\ s7' = "none" /\ pc \notin Holders,
           pc \in {"idle", "ready", "resolve", "locking"} => FreshInv(t),
           pc = "rows" => RowsInv(t, s2),
           pc # "commit"
    PROVE  ImportInv'
<1>1. ImportTypes /\ BatchInv /\ TxInv(q) /\ q # "none"
  BY RequestsAreSomebody DEF ImportInv
<1>2. /\ s8'[q] = pc /\ s9'[q] = t
      /\ \A u \in Request \ {q} : s8'[u] = s8[u] /\ s9'[u] = s9[u]
  BY <1>1 DEF ImportTypes
<1>3. ImportTypes'
  BY <1>1 DEF ImportTypes
<1>4. BatchInv'
  <2>1. Import!RecordMatchesUsers'
    BY <1>1 DEF BatchInv, Import!RecordMatchesUsers, Import!Written, Import!Created, Import!Updated, Import!Row
  <2>2. Import!FilesOutliveUse'
    BY <1>1 DEF BatchInv, Import!FilesOutliveUse, Import!Bound, Import!Ended
  <2> QED BY <1>1, <2>1, <2>2 DEF BatchInv
<1>5. TxInv(q)'
  <2>1. ClaimInv(q)'
    BY <1>1, <1>2 DEF TxInv, ClaimInv
  <2>2. (s8[q] \in {"idle", "ready", "resolve", "locking"} => FreshInv(s9[q]))'
    BY <1>2
  <2>3. (s8[q] \in {"rows", "commit"} => RowsInv(s9[q], s2))'
    BY <1>2
  <2> QED BY <1>2, <2>1, <2>2, <2>3 DEF TxInv
<1>6. CASE s7 \in {q, "none"}
  BY <1>1, <1>2, <1>3, <1>4, <1>5, <1>6, TxMoves
<1>7. CASE s7 \notin {q, "none"}
  BY <1>1, <1>2, <1>3, <1>4, <1>5, <1>7, TxMoves
<1> QED BY <1>6, <1>7

\* What comes next in a list that is not over.
LEMMA NextElement == ASSUME NEW S, NEW s \in Seq(S), NEW n \in Nat, n < Len(s) PROVE s[n + 1] \in S
<1>1. Len(s) \in Nat /\ n + 1 \in 1..Len(s)
  OBVIOUS
<1> QED BY <1>1

\* The steps of an execution before its commit.
LEMMA ExecutionStep ==
    ASSUME ImportInv, NEW q \in Request,
           \/ \E m \in Import!Modes, s \in Import!Syncs : Import!HttpExecute(q, m, s) \/ Import!AiExecute(q, m, s)
           \/ Import!AiClaim(q) \/ Import!Resolve(q) \/ Import!LockTargets(q)
           \/ Import!WriteRow(q) \/ Import!RefuseRow(q) \/ Import!AbortRows(q)
    PROVE  ImportInv'
<1> DEFINE t == s9[q]
<1>1. /\ ImportTypes /\ BatchInv /\ TxInv(q) /\ q # "none" /\ t \in ImportTx
      /\ s8 \in [Request -> ImportPcs] /\ s9 \in [Request -> ImportTx]
  BY RequestsAreSomebody DEF ImportInv, ImportTypes
<1>2. UNCHANGED <<s1, s2, s3, s5>>
  BY DEF Import!HttpExecute, Import!AiExecute, Import!AiClaim, Import!Resolve, Import!LockTargets,
         Import!WriteRow, Import!RefuseRow, Import!AbortRows
<1>3. s8[q] \in Holders => s7 = q
  BY <1>1 DEF TxInv, ClaimInv
<1>4. ASSUME NEW m \in Import!Modes, NEW s \in Import!Syncs,
             Import!HttpExecute(q, m, s) \/ Import!AiExecute(q, m, s)
      PROVE  ImportInv'
  <2> DEFINE p == [t EXCEPT !.mode = m, !.sync = s]
  <2>1. s8[q] = "idle" /\ s9' = [s9 EXCEPT ![q] = p]
    BY <1>1, <1>4 DEF Import!HttpExecute, Import!AiExecute
  <2>2. FreshInv(t)
    BY <1>1, <2>1 DEF TxInv
  <2>3. p \in ImportTx /\ FreshInv(p)
    BY <1>1, <2>2 DEF ImportTx, FreshInv, Import!Modes, Import!Syncs
  <2> HIDE DEF p
  <2>4. CASE Import!HttpExecute(q, m, s)
    <3>1. s8' = [s8 EXCEPT ![q] = "resolve"] /\ s7 = "none" /\ s7' = q /\ s1.status = "PREVIEW_DONE"
      BY <2>4 DEF Import!HttpExecute, Import!Claimable, Import!Goto, Import!None
    <3>2. "resolve" \in ImportPcs
      BY DEF ImportPcs
    <3> QED BY <1>2, <2>1, <2>3, <3>1, <3>2, ClaimingStep
  <2>5. CASE Import!AiExecute(q, m, s)
    <3>1. s8' = [s8 EXCEPT ![q] = "ready"] /\ s7' = s7
      BY <2>5 DEF Import!AiExecute, Import!Goto
    <3>2. "ready" \in ImportPcs /\ "ready" \notin Holders
      BY DEF ImportPcs, Holders
    <3> QED BY <1>2, <2>1, <2>3, <3>1, <3>2, ClaimingStep
  <2> QED BY <1>4, <2>4, <2>5
<1>5. ASSUME Import!AiClaim(q) PROVE ImportInv'
  <2>1. /\ s8[q] = "ready" /\ s8' = [s8 EXCEPT ![q] = "resolve"] /\ s7 = "none" /\ s7' = q
        /\ s1.status = "PREVIEW_DONE" /\ s9' = s9
    BY <1>5 DEF Import!AiClaim, Import!Claimable, Import!Goto, Import!None
  <2>2. FreshInv(t) /\ s9' = [s9 EXCEPT ![q] = t]
    BY <1>1, <2>1 DEF TxInv
  <2>3. "resolve" \in ImportPcs
    BY DEF ImportPcs
  <2> QED BY <1>1, <1>2, <2>1, <2>2, <2>3, ClaimingStep
<1>6. ASSUME Import!Resolve(q) PROVE ImportInv'
  <2> DEFINE p == [t EXCEPT !.facts = s3, !.users = s2]
  <2>1. s8[q] = "resolve" /\ s8' = [s8 EXCEPT ![q] = "locking"] /\ s7' = s7 /\ s9' = [s9 EXCEPT ![q] = p]
    BY <1>1, <1>6 DEF Import!Resolve, Import!Goto
  <2>2. FreshInv(t)
    BY <1>1, <2>1 DEF TxInv
  <2>3. p \in ImportTx /\ FreshInv(p)
    BY <1>1, <2>2 DEF ImportTx, FreshInv, ImportTypes
  <2>4. "locking" \in ImportPcs /\ "resolve" \in Holders
    BY DEF ImportPcs, Holders
  <2> HIDE DEF p
  <2> QED BY <1>2, <1>3, <2>1, <2>3, <2>4, ClaimingStep
<1>7. ASSUME Import!LockTargets(q) PROVE ImportInv'
  <2>1. /\ s8[q] = "locking" /\ s8' = [s8 EXCEPT ![q] = "rows"] /\ s7' = s7 /\ t.facts = s3 /\ t.users = s2
        /\ s9' = [s9 EXCEPT ![q] = Import!Plan(t)]
    BY <1>1, <1>7 DEF Import!LockTargets, Import!Goto
  <2>2. FreshInv(t)
    BY <1>1, <2>1 DEF TxInv
  <2>3. Import!Plan(t) \in ImportTx /\ RowsInv(Import!Plan(t), s2)
    BY <1>1, <2>1, <2>2, PlanCovers DEF ImportTypes
  <2>4. "rows" \in ImportPcs /\ "locking" \in Holders
    BY DEF ImportPcs, Holders
  <2> QED BY <1>2, <1>3, <2>1, <2>3, <2>4, ClaimingStep
<1>8. ASSUME NEW p \in ImportTx, RowsInv(p, s2), s8[q] = "rows", s8' = s8, s7' = s7,
             s9' = [s9 EXCEPT ![q] = p]
      PROVE  ImportInv'
  <2>1. s8' = [s8 EXCEPT ![q] = "rows"]
    BY <1>1, <1>8
  <2>2. "rows" \in ImportPcs /\ "rows" \in Holders
    BY DEF ImportPcs, Holders
  <2> QED BY <1>2, <1>3, <1>8, <2>1, <2>2, ClaimingStep
<1>9. ASSUME Import!WriteRow(q) \/ Import!RefuseRow(q) PROVE ImportInv'
  <2>1. s8[q] = "rows" /\ s8' = s8 /\ s7' = s7 /\ t.pos < Len(t.todo)
    BY <1>9 DEF Import!WriteRow, Import!RefuseRow
  <2>2. RowsInv(t, s2)
    BY <1>1, <2>1 DEF TxInv
  <2>3. /\ t.todo[t.pos + 1] \in 1..FileRows /\ t.success \in Nat /\ t.over \in Nat /\ t.failed \in Nat
    <3>1. /\ t.pos \in Nat /\ t.todo \in Seq(1..FileRows)
          /\ t.success \in Nat /\ t.over \in Nat /\ t.failed \in Nat
      BY <1>1 DEF ImportTx
    <3>2. t.todo[t.pos + 1] \in 1..FileRows
      BY <2>1, <3>1, NextElement
    <3> QED BY <3>1, <3>2
  <2>4. ASSUME Import!WriteRow(q) PROVE ImportInv'
    <3> DEFINE r == t.todo[t.pos + 1]
               a == Import!Advance(t, {r})
               x == t.success + (IF Import!Creates(t, r) THEN 1 ELSE 0)
               y == t.over + (IF Import!Creates(t, r) THEN 0 ELSE 1)
               p == [a EXCEPT !.success = x, !.over = y]
    <3>1. s9' = [s9 EXCEPT ![q] = p]
      BY <2>4 DEF Import!WriteRow
    <3>2. x \in Nat /\ y \in Nat /\ x + y = t.success + t.over + 1
      BY <2>3
    <3>3. /\ a \in ImportTx /\ a.todo = t.todo /\ a.mode = t.mode /\ a.pos = t.pos + 1
          /\ a.done \cup a.chunk = t.done \cup t.chunk \cup {r}
          /\ (a.pos = Len(t.todo) => a.chunk = {})
          /\ a.success = t.success /\ a.over = t.over /\ a.failed = t.failed
      BY <1>1, <2>3, AdvanceIs
    <3> HIDE DEF a, x, y
    <3>4. /\ p \in ImportTx /\ p.todo = a.todo /\ p.mode = a.mode /\ p.pos = a.pos /\ p.done = a.done
          /\ p.chunk = a.chunk /\ p.success = x /\ p.over = y /\ p.failed = a.failed
      BY <3>2, <3>3 DEF ImportTx
    <3> HIDE DEF p
    <3>5. /\ p.todo = t.todo /\ p.mode = t.mode /\ p.pos = t.pos + 1 /\ p.failed = t.failed
          /\ p.done \cup p.chunk = t.done \cup t.chunk \cup {t.todo[t.pos + 1]}
          /\ (p.pos = Len(t.todo) => p.chunk = {})
          /\ p.success + p.over = t.success + t.over + 1
      BY <3>2, <3>3, <3>4
    <3> HIDE DEF t, r
    <3>6. RowsInv(p, s2)
      BY <1>1, <2>1, <2>2, <3>4, <3>5, RowKeeps
    <3> QED BY <1>8, <2>1, <3>1, <3>4, <3>6
  <2>5. ASSUME Import!RefuseRow(q) PROVE ImportInv'
    <3> DEFINE a == Import!Advance(t, {})
               x == t.failed + 1
               p == [a EXCEPT !.failed = x]
    <3>1. s9' = [s9 EXCEPT ![q] = p] /\ t.mode # "fail_fast"
      BY <2>5 DEF Import!RefuseRow
    <3>2. x \in Nat /\ x = t.failed + 1
      BY <2>3
    <3>3. /\ a \in ImportTx /\ a.todo = t.todo /\ a.mode = t.mode /\ a.pos = t.pos + 1
          /\ a.done \cup a.chunk = t.done \cup t.chunk \cup {}
          /\ (a.pos = Len(t.todo) => a.chunk = {})
          /\ a.success = t.success /\ a.over = t.over /\ a.failed = t.failed
      BY <1>1, AdvanceIs
    <3> HIDE DEF a, x
    <3>4. /\ p \in ImportTx /\ p.todo = a.todo /\ p.mode = a.mode /\ p.pos = a.pos /\ p.done = a.done
          /\ p.chunk = a.chunk /\ p.success = a.success /\ p.over = a.over /\ p.failed = x
      BY <3>2, <3>3 DEF ImportTx
    <3> HIDE DEF p
    <3>5. RowsInv(p, s2)
      BY <1>1, <2>1, <2>2, <3>1, <3>2, <3>3, <3>4, RowKeeps
    <3> QED BY <1>8, <2>1, <3>1, <3>4, <3>5
  <2> QED BY <1>9, <2>4, <2>5
<1>10. ASSUME Import!AbortRows(q) PROVE ImportInv'
  <2>1. s8[q] = "rows" /\ s8' = s8 /\ s7' = s7 /\ t.pos < Len(t.todo)
        /\ s9' = [s9 EXCEPT ![q] = Import!Aborted(t)]
    BY <1>1, <1>10 DEF Import!AbortRows
  <2>2. RowsInv(t, s2)
    BY <1>1, <2>1 DEF TxInv
  <2> QED BY <1>1, <1>8, <2>1, <2>2, AbortKeeps
<1> QED BY <1>4, <1>5, <1>6, <1>7, <1>9, <1>10

\* The list of failed rows is there before the commit.
LEMMA ErrorsStep == ASSUME ImportInv, NEW q \in Request, Import!SaveErrors(q) PROVE ImportInv'
<1>1. /\ ImportTypes /\ BatchInv /\ TxInv(q) /\ q # "none" /\ s9[q] \in ImportTx /\ s8[q] = "rows"
      /\ UNCHANGED <<s1, s2, s3, s7, s9>> /\ s8' = [s8 EXCEPT ![q] = "commit"]
      /\ s9[q].pos = Len(s9[q].todo) /\ s5 \subseteq s5'
      /\ (s9[q].failed > 0 /\ s1.channel = "ai" => "errors" \in s5')
  BY RequestsAreSomebody DEF ImportInv, ImportTypes, Import!SaveErrors, Import!Goto
<1>2. s7 = q /\ s1.status = "PREVIEW_DONE"
  BY <1>1 DEF TxInv, ClaimInv, Holders
<1>3. ImportTypes' /\ s8'[q] = "commit" /\ \A u \in Request \ {q} : s8'[u] = s8[u] /\ s9'[u] = s9[u]
  BY <1>1 DEF ImportTypes, ImportPcs
<1>4. BatchInv'
  BY <1>1, BatchStays
<1>5. s9[q].failed # 0 => s9[q].failed > 0
  BY <1>1 DEF ImportTx
<1>6. TxInv(q)'
  <2>1. ClaimInv(q)'
    BY <1>1, <1>2 DEF ClaimInv
  <2>2. (s8[q] \in {"idle", "ready", "resolve", "locking"} => FreshInv(s9[q]))'
    BY <1>3
  <2>3. (s8[q] \in {"rows", "commit"} => RowsInv(s9[q], s2))'
    <3>1. RowsInv(s9[q], s2)
      BY <1>1 DEF TxInv
    <3>2. s9'[q] = s9[q] /\ s2' = s2
      BY <1>1
    <3>3. RowsInv(s9'[q], s2')
      BY <3>1, <3>2
    <3> QED BY <3>3
  <2>4. (s8[q] = "commit" => /\ s9[q].pos = Len(s9[q].todo)
                             /\ s9[q].failed # 0 /\ s1.channel = "ai" => "errors" \in s5)'
    BY <1>1, <1>5
  <2> QED BY <2>1, <2>2, <2>3, <2>4 DEF TxInv
<1> QED BY <1>1, <1>2, <1>3, <1>4, <1>6, TxMoves

\* The commit of an execution: counts, users and files agree.
LEMMA CommitStep == ASSUME ImportInv, NEW q \in Request, Import!CommitRun(q) PROVE ImportInv'
<1> DEFINE t == s9[q]
           e == IF t.failed = 0 THEN "none" ELSE IF s1.channel = "ai" THEN "owned" ELSE "plain"
           b == [s1 EXCEPT !.status = Import!EndStatus(t), !.success = t.success, !.over = t.over,
                           !.skipped = t.skipped, !.failed = t.failed, !.errors = e]
<1>1. /\ ImportTypes /\ BatchInv /\ TxInv(q) /\ q # "none" /\ t \in ImportTx /\ s8[q] = "commit"
      /\ UNCHANGED <<s3, s5>> /\ s7' = "none" /\ s1' = b
      /\ s8' = [s8 EXCEPT ![q] = "idle"] /\ s9' = [s9 EXCEPT ![q] = Import!NoTx]
  BY RequestsAreSomebody DEF ImportInv, ImportTypes, Import!CommitRun, Import!End, Import!Goto, Import!None
<1>2. /\ s7 = q /\ s1.status = "PREVIEW_DONE" /\ RowsInv(t, s2) /\ t.pos = Len(t.todo)
      /\ (t.failed # 0 /\ s1.channel = "ai" => "errors" \in s5)
  BY <1>1 DEF TxInv, ClaimInv, Holders
<1>3. /\ t.success \in Nat /\ t.over \in Nat /\ t.skipped \in Nat /\ t.failed \in Nat
      /\ t.done \in SUBSET (1..FileRows) /\ t.pos \in Nat
  BY <1>1 DEF ImportTx
<1>4. /\ Import!EndStatus(t) \in Import!Ended
      /\ (Import!EndStatus(t) = "SUCCESS" => t.failed = 0)
      /\ (t.success + t.over # 0 => Import!EndStatus(t) \in {"SUCCESS", "PARTIAL_SUCCESS"})
  BY <1>3 DEF Import!EndStatus, Import!Ended
<1>5. e \in {"none", "owned", "plain"} /\ (e = "owned" => t.failed # 0 /\ s1.channel = "ai")
  OBVIOUS
<1>6. \A r \in 1..FileRows :
        /\ s2'[r] \in {"absent", "named", "numbered", "created", "updated"}
        /\ (r \notin t.done => s2'[r] = s2[r]) /\ (r \in t.done => s2'[r] \in {"created", "updated"})
  <2>1. s2' = [r \in 1..FileRows |-> IF r \notin t.done THEN s2[r]
                                  ELSE IF Import!Creates(t, r) THEN "created" ELSE "updated"]
    BY DEF Import!CommitRun, Import!Row
  <2>2. \A r \in 1..FileRows : s2[r] \in {"absent", "named", "numbered", "created", "updated"}
    BY <1>1 DEF ImportTypes
  <2> QED BY <2>1, <2>2
<1>7. s2' \in [1..FileRows -> {"absent", "named", "numbered", "created", "updated"}]
  BY <1>6 DEF Import!CommitRun, Import!Row
<1> HIDE DEF e
<1>8. /\ b \in ImportBatches /\ b.status = Import!EndStatus(t) /\ b.channel = s1.channel /\ b.errors = e
  BY <1>1, <1>3, <1>4, <1>5 DEF ImportTypes, ImportBatches, Import!Ended
<1> HIDE DEF b
<1>9. ImportTypes'
  BY <1>1, <1>7, <1>8, IdleTx DEF ImportTypes, ImportPcs
<1>10. Import!RecordMatchesUsers'
  <2>1. \A r \in 1..FileRows : s2[r] \notin {"created", "updated"}
    BY <1>1, <1>2 DEF BatchInv, Import!RecordMatchesUsers, Import!Written, Import!Created, Import!Updated, Import!Row
  <2>2. ASSUME Import!Written' # {} PROVE s1'.status \in {"SUCCESS", "PARTIAL_SUCCESS"}
    <3>1. t.done # {}
      BY <1>6, <2>1, <2>2 DEF Import!Written, Import!Created, Import!Updated, Import!Row
    <3>2. t.success + t.over # 0
      BY <1>2, <3>1 DEF RowsInv
    <3> QED BY <1>1, <1>4, <1>8, <3>2
  <2>3. ASSUME s1'.status = "SUCCESS", NEW r \in 1..FileRows PROVE s2'[r] # "absent"
    <3>1. t.failed = 0
      BY <1>1, <1>4, <1>8, <2>3
    <3>2. t.chunk = {}
      BY <1>2 DEF RowsInv
    <3>3. /\ s2[r] # "absent" \/ \E i \in 1..Len(t.todo) : t.todo[i] = r
          /\ \A i \in 1..Len(t.todo) : t.todo[i] \in t.done \cup t.chunk
      BY <1>2, <3>1 DEF RowsInv, CoverInv
    <3>4. s2[r] # "absent" \/ r \in t.done
      BY <3>2, <3>3
    <3> QED BY <1>6, <3>4
  <2> QED BY <2>2, <2>3 DEF Import!RecordMatchesUsers, Import!Row
<1>11. Import!FilesOutliveUse'
  <2>1. s1.channel = "ai" => "source" \in s5
    BY <1>1, <1>2 DEF BatchInv, Import!FilesOutliveUse, Import!Bound
  <2>2. e = "owned" => "errors" \in s5
    BY <1>2, <1>5
  <2> QED BY <1>1, <1>8, <2>1, <2>2 DEF Import!FilesOutliveUse, Import!Bound
<1>12. BatchInv'
  BY <1>1, <1>4, <1>8, <1>10, <1>11 DEF BatchInv, Import!Ended
<1>13. s8'[q] = "idle" /\ s9'[q] = Import!NoTx /\ \A u \in Request \ {q} : s8'[u] = s8[u] /\ s9'[u] = s9[u]
  BY <1>1 DEF ImportTypes
<1>14. TxInv(q)'
  <2>1. FreshInv(s9[q])'
    BY <1>13, IdleTx
  <2> QED BY <1>13, <2>1 DEF TxInv, ClaimInv, Holders
<1>15. \A r \in 1..FileRows : s2[r] # "absent" => s2'[r] # "absent"
  BY <1>6
<1> QED BY <1>2, <1>9, <1>12, <1>13, <1>14, <1>15, TxMoves

\* An execution is undone.
LEMMA RollBackStep == ASSUME ImportInv, NEW q \in Request, Import!RollBack(q) PROVE ImportInv'
<1>1. /\ UNCHANGED <<s1, s2, s3, s5>> /\ s7' = IF s7 = q THEN "none" ELSE s7
      /\ s8' = [s8 EXCEPT ![q] = "idle"] /\ s9' = [s9 EXCEPT ![q] = Import!NoTx]
  BY DEF Import!RollBack, Import!End, Import!Goto, Import!None
<1>2. "idle" \in ImportPcs /\ "idle" \notin Holders
  BY DEF ImportPcs, Holders
<1>3. CASE s7 = q
  BY <1>1, <1>2, <1>3, IdleTx, ClaimingStep
<1>4. CASE s7 # q
  BY <1>1, <1>2, <1>4, IdleTx, ClaimingStep
<1> QED BY <1>3, <1>4

\* The steps of a clean-up that leave the batch row alone.
LEMMA CleanupStep ==
    ASSUME ImportInv, NEW q \in Request,
           \/ \E k \in {"cancel", "expire", "purge"} : Import!StartCleanup(q, k) \/ Import!DropCleanup(q, k)
           \/ Import!DrainCleanup(q) \/ Import!AbandonDrain(q)
    PROVE  ImportInv'
<1>1. UNCHANGED <<s1, s2, s3, s7>>
  BY DEF Import!StartCleanup, Import!DropCleanup, Import!DrainCleanup, Import!AbandonDrain
<1>2. ImportTypes /\ s9[q] \in ImportTx
  BY DEF ImportInv, ImportTypes
<1>3. ASSUME NEW k \in {"cancel", "expire", "purge"}, Import!StartCleanup(q, k) PROVE ImportInv'
  <2> DEFINE b == Import!Bound
             p == [s9[q] EXCEPT !.bind = b]
  <2>1. s5' = s5 /\ s8' = [s8 EXCEPT ![q] = k] /\ s9' = [s9 EXCEPT ![q] = p]
    BY <1>2, <1>3 DEF Import!StartCleanup, Import!Goto
  <2>2. b \in SUBSET {"source", "errors"}
    BY DEF Import!Bound
  <2> HIDE DEF b
  <2>3. p \in ImportTx
    BY <1>2, <2>2 DEF ImportTx
  <2> HIDE DEF p
  <2>4. /\ k \in ImportPcs /\ k \notin Holders
        /\ k \notin {"idle", "ready", "resolve", "locking", "rows", "commit"}
    BY DEF ImportPcs, Holders
  <2> QED BY <1>1, <2>1, <2>3, <2>4, ClaimingStep
<1>4. "idle" \in ImportPcs /\ "idle" \notin Holders
  BY DEF ImportPcs, Holders
<1>5. ASSUME s8' = [s8 EXCEPT ![q] = "idle"], s9' = [s9 EXCEPT ![q] = Import!NoTx],
             s5' = s5 \/ (s5' \subseteq s5 /\ s7 = "none" /\ s1.status \in {"CANCELLED", "EXPIRED", "DELETED"})
      PROVE  ImportInv'
  BY <1>1, <1>4, <1>5, IdleTx, ClaimingStep
<1>6. ASSUME NEW k \in {"cancel", "expire", "purge"}, Import!DropCleanup(q, k) PROVE ImportInv'
  BY <1>5, <1>6 DEF Import!DropCleanup, Import!End, Import!Goto
<1>7. ASSUME Import!DrainCleanup(q) PROVE ImportInv'
  <2>1. s5' = s5 \/ (s5' \subseteq s5 /\ s7 = "none" /\ s1.status \in {"CANCELLED", "EXPIRED", "DELETED"})
    BY <1>7 DEF Import!DrainCleanup, Import!None
  <2> QED BY <1>5, <1>7, <2>1 DEF Import!DrainCleanup, Import!End, Import!Goto
<1>8. ASSUME Import!AbandonDrain(q) PROVE ImportInv'
  BY <1>5, <1>8 DEF Import!AbandonDrain, Import!End, Import!Goto
<1> QED BY <1>3, <1>6, <1>7, <1>8

\* The second look at the status and the commit of a clean-up: nobody executes the batch.
LEMMA CleanupCommits ==
    ASSUME ImportInv, NEW q \in Request, NEW k \in {"cancel", "expire", "purge"}, Import!CommitCleanup(q, k)
    PROVE  ImportInv'
<1>1. /\ ImportTypes /\ BatchInv /\ TxInv(q) /\ s7 = "none" /\ UNCHANGED <<s2, s3, s5, s9>>
      /\ s8[q] = k /\ s8' = [s8 EXCEPT ![q] = "drain"] /\ s1 \in ImportBatches
  BY DEF ImportInv, ImportTypes, Import!CommitCleanup, Import!StillDue, Import!Goto, Import!None
<1>2. /\ s1' \in ImportBatches
      /\ \/ s1'.status \in {"CANCELLED", "EXPIRED"} /\ s1.status = "PREVIEW_DONE"
         \/ s1'.status = "DELETED" /\ s1'.errors = "none" /\ s1'.channel = "none"
  <2>1. CASE k = "purge"
    <3>1. s1' = [status |-> "DELETED", channel |-> "none", age |-> 0, success |-> 0,
                 over |-> 0, skipped |-> 0, failed |-> 0, errors |-> "none"]
      BY <2>1 DEF Import!CommitCleanup, Import!NoBatch, Import!None
    <3> QED BY <3>1 DEF ImportBatches
  <2>2. CASE k # "purge"
    <3>1. PICK c \in {"CANCELLED", "EXPIRED"} : s1' = [s1 EXCEPT !.status = c]
      BY <2>2 DEF Import!CommitCleanup
    <3>2. s1.status = "PREVIEW_DONE"
      BY <2>2 DEF Import!CommitCleanup, Import!StillDue, Import!Due
    <3> QED BY <1>1, <3>1, <3>2 DEF ImportBatches
  <2> QED BY <2>1, <2>2
<1>3. ImportTypes'
  BY <1>1, <1>2 DEF ImportTypes, ImportPcs
<1>4. BatchInv'
  <2>1. Import!RecordMatchesUsers'
    BY <1>1, <1>2 DEF BatchInv, Import!RecordMatchesUsers, Import!Written, Import!Created, Import!Updated, Import!Row
  <2>2. Import!FilesOutliveUse'
    BY <1>2 DEF Import!FilesOutliveUse, Import!Ended
  <2> QED BY <1>2, <2>1, <2>2 DEF BatchInv
<1>5. s8'[q] = "drain" /\ s9' = s9 /\ \A u \in Request \ {q} : s8'[u] = s8[u] /\ s9'[u] = s9[u]
  BY <1>1 DEF ImportTypes
<1>6. TxInv(q)'
  BY <1>5 DEF TxInv, ClaimInv, Holders
<1> QED BY <1>1, <1>3, <1>4, <1>5, <1>6, TxMoves

\* A step of the environment: no transaction moves, and no user disappears.
LEMMA WorldStep ==
    ASSUME ImportInv, ImportTypes', BatchInv', UNCHANGED <<s7, s8, s9>>, s5' = s5,
           s1'.status = s1.status, s1'.channel = s1.channel,
           \A r \in 1..FileRows : s2[r] # "absent" => s2'[r] # "absent"
    PROVE  ImportInv'
<1>1. ASSUME NEW u \in Request PROVE TxInv(u)'
  BY TxStays DEF ImportInv
<1> QED BY <1>1 DEF ImportInv

\* Users are added, what a row resolves to changes, actions are declined and time passes.
LEMMA OutsideStep ==
    ASSUME ImportInv,
           \/ \E r \in Import!Row : Import!AddUser(r) \/ \E f \in {"ok", "conflict", "outside"} : Import!Drift(r, f)
           \/ Import!DeclineAction \/ Import!Age \/ UNCHANGED Import!vars
    PROVE  ImportInv'
<1>1. ImportTypes /\ BatchInv
  BY DEF ImportInv
<1>2. ASSUME NEW r \in 1..FileRows, Import!AddUser(r) PROVE ImportInv'
  <2>1. s2[r] = "absent" /\ s2' = [s2 EXCEPT ![r] = "named"] /\ UNCHANGED <<s1, s3, s5, s7, s8, s9>>
    BY <1>2 DEF Import!AddUser
  <2>2. s2'[r] = "named" /\ \A i \in 1..FileRows \ {r} : s2'[i] = s2[i]
    BY <1>1, <2>1 DEF ImportTypes
  <2>3. ImportTypes'
    BY <1>1, <2>1 DEF ImportTypes
  <2>4. BatchInv'
    <3>1. Import!Written' = Import!Written
      BY <2>1, <2>2 DEF Import!Written, Import!Created, Import!Updated, Import!Row
    <3>2. Import!RecordMatchesUsers'
      BY <1>1, <2>1, <2>2, <3>1 DEF BatchInv, Import!RecordMatchesUsers, Import!Row
    <3>3. Import!FilesOutliveUse'
      BY <1>1, <2>1 DEF BatchInv, Import!FilesOutliveUse, Import!Bound
    <3> QED BY <1>1, <2>1, <3>2, <3>3 DEF BatchInv
  <2> QED BY <2>1, <2>2, <2>3, <2>4, WorldStep
<1>3. ASSUME NEW r \in 1..FileRows, NEW f \in {"ok", "conflict", "outside"}, Import!Drift(r, f) PROVE ImportInv'
  <2>1. s3' = [s3 EXCEPT ![r] = f] /\ UNCHANGED <<s1, s2, s5, s7, s8, s9>>
    BY <1>3 DEF Import!Drift
  <2>2. ImportTypes'
    BY <1>1, <2>1 DEF ImportTypes
  <2>3. BatchInv'
    BY <1>1, <2>1, BatchStays
  <2> QED BY <2>1, <2>2, <2>3, WorldStep
<1>4. ASSUME Import!DeclineAction \/ UNCHANGED Import!vars PROVE ImportInv'
  <2>1. UNCHANGED <<s1, s2, s3, s5, s7, s8, s9>>
    BY <1>4 DEF Import!DeclineAction, Import!vars
  <2>2. ImportTypes'
    BY <1>1, <2>1 DEF ImportTypes
  <2>3. BatchInv'
    BY <1>1, <2>1, BatchStays
  <2> QED BY <2>1, <2>2, <2>3, WorldStep
<1>5. ASSUME Import!Age PROVE ImportInv'
  <2>1. s1' = [s1 EXCEPT !.age = s1.age + 1] /\ UNCHANGED <<s2, s3, s5, s7, s8, s9>> /\ s1 \in ImportBatches
    BY <1>1, <1>5 DEF Import!Age, ImportTypes, ImportBatches
  <2>2. s1' \in ImportBatches /\ s1'.status = s1.status /\ s1'.channel = s1.channel /\ s1'.errors = s1.errors
    <3> DEFINE n == s1.age + 1
    <3>1. n \in Nat
      BY <2>1 DEF ImportBatches
    <3> HIDE DEF n
    <3> QED BY <2>1, <3>1 DEF ImportBatches, n
  <2>3. ImportTypes'
    BY <1>1, <2>1, <2>2 DEF ImportTypes
  <2>4. BatchInv'
    <3>1. Import!RecordMatchesUsers'
      BY <1>1, <2>1, <2>2 DEF BatchInv, Import!RecordMatchesUsers, Import!Written, Import!Created, Import!Updated, Import!Row
    <3>2. Import!FilesOutliveUse'
      BY <1>1, <2>1, <2>2 DEF BatchInv, Import!FilesOutliveUse, Import!Bound
    <3> QED BY <1>1, <2>2, <3>1, <3>2 DEF BatchInv
  <2> QED BY <2>1, <2>2, <2>3, <2>4, WorldStep
<1> QED BY <1>2, <1>3, <1>4, <1>5 DEF Import!Row

\* Before the preview nothing is written and nobody works.
LEMMA ImportStarts == Import!Init => ImportInv
<1> SUFFICES ASSUME Import!Init PROVE ImportInv
  OBVIOUS
<1>1. /\ s1 = Import!NoBatch /\ s2 \in [1..FileRows -> {"absent", "named", "numbered"}]
      /\ s3 = [r \in 1..FileRows |-> "ok"] /\ s5 = {}
      /\ s8 = [q \in Request |-> "idle"] /\ s9 = [q \in Request |-> Import!NoTx]
  BY DEF Import!Init, Import!Row
<1>2. s1 \in ImportBatches /\ s1.status = "NONE" /\ s1.channel = "none" /\ s1.errors = "none"
  BY <1>1 DEF Import!NoBatch, Import!None, ImportBatches
<1>3. ImportTypes
  BY <1>1, <1>2, IdleTx DEF ImportTypes, ImportPcs
<1>4. BatchInv
  <2>1. Import!Written = {}
    BY <1>1 DEF Import!Written, Import!Created, Import!Updated, Import!Row
  <2> QED BY <1>2, <2>1 DEF BatchInv, Import!RecordMatchesUsers, Import!FilesOutliveUse, Import!Ended
<1>5. ASSUME NEW q \in Request PROVE TxInv(q)
  BY <1>1, IdleTx DEF TxInv, ClaimInv, Holders
<1> QED BY <1>3, <1>4, <1>5 DEF ImportInv

\* Every step keeps the invariant.
LEMMA ImportStep == ASSUME ImportInv, [Import!Next]_Import!vars PROVE ImportInv'
<1>1. ASSUME NEW q \in Request, Import!HttpPreview(q) \/ Import!AiPreview(q) PROVE ImportInv'
  BY <1>1, PreviewStep
<1>2. ASSUME NEW q \in Request, Import!Execution(q) PROVE ImportInv'
  BY <1>2, ExecutionStep, ErrorsStep, CommitStep, RollBackStep DEF Import!Execution
<1>3. ASSUME NEW q \in Request, Import!Cleanup(q) PROVE ImportInv'
  BY <1>3, CleanupStep, CleanupCommits DEF Import!Cleanup
<1> QED BY <1>1, <1>2, <1>3, OutsideStep DEF Import!Next

\* A strict batch whose rows are over wrote the whole file or nothing.
LEMMA StrictBatches == ImportInv => Import!StrictIsWhole
<1> SUFFICES ASSUME ImportInv, NEW q \in Request, s8[q] = "commit", s9[q].mode = "fail_fast"
             PROVE  /\ s9[q].done \in {{}, 1..FileRows}
                    /\ s9[q].success + s9[q].over = Import!Cardinality(s9[q].done)
  BY DEF Import!StrictIsWhole, Import!Row
<1> DEFINE t == s9[q]
<1>1. t \in ImportTx /\ RowsInv(t, s2) /\ t.pos = Len(t.todo)
  BY DEF ImportInv, ImportTypes, TxInv
<1>2. t.chunk = {} /\ WholeInv(t)
  BY <1>1 DEF RowsInv
<1>3. CASE t.done = {} /\ t.success = 0 /\ t.over = 0
  BY <1>3, FS_EmptySet, ImportCard
<1>4. CASE /\ t.done \cup t.chunk = {t.todo[i] : i \in 1..t.pos} /\ t.success + t.over = t.pos
           /\ {t.todo[i] : i \in 1..Len(t.todo)} = 1..FileRows /\ Len(t.todo) = FileRows
  <2>1. t.done = 1..FileRows /\ t.success + t.over = FileRows
    BY <1>1, <1>2, <1>4
  <2>2. Cardinality(1..FileRows) = FileRows
    BY ImportBounds, FS_Interval
  <2> QED BY <2>1, <2>2, ImportCard
<1> QED BY <1>2, <1>3, <1>4 DEF WholeInv

\* A batch that is refused, cancelled or expired has written nobody, SUCCESS leaves no row without
\* its user, a strict batch is whole, and no file goes while the batch refers to it: for every
\* number of rows and every chunk size (user_import_service.py, transfer_cleanup_service.py).
THEOREM ImportsAreWhole == Spec => []ImportHolds
<1>1. part = "import" /\ Init => ImportInv
  BY ImportStarts DEF Init
<1>2. part = "import" /\ ImportInv /\ [Next]_vars => ImportInv' /\ (part = "import")'
  <2>1. part = "import" /\ [Next]_vars => [Import!Next]_Import!vars /\ (part = "import")'
    BY DEF Next, vars, from4, from5, from6, from7, from9, Import!vars
  <2> QED BY <2>1, ImportStep
<1>3. (part = "import" => ImportInv) => ImportHolds
  BY StrictBatches DEF ImportHolds, ImportInv, BatchInv
<1>4. ~(part = "import") /\ [Next]_vars => ~(part = "import")'
  BY PartStays
<1> QED BY <1>1, <1>2, <1>3, <1>4, PTL DEF Spec

-----------------------------------------------------------------------------
(* Departments *)

DeptManagers == {"mgr", "boss"}
DeptRows == [live : BOOLEAN, parent : Dept \cup {0}, path : Seq(Dept), on : BOOLEAN]
DeptOps == {"create", "move", "status", "delete", "join", "members", "custom"}
DeptHolders == {"depts", "users", "check", "write"}

\* A path names live departments, each with the part of the path before it, the parent last.
Rooted(f) ==
    \A d \in Dept : f[d].live =>
      /\ f[d].parent = IF Len(f[d].path) = 0 THEN 0 ELSE f[d].path[Len(f[d].path)]
      /\ \A k \in 1..Len(f[d].path) :
           /\ f[f[d].path[k]].live /\ Len(f[f[d].path[k]].path) = k - 1
           /\ \A j \in 1..(k - 1) : f[f[d].path[k]].path[j] = f[d].path[j]

DeptTypes ==
    /\ s1 \in [Dept -> DeptRows] /\ s2 \in [DeptManagers -> SUBSET Dept] /\ s3 \subseteq Dept
    /\ s4 = [t \in Request |-> s4[t]] /\ \A t \in Request : DOMAIN s4[t] = DOMAIN Departments!NoTx

\* What a request is about, and whose roles it wants.
AskInv(t) ==
    LET r == s4[t] IN
    r.at # "idle" =>
      /\ r.op \in DeptOps /\ r.by \in Departments!Actors /\ r.d \in Dept /\ r.p \in Dept \cup {0}
      /\ r.who \subseteq DeptManagers /\ r.by \in r.roles
      /\ r.at = "card" => r.op \in {"create", "move", "status"}
      /\ r.op = "create" => ~s1[r.d].live /\ \A q \in Request : s4[q].op = "create" /\ s4[q].d = r.d => q = t
      /\ r.op = "join" => r.who \subseteq r.roles
      /\ r.op = "members" => DOMAIN r.seen[4] \subseteq r.roles

\* The rows a request holds.
RowsApart ==
    \A t, q \in Request : t # q =>
      /\ s4[t].at \in DeptHolders /\ s4[q].at \in DeptHolders => s4[t].roles \cap s4[q].roles = {}
      /\ s4[t].at \in DeptHolders \ {"depts"} /\ s4[q].at \in DeptHolders \ {"depts"} =>
           s4[t].depts \cap s4[q].depts = {}

\* What changes somebody's scope is held, and inside the scope of its author.
ImpactInv(r) ==
    /\ Departments!Affected(r) \subseteq r.roles /\ Departments!ImpactDepts(r) \subseteq r.depts
    /\ ~Departments!Super(r.by) =>
         \A u \in Departments!Affected(r) :
           Departments!Impact(r)[u].before \cup Departments!Impact(r)[u].after \subseteq Departments!Scope(r.by)

\* A request that is about to write is still right.
WriteInv(r) ==
    r.at = "write" =>
      /\ r.op = "create" => /\ r.p # 0 => s1[r.p].live
                            /\ Departments!AtOrAbove(r.p) \subseteq r.depts
      /\ r.op # "create" => r.d \in r.depts /\ s1[r.d].live
      /\ r.op = "delete" => Departments!Unreferenced(r.d)
      /\ r.op = "move" => /\ r.p # 0 => s1[r.p].live
                          /\ r.d \notin Departments!AtOrAbove(r.p)
                          /\ Departments!Anchors(r) \cup Departments!Under(s1, r.d) \subseteq r.depts
                          /\ r.seen[4] = Departments!Impact(r)
      /\ r.op \in {"move", "join", "members"} => ImpactInv(r)

DeptInv ==
    /\ DeptTypes /\ Rooted(s1) /\ RowsApart
    /\ \A u \in DeptManagers : s2[u] \subseteq Departments!Live
    /\ \A t \in Request : AskInv(t)
    /\ \A r \in {s4[t] : t \in Request} : WriteInv(r)

\* What is left of a sequence after its first m elements.
LEMMA RestOf ==
    ASSUME NEW S, NEW s \in Seq(S), NEW m \in Nat, m < Len(s)
    PROVE  LET r == SubSeq(s, m + 1, Len(s))
           IN  r \in Seq(S) /\ Len(r) = Len(s) - m /\ \A i \in 1..Len(r) : r[i] = s[m + i]
<1> DEFINE r == SubSeq(s, m + 1, Len(s))
<1>1. \A i \in (m + 1)..Len(s) : s[i] \in S
  OBVIOUS
<1>2. r = [i \in 1..(Len(s) - m) |-> s[m + i]]
  OBVIOUS
<1>3. \A i \in 1..(Len(s) - m) : s[m + i] \in S
  OBVIOUS
<1>4. r \in Seq(S) /\ Len(r) = Len(s) - m
  BY <1>2, <1>3
<1> QED BY <1>2, <1>4

\* The elements of two sequences put together.
LEMMA JoinOf ==
    ASSUME NEW S, NEW s \in Seq(S), NEW r \in Seq(S)
    PROVE  /\ s \o r \in Seq(S) /\ Len(s \o r) = Len(s) + Len(r)
           /\ \A j \in 1..Len(s) : (s \o r)[j] = s[j]
           /\ \A i \in 1..Len(r) : (s \o r)[Len(s) + i] = r[i]
  OBVIOUS

\* The path below p ends with p, and names p and what is above it.
LEMMA PathBelowIs ==
    ASSUME s1 \in [Dept -> DeptRows], NEW p \in Dept \cup {0}
    PROVE  LET P == Departments!PathBelow(p)
           IN  /\ P \in Seq(Dept) /\ Len(P) = (IF p = 0 THEN 0 ELSE Len(s1[p].path) + 1)
               /\ p # 0 => P[Len(P)] = p /\ \A j \in 1..Len(s1[p].path) : P[j] = s1[p].path[j]
               /\ Departments!AtOrAbove(p) = {P[j] : j \in 1..Len(P)}
<1> DEFINE P == Departments!PathBelow(p)
<1>1. CASE p = 0
  BY <1>1 DEF Departments!PathBelow, Departments!Nil, Departments!AtOrAbove
<1>2. CASE p # 0
  <2>1. s1[p].path \in Seq(Dept) /\ p \in Dept /\ P = Append(s1[p].path, p)
    BY <1>2 DEF DeptRows, Departments!PathBelow, Departments!Nil
  <2>2. /\ P \in Seq(Dept) /\ Len(P) = Len(s1[p].path) + 1 /\ P[Len(P)] = p
        /\ \A j \in 1..Len(s1[p].path) : P[j] = s1[p].path[j]
    BY <2>1
  <2>3. Departments!AtOrAbove(p) = {p} \cup {s1[p].path[j] : j \in 1..Len(s1[p].path)}
    BY <1>2, <2>1 DEF Departments!AtOrAbove, Departments!Above, Departments!Nil, Departments!Range
  <2>4. {P[j] : j \in 1..Len(P)} \subseteq Departments!AtOrAbove(p)
    <3> SUFFICES ASSUME NEW j \in 1..Len(P) PROVE P[j] \in Departments!AtOrAbove(p)
      OBVIOUS
    <3>1. j = Len(P) \/ j \in 1..Len(s1[p].path)
      BY <2>1, <2>2
    <3> QED BY <2>2, <2>3, <3>1
  <2>5. Departments!AtOrAbove(p) \subseteq {P[j] : j \in 1..Len(P)}
    <3>1. \A j \in 1..Len(s1[p].path) : j \in 1..Len(P)
      BY <2>1, <2>2
    <3>2. Len(P) \in 1..Len(P)
      BY <2>1, <2>2
    <3> QED BY <2>2, <2>3, <3>1, <3>2
  <2> QED BY <1>2, <2>2, <2>4, <2>5
<1> QED BY <1>1, <1>2

\* A department is below d when its path names d right after the path of d.
LEMMA UnderIs ==
    ASSUME s1 \in [Dept -> DeptRows], Rooted(s1), NEW d \in Dept, s1[d].live, NEW e \in Dept
    PROVE  e \in Departments!Under(s1, d) <=>
             e = d \/ (s1[e].live /\ Len(s1[d].path) < Len(s1[e].path) /\ s1[e].path[Len(s1[d].path) + 1] = d)
<1>1. s1[d].path \in Seq(Dept) /\ s1[e].path \in Seq(Dept)
  BY DEF DeptRows
<1>2. ASSUME e # d, e \in Departments!Under(s1, d)
      PROVE  s1[e].live /\ Len(s1[d].path) < Len(s1[e].path) /\ s1[e].path[Len(s1[d].path) + 1] = d
  <2>1. PICK k \in 1..Len(s1[e].path) : s1[e].path[k] = d /\ s1[e].live
    BY <1>1, <1>2 DEF Departments!Under, Departments!Range
  <2>2. Len(s1[d].path) = k - 1
    BY <2>1 DEF Rooted
  <2> QED BY <1>1, <2>1, <2>2
<1>3. ASSUME s1[e].live, Len(s1[d].path) < Len(s1[e].path), s1[e].path[Len(s1[d].path) + 1] = d
      PROVE  e \in Departments!Under(s1, d)
  <2>1. Len(s1[d].path) + 1 \in 1..Len(s1[e].path)
    BY <1>1, <1>3
  <2> QED BY <1>1, <1>3, <2>1 DEF Departments!Under, Departments!Range
<1>4. d \in Departments!Under(s1, d)
  BY DEF Departments!Under
<1> QED BY <1>2, <1>3, <1>4

\* What a move makes of the row of e, P being the path below the new parent.
MovedRow(d, p, e, row, P) ==
    /\ row \in DeptRows /\ row.live = s1[e].live
    /\ e \notin Departments!Under(s1, d) => row = s1[e]
    /\ e = d => row.parent = p /\ row.path = P
    /\ e # d /\ e \in Departments!Under(s1, d) =>
         /\ row.parent = s1[e].parent /\ Len(row.path) = Len(P) + Len(s1[e].path) - Len(s1[d].path)
         /\ \A j \in 1..Len(P) : row.path[j] = P[j]
         /\ \A i \in (Len(s1[d].path) + 1)..Len(s1[e].path) :
              row.path[Len(P) + i - Len(s1[d].path)] = s1[e].path[i]

\* The rows of a moved tree are such rows.
LEMMA MovedIs ==
    ASSUME s1 \in [Dept -> DeptRows], Rooted(s1), NEW d \in Dept, s1[d].live, NEW p \in Dept \cup {0}, NEW e \in Dept
    PROVE  MovedRow(d, p, e, Departments!Moved(d, p)[e], Departments!PathBelow(p))
<1> DEFINE g == Departments!Moved(d, p)
           P == Departments!PathBelow(p)
           m == Len(s1[d].path)
           rest == SubSeq(s1[e].path, m + 1, Len(s1[e].path))
<1>1. s1[e] \in DeptRows /\ s1[e].path \in Seq(Dept) /\ m \in Nat /\ P \in Seq(Dept)
  BY PathBelowIs DEF DeptRows
<1>2. g[e] = IF e = d THEN [s1[e] EXCEPT !.parent = p, !.path = P]
             ELSE IF e \in Departments!Under(s1, d) THEN [s1[e] EXCEPT !.path = P \o rest]
             ELSE s1[e]
  BY DEF Departments!Moved
<1>3. d \in Departments!Under(s1, d)
  BY DEF Departments!Under
<1>4. CASE e = d
  <2>1. g[e] = [s1[e] EXCEPT !.parent = p, !.path = P]
    BY <1>2, <1>4
  <2>2. g[e] = [live |-> s1[e].live, parent |-> p, path |-> P, on |-> s1[e].on]
    BY <1>1, <2>1 DEF DeptRows
  <2> HIDE DEF g, P
  <2>3. g[e] \in DeptRows /\ g[e].live = s1[e].live /\ g[e].parent = p /\ g[e].path = P
    BY <1>1, <2>2 DEF DeptRows
  <2> QED BY <1>3, <1>4, <2>3 DEF g, P, MovedRow
<1>5. CASE e \notin Departments!Under(s1, d)
  BY <1>1, <1>2, <1>3, <1>5 DEF MovedRow
<1>6. CASE e # d /\ e \in Departments!Under(s1, d)
  <2>1. m < Len(s1[e].path)
    BY <1>6, UnderIs
  <2> HIDE DEF m, P, g
  <2>2. rest \in Seq(Dept) /\ Len(rest) = Len(s1[e].path) - m
        /\ \A i \in 1..Len(rest) : rest[i] = s1[e].path[m + i]
    BY <1>1, <2>1, RestOf
  <2> HIDE DEF rest
  <2>3. /\ P \o rest \in Seq(Dept) /\ Len(P \o rest) = Len(P) + Len(rest)
        /\ \A j \in 1..Len(P) : (P \o rest)[j] = P[j]
        /\ \A i \in 1..Len(rest) : (P \o rest)[Len(P) + i] = rest[i]
    <3>1. P \in Seq(Dept) /\ rest \in Seq(Dept)
      BY <1>1, <2>2
    <3>2. QED
      BY <3>1, JoinOf
  <2>4. g[e] = [s1[e] EXCEPT !.path = P \o rest]
    BY <1>2, <1>6
  <2>5. g[e] \in DeptRows /\ g[e].live = s1[e].live /\ g[e].parent = s1[e].parent /\ g[e].path = P \o rest
    <3> DEFINE y == P \o rest
    <3>1. s1[e] \in DeptRows /\ y \in Seq(Dept) /\ g[e] = [s1[e] EXCEPT !.path = y]
      BY <2>3, <2>4
    <3> HIDE DEF y
    <3>2. g[e] \in DeptRows /\ g[e].live = s1[e].live /\ g[e].parent = s1[e].parent /\ g[e].path = y
      BY <3>1 DEF DeptRows
    <3> QED BY <3>2 DEF y
  <2>6. Len(g[e].path) = Len(P) + Len(s1[e].path) - m
    BY <1>1, <2>2, <2>3, <2>5
  <2>7. ASSUME NEW i \in (m + 1)..Len(s1[e].path)
        PROVE  g[e].path[Len(P) + i - m] = s1[e].path[i]
    <3>1. i - m \in 1..Len(rest)
      BY <1>1, <2>2, <2>7
    <3>2. (P \o rest)[Len(P) + (i - m)] = rest[i - m] /\ rest[i - m] = s1[e].path[m + (i - m)]
      BY <2>2, <2>3, <3>1
    <3>3. Len(P) + (i - m) = Len(P) + i - m /\ m + (i - m) = i
      BY <1>1
    <3> QED BY <2>5, <3>2, <3>3
  <2> QED BY <1>6, <2>3, <2>5, <2>6, <2>7 DEF g, P, m, MovedRow
<1>7. QED
  BY <1>4, <1>5, <1>6

\* A live department below another is on its way down.
LEMMA PlaceOf ==
    ASSUME s1 \in [Dept -> DeptRows], Rooted(s1), NEW e \in Dept, s1[e].live, NEW k \in 1..Len(s1[e].path)
    PROVE  LET x == s1[e].path[k]
           IN  /\ x \in Dept /\ s1[x].live /\ Len(s1[x].path) = k - 1
               /\ \A j \in 1..(k - 1) : s1[x].path[j] = s1[e].path[j]
<1>1. s1[e].path \in Seq(Dept)
  BY DEF DeptRows
<1>2. s1[e].path[k] \in Dept
  BY <1>1
<1> QED BY <1>2 DEF Rooted

\* The departments on the path below p are live, each with the part of the path before it.
LEMMA PathStands ==
    ASSUME s1 \in [Dept -> DeptRows], Rooted(s1), NEW p \in Dept \cup {0}, p # 0 => s1[p].live,
           NEW j \in 1..Len(Departments!PathBelow(p))
    PROVE  LET P == Departments!PathBelow(p)
               x == P[j]
           IN  /\ x \in Dept /\ s1[x].live /\ Len(s1[x].path) = j - 1
               /\ \A i \in 1..(j - 1) : s1[x].path[i] = P[i]
<1> DEFINE P == Departments!PathBelow(p)
           x == P[j]
<1>1. /\ P \in Seq(Dept) /\ Len(P) = (IF p = 0 THEN 0 ELSE Len(s1[p].path) + 1)
      /\ p # 0 => P[Len(P)] = p /\ \A i \in 1..Len(s1[p].path) : P[i] = s1[p].path[i]
  BY PathBelowIs
<1> HIDE DEF P
<1>2. p # 0 /\ p \in Dept /\ s1[p].live /\ s1[p].path \in Seq(Dept) /\ j \in 1..Len(P) /\ x \in Dept
  BY <1>1 DEF DeptRows, P
<1>3. /\ s1[x].live /\ Len(s1[x].path) = j - 1
      /\ \A i \in 1..(j - 1) : s1[x].path[i] = P[i]
  <2>1. CASE j = Len(P)
    <3>1. x = p /\ Len(s1[p].path) = j - 1
      BY <1>1, <1>2, <2>1
    <3> QED BY <1>1, <1>2, <3>1
  <2>2. CASE j # Len(P)
    <3>1. j \in 1..Len(s1[p].path) /\ x = s1[p].path[j]
      BY <1>1, <1>2, <2>2
    <3>2. /\ s1[x].live /\ Len(s1[x].path) = j - 1
          /\ \A i \in 1..(j - 1) : s1[x].path[i] = s1[p].path[i]
      BY <1>2, <3>1, PlaceOf
    <3>3. \A i \in 1..(j - 1) : i \in 1..Len(s1[p].path)
      BY <1>2, <3>1
    <3> QED BY <1>1, <1>2, <3>2, <3>3
  <2> QED BY <2>1, <2>2
<1> QED BY <1>2, <1>3 DEF P

\* The departments on the path below p are live, not below d, and have the part of the path before them.
LEMMA NewPathStands ==
    ASSUME s1 \in [Dept -> DeptRows], Rooted(s1), NEW d \in Dept, s1[d].live, NEW p \in Dept \cup {0},
           p # 0 => s1[p].live, d \notin Departments!AtOrAbove(p),
           NEW j \in 1..Len(Departments!PathBelow(p))
    PROVE  LET P == Departments!PathBelow(p)
               x == P[j]
           IN  /\ x \in Dept /\ s1[x].live /\ x \notin Departments!Under(s1, d) /\ Len(s1[x].path) = j - 1
               /\ \A i \in 1..(j - 1) : s1[x].path[i] = P[i]
<1> DEFINE P == Departments!PathBelow(p)
           x == P[j]
           m == Len(s1[d].path)
<1>1. /\ P \in Seq(Dept) /\ Len(P) = (IF p = 0 THEN 0 ELSE Len(s1[p].path) + 1)
      /\ p # 0 => P[Len(P)] = p /\ \A i \in 1..Len(s1[p].path) : P[i] = s1[p].path[i]
      /\ j \in 1..Len(P) /\ \A i \in 1..Len(P) : P[i] # d
  <2>1. Departments!AtOrAbove(p) = {P[i] : i \in 1..Len(P)}
    BY PathBelowIs
  <2>2. \A i \in 1..Len(P) : P[i] # d
    BY <2>1
  <2>3. /\ P \in Seq(Dept) /\ Len(P) = (IF p = 0 THEN 0 ELSE Len(s1[p].path) + 1)
        /\ p # 0 => P[Len(P)] = p /\ \A i \in 1..Len(s1[p].path) : P[i] = s1[p].path[i]
    BY PathBelowIs
  <2> QED BY <2>2, <2>3
<1> HIDE DEF P
<1>2. p # 0 /\ p \in Dept /\ s1[p].live /\ s1[p].path \in Seq(Dept) /\ s1[d].path \in Seq(Dept) /\ x \in Dept
  BY <1>1 DEF DeptRows
<1>3. /\ s1[x].live /\ Len(s1[x].path) = j - 1
      /\ \A i \in 1..(j - 1) : s1[x].path[i] = P[i]
  BY PathStands DEF P
<1>4. x \notin Departments!Under(s1, d)
  <2> SUFFICES ASSUME x \in Departments!Under(s1, d) PROVE FALSE
    OBVIOUS
  <2>1. x # d
    BY <1>1
  <2>2. m < Len(s1[x].path) /\ s1[x].path[m + 1] = d
    BY <1>2, <2>1, UnderIs
  <2>3. m + 1 \in 1..(j - 1) /\ m + 1 \in 1..Len(P)
    BY <1>1, <1>2, <1>3, <2>2
  <2>4. P[m + 1] = d
    BY <1>3, <2>2, <2>3
  <2> QED BY <1>1, <2>3, <2>4
<1> QED BY <1>2, <1>3, <1>4 DEF P

\* A department that is not below d has nothing below d on its path.
LEMMA OutsideAbove ==
    ASSUME s1 \in [Dept -> DeptRows], Rooted(s1), NEW d \in Dept, s1[d].live, NEW e \in Dept, s1[e].live,
           e \notin Departments!Under(s1, d), NEW k \in 1..Len(s1[e].path)
    PROVE  s1[e].path[k] \notin Departments!Under(s1, d)
<1> DEFINE x == s1[e].path[k]
           m == Len(s1[d].path)
<1>1. /\ x \in Dept /\ s1[x].live /\ Len(s1[x].path) = k - 1
      /\ \A j \in 1..(k - 1) : s1[x].path[j] = s1[e].path[j]
  BY PlaceOf
<1>2. s1[d].path \in Seq(Dept) /\ s1[e].path \in Seq(Dept)
  BY DEF DeptRows
<1>3. ASSUME x = d PROVE FALSE
  <2>1. m = k - 1 /\ m < Len(s1[e].path) /\ s1[e].path[m + 1] = d
    BY <1>1, <1>2, <1>3
  <2> QED BY <2>1, UnderIs
<1>4. ASSUME x # d, x \in Departments!Under(s1, d) PROVE FALSE
  <2>1. m < Len(s1[x].path) /\ s1[x].path[m + 1] = d
    BY <1>1, <1>4, UnderIs
  <2>2. m + 1 \in 1..(k - 1) /\ m < Len(s1[e].path)
    BY <1>1, <1>2, <2>1
  <2>3. s1[e].path[m + 1] = d
    BY <1>1, <2>1, <2>2
  <2> QED BY <2>2, <2>3, UnderIs
<1> QED BY <1>3, <1>4

\* On the path of a department below d, what comes after d is below d too.
LEMMA InsideAbove ==
    ASSUME s1 \in [Dept -> DeptRows], Rooted(s1), NEW d \in Dept, s1[d].live, NEW e \in Dept, e # d,
           e \in Departments!Under(s1, d), NEW i \in 1..Len(s1[e].path)
    PROVE  LET x == s1[e].path[i]
               m == Len(s1[d].path)
           IN  /\ i > m + 1 => x # d /\ x \in Departments!Under(s1, d)
               /\ i = m + 1 => x = d
               /\ i <= m => x \notin Departments!Under(s1, d) /\ x = s1[d].path[i]
<1> DEFINE x == s1[e].path[i]
           m == Len(s1[d].path)
<1>1. s1[e].live /\ m < Len(s1[e].path) /\ s1[e].path[m + 1] = d
  BY UnderIs
<1>2. s1[d].path \in Seq(Dept) /\ s1[e].path \in Seq(Dept)
  BY DEF DeptRows
<1>3. /\ x \in Dept /\ s1[x].live /\ Len(s1[x].path) = i - 1
      /\ \A j \in 1..(i - 1) : s1[x].path[j] = s1[e].path[j]
  BY <1>1, PlaceOf
<1>4. ASSUME i > m + 1 PROVE x # d /\ x \in Departments!Under(s1, d)
  <2>1. m + 1 \in 1..(i - 1) /\ m < Len(s1[x].path) /\ x # d
    BY <1>2, <1>3, <1>4
  <2>2. s1[x].path[m + 1] = d
    BY <1>1, <1>3, <2>1
  <2> QED BY <1>3, <2>1, <2>2, UnderIs
<1>5. ASSUME i <= m PROVE x \notin Departments!Under(s1, d) /\ x = s1[d].path[i]
  <2>1. ~(m < Len(s1[x].path)) /\ x # d
    BY <1>2, <1>3, <1>5
  <2>2. x \notin Departments!Under(s1, d)
    BY <1>3, <2>1, UnderIs
  <2>3. m + 1 \in 1..Len(s1[e].path) /\ i \in 1..((m + 1) - 1)
    BY <1>1, <1>2, <1>5
  <2>4. \A j \in 1..((m + 1) - 1) : s1[s1[e].path[m + 1]].path[j] = s1[e].path[j]
    BY <1>1, <2>3, PlaceOf
  <2> QED BY <1>1, <2>2, <2>3, <2>4
<1> QED BY <1>1, <1>4, <1>5

\* A move keeps the tree a tree, with true paths.
LEMMA MovedRooted ==
    ASSUME s1 \in [Dept -> DeptRows], Rooted(s1), NEW d \in Dept, s1[d].live, NEW p \in Dept \cup {0},
           p # 0 => s1[p].live, d \notin Departments!AtOrAbove(p)
    PROVE  Rooted(Departments!Moved(d, p))
<1> DEFINE g == Departments!Moved(d, p)
           P == Departments!PathBelow(p)
           m == Len(s1[d].path)
           U == Departments!Under(s1, d)
<1>1. /\ P \in Seq(Dept) /\ Len(P) = (IF p = 0 THEN 0 ELSE Len(s1[p].path) + 1)
      /\ p # 0 => P[Len(P)] = p
  BY PathBelowIs
<1>2. \A j \in 1..Len(P) : /\ P[j] \in Dept /\ s1[P[j]].live /\ P[j] \notin U /\ Len(s1[P[j]].path) = j - 1
                           /\ \A i \in 1..(j - 1) : s1[P[j]].path[i] = P[i]
  BY NewPathStands
<1>3. \A e \in Dept :
        /\ g[e].live = s1[e].live
        /\ e \notin U => g[e] = s1[e]
        /\ e = d => g[e].parent = p /\ g[e].path = P
        /\ e # d /\ e \in U =>
             /\ g[e].parent = s1[e].parent /\ Len(g[e].path) = Len(P) + Len(s1[e].path) - m
             /\ \A j \in 1..Len(P) : g[e].path[j] = P[j]
             /\ \A i \in (m + 1)..Len(s1[e].path) : g[e].path[Len(P) + i - m] = s1[e].path[i]
  <2> SUFFICES ASSUME NEW e \in Dept
               PROVE  /\ g[e].live = s1[e].live
                      /\ e \notin U => g[e] = s1[e]
                      /\ e = d => g[e].parent = p /\ g[e].path = P
                      /\ e # d /\ e \in U =>
                           /\ g[e].parent = s1[e].parent /\ Len(g[e].path) = Len(P) + Len(s1[e].path) - m
                           /\ \A j \in 1..Len(P) : g[e].path[j] = P[j]
                           /\ \A i \in (m + 1)..Len(s1[e].path) : g[e].path[Len(P) + i - m] = s1[e].path[i]
    OBVIOUS
  <2>1. MovedRow(d, p, e, g[e], P)
    BY MovedIs
  <2> QED BY <2>1 DEF MovedRow
<1>4. \A e \in Dept : s1[e].path \in Seq(Dept) /\ Len(s1[e].path) \in Nat
  BY DEF DeptRows
<1>5. m \in Nat /\ Len(P) \in Nat /\ d \in U
  BY <1>1, <1>4 DEF Departments!Under
<1>6. \A e \in Dept : s1[e].live /\ e \notin U => \A k \in 1..Len(s1[e].path) : s1[e].path[k] \notin U
  BY OutsideAbove
<1>7. \A e \in Dept : s1[e].live => \A k \in 1..Len(s1[e].path) :
        LET x == s1[e].path[k]
        IN  /\ x \in Dept /\ s1[x].live /\ Len(s1[x].path) = k - 1
            /\ \A j \in 1..(k - 1) : s1[x].path[j] = s1[e].path[j]
  BY PlaceOf
<1>8. \A e \in Dept : e \in U /\ e # d =>
        /\ s1[e].live /\ m < Len(s1[e].path) /\ s1[e].path[m + 1] = d
        /\ \A i \in (m + 2)..Len(s1[e].path) : s1[e].path[i] # d /\ s1[e].path[i] \in U
  <2> SUFFICES ASSUME NEW e \in Dept, e \in U, e # d
               PROVE  /\ s1[e].live /\ m < Len(s1[e].path) /\ s1[e].path[m + 1] = d
                      /\ \A i \in (m + 2)..Len(s1[e].path) : s1[e].path[i] # d /\ s1[e].path[i] \in U
    OBVIOUS
  <2>1. s1[e].live /\ m < Len(s1[e].path) /\ s1[e].path[m + 1] = d
    BY UnderIs
  <2>2. ASSUME NEW i \in (m + 2)..Len(s1[e].path) PROVE s1[e].path[i] # d /\ s1[e].path[i] \in U
    <3>1. i \in 1..Len(s1[e].path) /\ i > m + 1
      BY <1>4, <1>5, <2>2
    <3> QED BY <3>1, InsideAbove
  <2> QED BY <2>1, <2>2
<1> HIDE DEF g, P, m, U
<1>9. ASSUME NEW e \in Dept, g[e].live
      PROVE  /\ g[e].parent = IF Len(g[e].path) = 0 THEN 0 ELSE g[e].path[Len(g[e].path)]
             /\ \A k \in 1..Len(g[e].path) :
                  /\ g[g[e].path[k]].live /\ Len(g[g[e].path[k]].path) = k - 1
                  /\ \A j \in 1..(k - 1) : g[g[e].path[k]].path[j] = g[e].path[j]
  <2>1. s1[e].live
    BY <1>3, <1>9
  <2>2. s1[e].parent = IF Len(s1[e].path) = 0 THEN 0 ELSE s1[e].path[Len(s1[e].path)]
    BY <2>1 DEF Rooted
  <2>3. CASE e \notin U
    <3>1. g[e] = s1[e]
      BY <1>3, <2>3
    <3>2. ASSUME NEW k \in 1..Len(s1[e].path) PROVE g[s1[e].path[k]] = s1[s1[e].path[k]]
      BY <1>3, <1>6, <1>7, <2>1, <2>3
    <3>3. ASSUME NEW k \in 1..Len(g[e].path)
          PROVE  /\ g[g[e].path[k]].live /\ Len(g[g[e].path[k]].path) = k - 1
                 /\ \A j \in 1..(k - 1) : g[g[e].path[k]].path[j] = g[e].path[j]
      <4>1. k \in 1..Len(s1[e].path)
        BY <3>1
      <4>2. g[g[e].path[k]] = s1[s1[e].path[k]]
        BY <3>1, <3>2, <4>1
      <4> QED BY <1>7, <2>1, <3>1, <4>1, <4>2
    <3> QED BY <2>2, <3>1, <3>3
  <2>4. CASE e = d
    <3>1. g[e].parent = p /\ g[e].path = P
      BY <1>3, <2>4
    <3>2. \A k \in 1..Len(P) : g[P[k]] = s1[P[k]]
      BY <1>2, <1>3
    <3>3. p = IF Len(P) = 0 THEN 0 ELSE P[Len(P)]
      BY <1>1, <1>4
    <3>4. ASSUME NEW k \in 1..Len(g[e].path)
          PROVE  /\ g[g[e].path[k]].live /\ Len(g[g[e].path[k]].path) = k - 1
                 /\ \A j \in 1..(k - 1) : g[g[e].path[k]].path[j] = g[e].path[j]
      <4>1. k \in 1..Len(P) /\ g[g[e].path[k]] = s1[P[k]]
        BY <3>1, <3>2
      <4>2. \A j \in 1..(k - 1) : g[e].path[j] = P[j]
        BY <3>1
      <4> QED BY <1>2, <4>1, <4>2
    <3> QED BY <3>1, <3>3, <3>4
  <2>5. CASE e # d /\ e \in U
    <3> DEFINE Q == g[e].path
               n == Len(s1[e].path)
    <3>1. /\ g[e].parent = s1[e].parent /\ Len(Q) = Len(P) + n - m
          /\ \A j \in 1..Len(P) : Q[j] = P[j]
          /\ \A i \in (m + 1)..n : Q[Len(P) + i - m] = s1[e].path[i]
      BY <1>3, <2>5
    <3>2. n \in Nat /\ m < n /\ s1[e].path[m + 1] = d
      BY <1>4, <1>8, <2>5
    <3>3. g[e].parent = IF Len(Q) = 0 THEN 0 ELSE Q[Len(Q)]
      <4>1. n \in (m + 1)..n /\ Len(P) + n - m > 0 /\ n # 0
        BY <1>5, <3>2
      <4>2. s1[e].parent = s1[e].path[n]
        BY <2>2, <4>1
      <4>3. Q[Len(P) + n - m] = s1[e].path[n]
        BY <3>1, <4>1
      <4> HIDE DEF Q, n
      <4> QED BY <3>1, <4>1, <4>2, <4>3
    <3> HIDE DEF Q
    <3>4. ASSUME NEW k \in 1..Len(P)
          PROVE  g[Q[k]].live /\ Len(g[Q[k]].path) = k - 1 /\ \A j \in 1..(k - 1) : g[Q[k]].path[j] = Q[j]
      <4>1. Q[k] = P[k] /\ g[P[k]] = s1[P[k]]
        BY <1>2, <1>3, <3>1
      <4>2. \A j \in 1..(k - 1) : j \in 1..Len(P)
        BY <1>5
      <4> QED BY <1>2, <3>1, <4>1, <4>2
    <3>5. ASSUME NEW k \in (Len(P) + 1)..Len(Q)
          PROVE  g[Q[k]].live /\ Len(g[Q[k]].path) = k - 1 /\ \A j \in 1..(k - 1) : g[Q[k]].path[j] = Q[j]
      <4> DEFINE i == k - Len(P) + m
                 x == s1[e].path[i]
      <4>1. i \in (m + 1)..n /\ i \in 1..n /\ k = Len(P) + i - m
        BY <1>5, <3>1, <3>2, <3>5
      <4>2. Q[k] = x
        BY <3>1, <4>1
      <4>3. CASE i = m + 1
        <5>1. x = d /\ g[d].path = P /\ g[d].live /\ k - 1 = Len(P)
          BY <1>3, <1>5, <2>1, <2>5, <3>2, <4>1, <4>3, <1>8
        <5> QED BY <3>1, <4>2, <5>1
      <4>4. CASE i # m + 1
        <5>1. i \in (m + 2)..n
          BY <1>5, <4>1, <4>4
        <5>2. /\ x # d /\ x \in U /\ x \in Dept /\ s1[x].live /\ Len(s1[x].path) = i - 1
              /\ \A j \in 1..(i - 1) : s1[x].path[j] = s1[e].path[j]
          BY <1>7, <1>8, <2>1, <2>5, <4>1, <5>1
        <5>3. /\ g[x].live /\ Len(g[x].path) = Len(P) + (i - 1) - m
              /\ \A j \in 1..Len(P) : g[x].path[j] = P[j]
              /\ \A j \in (m + 1)..(i - 1) : g[x].path[Len(P) + j - m] = s1[x].path[j]
          BY <1>3, <5>2
        <5> HIDE DEF x
        <5>4. ASSUME NEW j \in 1..(k - 1) PROVE g[x].path[j] = Q[j]
          <6>1. CASE j \in 1..Len(P)
            BY <3>1, <5>3, <6>1
          <6>2. CASE j \notin 1..Len(P)
            <7> DEFINE b == j - Len(P) + m
            <7>1. b \in (m + 1)..(i - 1) /\ b \in 1..(i - 1) /\ b \in (m + 1)..n /\ j = Len(P) + b - m
              BY <1>5, <3>2, <4>1, <6>2
            <7> HIDE DEF b
            <7>2. g[x].path[Len(P) + b - m] = s1[e].path[b]
              BY <5>2, <5>3, <7>1
            <7> QED BY <3>1, <7>1, <7>2
          <6> QED BY <6>1, <6>2
        <5>5. Len(g[x].path) = k - 1
          BY <1>5, <4>1, <5>3
        <5> QED BY <4>2, <5>3, <5>4, <5>5
      <4> QED BY <4>3, <4>4
    <3>6. \A k \in 1..Len(Q) : k \in 1..Len(P) \/ k \in (Len(P) + 1)..Len(Q)
      BY <1>5, <3>1, <3>2
    <3> QED BY <3>3, <3>4, <3>5, <3>6 DEF Q
  <2> QED BY <2>3, <2>4, <2>5
<1> QED BY <1>9 DEF Rooted, g

\* What it is to be below h in a tree f.
LEMMA BelowIs ==
    ASSUME NEW f, NEW h \in Dept, NEW e \in Dept, f[e].path \in Seq(Dept)
    PROVE  e \in Departments!Under(f, h) <=> e = h \/ (f[e].live /\ \E i \in 1..Len(f[e].path) : f[e].path[i] = h)
<1> DEFINE s == f[e].path
<1>1. DOMAIN s = 1..Len(s)
  OBVIOUS
<1>2. Departments!Range(s) = {s[i] : i \in 1..Len(s)}
  BY <1>1 DEF Departments!Range
<1> HIDE DEF s
<1>3. h \in Departments!Range(s) <=> \E i \in 1..Len(s) : s[i] = h
  BY <1>2
<1> QED BY <1>3 DEF Departments!Under, s

\* Everything on the path of a department is its parent or above.
LEMMA PathIsAbove ==
    ASSUME s1 \in [Dept -> DeptRows], Rooted(s1), NEW d \in Dept, s1[d].live
    PROVE  Departments!AtOrAbove(s1[d].parent) = {s1[d].path[i] : i \in 1..Len(s1[d].path)}
<1> DEFINE s == s1[d].path
           x == s1[d].parent
<1>1. s \in Seq(Dept) /\ Len(s) \in Nat /\ x = IF Len(s) = 0 THEN 0 ELSE s[Len(s)]
  BY DEF DeptRows, Rooted
<1>2. CASE Len(s) = 0
  BY <1>1, <1>2 DEF Departments!AtOrAbove, Departments!Nil
<1>3. CASE Len(s) # 0
  <2>1. Len(s) \in 1..Len(s) /\ x = s[Len(s)] /\ x \in Dept
    BY <1>1, <1>3
  <2>2. Len(s1[x].path) = Len(s) - 1 /\ \A j \in 1..(Len(s) - 1) : s1[x].path[j] = s[j]
    <3>1. \A k \in 1..Len(s) : /\ Len(s1[s[k]].path) = k - 1
                               /\ \A j \in 1..(k - 1) : s1[s[k]].path[j] = s[j]
      BY DEF Rooted
    <3> HIDE DEF s, x
    <3> QED BY <2>1, <3>1
  <2>3. s1[x].path \in Seq(Dept) /\ x # 0
    BY <2>1, DeptBounds DEF DeptRows
  <2>4. Departments!AtOrAbove(x) = {x} \cup {s1[x].path[j] : j \in 1..Len(s1[x].path)}
    BY <2>3 DEF Departments!AtOrAbove, Departments!Above, Departments!Nil, Departments!Range
  <2> HIDE DEF s, x
  <2>5. \A i \in 1..Len(s) : i = Len(s) \/ i \in 1..(Len(s) - 1)
    BY <1>1
  <2>6. \A i \in 1..(Len(s) - 1) : i \in 1..Len(s)
    BY <1>1
  <2>7. Departments!AtOrAbove(x) \subseteq {s[i] : i \in 1..Len(s)}
    BY <2>1, <2>2, <2>4, <2>6
  <2>8. {s[i] : i \in 1..Len(s)} \subseteq Departments!AtOrAbove(x)
    BY <2>1, <2>2, <2>4, <2>5
  <2> QED BY <2>7, <2>8 DEF s, x
<1> QED BY <1>2, <1>3

\* What is below h after the move of d below p.
LEMMA UnderMoved ==
    ASSUME s1 \in [Dept -> DeptRows], Rooted(s1), NEW d \in Dept, s1[d].live, NEW p \in Dept \cup {0},
           NEW h \in Dept, NEW e \in Dept
    PROVE  e \in Departments!Under(Departments!Moved(d, p), h) <=>
             IF e \notin Departments!Under(s1, d) THEN e \in Departments!Under(s1, h)
             ELSE \/ h \in Departments!AtOrAbove(p)
                  \/ h \in Departments!Under(s1, d) /\ e \in Departments!Under(s1, h)
<1> DEFINE g == Departments!Moved(d, p)
           P == Departments!PathBelow(p)
           m == Len(s1[d].path)
           U == Departments!Under(s1, d)
<1>1. MovedRow(d, p, e, g[e], P)
  BY MovedIs
<1>2. Departments!AtOrAbove(p) = {P[j] : j \in 1..Len(P)} /\ P \in Seq(Dept) /\ Len(P) \in Nat
  BY PathBelowIs
<1>3. s1[e].path \in Seq(Dept) /\ g[e].path \in Seq(Dept) /\ m \in Nat /\ s1[h].path \in Seq(Dept)
  BY <1>1 DEF DeptRows, MovedRow
<1>4. e \in Departments!Under(g, h) <=> e = h \/ (g[e].live /\ \E i \in 1..Len(g[e].path) : g[e].path[i] = h)
  <2> HIDE DEF g
  <2> QED BY <1>3, BelowIs
<1>5. e \in Departments!Under(s1, h) <=> e = h \/ (s1[e].live /\ \E i \in 1..Len(s1[e].path) : s1[e].path[i] = h)
  BY <1>3, BelowIs
<1>6. d \in U
  BY DEF Departments!Under
<1>7. CASE e = h
  BY <1>4, <1>5, <1>7
<1>8. CASE e # h /\ e \notin U
  BY <1>1, <1>4, <1>5, <1>8 DEF MovedRow
<1>9. CASE e # h /\ e = d
  <2>1. g[e].path = P /\ g[e].live
    BY <1>1, <1>9 DEF MovedRow
  <2>2. e \in Departments!Under(g, h) <=> h \in Departments!AtOrAbove(p)
    BY <1>2, <1>4, <1>9, <2>1
  <2>3. ASSUME h \in U, e \in Departments!Under(s1, h) PROVE FALSE
    <3>1. s1[h].live /\ m < Len(s1[h].path)
      BY <1>9, <2>3, UnderIs
    <3>2. Len(s1[h].path) < m
      BY <1>9, <2>3, <3>1, UnderIs
    <3> QED BY <1>3, <3>1, <3>2
  <2> QED BY <1>6, <1>9, <2>2, <2>3
<1>10. CASE e # h /\ e \in U /\ e # d
  <2> DEFINE Q == g[e].path
             n == Len(s1[e].path)
  <2>1. /\ g[e].live = s1[e].live /\ Len(Q) = Len(P) + n - m
        /\ \A j \in 1..Len(P) : Q[j] = P[j]
        /\ \A i \in (m + 1)..n : Q[Len(P) + i - m] = s1[e].path[i]
    BY <1>1, <1>10 DEF MovedRow
  <2>2. s1[e].live /\ m < n /\ n \in Nat
    BY <1>3, <1>10, UnderIs
  <2>3. \A i \in 1..n : (i > m => s1[e].path[i] \in U) /\ (i <= m => s1[e].path[i] \notin U)
    <3>1. \A i \in 1..n : /\ i > m + 1 => s1[e].path[i] \in U
                          /\ i = m + 1 => s1[e].path[i] = d
                          /\ i <= m => s1[e].path[i] \notin U
      BY <1>10, InsideAbove
    <3>2. \A i \in 1..n : i > m => i > m + 1 \/ i = m + 1
      BY <1>3
    <3> QED BY <1>6, <3>1, <3>2
  <2> HIDE DEF Q, n, m, P, U
  <2>4. ASSUME NEW k \in 1..Len(Q), Q[k] = h
        PROVE  \/ \E j \in 1..Len(P) : P[j] = h
               \/ h \in U /\ \E i \in 1..n : s1[e].path[i] = h
    <3>1. CASE k \in 1..Len(P)
      BY <2>1, <2>4, <3>1
    <3>2. CASE k \notin 1..Len(P)
      <4> DEFINE i == k - Len(P) + m
      <4>1. i \in (m + 1)..n /\ i \in 1..n /\ i > m /\ k = Len(P) + i - m
        BY <1>2, <1>3, <2>1, <2>2, <3>2
      <4> HIDE DEF i
      <4>2. s1[e].path[i] = h
        BY <2>1, <2>4, <4>1
      <4> QED BY <2>3, <4>1, <4>2
    <3> QED BY <3>1, <3>2
  <2>5. ASSUME NEW j \in 1..Len(P), P[j] = h PROVE \E k \in 1..Len(Q) : Q[k] = h
    <3>1. j \in 1..Len(Q)
      BY <1>2, <1>3, <2>1, <2>2
    <3> QED BY <2>1, <2>5, <3>1
  <2>6. ASSUME h \in U, NEW i \in 1..n, s1[e].path[i] = h PROVE \E k \in 1..Len(Q) : Q[k] = h
    <3>1. i > m
      BY <1>3, <2>3, <2>6
    <3> DEFINE k == Len(P) + i - m
    <3>2. i \in (m + 1)..n /\ k \in 1..Len(Q)
      BY <1>2, <1>3, <2>1, <2>2, <3>1
    <3>3. Q[k] = h
      BY <2>1, <2>6, <3>2
    <3> QED BY <3>2, <3>3
  <2>7. h \in Departments!AtOrAbove(p) <=> \E j \in 1..Len(P) : P[j] = h
    BY <1>2 DEF P
  <2>8. e \in Departments!Under(g, h) <=> \E k \in 1..Len(Q) : Q[k] = h
    BY <1>4, <1>10, <2>1, <2>2 DEF Q
  <2>9. e \in Departments!Under(s1, h) <=> \E i \in 1..n : s1[e].path[i] = h
    BY <1>5, <1>10, <2>2 DEF n
  <2> QED BY <1>10, <2>4, <2>5, <2>6, <2>7, <2>8, <2>9 DEF U
<1> QED BY <1>7, <1>8, <1>9, <1>10

\* A move changes only what is below the departments at or above the old and the new parent.
LEMMA MoveSpares ==
    ASSUME s1 \in [Dept -> DeptRows], Rooted(s1), NEW d \in Dept, s1[d].live, NEW p \in Dept \cup {0}, NEW h \in Dept,
           h \notin Departments!AtOrAbove(s1[d].parent), h \notin Departments!AtOrAbove(p)
    PROVE  Departments!Under(Departments!Moved(d, p), h) = Departments!Under(s1, h)
<1> DEFINE g == Departments!Moved(d, p)
           m == Len(s1[d].path)
           U == Departments!Under(s1, d)
<1>1. \A e \in Dept : e \in Departments!Under(g, h) <=>
        IF e \notin U THEN e \in Departments!Under(s1, h) ELSE h \in U /\ e \in Departments!Under(s1, h)
  BY UnderMoved
<1>2. ASSUME NEW e \in U, e \in Departments!Under(s1, h), h \notin U PROVE FALSE
  <2>1. e \in Dept /\ e # h
    BY <1>2 DEF Departments!Under
  <2>2. s1[e].path \in Seq(Dept) /\ m \in Nat
    BY <2>1 DEF DeptRows
  <2>3. PICK i \in 1..Len(s1[e].path) : s1[e].path[i] = h
    BY <1>2, <2>1, <2>2 DEF Departments!Under, Departments!Range
  <2>4. \A j \in 1..m : s1[d].path[j] # h
    <3>1. Departments!AtOrAbove(s1[d].parent) = {s1[d].path[j] : j \in 1..Len(s1[d].path)}
      BY PathIsAbove
    <3> QED BY <3>1
  <2>5. e # d
    BY <2>3, <2>4
  <2>6. i > m + 1 => h \in U
    BY <1>2, <2>1, <2>3, <2>5, InsideAbove
  <2>7. i = m + 1 => h \in U
    BY <1>2, <2>1, <2>3, <2>5, InsideAbove DEF Departments!Under
  <2>8. i <= m => h = s1[d].path[i]
    BY <1>2, <2>1, <2>3, <2>5, InsideAbove
  <2> QED BY <1>2, <2>2, <2>4, <2>6, <2>7, <2>8
<1>3. Departments!Under(g, h) \subseteq Dept /\ Departments!Under(s1, h) \subseteq Dept
  BY DEF Departments!Under
<1> HIDE DEF g, U
<1>4. \A e \in Dept : e \in Departments!Under(g, h) <=> e \in Departments!Under(s1, h)
  BY <1>1, <1>2
<1>5. Departments!Under(g, h) = Departments!Under(s1, h)
  BY <1>3, <1>4
<1> QED BY <1>5 DEF g

-----------------------------------------------------------------------------
(* Departments: what a commit leaves to the others *)

\* A commit under locks on departments w and roles z, as seen by requests that hold other rows.
DeptEffect(w, z) ==
    /\ \A x \in Dept : s1[x].live /\ x \notin w =>
         /\ s1'[x] = s1[x]
         /\ Departments!Under(s1', x) \subseteq Departments!Under(s1, x)
         /\ Departments!Under(s1, x) \ w \subseteq Departments!Under(s1', x)
         /\ Departments!Children(x) = {} => Departments!Children(x)' = {}
    /\ \A u \in DeptManagers \ z : s2'[u] = s2[u] /\ Departments!Scope(u) \ w \subseteq Departments!Scope(u)'
    /\ \A x \in Dept \ w : /\ \A u \in DeptManagers : x \in s2'[u] <=> x \in s2[u]
                           /\ x \in s3' => x \in s3

\* Departments above one whose row is kept.
LEMMA AboveKept ==
    ASSUME NEW p, p = 0 \/ s1'[p] = s1[p]
    PROVE  Departments!AtOrAbove(p)' = Departments!AtOrAbove(p)
  BY DEF Departments!AtOrAbove, Departments!Above, Departments!Nil

\* A scope of departments that others hold is kept.
LEMMA ScopeKept ==
    ASSUME NEW w, NEW z, DeptEffect(w, z), NEW D \in SUBSET Dept, \A h \in D : s1[h].live,
           Departments!ScopeIn(s1, D) \cap w = {}
    PROVE  Departments!ScopeIn(s1', D) = Departments!ScopeIn(s1, D)
<1>1. ASSUME NEW h \in D PROVE Departments!Under(s1', h) = Departments!Under(s1, h)
  <2>1. h \in Departments!Under(s1, h) /\ Departments!Under(s1, h) \subseteq Departments!ScopeIn(s1, D)
    BY <1>1 DEF Departments!Under, Departments!ScopeIn
  <2>2. h \notin w /\ Departments!Under(s1, h) \cap w = {}
    BY <2>1
  <2>3. /\ Departments!Under(s1', h) \subseteq Departments!Under(s1, h)
        /\ Departments!Under(s1, h) \ w \subseteq Departments!Under(s1', h)
    BY <1>1, <2>2 DEF DeptEffect
  <2> QED BY <2>2, <2>3
<1> QED BY <1>1 DEF Departments!ScopeIn

\* The primed view of a request is that of the primed tree.
LEMMA AfterIs ==
    ASSUME NEW r, NEW u
    PROVE  /\ Departments!Impact(r) = [v \in Departments!Affected(r) |->
                [before |-> Departments!ScopeIn(s1, s2[v]),
                 after |-> Departments!ScopeIn(Departments!TreeAfter(r), Departments!HomeAfter(r)[v])]]
           /\ Departments!Impact(r)' = [v \in Departments!Affected(r)' |->
                [before |-> Departments!ScopeIn(s1', s2'[v]),
                 after |-> Departments!ScopeIn(Departments!TreeAfter(r)', Departments!HomeAfter(r)'[v])]]
           /\ Departments!Scope(u)' = Departments!ScopeIn(s1', s2'[u])
  BY DEF Departments!Impact, Departments!Scope

\* A move under locks makes of the subtree what it would have made before the commit of another.
LEMMA MoveKept ==
    ASSUME NEW d \in Dept, NEW p \in Dept \cup {0}, p = 0 \/ s1'[p] = s1[p], NEW h \in Dept,
           Departments!Under(s1', d) = Departments!Under(s1, d), \A e \in Departments!Under(s1, d) : s1'[e] = s1[e],
           Departments!Under(s1', h) = Departments!Under(s1, h)
    PROVE  Departments!Under(Departments!Moved(d, p)', h) = Departments!Under(Departments!Moved(d, p), h)
<1> DEFINE g == Departments!Moved(d, p)
           k == Departments!Moved(d, p)'
           U == Departments!Under(s1, d)
<1>1. d \in U /\ s1'[d] = s1[d]
  BY DEF Departments!Under
<1>2. Departments!PathBelow(p)' = Departments!PathBelow(p)
  BY DEF Departments!PathBelow, Departments!Nil
<1>3. ASSUME NEW e \in Dept, e \in U PROVE k[e] = g[e]
  BY <1>1, <1>2, <1>3 DEF Departments!Moved
<1>4. ASSUME NEW e \in Dept, e \notin U PROVE k[e] = s1'[e] /\ g[e] = s1[e]
  BY <1>1, <1>4 DEF Departments!Moved
<1> HIDE DEF g, k, U
<1>5. ASSUME NEW e \in Dept PROVE e \in Departments!Under(k, h) <=> e \in Departments!Under(g, h)
  <2>1. CASE e \in U
    BY <1>3, <2>1 DEF Departments!Under
  <2>2. CASE e \notin U
    <3>1. k[e] = s1'[e] /\ g[e] = s1[e]
      BY <1>4, <2>2
    <3>2. e \in Departments!Under(k, h) <=> e \in Departments!Under(s1', h)
      BY <3>1 DEF Departments!Under
    <3>3. e \in Departments!Under(g, h) <=> e \in Departments!Under(s1, h)
      BY <3>1 DEF Departments!Under
    <3> QED BY <3>2, <3>3
  <2> QED BY <2>1, <2>2
<1>6. Departments!Under(k, h) \subseteq Dept /\ Departments!Under(g, h) \subseteq Dept
  BY DEF Departments!Under
<1>7. Departments!Under(k, h) = Departments!Under(g, h)
  BY <1>5, <1>6
<1> QED BY <1>7 DEF k, g

\* What a request holds and knows when another, with locks w and z, commits.
Beside(r, w, z) ==
    /\ s1 \in [Dept -> DeptRows] /\ s1' \in [Dept -> DeptRows]
    /\ s2 \in [DeptManagers -> SUBSET Dept] /\ s2' \in [DeptManagers -> SUBSET Dept]
    /\ \A u \in DeptManagers : s2[u] \subseteq Departments!Live
    /\ Rooted(s1) /\ DeptEffect(w, z)
    /\ r.by \in Departments!Actors /\ r.d \in Dept /\ r.p \in Dept \cup {0} /\ r.who \subseteq DeptManagers
    /\ r.by \in r.roles /\ r.op \in DeptOps /\ r.at = "write"
    /\ WriteInv(r) /\ r.depts \cap w = {} /\ r.roles \cap z = {}

\* What is above the old and the new place of a department about to be moved.
LEMMA AnchorsKept ==
    ASSUME NEW r, NEW w, NEW z, Beside(r, w, z), r.op = "move"
    PROVE  (r.p = 0 \/ s1'[r.p] = s1[r.p]) /\ Departments!Anchors(r)' = Departments!Anchors(r)
<1>0. r.d \in r.depts /\ r.d \notin w /\ s1[r.d].live /\ s1'[r.d] = s1[r.d]
  BY DEF Beside, WriteInv, DeptEffect
<1>1. /\ r.p # 0 => s1[r.p].live
      /\ Departments!Anchors(r) \subseteq r.depts
  BY DEF Beside, WriteInv
<1>2. r.p = 0 \/ s1'[r.p] = s1[r.p]
  <2>1. r.p # 0 => r.p \in Departments!Anchors(r)
    BY DEF Departments!Anchors, Departments!AtOrAbove, Departments!Nil
  <2> QED BY <1>1, <2>1 DEF Beside, DeptEffect
<1>3. s1[r.d].parent = 0 \/ s1'[s1[r.d].parent] = s1[s1[r.d].parent]
  <2> DEFINE x == s1[r.d].parent
  <2>1. x # 0 => x \in Departments!Anchors(r)
    BY DEF Departments!Anchors, Departments!AtOrAbove, Departments!Nil
  <2>2. x # 0 => x \in Dept /\ s1[x].live
    <3>1. s1[r.d].path \in Seq(Dept)
      BY DEF Beside, DeptRows
    <3>2. x = IF Len(s1[r.d].path) = 0 THEN 0 ELSE s1[r.d].path[Len(s1[r.d].path)]
      BY <1>0 DEF Beside, Rooted
    <3>3. x # 0 => Len(s1[r.d].path) \in 1..Len(s1[r.d].path) /\ s1[r.d].path[Len(s1[r.d].path)] \in Dept
      BY <3>1, <3>2
    <3> QED BY <1>0, <3>2, <3>3 DEF Beside, Rooted
  <2> HIDE DEF x
  <2>3. x = 0 \/ s1'[x] = s1[x]
    BY <1>1, <2>1, <2>2 DEF Beside, DeptEffect
  <2> QED BY <2>3 DEF x
<1>4. Departments!Anchors(r)' = Departments!Anchors(r)
  <2>1. Departments!AtOrAbove(r.p)' = Departments!AtOrAbove(r.p)
    BY <1>2, AboveKept
  <2>2. \A x : (x = 0 \/ s1'[x] = s1[x]) => Departments!AtOrAbove(x)' = Departments!AtOrAbove(x)
    BY AboveKept
  <2>3. s1'[r.d].parent = s1[r.d].parent
    BY <1>0
  <2> QED BY <1>3, <2>1, <2>2, <2>3 DEF Departments!Anchors, Departments!AtOrAbove, Departments!Above, Departments!Nil
<1> QED BY <1>2, <1>4

\* Whose scope changes, and how, is the same after the commit.
LEMMA ImpactKept ==
    ASSUME NEW r, NEW w, NEW z, Beside(r, w, z), r.op \in {"move", "join", "members"}
    PROVE  /\ Departments!Affected(r)' = Departments!Affected(r)
           /\ Departments!Impact(r)' = Departments!Impact(r)
<1>1. /\ Departments!Affected(r) \subseteq DeptManagers /\ Departments!Affected(r) \subseteq r.roles
      /\ Departments!ImpactDepts(r) \subseteq r.depts
  BY DEF Beside, WriteInv, ImpactInv, Departments!Affected, Departments!MembersOf, Departments!Managers, DeptManagers
<1>2. ASSUME NEW u \in Departments!Affected(r)
      PROVE  /\ s2'[u] = s2[u] /\ s2[u] \in SUBSET Dept /\ \A h \in s2[u] : s1[h].live
             /\ Departments!ScopeIn(s1, s2[u]) \subseteq r.depts
             /\ Departments!ScopeIn(Departments!TreeAfter(r), Departments!HomeAfter(r)[u]) \subseteq r.depts
  <2>1. s2'[u] = s2[u] /\ s2[u] \in SUBSET Dept
    BY <1>1, <1>2 DEF Beside, DeptEffect
  <2>2. \A h \in s2[u] : s1[h].live
    BY <1>1, <1>2 DEF Beside, Departments!Live
  <2>3. Departments!Impact(r)[u].before \subseteq r.depts /\ Departments!Impact(r)[u].after \subseteq r.depts
    BY <1>1, <1>2 DEF Departments!ImpactDepts
  <2>4. /\ Departments!Impact(r)[u].before = Departments!ScopeIn(s1, s2[u])
        /\ Departments!Impact(r)[u].after = Departments!ScopeIn(Departments!TreeAfter(r), Departments!HomeAfter(r)[u])
    BY <1>2, AfterIs
  <2> QED BY <2>1, <2>2, <2>3, <2>4
<1>3. ASSUME NEW u \in Departments!Affected(r)
      PROVE  Departments!ScopeIn(s1', s2'[u]) = Departments!ScopeIn(s1, s2[u])
  <2>1. Departments!ScopeIn(s1, s2[u]) \cap w = {}
    BY <1>2 DEF Beside
  <2> QED BY <1>2, <2>1, ScopeKept DEF Beside
<1>4. r.d \in r.depts /\ r.d \notin w /\ s1[r.d].live /\ s1'[r.d] = s1[r.d]
  BY DEF Beside, WriteInv, DeptEffect
<1>5. CASE r.op = "move"
  <2>1. /\ r.p # 0 => s1[r.p].live
        /\ r.d \notin Departments!AtOrAbove(r.p)
        /\ Departments!Anchors(r) \subseteq r.depts /\ Departments!Under(s1, r.d) \subseteq r.depts
    BY <1>5 DEF Beside, WriteInv
  <2>2. (r.p = 0 \/ s1'[r.p] = s1[r.p]) /\ Departments!Anchors(r)' = Departments!Anchors(r)
    BY <1>5, AnchorsKept
  <2>5. Departments!Affected(r)' = Departments!Affected(r)
    <3>1. Departments!Anchors(r) \subseteq Dept
      <4>1. \A x \in Dept \cup {0} : Departments!AtOrAbove(x) \subseteq Dept
        <5> SUFFICES ASSUME NEW x \in Dept, x # 0 PROVE Departments!AtOrAbove(x) \subseteq Dept
          BY DEF Departments!AtOrAbove, Departments!Nil
        <5>1. s1[x].path \in Seq(Dept)
          BY DEF Beside, DeptRows
        <5> QED BY <5>1 DEF Departments!AtOrAbove, Departments!Above, Departments!Range, Departments!Nil
      <4>2. s1[r.d].parent \in Dept \cup {0} /\ r.p \in Dept \cup {0}
        BY DEF Beside, DeptRows
      <4> QED BY <4>1, <4>2 DEF Departments!Anchors
    <3>2. \A u \in DeptManagers, x \in Departments!Anchors(r) : x \in s2'[u] <=> x \in s2[u]
      BY <2>1, <3>1 DEF Beside, DeptEffect
    <3> QED BY <1>5, <2>2, <3>2 DEF Departments!Affected, Departments!MembersOf, DeptManagers, Departments!Managers
  <2>6. ASSUME NEW u \in Departments!Affected(r)
        PROVE  Departments!ScopeIn(Departments!TreeAfter(r)', Departments!HomeAfter(r)'[u])
                 = Departments!ScopeIn(Departments!TreeAfter(r), Departments!HomeAfter(r)[u])
    <3>1. /\ Departments!HomeAfter(r)' = s2' /\ Departments!HomeAfter(r) = s2
          /\ Departments!TreeAfter(r)' = Departments!Moved(r.d, r.p)' /\ Departments!TreeAfter(r) = Departments!Moved(r.d, r.p)
      BY <1>5 DEF Departments!HomeAfter, Departments!TreeAfter
    <3>2. /\ Departments!Under(s1', r.d) = Departments!Under(s1, r.d)
          /\ \A e \in Departments!Under(s1, r.d) : s1'[e] = s1[e]
      <4>1. r.d \in Dept /\ r.d \notin w
        BY <1>4 DEF Beside
      <4>2. Departments!Under(s1, r.d) \cap w = {}
        BY <2>1 DEF Beside
      <4>3. \A e \in Departments!Under(s1, r.d) : e \in Dept /\ s1[e].live
        BY <1>4, <4>1 DEF Departments!Under
      <4> QED BY <1>4, <4>1, <4>2, <4>3 DEF Beside, DeptEffect
    <3>3. ASSUME NEW h \in s2[u]
          PROVE  Departments!Under(Departments!Moved(r.d, r.p)', h) = Departments!Under(Departments!Moved(r.d, r.p), h)
      <4>1. h \in Dept /\ s1[h].live /\ Departments!Under(s1, h) \subseteq r.depts /\ h \in Departments!Under(s1, h)
        BY <1>2, <3>3 DEF Departments!ScopeIn, Departments!Under
      <4>2. Departments!Under(s1', h) = Departments!Under(s1, h)
        BY <4>1 DEF Beside, DeptEffect
      <4>3. r.d \in Dept /\ r.p \in Dept \cup {0}
        BY DEF Beside
      <4> QED BY <2>2, <3>2, <4>1, <4>2, <4>3, MoveKept
    <3> QED BY <1>2, <3>1, <3>3 DEF Departments!ScopeIn
  <2> QED BY <1>3, <2>5, <2>6, AfterIs
<1>6. CASE r.op = "join"
  <2>1. Departments!Affected(r)' = r.who /\ Departments!Affected(r) = r.who
    BY <1>6 DEF Departments!Affected
  <2>2. ASSUME NEW u \in r.who
        PROVE  Departments!ScopeIn(Departments!TreeAfter(r)', Departments!HomeAfter(r)'[u])
                 = Departments!ScopeIn(Departments!TreeAfter(r), Departments!HomeAfter(r)[u])
    <3>1. /\ Departments!HomeAfter(r)'[u] = {r.d} /\ Departments!HomeAfter(r)[u] = {r.d}
          /\ Departments!TreeAfter(r)' = s1' /\ Departments!TreeAfter(r) = s1
      BY <1>6, <2>2 DEF Departments!HomeAfter, Departments!TreeAfter, Beside, DeptManagers, Departments!Managers
    <3>2. Departments!ScopeIn(s1, {r.d}) \subseteq r.depts
      BY <1>2, <2>1, <2>2, <3>1
    <3> DEFINE D == {r.d}
    <3>3. D \in SUBSET Dept /\ (\A h \in D : s1[h].live) /\ Departments!ScopeIn(s1, D) \cap w = {} /\ DeptEffect(w, z)
      BY <1>4, <3>2 DEF Beside
    <3> HIDE DEF D
    <3>4. Departments!ScopeIn(s1', D) = Departments!ScopeIn(s1, D)
      BY <3>3, ScopeKept
    <3> QED BY <3>1, <3>4 DEF D
  <2> QED BY <1>3, <2>1, <2>2, AfterIs
<1>7. CASE r.op = "members"
  <2>1. /\ Departments!HomeAfter(r) = [u \in DeptManagers |-> IF u \in r.who THEN s2[u] \cup {r.d} ELSE s2[u] \ {r.d}]
        /\ Departments!HomeAfter(r)' = [u \in DeptManagers |-> IF u \in r.who THEN s2'[u] \cup {r.d} ELSE s2'[u] \ {r.d}]
        /\ Departments!TreeAfter(r)' = s1' /\ Departments!TreeAfter(r) = s1
    BY <1>7 DEF Departments!HomeAfter, Departments!Regrouped, Departments!TreeAfter, DeptManagers, Departments!Managers
  <2>2. /\ Departments!Affected(r) = {u \in DeptManagers : Departments!HomeAfter(r)[u] # s2[u]}
        /\ Departments!Affected(r)' = {u \in DeptManagers : Departments!HomeAfter(r)'[u] # s2'[u]}
    BY <1>7 DEF Departments!Affected, DeptManagers, Departments!Managers
  <2>3. ASSUME NEW u \in DeptManagers PROVE r.d \in s2'[u] <=> r.d \in s2[u]
    BY <1>4 DEF Beside, DeptEffect
  <2>4. Departments!Affected(r)' = Departments!Affected(r)
    <3> DEFINE f == Departments!HomeAfter(r)
               k == Departments!HomeAfter(r)'
    <3>1. ASSUME NEW u \in DeptManagers PROVE k[u] # s2'[u] <=> f[u] # s2[u]
      <4>1. /\ f[u] = IF u \in r.who THEN s2[u] \cup {r.d} ELSE s2[u] \ {r.d}
            /\ k[u] = IF u \in r.who THEN s2'[u] \cup {r.d} ELSE s2'[u] \ {r.d}
        BY <2>1
      <4> HIDE DEF f, k
      <4>2. \A S : ((S \cup {r.d}) # S <=> r.d \notin S) /\ ((S \ {r.d}) # S <=> r.d \in S)
        OBVIOUS
      <4>3. f[u] # s2[u] <=> (IF u \in r.who THEN r.d \notin s2[u] ELSE r.d \in s2[u])
        BY <4>1, <4>2
      <4>4. k[u] # s2'[u] <=> (IF u \in r.who THEN r.d \notin s2'[u] ELSE r.d \in s2'[u])
        BY <4>1, <4>2
      <4> QED BY <2>3, <4>3, <4>4
    <3> HIDE DEF f, k
    <3>2. {u \in DeptManagers : k[u] # s2'[u]} = {u \in DeptManagers : f[u] # s2[u]}
      BY <3>1
    <3> QED BY <2>2, <3>2 DEF f, k
  <2>5. ASSUME NEW u \in Departments!Affected(r)
        PROVE  Departments!ScopeIn(Departments!TreeAfter(r)', Departments!HomeAfter(r)'[u])
                 = Departments!ScopeIn(Departments!TreeAfter(r), Departments!HomeAfter(r)[u])
    <3> DEFINE D == Departments!HomeAfter(r)[u]
    <3>0. u \in DeptManagers /\ s2'[u] = s2[u] /\ s2[u] \in SUBSET Dept /\ \A h \in s2[u] : s1[h].live
      <4>1. u \in DeptManagers
        BY <1>1, <2>5
      <4> QED BY <1>2, <2>5, <4>1
    <3>5. /\ D = IF u \in r.who THEN s2[u] \cup {r.d} ELSE s2[u] \ {r.d}
          /\ Departments!HomeAfter(r)'[u] = IF u \in r.who THEN s2'[u] \cup {r.d} ELSE s2'[u] \ {r.d}
      BY <2>1, <3>0
    <3>1. u \in DeptManagers /\ Departments!HomeAfter(r)'[u] = D
      BY <3>0, <3>5
    <3>6. r.d \in Dept /\ s1[r.d].live
      BY <1>4 DEF Beside
    <3>2. D \in SUBSET Dept /\ \A h \in D : s1[h].live
      <4> HIDE DEF D
      <4> QED BY <3>0, <3>5, <3>6
    <3>3. Departments!ScopeIn(s1, D) \cap w = {} /\ DeptEffect(w, z)
      BY <1>2, <2>1 DEF Beside
    <3> HIDE DEF D
    <3>4. Departments!ScopeIn(s1', D) = Departments!ScopeIn(s1, D)
      BY <3>2, <3>3, ScopeKept
    <3> QED BY <2>1, <3>1, <3>4 DEF D
  <2> QED BY <1>3, <2>4, <2>5, AfterIs
<1> QED BY <1>5, <1>6, <1>7

\* Right before the commit of another, right after it.
LEMMA WriteKept ==
    ASSUME NEW r, NEW w, NEW z, Beside(r, w, z)
    PROVE  WriteInv(r)'
<1>1. WriteInv(r) /\ r.at = "write"
  BY DEF Beside
<1>2. r.op # "create" => r.d \in r.depts /\ r.d \notin w /\ s1[r.d].live /\ s1'[r.d] = s1[r.d]
  BY <1>1 DEF Beside, WriteInv, DeptEffect
<1>3. ASSUME r.op \in {"create", "move"}, Departments!AtOrAbove(r.p) \subseteq r.depts, r.p # 0 => s1[r.p].live
      PROVE  (r.p # 0 => s1'[r.p].live) /\ Departments!AtOrAbove(r.p)' = Departments!AtOrAbove(r.p)
  <2>1. r.p = 0 \/ s1'[r.p] = s1[r.p]
    <3>1. r.p # 0 => r.p \in Departments!AtOrAbove(r.p)
      BY DEF Departments!AtOrAbove, Departments!Nil
    <3> QED BY <1>3, <3>1 DEF Beside, DeptEffect
  <2> QED BY <1>3, <2>1, AboveKept
<1>4. r.op = "create" => /\ r.p # 0 => s1'[r.p].live
                         /\ Departments!AtOrAbove(r.p)' \subseteq r.depts
  BY <1>1, <1>3 DEF WriteInv
<1>5. r.op = "delete" => Departments!Unreferenced(r.d)'
  <2> SUFFICES ASSUME r.op = "delete" PROVE Departments!Unreferenced(r.d)'
    OBVIOUS
  <2>1. Departments!Unreferenced(r.d)
    BY <1>1 DEF WriteInv
  <2>2. Departments!Children(r.d)' = {}
    BY <1>2, <2>1 DEF Beside, DeptEffect, Departments!Unreferenced
  <2>3. r.d \notin s3'
    BY <1>2, <2>1 DEF Beside, DeptEffect, Departments!Unreferenced
  <2>4. \A u \in DeptManagers : r.d \notin s2'[u]
    BY <1>2, <2>1 DEF Beside, DeptEffect, Departments!Unreferenced, Departments!MembersOf, DeptManagers, Departments!Managers
  <2>5. Departments!MembersOf({r.d})' = {}
    BY <2>4 DEF Departments!MembersOf, DeptManagers, Departments!Managers
  <2> QED BY <2>2, <2>3, <2>5 DEF Departments!Unreferenced
<1>6. r.op = "move" => /\ r.p # 0 => s1'[r.p].live
                       /\ r.d \notin Departments!AtOrAbove(r.p)'
                       /\ Departments!Anchors(r)' \cup Departments!Under(s1', r.d) \subseteq r.depts
                       /\ r.seen[4] = Departments!Impact(r)'
  <2> SUFFICES ASSUME r.op = "move"
               PROVE  /\ r.p # 0 => s1'[r.p].live
                      /\ r.d \notin Departments!AtOrAbove(r.p)'
                      /\ Departments!Anchors(r)' \cup Departments!Under(s1', r.d) \subseteq r.depts
                      /\ r.seen[4] = Departments!Impact(r)'
    OBVIOUS
  <2>1. /\ r.p # 0 => s1[r.p].live
        /\ r.d \notin Departments!AtOrAbove(r.p)
        /\ Departments!Anchors(r) \cup Departments!Under(s1, r.d) \subseteq r.depts
        /\ r.seen[4] = Departments!Impact(r)
    BY <1>1 DEF WriteInv
  <2>2. Departments!AtOrAbove(r.p) \subseteq r.depts
    BY <2>1 DEF Departments!Anchors
  <2>3. (r.p # 0 => s1'[r.p].live) /\ Departments!AtOrAbove(r.p)' = Departments!AtOrAbove(r.p)
    BY <1>3, <2>1, <2>2
  <2>4. Departments!Under(s1', r.d) \subseteq Departments!Under(s1, r.d)
    BY <1>2 DEF Beside, DeptEffect
  <2>5. Departments!Anchors(r)' = Departments!Anchors(r)
    BY AnchorsKept
  <2> QED BY <2>1, <2>3, <2>4, <2>5, ImpactKept
<1>7. r.op \in {"move", "join", "members"} => ImpactInv(r)'
  <2> SUFFICES ASSUME r.op \in {"move", "join", "members"} PROVE ImpactInv(r)'
    OBVIOUS
  <2>1. ImpactInv(r)
    BY <1>1 DEF WriteInv
  <2>2. Departments!Affected(r)' = Departments!Affected(r) /\ Departments!Impact(r)' = Departments!Impact(r)
    BY ImpactKept
  <2>3. Departments!ImpactDepts(r)' = Departments!ImpactDepts(r)
    BY <2>2 DEF Departments!ImpactDepts
  <2>4. ASSUME ~Departments!Super(r.by), NEW u \in Departments!Affected(r)
        PROVE  Departments!Impact(r)[u].before \cup Departments!Impact(r)[u].after \subseteq Departments!Scope(r.by)'
    <3>1. r.by \in DeptManagers /\ r.by \notin z
      BY <2>4 DEF Beside, Departments!Actors, Departments!Managers, DeptManagers, Departments!Super
    <3>2. Departments!Scope(r.by) \ w \subseteq Departments!Scope(r.by)'
      BY <3>1 DEF Beside, DeptEffect
    <3> DEFINE S == Departments!Impact(r)[u].before \cup Departments!Impact(r)[u].after
    <3>3. S \subseteq Departments!Scope(r.by) /\ S \subseteq r.depts
      BY <2>1, <2>4 DEF ImpactInv, Departments!ImpactDepts
    <3> QED BY <3>2, <3>3 DEF Beside
  <2> QED BY <2>1, <2>2, <2>3, <2>4 DEF ImpactInv, Departments!Super
<1> QED BY <1>2, <1>4, <1>5, <1>6, <1>7 DEF WriteInv

-----------------------------------------------------------------------------
(* Departments: commits *)

DeptState(f, h, c) ==
    /\ f \in [Dept -> DeptRows] /\ h \in [DeptManagers -> SUBSET Dept] /\ c \subseteq Dept /\ Rooted(f)
    /\ \A u \in DeptManagers : \A x \in h[u] : f[x].live

\* A request about to commit.
Committing(r) ==
    /\ DeptState(s1, s2, s3) /\ WriteInv(r) /\ r.at = "write"
    /\ r.d \in Dept /\ r.p \in Dept \cup {0} /\ r.who \subseteq DeptManagers
    /\ r.op = "create" => ~s1[r.d].live

\* What its commit comes to.
Committed(r) ==
    /\ DeptState(s1', s2', s3') /\ DeptEffect(r.depts, r.roles)
    /\ \A x \in Dept : s1'[x].live => s1[x].live \/ (r.op = "create" /\ x = r.d)

\* A scope grows with what is below its departments.
LEMMA ScopeGrows ==
    ASSUME NEW u, NEW w, s2'[u] = s2[u],
           \A h \in s2[u] : Departments!Under(s1, h) \ w \subseteq Departments!Under(s1', h)
    PROVE  Departments!Scope(u) \ w \subseteq Departments!Scope(u)'
<1>1. Departments!Scope(u) = UNION {Departments!Under(s1, h) : h \in s2[u]}
  BY DEF Departments!Scope, Departments!ScopeIn
<1>2. Departments!Scope(u)' = UNION {Departments!Under(s1', h) : h \in s2[u]}
  BY AfterIs DEF Departments!ScopeIn
<1> QED BY <1>1, <1>2

\* A new department stands below its parent.
LEMMA CreateCommits ==
    ASSUME NEW r, Committing(r), r.op = "create", UNCHANGED <<s2, s3>>,
           s1' = [s1 EXCEPT ![r.d] = [live |-> TRUE, parent |-> r.p, path |-> Departments!PathBelow(r.p), on |-> TRUE]]
    PROVE  Committed(r)
<1> DEFINE P == Departments!PathBelow(r.p)
           d == r.d
<1>1. /\ s1 \in [Dept -> DeptRows] /\ d \in Dept /\ r.p \in Dept \cup {0} /\ ~s1[d].live /\ Rooted(s1)
      /\ r.p # 0 => s1[r.p].live
      /\ Departments!AtOrAbove(r.p) \subseteq r.depts
  BY DEF Committing, DeptState, WriteInv
<1>2. /\ P \in Seq(Dept) /\ Departments!AtOrAbove(r.p) = {P[j] : j \in 1..Len(P)}
      /\ r.p = IF Len(P) = 0 THEN 0 ELSE P[Len(P)]
  <2>1. s1 \in [Dept -> DeptRows] /\ r.p \in Dept \cup {0} /\ (r.p # 0 => Len(s1[r.p].path) \in Nat)
    BY <1>1 DEF DeptRows
  <2>2. /\ P \in Seq(Dept) /\ Len(P) = (IF r.p = 0 THEN 0 ELSE Len(s1[r.p].path) + 1)
        /\ r.p # 0 => P[Len(P)] = r.p
        /\ Departments!AtOrAbove(r.p) = {P[j] : j \in 1..Len(P)}
    BY <2>1, PathBelowIs
  <2> HIDE DEF P
  <2> QED BY <2>1, <2>2
<1>3. ASSUME NEW j \in 1..Len(P)
      PROVE  /\ P[j] \in Dept /\ s1[P[j]].live /\ P[j] # d /\ Len(s1[P[j]].path) = j - 1
             /\ \A i \in 1..(j - 1) : s1[P[j]].path[i] = P[i]
  <2>1. \A q \in Dept \cup {0} : (q # 0 => s1[q].live) =>
          \A i \in 1..Len(Departments!PathBelow(q)) :
            LET N == Departments!PathBelow(q) IN
            /\ N[i] \in Dept /\ s1[N[i]].live /\ Len(s1[N[i]].path) = i - 1
            /\ \A k \in 1..(i - 1) : s1[N[i]].path[k] = N[k]
    BY <1>1, PathStands
  <2>2. /\ P[j] \in Dept /\ s1[P[j]].live /\ Len(s1[P[j]].path) = j - 1
        /\ \A i \in 1..(j - 1) : s1[P[j]].path[i] = P[i]
    BY <1>1, <2>1
  <2> QED BY <1>1, <2>2
<1>4. /\ s1'[d] = [live |-> TRUE, parent |-> r.p, path |-> P, on |-> TRUE]
      /\ \A x \in Dept \ {d} : s1'[x] = s1[x]
  BY <1>1
<1> HIDE DEF P, d
<1>5. s1'[d] \in DeptRows /\ s1'[d].live /\ s1'[d].parent = r.p /\ s1'[d].path = P
  BY <1>1, <1>2, <1>4 DEF DeptRows
<1>6. s1' \in [Dept -> DeptRows]
  BY <1>1, <1>5 DEF d
<1>7. Rooted(s1')
  <2> SUFFICES ASSUME NEW e \in Dept, s1'[e].live
               PROVE  /\ s1'[e].parent = IF Len(s1'[e].path) = 0 THEN 0 ELSE s1'[e].path[Len(s1'[e].path)]
                      /\ \A k \in 1..Len(s1'[e].path) :
                           /\ s1'[s1'[e].path[k]].live /\ Len(s1'[s1'[e].path[k]].path) = k - 1
                           /\ \A j \in 1..(k - 1) : s1'[s1'[e].path[k]].path[j] = s1'[e].path[j]
    BY DEF Rooted
  <2>1. CASE e = d
    <3>1. s1'[e].parent = r.p /\ s1'[e].path = P
      BY <1>5, <2>1
    <3>2. ASSUME NEW k \in 1..Len(P)
          PROVE  /\ s1'[P[k]].live /\ Len(s1'[P[k]].path) = k - 1
                 /\ \A j \in 1..(k - 1) : s1'[P[k]].path[j] = P[j]
      <4>1. s1'[P[k]] = s1[P[k]]
        BY <1>3, <1>4
      <4> QED BY <1>3, <4>1
    <3>3. s1'[e].parent = IF Len(s1'[e].path) = 0 THEN 0 ELSE s1'[e].path[Len(s1'[e].path)]
      BY <1>2, <3>1
    <3>4. ASSUME NEW k \in 1..Len(s1'[e].path)
          PROVE  /\ s1'[s1'[e].path[k]].live /\ Len(s1'[s1'[e].path[k]].path) = k - 1
                 /\ \A j \in 1..(k - 1) : s1'[s1'[e].path[k]].path[j] = s1'[e].path[j]
      <4>1. k \in 1..Len(P) /\ s1'[e].path[k] = P[k]
        BY <3>1
      <4> QED BY <3>1, <3>2, <4>1
    <3> QED BY <3>3, <3>4
  <2>2. CASE e # d
    <3>1. s1'[e] = s1[e] /\ s1[e].live /\ s1[e].path \in Seq(Dept)
      BY <1>1, <1>4, <2>2 DEF DeptRows
    <3>2. ASSUME NEW k \in 1..Len(s1[e].path) PROVE s1'[s1[e].path[k]] = s1[s1[e].path[k]]
      <4>1. s1[e].path[k] \in Dept /\ s1[s1[e].path[k]].live
        BY <1>1, <3>1 DEF Rooted
      <4> QED BY <1>1, <1>4, <4>1
    <3>3. /\ s1[e].parent = IF Len(s1[e].path) = 0 THEN 0 ELSE s1[e].path[Len(s1[e].path)]
          /\ \A k \in 1..Len(s1[e].path) :
               /\ s1[s1[e].path[k]].live /\ Len(s1[s1[e].path[k]].path) = k - 1
               /\ \A j \in 1..(k - 1) : s1[s1[e].path[k]].path[j] = s1[e].path[j]
      BY <1>1, <3>1 DEF Rooted
    <3>4. ASSUME NEW k \in 1..Len(s1'[e].path)
          PROVE  /\ s1'[s1'[e].path[k]].live /\ Len(s1'[s1'[e].path[k]].path) = k - 1
                 /\ \A j \in 1..(k - 1) : s1'[s1'[e].path[k]].path[j] = s1'[e].path[j]
      <4>1. k \in 1..Len(s1[e].path) /\ s1'[e].path[k] = s1[e].path[k]
        BY <3>1
      <4> DEFINE y == s1[e].path[k]
      <4>2. /\ s1'[y] = s1[y] /\ s1[y].live /\ Len(s1[y].path) = k - 1
            /\ \A j \in 1..(k - 1) : s1[y].path[j] = s1[e].path[j]
        BY <3>2, <3>3, <4>1
      <4>3. s1'[e].path[k] = y
        BY <4>1
      <4> HIDE DEF y
      <4> QED BY <3>1, <4>2, <4>3
    <3> QED BY <3>1, <3>3, <3>4
  <2> QED BY <2>1, <2>2
<1>8. ASSUME NEW h \in Dept, NEW e \in Dept, s1[e].live \/ h \notin r.depts, h # d
      PROVE  e \in Departments!Under(s1', h) <=> e \in Departments!Under(s1, h)
  <2>1. CASE e = d
    <3>1. ~(\E i \in 1..Len(P) : P[i] = h)
      BY <1>1, <1>2, <1>8, <2>1
    <3>2. s1'[e].path \in Seq(Dept) /\ s1[e].path \in Seq(Dept)
      BY <1>1, <1>6 DEF DeptRows
    <3>3. e \in Departments!Under(s1', h) <=> e = h \/ (s1'[e].live /\ \E i \in 1..Len(s1'[e].path) : s1'[e].path[i] = h)
      <4> DEFINE f == s1'
      <4>1. f[e].path \in Seq(Dept)
        BY <3>2
      <4> HIDE DEF f
      <4>2. e \in Departments!Under(f, h) <=> e = h \/ (f[e].live /\ \E i \in 1..Len(f[e].path) : f[e].path[i] = h)
        BY <4>1, BelowIs
      <4> QED BY <4>2 DEF f
    <3>4. e \in Departments!Under(s1, h) <=> e = h \/ (s1[e].live /\ \E i \in 1..Len(s1[e].path) : s1[e].path[i] = h)
      BY <3>2, BelowIs
    <3> QED BY <1>1, <1>5, <2>1, <3>1, <3>3, <3>4
  <2>2. CASE e # d
    BY <1>4, <2>2 DEF Departments!Under
  <2> QED BY <2>1, <2>2
<1>9. ASSUME NEW x \in Dept, s1[x].live, x \notin r.depts
      PROVE  /\ s1'[x] = s1[x] /\ Departments!Under(s1', x) = Departments!Under(s1, x)
             /\ Departments!Children(x) = {} => Departments!Children(x)' = {}
  <2>1. x # d /\ x # r.p
    <3>1. r.p \in Dept => r.p \in Departments!AtOrAbove(r.p)
      BY DeptBounds DEF Departments!AtOrAbove, Departments!Nil
    <3> QED BY <1>1, <1>9, <3>1
  <2>2. Departments!Under(s1', x) \subseteq Dept /\ Departments!Under(s1, x) \subseteq Dept
    BY DEF Departments!Under
  <2>3. \A e \in Dept : e \in Departments!Under(s1', x) <=> e \in Departments!Under(s1, x)
    BY <1>8, <1>9, <2>1
  <2>4. Departments!Children(x)' \subseteq Departments!Children(x)
    BY <1>4, <1>5, <2>1 DEF Departments!Children, Departments!Live
  <2> QED BY <1>4, <1>9, <2>1, <2>2, <2>3, <2>4
<1>10. ASSUME NEW u \in DeptManagers PROVE Departments!Scope(u) \ r.depts \subseteq Departments!Scope(u)'
  <2>1. s2'[u] = s2[u] /\ s2[u] \in SUBSET Dept /\ \A x \in s2[u] : s1[x].live
    BY DEF Committing, DeptState
  <2>2. ASSUME NEW h \in s2[u] PROVE Departments!Under(s1, h) \subseteq Departments!Under(s1', h)
    <3>1. \A e \in Departments!Under(s1, h) : e \in Dept /\ s1[e].live
      BY <2>1 DEF Departments!Under
    <3>2. h \in Dept /\ h # d
      BY <1>1, <2>1
    <3> QED BY <1>8, <3>1, <3>2
  <2> QED BY <2>1, <2>2, ScopeGrows
<1>11. DeptEffect(r.depts, r.roles)
  BY <1>9, <1>10 DEF DeptEffect
<1>12. DeptState(s1', s2', s3')
  <2>1. \A x \in Dept : s1[x].live => s1'[x].live
    BY <1>1, <1>4
  <2> QED BY <1>6, <1>7, <2>1 DEF DeptState, Committing
<1> QED BY <1>4, <1>11, <1>12 DEF Committed, d

\* A row is in its place as long as the rows on its path are as they were.
LEMMA RootedKept ==
    ASSUME NEW f \in [Dept -> DeptRows], Rooted(f), NEW g, NEW gone \in SUBSET Dept,
           \A x \in Dept \ gone : g[x].live = f[x].live /\ g[x].parent = f[x].parent /\ g[x].path = f[x].path,
           \A x \in gone : ~g[x].live,
           \A e \in Dept \ gone : f[e].live => \A k \in 1..Len(f[e].path) : f[e].path[k] \notin gone
    PROVE  Rooted(g)
<1> SUFFICES ASSUME NEW e \in Dept, g[e].live
             PROVE  /\ g[e].parent = IF Len(g[e].path) = 0 THEN 0 ELSE g[e].path[Len(g[e].path)]
                    /\ \A k \in 1..Len(g[e].path) :
                         /\ g[g[e].path[k]].live /\ Len(g[g[e].path[k]].path) = k - 1
                         /\ \A j \in 1..(k - 1) : g[g[e].path[k]].path[j] = g[e].path[j]
  BY DEF Rooted
<1>1. e \notin gone /\ f[e].live /\ g[e].parent = f[e].parent /\ g[e].path = f[e].path /\ f[e].path \in Seq(Dept)
  BY DEF DeptRows
<1>2. /\ f[e].parent = IF Len(f[e].path) = 0 THEN 0 ELSE f[e].path[Len(f[e].path)]
      /\ \A k \in 1..Len(f[e].path) :
           /\ f[f[e].path[k]].live /\ Len(f[f[e].path[k]].path) = k - 1
           /\ \A j \in 1..(k - 1) : f[f[e].path[k]].path[j] = f[e].path[j]
  BY <1>1 DEF Rooted
<1>3. ASSUME NEW k \in 1..Len(g[e].path)
      PROVE  /\ g[g[e].path[k]].live /\ Len(g[g[e].path[k]].path) = k - 1
             /\ \A j \in 1..(k - 1) : g[g[e].path[k]].path[j] = g[e].path[j]
  <2> DEFINE y == f[e].path[k]
  <2>1. k \in 1..Len(f[e].path) /\ g[e].path[k] = y /\ y \in Dept
    BY <1>1
  <2>2. g[y].live = f[y].live /\ g[y].path = f[y].path
    BY <1>1, <2>1
  <2>3. f[y].live /\ Len(f[y].path) = k - 1 /\ \A j \in 1..(k - 1) : f[y].path[j] = f[e].path[j]
    BY <1>2, <2>1
  <2> HIDE DEF y
  <2> QED BY <1>1, <2>1, <2>2, <2>3
<1> QED BY <1>1, <1>2, <1>3

\* A change of status moves nothing.
LEMMA StatusCommits ==
    ASSUME NEW r, Committing(r), r.op = "status", UNCHANGED <<s2, s3>>,
           s1' = [s1 EXCEPT ![r.d].on = ~s1[r.d].on]
    PROVE  Committed(r)
<1>1. /\ s1 \in [Dept -> DeptRows] /\ r.d \in Dept /\ Rooted(s1) /\ r.d \in r.depts
      /\ s1'[r.d] = [s1[r.d] EXCEPT !.on = ~s1[r.d].on] /\ \A x \in Dept \ {r.d} : s1'[x] = s1[x]
  BY DEF Committing, DeptState, WriteInv
<1>2. /\ s1'[r.d].live = s1[r.d].live /\ s1'[r.d].parent = s1[r.d].parent /\ s1'[r.d].path = s1[r.d].path
      /\ s1'[r.d] \in DeptRows
  <2>1. s1[r.d] \in DeptRows
    BY <1>1
  <2> QED BY <1>1, <2>1 DEF DeptRows
<1>3. \A x \in Dept : s1'[x].live = s1[x].live /\ s1'[x].parent = s1[x].parent /\ s1'[x].path = s1[x].path
  BY <1>1, <1>2
<1>4. s1' \in [Dept -> DeptRows]
  BY <1>1, <1>2 DEF Committing, DeptState
<1>5. Rooted(s1')
  <2> DEFINE none == {x \in Dept : FALSE}
             g == s1'
  <2>1. none \in SUBSET Dept /\ \A x : x \notin none
    OBVIOUS
  <2>2. \A x \in Dept : g[x].live = s1[x].live /\ g[x].parent = s1[x].parent /\ g[x].path = s1[x].path
    BY <1>3
  <2>3. /\ \A x \in Dept \ none : g[x].live = s1[x].live /\ g[x].parent = s1[x].parent /\ g[x].path = s1[x].path
        /\ \A x \in none : ~g[x].live
        /\ \A e \in Dept \ none : s1[e].live => \A k \in 1..Len(s1[e].path) : s1[e].path[k] \notin none
    BY <2>1, <2>2
  <2> HIDE DEF none, g
  <2>4. Rooted(g)
    BY <1>1, <2>1, <2>3, RootedKept
  <2> QED BY <2>4 DEF g
<1>6. \A h \in Dept : Departments!Under(s1', h) = Departments!Under(s1, h)
  BY <1>3 DEF Departments!Under
<1>7. \A x \in Dept : Departments!Children(x)' = Departments!Children(x)
  BY <1>3 DEF Departments!Children, Departments!Live
<1>8. ASSUME NEW u \in DeptManagers PROVE Departments!Scope(u) \ r.depts \subseteq Departments!Scope(u)'
  <2>1. s2'[u] = s2[u] /\ s2[u] \in SUBSET Dept
    BY DEF Committing, DeptState
  <2> QED BY <1>6, <2>1, ScopeGrows
<1>9. DeptEffect(r.depts, r.roles)
  BY <1>1, <1>6, <1>7, <1>8 DEF DeptEffect
<1>10. DeptState(s1', s2', s3')
  BY <1>3, <1>4, <1>5 DEF Committing, DeptState
<1> QED BY <1>3, <1>9, <1>10 DEF Committed

\* A department without children has nobody below it.
LEMMA NobodyBelow ==
    ASSUME s1 \in [Dept -> DeptRows], Rooted(s1), NEW d \in Dept, Departments!Children(d) = {},
           NEW e \in Dept, s1[e].live, NEW k \in 1..Len(s1[e].path)
    PROVE  s1[e].path[k] # d
<1> SUFFICES ASSUME s1[e].path[k] = d PROVE FALSE
  OBVIOUS
<1>1. s1[e].path \in Seq(Dept) /\ Len(s1[e].path) \in Nat
  BY DEF DeptRows
<1>2. CASE k = Len(s1[e].path)
  <2>1. s1[e].parent = d
    BY <1>1, <1>2 DEF Rooted
  <2> QED BY <2>1 DEF Departments!Children, Departments!Live
<1>3. CASE k # Len(s1[e].path)
  <2> DEFINE y == s1[e].path[k + 1]
  <2>1. k + 1 \in 1..Len(s1[e].path) /\ k \in 1..((k + 1) - 1) /\ (k + 1) - 1 = k
    BY <1>1, <1>3
  <2>2. y \in Dept /\ s1[y].live /\ Len(s1[y].path) = k /\ s1[y].path[k] = s1[e].path[k]
    BY <2>1, PlaceOf
  <2> HIDE DEF y
  <2>3. s1[y].parent = d
    BY <2>1, <2>2 DEF Rooted
  <2> QED BY <2>2, <2>3 DEF Departments!Children, Departments!Live
<1> QED BY <1>2, <1>3

\* A deletion takes one department to which nothing refers.
LEMMA DeleteCommits ==
    ASSUME NEW r, Committing(r), r.op = "delete", s1' = [s1 EXCEPT ![r.d] = Departments!Deleted],
           s2' = [u \in Departments!Managers |-> s2[u] \ {r.d}], s3' = s3 \ {r.d}
    PROVE  Committed(r)
<1> DEFINE d == r.d
<1>1. /\ s1 \in [Dept -> DeptRows] /\ d \in Dept /\ Rooted(s1) /\ d \in r.depts
      /\ Departments!Children(d) = {} /\ Departments!MembersOf({d}) = {}
  BY DEF Committing, DeptState, WriteInv, Departments!Unreferenced
<1>2. /\ s1'[d] = Departments!Deleted /\ \A x \in Dept \ {d} : s1'[x] = s1[x]
      /\ Departments!Deleted \in DeptRows /\ ~Departments!Deleted.live
  <2>1. Departments!Deleted = [live |-> FALSE, parent |-> 0, path |-> <<>>, on |-> TRUE]
    <3> DEFINE n == Departments!NoDept
    <3>1. n = [live |-> FALSE, parent |-> 0, path |-> <<>>, on |-> FALSE]
      BY DEF Departments!NoDept, Departments!Nil
    <3>2. Departments!Deleted = [n EXCEPT !.on = TRUE]
      BY DEF Departments!Deleted
    <3> HIDE DEF n
    <3> QED BY <3>1, <3>2
  <2> QED BY <1>1, <2>1 DEF DeptRows
<1>3. \A u \in DeptManagers : d \notin s2[u] /\ s2'[u] = s2[u]
  <2>1. \A u \in DeptManagers : d \notin s2[u]
    BY <1>1 DEF Departments!MembersOf, Departments!Managers, DeptManagers
  <2> QED BY <2>1 DEF Departments!Managers, DeptManagers
<1>4. \A e \in Dept : s1[e].live => \A k \in 1..Len(s1[e].path) : s1[e].path[k] # d
  BY <1>1, NobodyBelow
<1>5. s1' \in [Dept -> DeptRows]
  BY <1>1, <1>2
<1>6. Rooted(s1')
  <2> DEFINE g == s1'
             gone == {d}
  <2>1. /\ gone \in SUBSET Dept /\ \A x \in gone : ~g[x].live
        /\ \A x \in Dept \ gone : g[x].live = s1[x].live /\ g[x].parent = s1[x].parent /\ g[x].path = s1[x].path
        /\ \A e \in Dept \ gone : s1[e].live => \A k \in 1..Len(s1[e].path) : s1[e].path[k] \notin gone
    BY <1>1, <1>2, <1>4
  <2> HIDE DEF g, gone
  <2>2. Rooted(g)
    BY <1>1, <2>1, RootedKept
  <2> QED BY <2>2 DEF g
<1> HIDE DEF d
<1>7. ASSUME NEW h \in Dept, h # d
      PROVE  /\ Departments!Under(s1', h) \subseteq Departments!Under(s1, h)
             /\ Departments!Under(s1, h) \ {d} \subseteq Departments!Under(s1', h)
  BY <1>2, <1>7 DEF Departments!Under
<1>8. \A x \in Dept : Departments!Children(x)' \subseteq Departments!Children(x)
  BY <1>2 DEF Departments!Children, Departments!Live
<1>9. ASSUME NEW u \in DeptManagers PROVE Departments!Scope(u) \ r.depts \subseteq Departments!Scope(u)'
  <2>1. s2'[u] = s2[u] /\ s2[u] \in SUBSET Dept /\ d \notin s2[u]
    BY <1>3 DEF Committing, DeptState
  <2>2. \A h \in s2[u] : Departments!Under(s1, h) \ r.depts \subseteq Departments!Under(s1', h)
    BY <1>1, <1>7, <2>1
  <2> QED BY <2>1, <2>2, ScopeGrows
<1>10. DeptEffect(r.depts, r.roles)
  <2>1. ASSUME NEW x \in Dept, x \notin r.depts
        PROVE  /\ s1'[x] = s1[x] /\ Departments!Under(s1', x) \subseteq Departments!Under(s1, x)
               /\ Departments!Under(s1, x) \ r.depts \subseteq Departments!Under(s1', x)
               /\ Departments!Children(x) = {} => Departments!Children(x)' = {}
    BY <1>1, <1>2, <1>7, <1>8, <2>1
  <2>2. \A x : x \in s3' => x \in s3
    OBVIOUS
  <2> QED BY <1>3, <1>9, <2>1, <2>2 DEF DeptEffect
<1>11. DeptState(s1', s2', s3')
  <2>1. s2' \in [DeptManagers -> SUBSET Dept] /\ s3' \subseteq Dept
    BY DEF Committing, DeptState, Departments!Managers, DeptManagers
  <2>2. \A u \in DeptManagers : \A x \in s2'[u] : s1'[x].live
    BY <1>2, <1>3 DEF Committing, DeptState
  <2> QED BY <1>5, <1>6, <2>1, <2>2 DEF DeptState
<1>12. \A x \in Dept : s1'[x].live => s1[x].live
  BY <1>2
<1> QED BY <1>10, <1>11, <1>12 DEF Committed

\* Memberships change for accounts whose scopes are held.
LEMMA HomesCommit ==
    ASSUME NEW r, Committing(r), r.op \in {"join", "members"}, UNCHANGED <<s1, s3>>,
           s2' = Departments!HomeAfter(r)
    PROVE  Committed(r)
<1>1. /\ DeptState(s1, s2, s3) /\ r.d \in Dept /\ s1[r.d].live /\ r.who \subseteq DeptManagers
      /\ Departments!Affected(r) \subseteq r.roles /\ Departments!ImpactDepts(r) \subseteq r.depts
  BY DEF Committing, WriteInv, ImpactInv
<1>2. s2' = [u \in DeptManagers |->
               IF r.op = "join" THEN (IF u \in r.who THEN {r.d} ELSE s2[u])
               ELSE IF u \in r.who THEN s2[u] \cup {r.d} ELSE s2[u] \ {r.d}]
  BY DEF Departments!HomeAfter, Departments!Regrouped, Departments!Managers, DeptManagers
<1>3. ASSUME NEW u \in DeptManagers
      PROVE  /\ s2'[u] \in SUBSET Dept /\ \A x \in s2'[u] : s1[x].live
             /\ u \notin Departments!Affected(r) => s2'[u] = s2[u]
  <2>1. s2'[u] \in {{r.d}, s2[u], s2[u] \cup {r.d}, s2[u] \ {r.d}}
    BY <1>2
  <2>2. s2[u] \in SUBSET Dept /\ \A x \in s2[u] : s1[x].live
    BY <1>1 DEF DeptState
  <2>3. u \notin Departments!Affected(r) => s2'[u] = s2[u]
    <3>1. r.op = "join" => Departments!Affected(r) = r.who
      BY DEF Departments!Affected
    <3>2. r.op = "members" => Departments!Affected(r) = {v \in DeptManagers : s2'[v] # s2[v]}
      BY DEF Departments!Affected, Departments!Managers, DeptManagers
    <3> QED BY <1>2, <3>1, <3>2
  <2> QED BY <1>1, <2>1, <2>2, <2>3
<1>4. ASSUME NEW u \in Departments!Affected(r) PROVE s2[u] \subseteq r.depts /\ s2'[u] \subseteq r.depts
  <2>1. Departments!Impact(r)[u].before \subseteq r.depts /\ Departments!Impact(r)[u].after \subseteq r.depts
    BY <1>1, <1>4 DEF Departments!ImpactDepts
  <2>2. /\ Departments!Impact(r)[u].before = Departments!ScopeIn(s1, s2[u])
        /\ Departments!Impact(r)[u].after = Departments!ScopeIn(Departments!TreeAfter(r), Departments!HomeAfter(r)[u])
    BY <1>4, AfterIs
  <2>3. \A f, D : D \subseteq Departments!ScopeIn(f, D)
    BY DEF Departments!ScopeIn, Departments!Under
  <2> QED BY <2>1, <2>2, <2>3
<1>5. ASSUME NEW u \in DeptManagers \ r.roles
      PROVE  s2'[u] = s2[u] /\ Departments!Scope(u) \ r.depts \subseteq Departments!Scope(u)'
  <2>1. s2'[u] = s2[u]
    BY <1>1, <1>3
  <2> QED BY <2>1, ScopeGrows
<1>6. \A x \in Dept \ r.depts : \A u \in DeptManagers : x \in s2'[u] <=> x \in s2[u]
  BY <1>3, <1>4
<1>7. \A x : Departments!Children(x)' = Departments!Children(x)
  BY DEF Departments!Children, Departments!Live
<1>8. DeptEffect(r.depts, r.roles)
  BY <1>5, <1>6, <1>7 DEF DeptEffect
<1>9. DeptState(s1', s2', s3')
  <2>1. s2' \in [DeptManagers -> SUBSET Dept]
    BY <1>2, <1>3
  <2> QED BY <1>1, <1>3, <2>1 DEF DeptState
<1> QED BY <1>8, <1>9 DEF Committed

\* The CUSTOM role gains or loses the department that is held.
LEMMA CustomCommits ==
    ASSUME NEW r, Committing(r), r.op = "custom", UNCHANGED <<s1, s2>>,
           s3' = IF r.d \in s3 THEN s3 \ {r.d} ELSE s3 \cup {r.d}
    PROVE  Committed(r)
<1>1. r.d \in r.depts /\ r.d \in Dept /\ DeptState(s1, s2, s3)
  BY DEF Committing, WriteInv
<1>2. ASSUME NEW u \in DeptManagers PROVE Departments!Scope(u) \ r.depts \subseteq Departments!Scope(u)'
  BY ScopeGrows
<1>3. \A x : Departments!Children(x)' = Departments!Children(x)
  BY DEF Departments!Children, Departments!Live
<1>4. \A x \in Dept \ r.depts : x \in s3' => x \in s3
  BY <1>1
<1>5. DeptEffect(r.depts, r.roles)
  BY <1>2, <1>3, <1>4 DEF DeptEffect
<1>6. DeptState(s1', s2', s3')
  BY <1>1 DEF DeptState
<1> QED BY <1>5, <1>6 DEF Committed

\* A move changes what its request holds.
LEMMA MoveCommits ==
    ASSUME NEW r, Committing(r), r.op = "move", UNCHANGED <<s2, s3>>, s1' = Departments!Moved(r.d, r.p)
    PROVE  Committed(r)
<1> DEFINE d == r.d
           p == r.p
           g == Departments!Moved(d, p)
           P == Departments!PathBelow(p)
<1>1. /\ s1 \in [Dept -> DeptRows] /\ d \in Dept /\ p \in Dept \cup {0} /\ Rooted(s1) /\ s1[d].live
      /\ p # 0 => s1[p].live
      /\ d \notin Departments!AtOrAbove(p)
      /\ Departments!AtOrAbove(s1[d].parent) \cup Departments!AtOrAbove(p) \subseteq r.depts
      /\ Departments!Under(s1, d) \subseteq r.depts /\ Departments!Affected(r) \subseteq r.roles
  BY DEF Committing, DeptState, WriteInv, ImpactInv, Departments!Anchors
<1>2. \A e \in Dept : MovedRow(d, p, e, g[e], P)
  BY <1>1, MovedIs, Zenon
<1>3. g = [e \in Dept |-> g[e]]
  BY Zenon DEF Departments!Moved
<1>4. Rooted(g)
  BY <1>1, MovedRooted
<1>5. \A h \in Dept : h \notin Departments!AtOrAbove(s1[d].parent) /\ h \notin Departments!AtOrAbove(p)
         => Departments!Under(g, h) = Departments!Under(s1, h)
  BY <1>1, MoveSpares
<1> HIDE DEF d, p, g, P
<1>6. s1' = g
  BY DEF g, d, p
<1>7. g \in [Dept -> DeptRows] /\ \A e \in Dept : g[e].live = s1[e].live
  BY <1>2, <1>3 DEF MovedRow
<1>8. \A x \in Dept : x \notin r.depts => g[x] = s1[x]
  BY <1>1, <1>2 DEF MovedRow
<1>9. \A x \in Dept : x \notin r.depts => Departments!Under(g, x) = Departments!Under(s1, x)
  BY <1>1, <1>5
<1>10. ASSUME NEW x \in Dept, x \notin r.depts PROVE Departments!Children(x)' \subseteq Departments!Children(x)
  <2>1. p # x
    <3>1. p # 0 => p \in Departments!AtOrAbove(p)
      BY DEF Departments!AtOrAbove, Departments!Nil
    <3> QED BY <1>1, <1>10, <3>1, DeptBounds
  <2>2. \A e \in Dept : g[e].parent = s1[e].parent \/ g[e].parent = p
    BY <1>2 DEF MovedRow
  <2> QED BY <1>6, <1>7, <2>1, <2>2 DEF Departments!Children, Departments!Live
<1>11. ASSUME NEW u \in DeptManagers \ r.roles PROVE Departments!Scope(u) \ r.depts \subseteq Departments!Scope(u)'
  <2>1. s2'[u] = s2[u] /\ s2[u] \in SUBSET Dept
    BY DEF Committing, DeptState
  <2>2. u \notin Departments!Affected(r)
    BY <1>1
  <2>3. \A h \in s2[u] : h \notin Departments!AtOrAbove(s1[d].parent) /\ h \notin Departments!AtOrAbove(p)
    BY <2>2 DEF Departments!Affected, Departments!MembersOf, Departments!Anchors, Departments!Managers, DeptManagers, d, p
  <2>4. \A h \in s2[u] : Departments!Under(s1, h) \ r.depts \subseteq Departments!Under(s1', h)
    BY <1>5, <1>6, <2>1, <2>3
  <2> QED BY <2>1, <2>4, ScopeGrows
<1>12. DeptEffect(r.depts, r.roles)
  BY <1>6, <1>8, <1>9, <1>10, <1>11 DEF DeptEffect
<1>13. DeptState(s1', s2', s3')
  <2>1. \A u \in DeptManagers : \A x \in s2[u] : x \in Dept /\ g[x].live
    BY <1>7 DEF Committing, DeptState
  <2> QED BY <1>4, <1>6, <1>7, <2>1 DEF Committing, DeptState
<1> QED BY <1>6, <1>7, <1>12, <1>13 DEF Committed

-----------------------------------------------------------------------------
(* Departments: steps *)

\* A request at rest asks for nothing.
LEMMA RestIs ==
    /\ Departments!NoTx.at = "idle" /\ Departments!NoTx.op = "none"
    /\ DOMAIN Departments!NoTx = {"at", "op", "by", "d", "p", "who", "seen", "roles", "depts", "users"}
  BY DEF Departments!NoTx

\* A request with the right to commit does, and the tree stands.
LEMMA CommitIs ==
    ASSUME DeptInv, NEW t \in Request, Departments!Commit(t), NEW r, r = s4[t]
    PROVE  Committing(r) /\ Committed(r)
<1>1. r.at = "write" /\ AskInv(t) /\ WriteInv(r) /\ DeptTypes /\ Rooted(s1)
  BY DEF DeptInv, Departments!Commit
<1>2. Committing(r)
  <2>1. /\ r.op \in DeptOps /\ r.d \in Dept /\ r.p \in Dept \cup {0} /\ r.who \subseteq DeptManagers
        /\ r.op = "create" => ~s1[r.d].live
    BY <1>1 DEF AskInv
  <2>2. DeptState(s1, s2, s3)
    BY <1>1 DEF DeptInv, DeptState, DeptTypes, Departments!Live
  <2> QED BY <1>1, <2>1, <2>2 DEF Committing
<1>3. \/ /\ r.op = "create" /\ UNCHANGED <<s2, s3>>
         /\ s1' = [s1 EXCEPT ![r.d] = [live |-> TRUE, parent |-> r.p, path |-> Departments!PathBelow(r.p), on |-> TRUE]]
      \/ r.op = "move" /\ UNCHANGED <<s2, s3>> /\ s1' = Departments!Moved(r.d, r.p)
      \/ r.op = "status" /\ UNCHANGED <<s2, s3>> /\ s1' = [s1 EXCEPT ![r.d].on = ~s1[r.d].on]
      \/ /\ r.op = "delete" /\ s1' = [s1 EXCEPT ![r.d] = Departments!Deleted]
         /\ s2' = [u \in Departments!Managers |-> s2[u] \ {r.d}] /\ s3' = s3 \ {r.d}
      \/ r.op \in {"join", "members"} /\ UNCHANGED <<s1, s3>> /\ s2' = Departments!HomeAfter(r)
      \/ r.op = "custom" /\ UNCHANGED <<s1, s2>> /\ s3' = IF r.d \in s3 THEN s3 \ {r.d} ELSE s3 \cup {r.d}
  BY DEF Departments!Commit, Departments!Insert, Departments!Reparent, Departments!SwitchStatus,
         Departments!Delete, Departments!ReplaceHomes, Departments!ReplaceRoleDepts
<1> QED BY <1>2, <1>3, CreateCommits, MoveCommits, StatusCommits, DeleteCommits, HomesCommit, CustomCommits

\* What another request finds after a commit.
LEMMA OthersKept ==
    ASSUME DeptInv, NEW t \in Request, Departments!Commit(t), NEW q \in Request, q # t,
           NEW r, r = s4[t], NEW x, x = s4[q], s4[q].at = "write", Committed(r)
    PROVE  WriteInv(x)'
<1>1. /\ r.at = "write" /\ x.at = "write" /\ AskInv(q) /\ WriteInv(x) /\ DeptTypes /\ Rooted(s1)
      /\ r.roles \cap x.roles = {} /\ r.depts \cap x.depts = {}
      /\ \A u \in DeptManagers : s2[u] \subseteq Departments!Live
  BY DEF DeptInv, Departments!Commit, RowsApart, DeptHolders
<1>2. /\ x.op \in DeptOps /\ x.by \in Departments!Actors /\ x.d \in Dept /\ x.p \in Dept \cup {0}
      /\ x.who \subseteq DeptManagers /\ x.by \in x.roles
  BY <1>1 DEF AskInv
<1>3. /\ s1 \in [Dept -> DeptRows] /\ s2 \in [DeptManagers -> SUBSET Dept]
      /\ s1' \in [Dept -> DeptRows] /\ s2' \in [DeptManagers -> SUBSET Dept]
      /\ DeptEffect(r.depts, r.roles)
  BY <1>1 DEF DeptTypes, Committed, DeptState
<1>4. Beside(x, r.depts, r.roles)
  BY <1>1, <1>2, <1>3 DEF Beside
<1> QED BY <1>4, WriteKept

\* The commit of any request.
LEMMA DeptCommits ==
    ASSUME DeptInv, NEW t \in Request, Departments!Commit(t)
    PROVE  DeptInv'
<1>1. PICK r : r = s4[t]
  OBVIOUS
<1>2. Committed(r) /\ Committing(r)
  BY <1>1, CommitIs
<1>3. /\ DeptTypes /\ Rooted(s1) /\ RowsApart /\ \A q \in Request : AskInv(q)
      /\ s4' = [s4 EXCEPT ![t] = Departments!NoTx]
  BY DEF DeptInv, Departments!Commit, Departments!Idle
<1>4. s4'[t] = Departments!NoTx /\ \A q \in Request \ {t} : s4'[q] = s4[q]
  BY <1>3 DEF DeptTypes
<1>5. DeptTypes'
  <2>1. s4' = [q \in Request |-> s4'[q]]
    BY <1>3 DEF DeptTypes
  <2>2. \A q \in Request : DOMAIN s4'[q] = DOMAIN Departments!NoTx
    BY <1>3, <1>4 DEF DeptTypes
  <2>3. s1' \in [Dept -> DeptRows] /\ s2' \in [DeptManagers -> SUBSET Dept] /\ s3' \subseteq Dept
    BY <1>2 DEF Committed, DeptState
  <2> QED BY <2>1, <2>2, <2>3 DEF DeptTypes, Departments!NoTx
<1>6. Rooted(s1)' /\ \A u \in DeptManagers : s2'[u] \subseteq Departments!Live'
  <2>1. Rooted(s1') /\ s2' \in [DeptManagers -> SUBSET Dept] /\ \A u \in DeptManagers : \A x \in s2'[u] : s1'[x].live
    BY <1>2 DEF Committed, DeptState
  <2> QED BY <2>1 DEF Departments!Live, Rooted
<1>7. RowsApart'
  BY <1>3, <1>4, RestIs DEF RowsApart, DeptHolders
<1>8. ASSUME NEW q \in Request PROVE AskInv(q)'
  <2>1. CASE q = t
    BY <1>4, <2>1, RestIs DEF AskInv
  <2>2. CASE q # t /\ s4[q].at # "idle"
    <3>1. s4'[q] = s4[q] /\ AskInv(q)
      BY <1>3, <1>4, <2>2
    <3>2. ASSUME s4[q].op = "create"
          PROVE  /\ ~s1'[s4[q].d].live
                 /\ \A p \in Request : s4'[p].op = "create" /\ s4'[p].d = s4[q].d => p = q
      <4>1. /\ s4[q].d \in Dept /\ ~s1[s4[q].d].live
            /\ \A p \in Request : s4[p].op = "create" /\ s4[p].d = s4[q].d => p = q
        BY <2>2, <3>1, <3>2 DEF AskInv
      <4>2. s1'[s4[q].d].live => r.op = "create" /\ s4[q].d = r.d
        BY <1>2, <4>1 DEF Committed
      <4>3. ~s1'[s4[q].d].live
        BY <1>1, <2>2, <4>1, <4>2
      <4>4. ASSUME NEW p \in Request, s4'[p].op = "create", s4'[p].d = s4[q].d PROVE p = q
        <5>1. p # t /\ s4'[p] = s4[p]
          BY <1>4, <4>4, RestIs
        <5> QED BY <4>1, <4>4, <5>1
      <4> QED BY <4>3, <4>4
    <3> QED BY <2>2, <3>1, <3>2 DEF AskInv
  <2>3. CASE q # t /\ s4[q].at = "idle"
    BY <1>4, <2>3 DEF AskInv
  <2> QED BY <2>1, <2>2, <2>3
<1>9. ASSUME NEW x \in {s4'[q] : q \in Request} PROVE WriteInv(x)'
  <2>1. PICK q \in Request : x = s4'[q]
    BY <1>9
  <2>2. CASE x.at # "write"
    BY <2>2 DEF WriteInv
  <2>3. CASE x.at = "write"
    <3>1. q # t /\ x = s4[q] /\ s4[q].at = "write"
      BY <1>4, <2>1, <2>3, RestIs
    <3> QED BY <1>1, <1>2, <3>1, OthersKept
  <2> QED BY <2>2, <2>3
<1> QED BY <1>5, <1>6, <1>7, <1>8, <1>9 DEF DeptInv

-----------------------------------------------------------------------------
(* Departments: requests *)

\* Requests that ask the same of the same departments affect the same.
LEMMA SameAsked ==
    ASSUME NEW r, NEW x, x.op = r.op, x.by = r.by, x.d = r.d, x.p = r.p, x.who = r.who
    PROVE  /\ Departments!Affected(x) = Departments!Affected(r) /\ Departments!Impact(x) = Departments!Impact(r)
           /\ Departments!ImpactDepts(x) = Departments!ImpactDepts(r)
           /\ Departments!Anchors(x) = Departments!Anchors(r)
           /\ Departments!RolesToLock(x) = Departments!RolesToLock(r)
           /\ Departments!DeptsToLock(x) = Departments!DeptsToLock(r)
<1>1. Departments!HomeAfter(x) = Departments!HomeAfter(r) /\ Departments!TreeAfter(x) = Departments!TreeAfter(r)
  BY DEF Departments!HomeAfter, Departments!TreeAfter
<1>2. Departments!Anchors(x) = Departments!Anchors(r)
  BY DEF Departments!Anchors
<1>3. Departments!Affected(x) = Departments!Affected(r)
  BY <1>1, <1>2 DEF Departments!Affected
<1>4. Departments!Impact(x) = Departments!Impact(r)
  BY <1>1, <1>3 DEF Departments!Impact
<1>5. Departments!ImpactDepts(x) = Departments!ImpactDepts(r)
  BY <1>3, <1>4 DEF Departments!ImpactDepts
<1>6. Departments!RolesToLock(x) = Departments!RolesToLock(r)
  BY <1>3 DEF Departments!RolesToLock
<1>7. Departments!DeptsToLock(x) = Departments!DeptsToLock(r)
  BY <1>2, <1>3, <1>5 DEF Departments!DeptsToLock
<1> QED BY <1>2, <1>3, <1>4, <1>5, <1>6, <1>7

\* While the tables stay, so does what a request may write.
LEMMA TablesKeep ==
    ASSUME UNCHANGED <<s1, s2, s3>>, NEW r, WriteInv(r)
    PROVE  WriteInv(r)'
<1>1. \A p : Departments!AtOrAbove(p)' = Departments!AtOrAbove(p)
  BY DEF Departments!AtOrAbove, Departments!Above
<1>2. Departments!HomeAfter(r)' = Departments!HomeAfter(r)
  BY Zenon DEF Departments!HomeAfter, Departments!Regrouped
<1>3. Departments!TreeAfter(r)' = Departments!TreeAfter(r)
  <2>1. \A p : Departments!PathBelow(p)' = Departments!PathBelow(p)
    BY DEF Departments!PathBelow
  <2> QED BY <2>1, Zenon DEF Departments!TreeAfter, Departments!Moved
<1>4. Departments!Anchors(r)' = Departments!Anchors(r)
  BY <1>1 DEF Departments!Anchors
<1>5. \A ds : Departments!MembersOf(ds)' = Departments!MembersOf(ds)
  BY DEF Departments!MembersOf
<1>6. Departments!Affected(r)' = Departments!Affected(r)
  BY <1>2, <1>4, <1>5 DEF Departments!Affected
<1>7. \A u : Departments!Scope(u)' = Departments!Scope(u)
  BY DEF Departments!Scope
<1>8. Departments!Impact(r)' = Departments!Impact(r)
  BY <1>2, <1>3, <1>6, <1>7 DEF Departments!Impact
<1>9. Departments!ImpactDepts(r)' = Departments!ImpactDepts(r)
  BY <1>6, <1>8 DEF Departments!ImpactDepts
<1>10. Departments!Unreferenced(r.d)' = Departments!Unreferenced(r.d)
  BY <1>5 DEF Departments!Unreferenced, Departments!Children, Departments!Live
<1>11. ImpactInv(r)' = ImpactInv(r)
  BY <1>6, <1>7, <1>8, <1>9 DEF ImpactInv
<1>12. Departments!Under(s1', r.d) = Departments!Under(s1, r.d)
  OBVIOUS
<1> QED BY <1>1, <1>4, <1>8, <1>10, <1>11, <1>12 DEF WriteInv

\* The next place of a request among the others.
Fits(t, x) ==
    /\ DOMAIN x = DOMAIN Departments!NoTx /\ WriteInv(x)
    /\ x.at = "idle" => x.op # "create"
    /\ x.at # "idle" =>
         /\ x.op \in DeptOps /\ x.by \in Departments!Actors /\ x.d \in Dept /\ x.p \in Dept \cup {0}
         /\ x.who \subseteq DeptManagers /\ x.by \in x.roles
         /\ x.at = "card" => x.op \in {"create", "move", "status"}
         /\ x.op = "create" => ~s1[x.d].live /\ \A q \in Request : s4[q].op = "create" /\ s4[q].d = x.d => q = t
         /\ x.op = "join" => x.who \subseteq x.roles
         /\ x.op = "members" => DOMAIN x.seen[4] \subseteq x.roles
    /\ \A q \in Request \ {t} :
         /\ x.at \in DeptHolders /\ s4[q].at \in DeptHolders => x.roles \cap s4[q].roles = {}
         /\ x.at \in DeptHolders \ {"depts"} /\ s4[q].at \in DeptHolders \ {"depts"} => x.depts \cap s4[q].depts = {}

\* A request that goes to a place it fits.
LEMMA PlaceTaken ==
    ASSUME DeptInv, UNCHANGED <<s1, s2, s3>>, NEW t \in Request, NEW x, Fits(t, x), s4' = [s4 EXCEPT ![t] = x]
    PROVE  DeptInv'
<1>1. DeptTypes /\ Rooted(s1) /\ RowsApart /\ \A q \in Request : AskInv(q)
  BY DEF DeptInv
<1>2. s4'[t] = x /\ \A q \in Request \ {t} : s4'[q] = s4[q]
  BY <1>1 DEF DeptTypes
<1>3. DeptTypes'
  <2>1. s4' = [q \in Request |-> s4'[q]]
    BY <1>1 DEF DeptTypes
  <2>2. \A q \in Request : DOMAIN s4'[q] = DOMAIN Departments!NoTx
    BY <1>1, <1>2 DEF DeptTypes, Fits
  <2> QED BY <1>1, <2>1, <2>2 DEF DeptTypes, Departments!NoTx
<1>4. Rooted(s1)' /\ \A u \in DeptManagers : s2'[u] \subseteq Departments!Live'
  BY DEF DeptInv, Departments!Live, Rooted
<1>5. RowsApart'
  BY <1>1, <1>2 DEF RowsApart, Fits, DeptHolders
<1>6. ASSUME NEW q \in Request PROVE AskInv(q)'
  <2>1. CASE q = t
    <3>1. ASSUME x.op = "create", NEW p \in Request, s4'[p].op = "create", s4'[p].d = x.d, x.at # "idle" PROVE p = t
      BY <1>2, <3>1 DEF Fits
    <3> QED BY <1>2, <2>1, <3>1 DEF AskInv, Fits
  <2>2. CASE q # t /\ s4[q].at # "idle"
    <3>1. s4'[q] = s4[q] /\ AskInv(q)
      BY <1>1, <1>2, <2>2
    <3>2. ASSUME s4[q].op = "create", NEW p \in Request, s4'[p].op = "create", s4'[p].d = s4[q].d PROVE p = q
      <4>1. s4[q].d \in Dept /\ \A o \in Request : s4[o].op = "create" /\ s4[o].d = s4[q].d => o = q
        BY <2>2, <3>1, <3>2 DEF AskInv
      <4>2. CASE p = t
        <5>1. x.at # "idle" /\ x.op = "create" /\ x.d = s4[q].d
          BY <1>2, <3>2, <4>2 DEF Fits
        <5> QED BY <2>2, <3>2, <5>1 DEF Fits
      <4>3. CASE p # t
        BY <1>2, <3>2, <4>1, <4>3
      <4> QED BY <4>2, <4>3
    <3> QED BY <2>2, <3>1, <3>2 DEF AskInv
  <2>3. CASE q # t /\ s4[q].at = "idle"
    BY <1>2, <2>3 DEF AskInv
  <2> QED BY <2>1, <2>2, <2>3
<1>7. ASSUME NEW y \in {s4'[q] : q \in Request} PROVE WriteInv(y)'
  <2>1. PICK q \in Request : y = s4'[q]
    BY <1>7
  <2>2. WriteInv(y)
    <3>1. CASE q = t
      BY <1>2, <2>1, <3>1 DEF Fits
    <3>2. CASE q # t
      BY <1>2, <2>1, <3>2 DEF DeptInv
    <3> QED BY <3>1, <3>2
  <2> QED BY <2>2, TablesKeep
<1> QED BY <1>3, <1>4, <1>5, <1>6, <1>7 DEF DeptInv

\* A request at rest.
LEMMA RestFits ==
    ASSUME DeptInv, NEW t \in Request, Departments!Idle(t), Departments!Keep
    PROVE  DeptInv'
<1> DEFINE x == Departments!NoTx
<1>1. Fits(t, x)
  BY RestIs DEF Fits, WriteInv, DeptHolders
<1>2. s4' = [s4 EXCEPT ![t] = x] /\ UNCHANGED <<s1, s2, s3>>
  BY DEF Departments!Idle, Departments!Keep
<1> HIDE DEF x
<1> QED BY <1>1, <1>2, PlaceTaken

\* A request one place further.
LEMMA GotoFits ==
    ASSUME DeptInv, NEW t \in Request, NEW where, Departments!Goto(t, where), Departments!Keep,
           s4[t].at # "idle", where \in DeptHolders,
           NEW x, x = [s4[t] EXCEPT !.at = where], where = "write" => WriteInv(x),
           \A q \in Request \ {t} :
             /\ s4[q].at \in DeptHolders => s4[t].roles \cap s4[q].roles = {}
             /\ where # "depts" /\ s4[q].at \in DeptHolders \ {"depts"} => s4[t].depts \cap s4[q].depts = {}
    PROVE  DeptInv'
<1>1. DOMAIN s4[t] = DOMAIN Departments!NoTx /\ AskInv(t) /\ where # "idle" /\ where # "card"
  BY DEF DeptInv, DeptTypes, DeptHolders
<1>2. /\ x.at = where /\ x.op = s4[t].op /\ x.by = s4[t].by /\ x.d = s4[t].d /\ x.p = s4[t].p
      /\ x.who = s4[t].who /\ x.seen = s4[t].seen /\ x.roles = s4[t].roles /\ x.depts = s4[t].depts
      /\ DOMAIN x = DOMAIN Departments!NoTx
  BY <1>1, RestIs
<1>3. WriteInv(x)
  BY <1>2 DEF WriteInv
<1>4. Fits(t, x)
  BY <1>1, <1>2, <1>3 DEF Fits, AskInv
<1>5. s4' = [s4 EXCEPT ![t] = x] /\ UNCHANGED <<s1, s2, s3>>
  BY DEF Departments!Goto, Departments!Keep
<1> QED BY <1>4, <1>5, PlaceTaken

\* The locks on the roles.
LEMMA RolesAreLocked ==
    ASSUME DeptInv, NEW t \in Request, Departments!LockRoles(t)
    PROVE  DeptInv'
<1>1. PICK x : x = [s4[t] EXCEPT !.at = "depts"]
  OBVIOUS
<1>2. ASSUME NEW q \in Request \ {t}, s4[q].at \in DeptHolders PROVE s4[t].roles \cap s4[q].roles = {}
  <2>1. s4[q].roles \subseteq Departments!HeldRoles(t)
    BY <1>2 DEF Departments!HeldRoles, Departments!Holding, DeptHolders
  <2> QED BY <2>1 DEF Departments!LockRoles
<1> QED BY <1>1, <1>2, GotoFits DEF Departments!LockRoles, DeptHolders

\* The locks on the departments.
LEMMA DeptsAreLocked ==
    ASSUME DeptInv, NEW t \in Request, Departments!LockDepts(t)
    PROVE  DeptInv'
<1>1. PICK x : x = [s4[t] EXCEPT !.at = "users"]
  OBVIOUS
<1>2. ASSUME NEW q \in Request \ {t}, s4[q].at \in DeptHolders \ {"depts"} PROVE s4[t].depts \cap s4[q].depts = {}
  <2>1. s4[q].depts \subseteq Departments!HeldDepts(t)
    BY <1>2 DEF Departments!HeldDepts, Departments!Holding, DeptHolders
  <2> QED BY <2>1 DEF Departments!LockDepts
<1>3. \A q \in Request \ {t} : s4[q].at \in DeptHolders => s4[t].roles \cap s4[q].roles = {}
  BY DEF DeptInv, RowsApart, Departments!LockDepts, DeptHolders
<1>4. Departments!Goto(t, "users") => DeptInv'
  BY <1>1, <1>2, <1>3, GotoFits DEF Departments!LockDepts, DeptHolders
<1> QED BY <1>4, RestFits DEF Departments!LockDepts

\* The rows a request holds stay its own.
LEMMA HoldsOn ==
    ASSUME DeptInv, NEW t \in Request, s4[t].at \in {"users", "check"}
    PROVE  \A q \in Request \ {t} :
             /\ s4[q].at \in DeptHolders => s4[t].roles \cap s4[q].roles = {}
             /\ s4[q].at \in DeptHolders \ {"depts"} => s4[t].depts \cap s4[q].depts = {}
  BY DEF DeptInv, RowsApart, DeptHolders

\* The locks on the users.
LEMMA UsersAreLocked ==
    ASSUME DeptInv, NEW t \in Request, Departments!LockUsers(t)
    PROVE  DeptInv'
<1>1. PICK x : x = [s4[t] EXCEPT !.at = "check"]
  OBVIOUS
<1>2. \A q \in Request \ {t} :
        /\ s4[q].at \in DeptHolders => s4[t].roles \cap s4[q].roles = {}
        /\ s4[q].at \in DeptHolders \ {"depts"} => s4[t].depts \cap s4[q].depts = {}
  BY HoldsOn DEF Departments!LockUsers
<1> QED BY <1>1, <1>2, GotoFits DEF Departments!LockUsers, DeptHolders

\* What a request affects does not depend on where it stands.
LEMMA WriterIs ==
    ASSUME NEW r, DOMAIN r = DOMAIN Departments!NoTx, NEW x, x = [r EXCEPT !.at = "write"]
    PROVE  /\ x.at = "write" /\ x.op = r.op /\ x.by = r.by /\ x.d = r.d /\ x.p = r.p /\ x.who = r.who
           /\ x.seen = r.seen /\ x.roles = r.roles /\ x.depts = r.depts
           /\ Departments!Affected(x) = Departments!Affected(r) /\ Departments!Impact(x) = Departments!Impact(r)
           /\ Departments!ImpactDepts(x) = Departments!ImpactDepts(r)
           /\ Departments!Anchors(x) = Departments!Anchors(r)
<1>1. /\ x.at = "write" /\ x.op = r.op /\ x.by = r.by /\ x.d = r.d /\ x.p = r.p /\ x.who = r.who
      /\ x.seen = r.seen /\ x.roles = r.roles /\ x.depts = r.depts
  BY RestIs
<1>2. x.op = r.op /\ x.by = r.by /\ x.d = r.d /\ x.p = r.p /\ x.who = r.who
  BY <1>1
<1>3. /\ Departments!Affected(x) = Departments!Affected(r) /\ Departments!Impact(x) = Departments!Impact(r)
      /\ Departments!ImpactDepts(x) = Departments!ImpactDepts(r)
      /\ Departments!Anchors(x) = Departments!Anchors(r)
  BY <1>2, SameAsked, Zenon
<1> QED BY <1>1, <1>3

\* What the second evaluation finds right is right to write.
LEMMA SecondLook ==
    ASSUME DeptInv, NEW t \in Request, s4[t].at = "check", NEW r, r = s4[t], Departments!Unchanged(r),
           NEW x, x = [r EXCEPT !.at = "write"]
    PROVE  WriteInv(x)
<1>1. /\ r.op \in DeptOps /\ r.by \in Departments!Actors /\ r.d \in Dept /\ r.p \in Dept \cup {0}
      /\ r.who \subseteq DeptManagers /\ DOMAIN r = DOMAIN Departments!NoTx
      /\ r.op = "join" => r.who \subseteq r.roles
      /\ r.op = "members" => DOMAIN r.seen[4] \subseteq r.roles
  BY DEF DeptInv, AskInv, DeptTypes
<1>2. /\ x.at = "write" /\ x.op = r.op /\ x.by = r.by /\ x.d = r.d /\ x.p = r.p /\ x.who = r.who
      /\ x.seen = r.seen /\ x.roles = r.roles /\ x.depts = r.depts
  BY <1>1, WriterIs
<1>3. /\ Departments!Affected(x) = Departments!Affected(r) /\ Departments!Impact(x) = Departments!Impact(r)
      /\ Departments!ImpactDepts(x) = Departments!ImpactDepts(r)
      /\ Departments!Anchors(x) = Departments!Anchors(r)
  BY <1>1, WriterIs
<1>4. Departments!Allowed(r) /\ Departments!Facts(r) = r.seen
  BY DEF Departments!Unchanged
<1>5. Departments!DeptsToLock(r) \subseteq r.depts
  <2>1. CASE r.op \in {"join", "members"}
    BY <2>1 DEF Departments!Unchanged
  <2>2. CASE r.op \notin {"join", "members"}
    <3>1. r = Departments!Locks(r)
      BY <2>2 DEF Departments!Unchanged
    <3>2. r.depts = Departments!DeptsToLock(r)
      BY <1>1, <3>1, RestIs DEF Departments!Locks
    <3> QED BY <3>2
  <2> QED BY <2>1, <2>2
<1>6. r.op = "create" => /\ r.p # 0 => s1[r.p].live
                         /\ Departments!AtOrAbove(r.p) \subseteq r.depts
  BY <1>4, <1>5 DEF Departments!Allowed, Departments!CreateAllowed, Departments!DeptsToLock, Departments!Nil
<1>7. r.op # "create" => r.d \in r.depts /\ s1[r.d].live
  <2>1. r.d # 0 /\ r.d \in Departments!AtOrAbove(r.d) /\ r.d \in Departments!Under(s1, r.d)
    BY <1>1, DeptBounds DEF Departments!AtOrAbove, Departments!Nil, Departments!Under
  <2>2. r.op # "create" => r.d \in Departments!DeptsToLock(r)
    BY <1>1, <2>1 DEF Departments!DeptsToLock, DeptOps
  <2>3. r.op # "create" => s1[r.d].live
    BY <1>1, <1>4 DEF Departments!Allowed, DeptOps, Departments!MoveAllowed, Departments!StatusAllowed,
       Departments!JoinAllowed, Departments!MembersAllowed
  <2> QED BY <1>5, <2>2, <2>3
<1>8. r.op = "delete" => Departments!Unreferenced(r.d)
  BY DEF Departments!Unchanged
<1>9. r.op = "move" => /\ r.p # 0 => s1[r.p].live
                       /\ r.d \notin Departments!AtOrAbove(r.p)
                       /\ Departments!Anchors(r) \cup Departments!Under(s1, r.d) \subseteq r.depts
                       /\ r.seen[4] = Departments!Impact(r)
  <2> SUFFICES ASSUME r.op = "move"
               PROVE  /\ r.p # 0 => s1[r.p].live
                      /\ r.d \notin Departments!AtOrAbove(r.p)
                      /\ Departments!Anchors(r) \cup Departments!Under(s1, r.d) \subseteq r.depts
                      /\ r.seen[4] = Departments!Impact(r)
    OBVIOUS
  <2>1. (r.p # 0 => s1[r.p].live) /\ r.d \notin Departments!AtOrAbove(r.p)
    BY <1>4 DEF Departments!Allowed, Departments!MoveAllowed, Departments!Nil, Departments!AtOrAbove
  <2>2. Departments!Anchors(r) \cup Departments!Under(s1, r.d) \subseteq r.depts
    BY <1>5 DEF Departments!DeptsToLock
  <2>3. r.seen[4] = Departments!Impact(r)
    BY <1>4 DEF Departments!Facts
  <2> QED BY <2>1, <2>2, <2>3
<1>10. r.op \in {"move", "join", "members"} => ImpactInv(r)
  <2> SUFFICES ASSUME r.op \in {"move", "join", "members"} PROVE ImpactInv(r)
    OBVIOUS
  <2>1. Departments!Affected(r) \subseteq r.roles
    <3>1. CASE r.op = "move"
      <4>1. r = Departments!Locks(r)
        BY <3>1 DEF Departments!Unchanged
      <4>2. r.roles = Departments!RolesToLock(r)
        BY <1>1, <4>1, RestIs DEF Departments!Locks
      <4> QED BY <4>2 DEF Departments!RolesToLock
    <3>2. CASE r.op = "join"
      BY <1>1, <3>2 DEF Departments!Affected
    <3>3. CASE r.op = "members"
      <4>1. r.seen[4] = Departments!Impact(r)
        BY <1>4, <3>3 DEF Departments!Facts
      <4>2. DOMAIN r.seen[4] = Departments!Affected(r)
        BY <4>1 DEF Departments!Impact
      <4> QED BY <1>1, <3>3, <4>2
    <3> QED BY <3>1, <3>2, <3>3
  <2>2. Departments!ImpactDepts(r) \subseteq r.depts
    BY <1>5 DEF Departments!DeptsToLock
  <2>3. Departments!ImpactAllowed(r)
    BY <1>4 DEF Departments!Allowed, Departments!MoveAllowed, Departments!JoinAllowed, Departments!MembersAllowed
  <2> QED BY <2>1, <2>2, <2>3 DEF ImpactInv, Departments!ImpactAllowed
<1>11. ImpactInv(x) = ImpactInv(r)
  BY <1>2, <1>3 DEF ImpactInv
<1> QED BY <1>2, <1>3, <1>6, <1>7, <1>8, <1>9, <1>10, <1>11 DEF WriteInv

\* The second evaluation.
LEMMA Rechecked ==
    ASSUME DeptInv, NEW t \in Request, Departments!Recheck(t)
    PROVE  DeptInv'
<1>1. PICK r : r = s4[t]
  OBVIOUS
<1>2. PICK x : x = [r EXCEPT !.at = "write"]
  OBVIOUS
<1>3. \A q \in Request \ {t} :
        /\ s4[q].at \in DeptHolders => s4[t].roles \cap s4[q].roles = {}
        /\ s4[q].at \in DeptHolders \ {"depts"} => s4[t].depts \cap s4[q].depts = {}
  BY HoldsOn DEF Departments!Recheck
<1>4. Departments!Unchanged(r) => WriteInv(x)
  BY <1>1, <1>2, SecondLook DEF Departments!Recheck
<1>5. Departments!Unchanged(r) /\ Departments!Goto(t, "write") => DeptInv'
  BY <1>1, <1>2, <1>3, <1>4, GotoFits DEF Departments!Recheck, DeptHolders
<1> QED BY <1>1, <1>5, RestFits DEF Departments!Recheck

\* The rows to lock are those of what is asked.
LEMMA LocksAre ==
    ASSUME NEW r, DOMAIN r = DOMAIN Departments!NoTx, NEW x, x = Departments!Locks(r)
    PROVE  /\ DOMAIN x = DOMAIN Departments!NoTx
           /\ x.at = r.at /\ x.op = r.op /\ x.by = r.by /\ x.d = r.d /\ x.p = r.p /\ x.who = r.who /\ x.seen = r.seen
           /\ x.roles = Departments!RolesToLock(r) /\ x.depts = Departments!DeptsToLock(r)
  BY RestIs DEF Departments!Locks

\* The first evaluation, of a handler or of the card of a tool.
LEMMA AskFits ==
    ASSUME DeptInv, NEW t \in Request, NEW r, NEW where \in {"roles", "card"}, Departments!Ask(t, r, where),
           DOMAIN r = DOMAIN Departments!NoTx, r.op \in DeptOps, r.by \in Departments!Actors, r.d \in Dept,
           r.p \in Dept \cup {0}, r.who \subseteq DeptManagers,
           where = "card" => r.op \in {"create", "move", "status"}
    PROVE  DeptInv'
<1>1. PICK y : y = [r EXCEPT !.at = where, !.seen = Departments!Facts(r)]
  OBVIOUS
<1>2. PICK x : x = Departments!Locks(y)
  OBVIOUS
<1>3. /\ DOMAIN y = DOMAIN Departments!NoTx /\ y.at = where /\ y.seen = Departments!Facts(r)
      /\ y.op = r.op /\ y.by = r.by /\ y.d = r.d /\ y.p = r.p /\ y.who = r.who
  BY <1>1, RestIs
<1>4. /\ DOMAIN x = DOMAIN Departments!NoTx
      /\ x.at = where /\ x.op = r.op /\ x.by = r.by /\ x.d = r.d /\ x.p = r.p /\ x.who = r.who
      /\ x.seen = Departments!Facts(r) /\ x.roles = Departments!RolesToLock(y)
  BY <1>2, <1>3, LocksAre
<1>5. x.roles = Departments!RolesToLock(r)
  BY <1>3, <1>4, SameAsked
<1>6. r.by \in x.roles /\ Departments!Affected(r) \subseteq x.roles
  BY <1>5 DEF Departments!RolesToLock
<1>7. x.op = "join" => x.who \subseteq x.roles
  BY <1>4, <1>6 DEF Departments!Affected
<1>8. x.op = "members" => DOMAIN x.seen[4] \subseteq x.roles
  <2> SUFFICES ASSUME r.op = "members" PROVE DOMAIN x.seen[4] \subseteq x.roles
    BY <1>4
  <2>1. x.seen[4] = Departments!Impact(r)
    BY <1>4 DEF Departments!Facts
  <2> QED BY <1>6, <2>1 DEF Departments!Impact
<1>9. x.op = "create" => ~s1[x.d].live /\ \A q \in Request : s4[q].op = "create" /\ s4[q].d = x.d => q = t
  BY <1>4 DEF Departments!Ask, Departments!Allowed, Departments!CreateAllowed, Departments!NoDept
<1>10. Fits(t, x)
  BY <1>4, <1>6, <1>7, <1>8, <1>9 DEF Fits, WriteInv, DeptHolders
<1>11. s4' = [s4 EXCEPT ![t] = x] /\ UNCHANGED <<s1, s2, s3>>
  BY <1>1, <1>2 DEF Departments!Ask
<1> QED BY <1>10, <1>11, PlaceTaken

\* The approval of a card.
LEMMA ApprovalFits ==
    ASSUME DeptInv, NEW t \in Request, Departments!Approve(t)
    PROVE  DeptInv'
<1>0. s4[t].at = "card" /\ AskInv(t) /\ DOMAIN s4[t] = DOMAIN Departments!NoTx /\ Departments!Keep
  BY DEF Departments!Approve, DeptInv, DeptTypes
<1>1. PICK r : r = s4[t]
  OBVIOUS
<1>2. PICK y : y = [r EXCEPT !.at = "roles"]
  OBVIOUS
<1>3. PICK x : x = Departments!Locks(y)
  OBVIOUS
<1>4. /\ DOMAIN y = DOMAIN Departments!NoTx /\ y.at = "roles"
      /\ y.op = r.op /\ y.by = r.by /\ y.d = r.d /\ y.p = r.p /\ y.who = r.who
  BY <1>0, <1>1, <1>2, RestIs
<1>5. /\ DOMAIN x = DOMAIN Departments!NoTx
      /\ x.at = "roles" /\ x.op = r.op /\ x.by = r.by /\ x.d = r.d /\ x.p = r.p /\ x.who = r.who
      /\ x.roles = Departments!RolesToLock(y)
  BY <1>3, <1>4, LocksAre
<1>6. /\ r.op \in {"create", "move", "status"} /\ r.by \in Departments!Actors /\ r.d \in Dept
      /\ r.p \in Dept \cup {0} /\ r.who \subseteq DeptManagers
      /\ r.op = "create" => ~s1[r.d].live /\ \A q \in Request : s4[q].op = "create" /\ s4[q].d = r.d => q = t
  BY <1>0, <1>1 DEF AskInv
<1>7. r.by \in x.roles
  BY <1>4, <1>5 DEF Departments!RolesToLock
<1>8. Fits(t, x)
  BY <1>5, <1>6, <1>7 DEF Fits, WriteInv, DeptHolders, DeptOps
<1>9. s4' = [s4 EXCEPT ![t] = x] => DeptInv'
  BY <1>0, <1>8, PlaceTaken DEF Departments!Keep
<1>10. s4' = [s4 EXCEPT ![t] = x] \/ Departments!Idle(t)
  BY <1>1, <1>2, <1>3 DEF Departments!Approve
<1> QED BY <1>0, <1>9, <1>10, RestFits

\* A request as the client writes it.
LEMMA RequestIs ==
    ASSUME NEW op, NEW by, NEW d, NEW p, NEW who
    PROVE  /\ LET r == [Departments!Req(op, by, d) EXCEPT !.p = p]
              IN  /\ DOMAIN r = DOMAIN Departments!NoTx /\ r.op = op /\ r.by = by /\ r.d = d /\ r.p = p /\ r.who = {}
           /\ LET r == Departments!Req(op, by, d)
              IN  /\ DOMAIN r = DOMAIN Departments!NoTx /\ r.op = op /\ r.by = by /\ r.d = d /\ r.p = 0 /\ r.who = {}
           /\ LET r == [Departments!Req(op, by, d) EXCEPT !.who = who]
              IN  /\ DOMAIN r = DOMAIN Departments!NoTx /\ r.op = op /\ r.by = by /\ r.d = d /\ r.p = 0 /\ r.who = who
  BY DEF Departments!Req, Departments!NoTx, Departments!Nil

\* Every request of a handler or a tool.
LEMMA RequestsFit ==
    ASSUME DeptInv, NEW t \in Request, NEW by \in Departments!Actors, NEW d \in Dept,
           \/ \E p \in Dept \cup {0} :
                \/ Departments!AddDept(t, by, d, p) \/ Departments!MoveDept(t, by, d, p)
                \/ Departments!DryRunCreate(t, by, d, p) \/ Departments!DryRunMove(t, by, d, p)
           \/ Departments!UpdateDept(t, by, d) \/ Departments!DryRunUpdate(t, by, d)
           \/ Departments!RemoveDept(t, by, d) \/ Departments!UpdateRoleDepts(t, by, d)
           \/ \E u \in DeptManagers : Departments!UpdateUserDepts(t, by, u, d)
           \/ \E who \in SUBSET DeptManagers : Departments!UpdateDeptUsers(t, by, d, who)
    PROVE  DeptInv'
<1>1. ASSUME NEW op \in {"create", "move"}, NEW p \in Dept \cup {0}, NEW where \in {"roles", "card"},
             Departments!Ask(t, [Departments!Req(op, by, d) EXCEPT !.p = p], where)
      PROVE  DeptInv'
  <2>1. PICK r : r = [Departments!Req(op, by, d) EXCEPT !.p = p]
    OBVIOUS
  <2>2. DOMAIN r = DOMAIN Departments!NoTx /\ r.op = op /\ r.by = by /\ r.d = d /\ r.p = p /\ r.who = {}
    BY <2>1, RequestIs
  <2>3. r.op \in DeptOps /\ r.op \in {"create", "move", "status"} /\ Departments!Ask(t, r, where)
    BY <1>1, <2>1, <2>2 DEF DeptOps
  <2> QED BY <2>2, <2>3, AskFits
<1>2. ASSUME NEW op \in {"status", "delete", "custom"}, NEW where \in {"roles", "card"}, where = "card" => op = "status",
             Departments!Ask(t, Departments!Req(op, by, d), where)
      PROVE  DeptInv'
  <2>1. PICK r : r = Departments!Req(op, by, d)
    OBVIOUS
  <2>2. DOMAIN r = DOMAIN Departments!NoTx /\ r.op = op /\ r.by = by /\ r.d = d /\ r.p = 0 /\ r.who = {}
    BY <2>1, RequestIs
  <2>3. r.op \in DeptOps /\ Departments!Ask(t, r, where)
    BY <1>2, <2>1, <2>2 DEF DeptOps
  <2> QED BY <1>2, <2>2, <2>3, AskFits
<1>3. ASSUME NEW op \in {"join", "members"}, NEW who \in SUBSET DeptManagers,
             Departments!Ask(t, [Departments!Req(op, by, d) EXCEPT !.who = who], "roles")
      PROVE  DeptInv'
  <2>1. PICK r : r = [Departments!Req(op, by, d) EXCEPT !.who = who]
    OBVIOUS
  <2>2. DOMAIN r = DOMAIN Departments!NoTx /\ r.op = op /\ r.by = by /\ r.d = d /\ r.p = 0 /\ r.who = who
    BY <2>1, RequestIs
  <2>3. r.op \in DeptOps /\ Departments!Ask(t, r, "roles")
    BY <1>3, <2>1, <2>2 DEF DeptOps
  <2> QED BY <2>2, <2>3, AskFits
<1>4. CASE \E p \in Dept \cup {0} :
             \/ Departments!AddDept(t, by, d, p) \/ Departments!MoveDept(t, by, d, p)
             \/ Departments!DryRunCreate(t, by, d, p) \/ Departments!DryRunMove(t, by, d, p)
  BY <1>1, <1>4 DEF Departments!AddDept, Departments!MoveDept, Departments!DryRunCreate, Departments!DryRunMove
<1>5. CASE \/ Departments!UpdateDept(t, by, d) \/ Departments!DryRunUpdate(t, by, d)
           \/ Departments!RemoveDept(t, by, d) \/ Departments!UpdateRoleDepts(t, by, d)
  BY <1>2, <1>5 DEF Departments!UpdateDept, Departments!DryRunUpdate, Departments!RemoveDept, Departments!UpdateRoleDepts
<1>6. CASE \E u \in DeptManagers : Departments!UpdateUserDepts(t, by, u, d)
  BY <1>3, <1>6 DEF Departments!UpdateUserDepts
<1>7. CASE \E who \in SUBSET DeptManagers : Departments!UpdateDeptUsers(t, by, d, who)
  BY <1>3, <1>7 DEF Departments!UpdateDeptUsers
<1> QED BY <1>4, <1>5, <1>6, <1>7

\* Every step of the departments.
LEMMA DeptStep ==
    ASSUME DeptInv, [Departments!Next]_Departments!vars
    PROVE  DeptInv'
<1>1. CASE UNCHANGED Departments!vars
  <2>1. UNCHANGED <<s1, s2, s3, s4>>
    BY <1>1 DEF Departments!vars
  <2>2. ASSUME NEW x \in {s4[q] : q \in Request} PROVE WriteInv(x)'
    BY <2>1, <2>2, TablesKeep DEF DeptInv
  <2>3. \A x \in {s4'[q] : q \in Request} : WriteInv(x)'
    BY <2>1, <2>2
  <2>4. DeptTypes' /\ Rooted(s1)' /\ RowsApart' /\ \A u \in DeptManagers : s2'[u] \subseteq Departments!Live'
    BY <2>1 DEF DeptInv, DeptTypes, Rooted, RowsApart, Departments!Live, Departments!NoTx
  <2>5. \A q \in Request : AskInv(q)'
    BY <2>1 DEF DeptInv, AskInv
  <2> QED BY <2>3, <2>4, <2>5 DEF DeptInv
<1>2. ASSUME NEW t \in Request,
             \/ \E by \in Departments!Actors, d \in Dept :
                  \/ \E p \in Dept \cup {0} :
                       \/ Departments!AddDept(t, by, d, p) \/ Departments!MoveDept(t, by, d, p)
                       \/ Departments!DryRunCreate(t, by, d, p) \/ Departments!DryRunMove(t, by, d, p)
                  \/ Departments!UpdateDept(t, by, d) \/ Departments!DryRunUpdate(t, by, d)
                  \/ Departments!RemoveDept(t, by, d) \/ Departments!UpdateRoleDepts(t, by, d)
                  \/ \E u \in DeptManagers : Departments!UpdateUserDepts(t, by, u, d)
                  \/ \E who \in SUBSET DeptManagers : Departments!UpdateDeptUsers(t, by, d, who)
             \/ Departments!Approve(t) \/ Departments!LockRoles(t) \/ Departments!LockDepts(t)
             \/ Departments!LockUsers(t) \/ Departments!Recheck(t) \/ Departments!Commit(t) \/ Departments!RollBack(t)
      PROVE  DeptInv'
  <2>1. Departments!RollBack(t) => DeptInv'
    BY RestFits DEF Departments!RollBack
  <2> QED BY <1>2, <2>1, RequestsFit, ApprovalFits, RolesAreLocked, DeptsAreLocked, UsersAreLocked, Rechecked, DeptCommits
<1> QED BY <1>1, <1>2 DEF Departments!Next, Departments!Managers, DeptManagers, Departments!Nil

\* At first there are roots and their children, and nobody asks for anything.
LEMMA DeptStarts == Departments!Init => DeptInv
<1> SUFFICES ASSUME Departments!Init PROVE DeptInv
  OBVIOUS
<1>1. ASSUME NEW d \in DOMAIN FirstTree
      PROVE  /\ d \in Dept /\ s1[d].live /\ s1[d].parent = FirstTree[d] /\ s1[d] \in DeptRows
             /\ FirstTree[d] = 0 => s1[d].path = <<>>
             /\ FirstTree[d] # 0 => s1[d].path = <<FirstTree[d]>> /\ FirstTree[d] \in DOMAIN FirstTree
  <2>1. d \in Dept /\ FirstTree[d] \in Dept \cup {0}
    BY DeptBounds
  <2>2. s1[d] = [live |-> TRUE, parent |-> FirstTree[d], on |-> TRUE,
                 path |-> IF FirstTree[d] = 0 THEN <<>> ELSE <<FirstTree[d]>>]
    BY <2>1 DEF Departments!Init, Departments!Nil
  <2>3. (IF FirstTree[d] = 0 THEN <<>> ELSE <<FirstTree[d]>>) \in Seq(Dept)
    BY <2>1
  <2>4. FirstTree[d] # 0 => FirstTree[d] \in DOMAIN FirstTree
    BY DeptBounds
  <2> QED BY <2>1, <2>2, <2>3, <2>4 DEF DeptRows
<1>2. ASSUME NEW d \in Dept \ DOMAIN FirstTree PROVE ~s1[d].live /\ s1[d] \in DeptRows
  BY DEF Departments!Init, Departments!NoDept, DeptRows, Departments!Nil
<1>3. s1 \in [Dept -> DeptRows]
  BY <1>1, <1>2, DeptBounds DEF Departments!Init
<1>4. Rooted(s1)
  <2> SUFFICES ASSUME NEW d \in DOMAIN FirstTree
               PROVE  /\ s1[d].parent = IF Len(s1[d].path) = 0 THEN 0 ELSE s1[d].path[Len(s1[d].path)]
                      /\ \A k \in 1..Len(s1[d].path) :
                           /\ s1[s1[d].path[k]].live /\ Len(s1[s1[d].path[k]].path) = k - 1
                           /\ \A j \in 1..(k - 1) : s1[s1[d].path[k]].path[j] = s1[d].path[j]
    BY <1>2 DEF Rooted
  <2> DEFINE x == FirstTree[d]
  <2>1. CASE x = 0
    BY <1>1, <2>1
  <2>2. CASE x # 0
    <3>1. s1[d].path = <<x>> /\ s1[d].parent = x /\ x \in DOMAIN FirstTree
      BY <1>1, <2>2
    <3>2. FirstTree[x] = 0
      BY <2>2, DeptBounds
    <3>3. s1[x].live /\ s1[x].path = <<>>
      BY <1>1, <3>1, <3>2
    <3> HIDE DEF x
    <3>4. Len(s1[d].path) = 1 /\ s1[d].path[1] = x
      BY <3>1
    <3> QED BY <3>1, <3>3, <3>4
  <2> QED BY <2>1, <2>2
<1>5. \A t \in Request : s4[t] = Departments!NoTx
  BY DEF Departments!Init
<1>6. DeptTypes
  <2>1. FirstHome \in [DeptManagers -> SUBSET Dept]
    BY DeptBounds DEF DeptManagers
  <2> QED BY <1>3, <1>5, <2>1 DEF DeptTypes, Departments!Init
<1>7. \A u \in DeptManagers : s2[u] \subseteq Departments!Live
  <2>1. FirstHome \in [DeptManagers -> SUBSET DOMAIN FirstTree]
    BY DeptBounds DEF DeptManagers
  <2> QED BY <1>1, <2>1 DEF Departments!Init, Departments!Live
<1>8. RowsApart /\ \A t \in Request : AskInv(t)
  BY <1>5, RestIs DEF RowsApart, AskInv, DeptHolders
<1>9. \A r \in {s4[t] : t \in Request} : WriteInv(r)
  BY <1>5, RestIs DEF WriteInv
<1> QED BY <1>4, <1>6, <1>7, <1>8, <1>9 DEF DeptInv

\* Rows that are rooted copy the chain of their parents.
LEMMA PathsAreTrue == ASSUME DeptInv PROVE Departments!PathIsTrue
<1> SUFFICES ASSUME NEW d \in Dept, s1[d].live
             PROVE  IF s1[d].parent = 0 THEN s1[d].path = <<>>
                    ELSE s1[s1[d].parent].live /\ s1[d].path = Append(s1[s1[d].parent].path, s1[d].parent)
  BY DEF Departments!PathIsTrue, Departments!Live, Departments!Nil
<1>1. s1 \in [Dept -> DeptRows] /\ Rooted(s1)
  BY DEF DeptInv, DeptTypes
<1> DEFINE s == s1[d].path
           p == s1[d].parent
<1>2. s \in Seq(Dept) /\ Len(s) \in Nat /\ p = IF Len(s) = 0 THEN 0 ELSE s[Len(s)]
  BY <1>1 DEF DeptRows, Rooted
<1>3. CASE Len(s) = 0
  <2>1. p = 0
    BY <1>2, <1>3
  <2>2. s = <<>>
    <3> HIDE DEF s
    <3> QED BY <1>2, <1>3
  <2> QED BY <2>1, <2>2
<1>4. CASE Len(s) # 0
  <2>1. Len(s) \in 1..Len(s) /\ p = s[Len(s)] /\ p \in Dept /\ p # 0
    BY <1>2, <1>4, DeptBounds
  <2>2. /\ s1[s[Len(s)]].live /\ Len(s1[s[Len(s)]].path) = Len(s) - 1
        /\ \A j \in 1..(Len(s) - 1) : s1[s[Len(s)]].path[j] = s[j]
    BY <1>1, <2>1 DEF Rooted
  <2>3. s1[p].path \in Seq(Dept)
    BY <1>1, <2>1 DEF DeptRows
  <2> DEFINE q == Append(s1[p].path, p)
  <2>4. q \in Seq(Dept) /\ Len(q) = Len(s)
    BY <1>2, <2>1, <2>2, <2>3
  <2>5. ASSUME NEW i \in 1..Len(s) PROVE q[i] = s[i]
    BY <1>2, <2>1, <2>2, <2>3
  <2>6. s1[p].live
    BY <2>1, <2>2
  <2> HIDE DEF q, s
  <2>7. s = q
    BY <1>2, <2>4, <2>5
  <2> QED BY <2>1, <2>6, <2>7, Zenon DEF q, s
<1> QED BY <1>3, <1>4

\* What a request does to a scope is the impact it was checked for.
LEMMA ImpactsStayInside == ASSUME DeptInv PROVE Departments!ImpactStaysInside
<1> SUFFICES ASSUME NEW t \in Request, s4[t].at = "write", NEW r, r = s4[t], NEW u \in DeptManagers,
                    Departments!ScopeIn(Departments!TreeAfter(r), Departments!HomeAfter(r)[u]) # Departments!Scope(u)
             PROVE  LET after == Departments!ScopeIn(Departments!TreeAfter(r), Departments!HomeAfter(r)[u]) IN
                    /\ Departments!Super(r.by) \/ Departments!Scope(u) \cup after \subseteq Departments!Scope(r.by)
                    /\ r.op = "move" => u \in DOMAIN r.seen[4]
                                        /\ r.seen[4][u] = [before |-> Departments!Scope(u), after |-> after]
  BY DEF Departments!ImpactStaysInside, Departments!Managers, DeptManagers
<1>1. /\ WriteInv(r) /\ r.at = "write" /\ r.op \in DeptOps /\ r.d \in Dept /\ r.p \in Dept \cup {0}
      /\ s1 \in [Dept -> DeptRows] /\ Rooted(s1) /\ s2 \in [DeptManagers -> SUBSET Dept]
  BY DEF DeptInv, AskInv, DeptTypes
<1>2. r.op \in {"move", "join", "members"}
  <2>1. CASE r.op \notin {"move", "join", "members"}
    BY <2>1 DEF Departments!TreeAfter, Departments!HomeAfter, Departments!Scope
  <2> QED BY <2>1
<1>3. u \in Departments!Affected(r)
  <2>1. CASE r.op = "join"
    BY <2>1 DEF Departments!Affected, Departments!TreeAfter, Departments!HomeAfter, Departments!Scope,
       Departments!Managers, DeptManagers
  <2>2. CASE r.op = "members"
    BY <2>2 DEF Departments!Affected, Departments!TreeAfter, Departments!Scope, Departments!Managers, DeptManagers
  <2>3. CASE r.op = "move"
    <3> SUFFICES ASSUME u \notin Departments!Affected(r)
                 PROVE  Departments!ScopeIn(Departments!TreeAfter(r), Departments!HomeAfter(r)[u]) = Departments!Scope(u)
      OBVIOUS
    <3>1. s2[u] \cap Departments!Anchors(r) = {} /\ s2[u] \subseteq Dept
      BY <1>1, <2>3 DEF Departments!Affected, Departments!MembersOf, Departments!Managers, DeptManagers
    <3>2. s1[r.d].live
      BY <1>1, <2>3 DEF WriteInv
    <3>3. ASSUME NEW h \in s2[u] PROVE Departments!Under(Departments!Moved(r.d, r.p), h) = Departments!Under(s1, h)
      <4>1. h \in Dept /\ h \notin Departments!AtOrAbove(s1[r.d].parent) /\ h \notin Departments!AtOrAbove(r.p)
        BY <3>1 DEF Departments!Anchors
      <4> QED BY <1>1, <3>2, <4>1, MoveSpares
    <3>4. Departments!TreeAfter(r) = Departments!Moved(r.d, r.p) /\ Departments!HomeAfter(r)[u] = s2[u]
      BY <2>3 DEF Departments!TreeAfter, Departments!HomeAfter
    <3> QED BY <3>3, <3>4 DEF Departments!ScopeIn, Departments!Scope
  <2> QED BY <1>2, <2>1, <2>2, <2>3
<1>4. Departments!Impact(r)[u] =
        [before |-> Departments!Scope(u),
         after |-> Departments!ScopeIn(Departments!TreeAfter(r), Departments!HomeAfter(r)[u])]
  BY <1>3 DEF Departments!Impact
<1>5. Departments!Super(r.by) \/
        Departments!Impact(r)[u].before \cup Departments!Impact(r)[u].after \subseteq Departments!Scope(r.by)
  BY <1>1, <1>2, <1>3 DEF WriteInv, ImpactInv
<1>6. r.op = "move" => r.seen[4] = Departments!Impact(r) /\ u \in DOMAIN Departments!Impact(r)
  BY <1>1, <1>3 DEF WriteInv, Departments!Impact
<1> QED BY <1>4, <1>5, <1>6

\* Every path is the chain of the parents, a deletion finds nothing that refers to its department, and
\* a write changes no scope outside its author's nor, for a move, otherwise than its card said: for
\* every tree of departments, however requests race (dept_service.py, authorization_lock.py).
THEOREM DepartmentsAreTrue == Spec => []DepartmentsHold
<1>1. part = "departments" /\ Init => DeptInv
  BY DeptStarts DEF Init
<1>2. part = "departments" /\ DeptInv /\ [Next]_vars => DeptInv' /\ (part = "departments")'
  <2>1. part = "departments" /\ [Next]_vars => [Departments!Next]_Departments!vars /\ (part = "departments")'
    BY DEF Next, vars, from4, from5, from6, Departments!vars
  <2> QED BY <2>1, DeptStep
<1>3. (part = "departments" => DeptInv) => DepartmentsHold
  <2>1. DeptInv => Departments!NothingCascades
    BY DEF DeptInv, WriteInv, Departments!NothingCascades
  <2> QED BY <2>1, PathsAreTrue, ImpactsStayInside DEF DepartmentsHold
<1>4. ~(part = "departments") /\ [Next]_vars => ~(part = "departments")'
  BY PartStays
<1> QED BY <1>1, <1>2, <1>3, <1>4, PTL DEF Spec
=============================================================================
