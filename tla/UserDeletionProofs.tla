-------------------------- MODULE UserDeletionProofs --------------------------
(***************************************************************************)
(* Proofs about UserDeletion for any users, conversations and requests:    *)
(* deletions and executions never wait for each other in a circle, and no  *)
(* deletion cascades over an operation whose outcome is open.              *)
(*                                                                         *)
(* The first is the argument of every lock order.  Conversation rows are   *)
(* taken in ascending order, then user rows in ascending order, and who    *)
(* holds a user row wants no conversation row.  In a set of transactions   *)
(* that all wait inside the set, consider those that want user rows, or    *)
(* all if there are none, and among them the one that waits for the        *)
(* greatest row: its holder waits for a greater one still.                 *)
(***************************************************************************)
EXTENDS UserDeletion, FiniteSetTheorems, WellFoundedInduction, TLAPS

\* Ids are numbers of bounded width (BIGINT columns); the owner of a
\* conversation is a user (foreign key of ai_conversation).
Constants ==
    /\ \E n \in Nat : User \cup Conv \subseteq 0 .. n
    /\ Owner \in [Conv -> User]

-----------------------------------------------------------------------------
(* The inductive invariant *)

Places   == {"idle", "plan", "contexts", "claim", "users", "edit", "settle", "done"}
Plans    == [convs : SUBSET Conv, logs : SUBSET Conv, acts : SUBSET Conv]
TxnRow   == [at : Places, goal : SUBSET User, plan : Plans, retried : BOOLEAN]
OpRow    == [st : Settled \cup {"log", "pending", "running"},
             kind : {"none", "edit", "delete"}, goal : SUBSET User]

Rows  == /\ alive \subseteq User /\ conv \in [Conv -> {"none", "live", "gone"}]
         /\ op \in [Conv -> OpRow]
Locks == /\ convLock \in [Conv -> SUBSET Txn] /\ userLock \in [User -> SUBSET Txn]
\* Edits, and failures recorded apart, are those of executions.
Moves == /\ txn \in [Txn -> TxnRow]
         /\ \A t \in Txn : txn[t].at \in {"edit", "settle"} => IsOp(t)

\* A conversation row has at most one holder.
OneHolder == \A c \in Conv : convLock[c] = {} \/ \E t \in Txn : convLock[c] = {t}

\* No operation is about the user it belongs to, nor is its execution.
ProposalSpares  == \A c \in Conv : Owner[c] \notin op[c].goal
ExecutionSpares == \A c \in Conv : Owner[c] \notin txn[<<"op", c>>].goal

\* Who holds a conversation row and wants more of them wants greater ones.
ContextOrder ==
    \A c \in Conv : \A t \in convLock[c] :
      /\ txn[t].at \in {"contexts", "claim", "users", "edit"}
      /\ txn[t].at = "contexts" => \A d \in ToLock(t) : c < d

\* Who holds a user row has all its conversation rows, and wants greater users.
UserOrder ==
    \A u \in User : \A t \in userLock[u] :
      txn[t].at = "users" /\ \A v \in ToLockUsers(t) : u < v

Inv == Rows /\ Locks /\ Moves /\ OneHolder /\ ContextOrder /\ UserOrder
       /\ ProposalSpares /\ ExecutionSpares

-----------------------------------------------------------------------------
(* Least and greatest rows *)

\* The least of a set of row ids, which the code locks first, is one of them.
LEMMA LeastId ==
    ASSUME NEW S \in SUBSET Nat, S # {}
    PROVE  Min(S) \in S /\ \A x \in S : Min(S) <= x
<1>1. \E x \in S : \A y \in S : ~(<<y, x>> \in OpToRel(<, Nat))
    BY NatLessThanWellFounded, WFMin
<1>2. \A x, y \in Nat : <<y, x>> \in OpToRel(<, Nat) <=> y < x
    BY DEF OpToRel
<1>3. PICK x \in S : \A y \in S : ~(<<y, x>> \in OpToRel(<, Nat))
    BY <1>1
<1>4. \A y \in S : x <= y
    <2> SUFFICES ASSUME NEW y \in S PROVE x <= y
        OBVIOUS
    <2>1. x \in Nat /\ y \in Nat
        OBVIOUS
    <2>2. ~(y < x)
        BY <1>2, <1>3, <2>1
    <2> QED BY <2>1, <2>2
<1> QED
    BY <1>4, Zenon DEF Min

\* Row ids that are waited for have a greatest one.
LEMMA GreatestId ==
    ASSUME NEW n \in Nat, NEW S \in SUBSET (0 .. n), S # {}
    PROVE  \E m \in S : \A x \in S : x <= m
<1> DEFINE T == {n - x : x \in S}
<1>1. T \subseteq Nat /\ T # {}
    <2>1. PICK x \in S : TRUE
        OBVIOUS
    <2>2. n - x \in T
        BY <2>1
    <2>3. \A x1 \in S : n - x1 \in Nat
        OBVIOUS
    <2> QED BY <2>2, <2>3
<1>2. Min(T) \in T /\ \A y \in T : Min(T) <= y
    <2> HIDE DEF T
    <2> QED BY <1>1, LeastId
<1>3. PICK m \in S : Min(T) = n - m
    BY <1>2
<1>4. \A x \in S : n - m <= n - x
    BY <1>2, <1>3
<1> QED
    BY <1>4

-----------------------------------------------------------------------------
(* The invariant implies the properties *)

\* An execution is a transaction; an HTTP request has no conversation of its own.
LEMMA TxnShape ==
    /\ \A c \in Conv : <<"op", c>> \in Txn
    /\ \A t \in Txn : IsOp(t) => t[2] \in Conv /\ t = <<"op", t[2]>>
    BY DEF Txn, IsOp

\* The row ids the properties compare are natural numbers below one bound.
LEMMA Ids ==
    ASSUME Constants
    PROVE  User \in SUBSET Nat /\ Conv \in SUBSET Nat
    BY DEF Constants

\* A transaction of a circle holds what another one waits for; those that want
\* user rows wait for each other only.
LEMMA WaitersOfUsers ==
    ASSUME Constants, Inv, NEW t \in Txn, txn[t].at \in {"users", "edit"}, NEW s \in WaitsFor(t)
    PROVE  txn[s].at = "users"
<1>0. txn[t] \in TxnRow
    BY DEF Inv, Moves
<1>1. CASE txn[t].at = "users"
    <2>1. ToLockUsers(t) # {} /\ s \in userLock[Min(ToLockUsers(t))]
        BY <1>1 DEF WaitsFor, At
    <2>2. Min(ToLockUsers(t)) \in User
        <3>1. ToLockUsers(t) \in SUBSET User
            BY <1>0 DEF TxnRow, ToLockUsers
        <3> QED BY <3>1, <2>1, Ids, LeastId
    <2> QED BY <2>1, <2>2 DEF Inv, UserOrder
<1>2. CASE txn[t].at = "edit"
    <2>1. s \in UNION {userLock[u] : u \in txn[t].goal}
        BY <1>2 DEF WaitsFor, At
    <2>2. PICK u \in txn[t].goal : s \in userLock[u]
        BY <2>1
    <2>3. u \in User
        BY <1>0 DEF TxnRow
    <2> QED BY <2>2, <2>3 DEF Inv, UserOrder
<1> QED BY <1>1, <1>2

\* In every set of transactions somebody waits for nobody of the set.
LEMMA SomebodyMoves ==
    ASSUME Constants, Inv
    PROVE  NoWaitCycle
<1> SUFFICES ASSUME NEW S \in SUBSET Txn, S # {}, \A t \in S : WaitsFor(t) \cap S # {}
             PROVE  FALSE
    BY Zenon DEF NoWaitCycle
<1>n. PICK n \in Nat : User \cup Conv \subseteq 0 .. n
    BY DEF Constants
<1>t. \A t \in S : txn[t] \in TxnRow
    BY DEF Inv, Moves
<1>1. CASE \E t \in S : txn[t].at \in {"users", "edit"}
    <2> DEFINE W == {t \in S : txn[t].at = "users"}
               R == {Min(ToLockUsers(t)) : t \in W}
    <2>1. W # {}
        <3>1. PICK t \in S : txn[t].at \in {"users", "edit"}
            BY <1>1
        <3>2. PICK s \in WaitsFor(t) : s \in S
            BY <3>1
        <3>3. txn[s].at = "users"
            BY <3>1, <3>2, WaitersOfUsers
        <3> QED BY <3>2, <3>3
    <2>2. ASSUME NEW t \in W
          PROVE  /\ ToLockUsers(t) \in SUBSET User /\ ToLockUsers(t) # {}
                 /\ Min(ToLockUsers(t)) \in ToLockUsers(t)
                 /\ \E s \in W : s \in userLock[Min(ToLockUsers(t))]
        <3>1. ToLockUsers(t) \in SUBSET User
            BY <1>t DEF TxnRow, ToLockUsers
        <3>2. PICK s \in WaitsFor(t) : s \in S
            OBVIOUS
        <3>3. ToLockUsers(t) # {} /\ s \in userLock[Min(ToLockUsers(t))]
            BY <3>2 DEF WaitsFor, At
        <3>4. txn[s].at = "users"
            BY <3>2, WaitersOfUsers
        <3>5. Min(ToLockUsers(t)) \in ToLockUsers(t)
            <4>1. ToLockUsers(t) \in SUBSET Nat
                BY <3>1, Ids
            <4> QED BY <4>1, <3>3, LeastId
        <3> QED BY <3>1, <3>2, <3>3, <3>4, <3>5
    <2>3. R # {} /\ R \subseteq 0 .. n
        BY <2>1, <2>2, <1>n
    <2>4. PICK m \in R : \A x \in R : x <= m
        <3> HIDE DEF R
        <3> QED BY <2>3, GreatestId
    <2>5. PICK t \in W : m = Min(ToLockUsers(t))
        BY <2>4
    <2>6. PICK s \in W : s \in userLock[m]
        BY <2>2, <2>5
    <2>7. m \in User /\ m \in 0 .. n
        BY <2>2, <2>5, <1>n
    <2>8. m < Min(ToLockUsers(s))
        <3>1. Min(ToLockUsers(s)) \in ToLockUsers(s)
            BY <2>2, <2>6
        <3>2. \A v \in ToLockUsers(s) : m < v
            BY <2>6, <2>7 DEF Inv, UserOrder
        <3> QED BY <3>1, <3>2
    <2>9. Min(ToLockUsers(s)) \in R
        BY <2>6
    <2>10. Min(ToLockUsers(s)) <= m /\ Min(ToLockUsers(s)) \in 0 .. n
        BY <2>9, <2>4, <2>3
    <2> HIDE DEF R, W
    <2> QED BY <2>7, <2>8, <2>10
<1>2. CASE \A t \in S : txn[t].at \notin {"users", "edit"}
    <2> DEFINE R == {Min(ToLock(t)) : t \in S}
    <2>2. ASSUME NEW t \in S
          PROVE  /\ ToLock(t) \in SUBSET Conv /\ ToLock(t) # {}
                 /\ Min(ToLock(t)) \in ToLock(t)
                 /\ txn[t].at = "contexts"
                 /\ \E s \in S : s \in convLock[Min(ToLock(t))]
        <3>1. ToLock(t) \in SUBSET Conv
            BY <1>t DEF TxnRow, Plans, ToLock
        <3>2. PICK s \in WaitsFor(t) : s \in S
            OBVIOUS
        <3>3. txn[t].at = "contexts" /\ ToLock(t) # {} /\ s \in convLock[Min(ToLock(t))]
            BY <3>2, <1>2 DEF WaitsFor, At, NextContext
        <3>5. Min(ToLock(t)) \in ToLock(t)
            <4>1. ToLock(t) \in SUBSET Nat
                BY <3>1, Ids
            <4> QED BY <4>1, <3>3, LeastId
        <3> QED BY <3>1, <3>2, <3>3, <3>5
    <2>3. R # {} /\ R \subseteq 0 .. n
        BY <2>2, <1>n
    <2>4. PICK m \in R : \A x \in R : x <= m
        <3> HIDE DEF R
        <3> QED BY <2>3, GreatestId
    <2>5. PICK t \in S : m = Min(ToLock(t))
        BY <2>4
    <2>6. PICK s \in S : s \in convLock[m]
        BY <2>2, <2>5
    <2>7. m \in Conv /\ m \in 0 .. n
        BY <2>2, <2>5, <1>n
    <2>8. m < Min(ToLock(s))
        <3>1. Min(ToLock(s)) \in ToLock(s) /\ txn[s].at = "contexts"
            BY <2>2, <2>6
        <3>2. \A d \in ToLock(s) : m < d
            BY <2>6, <2>7, <3>1 DEF Inv, ContextOrder
        <3> QED BY <3>1, <3>2
    <2>9. Min(ToLock(s)) \in R
        BY <2>6
    <2>10. Min(ToLock(s)) <= m /\ Min(ToLock(s)) \in 0 .. n
        BY <2>9, <2>4, <2>3
    <2> HIDE DEF R
    <2> QED BY <2>7, <2>8, <2>10
<1> QED BY <1>1, <1>2

\* Types, and at most one holder of a conversation row.
LEMMA WellTyped ==
    ASSUME Inv
    PROVE  TypeOK
<1>1. \A c \in Conv : convLock[c] \subseteq Txn
    BY DEF Inv, Locks
<1>2. ASSUME NEW c \in Conv PROVE Cardinality(convLock[c]) <= 1
    <2>1. CASE convLock[c] = {}
        BY <2>1, FS_EmptySet
    <2>2. CASE \E t \in Txn : convLock[c] = {t}
        BY <2>2, FS_Singleton
    <2> QED BY <2>1, <2>2 DEF Inv, OneHolder
<1>3. \A c \in Conv : op[c].st \in Settled \cup {"log", "pending", "running"}
    BY DEF Inv, Rows, OpRow
<1> QED BY <1>1, <1>2, <1>3 DEF TypeOK, Inv, Rows

\* The execution of an operation is not about its owner, so the plan of a deletion
\* counts the operation among those that have to be settled.
LEMMA SettledBefore ==
    ASSUME Inv, NEW t \in Txn, Cascade(t), Recheck(t), Resolved(t)
    PROVE  EvidenceSurvives
<1> SUFFICES ASSUME NEW c \in Conv, conv[c] = "live", conv'[c] = "gone"
             PROVE  op[c].st \in Settled
    BY DEF EvidenceSurvives
<1>1. Owner[c] \in txn[t].goal
    BY DEF Cascade
<1>2. c \notin OwnConv(t)
    <2>1. IsOp(t) => Owner[t[2]] \notin txn[t].goal
        BY TxnShape DEF Inv, ExecutionSpares
    <2> QED BY <1>1, <2>1 DEF OwnConv
<1>3. c \in txn[t].plan.convs
    BY <1>1 DEF Recheck, PlanNow
<1> QED BY <1>2, <1>3 DEF Resolved

-----------------------------------------------------------------------------
(* What the invariant says of transactions and locks, by kind of step *)

Order == OneHolder /\ ContextOrder /\ UserOrder

\* A transaction that ends, or starts anew, holds nothing.
LEMMA Ends ==
    ASSUME Inv, NEW t \in Txn, Release(t), NEW x \in TxnRow, x.goal \subseteq txn[t].goal,
           x.at \in {"edit", "settle"} => IsOp(t), txn' = [txn EXCEPT ![t] = x]
    PROVE  Locks' /\ Moves' /\ Order' /\ ExecutionSpares'
<1> USE DEF Inv
<1>1. Locks'
    BY DEF Locks, Release
<1>2. Moves'
    BY DEF Moves, IsOp
<1>3. OneHolder'
    <2> SUFFICES ASSUME NEW c \in Conv
                 PROVE  convLock'[c] = {} \/ \E s \in Txn : convLock'[c] = {s}
        BY DEF OneHolder
    <2>1. convLock'[c] = convLock[c] \ {t}
        BY DEF Release
    <2> QED BY <2>1 DEF OneHolder
<1>4. ASSUME NEW s \in Txn, s # t
      PROVE  txn'[s] = txn[s] /\ ToLock(s)' = ToLock(s) /\ ToLockUsers(s)' = ToLockUsers(s)
    <2>1. txn'[s] = txn[s]
        BY <1>4 DEF Moves
    <2>2. \A c \in Conv : s \in convLock'[c] <=> s \in convLock[c]
        BY <1>4 DEF Release
    <2>3. \A u \in User : s \in userLock'[u] <=> s \in userLock[u]
        BY <1>4 DEF Release
    <2>4. txn[s].plan.convs \subseteq Conv /\ txn[s].goal \subseteq User
        BY DEF Moves, TxnRow, Plans
    <2> QED BY <2>1, <2>2, <2>3, <2>4 DEF ToLock, ToLockUsers
<1>5. ContextOrder'
    <2> SUFFICES ASSUME NEW c \in Conv, NEW s \in convLock'[c]
                 PROVE  /\ txn'[s].at \in {"contexts", "claim", "users", "edit"}
                        /\ txn'[s].at = "contexts" => \A d \in ToLock(s)' : c < d
        BY DEF ContextOrder
    <2>1. s # t /\ s \in convLock[c] /\ s \in Txn
        BY DEF Release, Locks
    <2> QED BY <2>1, <1>4 DEF ContextOrder
<1>6. UserOrder'
    <2> SUFFICES ASSUME NEW u \in User, NEW s \in userLock'[u]
                 PROVE  txn'[s].at = "users" /\ \A v \in ToLockUsers(s)' : u < v
        BY DEF UserOrder
    <2>1. s # t /\ s \in userLock[u] /\ s \in Txn
        BY DEF Release, Locks
    <2> QED BY <2>1, <1>4 DEF UserOrder
<1>7. ExecutionSpares'
    <2> SUFFICES ASSUME NEW c \in Conv PROVE Owner[c] \notin txn'[<<"op", c>>].goal
        BY DEF ExecutionSpares
    <2>1. Owner[c] \notin txn[<<"op", c>>].goal
        BY DEF ExecutionSpares
    <2>2. txn'[<<"op", c>>].goal \subseteq txn[<<"op", c>>].goal
        BY TxnShape DEF Moves
    <2> QED BY <2>1, <2>2
<1> QED BY <1>1, <1>2, <1>3, <1>5, <1>6, <1>7 DEF Order

\* A transaction without locks goes on, or one that has all its conversation rows.
LEMMA Goes ==
    ASSUME Inv, NEW t \in Txn, UNCHANGED locks, NEW x \in TxnRow,
           x.at \in {"edit", "settle"} => IsOp(t), txn' = [txn EXCEPT ![t] = x],
           \/ txn[t].at \in {"idle", "plan"}
           \/ txn[t].at \in {"contexts", "claim"} /\ x.at \in {"claim", "users"}
    PROVE  Locks' /\ Moves' /\ Order'
<1> USE DEF Inv
<1>1. Locks' /\ Moves' /\ OneHolder'
    BY DEF Locks, Moves, OneHolder, locks
<1>4. ASSUME NEW s \in Txn, s # t
      PROVE  txn'[s] = txn[s] /\ ToLock(s)' = ToLock(s) /\ ToLockUsers(s)' = ToLockUsers(s)
    <2>1. txn'[s] = txn[s]
        BY <1>4 DEF Moves
    <2> QED BY <2>1 DEF ToLock, ToLockUsers, locks
<1>5. ContextOrder'
    <2> SUFFICES ASSUME NEW c \in Conv, NEW s \in convLock'[c]
                 PROVE  /\ txn'[s].at \in {"contexts", "claim", "users", "edit"}
                        /\ txn'[s].at = "contexts" => \A d \in ToLock(s)' : c < d
        BY DEF ContextOrder
    <2>1. s \in convLock[c] /\ s \in Txn
        BY DEF locks, Locks
    <2>2. CASE s = t
        <3>1. txn[t].at \in {"contexts", "claim"} /\ txn'[t] = x
            BY <2>1, <2>2 DEF ContextOrder, Moves
        <3> QED BY <3>1, <2>2
    <2> QED BY <2>1, <2>2, <1>4 DEF ContextOrder
<1>6. UserOrder'
    <2> SUFFICES ASSUME NEW u \in User, NEW s \in userLock'[u]
                 PROVE  txn'[s].at = "users" /\ \A v \in ToLockUsers(s)' : u < v
        BY DEF UserOrder
    <2>1. s \in userLock[u] /\ s \in Txn
        BY DEF locks, Locks
    <2>2. s # t
        BY <2>1 DEF UserOrder
    <2> QED BY <2>1, <2>2, <1>4 DEF UserOrder
<1> QED BY <1>1, <1>5, <1>6 DEF Order

\* A transaction that has ended keeps no goal, plan or lock.
LEMMA DoneRow ==
    /\ [Idle EXCEPT !.at = "done"] \in TxnRow /\ [Idle EXCEPT !.at = "done"].goal = {}
    /\ [Idle EXCEPT !.at = "done"].at = "done"
    /\ Idle \in TxnRow /\ Idle.goal = {}
    BY DEF Idle, NoPlan, TxnRow, Plans, Places

\* Changing the place of a transaction leaves its goal alone.
LEMMA PlaceOnly ==
    ASSUME NEW x \in TxnRow, NEW at \in Places
    PROVE  /\ [x EXCEPT !.at = at] \in TxnRow /\ [x EXCEPT !.at = at].goal = x.goal
           /\ [x EXCEPT !.at = at].at = at /\ [x EXCEPT !.at = at].plan = x.plan
    BY DEF TxnRow

\* A failure releases everything and leaves the rows alone.
LEMMA FailKeeps ==
    ASSUME Inv, NEW t \in Txn, Fail(t)
    PROVE  Inv'
<1> DEFINE x == IF IsOp(t) THEN [txn[t] EXCEPT !.at = "settle"]
                ELSE [Idle EXCEPT !.at = "done"]
<1>1. txn' = [txn EXCEPT ![t] = x] /\ Release(t) /\ UNCHANGED rows
    BY DEF Fail
<1>2. x \in TxnRow /\ x.goal \subseteq txn[t].goal /\ (x.at = "settle" => IsOp(t)) /\ x.at # "edit"
    <2>1. txn[t] \in TxnRow
        BY DEF Inv, Moves
    <2>2. "settle" \in Places
        BY DEF Places
    <2> QED BY <2>1, <2>2, PlaceOnly, DoneRow
<1>3. Locks' /\ Moves' /\ Order' /\ ExecutionSpares'
    <2> HIDE DEF x
    <2> QED BY <1>1, <1>2, Ends
<1>4. Rows' /\ ProposalSpares'
    BY <1>1 DEF Inv, Rows, ProposalSpares, rows
<1> QED BY <1>3, <1>4 DEF Inv, Order

\* So does a plan that has changed.
LEMMA ChangedKeeps ==
    ASSUME Inv, NEW t \in Txn, Changed(t)
    PROVE  Inv'
<1>1. CASE txn[t].retried
    BY <1>1, FailKeeps DEF Changed
<1>2. CASE ~txn[t].retried
    <2> DEFINE x == [txn[t] EXCEPT !.at = "plan", !.plan = NoPlan, !.retried = TRUE]
    <2>1. txn' = [txn EXCEPT ![t] = x] /\ Release(t) /\ UNCHANGED rows
        BY <1>2 DEF Changed
    <2>2. x \in TxnRow /\ x.goal \subseteq txn[t].goal /\ x.at = "plan"
        <3>1. txn[t] \in TxnRow
            BY DEF Inv, Moves
        <3> QED BY <3>1 DEF TxnRow, Places, NoPlan, Plans
    <2>3. Locks' /\ Moves' /\ Order' /\ ExecutionSpares'
        <3> HIDE DEF x
        <3> QED BY <2>1, <2>2, Ends
    <2>4. Rows' /\ ProposalSpares'
        BY <2>1 DEF Inv, Rows, ProposalSpares, rows
    <2> QED BY <2>3, <2>4 DEF Inv, Order
<1> QED BY <1>1, <1>2

\* The statuses of an operation move without its targets.
LEMMA StatusOnly ==
    ASSUME Inv, NEW c \in Conv, NEW st \in Settled \cup {"log", "pending", "running"},
           op' = [op EXCEPT ![c].st = st]
    PROVE  op' \in [Conv -> OpRow] /\ ProposalSpares'
<1>1. op \in [Conv -> OpRow]
    BY DEF Inv, Rows
<1>2. [op[c] EXCEPT !.st = st] \in OpRow /\ [op[c] EXCEPT !.st = st].goal = op[c].goal
    BY <1>1 DEF OpRow
<1>3. op' \in [Conv -> OpRow]
    BY <1>1, <1>2
<1>4. \A d \in Conv : op'[d].goal = op[d].goal
    BY <1>1, <1>2
<1> QED BY <1>3, <1>4 DEF Inv, ProposalSpares

\* The conversations' own traffic touches no transaction.
LEMMA TrafficKeeps ==
    ASSUME Inv, NEW c \in Conv,
           NewConversation(c) \/ StartLog(c) \/ Propose(c) \/ Cancel(c) \/ Approve(c)
    PROVE  Inv'
<1>1. UNCHANGED <<alive, txn, locks>>
    BY DEF NewConversation, StartLog, Propose, Cancel, Approve, Step
<1>2. Locks' /\ Moves' /\ Order' /\ ExecutionSpares'
    BY <1>1 DEF Inv, Locks, Moves, Order, OneHolder, ContextOrder, UserOrder, ExecutionSpares,
                ToLock, ToLockUsers, locks
<1>3. Rows' /\ ProposalSpares'
    <2>1. CASE NewConversation(c)
        BY <2>1 DEF NewConversation, Inv, Rows, ProposalSpares
    <2>2. ASSUME NEW from, NEW to \in {"log", "preflight", "cancelled", "running"},
                 Step(c, from, to)
          PROVE  Rows' /\ ProposalSpares'
        <3>1. to \in Settled \cup {"log", "pending", "running"}
            BY DEF Settled
        <3>2. op' = [op EXCEPT ![c].st = to] /\ UNCHANGED <<alive, conv>>
            BY <2>2 DEF Step
        <3> QED BY <3>1, <3>2, StatusOnly DEF Inv, Rows
    <2>3. CASE StartLog(c) \/ Cancel(c) \/ Approve(c)
        BY <2>2, <2>3 DEF StartLog, Cancel, Approve
    <2>4. CASE Propose(c)
        <3>1. PICK k \in {"edit", "delete"}, g \in SUBSET (alive \ {Owner[c]}) :
                 op' = [op EXCEPT ![c] = [st |-> "pending", kind |-> k, goal |-> g]]
            BY <2>4 DEF Propose
        <3>2. [st |-> "pending", kind |-> k, goal |-> g] \in OpRow
            BY DEF Inv, Rows, OpRow
        <3>3. UNCHANGED <<alive, conv>>
            BY <2>4 DEF Propose
        <3> QED BY <3>1, <3>2, <3>3 DEF Inv, Rows, ProposalSpares
    <2> QED BY <2>1, <2>3, <2>4
<1> QED BY <1>2, <1>3 DEF Inv, Order

\* What an operation is about is no execution's own account.
LEMMA StartKeeps ==
    ASSUME Inv, NEW t \in Txn, Start(t)
    PROVE  Inv'
<1> USE DEF Inv
<1>0. txn[t] \in TxnRow /\ UNCHANGED <<rows, locks>> /\ txn[t].at = "idle"
    BY DEF Moves, Start, At
<1>1. PICK g \in SUBSET User :
         /\ txn' = [txn EXCEPT ![t] = [txn[t] EXCEPT !.at = "plan", !.goal = g]]
         /\ IsOp(t) => g = op[t[2]].goal
    <2>1. CASE IsOp(t)
        <3>1. op[t[2]].goal \in SUBSET User
            BY <2>1, TxnShape DEF Rows, OpRow
        <3> QED BY <2>1, <3>1 DEF Start
    <2>2. CASE ~IsOp(t)
        BY <2>2 DEF Start
    <2> QED BY <2>1, <2>2
<1> DEFINE x == [txn[t] EXCEPT !.at = "plan", !.goal = g]
<1>2. x \in TxnRow /\ x.goal = g /\ x.at = "plan"
    BY <1>0 DEF TxnRow, Places
<1>3. Locks' /\ Moves' /\ Order'
    <2>1. txn' = [txn EXCEPT ![t] = x] /\ UNCHANGED locks
        BY <1>0, <1>1
    <2> HIDE DEF x
    <2> QED BY <2>1, <1>0, <1>2, Goes
<1>4. ExecutionSpares'
    <2> SUFFICES ASSUME NEW c \in Conv PROVE Owner[c] \notin txn'[<<"op", c>>].goal
        BY DEF ExecutionSpares
    <2>1. CASE t = <<"op", c>>
        <3>1. IsOp(t) /\ t[2] = c
            BY <2>1 DEF IsOp
        <3>2. txn'[t].goal = op[c].goal
            BY <1>1, <1>2, <3>1 DEF Moves
        <3> QED BY <3>2, <2>1 DEF ProposalSpares
    <2>2. CASE t # <<"op", c>>
        BY <2>2, <1>1, TxnShape DEF Moves, ExecutionSpares
    <2> QED BY <2>1, <2>2
<1>5. Rows' /\ ProposalSpares'
    BY <1>0 DEF Rows, ProposalSpares, rows
<1> QED BY <1>3, <1>4, <1>5 DEF Order

\* The plan is of the database as it is.
LEMMA PlanShape ==
    ASSUME Rows, Moves, NEW t \in Txn
    PROVE  PlanNow(t) \in Plans
<1> DEFINE cs == {c \in Conv : conv[c] = "live" /\ Owner[c] \in txn[t].goal} \cup OwnConv(t)
<1>1. cs \subseteq Conv
    BY TxnShape DEF OwnConv
<1> HIDE DEF cs
<1>2. [convs |-> cs,
       logs  |-> {c \in cs : op[c].st # "none"},
       acts  |-> {c \in cs : op[c].st \notin {"none", "log", "preflight"}}] \in Plans
    BY <1>1 DEF Plans
<1> QED BY <1>2 DEF PlanNow, cs

\* Steps that change no lock and no row, only where a transaction is and its plan.
LEMMA GoesOn ==
    ASSUME Inv, NEW t \in Txn, UNCHANGED <<rows, locks>>, NEW x \in TxnRow,
           x.goal = txn[t].goal, x.at \in {"edit", "settle"} => IsOp(t),
           txn' = [txn EXCEPT ![t] = x],
           \/ txn[t].at \in {"idle", "plan"}
           \/ txn[t].at \in {"contexts", "claim"} /\ x.at \in {"claim", "users"}
    PROVE  Inv'
<1>1. Locks' /\ Moves' /\ Order'
    BY Goes
<1>2. ExecutionSpares'
    BY TxnShape DEF Inv, Moves, ExecutionSpares
<1>3. Rows' /\ ProposalSpares'
    BY DEF Inv, Rows, ProposalSpares, rows
<1> QED BY <1>1, <1>2, <1>3 DEF Inv, Order

\* Reading the plan.
LEMMA MakePlanKeeps ==
    ASSUME Inv, NEW t \in Txn, MakePlan(t)
    PROVE  Inv'
<1>0. txn[t] \in TxnRow /\ txn[t].at = "plan"
    BY DEF Inv, Moves, MakePlan, At
<1>1. CASE Fail(t)
    BY <1>1, FailKeeps
<1>2. CASE txn' = [txn EXCEPT ![t].at = "contexts", ![t].plan = PlanNow(t)]
           /\ UNCHANGED <<rows, locks>>
    <2> DEFINE x == [txn[t] EXCEPT !.at = "contexts", !.plan = PlanNow(t)]
    <2>1. PlanNow(t) \in Plans
        BY PlanShape DEF Inv
    <2>2. x \in TxnRow /\ x.goal = txn[t].goal /\ x.at = "contexts"
        <3> HIDE DEF Plans
        <3> QED BY <1>0, <2>1 DEF TxnRow, Places
    <2>3. txn' = [txn EXCEPT ![t] = x]
        BY <1>2, <1>0 DEF Inv, Moves, TxnRow
    <2> HIDE DEF x
    <2> QED BY <1>0, <1>2, <2>2, <2>3, GoesOn
<1> QED BY <1>1, <1>2 DEF MakePlan

\* The plan has been rechecked under its locks, or the claim under its own.
LEMMA ChecksKeep ==
    ASSUME Inv, NEW t \in Txn, CheckPlan(t) \/ CheckClaim(t)
    PROVE  Inv'
<1>0. txn[t] \in TxnRow /\ txn[t].at \in {"contexts", "claim"}
    BY DEF Inv, Moves, CheckPlan, CheckClaim, At
<1>1. CASE Fail(t) \/ Changed(t)
    BY <1>1, FailKeeps, ChangedKeeps
<1>2. ASSUME NEW at \in {"claim", "users"}, Goto(t, at), UNCHANGED <<rows, locks>>
      PROVE  Inv'
    <2> DEFINE x == [txn[t] EXCEPT !.at = at]
    <2>1. x \in TxnRow /\ x.goal = txn[t].goal /\ x.at = at
        BY <1>0 DEF TxnRow, Places
    <2>2. txn' = [txn EXCEPT ![t] = x]
        BY <1>2 DEF Goto
    <2> HIDE DEF x
    <2> QED BY <1>0, <1>2, <2>1, <2>2, GoesOn
<1>3. (IF IsOp(t) THEN "claim" ELSE "users") \in {"claim", "users"}
    OBVIOUS
<1> QED BY <1>1, <1>2, <1>3 DEF CheckPlan, CheckClaim

\* The least conversation row that is missing is taken: all others are greater.
LEMMA LockContextKeeps ==
    ASSUME Constants, Inv, NEW t \in Txn, LockContext(t)
    PROVE  Inv'
<1> USE DEF Inv
<1> DEFINE m == Min(ToLock(t))
<1>0. txn[t] \in TxnRow /\ txn[t].at = "contexts" /\ ToLock(t) # {}
    BY DEF Moves, LockContext, At
<1>1. ToLock(t) \in SUBSET Conv /\ ToLock(t) \in SUBSET Nat
    BY <1>0, Ids DEF ToLock, TxnRow, Plans
<1>2. m \in ToLock(t) /\ \A d \in ToLock(t) : m <= d
    BY <1>0, <1>1, LeastId
<1>3. CASE Fail(t)
    BY <1>3, FailKeeps
<1>4. CASE convLock[m] = {} /\ convLock' = [convLock EXCEPT ![m] = {t}]
           /\ UNCHANGED <<rows, txn, userLock>>
    <2> HIDE DEF m
    <2>0. m \in Conv /\ \A c \in Conv : convLock'[c] = IF c = m THEN {t} ELSE convLock[c]
        BY <1>1, <1>2, <1>4 DEF Locks
    <2>1. Rows' /\ Locks' /\ Moves' /\ ProposalSpares' /\ ExecutionSpares'
        BY <1>4, <2>0 DEF Rows, Locks, Moves, ProposalSpares, ExecutionSpares, rows
    <2>2. OneHolder'
        BY <2>0 DEF OneHolder
    <2>3. UserOrder'
        BY <1>4 DEF UserOrder, ToLockUsers
    <2>4. \A s \in Txn : s # t => ToLock(s)' = ToLock(s)
        <3> SUFFICES ASSUME NEW s \in Txn, s # t PROVE ToLock(s)' = ToLock(s)
            OBVIOUS
        <3>1. txn[s].plan.convs \subseteq Conv
            BY DEF Moves, TxnRow, Plans
        <3>2. \A c \in Conv : s \in convLock'[c] <=> s \in convLock[c]
            BY <2>0, <1>4
        <3> QED BY <3>1, <3>2, <1>4 DEF ToLock
    <2>5. ToLock(t)' = ToLock(t) \ {m}
        <3>1. txn[t].plan.convs \subseteq Conv
            BY <1>0 DEF TxnRow, Plans
        <3> QED BY <3>1, <2>0, <1>4 DEF ToLock
    <2>6. ContextOrder'
        <3> SUFFICES ASSUME NEW c \in Conv, NEW s \in convLock'[c]
                     PROVE  /\ txn'[s].at \in {"contexts", "claim", "users", "edit"}
                            /\ txn'[s].at = "contexts" => \A d \in ToLock(s)' : c < d
            BY DEF ContextOrder
        <3>1. CASE c = m
            <4>1. s = t /\ txn'[t].at = "contexts"
                BY <3>1, <2>0, <1>0, <1>4
            <4>2. \A d \in ToLock(t)' : m < d
                <5> SUFFICES ASSUME NEW d \in ToLock(t), d # m PROVE m < d
                    BY <2>5
                <5>1. d \in Nat /\ m \in Nat /\ m <= d
                    BY <1>1, <1>2
                <5> QED BY <5>1
            <4> QED BY <4>1, <4>2, <3>1
        <3>2. CASE c # m
            <4>1. s \in convLock[c] /\ s \in Txn
                BY <3>2, <2>0 DEF Locks
            <4> QED BY <4>1, <2>4, <2>5, <1>4 DEF ContextOrder
        <3> QED BY <3>1, <3>2
    <2> QED BY <2>1, <2>2, <2>3, <2>6
<1> QED BY <1>3, <1>4 DEF LockContext, LockTimeout, NextContext

\* The same for users; the conversation rows are all held by then.
LEMMA LockUserKeeps ==
    ASSUME Constants, Inv, NEW t \in Txn, LockUser(t)
    PROVE  Inv'
<1> USE DEF Inv
<1> DEFINE m == Min(ToLockUsers(t))
<1>0. txn[t] \in TxnRow /\ txn[t].at = "users" /\ ToLockUsers(t) # {}
    BY DEF Moves, LockUser, At
<1>1. ToLockUsers(t) \in SUBSET User /\ ToLockUsers(t) \in SUBSET Nat
    BY <1>0, Ids DEF ToLockUsers, TxnRow
<1>2. m \in ToLockUsers(t) /\ \A v \in ToLockUsers(t) : m <= v
    BY <1>0, <1>1, LeastId
<1>3. CASE Fail(t)
    BY <1>3, FailKeeps
<1>4. CASE userLock[m] = {} /\ userLock' = [userLock EXCEPT ![m] = {t}]
           /\ UNCHANGED <<rows, txn, convLock>>
    <2> HIDE DEF m
    <2>0. m \in User /\ \A u \in User : userLock'[u] = IF u = m THEN {t} ELSE userLock[u]
        BY <1>1, <1>2, <1>4 DEF Locks
    <2>1. Rows' /\ Locks' /\ Moves' /\ ProposalSpares' /\ ExecutionSpares'
        BY <1>4, <2>0 DEF Rows, Locks, Moves, ProposalSpares, ExecutionSpares, rows
    <2>2. OneHolder' /\ ContextOrder'
        BY <1>4 DEF OneHolder, ContextOrder, ToLock
    <2>4. \A s \in Txn : s # t => ToLockUsers(s)' = ToLockUsers(s)
        <3> SUFFICES ASSUME NEW s \in Txn, s # t PROVE ToLockUsers(s)' = ToLockUsers(s)
            OBVIOUS
        <3>1. txn[s].goal \subseteq User
            BY DEF Moves, TxnRow
        <3>2. \A u \in User : s \in userLock'[u] <=> s \in userLock[u]
            BY <2>0, <1>4
        <3> QED BY <3>1, <3>2, <1>4 DEF ToLockUsers
    <2>5. ToLockUsers(t)' = ToLockUsers(t) \ {m}
        <3>1. txn[t].goal \subseteq User
            BY <1>0 DEF TxnRow
        <3> QED BY <3>1, <2>0, <1>4 DEF ToLockUsers
    <2>6. UserOrder'
        <3> SUFFICES ASSUME NEW u \in User, NEW s \in userLock'[u]
                     PROVE  txn'[s].at = "users" /\ \A v \in ToLockUsers(s)' : u < v
            BY DEF UserOrder
        <3>1. CASE u = m
            <4>1. s = t /\ txn'[t].at = "users"
                BY <3>1, <2>0, <1>0, <1>4
            <4>2. \A v \in ToLockUsers(t)' : m < v
                <5> SUFFICES ASSUME NEW v \in ToLockUsers(t), v # m PROVE m < v
                    BY <2>5
                <5>1. v \in Nat /\ m \in Nat /\ m <= v
                    BY <1>1, <1>2
                <5> QED BY <5>1
            <4> QED BY <4>1, <4>2, <3>1
        <3>2. CASE u # m
            <4>1. s \in userLock[u] /\ s \in Txn
                BY <3>2, <2>0 DEF Locks
            <4> QED BY <4>1, <2>4, <2>5, <1>4 DEF UserOrder
        <3> QED BY <3>1, <3>2
    <2> QED BY <2>1, <2>2, <2>6
<1> QED BY <1>3, <1>4 DEF LockUser, LockTimeout

\* The delete commits, with the outcome of an execution, and releases everything.
LEMMA CascadeKeeps ==
    ASSUME Inv, NEW t \in Txn, Cascade(t)
    PROVE  Inv'
<1> DEFINE x == [Idle EXCEPT !.at = "done"]
<1>1. Locks' /\ Moves' /\ Order' /\ ExecutionSpares'
    <2>1. x \in TxnRow /\ x.goal \subseteq txn[t].goal /\ x.at = "done"
        BY DoneRow
    <2>2. txn' = [txn EXCEPT ![t] = x] /\ Release(t)
        BY DEF Cascade
    <2> HIDE DEF x
    <2> QED BY <2>1, <2>2, Ends
<1>2. op' \in [Conv -> OpRow] /\ ProposalSpares'
    <2>1. CASE IsOp(t)
        <3>1. op' = [op EXCEPT ![t[2]].st = "succeeded"] /\ t[2] \in Conv
            BY <2>1, TxnShape DEF Cascade
        <3>2. "succeeded" \in Settled \cup {"log", "pending", "running"}
            BY DEF Settled
        <3> QED BY <3>1, <3>2, StatusOnly
    <2>2. CASE ~IsOp(t)
        <3>1. op' = op
            BY <2>2 DEF Cascade
        <3> QED BY <3>1 DEF Inv, Rows, ProposalSpares
    <2> QED BY <2>1, <2>2
<1>3. alive' \subseteq User /\ conv' \in [Conv -> {"none", "live", "gone"}]
    BY DEF Cascade, Inv, Rows
<1> QED BY <1>1, <1>2, <1>3 DEF Inv, Order, Rows

\* The last step of a deletion: the plan still holds, or everything is undone.
LEMMA DeleteKeeps ==
    ASSUME Inv, NEW t \in Txn, Delete(t)
    PROVE  Inv'
    BY FailKeeps, ChangedKeeps, CascadeKeeps DEF Delete, RecheckAndDelete

\* A failed execution is recorded when its conversation is free again.
LEMMA SettleFailedKeeps ==
    ASSUME Inv, NEW t \in Txn, SettleFailed(t)
    PROVE  Inv'
<1> USE DEF Inv
<1> DEFINE x == [Idle EXCEPT !.at = "done"]
<1>0. t[2] \in Conv
    BY TxnShape DEF SettleFailed, At, Moves
<1>1. \A c \in Conv : t \notin convLock[c]
    BY DEF SettleFailed, ContextOrder, At
<1>2. \A u \in User : t \notin userLock[u]
    BY DEF SettleFailed, UserOrder, At
<1>3. Release(t)
    <2>1. convLock' = convLock /\ userLock' = userLock
        BY DEF SettleFailed, locks
    <2>2. convLock = [c \in Conv |-> convLock[c]] /\ userLock = [u \in User |-> userLock[u]]
        BY DEF Locks
    <2>3. \A c \in Conv : convLock[c] \ {t} = convLock[c]
        BY <1>1
    <2>4. \A u \in User : userLock[u] \ {t} = userLock[u]
        BY <1>2
    <2> QED BY <2>1, <2>2, <2>3, <2>4 DEF Release
<1>4. Locks' /\ Moves' /\ Order' /\ ExecutionSpares'
    <2>1. x \in TxnRow /\ x.goal \subseteq txn[t].goal /\ x.at = "done"
        BY DoneRow
    <2>2. txn' = [txn EXCEPT ![t] = x]
        BY DEF SettleFailed
    <2> HIDE DEF x
    <2> QED BY <2>1, <2>2, <1>3, Ends
<1>5. op' \in [Conv -> OpRow] /\ ProposalSpares'
    <2>1. "failed" \in Settled \cup {"log", "pending", "running"}
        BY DEF Settled
    <2>2. op' = [op EXCEPT ![t[2]].st = "failed"]
        BY DEF SettleFailed
    <2> QED BY <1>0, <2>1, <2>2, StatusOnly
<1>6. UNCHANGED <<alive, conv>>
    BY DEF SettleFailed
<1> QED BY <1>4, <1>5, <1>6 DEF Order, Rows

\* An edit locks its own conversation and wants no other.
LEMMA LockEditKeeps ==
    ASSUME Inv, NEW t \in Txn, LockEdit(t)
    PROVE  Inv'
<1> USE DEF Inv
<1> DEFINE x == [txn[t] EXCEPT !.at = "edit", !.goal = op[t[2]].goal]
           k == t[2]
<1>0. /\ IsOp(t) /\ txn[t] \in TxnRow /\ txn[t].at = "idle"
      /\ k \in Conv /\ t = <<"op", k>> /\ op[k] \in OpRow
    BY TxnShape DEF LockEdit, At, Moves, Rows
<1>1. x \in TxnRow /\ x.goal = op[k].goal /\ x.at = "edit"
    BY <1>0 DEF TxnRow, OpRow, Places
<1>2. /\ txn' = [txn EXCEPT ![t] = x] /\ convLock' = [convLock EXCEPT ![k] = {t}]
      /\ convLock[k] = {} /\ UNCHANGED <<rows, userLock>>
    BY DEF LockEdit
<1> HIDE DEF x
<1>3. \A s \in Txn : txn'[s] = IF s = t THEN x ELSE txn[s]
    BY <1>2 DEF Moves
<1>4. \A c \in Conv : convLock'[c] = IF c = k THEN {t} ELSE convLock[c]
    BY <1>2 DEF Locks
<1>5. Rows' /\ Locks' /\ ProposalSpares'
    BY <1>0, <1>2 DEF Rows, Locks, ProposalSpares, rows
<1>6. Moves'
    BY <1>0, <1>1, <1>2 DEF Moves, IsOp
<1>7. OneHolder'
    BY <1>4 DEF OneHolder
<1>8. ExecutionSpares'
    <2> SUFFICES ASSUME NEW c \in Conv PROVE Owner[c] \notin txn'[<<"op", c>>].goal
        BY DEF ExecutionSpares
    <2>1. CASE c = k
        BY <2>1, <1>0, <1>1, <1>3 DEF ProposalSpares
    <2>2. CASE c # k
        <3>1. <<"op", c>> # t
            BY <2>2, <1>0
        <3> QED BY <3>1, <1>3, TxnShape DEF ExecutionSpares
    <2> QED BY <2>1, <2>2
<1>9. ContextOrder'
    <2> SUFFICES ASSUME NEW c \in Conv, NEW s \in convLock'[c]
                 PROVE  /\ txn'[s].at \in {"contexts", "claim", "users", "edit"}
                        /\ txn'[s].at = "contexts" => \A d \in ToLock(s)' : c < d
        BY DEF ContextOrder
    <2>1. CASE s = t
        BY <2>1, <1>1, <1>3
    <2>2. CASE s # t
        <3>1. s \in convLock[c] /\ s \in Txn /\ txn'[s] = txn[s]
            BY <2>2, <1>3, <1>4 DEF Locks
        <3>2. txn[s].plan.convs \subseteq Conv
            BY <3>1 DEF Moves, TxnRow, Plans
        <3>3. \A d \in Conv : s \in convLock'[d] <=> s \in convLock[d]
            BY <2>2, <1>4, <1>2
        <3>4. ToLock(s)' = ToLock(s)
            BY <3>1, <3>2, <3>3 DEF ToLock
        <3> QED BY <3>1, <3>4 DEF ContextOrder
    <2> QED BY <2>1, <2>2
<1>10. UserOrder'
    <2> SUFFICES ASSUME NEW u \in User, NEW s \in userLock'[u]
                 PROVE  txn'[s].at = "users" /\ \A v \in ToLockUsers(s)' : u < v
        BY DEF UserOrder
    <2>1. s \in userLock[u] /\ s \in Txn
        BY <1>2 DEF Locks
    <2>2. txn[s].at = "users" /\ s # t
        BY <2>1, <1>0 DEF UserOrder
    <2>3. ToLockUsers(s)' = ToLockUsers(s)
        BY <2>1, <2>2, <1>2, <1>3 DEF ToLockUsers
    <2> QED BY <2>1, <2>2, <2>3, <1>3 DEF UserOrder
<1> QED BY <1>5, <1>6, <1>7, <1>8, <1>9, <1>10

\* The edit is committed with its outcome, or fails.
LEMMA EditKeeps ==
    ASSUME Inv, NEW t \in Txn, Edit(t)
    PROVE  Inv'
<1> DEFINE x == [Idle EXCEPT !.at = "done"]
<1>1. CASE Fail(t)
    BY <1>1, FailKeeps
<1>2. CASE /\ op' = [op EXCEPT ![t[2]].st = "succeeded"] /\ txn' = [txn EXCEPT ![t] = x]
           /\ Release(t) /\ UNCHANGED <<alive, conv>>
    <2>1. t[2] \in Conv
        BY TxnShape DEF Edit, At, Inv, Moves
    <2>2. op' \in [Conv -> OpRow] /\ ProposalSpares'
        <3>1. "succeeded" \in Settled \cup {"log", "pending", "running"}
            BY DEF Settled
        <3> QED BY <1>2, <2>1, <3>1, StatusOnly
    <2>3. Locks' /\ Moves' /\ Order' /\ ExecutionSpares'
        <3>1. x \in TxnRow /\ x.goal \subseteq txn[t].goal /\ x.at = "done"
            BY DoneRow
        <3> HIDE DEF x
        <3> QED BY <1>2, <3>1, Ends
    <2> QED BY <1>2, <2>2, <2>3 DEF Inv, Order, Rows
<1> QED BY <1>1, <1>2 DEF Edit, LockTimeout

-----------------------------------------------------------------------------
(* The theorems *)

\* At first nothing is open and nothing is locked.
LEMMA InitiallySound ==
    ASSUME Init
    PROVE  Inv
<1>1. Idle \in TxnRow /\ Idle.goal = {} /\ Idle.at = "idle"
    BY DoneRow DEF Idle
<1>2. NoOp \in OpRow /\ NoOp.goal = {}
    BY DEF NoOp, OpRow, Settled
<1>3. Rows /\ Locks
    BY <1>2 DEF Init, Rows, Locks
<1>4. Moves /\ ExecutionSpares
    <2>1. \A t \in Txn : txn[t] = Idle
        BY DEF Init
    <2>2. txn \in [Txn -> TxnRow]
        BY <1>1 DEF Init
    <2> QED BY <1>1, <2>1, <2>2, TxnShape DEF Moves, ExecutionSpares
<1>5. OneHolder /\ ContextOrder /\ UserOrder /\ ProposalSpares
    BY <1>2 DEF Init, OneHolder, ContextOrder, UserOrder, ProposalSpares
<1> QED BY <1>3, <1>4, <1>5 DEF Inv

\* Every step keeps the invariant.
LEMMA StepKeeps ==
    ASSUME Constants, Inv, [Next]_vars
    PROVE  Inv'
<1>1. ASSUME NEW t \in Txn,
             \/ Start(t) \/ MakePlan(t) \/ LockContext(t) \/ CheckPlan(t) \/ CheckClaim(t)
             \/ LockUser(t) \/ Delete(t) \/ LockEdit(t) \/ Edit(t) \/ SettleFailed(t)
      PROVE  Inv'
    BY <1>1, StartKeeps, MakePlanKeeps, LockContextKeeps, ChecksKeep, LockUserKeeps,
       DeleteKeeps, LockEditKeeps, EditKeeps, SettleFailedKeeps
<1>2. CASE UNCHANGED vars
    BY <1>2 DEF vars, locks, Inv, Rows, Locks, Moves, OneHolder, ContextOrder, UserOrder,
                ProposalSpares, ExecutionSpares, ToLock, ToLockUsers
<1> QED BY <1>1, <1>2, TrafficKeeps DEF Next

\* The rows are locked in one order by everybody, and no execution is about the
\* owner of its conversation (user_delete_dependency_service.lock_plan).
THEOREM Invariance ==
    ASSUME Constants
    PROVE  Spec => []Inv
<1>1. Init => Inv
    BY InitiallySound
<1>2. Inv /\ [Next]_vars => Inv'
    BY StepKeeps
<1> QED BY <1>1, <1>2, PTL DEF Spec

\* Types are correct, and deletions, executions of deletions and edits never wait
\* for each other in a circle: row locks of user_delete_dependency_service.
THEOREM NoDeadlock ==
    ASSUME Constants
    PROVE  Spec => [](TypeOK /\ NoWaitCycle)
<1>1. Inv => TypeOK /\ NoWaitCycle
    BY WellTyped, SomebodyMoves
<1> QED BY <1>1, Invariance, PTL

\* A conversation disappears only by a deletion that has read its plan again under
\* all locks and found every operation settled (recheck_after_user_locks).
LEMMA OnlySettledGo ==
    ASSUME Inv, [Next]_vars
    PROVE  EvidenceSurvives
<1>1. CASE conv' = conv
    BY <1>1 DEF EvidenceSurvives
<1>2. CASE \E c \in Conv : NewConversation(c)
    BY <1>2 DEF NewConversation, EvidenceSurvives, Inv, Rows
<1>3. ASSUME NEW t \in Txn, Delete(t)
      PROVE  EvidenceSurvives
    <2>1. CASE Cascade(t) /\ Recheck(t) /\ Resolved(t)
        BY <2>1, SettledBefore
    <2>2. CASE Fail(t) \/ Changed(t)
        BY <2>2, <1>1 DEF Fail, Changed, rows
    <2> QED BY <1>3, <2>1, <2>2 DEF Delete, RecheckAndDelete
<1>4. ASSUME NEW c \in Conv, StartLog(c) \/ Propose(c) \/ Cancel(c) \/ Approve(c)
      PROVE  conv' = conv
    BY <1>4 DEF StartLog, Propose, Cancel, Approve, Step
<1>5. ASSUME NEW t \in Txn,
             \/ Start(t) \/ MakePlan(t) \/ LockContext(t) \/ CheckPlan(t) \/ CheckClaim(t)
             \/ LockUser(t) \/ LockEdit(t) \/ Edit(t) \/ SettleFailed(t)
      PROVE  conv' = conv
    BY <1>5 DEF Start, MakePlan, LockContext, CheckPlan, CheckClaim, LockUser, LockEdit, Edit,
                SettleFailed, LockTimeout, Fail, Changed, rows
<1>6. CASE UNCHANGED vars
    BY <1>6, <1>1 DEF vars
<1> QED BY <1>1, <1>2, <1>3, <1>4, <1>5, <1>6 DEF Next

\* No deletion cascades over an operation whose outcome is open, whatever is
\* started, proposed or approved between its three readings of the plan.
THEOREM EvidenceIsKept ==
    ASSUME Constants
    PROVE  Spec => [][EvidenceSurvives]_vars
<1>1. Inv /\ [Next]_vars => [EvidenceSurvives]_vars
    BY OnlySettledGo
<1> QED BY <1>1, Invariance, PTL DEF Spec
=============================================================================
