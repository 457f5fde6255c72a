------------------------ MODULE PreparedActionProofs ------------------------
(***************************************************************************)
(* Proofs about PreparedAction for any number of actions and requests: who *)
(* is where and what an open transaction may still do, that each action    *)
(* behaves as an ActionOutcome, and what the records say: action row, audit*)
(* log, tool card and files agree with each other, a settled record is     *)
(* final, and an annotated one is frozen.                                  *)
(***************************************************************************)
EXTENDS PreparedAction, TLAPS

-----------------------------------------------------------------------------
(* The inductive invariant *)

\* The row version is a function of the status: each path counts its updates.
VersionOf(st) ==
    CASE st = "absent"    -> 0
      [] st = "pending"   -> 1
      [] st \in Cancelled -> 2
      [] st = "running"   -> 3
      [] OTHER            -> 4

RowVersions == \A a \in Action : pa[a].ver = VersionOf(pa[a].status)

\* A COMMIT under way can only make one of the four legal moves visible, and its
\* business effect exactly with the success: the row it started from is still
\* there, because every other writer waits for the conversation lock.
LegalMove(a, from, t) ==
    \/ from = "pending" /\ t.pa.status \in Cancelled \cup {"running"} /\ t.eff = 0
    \/ from = "running" /\ t.pa.status = "succeeded" /\ t.eff = 1 /\ a \in Write
    \/ from = "running" /\ t.pa.status = "failed" /\ t.eff = 0

SealedIsLegal ==
    txn # NoTxn /\ txn.sealed =>
        /\ txn.pa.ver = VersionOf(txn.pa.status)
        /\ LegalMove(txn.act, pa[txn.act].status, txn)

\* Where each process may be, and what it then holds.
Holds(p) == txn # NoTxn /\ txn.by = p /\ txn.attached /\ txn.act = req[p].act

LocalOk(q) ==
    /\ q \in ReqRow
    /\ q.pc \notin {"idle", "sweep"} => q.act \in Action
    /\ q.pc \in {"exec", "handler"} => q.act \in Write
    /\ q.pc \in {"read", "readCas"} => q.act \notin Write
    /\ q.pc = "readCas" => q.dec \in {"ok", "failed"}

ProcInv(p) ==
    /\ LocalOk(req[p])
    /\ req[p].pc \in Committing => Holds(p) /\ txn.sealed
    /\ req[p].pc = "handler" =>
         Holds(p) /\ ~txn.sealed /\ pa[req[p].act].status = "running"

RespInv ==
    \A p \in Request : resp[p].status \in Terminal =>
        resp[p].act \in Action /\ pa[resp[p].act].status = resp[p].status

\* The conjuncts of TypeOK that constrain nothing else.
SideTypes ==
    /\ log \in [Action -> LogRow]
    /\ artifact \in [Action -> BOOLEAN]
    /\ card \in [Action -> Card]
    /\ timeUp \in [Action -> BOOLEAN]
    /\ convDeleted \in BOOLEAN
    /\ todo \subseteq [act : Action, status : Status]

Inv ==
    /\ TypeOK
    /\ RowVersions
    /\ SealedIsLegal
    /\ \A p \in Proc : ProcInv(p)
    /\ EffectMatchesRecord
    /\ RespInv
-----------------------------------------------------------------------------
(* What the row operators return *)

\* A new proposal (create_pending) is a well-formed row of version 1.
LEMMA PendingRowType ==
    /\ PendingRow \in PaRow
    /\ PendingRow.status = "pending" /\ PendingRow.ver = 1
<1>1. NoPa \in PaRow
  BY DEF NoPa, PaRow, Status, Err
<1>2. 1 \in 0..4
  OBVIOUS
<1> QED
  BY <1>1, <1>2 DEF PendingRow, NoPa, PaRow, Status

\* transition_status to a terminal status counts one version.
LEMMA ClosedRowType ==
    ASSUME NEW r \in PaRow, r.ver \in 0..3, NEW st \in Terminal, NEW e \in Err
    PROVE  /\ ClosedRow(r, st, e) \in PaRow
           /\ ClosedRow(r, st, e).status = st
           /\ ClosedRow(r, st, e).ver = r.ver + 1
<1>1. r.ver + 1 \in 0..4
  OBVIOUS
<1>2. (r.approved \/ st = "rejected") \in BOOLEAN
  OBVIOUS
<1> QED
  BY <1>1, <1>2 DEF ClosedRow, PaRow, Status

\* So does failing a DB claim, which keeps its owner.
LEMMA FailedRowType ==
    ASSUME NEW r \in PaRow, r.ver \in 0..3, NEW e \in Err
    PROVE  /\ FailedRow(r, e) \in PaRow
           /\ FailedRow(r, e).status = "failed"
           /\ FailedRow(r, e).ver = r.ver + 1
<1>1. "failed" \in Terminal
  BY DEF Terminal, Finished
<1>2. ClosedRow(r, "failed", e) \in PaRow
  BY <1>1, ClosedRowType
<1> QED
  BY <1>1, <1>2, ClosedRowType DEF FailedRow, PaRow

\* The claim counts two: pending -> approved -> running.
LEMMA ClaimedRowType ==
    ASSUME NEW r \in PaRow, r.ver = 1, NEW p \in Request
    PROVE  /\ ClaimedRow(r, p) \in PaRow
           /\ ClaimedRow(r, p).status = "running"
           /\ ClaimedRow(r, p).ver = 3
<1>1. r.ver + 2 \in 0..4 /\ r.ver + 2 = 3
  OBVIOUS
<1> QED
  BY <1>1 DEF ClaimedRow, PaRow, Status

\* The log moves that go with them are well formed.
LEMMA LogTypes ==
    ASSUME NEW l \in LogRow
    PROVE  /\ RunningLog(l) \in LogRow
           /\ \A st \in LogStatus, e \in Err : ClosedLog(l, st, e) \in LogRow
BY DEF RunningLog, ClosedLog, LogRow, LogStatus

-----------------------------------------------------------------------------
(* Kinds of steps *)

ReqStep(p, q) == req' = [req EXCEPT ![p] = q] /\ LocalOk(q)

RespStep(p) ==
    \/ resp' = resp
    \/ /\ p \in Request
       /\ \E x \in RespRow :
            /\ resp' = [resp EXCEPT ![p] = x]
            /\ x.status \in Terminal => x.act \in Action /\ pa'[x.act].status = x.status

\* TypeOK, split into the part that only types and the part that is used.
LEMMA TypeParts ==
    TypeOK <=> /\ SideTypes
               /\ pa \in [Action -> PaRow]
               /\ effect \in [Action -> Nat]
               /\ txn \in TxnRow \cup {NoTxn}
               /\ req \in [Proc -> ReqRow]
               /\ resp \in [Request -> RespRow]
BY DEF TypeOK, SideTypes

\* The processes that take no part in a step keep their invariant.
LEMMA OtherProcs ==
    ASSUME Inv, NEW p,
           \A q \in Proc \ {p} : req'[q] = req[q],
           \/ txn = NoTxn
           \/ txn.by = p
           \/ ~txn.attached
           \/ txn' = txn /\ \A a \in Action : pa'[a].status = pa[a].status
    PROVE  \A q \in Proc \ {p} : ProcInv(q)'
<1> TAKE q \in Proc \ {p}
<1>1. ProcInv(q) /\ req'[q] = req[q]
  BY DEF Inv
<1>2. LocalOk(req[q])' 
  BY <1>1 DEF ProcInv, LocalOk
<1>3. CASE txn' = txn /\ \A a \in Action : pa'[a].status = pa[a].status
  <2>1. req[q].pc = "handler" => req[q].act \in Action
    BY <1>1 DEF ProcInv, LocalOk
  <2> QED
    BY <1>1, <1>2, <1>3, <2>1 DEF ProcInv, Holds
<1>4. CASE txn = NoTxn \/ txn.by = p \/ ~txn.attached
  BY <1>1, <1>2, <1>4 DEF ProcInv, Holds
<1> QED
  BY <1>3, <1>4

\* Answers given earlier stay true as long as terminal rows do.
LEMMA RespKept ==
    ASSUME Inv, NEW p \in Proc, RespStep(p),
           \A a \in Action : pa[a].status \in Terminal => pa'[a].status = pa[a].status
    PROVE  RespInv' /\ resp' \in [Request -> RespRow]
BY DEF Inv, TypeOK, RespInv, RespStep

\* A step in which p moves and at most lets go of its own transaction.
LEMMA ControlStep ==
    ASSUME Inv, SideTypes', NEW p \in Proc, NEW q, ReqStep(p, q), RespStep(p),
           q.pc \notin Committing \cup {"handler"},
           pa' = pa, effect' = effect,
           \/ txn' = txn
           \/ txn # NoTxn /\ txn.by = p /\ txn' \in {NoTxn, [txn EXCEPT !.attached = FALSE]}
    PROVE  Inv'
<1>1. txn' \in TxnRow \cup {NoTxn}
  BY DEF Inv, TypeOK, TxnRow
<1>2. req' \in [Proc -> ReqRow] /\ req'[p] = q /\ \A r \in Proc \ {p} : req'[r] = req[r]
  BY DEF Inv, TypeOK, ReqStep, LocalOk
<1>3. RespInv' /\ resp' \in [Request -> RespRow]
  BY RespKept
<1>4. TypeOK'
  BY <1>1, <1>2, <1>3 DEF Inv, TypeOK, SideTypes
<1>5. SealedIsLegal'
  BY DEF Inv, TypeOK, SealedIsLegal, LegalMove, TxnRow
<1>6. \A r \in Proc \ {p} : ProcInv(r)'
  BY <1>2, OtherProcs
<1>7. ProcInv(p)'
  BY <1>2 DEF ProcInv, ReqStep, LocalOk
<1> QED
  BY <1>3, <1>4, <1>5, <1>6, <1>7 DEF Inv, RowVersions, EffectMatchesRecord

\* A step in which p, holding the lock, writes (or rewrites) its transaction.
LEMMA OpenStep ==
    ASSUME Inv, SideTypes', NEW p \in Proc, NEW q, ReqStep(p, q), resp' = resp,
           pa' = pa, effect' = effect,
           txn = NoTxn \/ txn.by = p,
           txn' \in TxnRow, txn'.by = p, txn'.attached, txn'.act = q.act,
           \/ /\ q.pc \in Committing /\ txn'.sealed
              /\ txn'.pa.ver = VersionOf(txn'.pa.status)
              /\ LegalMove(txn'.act, pa[txn'.act].status, txn')
           \/ /\ q.pc = "handler" /\ ~txn'.sealed
              /\ pa[q.act].status = "running"
    PROVE  Inv'
<1>1. txn' # NoTxn
  BY ProtocolAssumption
<1>2. req' \in [Proc -> ReqRow] /\ req'[p] = q /\ \A r \in Proc \ {p} : req'[r] = req[r]
  BY DEF Inv, TypeOK, ReqStep, LocalOk
<1>3. TypeOK'
  BY <1>2 DEF Inv, TypeOK, SideTypes
<1>4. SealedIsLegal'
  BY <1>1 DEF SealedIsLegal, LegalMove, Committing
<1>5. \A r \in Proc \ {p} : ProcInv(r)'
  BY <1>2, OtherProcs
<1>6. ProcInv(p)'
  BY <1>1, <1>2 DEF ProcInv, ReqStep, Holds, LocalOk, Committing
<1> QED
  BY <1>3, <1>4, <1>5, <1>6 DEF Inv, RowVersions, EffectMatchesRecord, RespInv

\* What COMMIT does to the rows.
LEMMA ApplyRows ==
    ASSUME Inv, txn # NoTxn, txn.sealed, Apply, UNCHANGED <<world, todo>>
    PROVE  /\ SideTypes' /\ txn' = NoTxn
           /\ pa' \in [Action -> PaRow]
           /\ effect' \in [Action -> Nat]
           /\ RowVersions' /\ EffectMatchesRecord'
           /\ \A a \in Action : pa[a].status \in Terminal => pa'[a].status = pa[a].status
<1> DEFINE a == txn.act
<1>1. txn \in TxnRow /\ a \in Action /\ txn.pa \in PaRow /\ txn.log \in LogRow /\ txn.card \in Card
  BY DEF Inv, TypeOK, TxnRow
<1>2. txn.pa.ver = VersionOf(txn.pa.status) /\ LegalMove(a, pa[a].status, txn)
  BY DEF Inv, SealedIsLegal
<1>3. /\ pa' = [pa EXCEPT ![a] = txn.pa]
      /\ effect' = [effect EXCEPT ![a] = effect[a] + txn.eff]
      /\ txn' = NoTxn
  BY DEF Apply
<1>4. SideTypes'
  BY <1>1 DEF Inv, TypeOK, Apply, SideTypes, world
<1>5. pa' \in [Action -> PaRow] /\ pa'[a] = txn.pa /\ \A b \in Action \ {a} : pa'[b] = pa[b]
  BY <1>1, <1>3 DEF Inv, TypeOK
<1>6. /\ effect[a] \in Nat /\ txn.eff \in {0, 1}
      /\ effect' \in [Action -> Nat]
      /\ effect'[a] = effect[a] + txn.eff
      /\ \A b \in Action \ {a} : effect'[b] = effect[b]
  <2>1. effect[a] \in Nat /\ txn.eff \in {0, 1}
    BY <1>1 DEF Inv, TypeOK, TxnRow
  <2>2. effect[a] + txn.eff \in Nat
    BY <2>1
  <2> QED
    BY <1>1, <1>3, <2>1, <2>2 DEF Inv, TypeOK
<1>7. RowVersions'
  BY <1>2, <1>5 DEF Inv, RowVersions
<1>8. EffectMatchesRecord'
  <2>1. effect[a] = 0
    BY <1>1, <1>2 DEF Inv, EffectMatchesRecord, LegalMove
  <2>2. effect'[a] = IF a \in Write /\ pa'[a].status = "succeeded" THEN 1 ELSE 0
    BY <1>2, <1>5, <1>6, <2>1 DEF LegalMove, Cancelled
  <2> QED
    BY <1>5, <1>6, <2>2 DEF Inv, EffectMatchesRecord
<1>9. \A b \in Action : pa[b].status \in Terminal => pa'[b].status = pa[b].status
  BY <1>2, <1>5 DEF LegalMove, Terminal, Cancelled, Finished
<1> QED
  BY <1>3, <1>4, <1>5, <1>6, <1>7, <1>8, <1>9

\* Rows written in one short transaction while nobody holds the lock, or only
\* their leases: control state and versions follow the statuses.
LEMMA DirectStep ==
    ASSUME Inv, SideTypes', pa' \in [Action -> PaRow], RowVersions',
           UNCHANGED <<effect, txn, req, resp>>,
           \A a \in Action :
               \/ pa'[a].status = pa[a].status
               \/ txn = NoTxn /\ pa[a].status = "absent" /\ pa'[a].status = "pending"
               \/ txn = NoTxn /\ pa[a].status = "pending" /\ pa'[a].status = "expired"
    PROVE  Inv'
<1>1. TypeOK'
  BY DEF Inv, TypeOK, SideTypes
<1>2. SealedIsLegal'
  BY DEF Inv, TypeOK, TxnRow, SealedIsLegal, LegalMove
<1>3. \A q \in Proc : ProcInv(q)'
  <2>1. NoProc \notin Proc
    BY ProtocolAssumption
  <2>2. \A q \in Proc \ {NoProc} : ProcInv(q)'
    BY OtherProcs
  <2> QED
    BY <2>1, <2>2
<1>4. EffectMatchesRecord'
  BY DEF Inv, EffectMatchesRecord
<1>5. RespInv'
  BY DEF Inv, RespInv, Terminal, Cancelled, Finished
<1> QED
  BY <1>1, <1>2, <1>3, <1>4, <1>5 DEF Inv

-----------------------------------------------------------------------------
(* How processes move *)

\* Answering ends the request, or sends the sweeper to its next candidate.
LEMMA AnswerMoves ==
    ASSUME Inv, NEW p \in Proc, NEW st \in Status \cup {"none", "error", "notfound"},
           req[p].pc \notin {"idle", "sweep"}, Answer(p, st),
           st \in Terminal => pa'[req[p].act].status = st
    PROVE  RespStep(p) /\ \E q : ReqStep(p, q) /\ q.pc \in {"idle", "sweep"}
<1>1. req[p] \in ReqRow /\ req[p].act \in Action
  BY DEF Inv, TypeOK, ProcInv, LocalOk
<1>2. CASE p = Sweeper
  <2> DEFINE q == [req[p] EXCEPT !.pc = "sweep", !.act = NoAct]
  <2>1. q \in ReqRow /\ q.pc = "sweep"
    BY <1>1 DEF ReqRow, PC
  <2>2. LocalOk(q)
    BY <2>1 DEF LocalOk
  <2>3. req' = [req EXCEPT ![p] = q]
    BY <1>1, <1>2 DEF Answer, Inv, TypeOK, ReqRow
  <2> QED
    BY <1>2, <2>1, <2>2, <2>3 DEF Answer, ReqStep, RespStep
<1>3. CASE p # Sweeper
  <2>1. Idle \in ReqRow /\ Idle.pc = "idle"
    BY DEF Idle, ReqRow, PC, Decision
  <2>2. LocalOk(Idle)
    BY <2>1 DEF LocalOk
  <2>3. req' = [req EXCEPT ![p] = Idle]
    BY <1>3 DEF Answer
  <2> DEFINE x == [act |-> req[p].act, status |-> st]
  <2>4. x \in RespRow /\ p \in Request /\ resp' = [resp EXCEPT ![p] = x]
    BY <1>1, <1>3 DEF Answer, RespRow, Proc
  <2> QED
    BY <1>1, <2>1, <2>2, <2>3, <2>4 DEF ReqStep, RespStep
<1> QED
  BY <1>2, <1>3

\* Moving on keeps the action a process works on.
LEMMA GotoMoves ==
    ASSUME Inv, NEW p \in Proc, NEW l \in PC, Goto(p, l),
           req[p].pc \notin {"idle", "sweep"},
           l \in {"exec", "handler"} => req[p].act \in Write,
           l # "readCas", l = "read" => req[p].act \notin Write
    PROVE  \E q : ReqStep(p, q) /\ q.pc = l /\ q.act = req[p].act
<1> DEFINE q == [req[p] EXCEPT !.pc = l]
<1>1. req[p] \in ReqRow /\ req[p].act \in Action
  BY DEF Inv, TypeOK, ProcInv, LocalOk
<1>2. q \in ReqRow /\ q.pc = l /\ q.act = req[p].act
  BY <1>1 DEF ReqRow
<1>3. req' = [req EXCEPT ![p] = q]
  BY <1>1 DEF Goto, Inv, TypeOK, ReqRow
<1> QED
  BY <1>1, <1>2, <1>3 DEF ReqStep, LocalOk

\* A process that only answers, or only goes on, keeps the invariant.
LEMMA AnswerKeeps ==
    ASSUME Inv, SideTypes', NEW p \in Proc, NEW st \in Status \cup {"none", "error", "notfound"},
           req[p].pc \notin {"idle", "sweep"}, Answer(p, st),
           st \in Terminal => pa[req[p].act].status = st,
           pa' = pa, effect' = effect,
           \/ txn' = txn
           \/ txn # NoTxn /\ txn.by = p /\ txn' \in {NoTxn, [txn EXCEPT !.attached = FALSE]}
    PROVE  Inv'
<1>1. RespStep(p) /\ \E q : ReqStep(p, q) /\ q.pc \in {"idle", "sweep"}
  BY AnswerMoves
<1>2. PICK q : ReqStep(p, q) /\ q.pc \in {"idle", "sweep"}
  BY <1>1
<1>3. q.pc \notin Committing \cup {"handler"}
  BY <1>2 DEF Committing
<1> QED
  BY <1>1, <1>2, <1>3, ControlStep

\* The same for a process that only goes on.
LEMMA GotoKeeps ==
    ASSUME Inv, SideTypes', NEW p \in Proc, NEW l \in PC, Goto(p, l),
           req[p].pc \notin {"idle", "sweep"}, l \notin Committing \cup {"handler"},
           l = "exec" => req[p].act \in Write,
           l # "readCas", l = "read" => req[p].act \notin Write,
           resp' = resp, pa' = pa, effect' = effect,
           \/ txn' = txn
           \/ txn # NoTxn /\ txn.by = p /\ txn' \in {NoTxn, [txn EXCEPT !.attached = FALSE]}
    PROVE  Inv'
<1>1. PICK q : ReqStep(p, q) /\ q.pc = l /\ q.act = req[p].act
  BY GotoMoves
<1>2. RespStep(p)
  BY DEF RespStep
<1> QED
  BY <1>1, <1>2, ControlStep

\* Steps that write no log, card or clock keep their types.
LEMMA SideKept ==
    ASSUME Inv, UNCHANGED <<log, card, world, todo>>
    PROVE  SideTypes'
BY DEF Inv, TypeOK, SideTypes, world

\* p opens a transaction that its COMMIT will try to make visible.
LEMMA TxnOpens ==
    ASSUME Inv, UNCHANGED <<rows, resp, todo>>, SideTypes', NEW p \in Proc,
           req[p].pc \notin {"idle", "sweep"},
           txn = NoTxn \/ txn.by = p,
           NEW r \in PaRow, NEW l \in LogRow, NEW e \in {0, 1}, NEW c \in Card,
           Txn(p, r, l, e, c, TRUE),
           r.ver = VersionOf(r.status),
           LegalMove(req[p].act, pa[req[p].act].status, [pa |-> r, eff |-> e]),
           NEW q, ReqStep(p, q), q.pc \in Committing, q.act = req[p].act
    PROVE  Inv'
<1>1. req[p].act \in Action
  BY DEF Inv, ProcInv, LocalOk
<1>2. /\ txn' \in TxnRow /\ txn'.by = p /\ txn'.attached /\ txn'.act = req[p].act
      /\ txn'.sealed /\ txn'.pa = r /\ txn'.eff = e
  BY <1>1 DEF Txn, TxnRow
<1>3. LegalMove(txn'.act, pa[txn'.act].status, txn')
  BY <1>2 DEF LegalMove
<1> QED
  BY <1>2, <1>3, OpenStep DEF rows

\* p changes the visible rows, its transaction is over.
LEMMA RowStep ==
    ASSUME Inv, SideTypes', NEW p \in Proc, NEW q, ReqStep(p, q), RespStep(p),
           q.pc \notin Committing \cup {"handler"},
           txn = NoTxn \/ txn.by = p, txn' = NoTxn,
           pa' \in [Action -> PaRow], effect' \in [Action -> Nat],
           RowVersions', EffectMatchesRecord',
           \A b \in Action : pa[b].status \in Terminal => pa'[b].status = pa[b].status
    PROVE  Inv'
<1>1. req' \in [Proc -> ReqRow] /\ req'[p] = q /\ \A r \in Proc \ {p} : req'[r] = req[r]
  BY DEF Inv, TypeOK, ReqStep, LocalOk
<1>2. RespInv' /\ resp' \in [Request -> RespRow]
  BY RespKept
<1>3. TypeOK'
  BY <1>1, <1>2 DEF TypeOK, SideTypes
<1>4. SealedIsLegal'
  BY DEF SealedIsLegal
<1>5. \A r \in Proc \ {p} : ProcInv(r)'
  BY <1>1, OtherProcs
<1>6. ProcInv(p)'
  BY <1>1 DEF ProcInv, ReqStep, LocalOk
<1> QED
  BY <1>2, <1>3, <1>4, <1>5, <1>6 DEF Inv

-----------------------------------------------------------------------------
(* The actions of POST /ai/confirm *)

\* What the invariant says of one row.
LEMMA RowFacts ==
    ASSUME Inv, NEW a \in Action
    PROVE  /\ pa[a] \in PaRow /\ log[a] \in LogRow /\ card[a] \in Card
           /\ pa[a].status = "pending" => pa[a].ver = 1
           /\ pa[a].status = "running" => pa[a].ver = 3
BY DEF Inv, TypeOK, RowVersions, VersionOf, Cancelled

\* The unlocked first read of POST /ai/confirm keeps the invariant.
LEMMA BeginConfirmKeeps ==
    ASSUME Inv, NEW p \in Request, NEW a \in Action, NEW d \in {"approve", "reject"},
           BeginConfirm(p, a, d)
    PROVE  Inv'
<1> DEFINE pc == CASE a \in Write /\ pa[a].status \in Cancelled -> "proof"
                   [] a \in Write /\ pa[a].status \in Finished \cup {"running"} -> "reconcile"
                   [] OTHER -> "lock"
           q == IF log[a].note THEN Idle ELSE [pc |-> pc, act |-> a, dec |-> d, claim |-> 0]
           x == IF log[a].note THEN [act |-> a, status |-> "running"] ELSE NoResp
<1>1. pc \in {"proof", "reconcile", "lock"}
  OBVIOUS
<1>2. q \in ReqRow /\ q.pc \in {"idle", "proof", "reconcile", "lock"} /\ (q.pc # "idle" => q.act = a)
  BY <1>1 DEF ReqRow, PC, Locking, Decision, Idle
<1>3. LocalOk(q) /\ q.pc \notin Committing \cup {"handler"}
  BY <1>2 DEF LocalOk, Committing
<1>4. ReqStep(p, q)
  BY <1>3 DEF BeginConfirm, ReqStep
<1>5. x \in RespRow /\ x.status \notin Terminal
  BY DEF RespRow, NoResp, Status, Terminal, Cancelled, Finished
<1>6. RespStep(p)
  BY <1>5 DEF BeginConfirm, RespStep
<1>7. UNCHANGED <<pa, effect, txn, log, card, world, todo>> /\ p \in Proc
  BY DEF BeginConfirm, rows, Proc
<1>8. SideTypes'
  BY <1>7, SideKept
<1> QED
  BY <1>3, <1>4, <1>6, <1>7, <1>8, ControlStep

\* ... a deleted conversation,
LEMMA ConfirmGoneKeeps ==
    ASSUME Inv, NEW p \in Request, ConfirmGone(p)
    PROVE  Inv'
<1>1. UNCHANGED <<pa, effect, txn, log, card, world, todo>> /\ p \in Proc /\ req[p].pc = "lock"
  BY DEF ConfirmGone, rows, Proc, At
<1>2. SideTypes'
  BY <1>1, SideKept
<1>3. CASE Goto(p, "reconcile") /\ resp' = resp
  <2>1. "reconcile" \in PC /\ "reconcile" \notin Committing
    BY DEF PC, Locking, Committing
  <2> QED
    BY <1>1, <1>2, <1>3, <2>1, GotoKeeps
<1>4. CASE Answer(p, "notfound")
  <2>1. "notfound" \notin Terminal
    BY DEF Terminal, Cancelled, Finished
  <2> QED
    BY <1>1, <1>2, <1>4, <2>1, AnswerKeeps
<1> QED
  BY <1>3, <1>4 DEF ConfirmGone

\* ... a decision taken by somebody else meanwhile,
LEMMA ConfirmDecidedKeeps ==
    ASSUME Inv, NEW p \in Request, ConfirmDecided(p)
    PROVE  Inv'
<1> DEFINE a == req[p].act
           st == pa[a].status
<1>1. UNCHANGED <<pa, effect, txn, log, card, world, todo>> /\ p \in Proc /\ req[p].pc = "lock"
  BY DEF ConfirmDecided, rows, Proc, At
<1>2. SideTypes'
  BY <1>1, SideKept
<1>3. a \in Action
  BY <1>1 DEF Inv, ProcInv, LocalOk
<1>4. st \in Status
  BY <1>3, RowFacts DEF PaRow
<1>5. CASE \E l \in {"proof", "reconcile", "project"} : Goto(p, l) /\ resp' = resp
  <2>1. PICK l \in {"proof", "reconcile", "project"} : Goto(p, l) /\ resp' = resp
    BY <1>5
  <2>2. l \in PC /\ l \notin Committing
    BY DEF PC, Locking, Committing
  <2> QED
    BY <1>1, <1>2, <2>1, <2>2, GotoKeeps
<1>6. CASE Answer(p, st)
  BY <1>1, <1>2, <1>4, <1>6, AnswerKeeps
<1>7. CASE Answer(p, "error")
  <2>1. "error" \notin Terminal
    BY DEF Terminal, Cancelled, Finished
  <2> QED
    BY <1>1, <1>2, <1>7, <2>1, AnswerKeeps
<1> QED
  BY <1>5, <1>6, <1>7 DEF ConfirmDecided

\* ... rejecting, expiring or refusing under the locks,
LEMMA ConfirmCloseKeeps ==
    ASSUME Inv, NEW p \in Request, NEW st \in Cancelled, NEW e \in Err, ConfirmClose(p, st, e)
    PROVE  Inv'
<1> DEFINE a == req[p].act
           r == ClosedRow(pa[a], st, e)
           l == ClosedLog(log[a], st, IF st = "rejected" THEN "none" ELSE e)
<1>1. /\ UNCHANGED <<rows, world, resp, todo>> /\ p \in Proc /\ req[p].pc = "lock"
      /\ txn = NoTxn /\ pa[a].status = "pending"
      /\ Txn(p, r, l, 0, "failed", TRUE) /\ Goto(p, "termCommit")
  BY DEF ConfirmClose, Proc, At, CanLeavePending
<1>2. SideTypes'
  BY <1>1, SideKept DEF rows
<1>3. a \in Action
  BY <1>1 DEF Inv, ProcInv, LocalOk
<1>4. r \in PaRow /\ r.status = st /\ r.ver = 2
  BY <1>1, <1>3, RowFacts, ClosedRowType DEF Terminal
<1>5. l \in LogRow
  BY <1>3, RowFacts, LogTypes DEF LogStatus, Err
<1>6. PICK q : ReqStep(p, q) /\ q.pc = "termCommit" /\ q.act = a
  BY <1>1, GotoMoves DEF PC, Committing
<1>7. r.ver = VersionOf(r.status) /\ LegalMove(a, pa[a].status, [pa |-> r, eff |-> 0])
  BY <1>1, <1>4 DEF VersionOf, LegalMove, Cancelled
<1> QED
  BY <1>1, <1>2, <1>4, <1>5, <1>6, <1>7, TxnOpens DEF Card, Committing

\* ... and the claim.
LEMMA ConfirmClaimKeeps ==
    ASSUME Inv, NEW p \in Request, ConfirmClaim(p)
    PROVE  Inv'
<1> DEFINE a == req[p].act
           r == ClaimedRow(pa[a], p)
           l == RunningLog(log[a])
           q == [req[p] EXCEPT !.pc = "claimCommit", !.claim = 3]
<1>1. /\ UNCHANGED <<rows, world, resp, todo>> /\ p \in Proc /\ req[p].pc = "lock"
      /\ txn = NoTxn /\ pa[a].status = "pending"
      /\ Txn(p, r, l, 0, card[a], TRUE)
      /\ req' = [req EXCEPT ![p].pc = "claimCommit", ![p].claim = pa[a].ver + 2]
  BY DEF ConfirmClaim, Proc, At, CanLeavePending
<1>2. SideTypes'
  BY <1>1, SideKept DEF rows
<1>3. a \in Action /\ req[p] \in ReqRow
  BY <1>1 DEF Inv, TypeOK, ProcInv, LocalOk
<1>4. r \in PaRow /\ r.status = "running" /\ r.ver = 3 /\ l \in LogRow /\ card[a] \in Card
  BY <1>1, <1>3, RowFacts, ClaimedRowType, LogTypes
<1>5. q \in ReqRow /\ q.pc = "claimCommit" /\ q.act = a
  <2>1. 3 \in 0..4 /\ "claimCommit" \in PC
    BY DEF PC, Committing
  <2> QED
    BY <1>3, <2>1 DEF ReqRow
<1>6. ReqStep(p, q)
  <2>1. pa[a].ver + 2 = 3
    BY <1>1, <1>3, RowFacts
  <2>2. req' = [req EXCEPT ![p] = q]
    BY <1>1, <1>3, <2>1 DEF Inv, TypeOK, ReqRow
  <2> QED
    BY <1>3, <1>5, <2>2 DEF ReqStep, LocalOk
<1>7. r.ver = VersionOf(r.status) /\ LegalMove(a, pa[a].status, [pa |-> r, eff |-> 0])
  BY <1>1, <1>4 DEF VersionOf, LegalMove, Cancelled
<1> QED
  BY <1>1, <1>2, <1>4, <1>5, <1>6, <1>7, TxnOpens DEF Committing

-----------------------------------------------------------------------------
(* COMMIT *)

\* Answers that promise nothing.
LEMMA UnsentAnswers ==
    /\ "error" \notin Terminal /\ "running" \notin Terminal /\ "none" \notin Terminal
    /\ "running" \in Status
BY DEF Status, Terminal, Cancelled, Finished

\* An acknowledged COMMIT makes one legal move visible.
LEMMA CommitAckedKeeps ==
    ASSUME Inv, NEW p \in Proc, CommitAcked(p)
    PROVE  Inv'
<1> DEFINE a == req[p].act
<1>1. /\ req[p].pc \in Committing /\ txn # NoTxn /\ txn.by = p /\ Apply /\ UNCHANGED <<world, todo>>
  BY DEF CommitAcked
<1>2. txn.sealed /\ txn.act = a /\ a \in Action /\ req[p].pc \notin {"idle", "sweep"}
  BY <1>1 DEF Inv, ProcInv, LocalOk, Holds, Committing
<1>3. /\ SideTypes' /\ txn' = NoTxn
      /\ pa' \in [Action -> PaRow] /\ effect' \in [Action -> Nat]
      /\ RowVersions' /\ EffectMatchesRecord'
      /\ \A b \in Action : pa[b].status \in Terminal => pa'[b].status = pa[b].status
  BY <1>1, <1>2, ApplyRows
<1>4. pa'[a].status = txn.pa.status /\ txn.pa.status \in Status
  BY <1>1, <1>2 DEF Apply, Inv, TypeOK, TxnRow, PaRow
<1>5. RespStep(p) /\ \E q : ReqStep(p, q) /\ q.pc \notin Committing \cup {"handler"}
  <2>1. CASE \E st \in {txn.pa.status, "none", "error"} : Answer(p, st)
    <3>1. PICK st \in {txn.pa.status, "none", "error"} : Answer(p, st)
      BY <2>1
    <3>2. st \in Status \cup {"none", "error"} /\ (st \in Terminal => pa'[a].status = st)
      BY <1>4, UnsentAnswers
    <3>3. RespStep(p) /\ \E q : ReqStep(p, q) /\ q.pc \in {"idle", "sweep"}
      BY <1>2, <3>1, <3>2, AnswerMoves
    <3> QED
      BY <3>3 DEF Committing
  <2>2. CASE /\ resp' = resp
             /\ \/ Goto(p, IF a \in Write THEN "exec" ELSE "read")
                \/ Goto(p, "project")
    <3>1. PICK l \in {"exec", "read", "project"} :
              Goto(p, l) /\ (l = "exec" => a \in Write) /\ (l = "read" => a \notin Write)
      BY <2>2
    <3>2. l \in PC /\ l \notin Committing \cup {"handler"}
      BY DEF PC, Locking, Committing
    <3>3. \E q : ReqStep(p, q) /\ q.pc = l /\ q.act = req[p].act
      BY <1>2, <3>1, <3>2, GotoMoves
    <3> QED
      BY <2>2, <3>2, <3>3 DEF RespStep
  <2> QED
    BY <2>1, <2>2 DEF CommitAcked, ClosingAnswer
<1>6. PICK q : ReqStep(p, q) /\ q.pc \notin Committing \cup {"handler"}
  BY <1>5
<1> QED
  BY <1>1, <1>3, <1>5, <1>6, RowStep

\* A lost acknowledgement changes no row.
LEMMA CommitUnknownKeeps ==
    ASSUME Inv, NEW p \in Proc, CommitUnknown(p)
    PROVE  Inv'
<1>1. /\ UNCHANGED <<rows, world>> /\ todo' \in {todo, {}}
      /\ txn # NoTxn /\ txn.by = p /\ txn' = [txn EXCEPT !.attached = FALSE]
      /\ req[p].pc \in Committing
  BY DEF CommitUnknown
<1>2. req[p].pc \notin {"idle", "sweep"} /\ pa' = pa /\ effect' = effect
  BY <1>1 DEF Committing, rows
<1>3. SideTypes'
  BY <1>1 DEF Inv, TypeOK, SideTypes, world, rows
<1>4. CASE Answer(p, "error")
  BY <1>1, <1>2, <1>3, <1>4, UnsentAnswers, AnswerKeeps
<1>5. CASE resp' = resp /\ \E l \in {"reconcile", "factRead"} : Goto(p, l)
  <2>1. PICK l \in {"reconcile", "factRead"} : Goto(p, l)
    BY <1>5
  <2>2. l \in PC /\ l \notin Committing
    BY DEF PC, Locking, Committing
  <2> QED
    BY <1>1, <1>2, <1>3, <1>5, <2>1, <2>2, GotoKeeps
<1>6. CASE req' = [req EXCEPT ![p] = Idle] /\ resp' = resp
  <2>1. LocalOk(Idle) /\ Idle.pc \notin Committing \cup {"handler"}
    BY DEF LocalOk, Idle, ReqRow, PC, Decision, Committing
  <2> QED
    BY <1>1, <1>2, <1>3, <1>6, <2>1, ControlStep DEF ReqStep, RespStep
<1> QED
  BY <1>4, <1>5, <1>6 DEF CommitUnknown, UnackedAnswer

\* The invariant does not depend on the client of a detached transaction.
LEMMA ServerCommitKeeps ==
    ASSUME Inv, ServerCommit
    PROVE  Inv'
<1>1. txn # NoTxn /\ txn.sealed /\ ~txn.attached /\ Apply /\ UNCHANGED <<world, req, resp, todo>>
  BY DEF ServerCommit
<1>2. /\ SideTypes' /\ txn' = NoTxn
      /\ pa' \in [Action -> PaRow] /\ effect' \in [Action -> Nat]
      /\ RowVersions' /\ EffectMatchesRecord'
      /\ \A b \in Action : pa[b].status \in Terminal => pa'[b].status = pa[b].status
  BY <1>1, ApplyRows
<1>3. RespInv' /\ resp' \in [Request -> RespRow]
  BY <1>1, <1>2, RespKept DEF RespStep, Proc
<1>4. TypeOK'
  BY <1>1, <1>2, <1>3 DEF Inv, TypeOK, SideTypes
<1>5. \A q \in Proc \ {NoProc} : ProcInv(q)'
  BY <1>1, OtherProcs
<1> QED
  BY <1>2, <1>3, <1>4, <1>5, ProtocolAssumption DEF Inv, SealedIsLegal

\* The server drops a transaction whose client is gone.
LEMMA ServerAbortKeeps ==
    ASSUME Inv, ServerAbort
    PROVE  Inv'
<1>1. txn # NoTxn /\ ~txn.attached /\ txn' = NoTxn /\ UNCHANGED <<rows, world, req, resp, todo>>
  BY DEF ServerAbort
<1>2. TypeOK'
  BY <1>1 DEF Inv, TypeOK, rows, world
<1>3. \A q \in Proc \ {NoProc} : ProcInv(q)'
  BY <1>1, OtherProcs
<1> QED
  BY <1>1, <1>2, <1>3, ProtocolAssumption
  DEF Inv, SealedIsLegal, RowVersions, EffectMatchesRecord, RespInv, rows

\* A process dies anywhere; its transaction is left to the server.
LEMMA CrashKeeps ==
    ASSUME Inv, NEW p \in Proc, Crash(p)
    PROVE  Inv'
<1>1. UNCHANGED <<rows, world, resp>> /\ todo' \in {todo, {}} /\ req' = [req EXCEPT ![p] = Idle]
  BY DEF Crash
<1>2. SideTypes'
  BY <1>1 DEF Inv, TypeOK, SideTypes, world, rows
<1>3. LocalOk(Idle) /\ Idle.pc \notin Committing \cup {"handler"}
  BY DEF LocalOk, Idle, ReqRow, PC, Decision, Committing
<1>4. \/ txn' = txn
      \/ txn # NoTxn /\ txn.by = p /\ txn' \in {NoTxn, [txn EXCEPT !.attached = FALSE]}
  BY DEF Crash
<1> QED
  BY <1>1, <1>2, <1>3, <1>4, ControlStep DEF ReqStep, RespStep, rows

-----------------------------------------------------------------------------
(* execute_claim *)

\* lock_claim lets the handler start on a running claim only.
LEMMA ExecBeginKeeps ==
    ASSUME Inv, NEW p \in Request, ExecBegin(p)
    PROVE  Inv'
<1> DEFINE a == req[p].act
<1>1. /\ UNCHANGED <<rows, world, resp, todo>> /\ p \in Proc /\ req[p].pc = "exec" /\ txn = NoTxn
      /\ Txn(p, pa[a], log[a], 0, card[a], FALSE) /\ Goto(p, "handler")
  BY DEF ExecBegin, Proc, At
<1>2. a \in Action /\ a \in Write
  BY <1>1 DEF Inv, ProcInv, LocalOk
<1>3. pa[a].status = "running"
  BY DEF ExecBegin, LockClaim
<1>4. SideTypes'
  BY <1>1, SideKept DEF rows
<1>5. PICK q : ReqStep(p, q) /\ q.pc = "handler" /\ q.act = a
  BY <1>1, <1>2, GotoMoves DEF PC
<1>6. pa[a] \in PaRow /\ log[a] \in LogRow /\ card[a] \in Card
  BY <1>2, RowFacts
<1>7. txn' \in TxnRow /\ txn'.by = p /\ txn'.attached /\ txn'.act = a /\ ~txn'.sealed
  BY <1>1, <1>2, <1>6 DEF Txn, TxnRow
<1> QED
  BY <1>1, <1>3, <1>4, <1>5, <1>7, OpenStep DEF rows

\* A refused execution goes to _finish_rolled_back.
LEMMA ExecRefusedKeeps ==
    ASSUME Inv, NEW p \in Request, ExecRefused(p)
    PROVE  Inv'
<1>1. /\ UNCHANGED <<rows, world, txn, resp, todo>> /\ p \in Proc /\ req[p].pc = "exec"
      /\ Goto(p, "finish")
  BY DEF ExecRefused, Proc, At
<1>2. SideTypes'
  BY <1>1, SideKept DEF rows
<1> QED
  BY <1>1, <1>2, GotoKeeps DEF rows, PC, Locking, Committing

\* complete_success rewrites the transaction of the handler, held since ExecBegin.
LEMMA HandlerOkKeeps ==
    ASSUME Inv, NEW p \in Request, HandlerOk(p)
    PROVE  Inv'
<1> DEFINE a == req[p].act
           r == ClosedRow(pa[a], "succeeded", "none")
           l == ClosedLog(log[a], "success", "none")
<1>1. /\ UNCHANGED <<rows, timeUp, convDeleted, resp, todo>> /\ p \in Proc /\ req[p].pc = "handler"
      /\ artifact' = [artifact EXCEPT ![a] = artifact[a] \/ a \in FileAction]
      /\ Txn(p, r, l, 1, card[a], TRUE) /\ Goto(p, "execCommit")
  BY DEF HandlerOk, Proc, At
<1>2. a \in Action /\ a \in Write /\ pa[a].status = "running" /\ txn.by = p
  BY <1>1 DEF Inv, ProcInv, LocalOk, Holds
<1>3. SideTypes'
  BY <1>1, <1>2 DEF Inv, TypeOK, SideTypes, rows
<1>4. r \in PaRow /\ r.status = "succeeded" /\ r.ver = 4
  BY <1>2, RowFacts, ClosedRowType DEF Terminal, Finished, Err
<1>5. l \in LogRow /\ card[a] \in Card
  BY <1>2, RowFacts, LogTypes DEF LogStatus, Err
<1>6. PICK q : ReqStep(p, q) /\ q.pc = "execCommit" /\ q.act = a
  BY <1>1, GotoMoves DEF PC, Committing
<1>7. r.ver = VersionOf(r.status) /\ LegalMove(a, pa[a].status, [pa |-> r, eff |-> 1])
  BY <1>2, <1>4 DEF VersionOf, LegalMove, Cancelled
<1> QED
  BY <1>1, <1>2, <1>3, <1>4, <1>5, <1>6, <1>7, TxnOpens DEF Committing

\* Rolling back, and failing to, let go of that transaction.
LEMMA HandlerRollbackKeeps ==
    ASSUME Inv, NEW p \in Request, HandlerRollback(p) \/ HandlerRollbackLost(p)
    PROVE  Inv'
<1> DEFINE a == req[p].act
<1>1. /\ UNCHANGED <<rows, timeUp, convDeleted, todo>> /\ p \in Proc /\ req[p].pc = "handler"
      /\ artifact' \in {artifact, [artifact EXCEPT ![a] = TRUE]}
  BY DEF HandlerRollback, HandlerRollbackLost, Proc, At
<1>2. a \in Action /\ txn # NoTxn /\ txn.by = p
  BY <1>1 DEF Inv, ProcInv, LocalOk, Holds
<1>3. SideTypes'
  BY <1>1, <1>2 DEF Inv, TypeOK, SideTypes, rows
<1>4. CASE HandlerRollback(p)
  BY <1>1, <1>2, <1>3, <1>4, GotoKeeps DEF HandlerRollback, rows, PC, Locking, Committing
<1>5. CASE HandlerRollbackLost(p)
  BY <1>1, <1>2, <1>3, <1>5, AnswerKeeps, UnsentAnswers DEF HandlerRollbackLost, rows
<1> QED
  BY <1>4, <1>5

\* The two places that fence a running DB claim.
LEMMA FenceKeeps ==
    ASSUME Inv, NEW p \in Proc, NEW e \in Err, NEW l \in {"finishCommit", "recCommit"},
           UNCHANGED <<rows, world, resp, todo>>, txn = NoTxn,
           req[p].pc \notin {"idle", "sweep"}, pa[req[p].act].status = "running",
           Txn(p, FailedRow(pa[req[p].act], e), ClosedLog(log[req[p].act], "failed", e), 0,
               card[req[p].act], TRUE),
           Goto(p, l)
    PROVE  Inv'
<1> DEFINE a == req[p].act
           r == FailedRow(pa[a], e)
<1>1. a \in Action
  BY DEF Inv, ProcInv, LocalOk
<1>2. SideTypes'
  BY SideKept DEF rows
<1>3. r \in PaRow /\ r.status = "failed" /\ r.ver = 4
  BY <1>1, RowFacts, FailedRowType
<1>4. ClosedLog(log[a], "failed", e) \in LogRow /\ card[a] \in Card
  BY <1>1, RowFacts, LogTypes DEF LogStatus
<1>5. PICK q : ReqStep(p, q) /\ q.pc = l /\ q.act = a
  BY GotoMoves DEF PC, Committing
<1>6. r.ver = VersionOf(r.status) /\ LegalMove(a, pa[a].status, [pa |-> r, eff |-> 0])
  BY <1>3 DEF VersionOf, LegalMove, Cancelled
<1> QED
  BY <1>2, <1>3, <1>4, <1>5, <1>6, TxnOpens DEF Committing

\* _finish_rolled_back keeps the invariant.
LEMMA FinishRolledBackKeeps ==
    ASSUME Inv, NEW p \in Request, NEW e \in Err, FinishRolledBack(p, e)
    PROVE  Inv'
<1> DEFINE a == req[p].act
<1>1. UNCHANGED <<rows, world, todo>> /\ p \in Proc /\ req[p].pc = "finish"
  BY DEF FinishRolledBack, Proc, At
<1>2. SideTypes'
  BY <1>1, SideKept DEF rows
<1>3. CASE Answer(p, "running") /\ txn' = txn
  BY <1>1, <1>2, <1>3, AnswerKeeps, UnsentAnswers DEF rows
<1>4. CASE Goto(p, "project") /\ txn' = txn /\ resp' = resp
  BY <1>1, <1>2, <1>4, GotoKeeps DEF rows, PC, Locking, Committing
<1>5. CASE /\ txn = NoTxn /\ pa[a].status = "running"
           /\ Txn(p, FailedRow(pa[a], e), ClosedLog(log[a], "failed", e), 0, card[a], TRUE)
           /\ Goto(p, "finishCommit") /\ resp' = resp
  BY <1>1, <1>5, FenceKeeps
<1> QED
  BY <1>3, <1>4, <1>5 DEF FinishRolledBack

-----------------------------------------------------------------------------
(* Recovery and read-back *)

\* CompletionRecoveryService.reconcile keeps the invariant.
LEMMA ReconcileKeeps ==
    ASSUME Inv, NEW p \in Proc, Reconcile(p)
    PROVE  Inv'
<1> DEFINE a == req[p].act
           e == "EXECUTION_INTERRUPTED"
<1>1. UNCHANGED <<rows, world, todo>> /\ req[p].pc = "reconcile"
  BY DEF Reconcile, At
<1>2. SideTypes'
  BY <1>1, SideKept DEF rows
<1>3. CASE Answer(p, "running") /\ txn' = txn
  BY <1>1, <1>2, <1>3, AnswerKeeps, UnsentAnswers DEF rows
<1>4. CASE Goto(p, "project") /\ txn' = txn /\ resp' = resp
  BY <1>1, <1>2, <1>4, GotoKeeps DEF rows, PC, Locking, Committing
<1>5. CASE /\ txn = NoTxn /\ pa[a].status = "running"
           /\ Txn(p, FailedRow(pa[a], e), ClosedLog(log[a], "failed", e), 0, card[a], TRUE)
           /\ Goto(p, "recCommit") /\ resp' = resp
  <2>1. e \in Err
    BY DEF Err
  <2> QED
    BY <1>1, <1>5, <2>1, FenceKeeps
<1> QED
  BY <1>3, <1>4, <1>5 DEF Reconcile

\* _read_terminal_outcome keeps the invariant.
LEMMA FactReadKeeps ==
    ASSUME Inv, NEW p \in Proc, FactRead(p)
    PROVE  Inv'
<1>1. UNCHANGED <<rows, world, txn, todo>> /\ req[p].pc = "factRead"
  BY DEF FactRead, At
<1>2. SideTypes'
  BY <1>1, SideKept DEF rows
<1>3. CASE Answer(p, "running")
  BY <1>1, <1>2, <1>3, AnswerKeeps, UnsentAnswers DEF rows
<1>4. CASE Goto(p, "project") /\ resp' = resp
  BY <1>1, <1>2, <1>4, GotoKeeps DEF rows, PC, Locking, Committing
<1> QED
  BY <1>3, <1>4 DEF FactRead

\* The projected answer is the status read under the lock.
LEMMA ProjectKeeps ==
    ASSUME Inv, NEW p \in Proc, Project(p)
    PROVE  Inv'
<1> DEFINE a == req[p].act
<1>1. UNCHANGED <<pa, log, effect, world, txn, todo>> /\ req[p].pc = "project"
  BY DEF Project, At
<1>2. a \in Action
  BY <1>1 DEF Inv, ProcInv, LocalOk
<1>3. card' \in {card, [card EXCEPT ![a] = "ok"], [card EXCEPT ![a] = "failed"]}
  BY DEF Project
<1>4. SideTypes'
  BY <1>1, <1>2, <1>3 DEF Inv, TypeOK, SideTypes, world, Card
<1>5. PICK st \in {"running", pa[a].status} : Answer(p, st)
  BY DEF Project
<1>6. st \in Status /\ (st \in Terminal => pa[a].status = st)
  BY <1>2, RowFacts, UnsentAnswers DEF PaRow
<1> QED
  BY <1>1, <1>4, <1>5, <1>6, AnswerKeeps

\* So is the answer for a cancelled action.
LEMMA ReadUnexecutedKeeps ==
    ASSUME Inv, NEW p \in Request, ReadUnexecuted(p)
    PROVE  Inv'
<1> DEFINE a == req[p].act
<1>1. UNCHANGED <<rows, world, txn, todo>> /\ req[p].pc = "proof" /\ p \in Proc
  BY DEF ReadUnexecuted, At, Proc
<1>2. SideTypes'
  BY <1>1, SideKept DEF rows
<1>3. a \in Action
  BY <1>1 DEF Inv, ProcInv, LocalOk
<1>4. PICK st \in {"running", pa[a].status} : Answer(p, st)
  BY DEF ReadUnexecuted
<1>5. st \in Status /\ (st \in Terminal => pa[a].status = st)
  BY <1>3, RowFacts, UnsentAnswers DEF PaRow
<1> QED
  BY <1>1, <1>2, <1>4, <1>5, AnswerKeeps DEF rows

\* An idle process holds nothing.
LEMMA IdleIsQuiet == LocalOk(Idle) /\ Idle.pc \notin Committing \cup {"handler"}
BY DEF LocalOk, Idle, ReqRow, PC, Decision, Committing

\* A lock timeout promises nothing.
LEMMA GiveUpKeeps ==
    ASSUME Inv, NEW p \in Proc, GiveUp(p)
    PROVE  Inv'
<1>1. UNCHANGED <<rows, world, txn>> /\ req[p].pc \in Locking /\ todo' \in {todo, {}}
  BY DEF GiveUp
<1>2. SideTypes'
  BY <1>1 DEF Inv, TypeOK, SideTypes, world, rows
<1>3. req[p].pc \notin {"idle", "sweep"}
  BY <1>1 DEF Locking
<1>4. CASE Goto(p, "finish") /\ resp' = resp
  BY <1>1, <1>2, <1>3, <1>4, GotoKeeps DEF rows, PC, Locking, Committing
<1>5. CASE req' = [req EXCEPT ![p] = Idle] /\ resp' = resp
  BY <1>1, <1>2, <1>5, IdleIsQuiet, ControlStep DEF rows, ReqStep, RespStep
<1>6. CASE Answer(p, "running")
  BY <1>1, <1>2, <1>3, <1>6, AnswerKeeps, UnsentAnswers DEF rows
<1> QED
  BY <1>4, <1>5, <1>6 DEF GiveUp

-----------------------------------------------------------------------------
(* Read-only tools *)

\* The return of a read-only tool keeps the invariant.
LEMMA ReadDoneKeeps ==
    ASSUME Inv, NEW p \in Request, NEW ok \in BOOLEAN, ReadDone(p, ok)
    PROVE  Inv'
<1> DEFINE a == req[p].act
           v == SeenVersion(p, ok)
           d == IF ok THEN "ok" ELSE "failed"
           q == [req[p] EXCEPT !.pc = "readCas", !.dec = d, !.claim = v]
<1>1. UNCHANGED <<rows, world, txn, resp, todo>> /\ p \in Proc /\ req[p].pc = "read"
  BY DEF ReadDone, Proc, At
<1>2. SideTypes'
  BY <1>1, SideKept DEF rows
<1>3. a \in Action /\ a \notin Write /\ req[p] \in ReqRow
  BY <1>1 DEF Inv, TypeOK, ProcInv, LocalOk
<1>4. v \in 0..4 /\ d \in Decision
  BY <1>3, RowFacts DEF SeenVersion, ReqRow, PaRow, Decision
<1>5. q \in ReqRow /\ q.pc = "readCas" /\ q.act = a /\ q.dec \in {"ok", "failed"}
  BY <1>3, <1>4 DEF ReqRow, PC
<1>6. ReqStep(p, q)
  <2>1. req' = [req EXCEPT ![p] = q]
    BY <1>3 DEF ReadDone, Inv, TypeOK, ReqRow
  <2> QED
    BY <1>3, <1>5, <2>1 DEF ReqStep, LocalOk
<1> QED
  BY <1>1, <1>2, <1>5, <1>6, ControlStep DEF rows, RespStep, Committing

\* Its final CAS settles a row without a business effect.
LEMMA ReadCasKeeps ==
    ASSUME Inv, NEW p \in Request, ReadCas(p)
    PROVE  Inv'
<1> DEFINE a == req[p].act
           ok == req[p].dec = "ok"
           st == IF ok THEN "succeeded" ELSE "failed"
           e  == IF ok THEN "none" ELSE "TOOL_ERROR"
           r == ClosedRow(pa[a], st, e)
           lst == IF ok THEN "success" ELSE "failed"
           NewCard == IF convDeleted THEN card ELSE [card EXCEPT ![a] = req[p].dec]
<1>1. UNCHANGED <<effect, world, txn, todo>> /\ p \in Proc /\ req[p].pc = "readCas" /\ txn = NoTxn
  BY DEF ReadCas, Proc, At
<1>2. a \in Action /\ a \notin Write /\ req[p] \in ReqRow /\ req[p].dec \in Card
  BY <1>1 DEF Inv, TypeOK, ProcInv, LocalOk, Card
<1>3. NewCard \in [Action -> Card]
  BY <1>2 DEF Inv, TypeOK
<1>4. CASE /\ pa[a].status = "running"
           /\ pa' = [pa EXCEPT ![a] = r]
           /\ log' = [log EXCEPT ![a] = ClosedLog(log[a], lst, e)]
           /\ card' = NewCard
           /\ Answer(p, st)
  <2>1. r \in PaRow /\ r.status = st /\ r.ver = 4 /\ st \in Terminal
    BY <1>2, <1>4, RowFacts, ClosedRowType DEF Terminal, Finished, Err
  <2>2. ClosedLog(log[a], lst, e) \in LogRow
    BY <1>2, RowFacts, LogTypes DEF LogStatus, Err
  <2>3. SideTypes'
    BY <1>1, <1>2, <1>3, <1>4, <2>2 DEF Inv, TypeOK, SideTypes, world
  <2>4. pa' \in [Action -> PaRow] /\ pa'[a] = r /\ \A b \in Action \ {a} : pa'[b] = pa[b]
    BY <1>2, <1>4, <2>1 DEF Inv, TypeOK
  <2>5. RowVersions'
    BY <2>1, <2>4 DEF Inv, RowVersions, VersionOf, Cancelled
  <2>6. EffectMatchesRecord'
    BY <1>1, <1>2, <2>4 DEF Inv, EffectMatchesRecord
  <2>7. \A b \in Action : pa[b].status \in Terminal => pa'[b].status = pa[b].status
    BY <1>4, <2>4, UnsentAnswers
  <2>8. RespStep(p) /\ \E q : ReqStep(p, q) /\ q.pc \in {"idle", "sweep"}
    <3>1. st \in Status /\ pa'[a].status = st
      BY <2>1, <2>4 DEF Status
    <3> QED
      BY <1>1, <1>4, <3>1, AnswerMoves
  <2>9. PICK q : ReqStep(p, q) /\ q.pc \in {"idle", "sweep"}
    BY <2>8
  <2>10. q.pc \notin Committing \cup {"handler"} /\ effect' \in [Action -> Nat]
    BY <1>1, <2>9 DEF Committing, Inv, TypeOK
  <2> QED
    BY <1>1, <2>3, <2>4, <2>5, <2>6, <2>7, <2>8, <2>9, <2>10, RowStep
<1>5. CASE Answer(p, "error") /\ UNCHANGED <<pa, log, card>>
  BY <1>1, <1>5, SideKept, AnswerKeeps, UnsentAnswers
<1>6. CASE card' = NewCard /\ Answer(p, pa[a].status) /\ UNCHANGED <<pa, log>>
  <2>1. SideTypes'
    BY <1>1, <1>3, <1>6 DEF Inv, TypeOK, SideTypes, world
  <2>2. pa[a].status \in Status
    BY <1>2, RowFacts DEF PaRow
  <2> QED
    BY <1>1, <1>6, <2>1, <2>2, AnswerKeeps
<1> QED
  BY <1>4, <1>5, <1>6 DEF ReadCas

\* Leases run out and are renewed without touching status or version.
LEMMA LeaseKeeps ==
    ASSUME Inv, NEW a \in Action, NEW v \in {"live", "over"},
           pa' = [pa EXCEPT ![a].lease = v],
           UNCHANGED <<log, effect, card, world, txn, req, resp, todo>>
    PROVE  Inv'
<1>1. SideTypes'
  BY SideKept
<1>2. pa' \in [Action -> PaRow] /\ \A b \in Action : pa'[b].status = pa[b].status /\ pa'[b].ver = pa[b].ver
  BY DEF Inv, TypeOK, PaRow
<1>3. RowVersions'
  BY <1>2 DEF Inv, RowVersions
<1> QED
  BY <1>1, <1>2, <1>3, DirectStep

-----------------------------------------------------------------------------
(* The sweeper *)

\* The scan of the sweeper keeps the invariant,
LEMMA SweepScanKeeps ==
    ASSUME Inv, NEW due \in BOOLEAN, SweepScan(due)
    PROVE  Inv'
<1> DEFINE q == [req[Sweeper] EXCEPT !.pc = "sweep", !.dec = IF due THEN "due" ELSE "all"]
<1>1. UNCHANGED <<rows, world, txn, resp>> /\ Sweeper \in Proc
  BY DEF SweepScan, Proc
<1>2. todo' \subseteq [act : Action, status : Status]
  <2>1. \A b \in Action : pa[b].status \in Status
    BY RowFacts DEF PaRow
  <2> QED
    BY <2>1 DEF SweepScan
<1>3. SideTypes'
  BY <1>1, <1>2 DEF Inv, TypeOK, SideTypes, world, rows
<1>4. q \in ReqRow /\ q.pc = "sweep"
  BY <1>1 DEF Inv, TypeOK, ReqRow, PC, Decision
<1>5. ReqStep(Sweeper, q)
  <2>1. req' = [req EXCEPT ![Sweeper] = q]
    BY <1>1 DEF SweepScan, Inv, TypeOK, ReqRow
  <2> QED
    BY <1>4, <2>1 DEF ReqStep, LocalOk
<1> QED
  BY <1>1, <1>3, <1>4, <1>5, ControlStep DEF rows, RespStep, Committing

\* ... so does taking a candidate,
LEMMA SweepPickKeeps ==
    ASSUME Inv, NEW c \in todo, SweepPick(c)
    PROVE  Inv'
<1>1. UNCHANGED <<rows, world, txn, resp>> /\ Sweeper \in Proc /\ todo' \subseteq todo
  BY DEF SweepPick, Proc
<1>2. SideTypes' /\ c.act \in Action
  BY <1>1 DEF Inv, TypeOK, SideTypes, world, rows
<1>3. PICK l \in {"reconcile", "sweep", "sweepLock"} :
          req' = [req EXCEPT ![Sweeper].pc = l, ![Sweeper].act = c.act]
  <2>1. SweepRoute(c) \in {"reconcile", "sweep", "sweepLock"}
    BY DEF SweepRoute
  <2> QED
    BY <2>1 DEF SweepPick
<1> DEFINE q == [req[Sweeper] EXCEPT !.pc = l, !.act = c.act]
<1>4. q \in ReqRow /\ q.pc = l /\ q.act = c.act
  BY <1>1, <1>2 DEF Inv, TypeOK, ReqRow, PC, Locking
<1>5. ReqStep(Sweeper, q)
  <2>1. req' = [req EXCEPT ![Sweeper] = q]
    BY <1>1, <1>3 DEF Inv, TypeOK, ReqRow
  <2> QED
    BY <1>2, <1>4, <2>1 DEF ReqStep, LocalOk
<1> QED
  BY <1>1, <1>2, <1>4, <1>5, ControlStep DEF rows, RespStep, Committing

\* ... closing it under the locks,
LEMMA SweepLockedKeeps ==
    ASSUME Inv, SweepLocked
    PROVE  Inv'
<1> DEFINE a == req[Sweeper].act
           lost == a \notin Write /\ pa[a].lease # "live"
           close == \/ pa[a].status = "pending" /\ (req[Sweeper].dec = "due" => timeUp[a])
                    \/ pa[a].status = "running" /\ lost
           st == IF pa[a].status = "pending" THEN "expired" ELSE "failed"
           e  == IF pa[a].status = "pending" THEN "AI_HITL_EXPIRED" ELSE "EXECUTION_INTERRUPTED"
           r == ClosedRow(pa[a], st, e)
           l == ClosedLog(log[a], st, e)
<1>1. UNCHANGED <<rows, world, todo>> /\ Sweeper \in Proc /\ req[Sweeper].pc = "sweepLock" /\ txn = NoTxn
  BY DEF SweepLocked, Proc, At
<1>2. SideTypes'
  BY <1>1, SideKept DEF rows
<1>3. a \in Action
  BY <1>1 DEF Inv, ProcInv, LocalOk
<1>4. CASE Answer(Sweeper, "none") /\ txn' = txn
  BY <1>1, <1>2, <1>4, AnswerKeeps, UnsentAnswers DEF rows
<1>5. CASE /\ close /\ Txn(Sweeper, r, l, 0, "failed", TRUE)
           /\ Goto(Sweeper, "sweepCommit") /\ resp' = resp
  <2>1. pa[a].status \in {"pending", "running"}
    BY <1>5
  <2>2. st \in Terminal /\ st \in LogStatus /\ e \in Err
    BY DEF Terminal, Finished, Cancelled, LogStatus, Err
  <2>3. r \in PaRow /\ r.status = st /\ r.ver = pa[a].ver + 1
    BY <1>3, <2>1, <2>2, RowFacts, ClosedRowType
  <2>4. l \in LogRow
    BY <1>3, <2>2, RowFacts, LogTypes
  <2>5. PICK q : ReqStep(Sweeper, q) /\ q.pc = "sweepCommit" /\ q.act = a
    BY <1>1, <1>5, GotoMoves DEF PC, Committing
  <2>6. r.ver = VersionOf(r.status) /\ LegalMove(a, pa[a].status, [pa |-> r, eff |-> 0])
    BY <1>3, <2>1, <2>3, RowFacts DEF VersionOf, LegalMove, Cancelled
  <2> QED
    BY <1>1, <1>2, <1>5, <2>3, <2>4, <2>5, <2>6, TxnOpens DEF Card, Committing
<1> QED
  BY <1>4, <1>5 DEF SweepLocked

\* ... and the end of the sweep.
LEMMA SweepEndKeeps ==
    ASSUME Inv, SweepEnd
    PROVE  Inv'
<1>1. UNCHANGED <<rows, world, txn, resp, todo>> /\ Sweeper \in Proc /\ req' = [req EXCEPT ![Sweeper] = Idle]
  BY DEF SweepEnd, Proc
<1>2. SideTypes'
  BY <1>1, SideKept DEF rows
<1> QED
  BY <1>1, <1>2, IdleIsQuiet, ControlStep DEF rows, ReqStep, RespStep

-----------------------------------------------------------------------------
(* Creation, expiry, deletion, annotation *)

\* Log-only steps: start, failed set-up, annotation.
LEMMA CreationKeeps ==
    ASSUME Inv, NEW a \in Action, StartLog(a) \/ SetupFailed(a) \/ Annotate(a)
    PROVE  Inv'
<1>1. UNCHANGED <<pa, effect, card, world, txn, req, resp, todo>>
  BY DEF StartLog, SetupFailed, Annotate
<1>2. log' \in [Action -> LogRow]
  <2>1. CASE StartLog(a)
    BY <2>1 DEF StartLog, Inv, TypeOK, LogRow, LogStatus
  <2>2. CASE SetupFailed(a)
    BY <2>2, LogTypes DEF SetupFailed, Inv, TypeOK, LogStatus, Err
  <2>3. CASE Annotate(a)
    BY <2>3 DEF Annotate, Inv, TypeOK, LogRow
  <2> QED
    BY <2>1, <2>2, <2>3
<1>3. SideTypes' /\ pa' \in [Action -> PaRow] /\ RowVersions'
  BY <1>1, <1>2 DEF Inv, TypeOK, SideTypes, world, RowVersions
<1> QED
  BY <1>1, <1>3, DirectStep

\* _hang_for_confirmation creates the row.
LEMMA CreatePendingKeeps ==
    ASSUME Inv, NEW a \in Action, CreatePending(a)
    PROVE  Inv'
<1>1. /\ UNCHANGED <<log, effect, card, world, txn, req, resp, todo>>
      /\ pa' = [pa EXCEPT ![a] = PendingRow] /\ pa[a].status = "absent" /\ txn = NoTxn
  BY DEF CreatePending
<1>2. SideTypes'
  BY <1>1, SideKept
<1>3. pa' \in [Action -> PaRow] /\ pa'[a] = PendingRow /\ \A b \in Action \ {a} : pa'[b] = pa[b]
  BY <1>1, PendingRowType DEF Inv, TypeOK
<1>4. RowVersions'
  BY <1>3, PendingRowType DEF Inv, RowVersions, VersionOf, Cancelled
<1> QED
  BY <1>1, <1>2, <1>3, <1>4, PendingRowType, DirectStep

\* Pending actions are expired in place: by a waiting stream, or all at once.
LEMMA ExpireKeeps ==
    ASSUME Inv, SideTypes', UNCHANGED <<effect, txn, req, resp>>, txn = NoTxn,
           NEW S \in SUBSET Action, \A a \in S : pa[a].status = "pending", NEW e \in Err,
           pa' = [a \in Action |-> IF a \in S THEN ClosedRow(pa[a], "expired", e) ELSE pa[a]]
    PROVE  Inv'
<1>1. \A a \in S : /\ ClosedRow(pa[a], "expired", e) \in PaRow
                   /\ ClosedRow(pa[a], "expired", e).status = "expired"
                   /\ ClosedRow(pa[a], "expired", e).ver = 2
  BY RowFacts, ClosedRowType DEF Terminal, Cancelled
<1>2. pa' \in [Action -> PaRow]
  BY <1>1 DEF Inv, TypeOK
<1>3. RowVersions'
  <2>1. VersionOf("expired") = 2
    BY DEF VersionOf, Cancelled
  <2>2. \A a \in Action \ S : pa'[a] = pa[a]
    OBVIOUS
  <2>3. \A a \in S : pa'[a].status = "expired" /\ pa'[a].ver = 2
    BY <1>1
  <2> QED
    BY <2>1, <2>2, <2>3 DEF Inv, RowVersions
<1>4. \A a \in Action : pa'[a].status = pa[a].status
                        \/ (pa[a].status = "pending" /\ pa'[a].status = "expired")
  BY <1>1
<1> QED
  BY <1>2, <1>3, <1>4, DirectStep

\* The waiting and the resumed stream expire one pending action.
LEMMA StreamExpiryKeeps ==
    ASSUME Inv, NEW a \in Action, NEW e \in ResumeErr, WaiterTimeout(a) \/ ResumeFailure(a, e)
    PROVE  Inv'
<1>1. /\ UNCHANGED <<effect, world, txn, req, resp, todo>> /\ txn = NoTxn /\ pa[a].status = "pending"
      /\ log' = [log EXCEPT ![a] = ClosedLog(log[a], "expired", "AI_HITL_EXPIRED")]
      /\ card' = [card EXCEPT ![a] = "failed"]
  BY DEF WaiterTimeout, ResumeFailure, CanLeavePending
<1>2. PICK x \in {e, "AI_HITL_EXPIRED"} : pa' = [pa EXCEPT ![a] = ClosedRow(pa[a], "expired", x)]
  BY DEF WaiterTimeout, ResumeFailure
<1>3. x \in Err /\ "AI_HITL_EXPIRED" \in Err /\ "expired" \in LogStatus
  BY DEF Err, LogStatus, Cancelled
<1>4. SideTypes'
  BY <1>1, <1>3, LogTypes DEF Inv, TypeOK, SideTypes, world, Card
<1>5. pa' = [b \in Action |-> IF b \in {a} THEN ClosedRow(pa[b], "expired", x) ELSE pa[b]]
  BY <1>2 DEF Inv, TypeOK
<1> QED
  BY <1>1, <1>3, <1>4, <1>5, ExpireKeeps

\* expire_for_conversation_delete expires all of them.
LEMMA DeleteConversationKeeps ==
    ASSUME Inv, DeleteConversation
    PROVE  Inv'
<1> DEFINE e == "AI_CONVERSATION_DELETED"
           S == {a \in Action : pa[a].status = "pending"}
<1>1. UNCHANGED <<effect, artifact, card, timeUp, txn, req, resp, todo>> /\ txn = NoTxn /\ convDeleted' = TRUE
  BY DEF DeleteConversation
<1>2. e \in Err /\ "expired" \in LogStatus
  BY DEF Err, LogStatus, Cancelled
<1>3. log' \in [Action -> LogRow]
  <2>1. \A a \in Action : log[a] \in LogRow /\ ClosedLog(log[a], "expired", e) \in LogRow
    BY <1>2, RowFacts, LogTypes
  <2> QED
    BY <2>1 DEF DeleteConversation
<1>4. SideTypes'
  BY <1>1, <1>3 DEF Inv, TypeOK, SideTypes
<1>5. pa' = [a \in Action |-> IF a \in S THEN ClosedRow(pa[a], "expired", e) ELSE pa[a]]
  BY DEF DeleteConversation
<1> QED
  BY <1>1, <1>2, <1>4, <1>5, ExpireKeeps

\* The passing of expires_at changes no row.
LEMMA ConfirmationExpiresKeeps ==
    ASSUME Inv, NEW a \in Action, ConfirmationExpires(a)
    PROVE  Inv'
<1>1. UNCHANGED <<rows, artifact, convDeleted, txn, req, resp, todo>> /\ timeUp' = [timeUp EXCEPT ![a] = TRUE]
  BY DEF ConfirmationExpires
<1>2. SideTypes' /\ pa' \in [Action -> PaRow] /\ RowVersions'
  BY <1>1 DEF Inv, TypeOK, SideTypes, rows, RowVersions
<1> QED
  BY <1>1, <1>2, DirectStep DEF rows

-----------------------------------------------------------------------------
(* The theorems *)

\* The empty conversation satisfies the invariant.
LEMMA InitInv == Init => Inv
<1> SUFFICES ASSUME Init PROVE Inv
  OBVIOUS
<1>1. NoPa \in PaRow /\ NoPa.status = "absent" /\ NoPa.ver = 0
  BY DEF NoPa, PaRow, Status, Err
<1>2. NoLog \in LogRow
  BY DEF NoLog, LogRow, LogStatus, Err
<1>3. LocalOk(Idle) /\ Idle \in ReqRow /\ Idle.pc = "idle"
  BY DEF LocalOk, Idle, ReqRow, PC, Decision
<1>4. NoResp \in RespRow /\ NoResp.status = "none"
  BY DEF NoResp, RespRow
<1>5. TypeOK
  BY <1>1, <1>2, <1>3, <1>4 DEF Init, TypeOK, Card
<1>6. RowVersions
  <2>1. VersionOf("absent") = 0
    BY DEF VersionOf, Cancelled
  <2> QED
    BY <1>1, <2>1 DEF Init, RowVersions
<1>7. EffectMatchesRecord
  BY <1>1 DEF Init, EffectMatchesRecord
<1>8. \A p \in Proc : ProcInv(p)
  BY <1>3 DEF Init, ProcInv, Committing
<1>9. RespInv
  BY <1>4, UnsentAnswers DEF Init, RespInv
<1> QED
  BY <1>5, <1>6, <1>7, <1>8, <1>9 DEF Init, Inv, SealedIsLegal

\* Every step preserves it, one case per action.
LEMMA NextInv == Inv /\ [Next]_vars => Inv'
<1> SUFFICES ASSUME Inv, [Next]_vars PROVE Inv'
  OBVIOUS
<1>1. ASSUME NEW p \in Request, ConfirmStep(p) PROVE Inv'
  <2>1. ASSUME NEW a \in Action, NEW d \in {"approve", "reject"}, BeginConfirm(p, a, d) PROVE Inv'
    BY <2>1, BeginConfirmKeeps
  <2>2. ASSUME NEW st \in Cancelled, NEW e \in Err, ConfirmClose(p, st, e) PROVE Inv'
    BY <2>2, ConfirmCloseKeeps
  <2>3. CASE ConfirmGone(p) \/ ConfirmDecided(p) \/ ConfirmClaim(p)
    BY <2>3, ConfirmGoneKeeps, ConfirmDecidedKeeps, ConfirmClaimKeeps
  <2>4. CASE ExecBegin(p) \/ ExecRefused(p) \/ HandlerOk(p)
    BY <2>4, ExecBeginKeeps, ExecRefusedKeeps, HandlerOkKeeps
  <2>5. CASE HandlerRollback(p) \/ HandlerRollbackLost(p)
    BY <2>5, HandlerRollbackKeeps
  <2>6. ASSUME NEW e \in Err, FinishRolledBack(p, e) PROVE Inv'
    BY <2>6, FinishRolledBackKeeps
  <2>7. CASE ReadUnexecuted(p) \/ ReadCas(p)
    BY <2>7, ReadUnexecutedKeeps, ReadCasKeeps
  <2>8. ASSUME NEW ok \in BOOLEAN, ReadDone(p, ok) PROVE Inv'
    BY <2>8, ReadDoneKeeps
  <2>9. CASE RenewLease(p)
    <3>1. req[p].act \in Action
      BY <2>9 DEF RenewLease, At, Inv, ProcInv, LocalOk, Proc
    <3> QED
      BY <2>9, <3>1, LeaseKeeps DEF RenewLease
  <2> QED
    BY <1>1, <2>1, <2>2, <2>3, <2>4, <2>5, <2>6, <2>7, <2>8, <2>9 DEF ConfirmStep
<1>2. ASSUME NEW p \in Proc, RecoveryStep(p) PROVE Inv'
  BY <1>2, ReconcileKeeps, FactReadKeeps, ProjectKeeps, CommitAckedKeeps, CommitUnknownKeeps,
     GiveUpKeeps, CrashKeeps DEF RecoveryStep
<1>3. CASE SweepStep
  BY <1>3, SweepScanKeeps, SweepPickKeeps, SweepLockedKeeps, SweepEndKeeps DEF SweepStep
<1>4. ASSUME NEW a \in Action, ActionStep(a) PROVE Inv'
  <2>1. CASE StartLog(a) \/ SetupFailed(a) \/ Annotate(a)
    BY <2>1, CreationKeeps
  <2>2. CASE CreatePending(a)
    BY <2>2, CreatePendingKeeps
  <2>3. CASE WaiterTimeout(a) \/ \E e \in ResumeErr : ResumeFailure(a, e)
    <3>1. "AI_HITL_TIMEOUT" \in ResumeErr
      BY DEF ResumeErr
    <3> QED
      BY <2>3, <3>1, StreamExpiryKeeps
  <2>4. CASE ConfirmationExpires(a)
    BY <2>4, ConfirmationExpiresKeeps
  <2>5. CASE LeaseExpires(a)
    BY <2>5, LeaseKeeps DEF LeaseExpires
  <2> QED
    BY <1>4, <2>1, <2>2, <2>3, <2>4, <2>5 DEF ActionStep
<1>5. CASE ServerCommit \/ ServerAbort \/ DeleteConversation
  BY <1>5, ServerCommitKeeps, ServerAbortKeeps, DeleteConversationKeeps
<1>6. CASE UNCHANGED vars
  BY <1>6 DEF vars, Inv, TypeOK, RowVersions, SealedIsLegal, LegalMove, ProcInv, LocalOk, Holds,
              EffectMatchesRecord, RespInv
<1> QED
  BY <1>1, <1>2, <1>3, <1>4, <1>5, <1>6 DEF Next

\* Every reachable state satisfies the inductive invariant.
THEOREM Invariance == Spec => []Inv
BY InitInv, NextInv, PTL DEF Spec

\* TypeOK holds for any number of actions and requests: in particular no path
\* through confirmation, recovery and sweeping writes a row a fifth time.
THEOREM TypeCorrect == Spec => []TypeOK
<1>1. Inv => TypeOK
  BY DEF Inv
<1> QED
  BY <1>1, Invariance, PTL

\* Exactly-once execution: the business change of a write happened once if its
\* action says succeeded and never otherwise.
THEOREM ExactlyOnce == Spec => []EffectMatchesRecord
<1>1. Inv => EffectMatchesRecord
  BY DEF Inv
<1> QED
  BY <1>1, Invariance, PTL

\* A terminal answer of POST /ai/confirm stays true.
THEOREM TruthfulAnswers == Spec => []AnswersAreFacts
<1>1. Inv => AnswersAreFacts
  BY DEF Inv, RespInv, AnswersAreFacts
<1> QED
  BY <1>1, Invariance, PTL

-----------------------------------------------------------------------------
(* Refinement: the protocol implements ActionOutcome *)

\* What a step may do to the status column and to the business data.
Untouched == (\A a \in Action : pa'[a].status = pa[a].status) /\ effect' = effect

OneMove(a) ==
    /\ \A b \in Action \ {a} : pa'[b].status = pa[b].status /\ effect'[b] = effect[b]
    /\ \/ pa[a].status = "absent" /\ pa'[a].status = "pending" /\ effect'[a] = effect[a]
       \/ pa[a].status = "pending" /\ pa'[a].status \in {"running", "rejected"} /\ effect'[a] = effect[a]
       \/ pa[a].status = "running" /\ pa'[a].status = "failed" /\ effect'[a] = effect[a]
       \/ pa[a].status = "running" /\ pa'[a].status = "succeeded"
          /\ effect'[a] = IF a \in Write THEN effect[a] + 1 ELSE effect[a]

Expiry(S) ==
    /\ \A a \in Action : pa'[a].status = IF a \in S THEN "expired" ELSE pa[a].status
    /\ \A a \in S : pa[a].status = "pending"
    /\ effect' = effect

OutcomeStep == Untouched \/ (\E a \in Action : OneMove(a)) \/ (\E S \in SUBSET Action : Expiry(S))

\* Control steps, leases, clocks and annotations leave the outcome alone.
LEMMA QuietSteps ==
    ASSUME Inv, pa' = pa, effect' = effect
    PROVE  OutcomeStep
BY DEF OutcomeStep, Untouched

\* COMMIT, acknowledged or not, makes the transaction's one move.
LEMMA ApplyMoves ==
    ASSUME Inv, txn # NoTxn, txn.sealed, Apply
    PROVE  OutcomeStep
<1> DEFINE a == txn.act
<1>1. a \in Action /\ LegalMove(a, pa[a].status, txn) /\ txn.pa \in PaRow /\ effect[a] \in Nat
  BY DEF Inv, TypeOK, TxnRow, SealedIsLegal
<1>2. /\ pa' = [pa EXCEPT ![a] = txn.pa]
      /\ effect' = [effect EXCEPT ![a] = effect[a] + txn.eff]
  BY DEF Apply
<1>3. pa'[a] = txn.pa /\ \A b \in Action \ {a} : pa'[b] = pa[b] /\ effect'[b] = effect[b]
  BY <1>1, <1>2 DEF Inv, TypeOK
<1>4. effect'[a] = effect[a] + txn.eff
  BY <1>1, <1>2 DEF Inv, TypeOK
<1>5. CASE txn.pa.status = "expired"
  <2>1. pa[a].status = "pending" /\ txn.eff = 0
    BY <1>1, <1>5 DEF LegalMove
  <2>2. effect' = effect
    BY <1>1, <1>2, <2>1 DEF Inv, TypeOK
  <2>3. Expiry({a})
    BY <1>3, <1>5, <2>1, <2>2 DEF Expiry
  <2> QED
    BY <1>1, <2>3 DEF OutcomeStep
<1>6. CASE txn.pa.status # "expired"
  <2>1. OneMove(a)
    BY <1>1, <1>3, <1>4, <1>6 DEF OneMove, LegalMove, Cancelled
  <2> QED
    BY <1>1, <2>1 DEF OutcomeStep
<1> QED
  BY <1>5, <1>6

\* The worker of a read-only tool settles its own claim.
LEMMA ReadCasMoves ==
    ASSUME Inv, NEW p \in Request, ReadCas(p)
    PROVE  OutcomeStep
<1> DEFINE a == req[p].act
           st == IF req[p].dec = "ok" THEN "succeeded" ELSE "failed"
           e  == IF req[p].dec = "ok" THEN "none" ELSE "TOOL_ERROR"
<1>1. a \in Action /\ a \notin Write /\ effect' = effect
  BY DEF ReadCas, At, Inv, ProcInv, LocalOk, Proc
<1>2. CASE pa' = pa
  BY <1>1, <1>2, QuietSteps
<1>3. CASE pa[a].status = "running" /\ pa' = [pa EXCEPT ![a] = ClosedRow(pa[a], st, e)]
  <2>1. st \in Terminal /\ e \in Err
    BY DEF Terminal, Finished, Err
  <2>2. ClosedRow(pa[a], st, e).status = st
    BY <1>1, <1>3, <2>1, RowFacts, ClosedRowType
  <2>3. pa'[a].status = st /\ \A b \in Action \ {a} : pa'[b] = pa[b]
    BY <1>1, <1>3, <2>2 DEF Inv, TypeOK
  <2>4. OneMove(a)
    BY <1>1, <1>3, <2>3 DEF OneMove
  <2> QED
    BY <1>1, <2>4 DEF OutcomeStep
<1> QED
  BY <1>2, <1>3 DEF ReadCas

\* Streams and the deletion expire what is pending.
LEMMA ExpireMoves ==
    ASSUME Inv, effect' = effect, NEW e \in Err,
           NEW S \in SUBSET Action, \A a \in S : pa[a].status = "pending",
           pa' = [a \in Action |-> IF a \in S THEN ClosedRow(pa[a], "expired", e) ELSE pa[a]]
    PROVE  OutcomeStep
<1>1. \A a \in S : ClosedRow(pa[a], "expired", e).status = "expired"
  BY RowFacts, ClosedRowType DEF Terminal, Cancelled
<1>2. Expiry(S)
  BY <1>1 DEF Expiry
<1> QED
  BY <1>2 DEF OutcomeStep

\* Every step of the protocol is one of the three.
LEMMA NextMoves ==
    ASSUME Inv, Next
    PROVE  OutcomeStep
<1>1. ASSUME NEW p \in Request, ConfirmStep(p) PROVE OutcomeStep
  <2>1. CASE ReadCas(p)
    BY <2>1, ReadCasMoves
  <2>2. CASE RenewLease(p)
    <3>1. req[p].act \in Action
      BY <2>2 DEF RenewLease, At, Inv, ProcInv, LocalOk, Proc
    <3>2. (\A b \in Action : pa'[b].status = pa[b].status) /\ effect' = effect
      BY <2>2, <3>1 DEF RenewLease, Inv, TypeOK, PaRow
    <3> QED
      BY <3>2 DEF OutcomeStep, Untouched
  <2>3. CASE /\ ~ReadCas(p) /\ ~RenewLease(p)
    <3>1. pa' = pa /\ effect' = effect
      BY <1>1, <2>3 DEF ConfirmStep, BeginConfirm, ConfirmGone, ConfirmDecided, ConfirmClaim,
         ConfirmClose, ExecBegin, ExecRefused, HandlerOk, HandlerRollback, HandlerRollbackLost,
         FinishRolledBack, ReadUnexecuted, ReadDone, rows
    <3> QED
      BY <3>1, QuietSteps
  <2> QED
    BY <2>1, <2>2, <2>3
<1>2. ASSUME NEW p \in Proc, RecoveryStep(p) PROVE OutcomeStep
  <2>1. CASE CommitAcked(p)
    <3>1. txn # NoTxn /\ txn.sealed /\ Apply
      BY <2>1 DEF CommitAcked, Inv, ProcInv, Holds
    <3> QED
      BY <3>1, ApplyMoves
  <2>2. CASE ~CommitAcked(p)
    <3>1. pa' = pa /\ effect' = effect
      BY <1>2, <2>2 DEF RecoveryStep, Reconcile, FactRead, Project, CommitUnknown, GiveUp, Crash, rows
    <3> QED
      BY <3>1, QuietSteps
  <2> QED
    BY <2>1, <2>2
<1>3. CASE SweepStep
  <2>1. pa' = pa /\ effect' = effect
    BY <1>3 DEF SweepStep, SweepScan, SweepPick, SweepLocked, SweepEnd, rows
  <2> QED
    BY <2>1, QuietSteps
<1>4. ASSUME NEW a \in Action, ActionStep(a) PROVE OutcomeStep
  <2>1. CASE StartLog(a) \/ SetupFailed(a) \/ Annotate(a) \/ ConfirmationExpires(a)
    BY <2>1, QuietSteps DEF StartLog, SetupFailed, Annotate, ConfirmationExpires, rows
  <2>2. CASE CreatePending(a)
    <3>1. OneMove(a)
      BY <2>2, PendingRowType DEF CreatePending, OneMove, Inv, TypeOK
    <3> QED
      BY <3>1 DEF OutcomeStep
  <2>3. CASE LeaseExpires(a)
    <3>1. (\A b \in Action : pa'[b].status = pa[b].status) /\ effect' = effect
      BY <2>3 DEF LeaseExpires, Inv, TypeOK, PaRow
    <3> QED
      BY <3>1 DEF OutcomeStep, Untouched
  <2>4. CASE WaiterTimeout(a) \/ \E e \in ResumeErr : ResumeFailure(a, e)
    <3>1. PICK x \in Err : pa' = [pa EXCEPT ![a] = ClosedRow(pa[a], "expired", x)]
      BY <2>4 DEF WaiterTimeout, ResumeFailure, Err
    <3>2. pa' = [b \in Action |-> IF b \in {a} THEN ClosedRow(pa[b], "expired", x) ELSE pa[b]]
      BY <3>1 DEF Inv, TypeOK
    <3>3. pa[a].status = "pending" /\ effect' = effect
      BY <2>4 DEF WaiterTimeout, ResumeFailure, CanLeavePending
    <3> QED
      BY <3>2, <3>3, ExpireMoves
  <2> QED
    BY <1>4, <2>1, <2>2, <2>3, <2>4 DEF ActionStep
<1>5. CASE ServerCommit
  BY <1>5, ApplyMoves DEF ServerCommit
<1>6. CASE ServerAbort
  BY <1>6, QuietSteps DEF ServerAbort, rows
<1>7. CASE DeleteConversation
  <2> DEFINE S == {a \in Action : pa[a].status = "pending"}
  <2>1. "AI_CONVERSATION_DELETED" \in Err
    BY DEF Err
  <2>2. /\ pa' = [a \in Action |-> IF a \in S
                    THEN ClosedRow(pa[a], "expired", "AI_CONVERSATION_DELETED") ELSE pa[a]]
        /\ effect' = effect
    BY <1>7 DEF DeleteConversation
  <2> QED
    BY <2>1, <2>2, ExpireMoves
<1> QED
  BY <1>1, <1>2, <1>3, <1>4, <1>5, <1>6, <1>7 DEF Next

\* ... and each of the three is a step of the abstract specification, or none.
LEMMA MovesAreOutcomes ==
    ASSUME OutcomeStep, Inv
    PROVE  [Outcome!Next]_<<[a \in Write |-> pa[a].status], [a \in Write |-> effect[a]]>>
<1> DEFINE out == [a \in Write |-> pa[a].status]
           eff == [a \in Write |-> effect[a]]
<1>0. Write \subseteq Action
  BY ProtocolAssumption
<1>1. CASE Untouched
  BY <1>0, <1>1 DEF Untouched
<1>2. ASSUME NEW a \in Action, OneMove(a)
      PROVE  [Outcome!Next]_<<out, eff>>
  <2>1. CASE a \notin Write
    <3>1. out' = out /\ eff' = eff
      BY <1>0, <1>2, <2>1 DEF OneMove
    <3> QED
      BY <3>1
  <2>2. CASE a \in Write
    <3>1. out' = [out EXCEPT ![a] = pa'[a].status] /\ out[a] = pa[a].status
      BY <1>0, <1>2, <2>2 DEF OneMove
    <3>2. CASE effect'[a] = effect[a]
      <4>1. eff' = eff
        BY <1>0, <1>2, <2>2, <3>2 DEF OneMove
      <4>2. effect[a] \in Nat
        BY DEF Inv, TypeOK
      <4>3. pa'[a].status # "succeeded"
        BY <1>2, <2>2, <3>2, <4>2 DEF OneMove
      <4>4. Outcome!Propose(a) \/ Outcome!Claim(a) \/ Outcome!Reject(a) \/ Outcome!Fail(a)
        BY <1>2, <3>1, <4>1, <4>3 DEF OneMove, Outcome!Propose, Outcome!Claim, Outcome!Reject,
           Outcome!Fail, Outcome!Move
      <4> QED
        BY <2>2, <4>4 DEF Outcome!Next
    <3>3. CASE effect'[a] # effect[a]
      <4>1. pa[a].status = "running" /\ pa'[a].status = "succeeded" /\ effect'[a] = effect[a] + 1
        BY <1>2, <2>2, <3>3 DEF OneMove
      <4>2. eff' = [eff EXCEPT ![a] = eff[a] + 1]
        BY <1>0, <1>2, <2>2, <4>1 DEF OneMove
      <4>3. Outcome!Succeed(a)
        BY <3>1, <4>1, <4>2 DEF Outcome!Succeed, Outcome!Move
      <4> QED
        BY <2>2, <4>3 DEF Outcome!Next
    <3> QED
      BY <3>2, <3>3
  <2> QED
    BY <2>1, <2>2
<1>3. ASSUME NEW S \in SUBSET Action, Expiry(S)
      PROVE  [Outcome!Next]_<<out, eff>>
  <2> DEFINE T == S \cap Write
  <2>1. out' = [a \in Write |-> IF a \in T THEN "expired" ELSE out[a]]
    BY <1>0, <1>3 DEF Expiry
  <2>2. eff' = eff /\ \A a \in T : out[a] = "pending"
    BY <1>3 DEF Expiry
  <2>3. Outcome!Expire(T)
    BY <2>1, <2>2 DEF Outcome!Expire
  <2> QED
    BY <2>3 DEF Outcome!Next
<1> QED
  BY <1>1, <1>2, <1>3 DEF OutcomeStep

\* The confirmation protocol, with its transactions, leases, lost COMMITs, sweeps
\* and crashes, implements one-shot actions: closed unexecuted, or claimed once
\* and settled once with the business effect in the step of the success.
THEOREM Refinement == Spec => ImplementsOutcome
<1>1. Init => Outcome!Init
  BY ProtocolAssumption DEF Init, Outcome!Init, NoPa
<1>2. Inv /\ [Next]_vars =>
          [Outcome!Next]_<<[a \in Write |-> pa[a].status], [a \in Write |-> effect[a]]>>
  <2>1. CASE Next
    BY <2>1, NextMoves, MovesAreOutcomes
  <2>2. CASE UNCHANGED vars
    BY <2>2 DEF vars
  <2> QED
    BY <2>1, <2>2
<1> QED
  BY <1>1, <1>2, Invariance, PTL DEF Spec, ImplementsOutcome, Outcome!Spec

(***************************************************************************)
(* The records                                                             *)
(*                                                                         *)
(* The invariant proved above is the ground these proofs stand on.         *)
(***************************************************************************)

-----------------------------------------------------------------------------
(* A row r of ai_prepared_action and the log l bound to it, by status *)

\* No proposal yet: the log may be written, and closed when the set-up fails.
Unproposed(r, l) ==
    /\ r.status = "absent" /\ r.owner = NoProc /\ r.lease = "none"
    /\ r.err = "none" /\ ~r.approved
    /\ ~l.note /\ ~l.started /\ ~l.approved /\ l.status # "running"
    /\ l.status \in {"absent", "pending"} => l.err = "none"

Proposed(r, l) ==
    /\ r.status = "pending" /\ r.owner = NoProc /\ r.lease = "none"
    /\ r.err = "none" /\ ~r.approved
    /\ ~l.note /\ ~l.started /\ ~l.approved /\ l.status = "pending" /\ l.err = "none"

\* Closed before any execution.  A resumed stream's own error is not in the log.
Declined(r, l) ==
    /\ r.status \in Cancelled /\ r.owner = NoProc /\ r.lease = "none"
    /\ r.err # "none" /\ r.approved = (r.status = "rejected")
    /\ ~l.note /\ ~l.started /\ l.approved = r.approved /\ l.status = r.status
    /\ r.status = "rejected" => r.err = "USER_REJECTED" /\ l.err = "none"
    /\ r.status = "expired" /\ r.err \notin ResumeErr => l.err = r.err

Claimed(a, r, l) ==
    /\ r.status = "running" /\ r.owner \in Request /\ r.lease # "none"
    /\ r.err = "none" /\ r.approved
    /\ l.started /\ l.approved /\ l.status = "running" /\ l.err = "none"
    /\ l.note => a \in Write

Succeeded(r, l) ==
    /\ r.status = "succeeded" /\ r.owner = NoProc /\ r.lease = "none"
    /\ r.err = "none" /\ r.approved
    /\ ~l.note /\ l.started /\ l.approved /\ l.status = "success" /\ l.err = "none"

\* Of the writes only a DB claim is ever failed, and it keeps its owner.
Failed(a, r, l) ==
    /\ r.status = "failed" /\ r.lease = "none" /\ r.err # "none" /\ r.approved
    /\ IF a \in Write THEN a \in DbAction /\ r.owner \in Request ELSE r.owner = NoProc
    /\ l.started /\ l.approved /\ l.status = "failed" /\ l.err = r.err
    /\ l.note => a \in Write

Bound(a, r, l) ==
    \/ Unproposed(r, l) \/ Proposed(r, l) \/ Declined(r, l)
    \/ Claimed(a, r, l) \/ Succeeded(r, l) \/ Failed(a, r, l)

CardFits(c, st) ==
    /\ c = "ok" => st = "succeeded"
    /\ c = "failed" => st \in Terminal \ {"succeeded"}

FileFits(a) == artifact[a] => a \in FileAction /\ pa[a].status \in {"running", "succeeded"}

RecordInv ==
    /\ \A a \in Action :
         Bound(a, pa[a], log[a]) /\ CardFits(card[a], pa[a].status) /\ FileFits(a)
    /\ DeletedIsSettled

\* An open transaction started from an open, unannotated record that still
\* stands, and what its COMMIT would show is a record again.
TxnInv ==
    txn # NoTxn =>
        /\ pa[txn.act].status \in {"pending", "running"}
        /\ ~log[txn.act].note
        /\ txn.sealed => /\ Bound(txn.act, txn.pa, txn.log)
                         /\ CardFits(txn.card, txn.pa.status)

\* A request that runs a read-only tool is the claimant, the only one, and the
\* sweeper at most failed its claim.
Reading(p) == req[p].pc \in {"read", "readCas"}

ReaderInv(p) ==
    /\ req[p].pc = "claimCommit" =>
         txn.pa.status = "running" /\ txn.pa.owner = p /\ req[p].claim # 0
    /\ Reading(p) =>
         /\ \/ pa[req[p].act].status = "running" /\ pa[req[p].act].owner = p
            \/ pa[req[p].act].status = "failed"
         /\ req[p].claim = 0 => /\ req[p].pc = "readCas" /\ req[p].dec = "failed"
                                /\ pa[req[p].act].status = "failed"
         /\ \A q \in Proc \ {p} : Reading(q) => req[q].act # req[p].act

Facts == RecordInv /\ TxnInv /\ \A p \in Proc : ReaderInv(p)

-----------------------------------------------------------------------------
(* What the row operators make of a record *)

\* The status alone says which kind of record it is.
LEMMA KindOfRecord ==
    ASSUME NEW a, NEW r, NEW l, Bound(a, r, l)
    PROVE  /\ r.status = "absent" => Unproposed(r, l)
           /\ r.status = "pending" => Proposed(r, l)
           /\ r.status \in Cancelled => Declined(r, l)
           /\ r.status = "running" => Claimed(a, r, l)
           /\ r.status = "succeeded" => Succeeded(r, l)
           /\ r.status = "failed" => Failed(a, r, l)
BY DEF Bound, Unproposed, Proposed, Declined, Claimed, Succeeded, Failed, Cancelled

\* Rejecting or expiring a proposal.
LEMMA DecliningBinds ==
    ASSUME NEW r \in PaRow, NEW l \in LogRow, Proposed(r, l),
           NEW st \in Cancelled, NEW e, NEW le, e # "none",
           st = "rejected" => e = "USER_REJECTED" /\ le = "none",
           st = "expired" => e \in ResumeErr \/ le = e
    PROVE  Declined(ClosedRow(r, st, e), ClosedLog(l, st, le))
BY DEF Proposed, Declined, ClosedRow, ClosedLog, PaRow, LogRow, Cancelled

\* Approving and claiming it.
LEMMA ClaimingBinds ==
    ASSUME NEW a, NEW r \in PaRow, NEW l \in LogRow, Proposed(r, l), NEW p \in Request
    PROVE  Claimed(a, ClaimedRow(r, p), RunningLog(l))
BY DEF Proposed, Claimed, ClaimedRow, RunningLog, PaRow, LogRow

\* Completing an unannotated claim.
LEMMA CompletingBinds ==
    ASSUME NEW a, NEW r \in PaRow, NEW l \in LogRow, Claimed(a, r, l), ~l.note
    PROVE  Succeeded(ClosedRow(r, "succeeded", "none"), ClosedLog(l, "success", "none"))
BY DEF Claimed, Succeeded, ClosedRow, ClosedLog, PaRow, LogRow

\* Failing a DB claim, which keeps its owner, and a claim of a read-only tool.
LEMMA FailingBinds ==
    ASSUME NEW a, NEW r \in PaRow, NEW l \in LogRow, Claimed(a, r, l), ~l.note,
           NEW e, e # "none"
    PROVE  /\ a \in DbAction => Failed(a, FailedRow(r, e), ClosedLog(l, "failed", e))
           /\ a \notin Write => Failed(a, ClosedRow(r, "failed", e), ClosedLog(l, "failed", e))
BY DEF Claimed, Failed, ClosedRow, FailedRow, ClosedLog, PaRow, LogRow, Write

-----------------------------------------------------------------------------
(* Kinds of steps *)

\* Requests that take no part in a step keep what they know of their claim, if
\* no row leaves "running" but for "failed" and nobody else joins their action.
LEMMA OtherReaders ==
    ASSUME Inv, Facts, NEW p,
           \A q \in Proc \ {p} : req'[q] = req[q],
           p \in Proc =>
             \/ ~Reading(p)'
             \/ Reading(p) /\ req'[p].act = req[p].act
             \/ pa[req'[p].act].status \notin {"running", "failed"},
           \A a \in Action :
             \/ pa'[a].status = pa[a].status /\ pa'[a].owner = pa[a].owner
             \/ pa[a].status \notin {"running", "failed"}
             \/ pa[a].status = "running" /\ pa'[a].status = "failed"
             \/ a \in Write
             \/ p \in Proc /\ Reading(p) /\ req[p].act = a,
           txn' = txn \/ txn = NoTxn \/ txn.by = p \/ ~txn.attached
    PROVE  \A q \in Proc \ {p} : ReaderInv(q)'
<1> TAKE q \in Proc \ {p}
<1>1. q \in Proc /\ req'[q] = req[q] /\ ReaderInv(q) /\ ProcInv(q)
  BY DEF Proc, Inv, Facts
<1>2. req[q].pc = "claimCommit" => txn' = txn
  BY <1>1 DEF ProcInv, Holds, Committing
<1>3. Reading(q) => req[q].act \in Action \ Write
  BY <1>1 DEF ProcInv, LocalOk, Reading
<1>4. ASSUME Reading(q), NEW x \in Proc \ {q}, Reading(x)'
      PROVE  req'[x].act # req[q].act
  <2>1. CASE x = p
    BY <1>1, <1>4, <2>1 DEF ReaderInv
  <2>2. CASE x # p
    <3>1. req'[x] = req[x]
      BY <1>4, <2>2 DEF Proc
    <3> QED
      BY <1>1, <1>4, <3>1 DEF ReaderInv, Reading
  <2> QED
    BY <2>1, <2>2
<1>5. Reading(q)' <=> Reading(q)
  BY <1>1 DEF Reading
<1>6. Reading(q) =>
         /\ \/ pa'[req[q].act].status = "running" /\ pa'[req[q].act].owner = q
            \/ pa'[req[q].act].status = "failed"
         /\ req[q].claim = 0 => /\ req[q].pc = "readCas" /\ req[q].dec = "failed"
                                /\ pa'[req[q].act].status = "failed"
  BY <1>1, <1>3 DEF ReaderInv
<1> QED
  BY <1>1, <1>2, <1>4, <1>5, <1>6 DEF ReaderInv

\* What a step that leaves the rows alone does to files, if it does anything.
WritesFiles ==
    \A a \in Action :
        artifact'[a] => artifact[a] \/ (a \in FileAction /\ pa[a].status = "running")

\* Records outlast a step that leaves the rows alone.
LEMMA RecordsStand ==
    ASSUME Facts, UNCHANGED <<pa, log, card, convDeleted>>, WritesFiles
    PROVE  RecordInv'
BY DEF Facts, RecordInv, WritesFiles, FileFits, CardFits, DeletedIsSettled,
       Bound, Unproposed, Proposed, Declined, Claimed, Succeeded, Failed

\* p moves, and at most lets go of its own transaction or a detached one.
LEMMA ControlFacts ==
    ASSUME Inv, Facts, UNCHANGED <<pa, log, card, convDeleted>>, WritesFiles,
           NEW p, \A q \in Proc \ {p} : req'[q] = req[q],
           p \in Proc => req'[p].pc \notin {"read", "readCas", "claimCommit"},
           \/ txn' = txn
           \/ /\ txn # NoTxn /\ (txn.by = p \/ ~txn.attached)
              /\ txn' \in {NoTxn, [txn EXCEPT !.attached = FALSE]}
    PROVE  Facts'
<1>1. RecordInv'
  BY RecordsStand
<1>2. TxnInv'
  <2>1. CASE txn' = txn
    BY <2>1 DEF Facts, TxnInv, CardFits, Bound, Unproposed, Proposed, Declined, Claimed, Succeeded, Failed
  <2>2. CASE txn' = NoTxn
    BY <2>2 DEF TxnInv
  <2>3. CASE txn # NoTxn /\ txn' = [txn EXCEPT !.attached = FALSE]
    <3>1. /\ txn'.act = txn.act /\ txn'.pa = txn.pa /\ txn'.log = txn.log
          /\ txn'.card = txn.card /\ txn'.sealed = txn.sealed
      BY <2>3 DEF Inv, TypeOK, TxnRow
    <3> QED
      BY <2>3, <3>1
      DEF Facts, TxnInv, CardFits, Bound, Unproposed, Proposed, Declined, Claimed, Succeeded, Failed
  <2> QED
    BY <2>1, <2>2, <2>3
<1>3. \A q \in Proc \ {p} : ReaderInv(q)'
  BY OtherReaders DEF Reading
<1>4. p \in Proc => ReaderInv(p)'
  BY DEF ReaderInv, Reading
<1> QED
  BY <1>1, <1>2, <1>3, <1>4 DEF Facts

\* p writes its transaction.
LEMMA OpenFacts ==
    ASSUME Inv, Facts, UNCHANGED <<pa, log, card, convDeleted>>, WritesFiles,
           NEW p \in Proc, \A q \in Proc \ {p} : req'[q] = req[q],
           req'[p].pc \notin {"read", "readCas"},
           req'[p].pc = "claimCommit" =>
             txn'.pa.status = "running" /\ txn'.pa.owner = p /\ req'[p].claim # 0,
           txn = NoTxn \/ txn.by = p,
           pa[txn'.act].status \in {"pending", "running"}, ~log[txn'.act].note,
           txn'.sealed => /\ Bound(txn'.act, txn'.pa, txn'.log)
                          /\ CardFits(txn'.card, txn'.pa.status)
    PROVE  Facts'
<1>1. RecordInv'
  BY RecordsStand
<1>2. TxnInv'
  BY DEF TxnInv, CardFits, Bound, Unproposed, Proposed, Declined, Claimed, Succeeded, Failed
<1>3. \A q \in Proc \ {p} : ReaderInv(q)'
  BY OtherReaders DEF Reading
<1>4. ReaderInv(p)'
  BY DEF ReaderInv, Reading
<1> QED
  BY <1>1, <1>2, <1>3, <1>4 DEF Facts

-----------------------------------------------------------------------------
(* Steps that move control only *)

\* Where an answer and a move leave the control state.
LEMMA AnswerGoes ==
    ASSUME Inv, NEW p \in Proc, NEW st, Answer(p, st)
    PROVE  /\ \A q \in Proc \ {p} : req'[q] = req[q]
           /\ req'[p].pc \in {"idle", "sweep"}
<1>1. req[p] \in ReqRow
  BY DEF Inv, TypeOK
<1> QED
  BY <1>1 DEF Answer, Idle, Inv, TypeOK, ReqRow

\* A move to another place keeps the rest of the request.
LEMMA GotoGoes ==
    ASSUME Inv, NEW p \in Proc, NEW l, Goto(p, l)
    PROVE  /\ \A q \in Proc \ {p} : req'[q] = req[q]
           /\ req'[p].pc = l /\ req'[p].act = req[p].act /\ req'[p].claim = req[p].claim
<1>1. req[p] \in ReqRow
  BY DEF Inv, TypeOK
<1> QED
  BY <1>1 DEF Goto, Inv, TypeOK, ReqRow

\* A process at rest.
LEMMA RestGoes ==
    ASSUME Inv, NEW p \in Proc, req' = [req EXCEPT ![p] = Idle]
    PROVE  /\ \A q \in Proc \ {p} : req'[q] = req[q]
           /\ req'[p].pc = "idle"
BY DEF Inv, TypeOK, Idle

\* A process that answers, goes on or gives up, whatever becomes of a
\* transaction nobody else holds, keeps the facts.
LEMMA MovingFacts ==
    ASSUME Inv, Facts, UNCHANGED <<pa, log, card, convDeleted>>, WritesFiles, NEW p \in Proc,
           \/ \E st : Answer(p, st)
           \/ \E l : Goto(p, l) /\ l \notin {"read", "readCas", "claimCommit"}
           \/ req' = [req EXCEPT ![p] = Idle],
           \/ txn' = txn
           \/ /\ txn # NoTxn /\ (txn.by = p \/ ~txn.attached)
              /\ txn' \in {NoTxn, [txn EXCEPT !.attached = FALSE]}
    PROVE  Facts'
<1>1. (\A q \in Proc \ {p} : req'[q] = req[q]) /\ req'[p].pc \notin {"read", "readCas", "claimCommit"}
  BY AnswerGoes, GotoGoes, RestGoes
<1> QED
  BY <1>1, ControlFacts

\* Files stay as they are in all steps but those of the handler.
LEMMA NoFiles ==
    ASSUME UNCHANGED artifact
    PROVE  WritesFiles
BY DEF WritesFiles

\* Steps of POST /ai/confirm that read facts and answer or go on.
LEMMA ConfirmMoves ==
    ASSUME Inv, Facts, NEW p \in Request,
           \/ \E a \in Action, d \in {"approve", "reject"} : BeginConfirm(p, a, d)
           \/ ConfirmGone(p) \/ ConfirmDecided(p) \/ ExecRefused(p) \/ ReadUnexecuted(p)
    PROVE  Facts'
<1>1. p \in Proc /\ UNCHANGED <<pa, log, card, convDeleted, artifact, txn>>
  BY DEF Proc, BeginConfirm, ConfirmGone, ConfirmDecided, ExecRefused, ReadUnexecuted, rows, world
<1>2. WritesFiles
  BY <1>1, NoFiles
<1>3. ASSUME NEW a \in Action, NEW d \in {"approve", "reject"}, BeginConfirm(p, a, d)
      PROVE  Facts'
  <2>1. PICK r : /\ req' = [req EXCEPT ![p] = r]
                 /\ r.pc \in {"idle", "proof", "reconcile", "lock"}
    <3> DEFINE pc == CASE a \in Write /\ pa[a].status \in Cancelled -> "proof"
                        [] a \in Write /\ pa[a].status \in Finished \cup {"running"} -> "reconcile"
                        [] OTHER -> "lock"
               r == IF log[a].note THEN Idle ELSE [pc |-> pc, act |-> a, dec |-> d, claim |-> 0]
    <3>1. req' = [req EXCEPT ![p] = r]
      BY <1>3 DEF BeginConfirm
    <3>2. pc \in {"proof", "reconcile", "lock"}
      OBVIOUS
    <3>3. r.pc \in {"idle", "proof", "reconcile", "lock"}
      BY <3>2 DEF Idle
    <3> HIDE DEF r
    <3> QED
      BY <3>1, <3>3
  <2>2. (\A q \in Proc \ {p} : req'[q] = req[q]) /\ req'[p] = r
    BY <1>1, <2>1 DEF Inv, TypeOK
  <2> QED
    BY <1>1, <1>2, <2>1, <2>2, ControlFacts
<1>4. CASE ConfirmGone(p) \/ ConfirmDecided(p) \/ ExecRefused(p) \/ ReadUnexecuted(p)
  <2>1. \/ \E st : Answer(p, st)
        \/ \E l : Goto(p, l) /\ l \notin {"read", "readCas", "claimCommit"}
    BY <1>4 DEF ConfirmGone, ConfirmDecided, ExecRefused, ReadUnexecuted
  <2> QED
    BY <1>1, <1>2, <2>1, MovingFacts
<1> QED
  BY <1>3, <1>4

\* Lost acknowledgements, facts that are read back, time-outs and crashes.
LEMMA RecoveryMoves ==
    ASSUME Inv, Facts, NEW p \in Proc,
           CommitUnknown(p) \/ FactRead(p) \/ GiveUp(p) \/ Crash(p)
    PROVE  Facts'
<1>1. UNCHANGED <<pa, log, card, convDeleted, artifact>>
  BY DEF CommitUnknown, FactRead, GiveUp, Crash, rows, world
<1>2. WritesFiles
  BY <1>1, NoFiles
<1>3. \/ \E st : Answer(p, st)
      \/ \E l : Goto(p, l) /\ l \notin {"read", "readCas", "claimCommit"}
      \/ req' = [req EXCEPT ![p] = Idle]
  <2>1. CASE CommitUnknown(p)
    BY <2>1 DEF CommitUnknown
  <2>2. CASE FactRead(p)
    <3>1. Goto(p, "project") \/ Answer(p, "running")
      BY <2>2 DEF FactRead
    <3> QED
      BY <3>1
  <2>3. CASE GiveUp(p)
    BY <2>3 DEF GiveUp
  <2>4. CASE Crash(p)
    BY <2>4 DEF Crash
  <2> QED
    BY <2>1, <2>2, <2>3, <2>4
<1>4. \/ txn' = txn
      \/ /\ txn # NoTxn /\ (txn.by = p \/ ~txn.attached)
         /\ txn' \in {NoTxn, [txn EXCEPT !.attached = FALSE]}
  BY DEF CommitUnknown, FactRead, GiveUp, Crash
<1> QED
  BY <1>1, <1>2, <1>3, <1>4, MovingFacts

\* A rolled back handler may leave the file of a FILE tool behind, while its
\* claim is running.
LEMMA RollbackMoves ==
    ASSUME Inv, Facts, NEW p \in Request, HandlerRollback(p) \/ HandlerRollbackLost(p)
    PROVE  Facts'
<1>1. /\ p \in Proc /\ UNCHANGED <<pa, log, card, convDeleted>>
      /\ req[p].pc = "handler"
  BY DEF Proc, HandlerRollback, HandlerRollbackLost, rows, At
<1>2. txn # NoTxn /\ txn.by = p /\ pa[req[p].act].status = "running"
  BY <1>1 DEF Inv, ProcInv, Holds
<1>3. WritesFiles
  BY <1>2 DEF HandlerRollback, HandlerRollbackLost, WritesFiles, Inv, TypeOK
<1>4. \/ \E st : Answer(p, st)
      \/ \E l : Goto(p, l) /\ l \notin {"read", "readCas", "claimCommit"}
  BY DEF HandlerRollback, HandlerRollbackLost
<1>5. txn' \in {NoTxn, [txn EXCEPT !.attached = FALSE]}
  BY DEF HandlerRollback, HandlerRollbackLost
<1> QED
  BY <1>1, <1>2, <1>3, <1>4, <1>5, MovingFacts

\* The server drops a transaction whose client is gone.
LEMMA AbortMoves ==
    ASSUME Inv, Facts, ServerAbort
    PROVE  Facts'
<1>1. /\ UNCHANGED <<pa, log, card, convDeleted, artifact, req>>
      /\ txn # NoTxn /\ ~txn.attached /\ txn' = NoTxn
  BY DEF ServerAbort, rows, world
<1>2. NoProc \notin Proc
  BY ProtocolAssumption
<1> QED
  BY <1>1, <1>2, NoFiles, ControlFacts

\* The sweep's bookkeeping.
LEMMA SweepMoves ==
    ASSUME Inv, Facts,
           (\E due \in BOOLEAN : SweepScan(due)) \/ (\E c \in todo : SweepPick(c)) \/ SweepEnd
    PROVE  Facts'
<1>1. UNCHANGED <<pa, log, card, convDeleted, artifact, txn>>
  BY DEF SweepScan, SweepPick, SweepEnd, rows, world
<1>2. Sweeper \in Proc /\ req[Sweeper] \in ReqRow
  BY DEF Proc, Inv, TypeOK
<1>3. \A q \in Proc \ {Sweeper} : req'[q] = req[q]
  BY <1>2 DEF SweepScan, SweepPick, SweepEnd, Inv, TypeOK
<1>4. \A c : SweepRoute(c) \in {"reconcile", "sweep", "sweepLock"}
  BY DEF SweepRoute
<1>5. req'[Sweeper].pc \in {"idle", "sweep", "reconcile", "sweepLock"}
  <2>1. CASE \E due \in BOOLEAN : SweepScan(due)
    BY <1>2, <2>1 DEF SweepScan, Inv, TypeOK, ReqRow
  <2>2. CASE \E c \in todo : SweepPick(c)
    <3>1. PICK c \in todo : req' = [req EXCEPT ![Sweeper].pc = SweepRoute(c), ![Sweeper].act = c.act]
      BY <2>2 DEF SweepPick
    <3>2. req'[Sweeper].pc = SweepRoute(c)
      BY <1>2, <3>1 DEF Inv, TypeOK, ReqRow
    <3> QED
      BY <1>4, <3>2
  <2>3. CASE SweepEnd
    BY <1>2, <2>3 DEF SweepEnd, Idle, Inv, TypeOK
  <2> QED
    BY <2>1, <2>2, <2>3
<1> QED
  BY <1>1, <1>2, <1>3, <1>5, NoFiles, ControlFacts

-----------------------------------------------------------------------------
(* Steps that write a transaction *)

\* What is known of one action.
LEMMA RecordOf ==
    ASSUME Inv, Facts, NEW a \in Action
    PROVE  /\ pa[a] \in PaRow /\ log[a] \in LogRow
           /\ Bound(a, pa[a], log[a]) /\ CardFits(card[a], pa[a].status) /\ FileFits(a)
           /\ pa[a].status = "pending" => Proposed(pa[a], log[a])
           /\ pa[a].status = "running" => Claimed(a, pa[a], log[a])
<1>1. Bound(a, pa[a], log[a]) /\ CardFits(card[a], pa[a].status) /\ FileFits(a)
  BY DEF Facts, RecordInv
<1> QED
  BY <1>1, RowFacts, KindOfRecord

\* p opens, or rewrites, a transaction with the record (r, l) and the card c.
LEMMA TxnFacts ==
    ASSUME Inv, Facts, UNCHANGED <<pa, log, card, convDeleted>>, WritesFiles, NEW p \in Proc,
           NEW pc, pc \notin {"read", "readCas", "claimCommit"}, Goto(p, pc),
           NEW r, NEW l, NEW e, NEW c, NEW sealed \in BOOLEAN, Txn(p, r, l, e, c, sealed),
           txn = NoTxn \/ txn.by = p,
           pa[req[p].act].status \in {"pending", "running"}, ~log[req[p].act].note,
           sealed => Bound(req[p].act, r, l) /\ CardFits(c, r.status)
    PROVE  Facts'
<1>1. /\ txn'.act = req[p].act /\ txn'.pa = r /\ txn'.log = l
      /\ txn'.card = c /\ txn'.sealed = sealed
  BY DEF Txn
<1>2. (\A q \in Proc \ {p} : req'[q] = req[q]) /\ req'[p].pc = pc
  BY GotoGoes
<1> QED
  BY <1>1, <1>2, OpenFacts

\* _terminalize_before_execution: the proposal is declined.
LEMMA CloseOpens ==
    ASSUME Inv, Facts, NEW p \in Request, NEW st \in Cancelled, NEW e \in Err, ConfirmClose(p, st, e)
    PROVE  Facts'
<1> DEFINE a == req[p].act
           r == ClosedRow(pa[a], st, e)
           l == ClosedLog(log[a], st, IF st = "rejected" THEN "none" ELSE e)
<1>1. /\ p \in Proc /\ UNCHANGED <<pa, log, card, convDeleted, artifact>> /\ req[p].pc = "lock"
      /\ txn = NoTxn /\ pa[a].status = "pending" /\ ~log[a].note
      /\ Txn(p, r, l, 0, "failed", TRUE) /\ Goto(p, "termCommit")
  BY DEF Proc, ConfirmClose, CanLeavePending, rows, world, At
<1>2. a \in Action
  BY <1>1 DEF Inv, ProcInv, LocalOk
<1>3. Proposed(pa[a], log[a]) /\ pa[a] \in PaRow /\ log[a] \in LogRow
  BY <1>1, <1>2, RecordOf
<1>4. e # "none" /\ (st = "rejected" => e = "USER_REJECTED")
  BY DEF ConfirmClose
<1>5. Declined(r, l)
  BY <1>3, <1>4, DecliningBinds
<1>6. Bound(a, r, l) /\ CardFits("failed", r.status)
  BY <1>5 DEF Bound, CardFits, Declined, Terminal, Cancelled
<1> QED
  BY <1>1, <1>6, NoFiles, TxnFacts

\* Approve and claim.
LEMMA ClaimOpens ==
    ASSUME Inv, Facts, NEW p \in Request, ConfirmClaim(p)
    PROVE  Facts'
<1> DEFINE a == req[p].act
           r == ClaimedRow(pa[a], p)
           l == RunningLog(log[a])
           q == [req[p] EXCEPT !.pc = "claimCommit", !.claim = pa[a].ver + 2]
<1>1. /\ p \in Proc /\ UNCHANGED <<pa, log, card, convDeleted, artifact>> /\ req[p].pc = "lock"
      /\ txn = NoTxn /\ pa[a].status = "pending" /\ ~log[a].note
      /\ Txn(p, r, l, 0, card[a], TRUE)
  BY DEF Proc, ConfirmClaim, CanLeavePending, rows, world, At
<1>2. a \in Action /\ req[p] \in ReqRow
  BY <1>1 DEF Inv, TypeOK, ProcInv, LocalOk
<1>3. Proposed(pa[a], log[a]) /\ pa[a] \in PaRow /\ log[a] \in LogRow /\ pa[a].ver = 1
  BY <1>1, <1>2, RecordOf, RowFacts
<1>4. Claimed(a, r, l)
  BY <1>3, ClaimingBinds
<1>5. r.status = "running" /\ r.owner = p
  BY <1>3 DEF ClaimedRow, PaRow
<1>6. CardFits(card[a], "running")
  BY <1>1, <1>2, RecordOf DEF CardFits, Terminal, Cancelled, Finished
<1>7. q.pc = "claimCommit" /\ q.claim # 0
  BY <1>2, <1>3 DEF ReqRow
<1>8. req'[p] = q /\ \A x \in Proc \ {p} : req'[x] = req[x]
  BY <1>1, <1>2 DEF ConfirmClaim, Inv, TypeOK, ReqRow
<1>9. /\ txn'.act = a /\ txn'.pa = r /\ txn'.log = l /\ txn'.card = card[a]
  BY <1>1 DEF Txn
<1>10. Bound(a, r, l)
  BY <1>4 DEF Bound
<1> HIDE DEF q, r, l
<1> QED
  BY <1>1, <1>5, <1>6, <1>7, <1>8, <1>9, <1>10, NoFiles, OpenFacts

\* The handler's transaction starts from an unannotated claim ...
LEMMA ExecOpens ==
    ASSUME Inv, Facts, NEW p \in Request, ExecBegin(p)
    PROVE  Facts'
<1> DEFINE a == req[p].act
<1>1. /\ p \in Proc /\ UNCHANGED <<pa, log, card, convDeleted, artifact>>
      /\ txn = NoTxn /\ pa[a].status = "running" /\ ~log[a].note
      /\ Txn(p, pa[a], log[a], 0, card[a], FALSE) /\ Goto(p, "handler")
  BY DEF Proc, ExecBegin, LockClaim, CheckLog, rows, world
<1> QED
  BY <1>1, NoFiles, TxnFacts

\* ... and completes it; the file of a FILE tool belongs to a running claim.
LEMMA HandlerOpens ==
    ASSUME Inv, Facts, NEW p \in Request, HandlerOk(p)
    PROVE  Facts'
<1> DEFINE a == req[p].act
           r == ClosedRow(pa[a], "succeeded", "none")
           l == ClosedLog(log[a], "success", "none")
<1>1. /\ p \in Proc /\ UNCHANGED <<pa, log, card, convDeleted>> /\ req[p].pc = "handler"
      /\ artifact' = [artifact EXCEPT ![a] = artifact[a] \/ a \in FileAction]
      /\ Txn(p, r, l, 1, card[a], TRUE) /\ Goto(p, "execCommit")
  BY DEF Proc, HandlerOk, rows, At
<1>2. a \in Action /\ txn # NoTxn /\ txn.by = p /\ txn.act = a /\ pa[a].status = "running"
  BY <1>1 DEF Inv, ProcInv, LocalOk, Holds
<1>3. ~log[a].note
  BY <1>2 DEF Facts, TxnInv
<1>4. Claimed(a, pa[a], log[a]) /\ pa[a] \in PaRow /\ log[a] \in LogRow
  BY <1>2, RecordOf
<1>5. Succeeded(r, l)
  BY <1>3, <1>4, CompletingBinds
<1>6. Bound(a, r, l) /\ CardFits(card[a], r.status)
  <2>1. r.status = "succeeded"
    BY <1>5 DEF Succeeded
  <2>2. CardFits(card[a], "running")
    BY <1>2, RecordOf
  <2> QED
    BY <1>5, <2>1, <2>2 DEF Bound, CardFits, Terminal, Cancelled, Finished
<1>7. WritesFiles
  BY <1>1, <1>2 DEF WritesFiles, Inv, TypeOK
<1> QED
  BY <1>1, <1>2, <1>3, <1>6, <1>7, TxnFacts

\* The two places that fence a DB claim.
LEMMA FenceOpens ==
    ASSUME Inv, Facts, NEW p \in Proc, UNCHANGED <<pa, log, card, convDeleted, artifact>>,
           NEW e \in Err \ {"none"}, NEW pc \in {"finishCommit", "recCommit"}, Goto(p, pc),
           req[p].act \in DbAction, txn = NoTxn, pa[req[p].act].status = "running",
           ~log[req[p].act].note,
           Txn(p, FailedRow(pa[req[p].act], e), ClosedLog(log[req[p].act], "failed", e), 0,
               card[req[p].act], TRUE)
    PROVE  Facts'
<1> DEFINE a == req[p].act
           r == FailedRow(pa[a], e)
           l == ClosedLog(log[a], "failed", e)
<1>1. a \in Action
  BY ProtocolAssumption DEF Write
<1>2. Claimed(a, pa[a], log[a]) /\ pa[a] \in PaRow /\ log[a] \in LogRow
  BY <1>1, RecordOf
<1>3. Failed(a, r, l)
  BY <1>2, FailingBinds
<1>4. r.status = "failed" /\ CardFits(card[a], "running")
  BY <1>1, <1>3, RecordOf DEF Failed
<1>5. Bound(a, r, l) /\ CardFits(card[a], r.status)
  BY <1>3, <1>4 DEF Bound, CardFits, Terminal, Cancelled, Finished
<1> QED
  BY <1>5, NoFiles, TxnFacts

\* _finish_rolled_back opens the transaction that fails a DB claim, or nothing.
LEMMA FinishOpens ==
    ASSUME Inv, Facts, NEW p \in Request, NEW e \in Err, FinishRolledBack(p, e)
    PROVE  Facts'
<1> DEFINE a == req[p].act
<1>1. p \in Proc /\ UNCHANGED <<pa, log, card, convDeleted, artifact>>
  BY DEF Proc, FinishRolledBack, rows, world
<1>2. CASE txn' = txn /\ (Answer(p, "running") \/ Goto(p, "project"))
  BY <1>1, <1>2, NoFiles, MovingFacts
<1>3. CASE /\ Fenceable(a) /\ txn = NoTxn /\ pa[a].status = "running"
           /\ LockClaim(a, p, req[p].claim, FALSE)
           /\ Txn(p, FailedRow(pa[a], e), ClosedLog(log[a], "failed", e), 0, card[a], TRUE)
           /\ Goto(p, "finishCommit")
  <2>1. a \in DbAction /\ ~log[a].note /\ e \in Err \ {"none"}
    BY <1>3 DEF Fenceable, LockClaim, CheckLog, FinishRolledBack
  <2> QED
    BY <1>1, <1>3, <2>1, FenceOpens
<1> QED
  BY <1>2, <1>3 DEF FinishRolledBack

\* reconcile opens the transaction that fences a DB claim, or nothing.
LEMMA ReconcileOpens ==
    ASSUME Inv, Facts, NEW p \in Proc, Reconcile(p)
    PROVE  Facts'
<1> DEFINE a == req[p].act
<1>1. UNCHANGED <<pa, log, card, convDeleted, artifact>>
  BY DEF Reconcile, rows, world
<1>2. CASE txn' = txn /\ (Answer(p, "running") \/ Goto(p, "project"))
  BY <1>1, <1>2, NoFiles, MovingFacts
<1>3. CASE /\ Fenceable(a) /\ txn = NoTxn /\ pa[a].status = "running"
           /\ \E owner, ver : LockClaim(a, owner, ver, FALSE)
           /\ Txn(p, FailedRow(pa[a], "EXECUTION_INTERRUPTED"),
                  ClosedLog(log[a], "failed", "EXECUTION_INTERRUPTED"), 0, card[a], TRUE)
           /\ Goto(p, "recCommit")
  <2>1. a \in DbAction /\ ~log[a].note /\ "EXECUTION_INTERRUPTED" \in Err \ {"none"}
    BY <1>3 DEF Fenceable, LockClaim, CheckLog, Err
  <2> QED
    BY <1>1, <1>3, <2>1, FenceOpens
<1> QED
  BY <1>2, <1>3 DEF Reconcile

\* The sweeper expires a proposal or fails the lost claim of a read-only tool.
LEMMA SweepOpens ==
    ASSUME Inv, Facts, SweepLocked
    PROVE  Facts'
<1> DEFINE a == req[Sweeper].act
           st == IF pa[a].status = "pending" THEN "expired" ELSE "failed"
           e  == IF pa[a].status = "pending" THEN "AI_HITL_EXPIRED" ELSE "EXECUTION_INTERRUPTED"
           r == ClosedRow(pa[a], st, e)
           l == ClosedLog(log[a], st, e)
<1>1. /\ Sweeper \in Proc /\ UNCHANGED <<pa, log, card, convDeleted, artifact>>
      /\ req[Sweeper].pc = "sweepLock" /\ txn = NoTxn
  BY DEF Proc, SweepLocked, rows, world, At
<1>2. a \in Action
  BY <1>1 DEF Inv, ProcInv, LocalOk
<1>3. CASE txn' = txn /\ Answer(Sweeper, "none")
  BY <1>1, <1>3, NoFiles, MovingFacts
<1>4. CASE /\ pa[a].status = "pending" \/ (pa[a].status = "running" /\ a \notin Write)
           /\ ~log[a].note
           /\ Txn(Sweeper, r, l, 0, "failed", TRUE) /\ Goto(Sweeper, "sweepCommit")
  <2>1. pa[a] \in PaRow /\ log[a] \in LogRow
    BY <1>2, RecordOf
  <2>2. CASE pa[a].status = "pending"
    <3>1. Proposed(pa[a], log[a]) /\ st = "expired" /\ e = "AI_HITL_EXPIRED"
      BY <1>2, <2>2, RecordOf
    <3>2. Declined(r, l)
      BY <2>1, <3>1, DecliningBinds DEF Cancelled
    <3> QED
      BY <1>1, <1>4, <2>2, <3>2, NoFiles, TxnFacts DEF Bound, CardFits, Declined, Terminal, Cancelled
  <2>3. CASE pa[a].status = "running" /\ a \notin Write
    <3>1. Claimed(a, pa[a], log[a]) /\ st = "failed" /\ e = "EXECUTION_INTERRUPTED"
      BY <1>2, <2>3, RecordOf
    <3>2. Failed(a, r, l)
      BY <1>4, <2>1, <2>3, <3>1, FailingBinds
    <3> QED
      BY <1>1, <1>4, <2>3, <3>2, NoFiles, TxnFacts DEF Bound, CardFits, Failed, Terminal, Finished
  <2> QED
    BY <1>4, <2>2, <2>3
<1> QED
  BY <1>3, <1>4 DEF SweepLocked

-----------------------------------------------------------------------------
(* Steps that write rows *)

\* What COMMIT shows is a record again, and the rows of others stay.
LEMMA ApplyFacts ==
    ASSUME Inv, Facts, txn # NoTxn, txn.sealed, Apply, UNCHANGED <<artifact, convDeleted>>
    PROVE  /\ RecordInv' /\ TxnInv'
           /\ \A a \in Action :
                \/ pa'[a].status = pa[a].status /\ pa'[a].owner = pa[a].owner
                \/ pa[a].status = "pending"
                \/ pa[a].status = "running" /\ pa'[a].status = "failed"
                \/ a \in Write
<1> DEFINE a == txn.act
<1>1. a \in Action /\ LegalMove(a, pa[a].status, txn)
  BY DEF Inv, TypeOK, TxnRow, SealedIsLegal
<1>2. /\ Bound(a, txn.pa, txn.log) /\ CardFits(txn.card, txn.pa.status)
      /\ pa[a].status \in {"pending", "running"}
  BY DEF Facts, TxnInv
<1>3. /\ pa'[a] = txn.pa /\ log'[a] = txn.log /\ card'[a] = txn.card /\ txn' = NoTxn
      /\ \A b \in Action \ {a} : pa'[b] = pa[b] /\ log'[b] = log[b] /\ card'[b] = card[b]
  BY <1>1 DEF Apply, Inv, TypeOK
<1>4. artifact[a] => a \in FileAction /\ txn.pa.status \in {"running", "succeeded"}
  <2>1. ASSUME artifact[a] PROVE a \in FileAction /\ pa[a].status = "running"
    BY <1>1, <1>2, <2>1, RecordOf DEF FileFits
  <2>2. ASSUME artifact[a] PROVE txn.pa.status # "failed"
    BY <1>2, <2>1, <2>2, ProtocolAssumption DEF Bound, Unproposed, Proposed, Declined, Claimed,
       Succeeded, Failed, Write, Cancelled
  <2>3. pa[a].status = "running" /\ txn.pa.status # "failed" => txn.pa.status = "succeeded"
    BY <1>1 DEF LegalMove
  <2> QED
    BY <2>1, <2>2, <2>3
<1>5. \A b \in Action :
        /\ Bound(b, pa'[b], log'[b]) /\ CardFits(card'[b], pa'[b].status)
        /\ artifact'[b] => b \in FileAction /\ pa'[b].status \in {"running", "succeeded"}
  <2> TAKE b \in Action
  <2>1. CASE b = a
    BY <1>2, <1>3, <1>4, <2>1
  <2>2. CASE b # a
    BY <1>3, <2>2, RecordOf DEF FileFits
  <2> QED
    BY <2>1, <2>2
<1>6. DeletedIsSettled'
  BY <1>1, <1>2, <1>3 DEF Facts, RecordInv, DeletedIsSettled
<1>7. RecordInv'
  BY <1>5, <1>6 DEF RecordInv, FileFits, Bound, Unproposed, Proposed, Declined, Claimed, Succeeded,
                    Failed, CardFits
<1> QED
  BY <1>1, <1>3, <1>7 DEF TxnInv, LegalMove

\* The acknowledged COMMIT.
LEMMA CommitAckedFacts ==
    ASSUME Inv, Facts, NEW p \in Proc, CommitAcked(p)
    PROVE  Facts'
<1> DEFINE a == req[p].act
<1>1. /\ req[p].pc \in Committing /\ txn # NoTxn /\ txn.by = p /\ Apply
      /\ UNCHANGED <<artifact, convDeleted>>
  BY DEF CommitAcked, world
<1>2. txn.sealed /\ txn.act = a /\ a \in Action
  BY <1>1 DEF Inv, ProcInv, LocalOk, Holds, Committing
<1>3. /\ RecordInv' /\ TxnInv'
      /\ \A b \in Action :
           \/ pa'[b].status = pa[b].status /\ pa'[b].owner = pa[b].owner
           \/ pa[b].status = "pending"
           \/ pa[b].status = "running" /\ pa'[b].status = "failed"
           \/ b \in Write
  BY <1>1, <1>2, ApplyFacts
<1>4. CASE req[p].pc = "claimCommit" /\ a \notin Write /\ Goto(p, "read")
  <2>1. (\A q \in Proc \ {p} : req'[q] = req[q]) /\ req'[p].pc = "read" /\ req'[p].act = a
        /\ req'[p].claim = req[p].claim
    BY <1>4, GotoGoes
  <2>2. /\ txn.pa.status = "running" /\ txn.pa.owner = p /\ req[p].claim # 0
    BY <1>4 DEF Facts, ReaderInv
  <2>3. pa[a].status = "pending" /\ pa'[a].status = "running" /\ pa'[a].owner = p
    BY <1>1, <1>2, <2>2 DEF Inv, TypeOK, SealedIsLegal, LegalMove, Cancelled, Apply
  <2>4. \A q \in Proc \ {p} : ReaderInv(q)'
    BY <1>1, <1>3, <2>1, <2>3, OtherReaders
  <2>5. ASSUME NEW q \in Proc \ {p}, Reading(q)'
        PROVE  req'[q].act # a
    <3>1. Reading(q) /\ ReaderInv(q)
      BY <2>1, <2>5 DEF Reading, Facts
    <3> QED
      BY <2>1, <2>3, <3>1 DEF ReaderInv
  <2>6. ReaderInv(p)'
    BY <2>1, <2>2, <2>3, <2>5 DEF ReaderInv, Reading
  <2> QED
    BY <1>3, <2>4, <2>6 DEF Facts
<1>5. CASE (\A q \in Proc \ {p} : req'[q] = req[q]) /\ req'[p].pc \notin {"read", "readCas", "claimCommit"}
  <2>1. \A q \in Proc \ {p} : ReaderInv(q)'
    BY <1>1, <1>3, <1>5, OtherReaders DEF Reading
  <2>2. ReaderInv(p)'
    BY <1>5 DEF ReaderInv, Reading
  <2> QED
    BY <1>3, <2>1, <2>2 DEF Facts
<1> QED
  <2>1. CASE \E st : Answer(p, st)
    BY <1>5, <2>1, AnswerGoes
  <2>2. CASE \E l \in {"exec", "project"} : Goto(p, l)
    BY <1>5, <2>2, GotoGoes
  <2>3. \/ \E st : Answer(p, st)
        \/ \E l \in {"exec", "project"} : Goto(p, l)
        \/ req[p].pc = "claimCommit" /\ a \notin Write /\ Goto(p, "read")
    BY DEF CommitAcked, At
  <2> QED
    BY <1>4, <2>1, <2>2, <2>3

\* The COMMIT of a detached transaction.
LEMMA ServerCommitFacts ==
    ASSUME Inv, Facts, ServerCommit
    PROVE  Facts'
<1>1. /\ txn # NoTxn /\ txn.sealed /\ ~txn.attached /\ Apply
      /\ UNCHANGED <<artifact, convDeleted, req>>
  BY DEF ServerCommit, world
<1>2. /\ RecordInv' /\ TxnInv'
      /\ \A b \in Action :
           \/ pa'[b].status = pa[b].status /\ pa'[b].owner = pa[b].owner
           \/ pa[b].status = "pending"
           \/ pa[b].status = "running" /\ pa'[b].status = "failed"
           \/ b \in Write
  BY <1>1, ApplyFacts
<1>3. NoProc \notin Proc
  BY ProtocolAssumption
<1>4. \A q \in Proc \ {NoProc} : ReaderInv(q)'
  BY <1>1, <1>2, <1>3, OtherReaders
<1> QED
  BY <1>2, <1>3, <1>4 DEF Facts

\* A step outside a transaction that writes the record of one action, and ends
\* the request p or leaves every request alone.
LEMMA RowFactsKept ==
    ASSUME Inv, Facts, NEW a \in Action, NEW p, txn = NoTxn, txn' = NoTxn,
           UNCHANGED <<artifact, convDeleted>>,
           \A b \in Action \ {a} : pa'[b] = pa[b] /\ log'[b] = log[b] /\ card'[b] = card[b],
           Bound(a, pa'[a], log'[a]), CardFits(card'[a], pa'[a].status),
           artifact[a] => pa'[a].status \in {"running", "succeeded"},
           convDeleted => pa'[a].status \notin {"pending", "running"},
           \A q \in Proc \ {p} : req'[q] = req[q],
           p \in Proc => req'[p].pc \notin {"read", "readCas", "claimCommit"},
           \/ pa'[a].status = pa[a].status /\ pa'[a].owner = pa[a].owner
           \/ pa[a].status \notin {"running", "failed"}
           \/ a \in Write
           \/ p \in Proc /\ Reading(p) /\ req[p].act = a
    PROVE  Facts'
<1>1. \A b \in Action :
        /\ Bound(b, pa'[b], log'[b]) /\ CardFits(card'[b], pa'[b].status)
        /\ artifact'[b] => b \in FileAction /\ pa'[b].status \in {"running", "succeeded"}
  <2> TAKE b \in Action
  <2>1. Bound(b, pa[b], log[b]) /\ CardFits(card[b], pa[b].status) /\ FileFits(b)
    BY RecordOf
  <2> QED
    BY <2>1 DEF FileFits
<1>2. DeletedIsSettled'
  BY DEF Facts, RecordInv, DeletedIsSettled
<1>3. RecordInv'
  BY <1>1, <1>2 DEF RecordInv, FileFits, Bound, Unproposed, Proposed, Declined, Claimed, Succeeded,
                    Failed, CardFits
<1>4. TxnInv'
  BY DEF TxnInv
<1>5. \A q \in Proc \ {p} : ReaderInv(q)'
  BY OtherReaders DEF Reading
<1>6. p \in Proc => ReaderInv(p)'
  BY DEF ReaderInv, Reading
<1> QED
  BY <1>3, <1>4, <1>5, <1>6 DEF Facts

\* The same when only the rows change.
LEMMA StreamFacts ==
    ASSUME Inv, Facts, NEW a \in Action, NEW r, NEW l, NEW c, txn = NoTxn,
           pa' = [pa EXCEPT ![a] = r], log' = [log EXCEPT ![a] = l], card' = [card EXCEPT ![a] = c],
           UNCHANGED <<artifact, convDeleted, txn, req>>,
           Bound(a, r, l), CardFits(c, r.status),
           artifact[a] => r.status \in {"running", "succeeded"},
           convDeleted => r.status \notin {"pending", "running"},
           \/ r.status = pa[a].status /\ r.owner = pa[a].owner
           \/ pa[a].status \notin {"running", "failed"}
           \/ a \in Write
    PROVE  Facts'
<1>1. /\ pa'[a] = r /\ log'[a] = l /\ card'[a] = c
      /\ \A b \in Action \ {a} : pa'[b] = pa[b] /\ log'[b] = log[b] /\ card'[b] = card[b]
  BY DEF Inv, TypeOK
<1>2. NoProc \notin Proc
  BY ProtocolAssumption
<1> HIDE DEF Inv
<1> QED
  BY <1>1, <1>2, RowFactsKept

\* A file of a proposal does not exist yet, nor a card.
LEMMA ProposalIsBare ==
    ASSUME Inv, Facts, NEW a \in Action, pa[a].status \in {"absent", "pending"}
    PROVE  ~artifact[a] /\ card[a] \notin {"ok", "failed"}
BY RecordOf DEF FileFits, CardFits, Terminal, Cancelled, Finished

\* The chat stream logs, proposes, or gives up before it proposed.
LEMMA CreationFacts ==
    ASSUME Inv, Facts, NEW a \in Action, StartLog(a) \/ CreatePending(a) \/ SetupFailed(a)
    PROVE  Facts'
<1>1. txn = NoTxn /\ UNCHANGED <<artifact, convDeleted, txn, req, card>>
  BY DEF StartLog, CreatePending, SetupFailed, world
<1>2. pa[a] \in PaRow /\ log[a] \in LogRow /\ Bound(a, pa[a], log[a])
  BY RecordOf
<1>3. Unproposed(pa[a], log[a])
  BY <1>2 DEF StartLog, CreatePending, SetupFailed, Bound, Unproposed, Proposed, Declined, Claimed,
              Succeeded, Failed, Cancelled
<1>4. ~artifact[a] /\ card[a] \notin {"ok", "failed"}
  BY <1>3, ProposalIsBare DEF Unproposed
<1>5. pa = [pa EXCEPT ![a] = pa[a]] /\ log = [log EXCEPT ![a] = log[a]] /\ card = [card EXCEPT ![a] = card[a]]
  BY DEF Inv, TypeOK
<1>6. CASE StartLog(a)
  <2> DEFINE l == [log[a] EXCEPT !.status = "pending"]
  <2>1. Unproposed(pa[a], l)
    BY <1>2, <1>3, <1>6 DEF StartLog, Unproposed, LogRow
  <2>2. log' = [log EXCEPT ![a] = l] /\ pa' = [pa EXCEPT ![a] = pa[a]] /\ card' = [card EXCEPT ![a] = card[a]]
    BY <1>1, <1>5, <1>6 DEF StartLog
  <2>3. pa[a].status = "absent" /\ CardFits(card[a], "absent")
    BY <1>4, <2>1 DEF Unproposed, CardFits
  <2>4. Bound(a, pa[a], l)
    BY <2>1 DEF Bound
  <2> HIDE DEF l
  <2> DEFINE r == pa[a]
             c == card[a]
  <2>5. /\ pa' = [pa EXCEPT ![a] = r] /\ log' = [log EXCEPT ![a] = l] /\ card' = [card EXCEPT ![a] = c]
        /\ Bound(a, r, l) /\ CardFits(c, r.status) /\ r.status = "absent"
        /\ r.status = pa[a].status /\ r.owner = pa[a].owner
    BY <2>2, <2>3, <2>4
  <2> HIDE DEF r, c
  <2> QED
    BY <1>1, <1>4, <2>5, StreamFacts
<1>7. CASE CreatePending(a)
  <2>1. Proposed(PendingRow, log[a])
    BY <1>2, <1>3, <1>7 DEF CreatePending, Unproposed, Proposed, PendingRow, NoPa, LogRow
  <2>2. pa' = [pa EXCEPT ![a] = PendingRow] /\ log' = [log EXCEPT ![a] = log[a]]
        /\ card' = [card EXCEPT ![a] = card[a]] /\ ~convDeleted
    BY <1>1, <1>5, <1>7 DEF CreatePending
  <2>3. CardFits(card[a], PendingRow.status)
    BY <1>4, <2>1 DEF CardFits
  <2>4. pa[a].status = "absent"
    BY <1>3 DEF Unproposed
  <2> QED
    BY <1>1, <1>4, <2>1, <2>2, <2>3, <2>4, StreamFacts DEF Bound
<1>8. CASE SetupFailed(a)
  <2> DEFINE l == ClosedLog(log[a], "failed", "SETUP_FAILED")
  <2>1. Unproposed(pa[a], l)
    BY <1>2, <1>3, <1>8 DEF SetupFailed, Unproposed, ClosedLog, LogRow
  <2>2. log' = [log EXCEPT ![a] = l] /\ pa' = [pa EXCEPT ![a] = pa[a]] /\ card' = [card EXCEPT ![a] = card[a]]
    BY <1>1, <1>5, <1>8 DEF SetupFailed
  <2>3. pa[a].status = "absent" /\ CardFits(card[a], "absent")
    BY <1>4, <2>1 DEF Unproposed, CardFits
  <2>4. Bound(a, pa[a], l)
    BY <2>1 DEF Bound
  <2> HIDE DEF l
  <2> DEFINE r == pa[a]
             c == card[a]
  <2>5. /\ pa' = [pa EXCEPT ![a] = r] /\ log' = [log EXCEPT ![a] = l] /\ card' = [card EXCEPT ![a] = c]
        /\ Bound(a, r, l) /\ CardFits(c, r.status) /\ r.status = "absent"
        /\ r.status = pa[a].status /\ r.owner = pa[a].owner
    BY <2>2, <2>3, <2>4
  <2> HIDE DEF r, c
  <2> QED
    BY <1>1, <1>4, <2>5, StreamFacts
<1> QED
  BY <1>6, <1>7, <1>8

\* A waiting stream expires its proposal.
LEMMA StreamExpiryFacts ==
    ASSUME Inv, Facts, NEW a \in Action, WaiterTimeout(a) \/ \E e \in ResumeErr : ResumeFailure(a, e)
    PROVE  Facts'
<1>1. /\ txn = NoTxn /\ UNCHANGED <<artifact, convDeleted, txn, req>>
      /\ pa[a].status = "pending"
  BY DEF WaiterTimeout, ResumeFailure, CanLeavePending, world
<1>2. PICK e : /\ pa' = [pa EXCEPT ![a] = ClosedRow(pa[a], "expired", e)]
               /\ e \in ResumeErr \cup {"AI_HITL_EXPIRED"}
  BY DEF WaiterTimeout, ResumeFailure
<1> DEFINE r == ClosedRow(pa[a], "expired", e)
           l == ClosedLog(log[a], "expired", "AI_HITL_EXPIRED")
<1>3. log' = [log EXCEPT ![a] = l] /\ card' = [card EXCEPT ![a] = "failed"]
  BY DEF WaiterTimeout, ResumeFailure
<1>4. Declined(r, l) /\ r.status = "expired"
  <2>1. Proposed(pa[a], log[a]) /\ pa[a] \in PaRow /\ log[a] \in LogRow
    BY <1>1, RecordOf
  <2>2. "expired" \in Cancelled /\ e # "none"
    BY <1>2 DEF Cancelled, ResumeErr
  <2> QED
    BY <1>2, <2>1, <2>2, DecliningBinds DEF ClosedRow, PaRow
<1>5. Bound(a, r, l) /\ CardFits("failed", r.status)
  BY <1>4 DEF Bound, CardFits, Terminal, Cancelled
<1>6. ~artifact[a]
  BY <1>1, ProposalIsBare
<1> HIDE DEF r, l
<1> QED
  BY <1>1, <1>2, <1>3, <1>4, <1>5, <1>6, StreamFacts DEF r

\* The operator annotates the log of a write that runs or was interrupted.
LEMMA AnnotateFacts ==
    ASSUME Inv, Facts, NEW a \in Action, Annotate(a)
    PROVE  Facts'
<1> DEFINE r == pa[a]
           l == [log[a] EXCEPT !.note = TRUE]
           c == card[a]
<1>1. txn = NoTxn /\ UNCHANGED <<artifact, convDeleted, txn, req>> /\ a \in Write
  BY DEF Annotate, world
<1>2. /\ r \in PaRow /\ log[a] \in LogRow /\ Bound(a, r, log[a])
      /\ CardFits(c, r.status) /\ FileFits(a)
  BY RecordOf
<1>3. Bound(a, r, l) /\ r.status \in {"running", "failed"}
  BY <1>1, <1>2 DEF Annotate, Bound, Unproposed, Proposed, Declined, Claimed, Succeeded, Failed,
                    LogRow, Cancelled
<1>4. /\ pa' = [pa EXCEPT ![a] = r] /\ log' = [log EXCEPT ![a] = l]
      /\ card' = [card EXCEPT ![a] = c]
  BY DEF Annotate, Inv, TypeOK
<1>5. convDeleted => r.status \notin {"pending", "running"}
  BY DEF Facts, RecordInv, DeletedIsSettled
<1>6. artifact[a] => r.status \in {"running", "succeeded"}
  BY <1>2 DEF FileFits
<1>7. r.status = pa[a].status /\ r.owner = pa[a].owner
  OBVIOUS
<1> HIDE DEF r, l, c
<1> QED
  BY <1>1, <1>2, <1>3, <1>4, <1>5, <1>6, <1>7, StreamFacts

\* Leases run out and are renewed under any transaction.
LEMMA LeaseFacts ==
    ASSUME Inv, Facts, NEW a \in Action, NEW v, v # "none", pa[a].lease # "none",
           pa' = [pa EXCEPT ![a].lease = v],
           UNCHANGED <<log, card, artifact, convDeleted, txn, req>>
    PROVE  Facts'
<1>1. /\ \A b \in Action : pa'[b].status = pa[b].status /\ pa'[b].owner = pa[b].owner
      /\ \A b \in Action \ {a} : pa'[b] = pa[b]
      /\ pa'[a].lease = v /\ pa'[a].err = pa[a].err /\ pa'[a].approved = pa[a].approved
  BY DEF Inv, TypeOK, PaRow
<1>2. \A b \in Action : Bound(b, pa'[b], log'[b])
  <2> TAKE b \in Action
  <2>1. Bound(b, pa[b], log[b])
    BY RecordOf
  <2>2. CASE b = a
    BY <1>1, <2>1, <2>2 DEF Bound, Unproposed, Proposed, Declined, Claimed, Succeeded, Failed
  <2>3. CASE b # a
    BY <1>1, <2>1, <2>3
  <2> QED
    BY <2>2, <2>3
<1>3. RecordInv'
  BY <1>1, <1>2, RecordOf DEF Facts, RecordInv, FileFits, CardFits, DeletedIsSettled, Bound, Unproposed,
     Proposed, Declined, Claimed, Succeeded, Failed
<1>4. TxnInv'
  <2>1. txn # NoTxn => txn.act \in Action
    BY DEF Inv, TypeOK, TxnRow
  <2> QED
    BY <1>1, <2>1 DEF Facts, TxnInv, CardFits, Bound, Unproposed, Proposed, Declined, Claimed, Succeeded,
                      Failed
<1>5. \A q \in Proc \ {NoProc} : ReaderInv(q)'
  <2>1. NoProc \notin Proc
    BY ProtocolAssumption
  <2> QED
    BY <1>1, <2>1, OtherReaders
<1>6. NoProc \notin Proc
  BY ProtocolAssumption
<1> QED
  BY <1>3, <1>4, <1>5, <1>6 DEF Facts

\* The clock of a confirmation.
LEMMA ConfirmationExpiresFacts ==
    ASSUME Inv, Facts, NEW a \in Action, ConfirmationExpires(a)
    PROVE  Facts'
<1>1. UNCHANGED <<pa, log, card, artifact, convDeleted, txn, req>>
  BY DEF ConfirmationExpires, rows
<1>2. NoProc \notin Proc
  BY ProtocolAssumption
<1> QED
  BY <1>1, <1>2, NoFiles, ControlFacts

\* Deleting the conversation expires every proposal and finds nothing running.
LEMMA DeleteFacts ==
    ASSUME Inv, Facts, DeleteConversation
    PROVE  Facts'
<1>1. /\ txn = NoTxn /\ UNCHANGED <<artifact, card, txn, req>>
      /\ \A a \in Action : pa[a].status # "running"
  BY DEF DeleteConversation, Unresolved
<1>2. \A a \in Action :
        IF pa[a].status = "pending"
          THEN Declined(pa'[a], log'[a]) /\ pa'[a].status = "expired"
          ELSE pa'[a] = pa[a] /\ log'[a] = log[a]
  <2> TAKE a \in Action
  <2>1. pa[a] \in PaRow /\ log[a] \in LogRow
    BY RecordOf
  <2>2. CASE pa[a].status = "pending"
    <3>1. Proposed(pa[a], log[a]) /\ log[a].status = "pending"
      BY <2>2, RecordOf DEF Proposed
    <3>2. /\ pa'[a] = ClosedRow(pa[a], "expired", "AI_CONVERSATION_DELETED")
          /\ log'[a] = ClosedLog(log[a], "expired", "AI_CONVERSATION_DELETED")
      BY <2>2, <3>1 DEF DeleteConversation
    <3>3. Declined(pa'[a], log'[a])
      BY <2>1, <3>1, <3>2, DecliningBinds DEF Cancelled
    <3> QED
      BY <2>1, <2>2, <3>2, <3>3 DEF ClosedRow, PaRow
  <2>3. CASE pa[a].status # "pending"
    BY <2>3 DEF DeleteConversation
  <2> QED
    BY <2>2, <2>3
<1>3. \A a \in Action :
        /\ Bound(a, pa'[a], log'[a]) /\ CardFits(card'[a], pa'[a].status)
        /\ artifact'[a] => a \in FileAction /\ pa'[a].status \in {"running", "succeeded"}
        /\ pa'[a].status \notin {"pending", "running"}
  <2> TAKE a \in Action
  <2>1. CASE pa[a].status = "pending"
    <3>1. ~artifact[a] /\ card[a] \notin {"ok", "failed"}
      BY <2>1, ProposalIsBare
    <3> QED
      BY <1>1, <1>2, <2>1, <3>1 DEF Bound, CardFits
  <2>2. CASE pa[a].status # "pending"
    BY <1>1, <1>2, <2>2, RecordOf DEF FileFits
  <2> QED
    BY <2>1, <2>2
<1>4. RecordInv'
  BY <1>3 DEF RecordInv, FileFits, DeletedIsSettled, Bound, Unproposed, Proposed, Declined, Claimed,
              Succeeded, Failed, CardFits
<1>5. TxnInv'
  BY <1>1 DEF TxnInv
<1>6. NoProc \notin Proc
  BY ProtocolAssumption
<1>7. \A q \in Proc \ {NoProc} : ReaderInv(q)'
  BY <1>1, <1>2, <1>6, OtherReaders
<1> QED
  BY <1>4, <1>5, <1>6, <1>7 DEF Facts

-----------------------------------------------------------------------------
(* Projection and read-only tools *)

\* The card is written from the locked record.
LEMMA ProjectFacts ==
    ASSUME Inv, Facts, NEW p \in Proc, Project(p)
    PROVE  Facts'
<1> DEFINE a == req[p].act
<1>1. /\ req[p].pc = "project" /\ txn = NoTxn /\ UNCHANGED <<pa, log, artifact, convDeleted, txn>>
      /\ \E st : Answer(p, st)
  BY DEF Project, world, At
<1>2. a \in Action
  BY <1>1 DEF Inv, ProcInv, LocalOk
<1>3. /\ \A b \in Action \ {a} : card'[b] = card[b]
      /\ CardFits(card'[a], pa[a].status)
  <2>1. CardFits(card[a], pa[a].status)
    BY <1>2, RecordOf
  <2>2. CASE card' = card
    BY <2>1, <2>2
  <2>3. CASE /\ pa[a].status \in Finished
             /\ card' = [card EXCEPT ![a] = IF pa[a].status = "succeeded" THEN "ok" ELSE "failed"]
    BY <1>2, <2>3 DEF CardFits, Finished, Terminal, Inv, TypeOK
  <2> QED
    BY <2>2, <2>3 DEF Project
<1>4. (\A q \in Proc \ {p} : req'[q] = req[q]) /\ req'[p].pc \notin {"read", "readCas", "claimCommit"}
  BY <1>1, AnswerGoes
<1>5. /\ Bound(a, pa'[a], log'[a])
      /\ artifact[a] => pa'[a].status \in {"running", "succeeded"}
      /\ convDeleted => pa'[a].status \notin {"pending", "running"}
  BY <1>1, <1>2, RecordOf DEF FileFits, Facts, RecordInv, DeletedIsSettled
<1> QED
  BY <1>1, <1>2, <1>3, <1>4, <1>5, RowFactsKept

\* A read-only tool returned; its request goes on to close the claim.
LEMMA ReadDoneFacts ==
    ASSUME Inv, Facts, NEW p \in Request, NEW ok \in BOOLEAN, ReadDone(p, ok)
    PROVE  Facts'
<1>1. /\ p \in Proc /\ UNCHANGED <<pa, log, card, artifact, convDeleted, txn>>
      /\ req[p].pc = "read" /\ req[p] \in ReqRow
  BY DEF Proc, ReadDone, rows, world, At, Inv, TypeOK
<1>2. /\ \A q \in Proc \ {p} : req'[q] = req[q]
      /\ req'[p].pc = "readCas" /\ req'[p].act = req[p].act
      /\ req'[p].dec = (IF ok THEN "ok" ELSE "failed")
      /\ req'[p].claim = SeenVersion(p, ok)
  BY <1>1 DEF ReadDone, Inv, TypeOK, ReqRow
<1>3. RecordInv'
  BY <1>1, NoFiles, RecordsStand DEF Facts
<1>4. TxnInv'
  BY <1>1 DEF Facts, TxnInv, CardFits, Bound, Unproposed, Proposed, Declined, Claimed, Succeeded, Failed
<1>5. \A q \in Proc \ {p} : ReaderInv(q)'
  BY <1>1, <1>2, OtherReaders DEF Reading
<1>6. ReaderInv(p)'
  <2>1. ReaderInv(p) /\ Reading(p)
    BY <1>1 DEF Facts, Reading
  <2>2. req[p].act \in Action /\ pa[req[p].act].status = "running" => pa[req[p].act].ver = 3
    BY <1>1 DEF Inv, ProcInv, LocalOk, RowVersions, VersionOf, Cancelled
  <2>3. SeenVersion(p, ok) = 0 => ~ok /\ pa[req[p].act].status = "failed"
    BY <1>1, <2>1, <2>2 DEF SeenVersion, ReaderInv, Inv, ProcInv, LocalOk
  <2>4. ASSUME NEW q \in Proc \ {p}, Reading(q)' PROVE req'[q].act # req'[p].act
    BY <1>2, <2>1, <2>4 DEF ReaderInv, Reading
  <2> QED
    BY <1>1, <1>2, <2>1, <2>3, <2>4 DEF ReaderInv, Reading
<1> QED
  BY <1>3, <1>4, <1>5, <1>6 DEF Facts

\* It closes the claim it still finds running, or only writes the card of a
\* claim that was failed under it.
LEMMA ReadCasFacts ==
    ASSUME Inv, Facts, NEW p \in Request, ReadCas(p)
    PROVE  Facts'
<1> DEFINE a == req[p].act
           ok == req[p].dec = "ok"
           st == IF ok THEN "succeeded" ELSE "failed"
           e  == IF ok THEN "none" ELSE "TOOL_ERROR"
           r == ClosedRow(pa[a], st, e)
           l == ClosedLog(log[a], IF ok THEN "success" ELSE "failed", e)
<1>1. /\ p \in Proc /\ UNCHANGED <<artifact, convDeleted, txn>> /\ txn = NoTxn
      /\ req[p].pc = "readCas" /\ Reading(p)
  BY DEF Proc, ReadCas, world, At, Reading
<1>2. a \in Action \ Write /\ req[p].dec \in {"ok", "failed"}
  BY <1>1 DEF Inv, ProcInv, LocalOk
<1>3. \E x : Answer(p, x)
  BY DEF ReadCas
<1>4. (\A q \in Proc \ {p} : req'[q] = req[q]) /\ req'[p].pc \notin {"read", "readCas", "claimCommit"}
  BY <1>1, <1>3, AnswerGoes
<1>5. /\ pa[a] \in PaRow /\ log[a] \in LogRow /\ Bound(a, pa[a], log[a])
      /\ CardFits(card[a], pa[a].status) /\ FileFits(a)
      /\ pa[a].status = "running" => Claimed(a, pa[a], log[a])
  BY <1>2, RecordOf
<1>6. ~artifact[a]
  BY <1>2, <1>5 DEF FileFits, Write
<1>7. CASE /\ pa[a].status = "running"
           /\ pa' = [pa EXCEPT ![a] = r] /\ log' = [log EXCEPT ![a] = l]
           /\ card' = IF convDeleted THEN card ELSE [card EXCEPT ![a] = req[p].dec]
  <2>1. ~convDeleted
    BY <1>2, <1>7 DEF Facts, RecordInv, DeletedIsSettled
  <2>2. /\ pa'[a] = r /\ log'[a] = l /\ card'[a] = req[p].dec
        /\ \A b \in Action \ {a} : pa'[b] = pa[b] /\ log'[b] = log[b] /\ card'[b] = card[b]
    BY <1>2, <1>7, <2>1 DEF Inv, TypeOK
  <2>3. Claimed(a, pa[a], log[a]) /\ ~log[a].note
    BY <1>2, <1>5, <1>7 DEF Claimed
  <2>4. Bound(a, r, l) /\ CardFits(req[p].dec, r.status)
    <3>1. CASE ok
      BY <1>5, <2>3, <3>1, CompletingBinds DEF Bound, CardFits, Succeeded
    <3>2. CASE ~ok
      <4>1. r = ClosedRow(pa[a], "failed", "TOOL_ERROR") /\ l = ClosedLog(log[a], "failed", "TOOL_ERROR")
        BY <3>2
      <4>2. Failed(a, r, l)
        BY <1>2, <1>5, <2>3, <4>1, FailingBinds
      <4> HIDE DEF r, l
      <4> QED
        BY <1>2, <3>2, <4>2 DEF Bound, CardFits, Failed, Terminal, Finished
    <3> QED
      BY <3>1, <3>2
  <2> HIDE DEF r, l
  <2> QED
    BY <1>1, <1>2, <1>4, <1>6, <2>1, <2>2, <2>4, RowFactsKept
<1>8. CASE UNCHANGED <<pa, log, card>>
  BY <1>1, <1>3, <1>8, NoFiles, MovingFacts
<1>9. CASE /\ req[p].claim = 0 /\ UNCHANGED <<pa, log>>
           /\ card' = IF convDeleted THEN card ELSE [card EXCEPT ![a] = req[p].dec]
  <2>1. ReaderInv(p)
    BY <1>1 DEF Facts
  <2>2. req[p].dec = "failed" /\ pa[a].status = "failed"
    BY <1>1, <1>9, <2>1 DEF ReaderInv
  <2>3. /\ CardFits(card'[a], pa'[a].status)
        /\ \A b \in Action \ {a} : pa'[b] = pa[b] /\ log'[b] = log[b] /\ card'[b] = card[b]
    BY <1>2, <1>5, <1>9, <2>2 DEF CardFits, Terminal, Finished, Inv, TypeOK
  <2> QED
    BY <1>1, <1>2, <1>4, <1>5, <1>6, <1>9, <2>2, <2>3, RowFactsKept
<1> QED
  BY <1>7, <1>8, <1>9 DEF ReadCas

-----------------------------------------------------------------------------
(* The records are right in every reachable state *)

\* Nothing is recorded at first.
LEMMA InitFacts == Init => Facts
<1> SUFFICES ASSUME Init PROVE Facts
  OBVIOUS
<1>1. \A a \in Action :
        Bound(a, pa[a], log[a]) /\ CardFits(card[a], pa[a].status) /\ FileFits(a)
  BY DEF Init, NoPa, NoLog, Bound, Unproposed, CardFits, FileFits
<1>2. DeletedIsSettled /\ TxnInv
  BY DEF Init, DeletedIsSettled, TxnInv
<1>3. \A p \in Proc : ReaderInv(p)
  BY DEF Init, Idle, ReaderInv, Reading
<1> QED
  BY <1>1, <1>2, <1>3 DEF Facts, RecordInv

\* Every step keeps the facts.
LEMMA NextFacts == Inv /\ Facts /\ [Next]_vars => Facts'
<1> SUFFICES ASSUME Inv, Facts, [Next]_vars PROVE Facts'
  OBVIOUS
<1>1. ASSUME NEW p \in Request, ConfirmStep(p) PROVE Facts'
  <2>1. CASE \/ \E a \in Action, d \in {"approve", "reject"} : BeginConfirm(p, a, d)
             \/ ConfirmGone(p) \/ ConfirmDecided(p) \/ ExecRefused(p) \/ ReadUnexecuted(p)
    BY <2>1, ConfirmMoves
  <2>2. ASSUME NEW st \in Cancelled, NEW e \in Err, ConfirmClose(p, st, e) PROVE Facts'
    BY <2>2, CloseOpens
  <2>3. CASE ConfirmClaim(p) \/ ExecBegin(p) \/ HandlerOk(p)
    BY <2>3, ClaimOpens, ExecOpens, HandlerOpens
  <2>4. CASE HandlerRollback(p) \/ HandlerRollbackLost(p)
    BY <2>4, RollbackMoves
  <2>5. ASSUME NEW e \in Err, FinishRolledBack(p, e) PROVE Facts'
    BY <2>5, FinishOpens
  <2>6. CASE RenewLease(p)
    <3>1. req[p].act \in Action
      BY <2>6 DEF RenewLease, At, Inv, ProcInv, LocalOk, Proc
    <3>2. pa[req[p].act].lease # "none"
      BY <2>6, <3>1, RecordOf DEF RenewLease, Claimed
    <3> QED
      BY <2>6, <3>1, <3>2, LeaseFacts DEF RenewLease, world
  <2>7. ASSUME NEW ok \in BOOLEAN, ReadDone(p, ok) PROVE Facts'
    BY <2>7, ReadDoneFacts
  <2>8. CASE ReadCas(p)
    BY <2>8, ReadCasFacts
  <2> QED
    BY <1>1, <2>1, <2>2, <2>3, <2>4, <2>5, <2>6, <2>7, <2>8 DEF ConfirmStep
<1>2. ASSUME NEW p \in Proc, RecoveryStep(p) PROVE Facts'
  BY <1>2, ReconcileOpens, ProjectFacts, CommitAckedFacts, RecoveryMoves DEF RecoveryStep
<1>3. CASE SweepStep
  BY <1>3, SweepMoves, SweepOpens DEF SweepStep
<1>4. ASSUME NEW a \in Action, ActionStep(a) PROVE Facts'
  <2>1. CASE LeaseExpires(a)
    BY <2>1, LeaseFacts DEF LeaseExpires, world
  <2> QED
    BY <1>4, <2>1, CreationFacts, StreamExpiryFacts, AnnotateFacts, ConfirmationExpiresFacts DEF ActionStep
<1>5. CASE ServerCommit \/ ServerAbort \/ DeleteConversation
  BY <1>5, ServerCommitFacts, AbortMoves, DeleteFacts
<1>6. CASE UNCHANGED vars
  <2>1. UNCHANGED <<pa, log, card, artifact, convDeleted, txn, req>> /\ NoProc \notin Proc
    BY <1>6, ProtocolAssumption DEF vars
  <2> QED
    BY <2>1, NoFiles, ControlFacts
<1> QED
  BY <1>1, <1>2, <1>3, <1>4, <1>5, <1>6 DEF Next

\* Action rows, logs, cards and files agree in every reachable state.
THEOREM RecordsAgree == Spec => [](Inv /\ Facts)
<1>1. Init => Inv /\ Facts
  BY InitInv, InitFacts
<1>2. (Inv /\ Facts) /\ [Next]_vars => (Inv /\ Facts)'
  BY NextInv, NextFacts
<1> QED
  BY <1>1, <1>2, PTL DEF Spec

\* A write that reached a terminal status can prove it: everything the
\* validators compare agrees, so the outcome is never reported as unknown.
THEOREM SettledFactsAreProved == Spec => []SettledFactsBind
<1>1. Inv /\ Facts => SettledFactsBind
  <2> SUFFICES ASSUME Inv, Facts, NEW a \in Write, pa[a].status \in Terminal, ~log[a].note,
                      pa[a].err \notin ResumeErr
               PROVE  FactsBind(a)
    BY DEF SettledFactsBind
  <2>1. a \in Action /\ NoProc \notin Request
    BY ProtocolAssumption DEF Proc
  <2>2. Bound(a, pa[a], log[a]) /\ pa[a].ver = VersionOf(pa[a].status)
    BY <2>1, RecordOf DEF Inv, RowVersions
  <2>3. CASE Declined(pa[a], log[a])
    BY <2>2, <2>3 DEF Declined, FactsBind, ValidUnexecuted, VersionOf, Cancelled
  <2>4. CASE Succeeded(pa[a], log[a])
    BY <2>4 DEF Succeeded, FactsBind, ValidTerminal, CheckLog, LogStatusOf, Finished
  <2>5. CASE Failed(a, pa[a], log[a])
    BY <2>1, <2>5 DEF Failed, FactsBind, ValidTerminal, CheckLog, LogStatusOf, Finished
  <2> QED
    BY <2>2, <2>3, <2>4, <2>5 DEF Bound, Unproposed, Proposed, Claimed, Terminal, Cancelled, Finished
<1> QED
  BY <1>1, RecordsAgree, PTL

\* A failed, rejected or expired write left nothing behind, no file either.
THEOREM FailuresAreReal == Spec => []NoPhantomFailure
<1>1. Inv /\ Facts => NoPhantomFailure
  <2> SUFFICES ASSUME Inv, Facts, NEW a \in Write, pa[a].status \in Terminal \ {"succeeded"}
               PROVE  effect[a] = 0 /\ ~artifact[a]
    BY DEF NoPhantomFailure
  <2>1. a \in Action
    BY ProtocolAssumption
  <2>2. effect[a] = 0
    BY <2>1 DEF Inv, EffectMatchesRecord
  <2>3. ~artifact[a]
    BY <2>1, RecordOf DEF FileFits, Terminal, Cancelled, Finished
  <2> QED
    BY <2>2, <2>3
<1> QED
  BY <1>1, RecordsAgree, PTL

\* The card of the assistant message shows no result the action does not have.
THEOREM CardsAreTrue == Spec => []CardIsTrue
<1>1. Facts => CardIsTrue
  BY DEF Facts, RecordInv, CardIsTrue, CardFits
<1> QED
  BY <1>1, RecordsAgree, PTL

\* Nothing of a deleted conversation can still be decided or run.
THEOREM DeletedConversationsAreSettled == Spec => []DeletedIsSettled
<1>1. Facts => DeletedIsSettled
  BY DEF Facts, RecordInv
<1> QED
  BY <1>1, RecordsAgree, PTL

-----------------------------------------------------------------------------
(* Settled records are final, annotated ones frozen *)

\* A step writes a record only while it is open and unannotated, but for the
\* lease of a running claim and the annotation itself.
WritesOpen(a) ==
    \/ pa'[a] = pa[a] /\ log'[a] = log[a] /\ effect'[a] = effect[a]
    \/ pa[a].status \notin Terminal /\ ~log[a].note
    \/ /\ pa[a].status \notin Terminal
       /\ pa'[a].status = pa[a].status /\ log'[a] = log[a] /\ effect'[a] = effect[a]
    \/ ~log[a].note /\ pa'[a] = pa[a] /\ effect'[a] = effect[a]

\* COMMIT, acknowledged or not.
LEMMA ApplyWritesOpen ==
    ASSUME Inv, Facts, txn # NoTxn, Apply
    PROVE  \A a \in Action : WritesOpen(a)
<1>1. pa[txn.act].status \in {"pending", "running"} /\ ~log[txn.act].note
  BY DEF Facts, TxnInv
<1>2. \A a \in Action \ {txn.act} : pa'[a] = pa[a] /\ log'[a] = log[a] /\ effect'[a] = effect[a]
  BY DEF Apply, Inv, TypeOK
<1> QED
  BY <1>1, <1>2 DEF WritesOpen, Terminal, Cancelled, Finished

\* Leases.
LEMMA LeaseWritesOpen ==
    ASSUME Inv, Facts, NEW b \in Action, NEW v, pa[b].lease # "none",
           pa' = [pa EXCEPT ![b].lease = v], UNCHANGED <<log, effect>>
    PROVE  \A a \in Action : WritesOpen(a)
<1>1. pa[b].status = "running"
  BY RecordOf DEF Bound, Unproposed, Proposed, Declined, Claimed, Succeeded, Failed
<1>2. \A a \in Action : pa'[a].status = pa[a].status /\ (a # b => pa'[a] = pa[a])
  BY DEF Inv, TypeOK, PaRow
<1> QED
  BY <1>1, <1>2 DEF WritesOpen, Terminal, Cancelled, Finished

\* Every other step that writes a record of action b alone.
LEMMA OneRecordWritesOpen ==
    ASSUME Inv, Facts, NEW b \in Action, NEW r, NEW l,
           pa' = [pa EXCEPT ![b] = r], log' = [log EXCEPT ![b] = l], effect' = effect,
           ~log[b].note, pa[b].status \notin Terminal \/ r = pa[b]
    PROVE  \A a \in Action : WritesOpen(a)
<1>1. \A a \in Action \ {b} : pa'[a] = pa[a] /\ log'[a] = log[a]
  BY DEF Inv, TypeOK
<1>2. pa'[b] = r
  BY DEF Inv, TypeOK
<1> QED
  BY <1>1, <1>2 DEF WritesOpen

\* Every step.
LEMMA NextWritesOpen ==
    ASSUME Inv, Facts, [Next]_vars
    PROVE  \A a \in Action : WritesOpen(a)
<1>1. CASE UNCHANGED <<pa, log, effect>>
  BY <1>1 DEF WritesOpen
<1>2. ASSUME NEW p \in Request, ConfirmStep(p) PROVE \A a \in Action : WritesOpen(a)
  <2>1. p \in Proc
    BY DEF Proc
  <2>2. CASE RenewLease(p)
    <3>1. req[p].act \in Action
      BY <2>1, <2>2 DEF RenewLease, At, Inv, ProcInv, LocalOk
    <3>2. pa[req[p].act].lease # "none"
      BY <2>2, <3>1, RecordOf DEF RenewLease, Claimed
    <3> QED
      BY <2>2, <3>1, <3>2, LeaseWritesOpen DEF RenewLease
  <2>3. CASE ReadCas(p)
    <3> DEFINE b == req[p].act
    <3>1. b \in Action \ Write
      BY <2>1, <2>3 DEF ReadCas, At, Inv, ProcInv, LocalOk
    <3>2. CASE UNCHANGED <<pa, log>>
      BY <2>3, <3>2 DEF ReadCas, WritesOpen
    <3>3. CASE /\ pa[b].status = "running"
               /\ \E r, l : pa' = [pa EXCEPT ![b] = r] /\ log' = [log EXCEPT ![b] = l]
      <4>1. ~log[b].note
        BY <3>1, <3>3, RecordOf DEF Claimed
      <4>2. pa[b].status \notin Terminal /\ effect' = effect
        BY <2>3, <3>3 DEF ReadCas, Terminal, Cancelled, Finished
      <4> QED
        BY <3>1, <3>3, <4>1, <4>2, OneRecordWritesOpen
    <3> QED
      BY <2>3, <3>2, <3>3 DEF ReadCas
  <2>4. CASE ~RenewLease(p) /\ ~ReadCas(p)
    <3>1. UNCHANGED rows
      BY <1>2, <2>4 DEF ConfirmStep, BeginConfirm, ConfirmGone, ConfirmDecided, ConfirmClaim, ConfirmClose,
         ExecBegin, ExecRefused, HandlerOk, HandlerRollback, HandlerRollbackLost, FinishRolledBack,
         ReadUnexecuted, ReadDone
    <3> QED
      BY <1>1, <3>1 DEF rows
  <2> QED
    BY <2>2, <2>3, <2>4
<1>3. ASSUME NEW p \in Proc, RecoveryStep(p) PROVE \A a \in Action : WritesOpen(a)
  <2>1. CASE CommitAcked(p)
    BY <2>1, ApplyWritesOpen DEF CommitAcked
  <2>2. CASE ~CommitAcked(p)
    <3>1. UNCHANGED <<pa, log, effect>>
      BY <1>3, <2>2 DEF RecoveryStep, Reconcile, FactRead, Project, CommitUnknown, GiveUp, Crash, rows
    <3> QED
      BY <1>1, <3>1
  <2> QED
    BY <2>1, <2>2
<1>4. CASE SweepStep
  <2>1. UNCHANGED rows
    BY <1>4 DEF SweepStep, SweepScan, SweepPick, SweepLocked, SweepEnd
  <2> QED
    BY <1>1, <2>1 DEF rows
<1>5. ASSUME NEW b \in Action, ActionStep(b) PROVE \A a \in Action : WritesOpen(a)
  <2>1. CASE LeaseExpires(b)
    BY <2>1, LeaseWritesOpen DEF LeaseExpires
  <2>2. CASE ConfirmationExpires(b)
    BY <1>1, <2>2 DEF ConfirmationExpires, rows
  <2>3. CASE StartLog(b) \/ CreatePending(b) \/ SetupFailed(b)
    <3>1. ~log[b].note /\ pa[b].status = "absent"
      BY <2>3, RecordOf DEF StartLog, CreatePending, SetupFailed, Bound, Unproposed, Proposed, Declined,
         Claimed, Succeeded, Failed, Cancelled
    <3>2. effect' = effect /\ \A a \in Action \ {b} : pa'[a] = pa[a] /\ log'[a] = log[a]
      BY <2>3 DEF StartLog, CreatePending, SetupFailed, Inv, TypeOK
    <3> QED
      BY <3>1, <3>2 DEF WritesOpen, Terminal, Cancelled, Finished
  <2>4. CASE WaiterTimeout(b) \/ \E e \in ResumeErr : ResumeFailure(b, e)
    <3>1. /\ ~log[b].note /\ pa[b].status = "pending" /\ effect' = effect
          /\ \E r, l : pa' = [pa EXCEPT ![b] = r] /\ log' = [log EXCEPT ![b] = l]
      BY <2>4 DEF WaiterTimeout, ResumeFailure, CanLeavePending
    <3> QED
      BY <3>1, OneRecordWritesOpen DEF Terminal, Cancelled, Finished
  <2>5. CASE Annotate(b)
    <3>1. /\ ~log[b].note /\ UNCHANGED <<pa, effect>>
          /\ \A a \in Action \ {b} : log'[a] = log[a]
      BY <2>5 DEF Annotate, Inv, TypeOK
    <3> QED
      BY <3>1 DEF WritesOpen
  <2> QED
    BY <1>5, <2>1, <2>2, <2>3, <2>4, <2>5 DEF ActionStep
<1>6. CASE ServerCommit
  BY <1>6, ApplyWritesOpen DEF ServerCommit
<1>7. CASE ServerAbort
  BY <1>1, <1>7 DEF ServerAbort, rows
<1>8. CASE DeleteConversation
  <2> SUFFICES ASSUME NEW a \in Action PROVE WritesOpen(a)
    OBVIOUS
  <2>1. CASE pa[a].status = "pending"
    BY <2>1, RecordOf DEF Proposed, WritesOpen, Terminal, Cancelled, Finished
  <2>2. CASE pa[a].status # "pending"
    BY <1>8, <2>2 DEF DeleteConversation, WritesOpen
  <2> QED
    BY <2>1, <2>2
<1> QED
  BY <1>1, <1>2, <1>3, <1>4, <1>5, <1>6, <1>7, <1>8 DEF Next, vars

\* No confirmation, worker, sweep or late COMMIT changes a terminal record.
THEOREM TerminalRecordsAreFinal == Spec => TerminalIsFinal
<1>1. Inv /\ Facts /\ [Next]_vars => [\A a \in Action : pa[a].status \in Terminal => pa'[a] = pa[a]]_vars
  BY NextWritesOpen DEF WritesOpen
<1> QED
  BY <1>1, RecordsAgree, PTL DEF Spec, TerminalIsFinal

\* Nor does any of them change, or run, what the operator annotated.
THEOREM AnnotatedRecordsAreFrozen == Spec => AnnotatedIsFrozen
<1>1. Inv /\ Facts /\ [Next]_vars =>
        [\A a \in Action : log[a].note =>
            /\ log'[a] = log[a]
            /\ pa'[a].status = pa[a].status
            /\ effect'[a] = effect[a]]_vars
  BY NextWritesOpen DEF WritesOpen
<1> QED
  BY <1>1, RecordsAgree, PTL DEF Spec, AnnotatedIsFrozen
=============================================================================
