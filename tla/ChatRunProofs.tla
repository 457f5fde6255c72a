---------------------------- MODULE ChatRunProofs ----------------------------
(***************************************************************************)
(* Proofs about ChatRun for any number of runs, actions and workers: what  *)
(* a waiting run is told is what PostgreSQL holds, a claimed decision      *)
(* reaches it, and two runs never have actions open at the same time.      *)
(***************************************************************************)
EXTENDS ChatRun, TLAPS

-----------------------------------------------------------------------------
(* The inductive invariant *)

\* A decision is recorded with the claim or the closing, and stays.
ActInv(a) ==
    /\ act[a].status = "none" => act[a] = NoAct
    /\ act[a].status = "pending" => act[a].dec = "none"
    /\ act[a].status = "running" => act[a].dec = "approved"
    /\ act[a].status = "done" => act[a].dec \in Decision
    /\ act[a].status # "none" => act[a].run \in Run

\* What a worker goes on from still holds of its action.
ReqInv(c) ==
    LET a == req[c].act IN
    /\ req[c].pc # "idle" => a \in Action /\ act[a].status # "none"
    /\ req[c].pc = "exec" => req[c].dec = "approved" /\ act[a].status \in {"running", "done"}
                             /\ act[a].dec = "approved"
    /\ req[c].pc = "notify" => req[c].dec \in Decision /\ act[a].status = "done" /\ act[a].dec = req[c].dec
    /\ req[c].pc = "reconcile" => act[a].status \in {"running", "done"}

\* A run sets up an action nobody knows yet, then waits on it alone.
Busy == {"handoff", "create", "hang", "check", "wait"}

RunInv(r) ==
    /\ run[r].pc \in Busy => run[r].act \in Action
    /\ run[r].pc \in {"handoff", "create"} => act[run[r].act] = NoAct
    /\ run[r].pc = "create" => run[r].handoff

RunsApart ==
    \A r, q \in Run : run[r].act \in Action /\ run[r].act = run[q].act => r = q

ResInv(a) == res[a] # "off" => act[a].status # "none"

\* Pub/sub mode: a waiting run is subscribed, and has the message of a decision
\* claimed since.
SubInv(r) ==
    PubSub =>
        LET a == run[r].act IN
        /\ run[r].pc \in {"check", "wait"} => mail[a]["run"] # "off"
        /\ run[r].pc = "wait" /\ wake[a] # "none" /\ a \in env => mail[a]["run"] \in Decision

\* Memory mode: the entry exists from create_pending until the run leaves it.
EntryInv(r) ==
    ~PubSub =>
        LET a == run[r].act IN
        /\ run[r].pc # "check"
        /\ run[r].pc \in Busy => a \in entry
        /\ run[r].pc \in {"hang", "wait"} /\ a \in early => wake[a] # "none"

Facts ==
    /\ \A a \in Action : ActInv(a) /\ ResInv(a)
    /\ \A c \in Worker : ReqInv(c)
    /\ \A r \in Run : RunInv(r)
    /\ RunsApart

Inv == TypeOK /\ Facts /\ WakeIsTruth

WaitInv ==
    /\ \A r \in Run : SubInv(r) /\ EntryInv(r)
    /\ \A a \in early : act[a].status = "done"

-----------------------------------------------------------------------------
(* What the guard protects *)

\* A run that may still hand its guard off to a confirmation.
Candidate(r) ==
    \/ run[r].pc = "stream" /\ run[r].tools = 0
    \/ run[r].pc \in {"handoff", "create"}

GuardInv ==
    /\ \A r \in Run : run[r].pc \in {"idle", "admitted", "owner"} => run[r].tools = 0
    /\ \A r \in Run : run[r].pc \in Busy => run[r].tools = 1
    /\ \A a \in Action : act[a].status # "none" =>
         /\ run[act[a].run].tools = 1
         /\ run[act[a].run].pc \notin {"handoff", "create"}
    /\ \A r \in Run : run[r].pc = "create" => guard = r /\ lease = "pending"
    /\ \A r \in Run : Candidate(r) /\ guard = r => ~InProgress
    /\ OneRunActs

-----------------------------------------------------------------------------
(* Types *)

ActRow == [status : {"none", "pending", "running", "done"},
           dec : Decision \cup {"none"}, run : Run \cup {None}]
RunPC  == Live \cup {"idle", "admitted", "owner", "ending", "done"}
RunRow == [pc : RunPC,
           act : Action \cup {None}, handoff : BOOLEAN, tools : 0..MaxTools]
ReqRow == [pc : {"idle", "exec", "notify", "release", "purge", "expire", "reconcile", "rebuild"},
           act : Action \cup {None}, dec : Decision \cup {"none"}]

\* The guard changes hands between runs.
LEMMA GuardTyped ==
    ASSUME Inv, Next
    PROVE  guard' \in Run \cup {None} /\ lease' \in {"none", "run", "pending"}
<1>1. guard \in Run \cup {None} /\ lease \in {"none", "run", "pending"}
  BY DEF Inv, TypeOK
<1>2. ASSUME NEW r \in Run, RunStep(r) PROVE guard' \in Run \cup {None} /\ lease' \in {"none", "run", "pending"}
  BY <1>1, <1>2 DEF RunStep, Admit, Acquire, Recheck, Begin, Heartbeat, GuardLost, CreatePending, Handoff,
     CreateAction, CreateFails, Hang, CheckMissed, Woken, HangTimeout, Finish, Disconnect, Die, redis,
     Release, TakeGuard
<1>3. ASSUME NEW c \in Worker, WorkerStep(c) PROVE guard' \in Run \cup {None} /\ lease' \in {"none", "run", "pending"}
  <2>1. CASE Rebuild(c)
    <3>1. req[c].pc = "rebuild" /\ ReqInv(c)
      BY <2>1 DEF Rebuild, Inv, Facts
    <3>2. act[req[c].act].run \in Run
      BY <3>1 DEF ReqInv, Inv, Facts, ActInv
    <3> QED
      BY <1>1, <2>1, <3>2 DEF Rebuild
  <2>2. CASE ~Rebuild(c)
    BY <1>1, <1>3, <2>2 DEF WorkerStep, Decide, ConfirmAgain, SweepRead, Settle, SweepSettle, Notify,
       CleanGuard, CleanEnvelope, Drop, redis, Release
  <2> QED
    BY <2>1, <2>2
<1>4. ASSUME NEW a \in Action, ActionStep(a) PROVE guard' \in Run \cup {None} /\ lease' \in {"none", "run", "pending"}
  <2>1. CASE Restart(a)
    BY <2>1 DEF Restart, Inv, Facts, ActInv
  <2>2. CASE ~Restart(a)
    BY <1>1, <1>4, <2>2 DEF ActionStep, Resume, ResumeSettled, ResumeTimeout, ResumeClean, ResumeEnds,
       WindowCloses, EnvelopeExpires, redis, Release
  <2> QED
    BY <2>1, <2>2
<1>5. CASE LeaseExpires
  BY <1>5 DEF LeaseExpires
<1> QED
  BY <1>2, <1>3, <1>4, <1>5 DEF Next

\* A run goes to another place ...
LEMMA ToMoves ==
    ASSUME Inv, NEW r \in Run, NEW pc \in RunPC, To(r, pc)
    PROVE  /\ run' \in [Run -> RunRow]
           /\ run'[r].pc = pc /\ run'[r].act = run[r].act
           /\ run'[r].handoff = run[r].handoff /\ run'[r].tools = run[r].tools
           /\ \A q \in Run \ {r} : run'[q] = run[q]
<1>1. run \in [Run -> RunRow]
  BY DEF Inv, TypeOK, RunRow, RunPC
<1> QED
  BY <1>1 DEF To, RunRow

\* ... and is no longer handed off to a confirmation.
LEMMA FreeMoves ==
    ASSUME Inv, NEW r \in Run, NEW pc \in RunPC,
           run' = [run EXCEPT ![r].pc = pc, ![r].handoff = FALSE]
    PROVE  /\ run' \in [Run -> RunRow]
           /\ run'[r].pc = pc /\ run'[r].act = run[r].act
           /\ ~run'[r].handoff /\ run'[r].tools = run[r].tools
           /\ \A q \in Run \ {r} : run'[q] = run[q]
<1>1. run \in [Run -> RunRow]
  BY DEF Inv, TypeOK, RunRow, RunPC
<1> DEFINE row == [run[r] EXCEPT !.pc = pc, !.handoff = FALSE]
<1>2. /\ row \in RunRow /\ row.pc = pc /\ row.act = run[r].act /\ ~row.handoff
      /\ row.tools = run[r].tools
  BY <1>1 DEF RunRow
<1>3. run' = [run EXCEPT ![r] = row]
  BY <1>1
<1> HIDE DEF row
<1> QED
  BY <1>1, <1>2, <1>3

-----------------------------------------------------------------------------
(* Actions *)

\* What a step may do to an action: its creator commits it, it is claimed, or
\* closed with the decision it has.
ActStep(a) ==
    \/ act'[a] = act[a]
    \/ \E r \in Run :
         /\ run[r].pc = "create" /\ run[r].act = a
         /\ run'[r].pc \in {"hang", "stream", "ending"} /\ run'[r].act = a
         /\ act'[a] = [status |-> "pending", dec |-> "none", run |-> r]
    \/ /\ act[a].status = "pending" /\ a \notin late
       /\ act'[a] = [act[a] EXCEPT !.status = "running", !.dec = "approved"]
    \/ /\ act[a].status # "none"
       /\ act'[a] = [act[a] EXCEPT !.status = "done",
                                   !.dec = IF @ = "none" THEN "rejected" ELSE @]

ActsStep == act' = [a \in Action |-> act'[a]] /\ \A a \in Action : ActStep(a)

\* The run's moves that touch actions.
LEMMA CreateActs ==
    ASSUME Inv, NEW r \in Run, CreateAction(r) \/ CreateFails(r)
    PROVE  ActsStep
<1>1. /\ run[r].pc = "create"
      /\ run' \in [Run -> RunRow]
      /\ run'[r].pc \in {"hang", "stream", "ending"} /\ run'[r].act = run[r].act
  <2>1. CASE CreateAction(r)
    <3>1. "hang" \in RunPC
      BY DEF RunPC, Live
    <3> QED
      BY <2>1, <3>1, ToMoves DEF CreateAction
  <2>2. CASE CreateFails(r)
    <3>1. PICK pc \in {"stream", "ending"} : run' = [run EXCEPT ![r].pc = pc, ![r].handoff = FALSE]
      BY <2>2 DEF CreateFails
    <3>2. pc \in RunPC
      BY DEF RunPC, Live
    <3> QED
      BY <2>2, <3>1, <3>2, FreeMoves DEF CreateFails
  <2> QED
    BY <2>1, <2>2
<1>2. act' \in {act, [act EXCEPT ![run[r].act] = [status |-> "pending", dec |-> "none", run |-> r]]}
  BY DEF CreateAction, CreateFails
<1>3. act' = [a \in Action |-> act'[a]]
  BY <1>2 DEF Inv, TypeOK
<1>4. \A a \in Action : ActStep(a)
  BY <1>1, <1>2 DEF ActStep, Inv, TypeOK
<1> QED
  BY <1>3, <1>4 DEF ActsStep

\* One action is closed, claimed or left.
LEMMA CloseActs ==
    ASSUME Inv, NEW b \in Action, NEW r, act' = [act EXCEPT ![b] = r],
           \/ /\ act[b].status = "pending" /\ b \notin late
              /\ r = [act[b] EXCEPT !.status = "running", !.dec = "approved"]
           \/ /\ act[b].status # "none"
              /\ r = [act[b] EXCEPT !.status = "done", !.dec = IF @ = "none" THEN "rejected" ELSE @]
    PROVE  ActsStep
BY DEF ActsStep, ActStep, Inv, TypeOK

\* Every step.
LEMMA ActsMove ==
    ASSUME Inv, Next
    PROVE  ActsStep
<1>1. CASE act' = act
  BY <1>1 DEF ActsStep, ActStep, Inv, TypeOK
<1>2. ASSUME NEW r \in Run, RunStep(r) PROVE ActsStep
  <2>1. CASE CreateAction(r) \/ CreateFails(r)
    BY <2>1, CreateActs
  <2>2. CASE HangTimeout(r)
    <3> DEFINE b == run[r].act
    <3>1. CASE act' = act
      BY <1>1, <3>1
    <3>2. CASE act[b].status = "pending" /\ act' = [act EXCEPT ![b].status = "done", ![b].dec = "rejected"]
      <4>1. b \in Action /\ act[b] \in ActRow /\ act[b].dec = "none"
        BY <2>2, <3>2 DEF HangTimeout, Inv, TypeOK, Facts, RunInv, Busy, ActInv, ActRow
      <4>2. act' = [act EXCEPT ![b] = [act[b] EXCEPT !.status = "done",
                                                    !.dec = IF @ = "none" THEN "rejected" ELSE @]]
        BY <3>2, <4>1 DEF Inv, TypeOK
      <4> QED
        BY <3>2, <4>1, <4>2, CloseActs
    <3> QED
      BY <2>2, <3>1, <3>2 DEF HangTimeout
  <2>3. CASE ~CreateAction(r) /\ ~CreateFails(r) /\ ~HangTimeout(r)
    <3>1. act' = act
      BY <1>2, <2>3 DEF RunStep, Admit, Acquire, Recheck, Begin, Heartbeat, GuardLost, CreatePending,
         Handoff, Hang, CheckMissed, Woken, Finish, Disconnect, Die
    <3> QED
      BY <1>1, <3>1
  <2> QED
    BY <2>1, <2>2, <2>3
<1>3. ASSUME NEW c \in Worker, WorkerStep(c) PROVE ActsStep
  <2>1. ASSUME NEW b \in Action, NEW d \in Decision, Decide(c, b, d) PROVE ActsStep
    <3>1. act[b] \in ActRow /\ act[b].status = "pending" /\ act[b].dec = "none"
      BY <2>1 DEF Decide, Inv, TypeOK, Facts, ActInv, ActRow
    <3>2. CASE d = "approved" /\ b \notin late
      <4>1. act' = [act EXCEPT ![b] = [act[b] EXCEPT !.status = "running", !.dec = "approved"]]
        BY <2>1, <3>2 DEF Decide, Inv, TypeOK
      <4> QED
        BY <3>1, <3>2, <4>1, CloseActs
    <3>3. CASE ~(d = "approved" /\ b \notin late)
      <4>1. act' = [act EXCEPT ![b] = [act[b] EXCEPT !.status = "done",
                                                    !.dec = IF @ = "none" THEN "rejected" ELSE @]]
        BY <2>1, <3>1, <3>3 DEF Decide, Inv, TypeOK
      <4> QED
        BY <3>1, <4>1, CloseActs
    <3> QED
      BY <3>2, <3>3
  <2>2. CASE Settle(c) \/ SweepSettle(c)
    <3> DEFINE b == req[c].act
    <3>1. /\ b \in Action /\ act[b] \in ActRow
          /\ act[b].status \in {"pending", "running"} \/ (act[b].status = "done" /\ act[b].dec # "none")
          /\ Settle(c) => act[b].dec # "none"
      BY <2>2 DEF Settle, SweepSettle, Inv, TypeOK, Facts, ReqInv, ActInv, ActRow, Decision
    <3>2. act' = [act EXCEPT ![b] = [act[b] EXCEPT !.status = "done",
                                                  !.dec = IF @ = "none" THEN "rejected" ELSE @]]
      BY <2>2, <3>1 DEF Settle, SweepSettle, Inv, TypeOK, ActRow
    <3> QED
      BY <3>1, <3>2, CloseActs
  <2>3. CASE ~Settle(c) /\ ~SweepSettle(c) /\ ~(\E b \in Action, d \in Decision : Decide(c, b, d))
    <3>1. act' = act
      BY <1>3, <2>3 DEF WorkerStep, ConfirmAgain, SweepRead, Rebuild, Notify, CleanGuard, CleanEnvelope, Drop
    <3> QED
      BY <1>1, <3>1
  <2> QED
    BY <2>1, <2>2, <2>3
<1>4. ASSUME NEW b \in Action, ActionStep(b) PROVE ActsStep
  <2>1. CASE ResumeTimeout(b)
    <3>1. /\ act[b] \in ActRow
          /\ act[b].status \in {"pending", "running"} \/ (act[b].status = "done" /\ act[b].dec # "none")
      BY <2>1 DEF ResumeTimeout, Inv, TypeOK, Facts, ResInv, ActInv, ActRow, Decision
    <3>2. act' = [act EXCEPT ![b] = [act[b] EXCEPT !.status = "done",
                                                  !.dec = IF @ = "none" THEN "rejected" ELSE @]]
      BY <2>1, <3>1 DEF ResumeTimeout, Inv, TypeOK, ActRow
    <3> QED
      BY <3>1, <3>2, CloseActs
  <2>2. CASE ~ResumeTimeout(b)
    <3>1. act' = act
      BY <1>4, <2>2 DEF ActionStep, Restart, Resume, ResumeSettled, ResumeClean, ResumeEnds,
         WindowCloses, EnvelopeExpires
    <3> QED
      BY <1>1, <3>1
  <2> QED
    BY <2>1, <2>2
<1>5. CASE LeaseExpires
  BY <1>1, <1>5 DEF LeaseExpires
<1> QED
  BY <1>2, <1>3, <1>4, <1>5 DEF Next

\* A settled decision stays, a known action is not forgotten, and an unknown one
\* becomes known by its creator only.
LEMMA ActsStand ==
    ASSUME Inv, Next
    PROVE  /\ act' \in [Action -> ActRow]
           /\ \A a \in Action :
                /\ ActInv(a)'
                /\ act[a].status = "done" => act'[a].status = "done" /\ act'[a].dec = act[a].dec
                /\ act[a].status = "running" => act'[a].status \in {"running", "done"} /\ act'[a].dec = act[a].dec
                /\ act[a].status # "none" => act'[a].status # "none" /\ act'[a].run = act[a].run
                /\ \/ act[a] = NoAct => act'[a] = NoAct
                   \/ \E r \in Run : /\ run[r].pc = "create" /\ run[r].act = a
                                     /\ run'[r].pc \in {"hang", "stream", "ending"} /\ run'[r].act = a
<1>1. ASSUME NEW a \in Action
      PROVE  /\ act'[a] \in ActRow
             /\ ActInv(a)'
             /\ act[a].status = "done" => act'[a].status = "done" /\ act'[a].dec = act[a].dec
             /\ act[a].status = "running" => act'[a].status \in {"running", "done"} /\ act'[a].dec = act[a].dec
             /\ act[a].status # "none" => act'[a].status # "none" /\ act'[a].run = act[a].run
             /\ \/ act[a] = NoAct => act'[a] = NoAct
                \/ \E r \in Run : /\ run[r].pc = "create" /\ run[r].act = a
                                  /\ run'[r].pc \in {"hang", "stream", "ending"} /\ run'[r].act = a
  <2>1. act[a] \in ActRow /\ ActInv(a)
    BY DEF Inv, TypeOK, ActRow, Facts
  <2>2. CASE act'[a] = act[a]
    BY <2>1, <2>2 DEF ActInv
  <2>3. ASSUME NEW r \in Run, run[r].pc = "create", run[r].act = a,
               run'[r].pc \in {"hang", "stream", "ending"}, run'[r].act = a,
               act'[a] = [status |-> "pending", dec |-> "none", run |-> r]
        PROVE  /\ act'[a] \in ActRow /\ ActInv(a)' /\ act[a].status = "none"
    <3>1. act[a] = NoAct
      BY <2>3 DEF Inv, Facts, RunInv
    <3> QED
      BY <2>3, <3>1 DEF ActRow, ActInv, NoAct, Decision
  <2>4. CASE /\ act[a].status = "pending" /\ a \notin late
             /\ act'[a] = [act[a] EXCEPT !.status = "running", !.dec = "approved"]
    <3>1. /\ act'[a] \in ActRow /\ act'[a].status = "running" /\ act'[a].dec = "approved"
          /\ act'[a].run = act[a].run
      BY <2>1, <2>4 DEF ActRow, Decision
    <3> QED
      BY <2>1, <2>4, <3>1 DEF ActInv, NoAct
  <2>5. CASE /\ act[a].status # "none"
             /\ act'[a] = [act[a] EXCEPT !.status = "done", !.dec = IF @ = "none" THEN "rejected" ELSE @]
    <3>1. /\ act'[a] \in ActRow /\ act'[a].status = "done" /\ act'[a].run = act[a].run
          /\ act'[a].dec = (IF act[a].dec = "none" THEN "rejected" ELSE act[a].dec)
      BY <2>1, <2>5 DEF ActRow, Decision
    <3> QED
      BY <2>1, <2>5, <3>1 DEF ActInv, NoAct, ActRow, Decision
  <2>6. ActStep(a)
    BY ActsMove DEF ActsStep
  <2> QED
    BY <2>2, <2>3, <2>4, <2>5, <2>6 DEF ActStep
<1>2. act' = [a \in Action |-> act'[a]]
  BY ActsMove DEF ActsStep
<1> QED
  BY <1>1, <1>2

-----------------------------------------------------------------------------
(* Runs *)

\* One subscription changes.
MailSet(a, s, x) == mail' = [mail EXCEPT ![a][s] = x]

\* Where a run may go with the action it has.
PcMove(r) ==
    \/ run'[r].pc \in {"ending", "done"}
    \/ run[r].pc = "idle" /\ run'[r].pc = "admitted"
    \/ run[r].pc = "admitted" /\ run'[r].pc = "owner"
    \/ run[r].pc = "owner" /\ run'[r].pc = "stream" /\ ~InProgress
    \/ run[r].pc \in Busy /\ run'[r].pc = "stream"
    \/ /\ run[r].pc = "handoff" /\ run'[r].pc = "create" /\ run'[r].handoff
       /\ guard = r /\ guard' = r /\ lease' = "pending"
    \/ run[r].pc = "create" /\ run'[r].pc = "hang"
    \/ PubSub /\ run[r].pc = "hang" /\ run'[r].pc = "check" /\ MailSet(run[r].act, "run", "none")
    \/ ~PubSub /\ run[r].pc = "hang" /\ run'[r].pc = "wait"
    \/ run[r].pc = "check" /\ run'[r].pc = "wait" /\ ~Claimed(run[r].act)

\* It stays, goes there, or creates an action.
RunMove(r) ==
    \/ run'[r] = run[r]
    \/ run'[r].act = run[r].act /\ run'[r].tools = run[r].tools /\ PcMove(r)
    \/ /\ run[r].pc = "stream" /\ run[r].tools < MaxTools
       /\ run'[r].pc = "handoff" /\ run'[r].tools = run[r].tools + 1
       /\ run'[r].act \in Action /\ act[run'[r].act] = NoAct
       /\ \A q \in Run : run[q].act # run'[r].act
       /\ PubSub \/ run'[r].act \in entry'

RunsMoved ==
    /\ run' \in [Run -> RunRow] /\ \A r \in Run : RunMove(r)
    /\ \A r, q \in Run : run'[r].act # run[r].act /\ run'[q].act # run[q].act => r = q

\* One run goes on.
LEMMA ToMove ==
    ASSUME Inv, NEW r \in Run, NEW pc \in RunPC,
           \/ To(r, pc)
           \/ run' = [run EXCEPT ![r].pc = pc, ![r].handoff = FALSE],
           \/ pc \in {"ending", "done"}
           \/ run[r].pc = "idle" /\ pc = "admitted"
           \/ run[r].pc = "admitted" /\ pc = "owner"
           \/ run[r].pc = "owner" /\ pc = "stream" /\ ~InProgress
           \/ run[r].pc \in Busy /\ pc = "stream"
           \/ run[r].pc = "create" /\ pc = "hang"
           \/ PubSub /\ run[r].pc = "hang" /\ pc = "check" /\ MailSet(run[r].act, "run", "none")
           \/ ~PubSub /\ run[r].pc = "hang" /\ pc = "wait"
           \/ run[r].pc = "check" /\ pc = "wait" /\ ~Claimed(run[r].act)
    PROVE  RunsMoved
<1>1. /\ run' \in [Run -> RunRow]
      /\ run'[r].pc = pc /\ run'[r].act = run[r].act /\ run'[r].tools = run[r].tools
      /\ \A q \in Run \ {r} : run'[q] = run[q]
  BY ToMoves, FreeMoves
<1>2. PcMove(r)
  BY <1>1 DEF PcMove
<1> QED
  BY <1>1, <1>2 DEF RunsMoved, RunMove

\* Every step.
LEMMA RunsMove ==
    ASSUME Inv, Next
    PROVE  RunsMoved
<1>1. CASE run' = run
  BY <1>1 DEF RunsMoved, RunMove, Inv, TypeOK, RunRow, RunPC
<1>2. ASSUME NEW r \in Run, RunStep(r) PROVE RunsMoved
  <2>1. Busy \subseteq RunPC /\ {"idle", "admitted", "owner", "stream", "ending", "done"} \subseteq RunPC
    BY DEF Busy, RunPC, Live
  <2>2. CASE Admit(r) \/ Acquire(r) \/ Recheck(r) \/ Begin(r)
    BY <2>1, <2>2, ToMove DEF Admit, Acquire, Recheck, Begin
  <2>3. CASE Heartbeat(r)
    BY <1>1, <2>3 DEF Heartbeat
  <2>4. CASE GuardLost(r) \/ CreateAction(r) \/ CreateFails(r) \/ Finish(r) \/ Disconnect(r)
    BY <2>1, <2>4, ToMove DEF GuardLost, CreateAction, CreateFails, Finish, Disconnect, Busy
  <2>5. ASSUME NEW a \in Action, CreatePending(r, a) PROVE RunsMoved
    <3>1. run \in [Run -> RunRow] /\ MaxTools \in Nat
      BY ChatAssumption DEF Inv, TypeOK, RunRow, RunPC
    <3> DEFINE row == [run[r] EXCEPT !.pc = "handoff", !.act = a, !.tools = @ + 1]
    <3>2. run' = [run EXCEPT ![r] = row]
      BY <2>5, <3>1 DEF CreatePending
    <3>3. /\ row.pc = "handoff" /\ row.act = a /\ row.tools = run[r].tools + 1
          /\ row \in RunRow
      BY <2>1, <2>5, <3>1 DEF CreatePending, RunRow, Busy
    <3>4. /\ run[r].pc = "stream" /\ run[r].tools < MaxTools /\ act[a] = NoAct
          /\ \A q \in Run : run[q].act # a
          /\ PubSub \/ a \in entry'
      BY <2>5 DEF CreatePending
    <3> HIDE DEF row
    <3>5. /\ run' \in [Run -> RunRow] /\ run'[r] = row
          /\ \A q \in Run \ {r} : run'[q] = run[q]
      BY <3>1, <3>2, <3>3
    <3> QED
      BY <3>3, <3>4, <3>5 DEF RunsMoved, RunMove
  <2>6. CASE Handoff(r)
    <3>1. run[r].pc = "handoff"
      BY <2>6 DEF Handoff
    <3>2. CASE To(r, "stream")
      BY <2>1, <3>1, <3>2, ToMove DEF Busy
    <3>3. CASE /\ guard = r /\ guard' = guard /\ lease' = "pending"
               /\ run' = [run EXCEPT ![r].pc = "create", ![r].handoff = TRUE]
      <4>1. run \in [Run -> RunRow]
        BY DEF Inv, TypeOK, RunRow, RunPC
      <4> DEFINE row == [run[r] EXCEPT !.pc = "create", !.handoff = TRUE]
      <4>2. run' = [run EXCEPT ![r] = row]
        BY <3>3, <4>1
      <4>3. /\ row.pc = "create" /\ row.act = run[r].act /\ row.tools = run[r].tools
            /\ row.handoff /\ row \in RunRow
        BY <2>1, <4>1 DEF RunRow, Busy
      <4> HIDE DEF row
      <4>4. /\ run' \in [Run -> RunRow] /\ run'[r] = row
            /\ \A q \in Run \ {r} : run'[q] = run[q]
        BY <4>1, <4>2, <4>3
      <4>5. PcMove(r)
        BY <3>1, <3>3, <4>3, <4>4 DEF PcMove
      <4> QED
        BY <4>3, <4>4, <4>5 DEF RunsMoved, RunMove
    <3> QED
      BY <2>6, <3>2, <3>3 DEF Handoff, HandsOff
  <2>7. CASE Hang(r) \/ CheckMissed(r)
    BY <2>1, <2>7, ToMove DEF Hang, CheckMissed, Busy, MailSet
  <2>8. CASE Woken(r) \/ HangTimeout(r)
    <3>1. run[r].pc \in Busy
      BY <2>8 DEF Woken, HangTimeout, Told, Busy
    <3> QED
      BY <2>1, <2>8, <3>1, ToMove DEF Woken, HangTimeout
  <2>9. CASE Die(r)
    <3>1. PICK gone \in SUBSET Run :
            run' = [q \in Run |-> IF q \in gone /\ run[q].pc # "idle"
                                  THEN [run[q] EXCEPT !.pc = "done"] ELSE run[q]]
      BY <2>9 DEF Die
    <3>2. ASSUME NEW q \in Run
          PROVE  run'[q] \in RunRow /\ RunMove(q) /\ run'[q].act = run[q].act
      <4>1. run[q] \in RunRow
        BY DEF Inv, TypeOK, RunRow, RunPC
      <4>2. LET row == [run[q] EXCEPT !.pc = "done"] IN
              row \in RunRow /\ row.pc = "done" /\ row.act = run[q].act /\ row.tools = run[q].tools
        BY <2>1, <4>1 DEF RunRow
      <4> QED
        BY <3>1, <4>1, <4>2 DEF RunMove, PcMove
    <3> QED
      BY <3>1, <3>2 DEF RunsMoved
  <2> QED
    BY <1>2, <2>2, <2>3, <2>4, <2>5, <2>6, <2>7, <2>8, <2>9 DEF RunStep
<1>3. ASSUME NEW c \in Worker, WorkerStep(c) PROVE run' = run
  BY <1>3 DEF WorkerStep, Decide, ConfirmAgain, SweepRead, Settle, SweepSettle, Rebuild, Notify, CleanGuard,
     CleanEnvelope, Drop
<1>4. ASSUME NEW a \in Action, ActionStep(a) PROVE run' = run
  BY <1>4 DEF ActionStep, Restart, Resume, ResumeSettled, ResumeTimeout, ResumeClean, ResumeEnds,
     WindowCloses, EnvelopeExpires
<1>5. CASE LeaseExpires
  BY <1>1, <1>5 DEF LeaseExpires
<1> QED
  BY <1>1, <1>2, <1>3, <1>4, <1>5 DEF Next

\* Runs stay apart and know where their action stands.
LEMMA RunsStand ==
    ASSUME Inv, Next
    PROVE  RunsApart' /\ \A r \in Run : RunInv(r)'
<1>1. RunsMoved
  BY RunsMove
<1>2. \A r \in Run : RunInv(r) /\ run[r] \in RunRow /\ run'[r] \in RunRow
  BY <1>1 DEF Inv, Facts, TypeOK, RunsMoved, RunRow, RunPC
<1>3. RunsApart'
  <2>1. \A r \in Run : \/ run'[r].act = run[r].act
                       \/ run'[r].act \in Action /\ \A q \in Run : run[q].act # run'[r].act
    BY <1>1 DEF RunsMoved, RunMove
  <2>2. ASSUME NEW r \in Run, NEW q \in Run, run'[r].act \in Action, run'[r].act = run'[q].act
        PROVE  r = q
    <3>1. CASE run'[r].act = run[r].act /\ run'[q].act = run[q].act
      BY <2>2, <3>1 DEF Inv, Facts, RunsApart
    <3>2. CASE run'[r].act # run[r].act \/ run'[q].act # run[q].act
      <4>1. PICK x \in {r, q} : run'[x].act # run[x].act /\ \A y \in Run : run[y].act # run'[x].act
        BY <2>1, <3>2
      <4>2. \A y \in {r, q} : run'[y].act # run[y].act
        BY <2>2, <4>1
      <4> QED
        BY <1>1, <4>2 DEF RunsMoved
    <3> QED
      BY <3>1, <3>2
  <2> QED
    BY <2>2 DEF RunsApart
<1>4. ASSUME NEW r \in Run PROVE RunInv(r)'
  <2>1. run'[r].pc \in Busy => run'[r].act \in Action
    BY <1>1, <1>2 DEF RunsMoved, RunMove, PcMove, RunInv, Busy
  <2>2. run'[r].pc = "create" => run'[r].handoff
    BY <1>1, <1>2 DEF RunsMoved, RunMove, PcMove, RunInv, Busy
  <2>3. ASSUME run'[r].pc \in {"handoff", "create"} PROVE act'[run'[r].act] = NoAct
    <3>1. act[run'[r].act] = NoAct /\ run'[r].act \in Action
      BY <1>1, <1>2, <2>1, <2>3 DEF RunsMoved, RunMove, PcMove, RunInv, Busy
    <3>2. ASSUME NEW q \in Run, run'[q].pc \in {"hang", "stream", "ending"}, run'[q].act = run'[r].act
          PROVE  FALSE
      BY <1>3, <2>3, <3>1, <3>2 DEF RunsApart
    <3> QED
      BY <3>1, <3>2, ActsStand
  <2> QED
    BY <2>1, <2>2, <2>3 DEF RunInv
<1> QED
  BY <1>3, <1>4

-----------------------------------------------------------------------------
(* Workers and resumed streams *)

\* A worker that does nothing still knows its action.
LEMMA ReqStands ==
    ASSUME Inv, Next, NEW c \in Worker, req'[c] = req[c]
    PROVE  ReqInv(c)'
<1>1. ReqInv(c)
  BY DEF Inv, Facts
<1> QED
  BY <1>1, ActsStand DEF ReqInv

\* One worker's new place.
LEMMA WorkSets ==
    ASSUME Inv, Next, NEW c \in Worker, NEW row \in ReqRow, req' = [req EXCEPT ![c] = row],
           row.pc # "idle" => row.act \in Action /\ act'[row.act].status # "none",
           row.pc = "exec" => /\ row.dec = "approved" /\ act'[row.act].dec = "approved"
                              /\ act'[row.act].status \in {"running", "done"},
           row.pc = "notify" => /\ row.dec \in Decision /\ act'[row.act].status = "done"
                                /\ act'[row.act].dec = row.dec,
           row.pc = "reconcile" => act'[row.act].status \in {"running", "done"}
    PROVE  req' \in [Worker -> ReqRow] /\ \A w \in Worker : ReqInv(w)'
<1>1. /\ req' \in [Worker -> ReqRow] /\ req'[c] = row
      /\ \A w \in Worker \ {c} : req'[w] = req[w]
  BY DEF Inv, TypeOK, ReqRow
<1>2. ReqInv(c)'
  BY <1>1 DEF ReqInv
<1> QED
  BY <1>1, <1>2, ReqStands

\* A worker that goes on, or ends, with the action and the decision it has.
LEMMA WorkGoes ==
    ASSUME Inv, Next, NEW c \in Worker, req[c].pc # "idle",
           \/ req' = [req EXCEPT ![c] = IdleReq]
           \/ \E pc \in {"release", "purge"} : req' = [req EXCEPT ![c].pc = pc]
           \/ req' = [req EXCEPT ![c] = [@ EXCEPT !.pc = "release"]]
    PROVE  req' \in [Worker -> ReqRow] /\ \A w \in Worker : ReqInv(w)'
<1>1. req[c] \in ReqRow /\ req \in [Worker -> ReqRow] /\ ReqInv(c)
  BY DEF Inv, TypeOK, ReqRow, Facts
<1>2. CASE req' = [req EXCEPT ![c] = IdleReq]
  <2>1. IdleReq \in ReqRow /\ IdleReq.pc = "idle"
    BY DEF IdleReq, ReqRow
  <2> QED
    BY <1>2, <2>1, WorkSets
<1>3. ASSUME NEW pc \in {"release", "purge"}, req' = [req EXCEPT ![c] = [req[c] EXCEPT !.pc = pc]]
      PROVE  req' \in [Worker -> ReqRow] /\ \A w \in Worker : ReqInv(w)'
  <2> DEFINE row == [req[c] EXCEPT !.pc = pc]
  <2>1. row \in ReqRow /\ row.pc = pc /\ row.act = req[c].act /\ req' = [req EXCEPT ![c] = row]
    BY <1>1, <1>3 DEF ReqRow
  <2>2. row.act \in Action /\ act'[row.act].status # "none"
    BY <1>1, <2>1, ActsStand DEF ReqInv
  <2> HIDE DEF row
  <2> QED
    BY <1>3, <2>1, <2>2, WorkSets
<1> QED
  BY <1>1, <1>2, <1>3

\* Every step.
LEMMA ReqsStand ==
    ASSUME Inv, Next
    PROVE  req' \in [Worker -> ReqRow] /\ \A c \in Worker : ReqInv(c)'
<1>1. CASE req' = req
  BY <1>1, ReqStands DEF Inv, TypeOK, ReqRow
<1>2. ASSUME NEW r \in Run, RunStep(r)
      PROVE  req' \in [Worker -> ReqRow] /\ \A c \in Worker : ReqInv(c)'
  <2>1. req' = req \/ req' = [c \in Worker |-> IdleReq]
    BY <1>2 DEF RunStep, Admit, Acquire, Recheck, Begin, Heartbeat, GuardLost, CreatePending, Handoff,
       CreateAction, CreateFails, Hang, CheckMissed, Woken, HangTimeout, Finish, Disconnect, Die
  <2>2. CASE req' = [c \in Worker |-> IdleReq]
    BY <2>2 DEF IdleReq, ReqRow, ReqInv
  <2> QED
    BY <1>1, <2>1, <2>2
<1>3. ASSUME NEW c \in Worker, WorkerStep(c)
      PROVE  req' \in [Worker -> ReqRow] /\ \A w \in Worker : ReqInv(w)'
  <2>1. req[c] \in ReqRow /\ ReqInv(c)
    BY DEF Inv, TypeOK, ReqRow, Facts
  <2>2. ASSUME NEW a \in Action, NEW d \in Decision, Decide(c, a, d)
        PROVE  req' \in [Worker -> ReqRow] /\ \A w \in Worker : ReqInv(w)'
    <3>1. act'[a].status \in {"running", "done"} /\ act \in [Action -> ActRow]
      BY <2>2 DEF Decide, Inv, TypeOK, ActRow
    <3>2. CASE d = "approved" /\ a \notin late
      <4> DEFINE row == [pc |-> "exec", act |-> a, dec |-> d]
      <4>1. row \in ReqRow /\ req' = [req EXCEPT ![c] = row]
        BY <2>2, <3>2 DEF Decide, Work, ReqRow
      <4>2. act'[a].dec = "approved" /\ act'[a].status = "running"
        BY <2>2, <3>1, <3>2 DEF Decide, ActRow
      <4>3. row.pc = "exec" /\ row.act = a /\ row.dec = "approved"
        BY <3>2
      <4> HIDE DEF row
      <4> QED
        BY <4>1, <4>2, <4>3, WorkSets
    <3>3. CASE ~(d = "approved" /\ a \notin late)
      <4> DEFINE row == [pc |-> "notify", act |-> a, dec |-> "rejected"]
      <4>1. row \in ReqRow /\ req' = [req EXCEPT ![c] = row]
        BY <2>2, <3>3 DEF Decide, Work, ReqRow, Decision
      <4>2. act'[a].dec = "rejected" /\ act'[a].status = "done"
        BY <2>2, <3>1, <3>3 DEF Decide, ActRow
      <4>3. row.pc = "notify" /\ row.act = a /\ row.dec = "rejected" /\ row.dec \in Decision
        BY DEF Decision
      <4> HIDE DEF row
      <4> QED
        BY <4>1, <4>2, <4>3, WorkSets
    <3> QED
      BY <3>2, <3>3
  <2>3. ASSUME NEW a \in Action, ConfirmAgain(c, a) \/ SweepRead(c, a)
        PROVE  req' \in [Worker -> ReqRow] /\ \A w \in Worker : ReqInv(w)'
    <3>1. act' = act
      BY <2>3 DEF ConfirmAgain, SweepRead
    <3>2. PICK pc \in {"notify", "expire", "reconcile", "rebuild"}, d \in {"approved", "none"} :
            /\ req' = [req EXCEPT ![c] = [pc |-> pc, act |-> a, dec |-> d]]
            /\ act[a].status # "none"
            /\ pc = "notify" => d = "approved" /\ act[a].status = "done" /\ act[a].dec = d
            /\ pc = "reconcile" => act[a].status = "running"
      BY <2>3 DEF ConfirmAgain, SweepRead, Work
    <3> DEFINE row == [pc |-> pc, act |-> a, dec |-> d]
    <3>3. row \in ReqRow /\ row.pc = pc /\ row.act = a /\ row.dec = d
      BY DEF ReqRow, Decision
    <3>4. req' = [req EXCEPT ![c] = row]
      BY <3>2
    <3> HIDE DEF row
    <3> QED
      BY <3>1, <3>2, <3>3, <3>4, WorkSets DEF Decision
  <2>4. CASE Settle(c)
    <3> DEFINE row == [req[c] EXCEPT !.pc = "notify"]
               a == req[c].act
    <3>1. /\ a \in Action /\ req[c].dec = "approved" /\ act[a].status \in {"running", "done"}
          /\ act[a].dec = "approved"
      BY <2>1, <2>4 DEF Settle, ReqInv
    <3>2. /\ row \in ReqRow /\ row.pc = "notify" /\ row.act = a /\ row.dec = "approved"
          /\ req' = [req EXCEPT ![c] = row]
      BY <2>1, <2>4, <3>1 DEF Settle, ReqRow, Inv, TypeOK
    <3>3. act'[a].status = "done" /\ act'[a].dec = "approved"
      BY <2>4, <3>1 DEF Settle, Inv, TypeOK
    <3> HIDE DEF row
    <3> QED
      BY <3>1, <3>2, <3>3, WorkSets DEF Decision
  <2>5. CASE SweepSettle(c)
    <3> DEFINE a == req[c].act
               row == [pc |-> "release", act |-> a, dec |-> "none"]
    <3>1. a \in Action /\ act[a].status # "none"
      BY <2>1, <2>5 DEF SweepSettle, ReqInv
    <3>2. row \in ReqRow /\ row.pc = "release" /\ row.act = a /\ req' = [req EXCEPT ![c] = row]
      BY <2>5, <3>1 DEF SweepSettle, Work, ReqRow
    <3>3. act'[a].status # "none"
      BY <3>1, ActsStand
    <3> HIDE DEF row
    <3> QED
      BY <3>1, <3>2, <3>3, WorkSets
  <2>6. CASE Rebuild(c) \/ Notify(c) \/ CleanGuard(c) \/ CleanEnvelope(c) \/ Drop(c)
    <3>1. /\ req[c].pc # "idle"
          /\ \/ req' = [req EXCEPT ![c] = IdleReq]
             \/ \E pc \in {"release", "purge"} : req' = [req EXCEPT ![c].pc = pc]
             \/ req' = [req EXCEPT ![c] = [@ EXCEPT !.pc = "release"]]
      BY <2>6 DEF Rebuild, Notify, CleanGuard, CleanEnvelope, Drop
    <3> QED
      BY <3>1, WorkGoes
  <2> QED
    BY <1>3, <2>2, <2>3, <2>4, <2>5, <2>6 DEF WorkerStep
<1>4. ASSUME NEW a \in Action, ActionStep(a) PROVE req' = req
  BY <1>4 DEF ActionStep, Restart, Resume, ResumeSettled, ResumeTimeout, ResumeClean, ResumeEnds,
     WindowCloses, EnvelopeExpires
<1>5. CASE LeaseExpires
  BY <1>1, <1>5 DEF LeaseExpires
<1> QED
  BY <1>1, <1>2, <1>3, <1>4, <1>5 DEF Next

\* Streams are resumed on known actions only.
LEMMA ResumesStand ==
    ASSUME Inv, Next
    PROVE  res' \in [Action -> {"off", "wait", "clean"}] /\ \A a \in Action : ResInv(a)'
<1>1. \A a \in Action : res'[a] = res[a] => ResInv(a)'
  <2>1. \A a \in Action : ResInv(a)
    BY DEF Inv, Facts
  <2> QED
    BY <2>1, ActsStand DEF ResInv
<1>2. CASE res' = res
  BY <1>1, <1>2 DEF Inv, TypeOK
<1>3. CASE res' = [a \in Action |-> "off"]
  BY <1>3 DEF ResInv
<1>4. ASSUME NEW a \in Action, NEW x \in {"off", "wait", "clean"}, res' = [res EXCEPT ![a] = x],
             x # "off" => act[a].status # "none"
      PROVE  res' \in [Action -> {"off", "wait", "clean"}] /\ \A b \in Action : ResInv(b)'
  <2>1. /\ res' \in [Action -> {"off", "wait", "clean"}] /\ res'[a] = x
        /\ \A b \in Action \ {a} : res'[b] = res[b]
    BY <1>4 DEF Inv, TypeOK
  <2>2. ResInv(a)'
    BY <1>4, <2>1, ActsStand DEF ResInv
  <2> QED
    BY <1>1, <2>1, <2>2
<1>5. ASSUME NEW r \in Run, RunStep(r) PROVE res' = res \/ res' = [a \in Action |-> "off"]
  BY <1>5 DEF RunStep, Admit, Acquire, Recheck, Begin, Heartbeat, GuardLost, CreatePending, Handoff,
     CreateAction, CreateFails, Hang, CheckMissed, Woken, HangTimeout, Finish, Disconnect, Die
<1>6. ASSUME NEW c \in Worker, WorkerStep(c) PROVE res' = res
  BY <1>6 DEF WorkerStep, Decide, ConfirmAgain, SweepRead, Settle, SweepSettle, Rebuild, Notify, CleanGuard,
     CleanEnvelope, Drop
<1>7. ASSUME NEW a \in Action, ActionStep(a)
      PROVE  \/ res' = res
             \/ \E x \in {"off", "wait", "clean"} :
                  res' = [res EXCEPT ![a] = x] /\ (x # "off" => act[a].status # "none")
  <2>1. ResInv(a)
    BY DEF Inv, Facts
  <2> QED
    BY <1>7, <2>1 DEF ActionStep, Restart, Resume, ResumeSettled, ResumeTimeout, ResumeClean, ResumeEnds,
       WindowCloses, EnvelopeExpires, ResInv
<1>8. CASE LeaseExpires
  BY <1>2, <1>8 DEF LeaseExpires
<1> QED
  BY <1>2, <1>3, <1>4, <1>5, <1>6, <1>7, <1>8 DEF Next

-----------------------------------------------------------------------------
(* The wake-up channel *)

MailRow == [Sub -> Decision \cup {"off", "none"}]

\* Of all subscriptions only that one.
LEMMA MailPuts ==
    ASSUME Inv, NEW a \in Action, NEW s \in Sub, NEW x \in Decision \cup {"off", "none"},
           MailSet(a, s, x)
    PROVE  /\ mail' \in [Action -> MailRow]
           /\ mail'[a][s] = x
           /\ \A b \in Action, t \in Sub : b # a \/ t # s => mail'[b][t] = mail[b][t]
<1>1. mail \in [Action -> MailRow]
  BY DEF Inv, TypeOK, MailRow
<1> DEFINE row == [mail[a] EXCEPT ![s] = x]
<1>2. row \in MailRow /\ row[s] = x /\ \A t \in Sub \ {s} : row[t] = mail[a][t]
  BY <1>1 DEF MailRow
<1>3. mail' = [mail EXCEPT ![a] = row]
  BY <1>1 DEF MailSet
<1> HIDE DEF row
<1> QED
  BY <1>1, <1>2, <1>3

\* A run or a resumed stream may unsubscribe or subscribe; only a worker's
\* notification delivers.
MailMove(a, s) ==
    \/ mail'[a][s] \in {mail[a][s], "off", "none"}
    \/ \E c \in Worker : Notify(c) /\ req[c].act = a /\ mail'[a][s] = req[c].dec

\* Every step moves subscriptions so.
LEMMA MailMoves ==
    ASSUME Inv, Next
    PROVE  mail' \in [Action -> MailRow] /\ \A a \in Action, s \in Sub : MailMove(a, s)
<1>1. mail \in [Action -> MailRow]
  BY DEF Inv, TypeOK, MailRow
<1>2. CASE mail' = mail
  BY <1>1, <1>2 DEF MailMove
<1>3. ASSUME NEW a \in Action, NEW s \in Sub, NEW x \in {"off", "none"}, MailSet(a, s, x)
      PROVE  mail' \in [Action -> MailRow] /\ \A b \in Action, t \in Sub : MailMove(b, t)
  <2>1. /\ mail' \in [Action -> MailRow] /\ mail'[a][s] = x
        /\ \A b \in Action, t \in Sub : b # a \/ t # s => mail'[b][t] = mail[b][t]
    <3>1. x \in Decision \cup {"off", "none"}
      OBVIOUS
    <3> QED
      BY <1>3, <3>1, MailPuts
  <2>2. ASSUME NEW b \in Action, NEW t \in Sub PROVE MailMove(b, t)
    BY <2>1, <1>3 DEF MailMove
  <2> QED
    BY <2>1, <2>2
<1>4. "run" \in Sub /\ "resume" \in Sub
  BY DEF Sub
<1>5. ASSUME NEW r \in Run, RunStep(r)
      PROVE  mail' \in [Action -> MailRow] /\ \A b \in Action, t \in Sub : MailMove(b, t)
  <2>1. CASE Die(r)
    <3>1. PICK subs : mail' = [a \in Action |-> IF a \in subs THEN [mail[a] EXCEPT !["run"] = "off"] ELSE mail[a]]
      BY <2>1 DEF Die
    <3>2. ASSUME NEW a \in Action
          PROVE  mail'[a] \in MailRow /\ \A t \in Sub : mail'[a][t] \in {mail[a][t], "off"}
      BY <1>1, <1>4, <3>1 DEF MailRow
    <3> QED
      BY <3>1, <3>2 DEF MailMove
  <2>2. CASE ~Die(r)
    <3>1. run[r].pc \in Busy => run[r].act \in Action
      BY DEF Inv, Facts, RunInv
    <3>2. \/ mail' = mail
          \/ \E a \in Action, x \in {"off", "none"} : MailSet(a, "run", x)
      BY <1>5, <2>2, <3>1 DEF RunStep, Admit, Acquire, Recheck, Begin, Heartbeat, GuardLost, CreatePending,
         Handoff, CreateAction, CreateFails, Hang, CheckMissed, Woken, Told, HangTimeout, Finish, Disconnect,
         channel, Unhang, Busy, MailSet
    <3> QED
      BY <1>2, <1>3, <1>4, <3>2
  <2> QED
    BY <2>1, <2>2
<1>6. ASSUME NEW c \in Worker, WorkerStep(c)
      PROVE  mail' \in [Action -> MailRow] /\ \A b \in Action, t \in Sub : MailMove(b, t)
  <2>1. CASE Notify(c)
    <3> DEFINE a == req[c].act
               row == [s \in Sub |-> IF PubSub /\ ClaimWake(a) /\ mail[a][s] = "none" THEN req[c].dec
                                                                                    ELSE mail[a][s]]
    <3>1. a \in Action /\ req[c].dec \in Decision
      BY <2>1 DEF Notify, Inv, Facts, ReqInv
    <3>2. row \in MailRow /\ \A t \in Sub : row[t] \in {mail[a][t], req[c].dec}
      BY <1>1, <3>1 DEF MailRow
    <3>3. mail' = [mail EXCEPT ![a] = row]
      BY <2>1 DEF Notify, Publish
    <3> HIDE DEF row
    <3>4. /\ mail' \in [Action -> MailRow] /\ mail'[a] = row
          /\ \A b \in Action \ {a} : mail'[b] = mail[b]
      BY <1>1, <3>1, <3>2, <3>3
    <3> QED
      BY <2>1, <3>2, <3>4 DEF MailMove
  <2>2. CASE ~Notify(c)
    <3>1. mail' = mail
      BY <1>6, <2>2 DEF WorkerStep, Decide, ConfirmAgain, SweepRead, Settle, SweepSettle, Rebuild, CleanGuard,
         CleanEnvelope, Drop, channel
    <3> QED
      BY <1>2, <3>1
  <2> QED
    BY <2>1, <2>2
<1>7. ASSUME NEW a \in Action, ActionStep(a)
      PROVE  mail' \in [Action -> MailRow] /\ \A b \in Action, t \in Sub : MailMove(b, t)
  <2>1. mail' = mail \/ \E x \in {"off", "none"} : MailSet(a, "resume", x)
    BY <1>7 DEF ActionStep, Restart, Resume, ResumeSettled, ResumeClean, ResumeEnds, ResumeTimeout,
       WindowCloses, EnvelopeExpires, channel, MailSet
  <2> QED
    BY <1>2, <1>3, <1>4, <2>1
<1>8. CASE LeaseExpires
  BY <1>2, <1>8 DEF LeaseExpires, channel
<1> QED
  BY <1>5, <1>6, <1>7, <1>8 DEF Next

\* No run has the action.
Unknown(a) == \A q \in Run : run[q].act # a

\* A decision is claimed by a worker's notification, and forgotten with its
\* envelope or when the action is set up.
WakeMove(a) ==
    \/ wake'[a] = wake[a]
    \/ wake'[a] = "none" /\ (Unknown(a) \/ (PubSub /\ a \notin env'))
    \/ \E c \in Worker : Notify(c) /\ req[c].act = a /\ ClaimWake(a) /\ wake'[a] = req[c].dec

\* An envelope appears only with the action.
EnvMove(a) == a \in env' => a \in env \/ Unknown(a)

\* Every step moves decisions and envelopes so.
LEMMA WakeMoves ==
    ASSUME Inv, Next
    PROVE  /\ wake' \in [Action -> Decision \cup {"none"}] /\ env' \subseteq Action
           /\ \A a \in Action : WakeMove(a) /\ EnvMove(a)
<1>1. wake \in [Action -> Decision \cup {"none"}] /\ env \subseteq Action
  BY DEF Inv, TypeOK
<1>2. CASE wake' = wake /\ env' = env
  BY <1>1, <1>2 DEF WakeMove, EnvMove
<1>3. ASSUME NEW a \in Action, DeletePending(a)
      PROVE  /\ wake' \in [Action -> Decision \cup {"none"}] /\ env' \subseteq Action
             /\ \A b \in Action : WakeMove(b) /\ EnvMove(b)
  BY <1>1, <1>3 DEF DeletePending, WakeMove, EnvMove
<1>4. ASSUME NEW r \in Run, RunStep(r)
      PROVE  /\ wake' \in [Action -> Decision \cup {"none"}] /\ env' \subseteq Action
             /\ \A b \in Action : WakeMove(b) /\ EnvMove(b)
  <2>1. ASSUME NEW a \in Action, CreatePending(r, a)
        PROVE  /\ wake' \in [Action -> Decision \cup {"none"}] /\ env' \subseteq Action
               /\ \A b \in Action : WakeMove(b) /\ EnvMove(b)
    BY <1>1, <2>1 DEF CreatePending, WakeMove, EnvMove, Unknown
  <2>2. CASE ~\E a \in Action : CreatePending(r, a)
    <3>1. run[r].pc \in Busy => run[r].act \in Action
      BY DEF Inv, Facts, RunInv
    <3>2. (wake' = wake /\ env' = env) \/ \E a \in Action : DeletePending(a)
      BY <1>4, <2>2, <3>1 DEF RunStep, Admit, Acquire, Recheck, Begin, Heartbeat, GuardLost,
         Handoff, CreateAction, CreateFails, Hang, CheckMissed, Woken, Told, HangTimeout, Finish, Disconnect, Die,
         redis, Busy
    <3> QED
      BY <1>2, <1>3, <3>2
  <2> QED
    BY <2>1, <2>2
<1>5. ASSUME NEW c \in Worker, WorkerStep(c)
      PROVE  /\ wake' \in [Action -> Decision \cup {"none"}] /\ env' \subseteq Action
             /\ \A b \in Action : WakeMove(b) /\ EnvMove(b)
  <2>1. CASE Notify(c)
    <3>1. req[c].act \in Action /\ req[c].dec \in Decision
      BY <2>1 DEF Notify, Inv, Facts, ReqInv
    <3>2. env' = env /\ wake' = IF ClaimWake(req[c].act) THEN [wake EXCEPT ![req[c].act] = req[c].dec] ELSE wake
      BY <2>1 DEF Notify
    <3> QED
      BY <1>1, <2>1, <3>1, <3>2 DEF WakeMove, EnvMove
  <2>2. CASE ~Notify(c)
    <3>1. req[c].pc # "idle" => req[c].act \in Action
      BY DEF Inv, Facts, ReqInv
    <3>2. (wake' = wake /\ env' = env) \/ \E a \in Action : DeletePending(a)
      BY <1>5, <2>2, <3>1 DEF WorkerStep, Decide, ConfirmAgain, SweepRead, Settle, SweepSettle, Rebuild, CleanGuard,
         CleanEnvelope, Drop, redis
    <3> QED
      BY <1>2, <1>3, <3>2
  <2> QED
    BY <2>1, <2>2
<1>6. ASSUME NEW a \in Action, ActionStep(a)
      PROVE  (wake' = wake /\ env' = env) \/ DeletePending(a)
  BY <1>6 DEF ActionStep, Restart, Resume, ResumeSettled, ResumeClean, ResumeEnds, ResumeTimeout,
     WindowCloses, EnvelopeExpires, redis
<1>7. CASE LeaseExpires
  BY <1>2, <1>7 DEF LeaseExpires
<1> QED
  BY <1>2, <1>3, <1>4, <1>5, <1>6, <1>7 DEF Next

\* The rest of the state stays in its domain.
LEMMA OthersTyped ==
    ASSUME Inv, Next
    PROVE  late' \subseteq Action /\ entry' \subseteq Action /\ early' \subseteq Action
<1>1. late \subseteq Action /\ entry \subseteq Action /\ early \subseteq Action
  BY DEF Inv, TypeOK
<1>2. ASSUME NEW r \in Run, RunStep(r)
      PROVE  late' \subseteq Action /\ entry' \subseteq Action /\ early' \subseteq Action
  BY <1>1, <1>2 DEF RunStep, Admit, Acquire, Recheck, Begin, Heartbeat, GuardLost, CreatePending, Handoff,
     CreateAction, CreateFails, Hang, CheckMissed, Woken, HangTimeout, Finish, Disconnect, Die, channel, Unhang
<1>3. ASSUME NEW c \in Worker, WorkerStep(c)
      PROVE  late' \subseteq Action /\ entry' \subseteq Action /\ early' \subseteq Action
  <2>1. req[c].pc # "idle" => req[c].act \in Action
    BY DEF Inv, Facts, ReqInv
  <2> QED
    BY <1>1, <1>3, <2>1 DEF WorkerStep, Decide, ConfirmAgain, SweepRead, Settle, SweepSettle, Rebuild, CleanGuard,
       CleanEnvelope, Drop, Notify, channel
<1>4. ASSUME NEW a \in Action, ActionStep(a)
      PROVE  late' \subseteq Action /\ entry' \subseteq Action /\ early' \subseteq Action
  BY <1>1, <1>4 DEF ActionStep, Restart, Resume, ResumeSettled, ResumeClean, ResumeEnds, ResumeTimeout,
     WindowCloses, EnvelopeExpires, channel
<1>5. CASE LeaseExpires
  BY <1>1, <1>5 DEF LeaseExpires, channel
<1> QED
  BY <1>2, <1>3, <1>4, <1>5 DEF Next

\* What is delivered or claimed is a settled decision, and stays one.
LEMMA WakeStaysTrue ==
    ASSUME Inv, Next
    PROVE  WakeIsTruth'
<1> SUFFICES ASSUME NEW a \in Action, NEW d \in Decision,
                    wake'[a] = d \/ \E s \in Sub : mail'[a][s] = d
             PROVE  act'[a].status = "done" /\ act'[a].dec = d
  BY DEF WakeIsTruth
<1>1. d # "none" /\ d # "off"
  BY DEF Decision
<1>2. wake[a] = d \/ (\E s \in Sub : mail[a][s] = d)
      \/ \E c \in Worker : Notify(c) /\ req[c].act = a /\ req[c].dec = d
  BY <1>1, MailMoves, WakeMoves DEF MailMove, WakeMove
<1>3. act[a].status = "done" /\ act[a].dec = d
  BY <1>2 DEF Inv, WakeIsTruth, Facts, ReqInv, Notify
<1> QED
  BY <1>3, ActsStand

\* The invariant holds at the start ...
LEMMA InitInv == Init => Inv
<1> SUFFICES ASSUME Init PROVE Inv
  OBVIOUS
<1>1. TypeOK
  BY ChatAssumption DEF Init, TypeOK, NoAct, NoMail, IdleRun, IdleReq, Live, Decision, Sub
<1>2. Facts
  BY ChatAssumption DEF Init, Facts, ActInv, ResInv, ReqInv, RunInv, RunsApart, NoAct, IdleRun, IdleReq, Busy
<1>3. WakeIsTruth
  BY DEF Init, WakeIsTruth, NoMail, Decision
<1> QED
  BY <1>1, <1>2, <1>3 DEF Inv

\* ... and after every step.
LEMMA NextInv == Inv /\ [Next]_vars => Inv'
<1>1. CASE Inv /\ Next
  <2>1. TypeOK'
    <3>1. /\ act' \in [Action -> ActRow] /\ run' \in [Run -> RunRow] /\ req' \in [Worker -> ReqRow]
          /\ mail' \in [Action -> MailRow]
      BY <1>1, ActsStand, RunsMove, ReqsStand, MailMoves DEF RunsMoved
    <3> QED
      BY <1>1, <3>1, GuardTyped, OthersTyped, WakeMoves, ResumesStand
      DEF TypeOK, ActRow, RunRow, RunPC, ReqRow, MailRow
  <2>2. Facts'
    BY <1>1, ActsStand, RunsStand, ReqsStand, ResumesStand DEF Facts
  <2> QED
    BY <1>1, <2>1, <2>2, WakeStaysTrue DEF Inv
<1>2. CASE Inv /\ UNCHANGED vars
  <2>1. TypeOK' /\ WakeIsTruth'
    BY <1>2 DEF vars, Inv, TypeOK, WakeIsTruth
  <2>2. Facts'
    BY <1>2 DEF vars, Inv, Facts, ActInv, ResInv, ReqInv, RunInv, RunsApart
  <2> QED
    BY <2>1, <2>2 DEF Inv
<1> QED
  BY <1>1, <1>2

\* Actions are decided once, workers and runs know where their action stands,
\* and runs have different actions, for any number of each.
THEOREM Invariance == Spec => []Inv
<1> QED
  BY InitInv, NextInv, PTL DEF Spec

\* Every variable of the conversation's Redis and PostgreSQL state stays in its
\* domain.
THEOREM TypeCorrect == Spec => []TypeOK
<1>1. Inv => TypeOK
  BY DEF Inv
<1> QED
  BY <1>1, Invariance, PTL

\* A waiting run (or a resumed stream) reads "approved" only once the execution
\* is committed and "rejected" only once the proposal is closed unexecuted.
THEOREM WakesAreTrue == Spec => []WakeIsTruth
<1>1. Inv => WakeIsTruth
  BY DEF Inv
<1> QED
  BY <1>1, Invariance, PTL

-----------------------------------------------------------------------------
(* Waiting for a decision *)

\* The run of the action goes on without it.
Leaves(a) ==
    \E q \in Run : run[q].act = a /\ run'[q].act = a /\ run'[q].pc \in {"stream", "ending", "done"}

\* The run of the action subscribes.
Subscribes(a) ==
    \E q \in Run : /\ run[q].act = a /\ run'[q].act = a
                   /\ run[q].pc = "hang" /\ run'[q].pc = "check"

\* A subscribed run stays subscribed and keeps its message; a decision that is
\* claimed meanwhile is delivered to it.
SubMove(a) ==
    \/ Leaves(a) \/ Subscribes(a)
    \/ /\ mail[a]["run"] # "off" => mail'[a]["run"] # "off"
       /\ mail[a]["run"] \in Decision => mail'[a]["run"] \in Decision
       /\ mail[a]["run"] # "off" => wake'[a] \in {wake[a], "none"} \/ mail'[a]["run"] \in Decision

\* The steps that pop the entry or unsubscribe.
LEMMA UnhangLeaves ==
    ASSUME Inv, NEW r \in Run,
           \/ GuardLost(r) /\ run[r].pc \in Busy
           \/ Woken(r) \/ HangTimeout(r) \/ Disconnect(r) \/ Die(r)
    PROVE  Leaves(run[r].act)
<1>1. {"stream", "ending", "done"} \subseteq RunPC
  BY DEF RunPC, Live
<1>2. CASE Die(r)
  <2>1. run'[r] = [run[r] EXCEPT !.pc = "done"]
    BY <1>2 DEF Die
  <2>2. run[r] \in RunRow
    BY DEF Inv, TypeOK, RunRow, RunPC
  <2>3. run'[r].pc = "done" /\ run'[r].act = run[r].act
    BY <2>1, <2>2 DEF RunRow
  <2> QED
    BY <2>3 DEF Leaves
<1>3. CASE GuardLost(r) \/ Disconnect(r)
  BY <1>1, <1>3, ToMoves DEF GuardLost, Disconnect, Leaves
<1>4. CASE Woken(r) \/ HangTimeout(r)
  <2>1. \E pc \in {"stream", "ending"} :
           To(r, pc) \/ run' = [run EXCEPT ![r].pc = pc, ![r].handoff = FALSE]
    BY <1>4 DEF Woken, HangTimeout
  <2> QED
    BY <1>1, <2>1, ToMoves, FreeMoves DEF Leaves
<1> QED
  BY <1>2, <1>3, <1>4

\* Publish/subscribe.
LEMMA SubMoves ==
    ASSUME Inv, Next, PubSub, NEW a \in Action
    PROVE  SubMove(a)
<1>1. mail \in [Action -> MailRow] /\ "run" \in Sub /\ "resume" \in Sub
  BY DEF Inv, TypeOK, MailRow, Sub
<1>2. CASE mail'[a]["run"] = mail[a]["run"] /\ wake'[a] \in {wake[a], "none"}
  BY <1>2 DEF SubMove
<1>3. CASE \A c \in Worker : ~Notify(c)
  <2>1. wake'[a] \in {wake[a], "none"}
    BY <1>3, WakeMoves DEF WakeMove
  <2>2. CASE mail' = mail
    BY <1>2, <2>1, <2>2
  <2>3. ASSUME NEW r \in Run, RunStep(r) PROVE SubMove(a)
    <3>1. run[r].pc \in Busy => run[r].act \in Action
      BY DEF Inv, Facts, RunInv
    <3>2. CASE Hang(r)
      <4>1. run'[r].pc = "check" /\ run'[r].act = run[r].act /\ run[r].pc = "hang"
        BY <3>2, ToMoves DEF Hang, RunPC, Live
      <4>2. MailSet(run[r].act, "run", "none") /\ run[r].act \in Action
        BY <3>1, <3>2 DEF Hang, MailSet, Busy
      <4>3. CASE a = run[r].act
        BY <4>1, <4>3 DEF SubMove, Subscribes
      <4>4. CASE a # run[r].act
        BY <1>1, <1>2, <2>1, <4>2, <4>4, MailPuts
      <4> QED
        BY <4>3, <4>4
    <3>3. CASE Die(r)
      <4>1. CASE a = run[r].act
        BY <3>3, <4>1, UnhangLeaves DEF SubMove
      <4>2. CASE a # run[r].act
        <5>1. mail'[a] = mail[a]
          BY <3>3, <4>2 DEF Die
        <5> QED
          BY <1>2, <2>1, <5>1
      <4> QED
        BY <4>1, <4>2
    <3>4. CASE Unhang(run[r].act) /\ ~Hang(r) /\ ~Die(r)
      <4>1. CASE mail' = mail
        BY <2>2, <4>1
      <4>2. CASE mail' # mail
        <5>1. /\ run[r].act \in Action
              /\ \/ GuardLost(r) /\ run[r].pc \in Busy
                 \/ Woken(r) \/ HangTimeout(r) \/ Disconnect(r) \/ Die(r)
          BY <2>3, <3>1, <3>4, <4>2 DEF RunStep, Admit, Acquire, Recheck, Begin, Heartbeat, GuardLost,
             CreatePending, Handoff, CreateAction, CreateFails, CheckMissed, Woken, Told, HangTimeout, Finish,
             Disconnect, channel, Busy
        <5>2. CASE a = run[r].act
          BY <5>1, <5>2, UnhangLeaves DEF SubMove
        <5>3. CASE a # run[r].act
          <6>1. MailSet(run[r].act, "run", "off")
            BY <3>4 DEF Unhang, MailSet
          <6> QED
            BY <1>1, <1>2, <2>1, <5>1, <5>3, <6>1, MailPuts
        <5> QED
          BY <5>2, <5>3
      <4> QED
        BY <4>1, <4>2
    <3>5. CASE ~Unhang(run[r].act) /\ ~Hang(r) /\ ~Die(r)
      <4>1. mail' = mail
        BY <2>3, <3>5 DEF RunStep, Admit, Acquire, Recheck, Begin, Heartbeat, GuardLost,
           CreatePending, Handoff, CreateAction, CreateFails, CheckMissed, Woken, HangTimeout, Finish,
           Disconnect, channel
      <4> QED
        BY <2>2, <4>1
    <3> QED
      BY <3>2, <3>3, <3>4, <3>5
  <2>4. ASSUME NEW c \in Worker, WorkerStep(c) PROVE mail' = mail
    BY <1>3, <2>4 DEF WorkerStep, Decide, ConfirmAgain, SweepRead, Settle, SweepSettle, Rebuild, CleanGuard,
       CleanEnvelope, Drop, channel
  <2>5. ASSUME NEW b \in Action, ActionStep(b) PROVE mail'[a]["run"] = mail[a]["run"]
    <3>1. mail' = mail \/ \E x \in {"off", "none"} : MailSet(b, "resume", x)
      BY <2>5 DEF ActionStep, Restart, Resume, ResumeSettled, ResumeClean, ResumeEnds, ResumeTimeout,
         WindowCloses, EnvelopeExpires, channel, MailSet
    <3> QED
      BY <1>1, <3>1, MailPuts
  <2>6. CASE LeaseExpires
    BY <2>2, <2>6 DEF LeaseExpires, channel
  <2> QED
    BY <1>2, <2>1, <2>2, <2>3, <2>4, <2>5, <2>6 DEF Next
<1>4. ASSUME NEW c \in Worker, Notify(c) PROVE SubMove(a)
  <2>1. req[c].act \in Action /\ req[c].dec \in Decision
    BY <1>4 DEF Notify, Inv, Facts, ReqInv
  <2>2. CASE a # req[c].act
    <3>1. mail'[a] = mail[a] /\ wake'[a] = wake[a]
      BY <1>1, <1>4, <2>1, <2>2 DEF Notify, Publish, Inv, TypeOK
    <3> QED
      BY <1>2, <3>1
  <2>3. CASE a = req[c].act /\ ~ClaimWake(a)
    <3>1. wake'[a] = wake[a]
      BY <1>4, <2>3 DEF Notify
    <3>2. mail'[a] = [s \in Sub |-> mail[a][s]]
      BY <1>1, <1>4, <2>1, <2>3 DEF Notify, Publish
    <3> QED
      BY <1>1, <1>2, <3>1, <3>2
  <2>4. CASE a = req[c].act /\ ClaimWake(a)
    <3>1. mail'[a] = [s \in Sub |-> IF mail[a][s] = "none" THEN req[c].dec ELSE mail[a][s]]
      BY <1>1, <1>4, <2>1, <2>4 DEF Notify, Publish
    <3>2. mail'[a]["run"] = IF mail[a]["run"] = "none" THEN req[c].dec ELSE mail[a]["run"]
      BY <1>1, <3>1
    <3>3. mail[a]["run"] \in Decision \cup {"off", "none"}
      BY <1>1 DEF MailRow
    <3> QED
      BY <2>1, <3>2, <3>3 DEF SubMove, Decision
  <2> QED
    BY <2>2, <2>3, <2>4
<1> QED
  BY <1>3, <1>4

\* A run keeps its subscription and its message.
LEMMA SubStands ==
    ASSUME Inv, Next, WaitInv, NEW r \in Run
    PROVE  SubInv(r)'
<1> SUFFICES ASSUME PubSub, run'[r].pc \in {"check", "wait"}
             PROVE  LET a == run'[r].act IN
                    /\ mail'[a]["run"] # "off"
                    /\ run'[r].pc = "wait" /\ wake'[a] # "none" /\ a \in env'
                         => mail'[a]["run"] \in Decision
  BY DEF SubInv
<1> DEFINE a == run'[r].act
<1>1. RunsMoved /\ RunInv(r)
  BY RunsMove DEF Inv, Facts
<1>2. /\ a \in Action /\ run[r].act = a
      /\ \/ run'[r].pc = run[r].pc
         \/ run[r].pc = "hang" /\ run'[r].pc = "check" /\ MailSet(a, "run", "none")
         \/ run[r].pc = "check" /\ run'[r].pc = "wait" /\ ~Claimed(a)
  <2>1. run'[r] = run[r] \/ (run'[r].act = run[r].act /\ PcMove(r))
    BY <1>1 DEF RunsMoved, RunMove
  <2>2. CASE run'[r] = run[r]
    BY <1>1, <2>2 DEF RunInv, Busy
  <2>3. CASE run'[r].act = run[r].act /\ PcMove(r)
    <3>1. /\ run[r].pc \in {"hang", "check"}
          /\ \/ run[r].pc = "hang" /\ run'[r].pc = "check" /\ MailSet(run[r].act, "run", "none")
             \/ run[r].pc = "check" /\ run'[r].pc = "wait" /\ ~Claimed(run[r].act)
      BY <2>3 DEF PcMove
    <3> QED
      BY <1>1, <2>3, <3>1 DEF RunInv, Busy
  <2> QED
    BY <2>1, <2>2, <2>3
<1>3. CASE run[r].pc = "hang"
  <2>1. MailSet(a, "run", "none") /\ "run" \in Sub
    BY <1>2, <1>3 DEF Sub
  <2>2. mail'[a]["run"] = "none"
    BY <1>2, <2>1, MailPuts
  <2> QED
    BY <1>2, <1>3, <2>2
<1>4. CASE run[r].pc \in {"check", "wait"}
  <2>1. /\ mail[a]["run"] # "off"
        /\ run[r].pc = "wait" /\ wake[a] # "none" /\ a \in env => mail[a]["run"] \in Decision
    BY <1>2, <1>4 DEF WaitInv, SubInv
  <2>2. \A q \in Run : run[q].act = a => q = r
    BY <1>2 DEF Inv, Facts, RunsApart
  <2>3. ~Leaves(a) /\ ~Subscribes(a) /\ ~Unknown(a)
    BY <1>2, <1>4, <2>2 DEF Leaves, Subscribes, Unknown
  <2>4. /\ mail'[a]["run"] # "off"
        /\ mail[a]["run"] \in Decision => mail'[a]["run"] \in Decision
        /\ wake'[a] \in {wake[a], "none"} \/ mail'[a]["run"] \in Decision
    BY <1>2, <2>1, <2>3, SubMoves DEF SubMove
  <2>5. a \in env' => a \in env
    BY <1>2, <2>3, WakeMoves DEF EnvMove
  <2> QED
    BY <1>2, <1>4, <2>1, <2>4, <2>5 DEF Claimed
<1> QED
  BY <1>2, <1>3, <1>4

\* Memory mode: the entry stays until its run leaves it, and a decision that
\* comes early is claimed in it.
EntryMove(a) ==
    /\ a \in entry => a \in entry' \/ Leaves(a) \/ \A q \in Run : run'[q].pc \notin Busy
    /\ a \in early' => \/ a \in early
                       \/ /\ act[a].status = "done"
                          /\ a \in entry => wake'[a] # "none"

\* Every step moves entries so.
LEMMA EntryMoves ==
    ASSUME Inv, Next, ~PubSub, NEW a \in Action
    PROVE  EntryMove(a)
<1>1. CASE entry' = entry /\ early' = early
  BY <1>1 DEF EntryMove
<1>2. ASSUME NEW r \in Run, RunStep(r) PROVE EntryMove(a)
  <2>1. early' = early
    BY <1>2 DEF RunStep, Admit, Acquire, Recheck, Begin, Heartbeat, GuardLost, CreatePending, Handoff,
       CreateAction, CreateFails, Hang, CheckMissed, Woken, HangTimeout, Finish, Disconnect, Die
  <2>2. CASE Die(r)
    <3>1. \A q \in Run : run'[q] = IF run[q].pc # "idle" THEN [run[q] EXCEPT !.pc = "done"] ELSE run[q]
      BY <2>2 DEF Die
    <3>2. \A q \in Run : run[q] \in RunRow
      BY DEF Inv, TypeOK, RunRow, RunPC
    <3>3. \A q \in Run : run'[q].pc \in {"idle", "done"}
      BY <3>1, <3>2 DEF RunRow
    <3> QED
      BY <2>1, <3>3 DEF EntryMove, Busy
  <2>3. CASE Unhang(run[r].act) /\ entry' # entry /\ ~Die(r)
    <3>1. \/ GuardLost(r) /\ run[r].pc \in Busy
          \/ Woken(r) \/ HangTimeout(r) \/ Disconnect(r) \/ Die(r)
          \/ \E b \in Action : CreatePending(r, b)
      BY <1>2, <2>3 DEF RunStep, Admit, Acquire, Recheck, Begin, Heartbeat, GuardLost,
         Handoff, CreateAction, CreateFails, CheckMissed, Hang, Finish, channel, Busy
    <3>2. CASE a = run[r].act /\ ~\E b \in Action : CreatePending(r, b)
      BY <2>1, <3>1, <3>2, UnhangLeaves DEF EntryMove
    <3>3. CASE a # run[r].act
      BY <2>1, <2>3, <3>3 DEF Unhang, EntryMove
    <3>4. CASE \E b \in Action : CreatePending(r, b)
      BY <2>1, <3>4 DEF CreatePending, EntryMove
    <3> QED
      BY <3>2, <3>3, <3>4
  <2>4. CASE ~(Unhang(run[r].act) /\ entry' # entry) /\ ~Die(r)
    <3>1. entry \subseteq entry'
      BY <1>2, <2>4 DEF RunStep, Admit, Acquire, Recheck, Begin, Heartbeat, GuardLost, CreatePending, Handoff,
         CreateAction, CreateFails, Hang, CheckMissed, Woken, HangTimeout, Finish, Disconnect, channel
    <3> QED
      BY <2>1, <3>1 DEF EntryMove
  <2> QED
    BY <2>2, <2>3, <2>4
<1>3. ASSUME NEW c \in Worker, WorkerStep(c) PROVE EntryMove(a)
  <2>1. CASE Notify(c)
    <3>1. /\ entry' = entry /\ act[req[c].act].status = "done" /\ req[c].dec \in Decision
          /\ a \in early' => a \in early \/ a = req[c].act
      BY <2>1 DEF Notify, Inv, Facts, ReqInv
    <3>2. a = req[c].act /\ a \in entry => wake'[a] # "none"
      BY <2>1, <3>1 DEF Notify, ClaimWake, Inv, TypeOK, Decision
    <3> QED
      BY <3>1, <3>2 DEF EntryMove
  <2>2. CASE ~Notify(c)
    <3>1. entry' = entry /\ early' = early
      BY <1>3, <2>2 DEF WorkerStep, Decide, ConfirmAgain, SweepRead, Settle, SweepSettle, Rebuild, CleanGuard,
         CleanEnvelope, Drop, channel
    <3> QED
      BY <1>1, <3>1
  <2> QED
    BY <2>1, <2>2
<1>4. ASSUME NEW b \in Action, ActionStep(b) PROVE EntryMove(a)
  <2>1. CASE Restart(b)
    BY <2>1 DEF Restart, EntryMove, Busy
  <2>2. CASE ~Restart(b)
    <3>1. entry' = entry /\ early' = early
      BY <1>4, <2>2 DEF ActionStep, Resume, ResumeSettled, ResumeClean, ResumeEnds, ResumeTimeout,
         WindowCloses, EnvelopeExpires, channel
    <3> QED
      BY <1>1, <3>1
  <2> QED
    BY <2>1, <2>2
<1>5. CASE LeaseExpires
  BY <1>1, <1>5 DEF LeaseExpires, channel
<1> QED
  BY <1>2, <1>3, <1>4, <1>5 DEF Next

\* A run keeps its entry and the decision in it.
LEMMA EntryStands ==
    ASSUME Inv, Next, WaitInv, NEW r \in Run
    PROVE  EntryInv(r)'
<1> SUFFICES ASSUME ~PubSub
             PROVE  LET a == run'[r].act IN
                    /\ run'[r].pc # "check"
                    /\ run'[r].pc \in Busy => a \in entry'
                    /\ run'[r].pc \in {"hang", "wait"} /\ a \in early' => wake'[a] # "none"
  BY DEF EntryInv
<1> DEFINE a == run'[r].act
<1>1. RunMove(r) /\ RunInv(r) /\ EntryInv(r)
  BY RunsMove DEF Inv, Facts, RunsMoved, WaitInv
<1>2. run'[r].pc # "check"
  BY <1>1 DEF RunMove, PcMove, EntryInv
<1>3. CASE run'[r].pc \in Busy /\ run'[r].act = run[r].act
  <2>1. /\ a \in Action /\ run[r].act = a /\ run[r].pc \in Busy
        /\ run'[r].pc = "hang" => run[r].pc \in {"hang", "create"}
        /\ run'[r].pc = "wait" => run[r].pc \in {"hang", "wait"}
    <3>1. CASE run'[r] = run[r]
      BY <1>1, <1>3, <3>1 DEF RunInv
    <3>2. CASE run'[r].act = run[r].act /\ PcMove(r)
      BY <1>1, <1>2, <1>3, <3>2 DEF RunInv, PcMove, Busy, EntryInv
    <3> QED
      BY <1>1, <1>3, <3>1, <3>2 DEF RunMove
  <2>2. \A q \in Run : run[q].act = a => q = r
    BY <2>1 DEF Inv, Facts, RunsApart
  <2>3. ~Leaves(a) /\ ~Unknown(a)
    BY <1>3, <2>1, <2>2 DEF Leaves, Unknown, Busy
  <2>4. a \in entry /\ a \in entry'
    BY <1>1, <1>3, <2>1, <2>3, EntryMoves DEF EntryMove, EntryInv
  <2>5. ASSUME run'[r].pc \in {"hang", "wait"}, a \in early' PROVE wake'[a] # "none"
    <3>1. a \in early => act[a].status = "done"
      BY DEF WaitInv
    <3>2. CASE run[r].pc = "create"
      BY <1>1, <2>1, <2>5, <3>1, <3>2, EntryMoves DEF EntryMove, RunInv, NoAct
    <3>3. CASE run[r].pc \in {"hang", "wait"} /\ a \in early
      <4>1. wake[a] # "none"
        BY <1>1, <2>1, <3>3 DEF EntryInv
      <4>2. \A c \in Worker : Notify(c) => req[c].dec # "none"
        BY DEF Notify, Inv, Facts, ReqInv, Decision
      <4> QED
        BY <2>1, <2>3, <4>1, <4>2, WakeMoves DEF WakeMove
    <3>4. CASE a \notin early
      BY <2>1, <2>4, <2>5, <3>4, EntryMoves DEF EntryMove
    <3> QED
      BY <2>1, <2>5, <3>2, <3>3, <3>4
  <2> QED
    BY <1>2, <2>4, <2>5
<1>4. CASE run'[r].pc \in Busy /\ run'[r].act # run[r].act
  <2>1. run'[r].pc = "handoff" /\ a \in entry'
    BY <1>1, <1>4 DEF RunMove
  <2> QED
    BY <2>1
<1>5. CASE run'[r].pc \notin Busy
  BY <1>2, <1>5 DEF Busy
<1> QED
  BY <1>3, <1>4, <1>5

\* What waiting rests on holds at the start and after every step.
LEMMA NextWaitInv == (Init => WaitInv) /\ (Inv /\ WaitInv /\ [Next]_vars => WaitInv')
<1>1. Init => WaitInv
  BY DEF Init, WaitInv, SubInv, EntryInv, IdleRun, Busy
<1>2. ASSUME Inv, WaitInv, Next PROVE WaitInv'
  <2>1. \A a \in early' : act'[a].status = "done"
    <3> SUFFICES ASSUME NEW a \in early' PROVE act'[a].status = "done"
      OBVIOUS
    <3>1. a \in Action
      BY <1>2, OthersTyped
    <3>2. a \in early \/ \E c \in Worker : Notify(c) /\ req[c].act = a
      <4>1. \A r \in Run : RunStep(r) => early' = early
        BY DEF RunStep, Admit, Acquire, Recheck, Begin, Heartbeat, GuardLost, CreatePending, Handoff,
           CreateAction, CreateFails, Hang, CheckMissed, Woken, HangTimeout, Finish, Disconnect, Die
      <4>2. \A c \in Worker : WorkerStep(c) => early' = early \/ (Notify(c) /\ early' \subseteq early \cup {req[c].act})
        BY DEF WorkerStep, Decide, ConfirmAgain, SweepRead, Settle, SweepSettle, Rebuild, Notify, CleanGuard,
           CleanEnvelope, Drop
      <4>3. \A b \in Action : ActionStep(b) => early' = early
        BY DEF ActionStep, Restart, Resume, ResumeSettled, ResumeClean, ResumeEnds, ResumeTimeout,
           WindowCloses, EnvelopeExpires
      <4> QED
        BY <1>2, <4>1, <4>2, <4>3 DEF Next, LeaseExpires
    <3>3. act[a].status = "done"
      BY <1>2, <3>2 DEF WaitInv, Notify, Inv, Facts, ReqInv
    <3> QED
      BY <1>2, <3>1, <3>3, ActsStand
  <2> QED
    BY <1>2, <2>1, SubStands, EntryStands DEF WaitInv
<1>3. WaitInv /\ UNCHANGED vars => WaitInv'
  BY DEF vars, WaitInv, SubInv, EntryInv
<1> QED
  BY <1>1, <1>2, <1>3

\* It holds in every reachable state.
LEMMA Waiting == Spec => []WaitInv
<1> QED
  BY InitInv, NextInv, NextWaitInv, PTL DEF Spec

\* SUBSCRIBE, then read the wake state: a decision claimed while the envelope (or
\* the entry) is there reaches the run that waits, whenever it was claimed.
THEOREM ClaimsAreSeen == Spec => []ClaimedIsSeen
<1>1. Inv /\ WaitInv => ClaimedIsSeen
  <2> SUFFICES ASSUME Inv, WaitInv, NEW r \in Run, run[r].pc = "wait", wake[run[r].act] # "none",
                      IF PubSub THEN run[r].act \in env ELSE run[r].act \in entry
               PROVE  Told(r)
    BY DEF ClaimedIsSeen
  <2>1. PubSub \in BOOLEAN
    BY ChatAssumption
  <2>2. CASE PubSub
    BY <2>2 DEF WaitInv, SubInv, Told
  <2>3. CASE ~PubSub
    BY <2>3 DEF Told
  <2> QED
    BY <2>1, <2>2, <2>3
<1> QED
  BY <1>1, Invariance, Waiting, PTL

\* Memory mode: a decision that arrives between create_pending and hang is seen
\* by the run once it waits; the entry is not popped by the wake-up.
THEOREM EarlyWakesAreSeen ==
    ASSUME ~PubSub
    PROVE  Spec => []WakeNotLost
<1>1. WaitInv => WakeNotLost
  BY DEF WaitInv, EntryInv, WakeNotLost, Told, Busy
<1> QED
  BY <1>1, Waiting, PTL

-----------------------------------------------------------------------------
(* One run at a time *)

\* An action is opened by its creator only.
Creates(r, a) ==
    /\ run[r].pc = "create" /\ run[r].act = a
    /\ run'[r].pc \in {"hang", "stream", "ending"}
    /\ act'[a].run = r

\* No step opens an action otherwise.
LEMMA OpenMoves ==
    ASSUME Inv, Next, NEW a \in Action
    PROVE  /\ Open(a)' => (Open(a) /\ act'[a].run = act[a].run) \/ \E r \in Run : Creates(r, a)
           /\ act'[a].status # "none" => \/ act[a].status # "none" /\ act'[a].run = act[a].run
                                         \/ \E r \in Run : Creates(r, a)
<1>1. late \subseteq late'
  <2>1. \A r \in Run : RunStep(r) => late' = late
    BY DEF RunStep, Admit, Acquire, Recheck, Begin, Heartbeat, GuardLost, CreatePending, Handoff,
       CreateAction, CreateFails, Hang, CheckMissed, Woken, HangTimeout, Finish, Disconnect, Die
  <2>2. \A c \in Worker : WorkerStep(c) => late' = late
    BY DEF WorkerStep, Decide, ConfirmAgain, SweepRead, Settle, SweepSettle, Rebuild, Notify, CleanGuard,
       CleanEnvelope, Drop
  <2>3. \A b \in Action : ActionStep(b) => late \subseteq late'
    BY DEF ActionStep, Restart, Resume, ResumeSettled, ResumeClean, ResumeEnds, ResumeTimeout,
       WindowCloses, EnvelopeExpires
  <2> QED
    BY <2>1, <2>2, <2>3 DEF Next, LeaseExpires
<1>2. act[a] \in ActRow /\ ActStep(a)
  BY ActsMove DEF ActsStep, Inv, TypeOK, ActRow
<1>3. CASE act'[a] = act[a]
  BY <1>1, <1>3 DEF Open
<1>4. CASE /\ act[a].status = "pending" /\ a \notin late
           /\ act'[a] = [act[a] EXCEPT !.status = "running", !.dec = "approved"]
  <2>1. act'[a].run = act[a].run
    BY <1>2, <1>4 DEF ActRow
  <2> QED
    BY <1>4, <2>1 DEF Open
<1>5. CASE /\ act[a].status # "none"
           /\ act'[a] = [act[a] EXCEPT !.status = "done", !.dec = IF @ = "none" THEN "rejected" ELSE @]
  <2>1. act'[a].status = "done" /\ act'[a].run = act[a].run
    BY <1>2, <1>5 DEF ActRow
  <2> QED
    BY <1>5, <2>1 DEF Open
<1>6. CASE \E r \in Run : /\ run[r].pc = "create" /\ run[r].act = a
                          /\ run'[r].pc \in {"hang", "stream", "ending"} /\ run'[r].act = a
                          /\ act'[a] = [status |-> "pending", dec |-> "none", run |-> r]
  BY <1>6 DEF Creates
<1> QED
  BY <1>2, <1>3, <1>4, <1>5, <1>6 DEF ActStep

\* The guard is taken by a run that has not begun, or rebuilt for one that has
\* asked already; a confirmation being set up keeps it.
GuardMove ==
    /\ \/ guard' \in {guard, None}
       \/ guard' \in Run /\ run'[guard'].pc = "owner"
       \/ run' = run /\ \E a \in Action : act[a].status # "none" /\ guard' = act[a].run
    /\ \A r \in Run : run[r].pc = "create" /\ run'[r].pc = "create" => guard' = r /\ lease' = "pending"

\* The two facts of the invariant that keep a guard.
Kept(r) ==
    /\ run[r].pc = "create" => guard = r /\ lease = "pending" /\ run[r].handoff
    /\ \A a \in Action : act[a].status # "none" /\ act[a].run = r => run[r].pc \notin {"handoff", "create"}

\* Every step moves the guard so.
LEMMA GuardMoves ==
    ASSUME Inv, GuardInv, Next
    PROVE  GuardMove
<1>1. guard \in Run \cup {None} /\ None \notin Run /\ \A r \in Run : Kept(r)
  BY ChatAssumption DEF Inv, TypeOK, Facts, RunInv, GuardInv, Kept
<1>2. CASE guard' = guard /\ lease' = lease
  BY <1>1, <1>2 DEF GuardMove, Kept
<1>3. ASSUME NEW q \in Run, Release(q), run[q].pc # "create"
      PROVE  GuardMove
  BY <1>1, <1>3 DEF GuardMove, Kept, Release
<1>4. ASSUME NEW r \in Run, RunStep(r) PROVE GuardMove
  <2>1. CASE Acquire(r)
    <3>1. CASE TakeGuard(r) /\ To(r, "owner")
      <4>1. run'[r].pc = "owner"
        BY <3>1, ToMoves DEF RunPC
      <4> QED
        BY <1>1, <3>1, <4>1 DEF TakeGuard, GuardMove, Kept
    <3> QED
      BY <1>2, <2>1, <3>1 DEF Acquire
  <2>2. CASE Recheck(r) \/ Begin(r) \/ Finish(r)
    BY <1>2, <1>3, <2>2 DEF Recheck, Begin, Finish
  <2>3. CASE Heartbeat(r)
    BY <1>1, <2>3 DEF Heartbeat, GuardMove, Kept
  <2>4. CASE Handoff(r)
    BY <1>1, <2>4 DEF Handoff, HandsOff, GuardMove, Kept
  <2>5. CASE CreateFails(r)
    <3>1. PICK pc \in {"stream", "ending"} : run' = [run EXCEPT ![r].pc = pc, ![r].handoff = FALSE]
      BY <2>5 DEF CreateFails
    <3>2. pc \in RunPC /\ pc # "create"
      BY DEF RunPC, Live
    <3>3. run'[r].pc # "create"
      BY <3>1, <3>2, FreeMoves
    <3> QED
      BY <1>1, <2>5, <3>3 DEF CreateFails, GuardMove, Kept
  <2>6. CASE ~Acquire(r) /\ ~Recheck(r) /\ ~Begin(r) /\ ~Finish(r) /\ ~Heartbeat(r) /\ ~Handoff(r) /\ ~CreateFails(r)
    <3>1. guard' = guard /\ lease' = lease
      BY <1>4, <2>6 DEF RunStep, Admit, GuardLost, CreatePending, CreateAction, Hang, CheckMissed, Woken,
         HangTimeout, Disconnect, Die, redis
    <3> QED
      BY <1>2, <3>1
  <2> QED
    BY <2>1, <2>2, <2>3, <2>4, <2>5, <2>6
<1>5. ASSUME NEW a \in Action, act[a].status # "none"
      PROVE  act[a].run \in Run /\ run[act[a].run].pc # "create"
  BY <1>1, <1>5 DEF Kept, Inv, Facts, ActInv
<1>6. ASSUME NEW c \in Worker, WorkerStep(c) PROVE GuardMove
  <2>1. req[c].pc # "idle" => req[c].act \in Action /\ act[req[c].act].status # "none"
    BY DEF Inv, Facts, ReqInv
  <2>2. CASE Rebuild(c)
    <3>1. /\ act[req[c].act].status # "none" /\ run' = run /\ req[c].act \in Action
          /\ \/ guard' = guard /\ lease' = lease
             \/ guard = None /\ guard' = act[req[c].act].run
      BY <2>1, <2>2 DEF Rebuild
    <3>2. CASE guard = None /\ guard' = act[req[c].act].run
      BY <1>1, <3>1, <3>2 DEF GuardMove, Kept
    <3> QED
      BY <1>2, <3>1, <3>2
  <2>3. CASE CleanGuard(c)
    BY <1>3, <1>5, <2>1, <2>3 DEF CleanGuard
  <2>4. CASE ~Rebuild(c) /\ ~CleanGuard(c)
    <3>1. guard' = guard /\ lease' = lease
      BY <1>6, <2>4 DEF WorkerStep, Decide, ConfirmAgain, SweepRead, Settle, SweepSettle, Notify,
         CleanEnvelope, Drop, redis
    <3> QED
      BY <1>2, <3>1
  <2> QED
    BY <2>2, <2>3, <2>4
<1>7. ASSUME NEW a \in Action, ActionStep(a) PROVE GuardMove
  <2>1. CASE Restart(a)
    BY <1>1, <2>1 DEF Restart, GuardMove, Kept
  <2>2. CASE ResumeClean(a)
    <3>1. act[a].status # "none"
      BY <2>2 DEF ResumeClean, Inv, Facts, ResInv
    <3> QED
      BY <1>3, <1>5, <2>2, <3>1 DEF ResumeClean
  <2>3. CASE ~Restart(a) /\ ~ResumeClean(a)
    <3>1. guard' = guard /\ lease' = lease
      BY <1>7, <2>3 DEF ActionStep, Resume, ResumeSettled, ResumeEnds, ResumeTimeout, WindowCloses,
         EnvelopeExpires, redis
    <3> QED
      BY <1>2, <3>1
  <2> QED
    BY <2>1, <2>2, <2>3
<1>8. CASE LeaseExpires
  BY <1>1, <1>8 DEF LeaseExpires, GuardMove, Kept
<1> QED
  BY <1>4, <1>6, <1>7, <1>8 DEF Next

\* A run asks once, and the guard admits no other run's action meanwhile.
LEMMA NextGuardInv ==
    ASSUME Inv, GuardInv, Next, MaxTools <= 1
    PROVE  GuardInv'
<1>1. /\ RunsMoved /\ GuardMove
      /\ \A r \in Run : RunMove(r) /\ run[r] \in RunRow /\ run'[r] \in RunRow
  BY RunsMove, GuardMoves DEF RunsMoved, Inv, TypeOK, RunRow, RunPC
<1>2. MaxTools \in Nat /\ \A r \in Run : run[r].tools \in Nat
  BY <1>1, ChatAssumption DEF RunRow
<1>3. ASSUME NEW r \in Run
      PROVE  /\ run'[r].pc \in {"idle", "admitted", "owner"} => run'[r].tools = 0
             /\ run'[r].pc \in Busy => run'[r].tools = 1
             /\ run[r].tools = 1 => run'[r].tools = 1
             /\ run[r].tools = 1 /\ run[r].pc \notin {"handoff", "create"} => run'[r].pc \notin {"handoff", "create"}
  <2>1. CASE run'[r] = run[r]
    BY <2>1 DEF GuardInv
  <2>2. CASE run'[r].act = run[r].act /\ run'[r].tools = run[r].tools /\ PcMove(r)
    BY <2>2 DEF GuardInv, PcMove, Busy
  <2>3. CASE run[r].tools < MaxTools /\ run'[r].pc = "handoff" /\ run'[r].tools = run[r].tools + 1
    <3>1. run[r].tools = 0 /\ run'[r].tools = 1
      BY <1>2, <2>3
    <3> QED
      BY <2>3, <3>1
  <2> QED
    BY <1>1, <2>1, <2>2, <2>3 DEF RunMove
<1>4. \A r \in Run, a \in Action : Creates(r, a) =>
        /\ guard = r /\ ~InProgress
        /\ run'[r].tools = 1 /\ run'[r].pc \notin {"handoff", "create"}
  BY <1>3 DEF Creates, GuardInv, Candidate, Busy
<1>5. ASSUME NEW a \in Action, act'[a].status # "none"
      PROVE  run'[act'[a].run].tools = 1 /\ run'[act'[a].run].pc \notin {"handoff", "create"}
  <2>1. CASE act[a].status # "none" /\ act'[a].run = act[a].run
    <3>1. act[a].run \in Run /\ run[act[a].run].tools = 1 /\ run[act[a].run].pc \notin {"handoff", "create"}
      BY <2>1 DEF GuardInv, Inv, Facts, ActInv
    <3> QED
      BY <1>3, <2>1, <3>1
  <2>2. CASE \E r \in Run : Creates(r, a)
    BY <1>4, <2>2 DEF Creates
  <2> QED
    BY <1>5, <2>1, <2>2, OpenMoves
<1>6. ASSUME NEW r \in Run, run'[r].pc = "create" PROVE guard' = r /\ lease' = "pending"
  <2>1. CASE run[r].pc = "create"
    BY <1>1, <1>6, <2>1 DEF GuardMove
  <2>2. CASE run[r].pc # "create"
    BY <1>1, <1>6, <2>2 DEF RunMove, PcMove
  <2> QED
    BY <2>1, <2>2
<1>7. ASSUME NEW r \in Run, Candidate(r)', guard' = r PROVE ~InProgress'
  <2>1. guard = r
    <3>1. CASE guard' \in {guard, None}
      BY <1>7, <3>1, ChatAssumption
    <3>2. CASE run'[guard'].pc = "owner"
      BY <1>7, <3>2 DEF Candidate
    <3>3. CASE run' = run /\ \E a \in Action : act[a].status # "none" /\ guard' = act[a].run
      BY <1>7, <3>3 DEF Candidate, GuardInv
    <3> QED
      BY <1>1, <3>1, <3>2, <3>3 DEF GuardMove
  <2>2. ~InProgress
    <3>1. CASE run'[r] = run[r]
      BY <1>7, <2>1, <3>1 DEF Candidate, GuardInv
    <3>2. CASE run'[r].act = run[r].act /\ run'[r].tools = run[r].tools /\ PcMove(r)
      BY <1>7, <2>1, <3>2 DEF Candidate, GuardInv, PcMove, Busy
    <3>3. CASE run[r].pc = "stream" /\ run[r].tools < MaxTools
      <4>1. run[r].tools = 0
        BY <1>2, <3>3
      <4> QED
        BY <2>1, <3>3, <4>1 DEF Candidate, GuardInv
    <3> QED
      BY <1>1, <3>1, <3>2, <3>3 DEF RunMove
  <2>3. ASSUME NEW a \in Action, Open(a)' PROVE FALSE
    <3>1. \E q \in Run : Creates(q, a)
      BY <2>2, <2>3, OpenMoves DEF InProgress
    <3>2. Creates(r, a)
      BY <1>4, <2>1, <3>1
    <3> QED
      BY <1>4, <1>7, <3>2 DEF Candidate
  <2> QED
    BY <2>3 DEF InProgress
<1>8. OneRunActs'
  <2> SUFFICES ASSUME NEW a \in Action, NEW b \in Action, Open(a)', Open(b)'
               PROVE  act'[a].run = act'[b].run
    BY DEF OneRunActs
  <2>1. \A c \in {a, b} : (Open(c) /\ act'[c].run = act[c].run) \/ \E r \in Run : Creates(r, c)
    BY OpenMoves
  <2>2. CASE Open(a) /\ act'[a].run = act[a].run /\ Open(b) /\ act'[b].run = act[b].run
    BY <2>2 DEF GuardInv, OneRunActs
  <2>3. ASSUME NEW c \in {a, b}, NEW r \in Run, Creates(r, c) PROVE act'[a].run = act'[b].run
    <3>1. guard = r /\ ~InProgress
      BY <1>4, <2>3
    <3>2. \A d \in {a, b} : Creates(r, d)
      BY <1>4, <2>1, <3>1 DEF InProgress
    <3> QED
      BY <3>2 DEF Creates
  <2> QED
    BY <2>1, <2>2, <2>3
<1> QED
  BY <1>3, <1>5, <1>6, <1>7, <1>8 DEF GuardInv

\* The guard and the two checks of POST /ai/chat: two runs never have actions
\* open at the same time, whatever leases run out and processes die, when a run
\* asks for one confirmation at most.
THEOREM OnlyOneRunActs ==
    ASSUME MaxTools <= 1
    PROVE  Spec => []OneRunActs
<1>1. Init => GuardInv
  BY ChatAssumption DEF Init, GuardInv, Candidate, OneRunActs, Open, IdleRun, NoAct, Busy
<1>2. Inv /\ GuardInv /\ [Next]_vars => GuardInv'
  <2>1. Inv /\ GuardInv /\ Next => GuardInv'
    BY NextGuardInv
  <2>2. GuardInv /\ UNCHANGED vars => GuardInv'
    BY DEF vars, GuardInv, Candidate, InProgress, OneRunActs, Open
  <2> QED
    BY <2>1, <2>2
<1>3. GuardInv => OneRunActs
  BY DEF GuardInv
<1> QED
  BY <1>1, <1>2, <1>3, InitInv, NextInv, PTL DEF Spec
=============================================================================
