---------------------------- MODULE MCAssistant ----------------------------
(***************************************************************************)
(* The assistant suite: small instances of the components around a chat    *)
(* turn, its tool calls and its results, and of the services the assistant *)
(* works with: model policies, settings, stored files and the schedule.    *)
(* The confirmation protocol, the run guard and the job runner have suites *)
(* of their own.                                                           *)
(*                                                                         *)
(* A behaviour picks one component (part) and moves only that one; all use *)
(* the variables s1, s2, ... in turn for theirs, as in MCAdministration.   *)
(***************************************************************************)
EXTENDS Integers, Sequences, FiniteSets, TLC

CONSTANTS Call,     \* three concurrent calls, of tools or of a provider
          Request,  \* two concurrent requests, of whatever kind, or two jobs
          Subject,  \* business rows a tool can name
          Limit, Threshold, MaxDay,              \* of the quotas
          Slots, Address, Allowed, MaxCalls,     \* of the provider pool
          Resume,                                \* resumes of one confirmation
          MaxTurns, MaxRevokes,                  \* of the results shown
          Question, MaxRoutes, MaxEvents, MaxText,   \* of the chat stream
          Provider, Model, Home, MaxPolicies,    \* of the model policies
          Trigger, MaxJobs, MaxStarts,           \* of the schedule
          Assign, Proc, Reader, MaxSaves, MaxConfig,   \* of the settings
          Export, AiExport, Upload, MaxCrashes   \* of the stored files

\* Two calls a day, but one for the daily level.
TwoCalls == [level \in {"user", "tenant", "day", "agent", "conv"} |->
               IF level = "day" THEN 1 ELSE 2]

OneProvider == [m \in Model |-> "p1"]

\* Finitely many calls against numbers: of the day's limit, of days, of slots.
ASSUME CallBounds == IsFiniteSet(Call) /\ Limit["day"] \in Nat /\ MaxDay \in Nat
                     /\ Slots \in Nat /\ MaxCalls \in Nat

\* The turns of a conversation are numbered from one.
ASSUME TurnBounds == MaxTurns \in Nat

\* Whoever locks a row of the settings can be told from everybody else.
ASSUME SettingBounds == "free" \notin Request \cup Assign /\ Request \cap Assign = {}

\* Every model has a provider.
ASSUME PolicyBounds == Home \in [Model -> Provider] /\ MaxPolicies \in Nat

VARIABLES part, s1, s2, s3, s4, s5, s6, s7, s8, s9, s10, s11, s12, s13, s14,
          s15, s16, s17

from16 == <<s16, s17>>
from13 == <<s13, s14, s15, from16>>
from10 == <<s10, s11, s12, from13>>
from9 == <<s9, from10>>
from8 == <<s8, from9>>
from7 == <<s7, from8>>
from5 == <<s5, s6, from7>>
vars == <<part, s1, s2, s3, s4, from5>>

Quota == INSTANCE ToolQuota WITH
  day <- s1, window <- s2, count <- s3, fails <- s4, call <- s5, crossed <- s6

Gateway == INSTANCE ToolGateway WITH
  Call <- Request,
  call <- s1, log <- s2, child <- s3, act <- s4, batch <- s5, allowed <- s6,
  deleted <- s7

Projection == INSTANCE ResultProjection WITH
  Turn <- 1..MaxTurns, MaxChanges <- MaxRevokes,
  auth <- s1, rows <- s2, closed <- s3, run <- s4, msg <- s5, act <- s6,
  copy <- s7, changes <- s8

Egress == INSTANCE ProviderEgress WITH
  call <- s1, free <- s2, dns <- s3, made <- s4

Stream == INSTANCE TurnStream WITH
  Turn <- Question, Limit <- MaxRoutes,
  turn <- s1, flagged <- s2, counted <- s3, log <- s4, guard <- s5, saved <- s6,
  io <- s7

Resuming == INSTANCE ResumeStream WITH
  mode <- s1, act <- s2, approved <- s3, alive <- s4, shown <- s5, notice <- s6,
  hot <- s7, window <- s8, lock <- s9, guard <- s10, req <- s11, told <- s12

Policies == INSTANCE ModelPolicy WITH
  MaxChanges <- MaxPolicies,
  provider <- s1, model <- s2, policy <- s3, req <- s4, held <- s5, changes <- s6

Schedule == INSTANCE JobSchedule WITH
  Admin <- Request, Job <- Request, MaxChanges <- MaxJobs,
  table <- s1, sched <- s2, channel <- s3, listening <- s4, loading <- s5,
  admin <- s6, unheard <- s7, changes <- s8, starts <- s9

Settings == INSTANCE SystemSettings WITH
  Admin <- Request,
  stored <- s1, tenantLock <- s2, rowLock <- s3, desk <- s4, assign <- s5,
  cache <- s6, held <- s7, fetched <- s8, applied <- s9, config <- s10,
  shared <- s11, reading <- s12, evicting <- s13, late <- s14, saves <- s15

Files == INSTANCE StoredFiles WITH
  Worker <- Request,
  task <- s1, old <- s2, settled <- s3, manifest <- s4, payload <- s5,
  lockfile <- s6, job <- s7, reply <- s8, pass <- s9, row <- s10, listed <- s11,
  disk <- s12, adding <- s13, removing <- s14, begun <- s15, viewing <- s16,
  crashes <- s17

\* The values of the variables that the chosen component does not need.
Idle4 == s5 = 0 /\ s6 = 0
Idle6 == s7 = 0
Idle7 == s8 = 0
Idle8 == s9 = 0
Idle9 == s10 = 0 /\ s11 = 0 /\ s12 = 0
Idle12 == s13 = 0 /\ s14 = 0 /\ s15 = 0
Idle15 == s16 = 0 /\ s17 = 0
After12 == Idle12 /\ Idle15
After8 == Idle8 /\ Idle9 /\ After12
After6 == Idle6 /\ Idle7 /\ After8

Init ==
  \/ part = "files" /\ Files!Init
  \/ part = "settings" /\ Settings!Init /\ Idle15
  \/ part = "resume" /\ Resuming!Init /\ After12
  \/ part = "schedule" /\ Schedule!Init /\ Idle9 /\ After12
  \/ part = "projection" /\ Projection!Init /\ After8
  \/ part = "gateway" /\ Gateway!Init /\ Idle7 /\ After8
  \/ part = "stream" /\ Stream!Init /\ Idle7 /\ After8
  \/ part = "quota" /\ Quota!Init /\ After6
  \/ part = "policies" /\ Policies!Init /\ After6
  \/ part = "egress" /\ Egress!Init /\ Idle4 /\ After6

Next ==
  /\ UNCHANGED part
  /\ \/ part = "files" /\ Files!Next
     \/ part = "settings" /\ Settings!Next /\ UNCHANGED from16
     \/ part = "resume" /\ Resuming!Next /\ UNCHANGED from13
     \/ part = "schedule" /\ Schedule!Next /\ UNCHANGED from10
     \/ part = "projection" /\ Projection!Next /\ UNCHANGED from9
     \/ part = "gateway" /\ Gateway!Next /\ UNCHANGED from8
     \/ part = "stream" /\ Stream!Next /\ UNCHANGED from8
     \/ part = "quota" /\ Quota!Next /\ UNCHANGED from7
     \/ part = "policies" /\ Policies!Next /\ UNCHANGED from7
     \/ part = "egress" /\ Egress!Next /\ UNCHANGED from5

Spec == Init /\ [][Next]_vars

Symmetry == Permutations(Call) \cup Permutations(Request)

-----------------------------------------------------------------------------
\* A day's limit bounds the calls run on its account however the counting
\* commands of concurrent calls interleave, except for refunds that were taken
\* from the next day's counter (gateway/quota.py).
QuotaHolds == part = "quota" => Quota!QuotaHolds

\* An import preview's answer is true of what was committed although replies
\* get lost, and a deleted conversation sees no new batch, audit row or action
\* (gateway/executor.py, preview_execution.py).
GatewayHolds ==
  /\ [](part = "gateway" => Gateway!PreviewAnswerIsTrue)
  /\ [][part = "gateway" => Gateway!DeletedIsClosed]_vars

\* A result is shown, cached, downloaded or given to the model only when all
\* it was derived from is still permitted to the reader
\* (result_projection_service.py).
ProjectionHolds == part = "projection" => Projection!NothingRevokedIsShown

\* Slots of the provider pool are returned once, and a call stays with the
\* address that was checked (provider_egress.py).
EgressHolds == part = "egress" => Egress!TypeOK /\ Egress!SlotsAndPinsHold

\* A turn that ends with "done" showed and saved everything its tools and its
\* model produced (api/chat.py).
StreamHolds == part = "stream" => Stream!DoneMeansWhole

\* What a resumed stream tells is true of the action, and a notice of an
\* unknown outcome gives way to the receipt (gateway/resume.py).
ResumeHolds ==
  part = "resume" => Resuming!ResumedIsTrue /\ Resuming!NoticeYieldsToReceipt

\* Saving a tenant's model policies overwrites no grant its administrator did
\* not see, and no policy goes with a deleted model or provider
\* (tenant_model_policy_admin_service.py, model_service.py).
PoliciesHold ==
  /\ [](part = "policies" => Policies!TypeOK)
  /\ [][part = "policies" => Policies!SaveIsCurrent /\ Policies!GrantsSurvive]_vars

\* Every change of a job reaches the scheduler's process, or the next start
\* makes up for it (core/scheduler.py).
ScheduleHolds == part = "schedule" => Schedule!ScheduleCatchesUp

\* No save of settings overwrites one it did not see, departments are judged by
\* the policy in force, and an old configuration is served only by an
\* overtaken reader (settings_service.py, core/cache.py).
SettingsHold ==
  /\ [](part = "settings" => Settings!StaleConfigIsLate)
  /\ [][part = "settings" => Settings!NoLostSave /\ Settings!JudgedByPolicyInForce]_vars

\* A row of an export or upload that can be downloaded has its file on disk,
\* whatever the retention task and crashes do (user_export_service.py).
FilesHold == part = "files" => Files!RowsHaveFiles
=============================================================================
