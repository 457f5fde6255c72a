------------------------------ MODULE ToolQuota ------------------------------
(***************************************************************************)
(* Capacity checks of one user's write tools in the gateway: five levels   *)
(* (user window, tenant window, day, day of the agent, conversation), each *)
(* reserved with a command of its own, and the guard against repeated      *)
(* failures (src/app/modules/ai/agents/gateway/quota.py, failures.py and   *)
(* execute_tool of executor.py).                                           *)
(*                                                                         *)
(* The windows are sorted sets of one member per call, the other levels    *)
(* are counters: a call increments, compares, and decrements when it was   *)
(* one too many.  The keys of the day carry the date of the moment they    *)
(* are used.                                                               *)
(***************************************************************************)
EXTENDS Integers, FiniteSets, Sequences

CONSTANTS Call,       \* concurrent and successive tool calls
          Limit,      \* the limit of each level
          Threshold,  \* failures after which equal calls are refused
          MaxDay      \* bound: days

Levels == <<"user", "tenant", "day", "agent", "conv">>
Windows == {"user", "tenant"}
Daily == {"day", "agent"}

VARIABLES
  day,      \* UTC date
  window,   \* members of the sorted sets
  count,    \* counters: by level and, for the daily ones, by date
  fails,    \* failure counter of the (tool, arguments) pair
  call,     \* state of each call: level reached, step, date of its counters
  crossed   \* refunds that were taken from another date than they were paid

vars == <<day, window, count, fails, call, crossed>>

Key(l, d) == IF l \in Daily THEN <<l, d>> ELSE <<l, 0>>
Keys == {<<l, d>> : l \in Daily, d \in 0..MaxDay} \cup {<<"conv", 0>>}

Init ==
  /\ day = 0 /\ window = [l \in Windows |-> {}]
  /\ count = [k \in Keys |-> 0] /\ fails = 0
  /\ call = [c \in Call |-> [at |-> "idle", level |-> 1, paid |-> 0]]
  /\ crossed = [d \in 0..MaxDay |-> 0]

\* The limit a check resolves; the tenant's window and the conversation's
\* budget are off at 0.
LimitOf(l) ==
  IF l \in {"tenant", "conv"} /\ Limit[l] = 0 THEN Cardinality(Call) ELSE Limit[l]

Level(c) == Levels[call[c].level]
Goto(c, at) == call' = [call EXCEPT ![c].at = at]

Begin(c) ==
  /\ call[c].at = "idle" /\ Goto(c, "reserve")
  /\ UNCHANGED <<day, window, count, fails, crossed>>

\* mutant: a day's counter is read before it is incremented
TakenBefore(c) == IF Level(c) \in Windows
                  THEN Cardinality(window[Level(c)] \cup {c})
                  ELSE count[Key(Level(c), day)]

\* The number the Lua script or the MULTI block returns.
Taken(c) == IF Level(c) \in Windows
            THEN Cardinality(window[Level(c)] \cup {c})
            ELSE count[Key(Level(c), day)] + 1

\* Reserve one level.  A call over the limit still holds what it took until
\* its next command.
Reserve(c, l) ==
  /\ call[c].at = "reserve" /\ Level(c) = l
  /\ IF l \in Windows
     THEN /\ window' = [window EXCEPT ![l] = @ \cup {c}]
          /\ UNCHANGED count
     ELSE /\ count' = [count EXCEPT ![Key(l, day)] = @ + 1]
          /\ UNCHANGED window
  /\ call' = [call EXCEPT ![c] =
       IF Taken(c) > LimitOf(l) THEN [@ EXCEPT !.at = "over", !.paid = day]
       ELSE IF @.level < Len(Levels)
            THEN [@ EXCEPT !.level = call[c].level + 1,
                           !.paid = IF l = "day" THEN day ELSE call[c].paid]
       ELSE [@ EXCEPT !.at = "guard"]]
  /\ UNCHANGED <<day, fails, crossed>>

CheckL1User(c) == Reserve(c, "user")
CheckL1Global(c) == Reserve(c, "tenant")
CheckL2Daily(c) == Reserve(c, "day")
CheckL2Agent(c) == Reserve(c, "agent")
CheckL4(c) == Reserve(c, "conv")

\* The refused level is given back, to the key it was taken from; the levels
\* before it are not.
Refuse(c) ==
  LET l == Level(c) IN
  /\ call[c].at = "over"
  /\ IF l \in Windows
     THEN /\ window' = [window EXCEPT ![l] = @ \ {c}]
          /\ UNCHANGED count
     ELSE /\ count' = [count EXCEPT ![Key(l, call[c].paid)] = @ - 1]
          /\ UNCHANGED window
  /\ Goto(c, "refused")
  /\ UNCHANGED <<day, fails, crossed>>

\* Redis fails or the process dies between two commands of a call: nothing is
\* given back, and the tool is not run.
Lose(c) ==
  /\ call[c].at \in {"reserve", "over"} /\ Goto(c, "refused")
  /\ UNCHANGED <<day, window, count, fails, crossed>>

\* check_repeated_failure
Guard(c) ==
  /\ call[c].at = "guard"
  /\ Goto(c, IF fails >= Threshold THEN "refused" ELSE "running")
  /\ UNCHANGED <<day, window, count, fails, crossed>>

\* The tool succeeds: clear_failures.
Succeed(c) ==
  /\ call[c].at = "running" /\ Goto(c, "done") /\ fails' = 0
  /\ UNCHANGED <<day, window, count, crossed>>

\* The tool fails or times out (with_l3_timeout): record_failure.
Fail(c) ==
  /\ call[c].at = "running" /\ Goto(c, "done") /\ fails' = fails + 1
  /\ UNCHANGED <<day, window, count, crossed>>

\* The counters decr_quota leaves: those of the date of the refund.
Refunded ==
  [k \in Keys |-> IF k \in {<<"day", day>>, <<"agent", day>>, <<"conv", 0>>}
                  THEN count[k] - 1 ELSE count[k]]

\* An AuthorizationException of the dry run, of the set-up or of the tool:
\* the call must not cost anything.
Deny(c) ==
  /\ call[c].at = "running" /\ Goto(c, "refused")
  /\ window' = [l \in Windows |-> window[l] \ {c}]
  /\ count' = Refunded
  /\ crossed' = [crossed EXCEPT ![day] = @ + (IF call[c].paid # day THEN 1 ELSE 0)]
  /\ UNCHANGED <<day, fails>>

\* A minute passes for a member of a window, midnight for everybody; the
\* failure counter expires.
Slide(l) ==
  /\ \E c \in window[l] : window' = [window EXCEPT ![l] = @ \ {c}]
  /\ UNCHANGED <<day, count, fails, call, crossed>>

Midnight ==
  /\ day < MaxDay /\ day' = day + 1
  /\ UNCHANGED <<window, count, fails, call, crossed>>

Forget ==
  /\ fails > 0 /\ fails' = 0
  /\ UNCHANGED <<day, window, count, call, crossed>>

Next ==
  \/ \E c \in Call : \/ Begin(c) \/ CheckL1User(c) \/ CheckL1Global(c)
                     \/ CheckL2Daily(c) \/ CheckL2Agent(c) \/ CheckL4(c)
                     \/ Refuse(c) \/ Lose(c)
                     \/ Guard(c) \/ Succeed(c) \/ Fail(c) \/ Deny(c)
  \/ \E l \in Windows : Slide(l)
  \/ Midnight \/ Forget

Spec == Init /\ [][Next]_vars

(***************************************************************************)
(* Properties                                                              *)
(***************************************************************************)

Admitted(d) == {c \in Call : call[c].at \in {"running", "done"} /\ call[c].paid = d}

\* The day's limit bounds the calls that are run on its account although
\* reservation, comparison and refund are separate commands of concurrent
\* calls; only a refund that crosses midnight, which is taken from the new
\* date, can admit one more.
AdmittedWithinLimit ==
  \A d \in 0..MaxDay : Cardinality(Admitted(d)) <= Limit["day"] + crossed[d]

\* What the suite checks of this component and AssistantProofs proves of it.
QuotaHolds == AdmittedWithinLimit
=============================================================================
