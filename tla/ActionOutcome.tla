---------------------------- MODULE ActionOutcome ----------------------------
(***************************************************************************)
(* What the confirmation protocol promises of a write action, without      *)
(* transactions, locks, leases or processes: it is proposed once, and then *)
(* either closed unexecuted, or claimed once and settled once, where the   *)
(* business effect happens in the very step that records the success.      *)
(***************************************************************************)
EXTENDS Naturals

CONSTANT Write

VARIABLES
    outcome,  \* what the record says
    effect    \* how often the business change was made

Init ==
    /\ outcome = [a \in Write |-> "absent"]
    /\ effect = [a \in Write |-> 0]

Move(a, from, to) ==
    /\ outcome[a] = from
    /\ outcome' = [outcome EXCEPT ![a] = to]

Propose(a) == Move(a, "absent", "pending") /\ UNCHANGED effect

Claim(a) == Move(a, "pending", "running") /\ UNCHANGED effect

Reject(a) == Move(a, "pending", "rejected") /\ UNCHANGED effect

\* Deleting the conversation closes all its pending actions at once.
Expire(S) ==
    /\ \A a \in S : outcome[a] = "pending"
    /\ outcome' = [a \in Write |-> IF a \in S THEN "expired" ELSE outcome[a]]
    /\ UNCHANGED effect

Succeed(a) ==
    /\ Move(a, "running", "succeeded")
    /\ effect' = [effect EXCEPT ![a] = @ + 1]

Fail(a) == Move(a, "running", "failed") /\ UNCHANGED effect

Next ==
    \/ \E a \in Write : Propose(a) \/ Claim(a) \/ Reject(a) \/ Succeed(a) \/ Fail(a)
    \/ \E S \in SUBSET Write : Expire(S)

Spec == Init /\ [][Next]_<<outcome, effect>>
=============================================================================
