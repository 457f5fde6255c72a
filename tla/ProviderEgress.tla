--------------------------- MODULE ProviderEgress ---------------------------
(***************************************************************************)
(* The transport every model call goes through: it validates and resolves  *)
(* the destination, takes one of a bounded number of slots, sends the      *)
(* request to the address it validated, and hands the response's stream to *)
(* the client.  The slot is held until the stream is read to its end,      *)
(* fails, or is closed.                                                    *)
(*                                                                         *)
(* Abstracted: addresses are allowed or not; time is the choice of a       *)
(* timeout wherever the code awaits with the call's deadline.              *)
(***************************************************************************)
EXTENDS Naturals, FiniteSets

CONSTANTS Call, Slots,
          Address, Allowed,  \* addresses of the host, and those policy allows
          MaxCalls           \* bound: calls made in one behaviour

VARIABLES call,   \* each call's progress and the address it is pinned to
          free,   \* slots left in the semaphore
          dns,    \* what the host name resolves to now
          made    \* calls made so far
vars == <<call, free, dns, made>>

Nowhere == "nowhere"
Fresh == [pc |-> "idle", at |-> Nowhere, released |-> FALSE]

Init == /\ call = [c \in Call |-> Fresh]
        /\ free = Slots
        /\ dns \in Address
        /\ made = 0

To(c, pc) == call' = [call EXCEPT ![c].pc = pc]

Start(c) == /\ call[c].pc = "idle" /\ made < MaxCalls
            /\ To(c, "validate")
            /\ made' = made + 1
            /\ UNCHANGED <<free, dns>>

\* The name's owner may change it at any time.
Rebind == \E a \in Address : dns' = a /\ UNCHANGED <<call, free, made>>

\* The address the request is sent to.
\* mutant: the connection resolves the name once more
ResolvedAgain(c) == dns
Pinned(c) == call[c].at

Validate(c) ==
  /\ call[c].pc = "validate"
  /\ call' = [call EXCEPT ![c].pc = IF dns \in Allowed THEN "wait" ELSE "over",
                          ![c].at = dns]
  /\ UNCHANGED <<free, dns, made>>

\* The deadline passes, the policy refuses, or the caller is cancelled before a
\* slot is taken.
GiveUp(c) == /\ call[c].pc \in {"validate", "wait"}
             /\ To(c, "over")
             /\ UNCHANGED <<free, dns, made>>

Acquire(c) == /\ call[c].pc = "wait" /\ free > 0
              /\ call' = [call EXCEPT ![c].pc = "connect", ![c].released = FALSE]
              /\ free' = free - 1
              /\ UNCHANGED <<dns, made>>

Connect(c) == /\ call[c].pc = "connect"
              /\ call' = [call EXCEPT ![c].pc = "send", ![c].at = Pinned(c)]
              /\ UNCHANGED <<free, dns, made>>

\* mutant: the second release gives back a slot somebody else holds
ReleaseAlways(c) == 1
ReleaseOnce(c) == IF call[c].released THEN 0 ELSE 1

Release(c, pc) ==
  /\ free' = free + ReleaseOnce(c)
  /\ call' = [call EXCEPT ![c].pc = pc, ![c].released = TRUE]
  /\ UNCHANGED <<dns, made>>

\* No response: timeout, network error or cancellation.
Fail(c) == call[c].pc = "send" /\ Release(c, "over")

\* A redirect, an error, an encoded or an oversized response is closed at once.
Discard(c) == call[c].pc = "send" /\ Release(c, "over")

Respond(c) == /\ call[c].pc = "send"
              /\ To(c, "stream")
              /\ UNCHANGED <<free, dns, made>>

\* The stream ends, is too long, or meets the deadline or a cancellation while
\* it is read.
EndOfStream(c) == call[c].pc = "stream" /\ Release(c, "read")

\* The client closes the response, whether or not it has read it.
Close(c) == call[c].pc \in {"stream", "read"} /\ Release(c, "over")

Again(c) == /\ call[c].pc = "over"
            /\ call' = [call EXCEPT ![c] = Fresh]
            /\ UNCHANGED <<free, dns, made>>

Next == \/ Rebind
        \/ \E c \in Call :
             \/ Start(c) \/ Validate(c) \/ GiveUp(c) \/ Acquire(c) \/ Connect(c)
             \/ Fail(c) \/ Discard(c) \/ Respond(c) \/ EndOfStream(c) \/ Close(c) \/ Again(c)

Spec == Init /\ [][Next]_vars

Holding == {c \in Call : /\ call[c].pc \in {"connect", "send", "stream"}
                         /\ ~call[c].released}

TypeOK == /\ free \in Nat /\ dns \in Address /\ made \in 0..MaxCalls
          /\ \A c \in Call : call[c].at \in Address \cup {Nowhere}

\* Every slot is held by exactly one open call or is free, however streams end
\* and are closed afterwards; and an open call talks to an address the policy
\* allowed, whatever the name resolves to meanwhile.
SlotsAndPinsHold ==
  /\ free + Cardinality(Holding) = Slots
  /\ \A c \in Call : call[c].pc \in {"send", "stream"} => call[c].at \in Allowed
=============================================================================
