----------------------------- MODULE TurnStream -----------------------------
(***************************************************************************)
(* POST /ai/chat.  A question of a conversation passes the screens and the *)
(* supervisor and is admitted or answered with one short event; the stream *)
(* of an admitted one merges the frames of the model with the events its   *)
(* tools emit, and ends with the commit of the turn and one "done".        *)
(*                                                                         *)
(* The stream is five tasks: the producer (the model and its tools), the   *)
(* drain of the tools' queue, the heartbeat of the guard, the response     *)
(* loop, and the client that reads or leaves.  A step is one database      *)
(* transaction, one Redis command or one turn of the event loop.  ChatRun  *)
(* says how the guard is taken over and released; here it has one holder.  *)
(***************************************************************************)
EXTENDS Naturals, Sequences, FiniteSets

CONSTANTS
    Turn,       \* questions sent to one conversation by its owner
    Limit,      \* ai:supervisor_daily_limit
    MaxEvents,  \* bound on the events the tools of one turn emit
    MaxText     \* bound on the frames of the model in one turn

VARIABLES
    turn,     \* the requests
    flagged,  \* the injection mark of the conversation in Redis
    counted,  \* the supervisor's counter of the user for the day
    log,      \* routing logs committed: question, reason
    guard,    \* who holds the guard of the conversation, or 0
    saved,    \* what the conversation holds of each turn
    io        \* the queues and flags of each stream

vars == <<turn, flagged, counted, log, guard, saved, io>>
redis == <<flagged, counted>>

Text   == {"plain", "banned", "inject", "empty"}
Stop   == "stop"      \* the None put into a queue
NoTurn == [pc |-> "idle", text |-> "plain", agent |-> "none", hit |-> FALSE]
NoIo   == [task |-> "run", drain |-> "run", beat |-> TRUE, custom |-> <<>>,
           unified |-> <<>>, sent |-> <<>>, events |-> 0, known |-> 0, text |-> 0,
           quiet |-> FALSE, unknown |-> FALSE, handoff |-> FALSE, code |-> "none"]
NoSave == [question |-> FALSE, answer |-> "none", tools |-> 0]

Init ==
    /\ turn = [t \in Turn |-> NoTurn]
    /\ flagged \in BOOLEAN /\ counted \in 0..Limit    \* earlier questions
    /\ log = {} /\ guard = 0
    /\ saved = [t \in Turn |-> NoSave]
    /\ io = [t \in Turn |-> NoIo]

To(t, pc) == turn' = [turn EXCEPT ![t].pc = pc]

Logged(t, reason) == log' = log \cup {<<t, reason>>}

\* One short stream (an error or a clarification, then "done") behind the commit
\* of its routing log.
Answered(t, reason) == To(t, "done") /\ Logged(t, reason)

-----------------------------------------------------------------------------
(* Admission *)

\* Body, history, images, agent code and model are checked; or the request is
\* refused with an error status.
Submit(t, x) ==
    /\ turn[t].pc = "idle"
    /\ turn' = [turn EXCEPT ![t].text = x, ![t].pc = "checked"]
    /\ UNCHANGED <<redis, log, guard, saved, io>>

Refuse(t) ==
    /\ turn[t].pc \in {"checked", "asking", "policy"}
    /\ To(t, "done")
    /\ UNCHANGED <<redis, log, guard, saved, io>>

\* build_chat_deps: the sticky or named agent, "none" to ask the supervisor; an
\* agent that cannot be loaded is logged.
BuildDeps(t) ==
    /\ turn[t].pc = "checked"
    /\ \/ /\ \E a \in {"agent", "none"} :
               turn' = [turn EXCEPT ![t].agent = a, ![t].pc = "screen"]
          /\ UNCHANGED log
       \/ Answered(t, "agent_load_failed")
    /\ UNCHANGED <<redis, guard, saved, io>>

\* A blocked address or a disabled user: answered, not logged.
Blocked(t) ==
    /\ turn[t].pc = "screen"
    /\ To(t, "done")
    /\ UNCHANGED <<redis, log, guard, saved, io>>

\* Keywords, topics and URLs; _emit_safety_blocked logs.
Screened(t) ==
    /\ turn[t].pc = "screen" /\ turn[t].text = "banned"
    /\ Answered(t, "safety_blocked")
    /\ UNCHANGED <<redis, guard, saved, io>>

\* deps.injection_hit: this question or an earlier one of the conversation.
Hit(t) == turn[t].text = "inject" \/ flagged

\* The mark is kept in Redis before the turn goes on.
Detect(t) ==
    /\ turn[t].pc = "screen" /\ turn[t].text # "banned"
    /\ flagged' = (flagged \/ turn[t].text = "inject")
    /\ turn' = [turn EXCEPT ![t].hit = Hit(t), ![t].pc = "route"]
    /\ UNCHANGED <<counted, log, guard, saved, io>>

\* The mark expires.
FlagExpires ==
    /\ flagged /\ flagged' = FALSE
    /\ UNCHANGED <<turn, counted, log, guard, saved, io>>

\* Sticky agents, a disabled supervisor, a marked conversation and an empty
\* message do without the routing model.
Unrouted(t) ==
    /\ turn[t].pc = "route"
    /\ turn' = [turn EXCEPT ![t].agent = IF @ = "none" THEN "default" ELSE @, ![t].pc = "policy"]
    /\ UNCHANGED <<redis, log, guard, saved, io>>

\* The counter is read (check_supervisor_quota).
CheckQuota(t) ==
    /\ turn[t].pc = "route" /\ turn[t].agent = "none"
    /\ ~turn[t].hit /\ turn[t].text # "empty"
    /\ \/ counted < Limit /\ To(t, "count") /\ UNCHANGED log
       \/ counted >= Limit /\ Answered(t, "quota_exceeded")
       \/ Answered(t, "no_candidates")
    /\ UNCHANGED <<redis, guard, saved, io>>

\* increment_daily_count, and the call; there is no refund.
Count(t) ==
    /\ turn[t].pc = "count"
    /\ counted' = counted + 1
    /\ To(t, "asking")
    /\ UNCHANGED <<flagged, log, guard, saved, io>>

\* An agent among the candidates, or a clarification (a failed call or an answer
\* that names nobody): the candidates are shown.  A provider failure is a Refuse.
Routed(t) ==
    /\ turn[t].pc = "asking"
    /\ \/ turn' = [turn EXCEPT ![t].agent = "routed", ![t].pc = "policy"] /\ UNCHANGED log
       \/ Answered(t, "clarification")
    /\ UNCHANGED <<redis, guard, saved, io>>

\* The agent policy and the model are looked at again; either way it is logged.
\* A model that is not allowed is a Refuse.
Attach(t) ==
    /\ turn[t].pc = "policy"
    /\ \/ To(t, "begin") /\ Logged(t, "routed")
       \/ Answered(t, "agent_policy_rejected")
    /\ UNCHANGED <<redis, guard, saved, io>>

\* Under the guard the question is committed with the trace of the conversation;
\* a conversation that is busy is a 409.  What was asked matters no longer.
Begin(t) ==
    /\ turn[t].pc = "begin"
    /\ \/ /\ guard = 0 /\ guard' = t
          /\ saved' = [saved EXCEPT ![t].question = TRUE]
          /\ turn' = [turn EXCEPT ![t] = [NoTurn EXCEPT !.pc = "stream"]]
       \/ To(t, "done") /\ UNCHANGED <<guard, saved>>
    /\ UNCHANGED <<redis, log, io>>

-----------------------------------------------------------------------------
(* The producer *)

Streaming(t) == turn[t].pc = "stream" /\ io[t].task = "run"
Put(q, x) == Append(q, x)

\* _filter_provider_output_frame.
Shown(s) == IF s.quiet THEN s.unified ELSE Put(s.unified, "text")

\* A text or reasoning frame; dropped once the output is suppressed.
SayText(t) ==
    /\ Streaming(t) /\ io[t].text < MaxText
    /\ io' = [io EXCEPT ![t].text = @ + 1,
                        ![t].unified = Shown(io[t])]
    /\ UNCHANGED <<turn, redis, log, guard, saved>>

\* _signal_event: a tool emits an event.  An unknown outcome, or field errors of an import,
\* suppress what the model says next.
Emit(t, kind) ==
    /\ Streaming(t) /\ io[t].events < MaxEvents
    /\ io' = [io EXCEPT ![t].events = @ + 1,
                        ![t].custom = Put(@, kind),
                        ![t].unknown = @ \/ kind = "unknown",
                        ![t].quiet = @ \/ kind \in {"unknown", "field_errors"}]
    /\ UNCHANGED <<turn, redis, log, guard, saved>>

\* A pending confirmation takes over the guard (ChatRun).
HandOff(t) ==
    /\ Streaming(t)
    /\ io' = [io EXCEPT ![t].handoff = ~@]
    /\ UNCHANGED <<turn, redis, log, guard, saved>>

\* An error frame of the model is shown as an error event; the loop goes on.
ErrorFrame(t) ==
    /\ Streaming(t) /\ io[t].text < MaxText
    /\ io' = [io EXCEPT ![t].text = @ + 1,
                        ![t].code = "error",
                        ![t].unified = Put(@, "error")]
    /\ UNCHANGED <<turn, redis, log, guard, saved>>

\* PreparedExecutionOutcomeUnknown, a usage limit or a failure of the provider ends
\* the loop with one error event.
Break(t) ==
    /\ Streaming(t)
    /\ \E u \in BOOLEAN :
         io' = [io EXCEPT ![t].task = "closing",
                          ![t].unknown = @ \/ u, ![t].quiet = @ \/ u, ![t].handoff = @ \/ u,
                          ![t].code = "error",
                          ![t].unified = Put(@, "error")]
    /\ UNCHANGED <<turn, redis, log, guard, saved>>

Finish(t) ==
    /\ Streaming(t)
    /\ io' = [io EXCEPT ![t].task = "closing"]
    /\ UNCHANGED <<turn, redis, log, guard, saved>>

\* Faulty variant: the response loop is told before the tools' queue is empty.
CloseBoth(s) == [s EXCEPT !.custom = Put(@, Stop), !.unified = Put(@, Stop), !.task = "done"]

\* The tools' queue is closed first; the producer waits for its drain.
CloseCustom(s) == [s EXCEPT !.custom = Put(@, Stop), !.task = "draining"]

Close(t) ==
    /\ turn[t].pc \in {"stream", "stopping"} /\ io[t].task = "closing"
    /\ io' = [io EXCEPT ![t] = CloseCustom([io[t] EXCEPT !.code =
                                         IF io[t].unknown THEN "unknown" ELSE io[t].code])]
    /\ UNCHANGED <<turn, redis, log, guard, saved>>

\* drain_custom_events: the collector notes the event, the loop gets it.
Drain(t) ==
    LET q == io[t].custom IN
    /\ turn[t].pc \in {"stream", "stopping"} /\ io[t].drain = "run" /\ q # <<>>
    /\ io' = [io EXCEPT ![t].custom = Tail(q),
                        ![t].drain = IF Head(q) = Stop THEN "done" ELSE @,
                        ![t].known = IF Head(q) = Stop THEN @ ELSE @ + 1,
                        ![t].unified = IF Head(q) = Stop THEN @ ELSE Put(@, "event")]
    /\ UNCHANGED <<turn, redis, log, guard, saved>>

Drained(t) ==
    /\ io[t].task = "draining" /\ io[t].drain = "done"
    /\ io' = [io EXCEPT ![t].task = "done", ![t].unified = Put(@, Stop)]
    /\ UNCHANGED <<turn, redis, log, guard, saved>>

-----------------------------------------------------------------------------
(* The heartbeat, the response loop and the client *)

\* Cancelling the producer runs its finally clause; cancelled in there, it
\* takes the drain with it.
Cancelled(s) ==
    CASE s.task = "run"      -> [s EXCEPT !.task = "closing"]
      [] s.task = "draining" -> [s EXCEPT !.task = "done", !.drain = "done", !.unified = Put(@, Stop)]
      [] OTHER               -> s

\* heartbeat_guard: not renewed, by another owner, an expiry or an error of Redis.
GuardLost(t) ==
    /\ turn[t].pc = "stream" /\ io[t].beat
    /\ \E gone \in BOOLEAN : guard' = IF gone /\ guard = t THEN 0 ELSE guard
    /\ io' = [io EXCEPT ![t] = Cancelled([io[t] EXCEPT !.beat = FALSE, !.code = "guard_lost",
                                                       !.unified = Put(io[t].unified, "error")])]
    /\ UNCHANGED <<turn, redis, log, saved>>

\* The loop hands one frame to the client, or ends.
Send(t) ==
    LET q == io[t].unified IN
    /\ turn[t].pc = "stream" /\ q # <<>>
    /\ IF Head(q) = Stop
         THEN To(t, "save") /\ io' = [io EXCEPT ![t].unified = Tail(q), ![t].beat = FALSE]
         ELSE /\ io' = [io EXCEPT ![t].unified = Tail(q), ![t].sent = Append(@, Head(q))]
              /\ UNCHANGED turn
    /\ UNCHANGED <<redis, log, guard, saved>>

\* The client leaves: producer, drain and heartbeat are cancelled or awaited.
Disconnect(t) ==
    /\ turn[t].pc = "stream"
    /\ To(t, "stopping")
    /\ io' = [io EXCEPT ![t] = Cancelled([io[t] EXCEPT !.beat = FALSE])]
    /\ UNCHANGED <<redis, log, guard, saved>>

FreeGuard(t) == guard' = IF guard = t /\ ~io[t].handoff THEN 0 ELSE guard

\* Under a shield the turn is saved as stopped in a session of its own, then the
\* guard is released; a run handed off to a confirmation leaves both.
SaveStopped(t) ==
    /\ turn[t].pc = "stopping"
    /\ To(t, "done")
    /\ \/ io[t].handoff /\ UNCHANGED saved
       \/ ~io[t].handoff /\ saved' = [saved EXCEPT ![t].answer = "stopped"]
       \/ ~io[t].handoff /\ UNCHANGED saved
    /\ FreeGuard(t)
    /\ UNCHANGED <<redis, log, io>>

\* _finalize_stream_turn: the answer, or the notice of the error code, with what
\* the collector knows; "done" follows the commit, or the failure of it.
Save(t) ==
    /\ turn[t].pc = "save"
    /\ \E ok \in BOOLEAN :
         /\ saved' = IF ok THEN [saved EXCEPT ![t].answer = io[t].code, ![t].tools = io[t].known]
                           ELSE saved
         /\ io' = [io EXCEPT ![t].sent = Append(@, IF ok THEN "done" ELSE "failed")]
    /\ To(t, "release")
    /\ UNCHANGED <<redis, log, guard>>

ReleaseGuard(t) ==
    /\ turn[t].pc = "release"
    /\ To(t, "done") /\ FreeGuard(t)
    /\ UNCHANGED <<redis, log, saved, io>>

Next ==
    \/ \E t \in Turn :
         \/ \E x \in Text : Submit(t, x)
         \/ Refuse(t) \/ BuildDeps(t) \/ Blocked(t) \/ Screened(t) \/ Detect(t)
         \/ Unrouted(t) \/ CheckQuota(t) \/ Count(t) \/ Routed(t) \/ Attach(t) \/ Begin(t)
         \/ SayText(t) \/ ErrorFrame(t) \/ HandOff(t) \/ Break(t) \/ Finish(t) \/ Close(t)
         \/ \E kind \in {"event", "unknown", "field_errors"} : Emit(t, kind)
         \/ Drain(t) \/ Drained(t) \/ GuardLost(t) \/ Send(t) \/ Disconnect(t)
         \/ SaveStopped(t) \/ Save(t) \/ ReleaseGuard(t)
    \/ FlagExpires

Spec == Init /\ [][Next]_vars

-----------------------------------------------------------------------------
Frames(t, kind) == Cardinality({i \in DOMAIN io[t].sent : io[t].sent[i] = kind})

\* A client that reads "done" has read everything the tools emitted, the saved
\* turn names every one of them, and nothing follows; only the loss of the guard,
\* which the client has been told of, may cost an event.  An unknown outcome is
\* in the saved turn ("Close and fully drain that queue before publishing the
\* terminal sentinel", produce_pydantic).
DoneMeansWhole ==
    \A t \in Turn :
      Frames(t, "done") > 0 =>
        /\ io[t].sent[Len(io[t].sent)] = "done"
        /\ saved[t].tools = Frames(t, "event")
        /\ \/ Frames(t, "event") = io[t].events /\ (io[t].unknown => saved[t].answer = "unknown")
           \/ saved[t].answer = "guard_lost"

\* "Incremented before the call, so that concurrent questions do not get round the
\* quota" (the comment at increment_daily_count in chat.py): the routing model is
\* not called more often than the daily limit says.
\* The code does not meet it (README, "Where documents and code part").
RouterWithinLimit == counted <= Limit
=============================================================================
