-------------------------- MODULE ResultProjection --------------------------
(***************************************************************************)
(* What a reader of one AI conversation is shown of results produced under *)
(* an authority that has changed since                                     *)
(* (src/app/modules/ai/service/result_projection_service.py,               *)
(* conversation_service.py, chat_service.py, completion_read_state_service *)
(* .py, the finaliser of chat_run_service.py, api/chat.py, api/download.py *)
(* and api/query_cache.py).                                                *)
(*                                                                         *)
(* Every turn leaves one assistant message with a lineage: the tools it    *)
(* called, the business rows it named, the hash of the data scope it was   *)
(* bound to, and the earlier messages the model was given.  The variable   *)
(* field tells of a message is what its text and cards really derive from. *)
(***************************************************************************)
EXTENDS Integers, FiniteSets

CONSTANTS Turn,       \* turns of the conversation, 1..n
          Subject,    \* business rows a tool can name
          MaxChanges  \* bound: changes of the reader's authority

Tool == {"read", "delete"}

VARIABLES
  auth,    \* live authority: rows in scope, permitted tools, scope hash
  rows,    \* business rows that exist
  closed,  \* the conversation is deleted
  run,     \* stream of each turn
  msg,     \* assistant message of each turn
  act,     \* deletion each turn asked the user to confirm
  copy,    \* what left the conversation last: a query-cache entry or a
           \* download token, with its own lineage
  changes  \* changes of authority so far

vars == <<auth, rows, closed, run, msg, act, copy, changes>>

NoTells == [subjects |-> {}, scopes |-> {}]
And(a, b) == [subjects |-> a.subjects \cup b.subjects, scopes |-> a.scopes \cup b.scopes]
Naming(s) == [NoTells EXCEPT !.subjects = {s}]

\* An incomplete lineage is never authorised.
NoLine == [known |-> FALSE, tools |-> {}, subjects |-> {}, scope |-> 0, deps |-> {}]
Line(tools, subjects, scope, deps) ==
  [known |-> TRUE, tools |-> tools, subjects |-> subjects, scope |-> scope, deps |-> deps]

Union(a, b) ==
  Line(a.tools \cup b.tools, a.subjects \cup b.subjects,
       IF a.scope # 0 THEN a.scope ELSE b.scope, a.deps \cup b.deps)

NoMsg == [there |-> FALSE, text |-> FALSE, cards |-> {}, line |-> NoLine, tells |-> NoTells]
NoEntry == [line |-> NoLine, tells |-> NoTells]
NoRun == [at |-> "idle", deps |-> {}, told |-> NoTells, tells |-> NoTells, tools |-> {},
          subjects |-> {}, bound |-> FALSE, cards |-> {}, may |-> {}, sees |-> {}, scope |-> 0]
Ended == [NoRun EXCEPT !.at = "ended"]
NoAct == [st |-> "none", subjects |-> {}, deps |-> {}]

Init ==
  /\ auth = [sees |-> Subject, tools |-> Tool, scope |-> 1]
  /\ rows = Subject /\ closed = FALSE /\ changes = 0
  /\ run = [t \in Turn |-> NoRun] /\ msg = [t \in Turn |-> NoMsg]
  /\ act = [t \in Turn |-> NoAct]
  /\ copy = NoEntry

(***************************************************************************)
(* Authorisation of a stored result                                        *)
(***************************************************************************)

SubjectsAllowed(line) == line.subjects \subseteq auth.sees \cap rows
ToolsAllowed(line) == line.tools \subseteq auth.tools
ScopeAllowed(line) == line.scope # 0 => line.scope = auth.scope

Authorized(line) ==
  line.known /\ ToolsAllowed(line) /\ ScopeAllowed(line) /\ SubjectsAllowed(line)

\* Every message that earlier messages depend on, in rounds.
Reach(ds) ==
  LET upto[n \in 0..Cardinality(Turn)] ==
        IF n = 0 THEN ds
        ELSE upto[n-1] \cup UNION {msg[d].line.deps : d \in upto[n-1]}
  IN upto[Cardinality(Turn)]

\* mutant: earlier answers the model was given do not count
OwnLineOnly(ds) == TRUE
DepsAllowed(ds) == \A d \in Reach(ds) : msg[d].there /\ Authorized(msg[d].line)

\* A message of the open conversation, and any other lineage: a token, a cache
\* entry, an action, which also need the conversation to be there still.
MessageAllowed(t) ==
  Authorized(msg[t].line) /\ t \notin msg[t].line.deps /\ DepsAllowed(msg[t].line.deps)

LineAllowed(line) ==
  Authorized(line) /\ DepsAllowed(line.deps) /\ (line.deps # {} => ~closed)

\* The download link and the query chip of a copy answer under the live
\* authority, not under the one they were made with.
CopyServed == LineAllowed(copy.line)

\* The lineage of a confirmed action: the rows it was approved for.
ActLine(t) == Line({"delete"}, act[t].subjects, 0, act[t].deps)

Unproved(t) == act[t].st = "unproved" /\ "delete" \in msg[t].cards

\* A deleted target's message keeps a fixed text, for a reader who may still
\* delete, if the message records the call and its success is proved.
Receipt(t) ==
  /\ msg[t].line.known /\ "delete" \in msg[t].line.tools
  /\ LineAllowed([msg[t].line EXCEPT !.subjects = {}, !.deps = {}])
  /\ "delete" \in msg[t].cards /\ act[t].st = "done"

\* How a message of the history is projected now.
Shown(t) ==
  IF closed \/ ~msg[t].there THEN "none"
  ELSE IF Unproved(t) THEN "notice"
  ELSE IF MessageAllowed(t) THEN "full"
  ELSE IF Receipt(t) THEN "receipt" ELSE "hidden"

\* What the reader learns from it.
Learnt(t) ==
  IF Shown(t) \in {"full", "notice"} /\ MessageAllowed(t) THEN msg[t].tells ELSE NoTells

(***************************************************************************)
(* The finaliser: one assistant message per turn                           *)
(***************************************************************************)

Proved(t) == act[t].st \in {"done", "void"}

\* The card of a proved action the actor may not see any more is left out.
Kept(t, cards) ==
  IF Proved(t) /\ ~LineAllowed(ActLine(t)) THEN cards \ {"delete"} ELSE cards

WithFacts(t, line) ==
  IF Proved(t) /\ LineAllowed(ActLine(t))
  THEN IF line.known THEN Union(line, ActLine(t)) ELSE ActLine(t)
  ELSE line

Merged(old, line) ==
  IF ~line.known THEN old ELSE IF old.known THEN Union(old, line) ELSE line

\* Insert the message of turn t or merge into the one that is there; nothing to
\* say makes no message.  The dependencies are stored with an incomplete lineage
\* too.
Finalized(t, text, cards, line, deps, tells) ==
  LET m    == msg[t]
      kept == Kept(t, cards)
      new  == WithFacts(t, IF line.known THEN [line EXCEPT !.deps = @ \cup deps] ELSE line)
  IN IF closed \/ (~m.there /\ ~text /\ kept = {}) THEN m
     ELSE [there |-> TRUE, text |-> m.text \/ text,
           cards |-> Kept(t, m.cards) \cup kept,
           line  |-> IF m.there THEN Merged(m.line, new)
                     ELSE IF new.known THEN new ELSE [NoLine EXCEPT !.deps = deps],
           tells |-> And(m.tells, tells)]

(***************************************************************************)
(* A turn                                                                  *)
(***************************************************************************)

\* The request reads the history; what is supplied becomes a dependency.
Supplied == {d \in Turn : /\ Shown(d) \in {"full", "notice", "receipt"}
                          /\ msg[d].text \/ msg[d].cards # {} \/ Shown(d) # "full"}

ToldBy(ds) ==
  [subjects |-> UNION {Learnt(d).subjects : d \in ds},
   scopes |-> UNION {Learnt(d).scopes : d \in ds}]

LoadHistory(t) ==
  /\ run[t].at = "idle" /\ ~closed
  /\ \A u \in Turn : u < t => run[u].at # "idle"
  /\ run' = [run EXCEPT ![t].at = "loaded", ![t].deps = Supplied,
                        ![t].told = ToldBy(Supplied), ![t].tells = ToldBy(Supplied)]
  /\ UNCHANGED <<auth, rows, closed, msg, act, copy, changes>>

\* Permissions and scope are frozen for the turn; the guard admits one run, and
\* none while an action waits.
Begin(t) ==
  /\ run[t].at = "loaded" /\ ~closed
  /\ \A u \in Turn : run[u].at # "open" /\ act[u].st \notin {"pending", "unproved"}
  /\ run' = [run EXCEPT ![t].at = "open", ![t].may = auth.tools,
                        ![t].sees = auth.sees, ![t].scope = auth.scope]
  /\ UNCHANGED <<auth, rows, closed, msg, act, copy, changes>>

\* A read names a row, or counts within the scope; its filters may be cached.
Read(t, tells) ==
  /\ run[t].at = "open" /\ "read" \in run[t].may /\ act[t].st # "pending"
  /\ tells.subjects \subseteq run[t].sees \cap rows
  /\ run' = [run EXCEPT ![t].tells = And(@, tells), ![t].subjects = @ \cup tells.subjects,
                        ![t].tools = @ \cup {"read"}, ![t].cards = @ \cup {"read"},
                        ![t].bound = @ \/ tells.scopes # {}]
  /\ \/ copy' =
          [line |-> Line({"read"}, tells.subjects, IF tells.scopes # {} THEN run[t].scope ELSE 0,
                         run[t].deps),
           tells |-> And(run[t].told, tells)]
     \/ UNCHANGED copy     \* the background write is lost
  /\ UNCHANGED <<auth, rows, closed, msg, act, changes>>

ReadRow(t) == \E s \in Subject : Read(t, Naming(s))
ReadCount(t) == Read(t, [NoTells EXCEPT !.scopes = {run[t].scope}])

Prepare(t) ==
  /\ run[t].at = "open" /\ "delete" \in run[t].may /\ act[t].st = "none"
  /\ \E s \in run[t].sees \cap rows :
       act' = [act EXCEPT ![t] = [st |-> "pending", subjects |-> {s}, deps |-> run[t].deps]]
  /\ run' = [run EXCEPT ![t].cards = @ \cup {"delete"}]
  /\ UNCHANGED <<auth, rows, closed, msg, copy, changes>>

Claim(t) ==
  /\ act[t].st = "pending" /\ act[t].subjects \subseteq auth.sees \cap rows
  /\ "delete" \in auth.tools /\ ~closed
  /\ act' = [act EXCEPT ![t].st = "unproved"]
  /\ UNCHANGED <<auth, rows, closed, run, msg, copy, changes>>

StreamLine(t) ==
  Line(run[t].tools, run[t].subjects, IF run[t].bound THEN run[t].scope ELSE 0, run[t].deps)

\* The stream ends: text and cards of the model's answer.
EndTurn(t) ==
  /\ run[t].at = "open" /\ act[t].st \in {"none", "done", "void"}
  /\ run' = [run EXCEPT ![t] = Ended]
  /\ msg' = [msg EXCEPT ![t] = Finalized(t, TRUE, run[t].cards, StreamLine(t),
                                         run[t].deps, run[t].tells)]
  /\ UNCHANGED <<auth, rows, closed, act, copy, changes>>

\* An error replaces the text by a fixed one.  With a call under way the lineage
\* is incomplete and the cards are left out too.
FailTurn(t) ==
  /\ run[t].at = "open"
  /\ run' = [run EXCEPT ![t] = Ended]
  /\ msg' = [msg EXCEPT ![t] =
       IF act[t].st \in {"pending", "unproved"}
       THEN Finalized(t, TRUE, {}, Line({}, {}, 0, {}), run[t].deps, NoTells)
       ELSE Finalized(t, TRUE, run[t].cards, StreamLine(t), run[t].deps, run[t].tells)]
  /\ UNCHANGED <<auth, rows, closed, act, copy, changes>>

\* The client goes away: a fixed text, unless an action waits for its answer.
Disconnect(t) ==
  /\ run[t].at = "open"
  /\ run' = [run EXCEPT ![t] = Ended]
  /\ msg' = [msg EXCEPT ![t] =
       IF act[t].st \in {"pending", "unproved"} THEN @
       ELSE Finalized(t, TRUE, {}, Line({}, {}, 0, {}), {}, NoTells)]
  /\ UNCHANGED <<auth, rows, closed, act, copy, changes>>

\* The outcome of the action reaches the stream if it still runs, and its card
\* is written to the message or lost.
Settle(t, st, gone) ==
  LET a == [act EXCEPT ![t].st = st] IN
  /\ rows' = rows \ gone /\ act' = a
  /\ run' = IF run[t].at = "open"
            THEN [run EXCEPT ![t].tools = @ \cup {"delete"}, ![t].subjects = @ \cup gone,
                             ![t].tells = And(@, [NoTells EXCEPT !.subjects = gone])]
            ELSE run
  /\ UNCHANGED <<auth, closed, msg, copy, changes>>

Execute(t) ==
  act[t].st = "unproved" /\ Settle(t, "done", act[t].subjects)

Void(t) ==
  act[t].st \in {"pending", "unproved"} /\ Settle(t, "void", {})

\* finalize_prepared_action, by the confirmer, the resumed stream or recovery.
ShowOutcome(t) ==
  /\ Proved(t)
  /\ msg' = [msg EXCEPT ![t] =
       Finalized(t, FALSE, {"delete"}, ActLine(t), {},
                 IF LineAllowed(ActLine(t)) THEN [NoTells EXCEPT !.subjects = act[t].subjects]
                 ELSE NoTells)]
  /\ msg' # msg
  /\ UNCHANGED <<auth, rows, closed, run, act, copy, changes>>

(***************************************************************************)
(* Readers, and the world around them                                      *)
(***************************************************************************)

\* The page refreshes the export links of a message it may show.
IssueToken(t) ==
  /\ Shown(t) = "full" /\ LineAllowed(msg[t].line)
  /\ copy' = [line |-> msg[t].line, tells |-> msg[t].tells]
  /\ UNCHANGED <<auth, rows, closed, run, msg, act, changes>>

DeleteConversation ==
  /\ ~closed /\ \A t \in Turn : act[t].st \notin {"pending", "unproved"}
  /\ closed' = TRUE
  /\ UNCHANGED <<auth, rows, run, msg, act, copy, changes>>

\* Roles, departments and the rows themselves change under the reader.
Change(a, r) ==
  /\ changes < MaxChanges /\ changes' = changes + 1
  /\ auth' = a /\ rows' = r
  /\ UNCHANGED <<closed, run, msg, act, copy>>

MoveRow == \E s \in Subject :
  LET sees == IF s \in auth.sees THEN auth.sees \ {s} ELSE auth.sees \cup {s} IN
  Change([auth EXCEPT !.sees = sees], rows)
Rescope == Change([auth EXCEPT !.scope = 3 - @], rows)
Repermit == \E p \in Tool :
  LET tools == IF p \in auth.tools THEN auth.tools \ {p} ELSE auth.tools \cup {p} IN
  Change([auth EXCEPT !.tools = tools], rows)
RemoveRow == \E s \in rows : Change(auth, rows \ {s})

Next ==
  \/ \E t \in Turn : \/ LoadHistory(t) \/ Begin(t) \/ ReadRow(t) \/ ReadCount(t)
                     \/ Prepare(t) \/ Claim(t) \/ Execute(t) \/ Void(t) \/ ShowOutcome(t)
                     \/ EndTurn(t) \/ FailTurn(t) \/ Disconnect(t)
                     \/ IssueToken(t)
  \/ DeleteConversation \/ MoveRow \/ Rescope \/ Repermit \/ RemoveRow

Spec == Init /\ [][Next]_vars

(***************************************************************************)
(* Properties                                                              *)
(***************************************************************************)

Visible(tells) ==
  tells.subjects \subseteq auth.sees \cap rows /\ tells.scopes \subseteq {auth.scope}

\* Whatever order turns, confirmations and revocations come in, a reader is
\* shown a text, served a cached query or handed an export only while every row
\* and scope it derives from, through any number of earlier answers the model
\* was given, is still within the reader's authority
\* (authorize_message_projection, authorize_result_projection).
NothingRevokedIsShown ==
  /\ \A t \in Turn : Shown(t) = "full" => Visible(msg[t].tells)
  /\ CopyServed => Visible(copy.tells)

\* CHANGELOG.md and docs/AI-SECURITY.md promise a receipt in the place of an
\* answer whose deletion has succeeded, to a reader who may still delete.
\* The code does not meet it (README, "Where documents and code part").
DeletionLeavesReceipt ==
  \A t \in Turn :
    /\ ~closed /\ act[t].st = "done" /\ msg[t].there /\ "delete" \in msg[t].line.tools
    /\ LineAllowed([msg[t].line EXCEPT !.subjects = {}, !.deps = {}])
    => Shown(t) # "hidden"
=============================================================================
