---------------------------- MODULE ModelPolicy ----------------------------
(***************************************************************************)
(* Which models a tenant may use: the platform's providers and models, and *)
(* the tenant's model policies, changed by concurrent administrators.  The *)
(* catalog an administrator edits carries a revision; saving it replaces   *)
(* all policies at once.  Providers and models are deleted only when no    *)
(* policy names them, though the foreign keys cascade.                     *)
(*                                                                         *)
(* Abstracted: one tenant that is bootstrapped; every model handles text,  *)
(* so that it is on when it is enabled; names, capabilities and quotas are *)
(* left out; egress checks either pass or refuse the request before it     *)
(* reads anything modelled here.                                           *)
(***************************************************************************)
EXTENDS Naturals, FiniteSets

CONSTANTS Request, Provider, Model,
          Home,       \* the provider of each model
          MaxChanges  \* bound: requests and edits in one behaviour

VARIABLES provider, model,  \* "new", "on", "off" or "gone": ids are not reused
          policy,           \* "none", "off", "on" or "default"
          req,              \* the live administration requests
          held,             \* row locks of each request's transaction
          changes           \* requests and edits so far
vars == <<provider, model, policy, req, held, changes>>

Available(m) == model[m] = "on" /\ provider[Home[m]] = "on"
Here(m) == model[m] \in {"on", "off"}

(* ----- the catalog and its revision ------------------------------------- *)

\* The revision is a hash of the rows shown: a model's availability, of which
\* only the first reason is given, and its policy, where a missing one looks
\* like a disabled one.  A provider without models is not in it.
Usable(m) == IF provider[Home[m]] = "off" THEN "provider_disabled"
             ELSE IF model[m] = "off" THEN "model_disabled" ELSE "yes"
Granted(m) == IF policy[m] = "none" THEN "off" ELSE policy[m]

Catalog == [m \in {n \in Model : Here(n)} |-> [use |-> Usable(m), grant |-> Granted(m)]]
NoCatalog == <<>>
Idle == [pc |-> "idle", kind |-> "none", on |-> "none", want |-> <<>>,
         seen |-> NoCatalog]

Init ==
  /\ provider \in [Provider -> {"new", "on"}]
  /\ model \in [Model -> {"new", "on"}]
  /\ \A m \in Model : provider[Home[m]] = "new" => model[m] = "new"
  /\ policy = [m \in Model |-> "none"]
  /\ req = [r \in Request |-> Idle]
  /\ held = [r \in Request |-> {}]
  /\ changes = 0

(* ----- row locks -------------------------------------------------------- *)

\* A lock is <<row, strength>>; the strengths are those of SELECT ... FOR.
Conflict == [update |-> {"update", "share", "key"}, share |-> {"update"},
             key |-> {"update"}]
Free(r, row, strength) ==
  \A q \in Request \ {r} : \A other \in Conflict[strength] : <<row, other>> \notin held[q]

\* An UPDATE of other columns than the key waits for FOR UPDATE and FOR SHARE.
Writable(row) == \A q \in Request : held[q] \cap {<<row, "update">>, <<row, "share">>} = {}

Take(r, locks, pc) ==
  /\ \A l \in locks : Free(r, l[1], l[2])
  /\ held' = [held EXCEPT ![r] = @ \cup locks]
  /\ req' = [req EXCEPT ![r].pc = pc]
  /\ UNCHANGED <<provider, model, policy, changes>>

End(r) == /\ req' = [req EXCEPT ![r] = Idle]
          /\ held' = [held EXCEPT ![r] = {}]

(* ----- an administrator's request --------------------------------------- *)

Begin(r, kind, on, want, seen) ==
  /\ req[r].pc = "idle" /\ changes < MaxChanges
  /\ changes' = changes + 1
  /\ req' = [req EXCEPT ![r] = [pc |-> "begin", kind |-> kind, on |-> on,
                                want |-> want, seen |-> seen]]
  /\ UNCHANGED <<provider, model, policy, held>>

\* The administrator edits the catalog as loaded: at most one default.
LoadCatalog(r) ==
  \E want \in [{m \in Model : Here(m)} -> {"off", "on", "default"}] :
    /\ \A m, n \in DOMAIN want : want[m] = "default" /\ want[n] = "default" => m = n
    /\ Begin(r, "many", "none", want, Catalog)

AskPut(r) == \E m \in Model, state \in {"off", "on", "default"} :
               Begin(r, "put", m, state, NoCatalog)
AskDelete(r) == \/ \E m \in Model : Begin(r, "model", m, <<>>, NoCatalog)
                \/ \E p \in Provider : Begin(r, "provider", p, <<>>, NoCatalog)

\* Every writer of policies locks the tenant's row first.
\* mutant: the tenant is only read
TenantRead(r) == {}
TenantLock(r) == {<<"tenant", "update">>}

LockTenant(r) ==
  /\ req[r].pc = "begin" /\ req[r].kind \in {"many", "put"}
  /\ Take(r, TenantLock(r), "tenant")

(* ----- saving the whole catalog ----------------------------------------- *)

\* Availability is kept stable until the transaction ends.
\* mutant: models and providers are not locked
NoModelLocks(r) == {}
ModelLocks(r) == {<<m, "share">> : m \in {n \in Model : Here(n)}}
                 \cup {<<Home[m], "share">> : m \in {n \in Model : Here(n)}}

ShareModels(r) ==
  /\ req[r].pc = "tenant" /\ req[r].kind = "many"
  /\ Take(r, ModelLocks(r), "compare")

\* A model that is not available may stay enabled as it is, no more.
Grantable(want) ==
  \A m \in DOMAIN want :
    want[m] \in {"on", "default"} =>
      Available(m) \/ (policy[m] \in {"on", "default"} /\ want[m] = "on")

\* The revision sent must be that of the rows as they are under the locks.
Compare(r) ==
  /\ req[r].pc = "compare"
  /\ IF req[r].seen = Catalog /\ Grantable(req[r].want)
       THEN /\ req' = [req EXCEPT ![r].pc = "save"]
            /\ UNCHANGED held
       ELSE End(r)
  /\ UNCHANGED <<provider, model, policy, changes>>

\* A model without a policy that is not enabled gets none.  A row whose model
\* is gone fails the insertion, and the transaction with it.
Replaced(want) == [m \in Model |->
  IF m \notin DOMAIN want \/ (policy[m] = "none" /\ want[m] = "off") THEN policy[m]
  ELSE want[m]]

SaveMany(r) ==
  /\ req[r].pc = "save" /\ \A m \in DOMAIN req[r].want : Here(m)
  /\ policy' = Replaced(req[r].want)
  /\ End(r)
  /\ UNCHANGED <<provider, model, changes>>

(* ----- saving and deleting one policy ----------------------------------- *)

\* The model's key is locked, its availability is not.
LockModel(r) ==
  LET m == req[r].on
  IN /\ req[r].pc = "tenant" /\ req[r].kind = "put"
     /\ Here(m) /\ (req[r].want = "off" \/ Available(m))
     /\ Take(r, {<<m, "key">>}, "put")

RefusePut(r) ==
  LET m == req[r].on
  IN /\ req[r].pc = "tenant" /\ req[r].kind = "put" /\ Free(r, m, "key")
     /\ ~Here(m) \/ (req[r].want # "off" /\ ~Available(m))
     /\ End(r)
     /\ UNCHANGED <<provider, model, policy, changes>>

Put(r) ==
  LET m == req[r].on
  IN /\ req[r].pc = "put"
     /\ policy' = [n \in Model |->
          IF n = m THEN req[r].want
          ELSE IF req[r].want = "default" /\ policy[n] = "default" THEN "on" ELSE policy[n]]
     /\ End(r)
     /\ UNCHANGED <<provider, model, changes>>

DropPolicy(m) ==
  /\ policy[m] # "none" /\ changes < MaxChanges
  /\ \A q \in Request : <<"tenant", "update">> \notin held[q]
  /\ policy' = [policy EXCEPT ![m] = "none"]
  /\ changes' = changes + 1
  /\ UNCHANGED <<provider, model, req, held>>

(* ----- providers and models --------------------------------------------- *)

ModelsOf(p) == {m \in Model : Home[m] = p /\ Here(m)}
Doomed(r) == IF req[r].kind = "model" THEN {req[r].on} \cap {m \in Model : Here(m)}
             ELSE ModelsOf(req[r].on)

\* A deletion locks what it will delete before it looks for policies.
\* mutant: deletion looks first and locks nothing
NoDeleteLocks(r) == {}
DeleteLocks(r) == {<<m, "update">> : m \in Doomed(r)}
                  \cup (IF req[r].kind = "provider" THEN {<<req[r].on, "update">>} ELSE {})

Exists(r) == IF req[r].kind = "model" THEN Here(req[r].on)
             ELSE provider[req[r].on] \in {"on", "off"}

LockDoomed(r) ==
  /\ req[r].pc = "begin" /\ req[r].kind \in {"model", "provider"}
  /\ IF Exists(r) THEN Take(r, DeleteLocks(r), "look")
     ELSE End(r) /\ UNCHANGED <<provider, model, policy, changes>>

LookForPolicies(r) ==
  /\ req[r].pc = "look"
  /\ IF \E m \in Doomed(r) : policy[m] # "none"
       THEN End(r)
       ELSE req' = [req EXCEPT ![r].pc = "erase"] /\ UNCHANGED held
  /\ UNCHANGED <<provider, model, policy, changes>>

\* The foreign keys delete a provider's models and a model's policies.
Erase(r) ==
  /\ req[r].pc = "erase"
  /\ \A m \in Doomed(r) : Free(r, m, "update")
  /\ model' = [m \in Model |-> IF m \in Doomed(r) THEN "gone" ELSE model[m]]
  /\ policy' = [m \in Model |-> IF m \in Doomed(r) THEN "none" ELSE policy[m]]
  /\ provider' = IF req[r].kind = "provider"
                   THEN [provider EXCEPT ![req[r].on] = "gone"] ELSE provider
  /\ End(r)
  /\ UNCHANGED changes

Edited == /\ changes < MaxChanges
          /\ changes' = changes + 1
          /\ UNCHANGED <<policy, req, held>>

\* Edits are one UPDATE or INSERT at the end of the request.
UpdateProvider(p) ==
  /\ provider[p] \in {"on", "off"} /\ Writable(p) /\ Edited
  /\ provider' = [provider EXCEPT ![p] = IF @ = "on" THEN "off" ELSE "on"]
  /\ UNCHANGED model

UpdateModel(m) ==
  /\ Here(m) /\ Writable(m) /\ Edited
  /\ model' = [model EXCEPT ![m] = IF @ = "on" THEN "off" ELSE "on"]
  /\ UNCHANGED provider

CreateProvider(p) ==
  /\ provider[p] = "new" /\ Edited
  /\ provider' = [provider EXCEPT ![p] = "on"]
  /\ UNCHANGED model

CreateModel(m) ==
  /\ model[m] = "new" /\ provider[Home[m]] \in {"on", "off"} /\ Edited
  /\ \A q \in Request : <<Home[m], "update">> \notin held[q]
  /\ model' = [model EXCEPT ![m] = "on"]
  /\ UNCHANGED provider

Next ==
  \/ \E r \in Request :
       \/ LoadCatalog(r) \/ AskPut(r) \/ AskDelete(r) \/ LockTenant(r) \/ ShareModels(r)
       \/ Compare(r) \/ SaveMany(r) \/ LockModel(r) \/ RefusePut(r) \/ Put(r)
       \/ LockDoomed(r) \/ LookForPolicies(r) \/ Erase(r)
  \/ \E m \in Model : DropPolicy(m) \/ UpdateModel(m) \/ CreateModel(m)
  \/ \E p \in Provider : UpdateProvider(p) \/ CreateProvider(p)

Spec == Init /\ [][Next]_vars

TypeOK ==
  /\ provider \in [Provider -> {"new", "on", "off", "gone"}]
  /\ model \in [Model -> {"new", "on", "off", "gone"}]
  /\ policy \in [Model -> {"none", "off", "on", "default"}]
  /\ Cardinality({m \in Model : policy[m] = "default"}) <= 1
  /\ changes \in 0..MaxChanges

\* A saved catalog replaces the grants its author saw: what each model is granted
\* and whether it can be used are at the save as he loaded them, a model that came
\* since has no grant to lose, and nothing is newly granted that is not available.
\* (That a disabled policy came, or went, since is not seen, and changes no grant.)
SaveIsCurrent ==
  \A r \in Request : req[r].pc = "save" /\ req'[r].pc = "idle" =>
     LET seen == req[r].seen
     IN /\ \A m \in Model : Granted(m) = IF m \in DOMAIN seen THEN seen[m].grant ELSE "off"
        /\ \A m \in DOMAIN seen : Usable(m) = seen[m].use
        /\ \A m \in DOMAIN req[r].want :
             policy'[m] \in {"on", "default"} /\ policy[m] \notin {"on", "default"} => Available(m)

\* A tenant loses a policy only when somebody deletes the policy: deleting a
\* provider or a model never takes a policy along, although the keys cascade.
GrantsSurvive ==
  \A m \in Model : Here(m) /\ model'[m] = "gone" => policy[m] = "none"
=============================================================================
