---------------------------- MODULE SystemSettings ----------------------------
(***************************************************************************)
(* The settings of one tenant and the caches in front of them              *)
(* (settings_service.py, config_service.py, core/cache.py and the loaders  *)
(* of ai/agents/safety).  Built-in settings are saved group by group under *)
(* the row lock of the tenant and a revision, the digest of the values the *)
(* administrator was shown.  Two of them stand for the rest: "policy",     *)
(* whether a user needs a primary department, which the writes of user     *)
(* departments read under a row lock, and "list", a list of the assistant, *)
(* which every process keeps for 60 seconds.  Custom configuration is      *)
(* cached in Redis for 300 seconds and evicted after a commit.             *)
(***************************************************************************)
EXTENDS Integers

CONSTANTS Admin,     \* sessions of administrators saving settings
          Assign,    \* writes of user departments
          Proc,      \* processes of the application
          Reader,    \* requests reading custom configuration
          MaxSaves,  \* bound on saves of settings
          MaxConfig  \* bound on changes of custom configuration

Key == {"policy", "list"}
Value == {0, 1}
Default == 0
None == -1
Cache == {"keywords", "topics", "urls", "config", "redis"}

VARIABLES stored,   \* committed value of a setting, or "none"
          tenantLock, \* the session that locks the tenant row, or "free"
          rowLock,  \* the transaction that locks the row of a setting
          desk,     \* a save of settings
          assign,   \* a write of user departments
          cache,    \* the one cache this behaviour follows: they share nothing
          held,     \* the list a process keeps, or "none"
          fetched,  \* a list read from the database, not yet kept
          applied,  \* the last message was checked against a list just "read",
                    \* one "kept" that is the stored one, or an "outdated" one
          config,   \* committed version of the custom configuration
          shared,   \* the version Redis keeps, or "none"
          reading,  \* the version a reader read, or "none"
          evicting, \* changes committed and not yet evicted
          late,     \* Redis was last written by an overtaken reader, or not evicted
          saves

settingVars == <<stored, tenantLock, rowLock, desk, assign, saves>>
listVars == <<cache, held, fetched, applied>>
configVars == <<config, shared, reading, evicting, late>>
vars == <<settingVars, listVars, configVars>>

Off == [at |-> "idle", key |-> "list", seen |-> Default, want |-> Default]

Init == /\ stored \in [Key -> {None, Default}]
        /\ tenantLock = "free" /\ rowLock = [k \in Key |-> "free"]
        /\ desk = [a \in Admin |-> Off]
        /\ assign = [t \in Assign |-> [at |-> "idle", saw |-> Default, locked |-> FALSE]]
        /\ saves = 0
        /\ cache \in Cache
        /\ held = [p \in Proc |-> None] /\ fetched = [p \in Proc |-> None]
        /\ applied = [p \in Proc |-> "none"]
        /\ config = 0 /\ shared = None /\ evicting = 0 /\ late = FALSE
        /\ reading = [q \in Reader |-> None]

\* The stored value, or the default when the setting has no row.
Effective(k) == IF stored[k] = None THEN Default ELSE stored[k]

-----------------------------------------------------------------------------
(* Saving a group of settings.                                             *)

\* GET /settings/{group}: the values with the digest of the group.
OpenGroup(a, k) ==
    /\ desk[a].at = "idle" /\ saves < MaxSaves
    /\ saves' = saves + 1
    /\ \E v \in Value : desk' = [desk EXCEPT ![a] =
            [at |-> "editing", key |-> k, seen |-> Effective(k), want |-> v]]
    /\ UNCHANGED <<stored, tenantLock, rowLock, assign, listVars, configVars>>

\* Faulty variant: the tenant row is read without FOR UPDATE.
UnlockedTenant(a) == tenantLock' = tenantLock

\* SELECT ... FOR UPDATE of the tenant row.
LockTenant(a) == tenantLock = "free" /\ tenantLock' = a

\* PUT: the tenant row is locked, then the digest compared once more.
CompareRevision(a) ==
    /\ desk[a].at = "editing"
    /\ LockTenant(a)
    /\ desk' = [desk EXCEPT ![a].at =
            IF desk[a].seen = Effective(desk[a].key) THEN "writing" ELSE "refused"]
    /\ UNCHANGED <<stored, rowLock, assign, saves, listVars, configVars>>

\* The flush updates the row, waiting for whoever locks it, or inserts it.
WriteRow(a) ==
    /\ desk[a].at = "writing" /\ rowLock[desk[a].key] = "free"
    /\ rowLock' = [rowLock EXCEPT ![desk[a].key] = a]
    /\ desk' = [desk EXCEPT ![a].at = "written"]
    /\ UNCHANGED <<stored, tenantLock, assign, saves, listVars, configVars>>

\* The request commits, or any failure (a refused revision, a value that is
\* not valid, mail not configured) rolls it back; the locks go.
EndSave(a) ==
    /\ desk[a].at \in {"written", "refused"}
    /\ \/ /\ desk[a].at = "written"
          /\ stored' = [stored EXCEPT ![desk[a].key] = desk[a].want]
       \/ UNCHANGED stored
    /\ tenantLock' = IF tenantLock = a THEN "free" ELSE tenantLock
    /\ rowLock' = [k \in Key |-> IF rowLock[k] = a THEN "free" ELSE rowLock[k]]
    /\ desk' = [desk EXCEPT ![a] = Off]
    /\ UNCHANGED <<assign, saves, listVars, configVars>>

-----------------------------------------------------------------------------
(* A write of user departments judged by the policy.                       *)

\* Faulty variant: the policy is read as any other value.
UnlockedPolicy(t) ==
    /\ UNCHANGED rowLock
    /\ assign' = [assign EXCEPT ![t] = [at |-> "judged", saw |-> Effective("policy"),
                                        locked |-> stored["policy"] # None]]

\* get_bool_for_update: the row is locked; a missing row locks nothing.
LockPolicy(t) ==
    /\ rowLock["policy"] = "free" \/ stored["policy"] = None
    /\ rowLock' = IF stored["policy"] = None THEN rowLock
                                               ELSE [rowLock EXCEPT !["policy"] = t]
    /\ assign' = [assign EXCEPT ![t] = [at |-> "judged", saw |-> Effective("policy"),
                                        locked |-> stored["policy"] # None]]

\* The departments asked for include no primary one.
Judge(t) ==
    /\ assign[t].at = "idle"
    /\ LockPolicy(t)
    /\ UNCHANGED <<stored, tenantLock, desk, saves, listVars, configVars>>

\* Refused when the policy wants a primary department, else written.
EndAssign(t) ==
    /\ assign[t].at = "judged"
    /\ \E end \in {"applied", "refused"} :
          /\ end = "applied" => assign[t].saw = 0
          /\ assign' = [assign EXCEPT ![t].at = end]
    /\ rowLock' = [k \in Key |-> IF rowLock[k] = t THEN "free" ELSE rowLock[k]]
    /\ UNCHANGED <<stored, tenantLock, desk, saves, listVars, configVars>>

-----------------------------------------------------------------------------
(* The lists each process keeps.  The functions that would invalidate them *)
(* when a setting changes have no caller, so the generation they compare   *)
(* never changes.                                                          *)

\* A message is checked against the list kept, or one is read.
Load(p, what) ==
    /\ cache = what /\ fetched[p] = None
    /\ IF held[p] = None
       THEN /\ fetched' = [fetched EXCEPT ![p] = Effective("list")]
            /\ UNCHANGED applied
       ELSE /\ applied' = [applied EXCEPT ![p] =
                     IF held[p] = Effective("list") THEN "kept" ELSE "outdated"]
            /\ UNCHANGED fetched
    /\ UNCHANGED <<cache, held, settingVars, configVars>>

LoadBlocklist(p) == Load(p, "keywords")
LoadForbiddenTopics(p) == Load(p, "topics")
LoadForbiddenUrls(p) == Load(p, "urls")
GetAiConfig(p) == Load(p, "config")

\* The list read is kept and the message that asked for it is checked.
KeepList(p) ==
    /\ fetched[p] # None
    /\ held' = [held EXCEPT ![p] = fetched[p]]
    /\ fetched' = [fetched EXCEPT ![p] = None]
    /\ applied' = [applied EXCEPT ![p] = "read"]
    /\ UNCHANGED <<cache, settingVars, configVars>>

\* Sixty seconds pass.
ExpireList(p) ==
    /\ held[p] # None
    /\ held' = [held EXCEPT ![p] = None]
    /\ UNCHANGED <<cache, fetched, applied, settingVars, configVars>>

-----------------------------------------------------------------------------
(* Custom configuration behind Redis.                                      *)

\* Faulty variant: one of the writing endpoints forgets the eviction.
ChangeUnevicted ==
    /\ cache = "redis" /\ config < MaxConfig
    /\ config' = config + 1
    /\ UNCHANGED <<shared, reading, evicting, late, settingVars, listVars>>

\* create, update, delete or import: committed; the eviction follows.
ChangeConfig ==
    /\ cache = "redis" /\ config < MaxConfig
    /\ config' = config + 1 /\ evicting' = evicting + 1
    /\ UNCHANGED <<shared, reading, late, settingVars, listVars>>

\* cache_delete: every entry of the tenant goes, or the error is logged.
EvictConfig ==
    /\ evicting > 0
    /\ evicting' = evicting - 1
    /\ \/ shared' = None /\ late' = FALSE
       \/ shared' = shared /\ late' = TRUE
    /\ UNCHANGED <<config, reading, settingVars, listVars>>

\* A miss, or a failed read of Redis: the database is asked.
ReadConfig(q) ==
    /\ cache = "redis" /\ reading[q] = None
    /\ reading' = [reading EXCEPT ![q] = config]
    /\ UNCHANGED <<config, shared, evicting, late, settingVars, listVars>>

\* setex with the version read, or its error is logged.
ShareConfig(q) ==
    /\ reading[q] # None
    /\ \/ shared' = reading[q] /\ late' = (reading[q] < config)
       \/ UNCHANGED <<shared, late>>
    /\ reading' = [reading EXCEPT ![q] = None]
    /\ UNCHANGED <<config, evicting, settingVars, listVars>>

\* Three hundred seconds pass.
ExpireConfig ==
    /\ shared # None /\ shared' = None /\ late' = FALSE
    /\ UNCHANGED <<config, reading, evicting, settingVars, listVars>>

-----------------------------------------------------------------------------
Next == \/ \E a \in Admin : \/ \E k \in Key : OpenGroup(a, k)
                            \/ CompareRevision(a) \/ WriteRow(a) \/ EndSave(a)
        \/ \E t \in Assign : Judge(t) \/ EndAssign(t)
        \/ \E p \in Proc : \/ LoadBlocklist(p) \/ LoadForbiddenTopics(p)
                           \/ LoadForbiddenUrls(p) \/ GetAiConfig(p)
                           \/ KeepList(p) \/ ExpireList(p)
        \/ ChangeConfig \/ EvictConfig \/ ExpireConfig
        \/ \E q \in Reader : ReadConfig(q) \/ ShareConfig(q)

Spec == Init /\ [][Next]_vars

-----------------------------------------------------------------------------
\* A save replaces only the value its administrator was shown: between the
\* comparison of the revision and the commit nobody else changes the setting
\* (SettingsService.save_group under the tenant row lock).
NoLostSave ==
    \A k \in Key : stored'[k] # stored[k] =>
        \E a \in Admin : /\ desk[a].at = "written" /\ desk'[a].at = "idle"
                         /\ desk[a].key = k /\ desk[a].seen = Effective(k)

\* A write of departments that found the policy's row ends under the policy
\* in force when it commits: the row stays locked in between
\* (SettingsService.get_bool_for_update).
JudgedByPolicyInForce ==
    \A t \in Assign :
        assign[t].at = "judged" /\ assign'[t].at = "applied" /\ assign[t].locked
           => Effective("policy") = 0

\* Redis serves an old version of the configuration after its change was
\* committed only until the eviction that follows, or because a reader that
\* began before it was overtaken, or Redis refused the eviction (cacheable,
\* cache_delete and the five writing endpoints of api/config.py).
StaleConfigIsLate ==
    shared # None /\ shared < config => evicting > 0 \/ late

\* What keyword_blocklist.py and its two siblings say of the lists they
\* keep: a change by the administrator takes effect at once.
\* The code does not meet it (README, "Where documents and code part").
ListAppliesAtOnce == \A p \in Proc : applied[p] # "outdated"
=============================================================================
