---------------------------- MODULE AuthSession ----------------------------
(***************************************************************************)
(* The sessions of one account: its row in sys_user and its tenant's row,   *)
(* the token pairs issued for it and the Redis blacklist.                   *)
(*                                                                          *)
(* Requests take their steps one database statement or Redis command at a   *)
(* time.  A request that was let in keeps the user row it loaded:           *)
(* SQLAlchemy returns the object of the identity map, and SELECT ... FOR     *)
(* UPDATE refreshes it only with populate_existing.                         *)
(*                                                                          *)
(* A JWT is a function of its claims.  They hold no nonce and an expiry in   *)
(* whole seconds, so a pair of tokens is identified by the versions and the *)
(* second in which it was signed.                                           *)
(***************************************************************************)
EXTENDS Naturals, FiniteSets

CONSTANTS
    Request,        \* concurrent HTTP requests
    Password,       \* passwords
    AccessLife,     \* ACCESS_TOKEN_EXPIRE_MINUTES, in seconds of the model
    RefreshLife,    \* REFRESH_TOKEN_EXPIRE_DAYS, likewise
    MaxClock,       \* bound: seconds
    MaxEpoch,       \* bound: revocations
    MaxPairs        \* bound: token pairs

VARIABLES
    clock,      \* seconds
    tenant,     \* sys_tenant: row_version, status
    user,       \* sys_user: hashed_password, auth_version, status
    pairs,      \* token pairs handed out
    black,      \* blacklisted tokens <<kind, pair>>
    req,        \* control state of the requests
    epoch,      \* ghost: revocations so far, of the account or its tenant
    proof,      \* ghost: <<pair, epoch in which its password was verified>>
    redeemed,   \* ghost: pairs whose refresh token was redeemed
    twice,      \* ghost: the ones redeemed a second time before they expired
    stale       \* ghost: a user row that was out of date has been written back

redis == <<pairs, black>>
ghosts == <<epoch, proof, redeemed, twice, stale>>
vars == <<clock, tenant, user, pairs, black, req, ghosts>>

Pair == [tver : 1 .. MaxEpoch + 1, uver : 1 .. MaxEpoch + 1, at : 0 .. MaxClock]
Idle == [pc |-> "idle"]
Goto(r, s) == req' = [req EXCEPT ![r] = s]

-----------------------------------------------------------------------------
(* Tokens. *)

Life(kind) == IF kind = "access" THEN AccessLife ELSE RefreshLife

\* python-jose accepts a token during the second of its expiry
Unexpired(kind, t) == clock <= t.at + Life(kind)

\* mutant: the tokens of a disabled and re-enabled account come back to life
IgnoresVersion(t, uver) == tenant.ver = t.tver /\ tenant.on /\ user.status = "on"
\* the claims against the rows, in refresh_access_token and get_current_user
Matches(t, uver) ==
    /\ tenant.ver = t.tver
    /\ user.ver = uver
    /\ tenant.on
    /\ user.status = "on"

Fresh(t) == <<t, epoch>> \in proof

-----------------------------------------------------------------------------
Init ==
    /\ clock = 0
    /\ tenant = [ver |-> 1, on |-> TRUE]
    /\ user \in [status : {"on"}, pw : Password, ver : {1}]
    /\ pairs = {} /\ black = {}
    /\ req = [r \in Request |-> Idle]
    /\ epoch = 0 /\ proof = {} /\ redeemed = {} /\ twice = {} /\ stale = FALSE

(* Login: the tenant row; the user row and the password; the pair. *)

LoginTenant(r) ==
    /\ req[r].pc = "idle"
    /\ tenant.on
    /\ Goto(r, [pc |-> "login", tver |-> tenant.ver])
    /\ UNCHANGED <<clock, tenant, user, redis, ghosts>>

LoginUser(r, pw) ==
    /\ req[r].pc = "login"
    /\ IF user.status = "on" /\ user.pw = pw
         THEN Goto(r, [pc |-> "issue", tver |-> req[r].tver, uver |-> user.ver,
                       from |-> {epoch}])
         ELSE Goto(r, Idle)
    /\ UNCHANGED <<clock, tenant, user, redis, ghosts>>

NewPair(r) == [tver |-> req[r].tver, uver |-> req[r].uver, at |-> clock]

Issue(r) ==
    /\ req[r].pc = "issue"
    /\ Cardinality(pairs \union {NewPair(r)}) <= MaxPairs
    /\ pairs' = pairs \union {NewPair(r)}
    /\ proof' = proof \union {<<NewPair(r), e>> : e \in req[r].from}
    /\ Goto(r, Idle)
    /\ UNCHANGED <<clock, tenant, user, black, epoch, redeemed, twice, stale>>

(* refresh_access_token: the rows; SET NX; the new pair. *)

RefreshRead(r, t) ==
    /\ req[r].pc = "idle"
    /\ t \in pairs /\ Unexpired("refresh", t)
    /\ Matches(t, t.uver)
    /\ Goto(r, [pc |-> "claim", old |-> t, tver |-> tenant.ver, uver |-> user.ver])
    /\ UNCHANGED <<clock, tenant, user, redis, ghosts>>

\* mutant: a plain SET, which does not tell whether the key was there
NoNx(t) == TRUE
\* SET NX: the first caller wins, a blacklisted token is a replay
TryBlacklist(t) == <<"refresh", t>> \notin black

RefreshClaim(r) ==
    LET t == req[r].old IN
    /\ req[r].pc = "claim"
    /\ IF TryBlacklist(t)
         THEN /\ black' = black \union {<<"refresh", t>>}
              /\ redeemed' = redeemed \union {t}
              /\ twice' = IF clock < t.at + RefreshLife
                            THEN twice \union ({t} \intersect redeemed)
                            ELSE twice
              /\ Goto(r, [pc |-> "issue", tver |-> req[r].tver, uver |-> req[r].uver,
                          from |-> {p[2] : p \in {p \in proof : p[1] = t}}])
         ELSE /\ Goto(r, Idle)
              /\ UNCHANGED <<black, redeemed, twice>>
    /\ UNCHANGED <<clock, tenant, user, pairs, epoch, proof, stale>>

-----------------------------------------------------------------------------
(* get_current_user: the blacklist, then the rows.  "in" keeps what it loaded. *)

AccessBlack(r, t) ==
    /\ req[r].pc = "idle"
    /\ t \in pairs /\ Unexpired("access", t)
    /\ <<"access", t>> \notin black
    /\ Goto(r, [pc |-> "load", pair |-> t])
    /\ UNCHANGED <<clock, tenant, user, redis, ghosts>>

AccessLoad(r) ==
    /\ req[r].pc = "load"
    /\ IF Matches(req[r].pair, req[r].pair.uver)
         THEN Goto(r, [pc |-> "in", pair |-> req[r].pair, seen |-> user.ver,
                       fresh |-> Fresh(req[r].pair)])
         ELSE Goto(r, Idle)
    /\ UNCHANGED <<clock, tenant, user, redis, ghosts>>

\* mutant: the version loaded at the start of the request is compared with itself
AuthorityUnversioned(r) == tenant.on /\ user.status = "on"
\* ensure_current_write_authority: everything is reloaded before an AI write commits
WriteAuthority(r) == Matches(req[r].pair, req[r].seen)

LiveWrite(r) ==
    /\ req[r].pc = "in"
    /\ IF WriteAuthority(r)
         THEN Goto(r, [pc |-> "wrote", pair |-> req[r].pair, fresh |-> Fresh(req[r].pair)])
         ELSE Goto(r, Idle)
    /\ UNCHANGED <<clock, tenant, user, redis, ghosts>>

\* one SET per token; the refresh token may be in the body
LogoutAccess(r) ==
    /\ req[r].pc = "in"
    /\ black' = black \union {<<"access", req[r].pair>>}
    /\ Goto(r, [pc |-> "logout", pair |-> req[r].pair])
    /\ UNCHANGED <<clock, tenant, user, pairs, ghosts>>

LogoutRefresh(r) ==
    /\ req[r].pc = "logout"
    /\ black' = black \union {<<"refresh", req[r].pair>>}
    /\ Goto(r, Idle)
    /\ UNCHANGED <<clock, tenant, user, pairs, ghosts>>

\* the answer, or the end of a request that failed
Return(r) ==
    /\ req[r].pc \in {"in", "wrote", "logout"}
    /\ Goto(r, Idle)
    /\ UNCHANGED <<clock, tenant, user, redis, ghosts>>

-----------------------------------------------------------------------------
(* Administration and password recovery.  Their sessions lock a row which    *)
(* they have not loaded before.                                             *)

Revoking == epoch < MaxEpoch /\ epoch' = epoch + 1

ResetPassword(pw) ==
    /\ user.status # "gone" /\ Revoking
    /\ user' = [user EXCEPT !.pw = pw, !.ver = @ + 1]
    /\ UNCHANGED <<clock, tenant, redis, req, proof, redeemed, twice, stale>>

RevokeSessions ==
    /\ user.status # "gone" /\ Revoking
    /\ user' = [user EXCEPT !.ver = @ + 1]
    /\ UNCHANGED <<clock, tenant, redis, req, proof, redeemed, twice, stale>>

\* update_user with another status
SwitchUser ==
    /\ user.status # "gone" /\ Revoking
    /\ user' = [user EXCEPT !.status = IF @ = "on" THEN "off" ELSE "on", !.ver = @ + 1]
    /\ UNCHANGED <<clock, tenant, redis, req, proof, redeemed, twice, stale>>

DeleteUser ==
    /\ user.status # "gone" /\ Revoking
    /\ user' = [user EXCEPT !.status = "gone"]
    /\ UNCHANGED <<clock, tenant, redis, req, proof, redeemed, twice, stale>>

\* activate_tenant, disable_tenant; the trigger on sys_tenant counts the change
SwitchTenant ==
    /\ Revoking
    /\ tenant' = [ver |-> tenant.ver + 1, on |-> ~tenant.on]
    /\ UNCHANGED <<clock, user, redis, req, proof, redeemed, twice, stale>>

\* change_password locks the row, but goes on with the object that authenticated
\* the request: the old password and the version are the ones loaded then
ChangePassword(r, pw) ==
    /\ req[r].pc = "in" /\ user.status # "gone" /\ Revoking
    /\ user' = [user EXCEPT !.pw = pw, !.ver = req[r].seen + 1]
    /\ stale' = (stale \/ req[r].seen # user.ver)
    /\ Goto(r, Idle)
    /\ UNCHANGED <<clock, tenant, redis, proof, redeemed, twice>>

-----------------------------------------------------------------------------
(* Time.  A blacklist entry lives for exp - now whole seconds from the moment *)
(* it is written, so it ends somewhere within the second of the expiry.       *)

Tick ==
    /\ clock < MaxClock
    /\ clock' = clock + 1
    /\ UNCHANGED <<tenant, user, redis, req, ghosts>>

BlackExpires(b) ==
    /\ b \in black
    /\ clock >= b[2].at + Life(b[1])
    /\ black' = black \ {b}
    /\ UNCHANGED <<clock, tenant, user, pairs, req, ghosts>>

Next ==
    \/ \E r \in Request :
        \/ LoginTenant(r) \/ Issue(r) \/ RefreshClaim(r) \/ AccessLoad(r) \/ LiveWrite(r)
        \/ LogoutAccess(r) \/ LogoutRefresh(r) \/ Return(r)
        \/ \E pw \in Password : LoginUser(r, pw) \/ ChangePassword(r, pw)
        \/ \E t \in pairs : RefreshRead(r, t) \/ AccessBlack(r, t)
    \/ \E pw \in Password : ResetPassword(pw)
    \/ RevokeSessions \/ SwitchUser \/ DeleteUser \/ SwitchTenant
    \/ Tick
    \/ \E b \in black : BlackExpires(b)

Spec == Init /\ [][Next]_vars

-----------------------------------------------------------------------------
(* Properties *)

\* Type invariant of the sessions.
TypeOK ==
    /\ clock \in 0 .. MaxClock
    /\ tenant \in [ver : 1 .. MaxEpoch + 1, on : BOOLEAN]
    /\ user \in [status : {"on", "off", "gone"}, pw : Password, ver : 1 .. MaxEpoch + 1]
    /\ pairs \subseteq Pair
    /\ black \subseteq {"access", "refresh"} \X Pair
    /\ epoch \in 0 .. MaxEpoch

\* Revocation reaches every session: a request is let in, and an AI write passes
\* its last check, only with a token whose password was verified after the latest
\* revocation (password change, forced logout, change of status, tenant switch),
\* whatever logins and refreshes were under way when that was committed.  What
\* happens after a stale row was written back is left to RevocationHolds.
RevokedIsOut ==
    \A r \in Request : req[r].pc \in {"in", "wrote"} /\ ~stale => req[r].fresh

\* Rotation: of concurrent and repeated refreshes with one refresh token, at most one
\* gets a new pair as long as the token has not reached the second of its expiry.
RefreshedOnce == twice = {}

\* What a session promises: after a password change, a revocation or a logout no
\* request enters or writes with an older token, and a refresh token is redeemed
\* once however many refreshes race.
SessionsHold == TypeOK /\ RevokedIsOut /\ RefreshedOnce

\* "revoke all older user sessions" (change_password), "Atomically invalidate every
\* tenant token previously issued to a user" (revoke_sessions): as RevokedIsOut,
\* without exception.
\* The code does not meet it (README, "Where documents and code part").
RevocationHolds ==
    \A r \in Request : req[r].pc \in {"in", "wrote"} => req[r].fresh

\* The refresh end point "returns an entirely new access + refresh pair": the refresh
\* token of a new pair is not blacklisted already when it is handed out.
\* The code does not meet it (README, "Where documents and code part").
NewPairIsUsable ==
    [][\A r \in Request : req[r].pc = "issue" /\ req'[r] = Idle
          => <<"refresh", NewPair(r)>> \notin black]_vars
=============================================================================
