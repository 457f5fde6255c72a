-------------------------- MODULE AuthSessionProofs --------------------------
(***************************************************************************)
(* Proofs about AuthSession for any number of requests, passwords, seconds *)
(* and revocations: a token whose password was verified before the latest  *)
(* revocation lets nobody in, and a refresh token is redeemed once.        *)
(***************************************************************************)
EXTENDS AuthSession, TLAPS

\* The lives of the tokens and the bounds are numbers.
Constants ==
    /\ AccessLife \in Nat /\ RefreshLife \in Nat
    /\ MaxClock \in Nat /\ MaxEpoch \in Nat

-----------------------------------------------------------------------------
(* The inductive invariant *)

Types ==
    /\ clock \in 0 .. MaxClock /\ epoch \in 0 .. MaxEpoch
    /\ tenant \in [ver : 1 .. epoch + 1, on : BOOLEAN]
    /\ user \in [status : {"on", "off", "gone"}, pw : Password, ver : 1 .. epoch + 1]
    /\ pairs \subseteq Pair /\ black \subseteq {"access", "refresh"} \X pairs
    /\ redeemed \subseteq pairs /\ stale \in BOOLEAN
    /\ req = [r \in Request |-> req[r]]

\* Versions somebody read are not ahead of the rows.  (A stale row that is
\* written back sets the user's version back.)
Known(tver, uver) ==
    /\ tver \in 1 .. tenant.ver /\ uver \in 1 .. epoch + 1
    /\ ~stale => uver <= user.ver

\* They are the versions of now: nothing was revoked since they were read.
Current(tver, uver) ==
    ~stale /\ user.status # "gone" /\ tver = tenant.ver /\ uver = user.ver

\* A pair of the present versions carries a password verified after the latest
\* revocation; a redeemed refresh token is blacklisted while it lives.
PairInv(t) ==
    /\ Known(t.tver, t.uver)
    /\ Current(t.tver, t.uver) => Fresh(t)
    /\ t \in redeemed /\ clock < t.at + RefreshLife => <<"refresh", t>> \in black

ReqInv(r) ==
    /\ req[r].pc = "login" => req[r].tver \in 1 .. tenant.ver
    /\ req[r].pc = "issue" => /\ Known(req[r].tver, req[r].uver)
                              /\ Current(req[r].tver, req[r].uver) => epoch \in req[r].from
    /\ req[r].pc = "claim" => /\ req[r].old \in pairs
                              /\ req[r].tver = req[r].old.tver /\ req[r].uver = req[r].old.uver
    /\ req[r].pc \in {"load", "in", "logout"} => req[r].pair \in pairs
    /\ req[r].pc = "in" => req[r].seen = req[r].pair.uver
    /\ req[r].pc \in {"in", "wrote"} /\ ~stale => req[r].fresh

Inv ==
    /\ Types /\ RefreshedOnce
    /\ \A t \in pairs : PairInv(t)
    /\ \A r \in Request : ReqInv(r)

-----------------------------------------------------------------------------
(* Requests *)

\* The rows and the counters of revocations.
rows == <<tenant, user, epoch, stale>>

\* While nothing is revoked and no second passes, what holds of a pair holds on.
LEMMA PairStands ==
    ASSUME Inv, UNCHANGED <<rows, clock>>, NEW t \in pairs, proof \subseteq proof',
           t \in redeemed' => t \in redeemed \/ <<"refresh", t>> \in black',
           <<"refresh", t>> \in black => <<"refresh", t>> \in black'
    PROVE  PairInv(t)'
BY DEF Inv, PairInv, Known, Current, Fresh, rows

\* The other requests stand where they stood.
LEMMA ReqsStand ==
    ASSUME Inv, UNCHANGED rows, NEW r \in Request, NEW s, Goto(r, s), pairs \subseteq pairs',
           ReqInv(r)'
    PROVE  \A q \in Request : ReqInv(q)'
<1>1. \A q \in Request : q # r => req'[q] = req[q]
  BY DEF Inv, Types, Goto
<1> QED
  BY <1>1 DEF Inv, ReqInv, Known, Current, rows

\* A request changes its own state only.
LEMMA GoesOn ==
    ASSUME Inv, NEW r \in Request, NEW s, Goto(r, s), UNCHANGED <<rows, clock, redis, ghosts>>,
           s.pc = "login" => s.tver \in 1 .. tenant.ver,
           s.pc = "issue" => /\ Known(s.tver, s.uver)
                             /\ Current(s.tver, s.uver) => epoch \in s.from,
           s.pc = "claim" => s.old \in pairs /\ s.tver = s.old.tver /\ s.uver = s.old.uver,
           s.pc \in {"load", "in", "logout"} => s.pair \in pairs,
           s.pc = "in" => s.seen = s.pair.uver,
           s.pc \in {"in", "wrote"} /\ ~stale => s.fresh
    PROVE  Inv'
<1>1. req'[r] = s /\ req' = [q \in Request |-> req'[q]]
  BY DEF Inv, Types, Goto
<1>2. ReqInv(r)'
  BY <1>1 DEF ReqInv, Known, Current, rows, redis
<1>3. \A q \in Request : ReqInv(q)'
  BY <1>2, ReqsStand DEF redis
<1>4. \A t \in pairs' : PairInv(t)'
  BY PairStands DEF redis, ghosts
<1> QED
  BY <1>1, <1>3, <1>4 DEF Inv, Types, RefreshedOnce, rows, redis, ghosts

\* Logging in and being let in, and the end of a request.
LEMMA Serves ==
    ASSUME Inv, NEW r \in Request,
           \/ LoginTenant(r) \/ AccessLoad(r) \/ LiveWrite(r) \/ Return(r)
           \/ \E pw \in Password : LoginUser(r, pw)
           \/ \E t \in pairs : RefreshRead(r, t) \/ AccessBlack(r, t)
    PROVE  Inv'
<1>1. ReqInv(r) /\ Types
  BY DEF Inv
<1>2. CASE LoginTenant(r)
  BY <1>1, <1>2, GoesOn DEF LoginTenant, rows, redis, ghosts, Types
<1>3. \A s : Goto(r, s) /\ s.pc = "idle" /\ UNCHANGED <<rows, clock, redis, ghosts>> => Inv'
  BY GoesOn
<1>4. Idle.pc = "idle"
  BY DEF Idle
<1>5. ASSUME NEW pw \in Password, LoginUser(r, pw) PROVE Inv'
  <2>1. CASE user.status = "on" /\ user.pw = pw
    <3> DEFINE s == [pc |-> "issue", tver |-> req[r].tver, uver |-> user.ver, from |-> {epoch}]
    <3>1. Goto(r, s) /\ UNCHANGED <<rows, clock, redis, ghosts>> /\ req[r].pc = "login"
      BY <1>5, <2>1 DEF LoginUser, rows, redis, ghosts
    <3>2. Known(s.tver, s.uver) /\ epoch \in s.from /\ s.pc = "issue"
      BY <1>1, <3>1 DEF ReqInv, Known, Types
    <3> HIDE DEF s
    <3> QED
      BY <3>1, <3>2, GoesOn
  <2>2. CASE ~(user.status = "on" /\ user.pw = pw)
    BY <1>3, <1>4, <1>5, <2>2 DEF LoginUser, rows, redis, ghosts
  <2> QED
    BY <2>1, <2>2
<1>6. ASSUME NEW t \in pairs, RefreshRead(r, t) PROVE Inv'
  <2> DEFINE s == [pc |-> "claim", old |-> t, tver |-> tenant.ver, uver |-> user.ver]
  <2>1. Goto(r, s) /\ UNCHANGED <<rows, clock, redis, ghosts>>
    BY <1>6 DEF RefreshRead, rows, redis, ghosts
  <2>2. s.pc = "claim" /\ s.old = t /\ s.tver = t.tver /\ s.uver = t.uver
    BY <1>6 DEF RefreshRead, Matches
  <2> HIDE DEF s
  <2> QED
    BY <2>1, <2>2, GoesOn
<1>7. ASSUME NEW t \in pairs, AccessBlack(r, t) PROVE Inv'
  <2> DEFINE s == [pc |-> "load", pair |-> t]
  <2>1. Goto(r, s) /\ UNCHANGED <<rows, clock, redis, ghosts>> /\ s.pc = "load" /\ s.pair = t
    BY <1>7 DEF AccessBlack, rows, redis, ghosts
  <2> HIDE DEF s
  <2> QED
    BY <2>1, GoesOn
<1>8. CASE AccessLoad(r)
  <2> DEFINE p == req[r].pair
  <2>1. CASE Matches(p, p.uver)
    <3> DEFINE s == [pc |-> "in", pair |-> p, seen |-> user.ver, fresh |-> Fresh(p)]
    <3>1. Goto(r, s) /\ UNCHANGED <<rows, clock, redis, ghosts>> /\ req[r].pc = "load"
      BY <1>8, <2>1 DEF AccessLoad, rows, redis, ghosts
    <3>2. p \in pairs /\ PairInv(p)
      BY <1>1, <3>1 DEF ReqInv, Inv
    <3>3. ~stale => Fresh(p)
      BY <2>1, <3>2 DEF PairInv, Matches, Current
    <3>4. s.pc = "in" /\ s.pair = p /\ s.seen = p.uver /\ (~stale => s.fresh)
      BY <2>1, <3>3 DEF Matches
    <3> HIDE DEF s
    <3> QED
      BY <3>1, <3>2, <3>4, GoesOn
  <2>2. CASE ~Matches(p, p.uver)
    BY <1>3, <1>4, <1>8, <2>2 DEF AccessLoad, rows, redis, ghosts
  <2> QED
    BY <2>1, <2>2
<1>9. CASE LiveWrite(r)
  <2> DEFINE p == req[r].pair
  <2>1. CASE WriteAuthority(r)
    <3> DEFINE s == [pc |-> "wrote", pair |-> p, fresh |-> Fresh(p)]
    <3>1. Goto(r, s) /\ UNCHANGED <<rows, clock, redis, ghosts>> /\ req[r].pc = "in"
      BY <1>9, <2>1 DEF LiveWrite, rows, redis, ghosts
    <3>2. p \in pairs /\ PairInv(p) /\ req[r].seen = p.uver
      BY <1>1, <3>1 DEF ReqInv, Inv
    <3>3. ~stale => Fresh(p)
      BY <2>1, <3>2 DEF PairInv, WriteAuthority, Matches, Current
    <3>4. s.pc = "wrote" /\ (~stale => s.fresh)
      BY <3>3
    <3> HIDE DEF s
    <3> QED
      BY <3>1, <3>4, GoesOn
  <2>2. CASE ~WriteAuthority(r)
    BY <1>3, <1>4, <1>9, <2>2 DEF LiveWrite, rows, redis, ghosts
  <2> QED
    BY <2>1, <2>2
<1>10. CASE Return(r)
  BY <1>3, <1>4, <1>10 DEF Return, rows, redis, ghosts
<1> QED
  BY <1>2, <1>5, <1>6, <1>7, <1>8, <1>9, <1>10

\* A new pair carries the passwords its request carried.
LEMMA Issues ==
    ASSUME Constants, Inv, NEW r \in Request, Issue(r)
    PROVE  Inv'
<1> PICK t : t = NewPair(r)
  OBVIOUS
<1>1. /\ UNCHANGED <<rows, clock, black, redeemed, twice>> /\ Goto(r, Idle)
      /\ pairs' = pairs \cup {t} /\ proof' = proof \cup {<<t, e>> : e \in req[r].from}
  BY DEF Issue, rows
<1>2. Known(req[r].tver, req[r].uver) /\ (Current(req[r].tver, req[r].uver) => epoch \in req[r].from)
  BY DEF Inv, ReqInv, Issue
<1>3. t \in Pair /\ t.tver = req[r].tver /\ t.uver = req[r].uver /\ t.at = clock
  BY <1>2 DEF NewPair, Pair, Known, Inv, Types, Constants
<1>0. proof \subseteq proof'
  BY <1>1
<1>4. PairInv(t)'
  <2>1. CASE t \in pairs
    BY <1>0, <1>1, <2>1, PairStands
  <2>2. CASE t \notin pairs
    <3>1. t \notin redeemed
      BY <2>2 DEF Inv, Types
    <3>2. Current(t.tver, t.uver)' => Fresh(t)'
      BY <1>1, <1>2, <1>3 DEF Current, Fresh, rows
    <3> QED
      BY <1>1, <1>2, <1>3, <3>1, <3>2 DEF PairInv, Known, rows
  <2> QED
    BY <2>1, <2>2
<1>5. \A p \in pairs' : PairInv(p)'
  BY <1>0, <1>1, <1>4, PairStands
<1>6. Idle.pc = "idle" /\ req'[r] = Idle
  BY <1>1 DEF Idle, Inv, Types, Goto
<1>7. ReqInv(r)'
  BY <1>6 DEF ReqInv
<1>8. \A q \in Request : ReqInv(q)'
  BY <1>1, <1>7, ReqsStand
<1>9. Types'
  BY <1>1, <1>3 DEF Inv, Types, Goto, rows
<1> QED
  BY <1>1, <1>5, <1>8, <1>9 DEF Inv, RefreshedOnce

\* SET NX: the first refresh goes on with what the old pair carries, and no
\* refresh token that still lives is redeemed again.
LEMMA Claims ==
    ASSUME Constants, Inv, NEW r \in Request, RefreshClaim(r)
    PROVE  Inv'
<1> DEFINE t == req[r].old
           s == [pc |-> "issue", tver |-> req[r].tver, uver |-> req[r].uver,
                 from |-> {p[2] : p \in {p \in proof : p[1] = t}}]
<1>1. t \in pairs /\ PairInv(t) /\ req[r].tver = t.tver /\ req[r].uver = t.uver
  BY DEF RefreshClaim, Inv, ReqInv
<1>2. CASE TryBlacklist(t)
  <2>1. /\ UNCHANGED <<rows, clock, pairs, proof>> /\ Goto(r, s)
        /\ black' = black \cup {<<"refresh", t>>} /\ redeemed' = redeemed \cup {t}
        /\ twice' = IF clock < t.at + RefreshLife THEN twice \cup ({t} \cap redeemed) ELSE twice
    BY <1>2 DEF RefreshClaim, rows
  <2>2. <<"refresh", t>> \notin black
    BY <1>2 DEF TryBlacklist
  <2>3. twice' = {}
    BY <1>1, <2>1, <2>2 DEF PairInv, Inv, RefreshedOnce
  <2>4. Fresh(t) => epoch \in s.from
    BY DEF Fresh
  <2>5. s.pc = "issue" /\ s.tver = t.tver /\ s.uver = t.uver
    BY <1>1
  <2> HIDE DEF s
  <2>6. req'[r] = s
    BY <2>1 DEF Goto, Inv, Types
  <2>7. ReqInv(r)'
    BY <1>1, <2>1, <2>4, <2>5, <2>6 DEF ReqInv, PairInv, Known, Current, rows
  <2>8. \A q \in Request : ReqInv(q)'
    BY <2>1, <2>7, ReqsStand
  <2>9. \A p \in pairs' : PairInv(p)'
    BY <2>1, PairStands
  <2>10. Types'
    BY <1>1, <2>1 DEF Inv, Types, Goto, rows
  <2> QED
    BY <2>3, <2>8, <2>9, <2>10 DEF Inv, RefreshedOnce
<1>3. CASE ~TryBlacklist(t)
  <2>1. Goto(r, Idle) /\ Idle.pc = "idle" /\ UNCHANGED <<rows, clock, redis, ghosts>>
    BY <1>3 DEF RefreshClaim, Idle, rows, redis, ghosts
  <2> QED
    BY <2>1, GoesOn
<1> QED
  BY <1>2, <1>3

\* Logging out blacklists both tokens.
LEMMA LogsOut ==
    ASSUME Inv, NEW r \in Request, LogoutAccess(r) \/ LogoutRefresh(r)
    PROVE  Inv'
<1> DEFINE p == req[r].pair
<1>1. PICK kind \in {"access", "refresh"} :
        black' = black \cup {<<kind, p>>} /\ UNCHANGED <<rows, clock, pairs, ghosts>>
  BY DEF LogoutAccess, LogoutRefresh, rows, ghosts
<1>2. p \in pairs
  BY DEF LogoutAccess, LogoutRefresh, Inv, ReqInv
<1>3. PICK s : Goto(r, s) /\ (s.pc = "idle" \/ (s.pc = "logout" /\ s.pair = p))
  BY DEF LogoutAccess, LogoutRefresh, Idle
<1>4. req'[r] = s
  BY <1>3 DEF Goto, Inv, Types
<1>5. ReqInv(r)'
  BY <1>1, <1>2, <1>3, <1>4 DEF ReqInv
<1>6. \A q \in Request : ReqInv(q)'
  BY <1>1, <1>3, <1>5, ReqsStand
<1>7. \A t \in pairs' : PairInv(t)'
  BY <1>1, PairStands DEF ghosts
<1>8. Types'
  BY <1>1, <1>2, <1>3 DEF Inv, Types, Goto, rows, ghosts
<1> QED
  BY <1>1, <1>6, <1>7, <1>8 DEF Inv, RefreshedOnce, ghosts

-----------------------------------------------------------------------------
(* Revocations and time *)

\* What a revocation does: one more of them, and a new version, a deleted
\* account, or a row that was stale.
Revokes ==
    /\ epoch < MaxEpoch /\ epoch' = epoch + 1
    /\ UNCHANGED <<clock, pairs, black, proof, redeemed, twice>>
    /\ tenant' \in [ver : {tenant.ver, tenant.ver + 1}, on : BOOLEAN]
    /\ user' \in [status : {"on", "off", "gone"}, pw : Password, ver : 1 .. epoch + 2]
    /\ stale' \in BOOLEAN /\ (stale => stale')
    /\ ~stale' => /\ user'.ver >= user.ver
                  /\ user.status = "gone" => user'.status = "gone"
    /\ \/ tenant'.ver = tenant.ver + 1
       \/ user'.ver = user.ver + 1
       \/ user'.status = "gone" \/ stale'

\* Afterwards no version that anybody has read is the present one.
LEMMA RevokedIsPast ==
    ASSUME Constants, Inv, Revokes, NEW tver, NEW uver, Known(tver, uver)
    PROVE  Known(tver, uver)' /\ ~Current(tver, uver)'
BY DEF Inv, Types, Revokes, Known, Current, Constants

\* A revocation makes every older token past and leaves the requests, or ends
\* the one that asked for it: the invariant survives.
LEMMA RevokesKeep ==
    ASSUME Constants, Inv, Revokes,
           \/ req' = req
           \/ \E r \in Request : Goto(r, Idle)
    PROVE  Inv'
<1>1. \A t \in pairs' : PairInv(t)'
  BY RevokedIsPast DEF Inv, PairInv, Revokes
<1>2. \A r \in Request : (req'[r] = req[r] \/ req'[r].pc = "idle") => ReqInv(r)'
  <2> SUFFICES ASSUME NEW r \in Request, req'[r] = req[r] PROVE ReqInv(r)'
    BY DEF ReqInv
  <2>1. req[r].pc = "login" => req'[r].tver \in 1 .. tenant'.ver
    BY DEF Inv, Types, ReqInv, Revokes
  <2>2. req[r].pc = "issue" => Known(req[r].tver, req[r].uver)' /\ ~Current(req[r].tver, req[r].uver)'
    BY RevokedIsPast DEF Inv, ReqInv
  <2> QED
    BY <2>1, <2>2 DEF Inv, ReqInv, Revokes
<1>3. /\ \A r \in Request : req'[r] = req[r] \/ req'[r].pc = "idle"
      /\ req' = [r \in Request |-> req'[r]]
  BY DEF Goto, Idle, Inv, Types
<1>4. Types'
  BY <1>3 DEF Inv, Types, Revokes, Constants
<1> QED
  BY <1>1, <1>2, <1>3, <1>4 DEF Inv, RefreshedOnce, Revokes

\* A changed password, status or tenant, forced logout, a deleted account.
LEMMA AccountsChange ==
    ASSUME Constants, Inv,
           \/ RevokeSessions \/ SwitchUser \/ DeleteUser \/ SwitchTenant
           \/ \E pw \in Password : ResetPassword(pw) \/ \E r \in Request : ChangePassword(r, pw)
    PROVE  Inv'
<1>1. Types
  BY DEF Inv
<1>2. CASE RevokeSessions \/ SwitchUser \/ DeleteUser \/ \E pw \in Password : ResetPassword(pw)
  <2>1. /\ user' \in [status : {"on", "off", "gone"}, pw : Password, ver : 1 .. epoch + 2]
        /\ user'.ver = user.ver + 1 \/ (user'.ver = user.ver /\ user'.status = "gone")
        /\ user.status # "gone"
    <3>1. user \in [status : {"on", "off", "gone"}, pw : Password, ver : 1 .. epoch + 1]
      BY <1>1 DEF Types
    <3>2. user.ver \in 1 .. epoch + 2 /\ user.ver + 1 \in 1 .. epoch + 2
      BY <1>1, <3>1 DEF Types, Constants
    <3>3. /\ user.status # "gone"
          /\ \/ \E status \in {"on", "off", "gone"}, pw \in Password :
                  user' = [status |-> status, pw |-> pw, ver |-> user.ver + 1]
             \/ user' = [status |-> "gone", pw |-> user.pw, ver |-> user.ver]
      <4>1. CASE RevokeSessions \/ SwitchUser
        BY <3>1, <4>1 DEF RevokeSessions, SwitchUser
      <4>2. CASE DeleteUser
        BY <3>1, <4>2 DEF DeleteUser
      <4>3. ASSUME NEW pw \in Password, ResetPassword(pw)
            PROVE  user.status # "gone" /\ user' = [status |-> user.status, pw |-> pw, ver |-> user.ver + 1]
        BY <3>1, <4>3 DEF ResetPassword
      <4> QED
        BY <1>2, <3>1, <4>1, <4>2, <4>3
    <3> QED
      BY <3>1, <3>2, <3>3
  <2>2. /\ epoch < MaxEpoch /\ epoch' = epoch + 1 /\ req' = req /\ tenant' = tenant /\ stale' = stale
        /\ UNCHANGED <<clock, pairs, black, proof, redeemed, twice>>
    BY <1>2 DEF Revoking, ResetPassword, RevokeSessions, SwitchUser, DeleteUser, redis
  <2>3. Revokes
    BY <1>1, <2>1, <2>2 DEF Types, Constants, Revokes
  <2> QED
    BY <2>2, <2>3, RevokesKeep
<1>3. CASE SwitchTenant
  <2>1. Revokes /\ req' = req
    BY <1>1, <1>3 DEF Types, Constants, Revokes, Revoking, SwitchTenant, redis
  <2> QED
    BY <2>1, RevokesKeep
<1>4. ASSUME NEW r \in Request, NEW pw \in Password, ChangePassword(r, pw) PROVE Inv'
  <2>1. req[r].seen \in 1 .. epoch + 1
    BY <1>4 DEF ChangePassword, Inv, ReqInv, PairInv, Known
  <2>2. user' = [user EXCEPT !.pw = pw, !.ver = req[r].seen + 1]
    BY <1>4 DEF ChangePassword
  <2>3. /\ user' \in [status : {"on", "off", "gone"}, pw : Password, ver : 1 .. epoch + 2]
        /\ user'.ver = req[r].seen + 1 /\ user'.status = user.status
    <3>1. user \in [status : {"on", "off", "gone"}, pw : Password, ver : 1 .. epoch + 1]
      BY <1>1 DEF Types
    <3>2. user' = [status |-> user.status, pw |-> pw, ver |-> req[r].seen + 1]
      BY <2>2, <3>1
    <3>3. req[r].seen + 1 \in 1 .. epoch + 2
      BY <1>1, <2>1 DEF Types, Constants
    <3> QED
      BY <1>4, <3>1, <3>2, <3>3
  <2>4. stale' \in BOOLEAN /\ (stale => stale') /\ (~stale' => req[r].seen = user.ver)
    BY <1>1, <1>4 DEF ChangePassword, Types
  <2>5. /\ epoch < MaxEpoch /\ epoch' = epoch + 1 /\ tenant' = tenant /\ Goto(r, Idle)
        /\ UNCHANGED <<clock, pairs, black, proof, redeemed, twice>>
    BY <1>4 DEF ChangePassword, Revoking, redis
  <2>6. tenant \in [ver : {tenant.ver, tenant.ver + 1}, on : BOOLEAN]
    BY <1>1 DEF Types
  <2>7. Revokes
    BY <1>1, <2>3, <2>4, <2>5, <2>6 DEF Types, Constants, Revokes
  <2> QED
    BY <2>5, <2>7, RevokesKeep
<1> QED
  BY <1>2, <1>3, <1>4

\* A second passes, and a blacklisted token whose life is over is forgotten.
LEMMA TimePasses ==
    ASSUME Constants, Inv,
           Tick \/ \E b \in black : BlackExpires(b)
    PROVE  Inv'
<1>1. Types /\ \A t \in pairs : t.at \in Nat /\ t.at + RefreshLife \in Nat
  BY DEF Inv, Types, Pair, Constants
<1>2. UNCHANGED <<rows, pairs, req, ghosts>>
  BY DEF Tick, BlackExpires, rows, redis, ghosts
<1>3. \A r \in Request : ReqInv(r)'
  BY <1>2 DEF Inv, ReqInv, Known, Current, rows
<1>4. ASSUME NEW t \in pairs, t \in redeemed, clock' < t.at + RefreshLife
      PROVE  <<"refresh", t>> \in black'
  <2>1. clock < t.at + RefreshLife
    BY <1>1, <1>4 DEF Types, Tick, BlackExpires
  <2>2. <<"refresh", t>> \in black
    BY <1>4, <2>1 DEF Inv, PairInv
  <2>3. CASE Tick
    BY <2>2, <2>3 DEF Tick, redis
  <2>4. ASSUME NEW b \in black, BlackExpires(b) PROVE <<"refresh", t>> \in black'
    <3>1. CASE b = <<"refresh", t>>
      <4>1. clock >= t.at + RefreshLife
        BY <2>4, <3>1 DEF BlackExpires, Life
      <4> QED
        BY <1>1, <2>1, <4>1 DEF Types
    <3> QED
      BY <2>2, <2>4, <3>1 DEF BlackExpires
  <2> QED
    BY <2>3, <2>4
<1>5. \A t \in pairs' : PairInv(t)'
  <2>1. ASSUME NEW t \in pairs
        PROVE  Known(t.tver, t.uver)' /\ (Current(t.tver, t.uver)' => Fresh(t)')
    <3>1. Known(t.tver, t.uver) /\ (Current(t.tver, t.uver) => Fresh(t))
      BY DEF Inv, PairInv
    <3>2. tenant' = tenant /\ user' = user /\ epoch' = epoch /\ stale' = stale /\ proof' = proof
      BY <1>2 DEF rows, ghosts
    <3> QED
      BY <3>1, <3>2 DEF Known, Current, Fresh
  <2> QED
    BY <1>2, <1>4, <2>1 DEF PairInv, ghosts
<1>6. Types'
  BY <1>1, <1>2 DEF Types, Constants, Tick, BlackExpires, redis, rows, ghosts
<1> QED
  BY <1>2, <1>3, <1>5, <1>6 DEF Inv, RefreshedOnce, ghosts

-----------------------------------------------------------------------------
(* Theorems *)

\* The invariant holds at the start and after every step, whatever logins,
\* refreshes and revocations are under way.
THEOREM Invariance ==
    ASSUME Constants
    PROVE  Spec => []Inv
<1>1. Init => Inv
  <2> SUFFICES ASSUME Init PROVE Inv
    OBVIOUS
  <2>1. Types
    <3>1. 0 \in 0 .. MaxClock /\ 0 \in 0 .. MaxEpoch /\ 1 \in 1 .. 0 + 1
      BY DEF Constants
    <3>2. user \in [status : {"on", "off", "gone"}, pw : Password, ver : 1 .. 0 + 1]
      BY <3>1 DEF Init
    <3>3. req = [r \in Request |-> req[r]]
      BY DEF Init
    <3> QED
      BY <3>1, <3>2, <3>3 DEF Init, Types
  <2>2. \A r \in Request : ReqInv(r)
    BY DEF Init, ReqInv, Idle
  <2> QED
    BY <2>1, <2>2 DEF Init, Inv, RefreshedOnce
<1>2. Inv /\ [Next]_vars => Inv'
  <2> SUFFICES ASSUME Inv, [Next]_vars PROVE Inv'
    OBVIOUS
  <2>1. CASE UNCHANGED vars
    <3>1. UNCHANGED <<rows, clock, redis, ghosts>> /\ req' = req
      BY <2>1 DEF vars, rows, ghosts, redis
    <3>2. \A r \in Request : ReqInv(r)'
      BY <3>1 DEF Inv, ReqInv, Known, Current, rows, redis
    <3>3. \A t \in pairs' : PairInv(t)'
      BY <3>1, PairStands DEF redis, ghosts
    <3> QED
      BY <3>1, <3>2, <3>3 DEF Inv, Types, RefreshedOnce, rows, redis, ghosts
  <2>4. CASE \E r \in Request : Issue(r) \/ RefreshClaim(r) \/ LogoutAccess(r) \/ LogoutRefresh(r)
    BY <2>4, Issues, Claims, LogsOut
  <2>5. Next => \/ \E r \in Request :
                    \/ LoginTenant(r) \/ AccessLoad(r) \/ LiveWrite(r) \/ Return(r)
                    \/ \E pw \in Password : LoginUser(r, pw)
                    \/ \E t \in pairs : RefreshRead(r, t) \/ AccessBlack(r, t)
                \/ \E r \in Request : Issue(r) \/ RefreshClaim(r) \/ LogoutAccess(r) \/ LogoutRefresh(r)
                \/ \E pw \in Password : ResetPassword(pw) \/ \E r \in Request : ChangePassword(r, pw)
                \/ RevokeSessions \/ SwitchUser \/ DeleteUser \/ SwitchTenant
                \/ Tick \/ \E b \in black : BlackExpires(b)
    BY DEF Next
  <2> QED
    BY <2>1, <2>4, <2>5, Serves, TimePasses, AccountsChange
<1> QED
  BY <1>1, <1>2, PTL DEF Spec

\* A request is let in, and an AI write passes its last check, only with a token
\* whose password was verified after the latest revocation (until a stale user
\* row has been written back), and of racing refreshes with one token one gets a
\* new pair while the token lives.
THEOREM SessionsStaySound ==
    ASSUME Constants
    PROVE  Spec => []SessionsHold
<1>1. Inv => SessionsHold
  <2> SUFFICES ASSUME Inv PROVE SessionsHold
    OBVIOUS
  <2>1. TypeOK
    BY DEF Inv, Types, TypeOK, Constants
  <2>2. RevokedIsOut
    BY DEF Inv, ReqInv, RevokedIsOut
  <2> QED
    BY <2>1, <2>2 DEF Inv, SessionsHold
<1> QED
  BY <1>1, Invariance, PTL
=============================================================================
