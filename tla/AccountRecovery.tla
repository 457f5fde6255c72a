-------------------------- MODULE AccountRecovery --------------------------
(***************************************************************************)
(* Account self service: one user name of one tenant, its recovery address, *)
(* and the e-mail codes that register it, bind an address or reset its       *)
(* password.  Codes live in Redis, the account in PostgreSQL; a request      *)
(* consumes the code first and commits afterwards.                          *)
(***************************************************************************)
EXTENDS Naturals, FiniteSets

CONSTANTS
    Request,        \* concurrent self-service requests
    Address,        \* e-mail addresses
    MaxTries,       \* verifications per code (5 in _VERIFY)
    MaxCode,        \* bound: codes issued
    MaxVersion      \* bound: auth_version

VARIABLES
    user,       \* sys_user: status, auth_version, user_email, email_verified_at
    codes,      \* live challenges: key, serial number of the code, attempts
    mailed,     \* serial numbers of the codes that were delivered
    issued,     \* codes issued so far
    lock,       \* the request that holds the user row FOR UPDATE, or NoOne
    req,        \* control state of the requests
    spent,      \* ghost: <<code, n>>: code was the n-th to change the account
    born,       \* ghost: auth_version when a code was issued
    proved      \* ghost: addresses whose owner returned a code

vars == <<user, codes, mailed, issued, lock, req, spent, born, proved>>

NoOne == "none"
Idle == [pc |-> "idle"]
Goto(r, s) == req' = [req EXCEPT ![r] = s]
UserRow == [status : {"none", "on", "off"}, ver : 1 .. MaxVersion,
            mail : Address, verified : 0 .. MaxCode]
Key == [purpose : {"register", "reset", "bind"}, ver : 1 .. MaxVersion,
        mail : Address, verified : 0 .. MaxCode, new : Address]

\* the unverified account that an administrator creates, or none yet
Init ==
    /\ user \in [status : {"none", "on"}, ver : {1}, mail : Address, verified : {0}]
    /\ codes = {} /\ mailed = {} /\ issued = 0
    /\ lock = NoOne
    /\ req = [r \in Request |-> Idle]
    /\ spent = {} /\ proved = {}
    /\ born = [i \in 1 .. MaxCode |-> 0]

Exists == user.status # "none"

-----------------------------------------------------------------------------
(* Challenges. *)

RegisterKey(m) == [purpose |-> "register", ver |-> 1, mail |-> m, verified |-> 0, new |-> m]
\* mutant: the identity of a challenge leaves the auth_version out
UnversionedKey == [purpose |-> "reset", ver |-> 1, mail |-> user.mail,
                   verified |-> user.verified, new |-> user.mail]
\* recovery_identity; email_verified_at is modelled by the code that verified it
ResetKey == [purpose |-> "reset", ver |-> user.ver, mail |-> user.mail,
             verified |-> user.verified, new |-> user.mail]
BindKey(m) == [ResetKey EXCEPT !.purpose = "bind", !.new = m]

Recoverable == user.status = "on" /\ user.verified # 0

\* Lua _ISSUE: replaces the challenge and forgets its attempts.  The mail may get lost
IssueCode(k, sent) ==
    /\ issued < MaxCode
    /\ issued' = issued + 1
    /\ born' = [born EXCEPT ![issued + 1] = user.ver]
    /\ codes' = {c \in codes : c.key # k} \union {[key |-> k, id |-> issued + 1, tries |-> 0]}
    /\ mailed' = IF sent THEN mailed \union {issued + 1} ELSE mailed

SendCode(sent) ==
    /\ \/ Recoverable /\ IssueCode(ResetKey, sent)
       \/ \E m \in Address : IssueCode(RegisterKey(m), sent)
    /\ UNCHANGED <<user, lock, req, spent, proved>>

\* mutant: the accepted code stays in Redis
CodeKept(c) == codes
\* Lua _VERIFY deletes the challenge with the comparison
CodeTaken(c) == codes \ {c}

\* Lua _VERIFY with the right code
Consume(k, c) ==
    /\ c.key = k /\ c.id \in mailed
    /\ c.tries + 1 <= MaxTries
    /\ codes' = CodeTaken(c)

\* Lua _VERIFY with a wrong code; the hourly total may be used up at any time
WrongCode(c, total) ==
    /\ codes' = IF c.tries + 1 > MaxTries \/ total
                  THEN codes \ {c}
                  ELSE (codes \ {c}) \union {[c EXCEPT !.tries = @ + 1]}
    /\ UNCHANGED <<user, mailed, issued, lock, req, spent, born, proved>>

CodeExpires(c) ==
    /\ codes' = codes \ {c}
    /\ UNCHANGED <<user, mailed, issued, lock, req, spent, born, proved>>

-----------------------------------------------------------------------------
(* Requests. *)

\* get_current_user
Enter(r) ==
    /\ req[r].pc = "idle" /\ user.status = "on"
    /\ Goto(r, [pc |-> "in", seen |-> user])
    /\ UNCHANGED <<user, codes, mailed, issued, lock, spent, born, proved>>

\* binding_context: row locked and reloaded, password verified, version compared
BindingContext(r) ==
    /\ req[r].pc = "in" /\ lock = NoOne
    /\ user.status = "on"
    /\ user.ver = req[r].seen.ver

SendBindCode(r, m, sent) ==
    /\ BindingContext(r)
    /\ IssueCode(BindKey(m), sent)
    /\ Goto(r, Idle)
    /\ UNCHANGED <<user, lock, spent, proved>>

\* password-reset: row locked and reloaded, identity computed, code consumed
ResetTake(r, c) ==
    /\ req[r].pc = "idle" /\ lock = NoOne
    /\ Recoverable
    /\ Consume(ResetKey, c)
    /\ lock' = r
    /\ Goto(r, [pc |-> "commit", code |-> c.id, row |-> [user EXCEPT !.ver = @ + 1]])
    /\ UNCHANGED <<user, mailed, issued, spent, born, proved>>

\* PUT /auth/email: the address is stored unverified, flushed, then verified
BindTake(r, m, c) ==
    /\ BindingContext(r)
    /\ Consume(BindKey(m), c)
    /\ lock' = r
    /\ Goto(r, [pc |-> "commit", code |-> c.id,
                row |-> [user EXCEPT !.mail = m, !.verified = c.id]])
    /\ UNCHANGED <<user, mailed, issued, spent, born, proved>>

\* register: there is no row to lock; the unique index decides at the INSERT
RegisterTake(r, m, c) ==
    /\ req[r].pc = "idle"
    /\ Consume(RegisterKey(m), c)
    /\ Goto(r, [pc |-> "insert", code |-> c.id,
                row |-> [status |-> "on", ver |-> 1, mail |-> m, verified |-> c.id]])
    /\ UNCHANGED <<user, mailed, issued, lock, spent, born, proved>>

Commit(r) ==
    /\ \/ req[r].pc = "commit" /\ lock' = NoOne
       \/ req[r].pc = "insert" /\ ~Exists /\ UNCHANGED lock
    /\ req[r].row.ver <= MaxVersion
    /\ user' = req[r].row
    /\ spent' = spent \union {<<req[r].code, Cardinality(spent)>>}
    /\ proved' = proved \union {req[r].row.mail}
    /\ Goto(r, Idle)
    /\ UNCHANGED <<codes, mailed, issued, born>>

\* the request dies or its INSERT conflicts: the code is gone, the row unchanged
Abort(r) ==
    /\ req[r].pc \in {"commit", "insert"}
    /\ lock' = IF lock = r THEN NoOne ELSE lock
    /\ Goto(r, Idle)
    /\ UNCHANGED <<user, codes, mailed, issued, spent, born, proved>>

-----------------------------------------------------------------------------
(* The other writers of the address and of the version. *)

\* mutant: a new address inherits the verification of the old one
MailKeepsTrust(u, m) == [u EXCEPT !.mail = m]
\* trigger trg_user_email_trust, whoever writes
WithMail(u, m) == [u EXCEPT !.mail = m, !.verified = IF m = u.mail THEN @ ELSE 0]

\* update_user and the user import
EditByAdmin(m, switch) ==
    /\ Exists /\ lock = NoOne
    /\ user.ver < MaxVersion
    /\ user' = IF switch
                 THEN [WithMail(user, m) EXCEPT !.status = IF @ = "on" THEN "off" ELSE "on",
                                                !.ver = @ + 1]
                 ELSE WithMail(user, m)
    /\ UNCHANGED <<codes, mailed, issued, lock, req, spent, born, proved>>

\* reset_password, change_password, revoke_sessions
Revoke ==
    /\ Exists /\ lock = NoOne
    /\ user.ver < MaxVersion
    /\ user' = [user EXCEPT !.ver = @ + 1]
    /\ UNCHANGED <<codes, mailed, issued, lock, req, spent, born, proved>>

\* update_profile: no lock; the ORM writes what differs from the loaded row
UpdateProfile(r, m) ==
    /\ req[r].pc = "in" /\ lock = NoOne /\ m # req[r].seen.mail
    /\ user' = [WithMail(user, m) EXCEPT !.verified = IF req[r].seen.verified = 0 THEN @ ELSE 0]
    /\ Goto(r, Idle)
    /\ UNCHANGED <<codes, mailed, issued, lock, spent, born, proved>>

Return(r) ==
    /\ req[r].pc = "in"
    /\ Goto(r, Idle)
    /\ UNCHANGED <<user, codes, mailed, issued, lock, spent, born, proved>>

Next ==
    \/ \E sent \in BOOLEAN : SendCode(sent)
    \/ \E c \in codes : CodeExpires(c) \/ \E total \in BOOLEAN : WrongCode(c, total)
    \/ \E r \in Request :
        \/ Enter(r) \/ Commit(r) \/ Abort(r) \/ Return(r)
        \/ \E m \in Address : UpdateProfile(r, m)
        \/ \E m \in Address, sent \in BOOLEAN : SendBindCode(r, m, sent)
        \/ \E c \in codes :
            \/ ResetTake(r, c)
            \/ \E m \in Address : BindTake(r, m, c) \/ RegisterTake(r, m, c)
    \/ \E m \in Address, switch \in BOOLEAN : EditByAdmin(m, switch)
    \/ Revoke

Spec == Init /\ [][Next]_vars

-----------------------------------------------------------------------------
(* Properties *)

\* Type invariant of the self service.
TypeOK ==
    /\ user \in UserRow
    /\ codes \subseteq [key : Key, id : 1 .. MaxCode, tries : 0 .. MaxTries]
    /\ mailed \subseteq 1 .. MaxCode /\ issued \in 0 .. MaxCode
    /\ lock \in Request \union {NoOne}

\* A mailed code changes the account at most once, although Redis and the database
\* commit separately and requests with the same code run side by side.
CodeSpentOnce == \A x, y \in spent : x[1] = y[1] => x = y

\* An address is on record as verified only if a code sent to it was returned,
\* whichever of the writers of the address came last.
VerifiedIsProved == user.verified # 0 => user.mail \in proved

\* A code mailed before the password was changed or the sessions were revoked is dead:
\* a reset or a binding about to commit uses a code issued for this auth_version.
OldCodeIsDead ==
    \A r \in Request : req[r].pc = "commit" => born[req[r].code] = user.ver

-----------------------------------------------------------------------------
(* The inductive invariant behind them *)

\* A reset may count one version further than the row does before it commits.
PendingRow == [status : {"none", "on", "off"}, ver : 1 .. MaxVersion + 1,
               mail : Address, verified : 0 .. MaxCode]
Taken(r) == req[r].pc \in {"commit", "insert"}

\* A live code belongs to the version its key names and was not spent.
CodeInv(c) ==
    /\ c.id <= issued
    /\ c.key.purpose # "register" => born[c.id] = c.key.ver
    /\ \A d \in codes : c.id = d.id => c = d
    /\ \A x \in spent : x[1] # c.id

\* A code that a request took is nowhere else, and who is about to commit a reset
\* or a binding holds the row.
ReqInv(r) ==
    /\ req[r].pc = "in" => req[r].seen \in UserRow
    /\ Taken(r) =>
        /\ req[r].code \in 1 .. issued
        /\ req[r].row \in PendingRow
        /\ \A c \in codes : c.id # req[r].code
        /\ \A x \in spent : x[1] # req[r].code
        /\ \A q \in Request \ {r} : Taken(q) => req[q].code # req[r].code
    /\ req[r].pc = "commit" =>
        lock = r /\ user.status = "on" /\ born[req[r].code] = user.ver

Inv ==
    /\ TypeOK /\ CodeSpentOnce /\ VerifiedIsProved
    /\ born \in [1 .. MaxCode -> 0 .. MaxVersion]
    /\ req = [r \in Request |-> req[r]]
    /\ \A x \in spent : x[1] \in 1 .. issued
    /\ \A c \in codes : CodeInv(c)
    /\ \A r \in Request : ReqInv(r)
=============================================================================
