------------------------------- MODULE Accounts -------------------------------
(***************************************************************************)
(* The accounts application: logins, tokens and sessions, recovery codes   *)
(* and the administration of accounts, running concurrently on the same    *)
(* rows.                                                                   *)
(***************************************************************************)
EXTENDS Sessions, Recovery, AdminChanges

\* A request arrives and its first, unlocked read does not refuse it.
Start(r) ==
    /\ pc[r] = "idle"
    /\ \E a \in AsksOf[r] :
         /\ ask' = [ask EXCEPT ![r] = a]
         /\ StartLogin(r, a) \/ StartOwn(r, a) \/ StartReset(r, a) \/ StartAdmin(r, a)
    /\ UNCHANGED <<now, user, lock, codeVars, tokenVars, adminVars, revoked>>

\* The worker dies, or the database breaks a deadlock: the transaction in
\* progress is rolled back, what was committed before it stays.
Abort(r) ==
    /\ pc[r] \notin {"idle", "done"}
    /\ Finish(r)
    /\ EndTransaction(r)
    /\ UNCHANGED <<now, user, codeVars, tokenVars, revoked, grown>>

Next ==
    \/ Tick
    \/ \E r \in Requests :
         \/ Start(r)
         \/ SessionStep(r)
         \/ RecoveryStep(r)
         \/ AdminStep(r)
         \/ Abort(r)

Spec == Init /\ [][Next]_vars

-----------------------------------------------------------------------------
TypeOK ==
    /\ now \in 0..MaxTime
    /\ \A u \in Users :
         /\ user[u].role \in {"admin", "staff"}
         /\ user[u].is_active \in BOOLEAN
         /\ user[u].token_version \in Nat
         /\ user[u].password \in Makers
         /\ user[u].failed_login_attempts \in 0..LOGIN_MAX_FAILED_ATTEMPTS
         /\ resetCode[u].code \in Requests \union {Free}
         /\ emailCode[u].code \in Requests \union {Free}
    /\ lock \in [Users -> Requests \union {Free}]
    /\ issued \subseteq Makers
    /\ blacklist \subseteq issued
    /\ queue \in [Requests -> SUBSET Users]

\* A token whose credentials were checked before its account was logged out,
\* deactivated, given a new password or confirmed a new e-mail is never accepted
\* again, also when the login was still running then, when the token was rotated since, and
\* after a reactivation (README.md, "revokes existing access and refresh tokens
\* permanently"; check_token_version).
RevokedForGood == \A t \in revoked : ~Accepted(t)

\* Two concurrent uses of a refresh token do not both rotate it.
RotatedOnce ==
    \A s, t \in issued :
        s # t /\ token[s].parent = token[t].parent => token[s].parent \in {s, t}

\* An idle deadline that has passed is never moved again (README.md, "expired
\* sessions cannot be revived"), however long the activity waited.
ExpiredStaysExpired ==
    [][\A s \in Makers :
          session[s] # Never /\ session[s] <= now => session'[s] = session[s]]_vars

\* An account has a lockout exactly when its failures reached the limit: late
\* failures, a success that overtakes them and resets do not separate the two.
LockoutMatchesFailures ==
    \A u \in Users :
        user[u].locked_until # Never <=>
            user[u].failed_login_attempts = LOGIN_MAX_FAILED_ATTEMPTS

\* What sign-in relies on: revoked tokens stay revoked, a refresh token is used
\* once, and the lockout is that of the failures counted.
SignInSafety == RevokedForGood /\ RotatedOnce /\ LockoutMatchesFailures

\* A pending code belongs to the account as it is now: it was sent to the
\* current identity, or made under the current password, of an active account.
CodesMatchAccount ==
    \A u \in Users :
        /\ resetCode[u] # NoCode =>
              user[u].is_active /\ resetCode[u].to = Identity(u)
        /\ emailCode[u] # NoCode =>
              user[u].is_active /\ emailCode[u].password = user[u].password

\* A code disappears only with a change of its account or when an admin saves it
\* (also with the same e-mail and username), when it has expired or was tried
\* too often, or when its own mail failed: never because an earlier
\* mail failed late.
CodeEndsForAReason ==
    [][\A u \in Users :
         \A codes \in {<<resetCode[u], resetCode'[u]>>, <<emailCode[u], emailCode'[u]>>} :
          codes[1] # NoCode /\ codes[2] = NoCode =>
              \/ user'[u] # user[u]
              \/ \E r \in Requests : At(r, "update", "commit") /\ Target(r) = u /\ pc'[r] = "done"
              \/ codes[1].expires_at <= now
              \/ codes[1].failed_attempts + 1 >= OTP_MAX_ATTEMPTS
              \/ pc[codes[1].code] = "mail" /\ pc'[codes[1].code] = "done"]_vars

\* What ends by itself ends for a reason and does not come back: idle sessions and
\* one-time codes (the two action properties above).
EndsForAReason == ExpiredStaysExpired /\ CodeEndsForAReason

\* admin_service.py: "Cannot remove the last active admin."
AdminRemains == \E u \in Users : IsAdmin(u)

\* Until somebody is made an admin, concurrent deactivations and demotions leave
\* one ("Cannot remove the last active admin."): every change locks all rows that
\* still are admins before it counts them.
AdminRemainsOfOld == ~grown => AdminRemains
=============================================================================
