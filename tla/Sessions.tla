------------------------------- MODULE Sessions -------------------------------
(***************************************************************************)
(* Login with its lockout, token refresh, logout, reported activity and    *)
(* changes of the password.  The login does not lock the row of the account*)
(* while it checks the password and issues the token.                      *)
(***************************************************************************)
EXTENDS UserRows

\* A login looks the account up; a locked one is refused at once.
StartLogin(r, a) ==
    /\ a.kind = "login"
    /\ ~Locked(a.user)
    /\ typed' = [typed EXCEPT ![r] = IF a.right THEN user[a.user].password ELSE Free]
    /\ Goto(r, "authenticate")
    /\ UNCHANGED <<held, at>>

\* Token refresh only parses its token before it locks, logout checks its
\* claims but neither the activity of the account nor the idle deadline, and
\* every other request of the account's owner is authenticated.
StartOwn(r, a) ==
    /\ a.kind \in {"refresh", "logout", "activity", "password", "email", "confirm_email", "profile"}
    /\ \E t \in Makers :
         /\ TokenUser(t, a.user)
         /\ CASE a.kind = "refresh" -> t \notin blacklist
              [] a.kind = "logout"  -> CurrentClaims(t)
              [] OTHER              -> Accepted(t)
         /\ held' = [held EXCEPT ![r] =
                       IF a.kind \in {"refresh", "logout", "activity"} THEN t ELSE Free]
    /\ typed' = [typed EXCEPT ![r] = user[a.user].password]
    /\ Goto(r, "run")
    /\ UNCHANGED at

\* The password is checked against the row as it is now, and the claims of the
\* token will be those of the row that was read here.
Authenticate(r) ==
    /\ At(r, "login", "authenticate")
    /\ LET row == user[Target(r)]
       IN  IF row.is_active /\ typed[r] = row.password
           THEN /\ token' = [token EXCEPT ![r] =
                               [user |-> Target(r), version |-> row.token_version,
                                password |-> row.password, sid |-> r, parent |-> r]]
                /\ Goto(r, "issue")
           ELSE /\ Goto(r, "fail")
                /\ UNCHANGED token
    /\ UNCHANGED <<now, user, lock, codeVars, session, issued, blacklist, inputVars, adminVars, revoked>>

\* _record_failed_login: a lock in force stays as it is, one that ran out starts
\* the count again.
AfterFailure(row) ==
    IF row.locked_until > now THEN row
    ELSE LET count == 1 + IF row.locked_until # Never THEN 0 ELSE row.failed_login_attempts
         IN  [row EXCEPT !.failed_login_attempts = count,
                         !.locked_until = IF count >= LOGIN_MAX_FAILED_ATTEMPTS
                                          THEN now + LOGIN_LOCKOUT ELSE Never]

RecordFailedLogin(r) ==
    /\ At(r, "login", "fail")
    /\ lock[Target(r)] = Free
    /\ user' = [user EXCEPT ![Target(r)] = AfterFailure(@)]
    /\ Finish(r)
    /\ UNCHANGED <<now, lock, codeVars, tokenVars, adminVars, revoked>>

\* Mutation: the claims are read again when the token is made.
CreateSessionReread(r) ==
    /\ At(r, "login", "issue")
    /\ session' = [session EXCEPT ![r] = now + AUTH_IDLE_TIMEOUT]
    /\ token' = [token EXCEPT ![r].version = user[Target(r)].token_version,
                              ![r].password = user[Target(r)].password]
    /\ Goto(r, "reset")
    /\ UNCHANGED <<now, user, lock, codeVars, issued, blacklist, inputVars, adminVars, revoked>>

\* create_session_token
CreateSession(r) ==
    /\ At(r, "login", "issue")
    /\ session' = [session EXCEPT ![r] = now + AUTH_IDLE_TIMEOUT]
    /\ Goto(r, "reset")
    /\ UNCHANGED <<now, user, lock, codeVars, token, issued, blacklist, inputVars, adminVars, revoked>>

AfterSuccess(row) == [row EXCEPT !.failed_login_attempts = 0, !.locked_until = Never]

\* The counter is reset whatever happened to it since, and the tokens are sent
\* if the new session has not already run out.
LoginSucceeds(r) ==
    /\ At(r, "login", "reset")
    /\ lock[Target(r)] = Free
    /\ user' = [user EXCEPT ![Target(r)] = AfterSuccess(@)]
    /\ issued' = IF SessionLive(r) THEN issued \union {r} ELSE issued
    /\ Finish(r)
    /\ UNCHANGED <<now, lock, codeVars, session, token, blacklist, adminVars, revoked>>

-----------------------------------------------------------------------------

\* PasswordAwareTokenRefreshSerializer: all of it holds under the row lock.
Rotatable(t) ==
    /\ user[token[t].user].is_active
    /\ CurrentClaims(t)
    /\ SessionLive(t)
    /\ t \notin blacklist

\* The rotated token keeps the claims; the session keeps its deadline.
Refresh(r) ==
    /\ AtRow(r, "refresh")
    /\ IF Rotatable(held[r])
       THEN /\ blacklist' = blacklist \union {held[r]}
            /\ token' = [token EXCEPT ![r] = [token[held[r]] EXCEPT !.parent = held[r]]]
            /\ issued' = issued \union {r}
       ELSE UNCHANGED <<blacklist, token, issued>>
    /\ Finish(r)
    /\ UNCHANGED <<now, user, lock, codeVars, session, adminVars, revoked>>

\* logout revokes every token of the account.
Logout(r) ==
    /\ AtRow(r, "logout")
    /\ IF held[r] \notin blacklist /\ token[held[r]].version = user[Target(r)].token_version
       THEN /\ blacklist' = blacklist \union {held[r]}
            /\ user' = [user EXCEPT ![Target(r)].token_version = @ + 1]
            /\ Revoke(Target(r))
       ELSE UNCHANGED <<blacklist, user, revoked>>
    /\ Finish(r)
    /\ UNCHANGED <<now, lock, codeVars, session, token, issued, adminVars>>

\* record_activity, under the row lock of the session.
RecordActivity(r) ==
    /\ At(r, "activity", "run")
    /\ session' = IF SessionLive(held[r])
                  THEN [session EXCEPT ![token[held[r]].sid] = now + AUTH_IDLE_TIMEOUT]
                  ELSE session
    /\ Finish(r)
    /\ UNCHANGED <<now, user, lock, codeVars, token, issued, blacklist, adminVars, revoked>>

\* change_password
ChangePassword(r) ==
    /\ AtRow(r, "password")
    /\ LET u == Target(r)
           row == user[u]
       IN  IF /\ row.is_active
              /\ \/ row.last_password_change_at = Never
                 \/ now - row.last_password_change_at >= PASSWORD_CHANGE_COOLDOWN
              /\ typed[r] = row.password
           THEN /\ user' = [user EXCEPT ![u].password = r, ![u].token_version = @ + 1,
                                        ![u].last_password_change_at = now]
                /\ DeleteCodes(u)
                /\ Revoke(u)
           ELSE UNCHANGED <<user, codeVars, revoked>>
    /\ Finish(r)
    /\ UNCHANGED <<now, lock, tokenVars, adminVars>>

\* forgot_password for AdminResetPasswordView: no cooldown, inactive accounts too.
AdminResetPassword(r) ==
    /\ AtRow(r, "admin_reset")
    /\ user' = [user EXCEPT ![Target(r)] = AfterReset(@, r)]
    /\ DeleteCodes(Target(r))
    /\ Revoke(Target(r))
    /\ Finish(r)
    /\ UNCHANGED <<now, lock, tokenVars, adminVars>>

SessionStep(r) ==
    \/ Authenticate(r)
    \/ RecordFailedLogin(r)
    \/ CreateSession(r)
    \/ LoginSucceeds(r)
    \/ Refresh(r)
    \/ Logout(r)
    \/ RecordActivity(r)
    \/ ChangePassword(r)
    \/ AdminResetPassword(r)
=============================================================================
