------------------------------- MODULE Recovery -------------------------------
(***************************************************************************)
(* One-time codes: password reset by mail, change of the recovery e-mail,  *)
(* and the profile edits that end a code.  A code is committed before its  *)
(* mail is sent; sending may fail after any delay.  Codes are named by the *)
(* request that issued them; two codes never coincide here.                *)
(***************************************************************************)
EXTENDS UserRows

Identity(u) == <<user[u].username, user[u].email>>

Taken(field, v, u) == \E w \in Users \ {u} : user[w][field] = v

\* _matching_active_user, for the request of a code and for its confirmation.
StartReset(r, a) ==
    /\ a.kind \in {"forgot", "confirm_reset"}
    /\ user[a.user].is_active
    /\ typed' = [typed EXCEPT ![r] = Identity(a.user)]
    /\ at' = [at EXCEPT ![r] = IF a.kind = "forgot" THEN now ELSE Never]
    /\ Goto(r, "run")
    /\ UNCHANGED held

\* Mutation: the account is not checked again under the lock.
StillMatchesUnchecked(r) == TRUE

\* The checks are repeated under the row lock.
StillMatches(r) == user[Target(r)].is_active /\ typed[r] = Identity(Target(r))

\* request_password_reset compares and stores the time it read at its start.
RequestPasswordReset(r) ==
    /\ AtRow(r, "forgot")
    /\ LET u == Target(r)
       IN  IF /\ StillMatches(r)
              /\ resetCode[u] = NoCode \/ resetCode[u].sent_at + OTP_RESEND_COOLDOWN <= at[r]
           THEN /\ resetCode' = [resetCode EXCEPT ![u] =
                                   [code |-> r, to |-> typed[r], expires_at |-> at[r] + OTP_TIMEOUT,
                                    sent_at |-> at[r], failed_attempts |-> 0]]
                /\ Goto(r, "mail")
                /\ UNCHANGED inputVars
           ELSE Finish(r) /\ UNCHANGED resetCode
    /\ UNCHANGED <<now, user, lock, emailCode, tokenVars, adminVars, revoked>>

\* The mail is sent, by either kind of request.
SendMail(r) ==
    /\ pc[r] = "mail"
    /\ Finish(r)
    /\ UNCHANGED <<now, user, lock, codeVars, tokenVars, adminVars, revoked>>

\* Mutation: the code is deleted whoever issued it.
WithoutAnyCode(codes, r) == [codes EXCEPT ![Target(r)] = NoCode]

\* Only the code of this request is deleted (otp_digest=otp_digest).
WithoutCode(codes, r) ==
    [codes EXCEPT ![Target(r)] = IF @.code = r THEN NoCode ELSE @]

\* Sending raised: the code is withdrawn.
MailFails(r) ==
    /\ pc[r] = "mail"
    /\ IF ask[r].kind = "forgot"
       THEN resetCode' = WithoutCode(resetCode, r) /\ UNCHANGED emailCode
       ELSE emailCode' = WithoutCode(emailCode, r) /\ UNCHANGED resetCode
    /\ Finish(r)
    /\ UNCHANGED <<now, user, lock, tokenVars, adminVars, revoked>>

\* A wrong code is counted; the last permitted one ends the challenge.
AfterWrongCode(c) ==
    IF c.failed_attempts + 1 >= OTP_MAX_ATTEMPTS THEN NoCode
    ELSE [c EXCEPT !.failed_attempts = @ + 1]

\* reset_password_with_otp with the code that request otp issued.
ResetPassword(r, otp) ==
    /\ AtRow(r, "confirm_reset")
    /\ LET u == Target(r)
           c == resetCode[u]
       IN  \/ /\ ~StillMatches(r) \/ c = NoCode
              /\ UNCHANGED <<user, codeVars, revoked>>
           \/ /\ StillMatches(r) /\ c # NoCode
              /\ c.expires_at <= now
              /\ resetCode' = [resetCode EXCEPT ![u] = NoCode]
              /\ UNCHANGED <<user, emailCode, revoked>>
           \/ /\ StillMatches(r) /\ c # NoCode
              /\ c.expires_at > now
              /\ <<c.code, c.to>> # <<otp, typed[r]>>
              /\ resetCode' = [resetCode EXCEPT ![u] = AfterWrongCode(c)]
              /\ UNCHANGED <<user, emailCode, revoked>>
           \/ /\ StillMatches(r) /\ c # NoCode
              /\ c.expires_at > now
              /\ <<c.code, c.to>> = <<otp, typed[r]>>
              /\ user' = [user EXCEPT ![u] = AfterReset(@, r)]
              /\ DeleteCodes(u)
              /\ Revoke(u)
    /\ Finish(r)
    /\ UNCHANGED <<now, lock, tokenVars, adminVars>>

-----------------------------------------------------------------------------
\* _credentials of e-mail changes.
Credentials(r) ==
    LET row == user[Target(r)]
    IN  /\ row.is_active
        /\ typed[r] = row.password
        /\ ask[r].email # row.email
        /\ ~Taken("email", ask[r].email, Target(r))

\* request_email_change
RequestEmailChange(r) ==
    /\ AtRow(r, "email")
    /\ LET u == Target(r)
       IN  IF /\ Credentials(r)
              /\ emailCode[u] = NoCode \/ emailCode[u].sent_at + OTP_RESEND_COOLDOWN <= now
           THEN /\ emailCode' = [emailCode EXCEPT ![u] =
                                   [code |-> r, to |-> ask[r].email, password |-> typed[r],
                                    expires_at |-> now + OTP_TIMEOUT,
                                    sent_at |-> now, failed_attempts |-> 0]]
                /\ Goto(r, "mail")
                /\ UNCHANGED inputVars
           ELSE Finish(r) /\ UNCHANGED emailCode
    /\ UNCHANGED <<now, user, lock, resetCode, tokenVars, adminVars, revoked>>

\* confirm_email_change; the notice to the old address has no effect here.
ConfirmEmailChange(r, otp) ==
    /\ AtRow(r, "confirm_email")
    /\ LET u == Target(r)
           c == emailCode[u]
       IN  \/ /\ ~Credentials(r) \/ c = NoCode
              /\ UNCHANGED <<user, codeVars, revoked>>
           \/ /\ Credentials(r) /\ c # NoCode
              /\ c.expires_at <= now
              /\ emailCode' = [emailCode EXCEPT ![u] = NoCode]
              /\ UNCHANGED <<user, resetCode, revoked>>
           \/ /\ Credentials(r) /\ c # NoCode
              /\ c.expires_at > now
              /\ <<c.code, c.to, c.password>> # <<otp, ask[r].email, typed[r]>>
              /\ emailCode' = [emailCode EXCEPT ![u] = AfterWrongCode(c)]
              /\ UNCHANGED <<user, resetCode, revoked>>
           \/ /\ Credentials(r) /\ c # NoCode
              /\ c.expires_at > now
              /\ <<c.code, c.to, c.password>> = <<otp, ask[r].email, typed[r]>>
              /\ user' = [user EXCEPT ![u].email = ask[r].email, ![u].token_version = @ + 1,
                                      ![u].last_profile_update_at = now]
              /\ DeleteCodes(u)
              /\ Revoke(u)
    /\ Finish(r)
    /\ UNCHANGED <<now, lock, tokenVars, adminVars>>

\* update_own_profile with a new username.  A refusal rolls the deletion of the
\* reset code back.  Names and addresses change nothing that is modelled.
UpdateOwnProfile(r) ==
    /\ AtRow(r, "profile")
    /\ LET u == Target(r)
           row == user[u]
       IN  IF /\ ask[r].username # row.username
              /\ typed[r] = row.password
              /\ \/ row.last_profile_update_at = Never
                 \/ now - row.last_profile_update_at >= PROFILE_EDIT_COOLDOWN
              /\ ~Taken("username", ask[r].username, u)
           THEN /\ user' = [user EXCEPT ![u].username = ask[r].username,
                                        ![u].last_profile_update_at = now]
                /\ resetCode' = [resetCode EXCEPT ![u] = NoCode]
           ELSE UNCHANGED <<user, resetCode>>
    /\ Finish(r)
    /\ UNCHANGED <<now, lock, emailCode, tokenVars, adminVars, revoked>>

RecoveryStep(r) ==
    \/ RequestPasswordReset(r)
    \/ SendMail(r)
    \/ MailFails(r)
    \/ \E otp \in Makers : ResetPassword(r, otp)
    \/ RequestEmailChange(r)
    \/ \E otp \in Makers : ConfirmEmailChange(r, otp)
    \/ UpdateOwnProfile(r)
=============================================================================
