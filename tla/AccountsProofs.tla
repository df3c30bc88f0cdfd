----------------------------- MODULE AccountsProofs -----------------------------
(***************************************************************************)
(* For every number of users and requests and every value of the limits:   *)
(* the accounts application keeps its promises about sign-in, one-time     *)
(* codes and the last admin.                                               *)
(***************************************************************************)
EXTENDS Accounts, FiniteSums

\* A row of Users.
Row ==
    [role : {"admin", "staff"}, is_active : BOOLEAN, token_version : Nat, password : Makers,
     failed_login_attempts : 0..LOGIN_MAX_FAILED_ATTEMPTS, locked_until : Int,
     username : Nat, email : Nat, last_password_change_at : Int, last_profile_update_at : Int]

ResetCodes ==
    [code : Requests, to : Nat \X Nat, expires_at : Int, sent_at : Int, failed_attempts : Nat]

EmailCodes ==
    [code : Requests, to : Nat, password : Makers, expires_at : Int, sent_at : Int,
     failed_attempts : Nat]

Tokens == [user : Users, version : Nat, password : Makers, sid : Makers, parent : Makers]

Steps == {"idle", "authenticate", "fail", "issue", "reset", "run", "mail",
          "find", "lock", "check", "commit", "done"}

\* Rows keep their types, and the lockout is that of the failures.
RowsTyped ==
    /\ now \in 0..MaxTime
    /\ user \in [Users -> Row]
    /\ LockoutMatchesFailures

CodesTyped ==
    /\ resetCode \in [Users -> ResetCodes \union {NoCode}]
    /\ emailCode \in [Users -> EmailCodes \union {NoCode}]

\* A request that is under way asks for something it may ask for.
RequestsTyped ==
    /\ pc \in [Requests -> Steps]
    /\ ask \in [Requests -> (UNION {AsksOf[r] : r \in Requests}) \union {NoAsk}]
    /\ \A r \in Requests : pc[r] \notin {"idle", "done"} => ask[r] \in AsksOf[r]
    /\ typed \in [Requests -> Makers \union {Free} \union (Nat \X Nat)]
    /\ held \in [Requests -> Makers \union {Free}]
    /\ at \in [Requests -> Int]

LocksTyped ==
    /\ lock \in [Users -> Requests \union {Free}]
    /\ queue \in [Requests -> SUBSET Users]
    /\ grown \in BOOLEAN

\* Tokens are made once, by a login that has not ended or a rotation, and sent
\* when their maker is done.  What a client sends was sent to it.
TokensTyped ==
    /\ token \in [Makers -> Tokens \union {NoToken}]
    /\ issued \subseteq {t \in Makers : token[t] # NoToken}
    /\ blacklist \subseteq issued
    /\ revoked \subseteq Makers
    /\ \A r \in Requests :
         /\ token[r] # NoToken => pc[r] \in {"issue", "reset", "done"}
         /\ pc[r] \in {"issue", "reset"} => token[r] # NoToken
         /\ r \in issued => pc[r] = "done"
         /\ pc[r] = "run" /\ ask[r].kind \in {"refresh", "logout", "activity"} =>
              held[r] \in issued /\ token[held[r]].user = Target(r)

SessionsTyped ==
    /\ session \in [Makers -> Int]
    /\ \A r \in Requests : session[r] # Never => pc[r] \in {"reset", "done"}

Typed ==
    /\ RowsTyped
    /\ CodesTyped
    /\ RequestsTyped
    /\ LocksTyped
    /\ TokensTyped
    /\ SessionsTyped

-----------------------------------------------------------------------------
\* The values that stand for "none" differ from those they stand beside.
LEMMA SentinelFacts ==
    /\ \A c \in ResetCodes \union EmailCodes : c # NoCode /\ c.code # Free
    /\ \A t \in Tokens : t # NoToken
    /\ Requests \subseteq Makers /\ Old \in Makers /\ Old \notin Requests
    /\ Users \subseteq Int /\ Never \notin Users /\ Never \in Int
<1>1. \A c \in ResetCodes \union EmailCodes : c.code \in Requests
    BY DEF ResetCodes, EmailCodes
<1>2. Free \notin Requests /\ NoCode.code = Free
    BY AccountsAssumption DEF NoCode
<1>3. \A t \in Tokens : t.user \in Users
    BY DEF Tokens
<1>4. Never \notin Users /\ NoToken.user = Never
    BY AccountsAssumption DEF Never, NoToken
<1> QED
    BY <1>1, <1>2, <1>3, <1>4, AccountsAssumption DEF Makers, Never

\* The limits and durations of the settings are numbers, thresholds positive.
LEMMA LimitFacts ==
    /\ LOGIN_MAX_FAILED_ATTEMPTS \in Nat \ {0} /\ OTP_MAX_ATTEMPTS \in Nat \ {0}
    /\ AUTH_IDLE_TIMEOUT \in Nat \ {0} /\ LOGIN_LOCKOUT \in Nat \ {0}
    /\ OTP_TIMEOUT \in Nat /\ OTP_RESEND_COOLDOWN \in Nat /\ MaxTime \in Nat
    /\ PASSWORD_CHANGE_COOLDOWN \in Nat /\ PROFILE_EDIT_COOLDOWN \in Nat
BY AccountsAssumption

\* What a request asks for has the types that its serializer lets through.
LEMMA AskFacts ==
    ASSUME Typed, NEW r \in Requests, pc[r] \notin {"idle", "done"}
    PROVE  /\ ask[r] \in AsksOf[r]
           /\ Target(r) \in Users
           /\ ask[r].kind \in {"email", "confirm_email"} => ask[r].email \in Nat
           /\ ask[r].kind = "profile" => ask[r].username \in Nat
           /\ DOMAIN Data(r) \subseteq {"role", "is_active", "username", "email"}
           /\ "role" \in DOMAIN Data(r) => Data(r).role \in {"admin", "staff"}
           /\ "is_active" \in DOMAIN Data(r) => Data(r).is_active \in BOOLEAN
           /\ "username" \in DOMAIN Data(r) => Data(r).username \in Nat
           /\ "email" \in DOMAIN Data(r) => Data(r).email \in Nat
<1>1. ask[r] \in AsksOf[r]
    BY DEF Typed, RequestsTyped
<1>2. /\ ask[r].user \in Users
      /\ ask[r].kind \in {"email", "confirm_email"} => ask[r].email \in Nat
      /\ ask[r].kind = "profile" => ask[r].username \in Nat
    BY <1>1, AsksAssumption
<1>3. CASE ask[r].kind = "update"
  <2>1. /\ DOMAIN ask[r].data \subseteq {"role", "is_active", "username", "email"}
        /\ \A f \in DOMAIN ask[r].data :
              ask[r].data[f] \in CASE f = "role"      -> {"admin", "staff"}
                                   [] f = "is_active" -> BOOLEAN
                                   [] OTHER           -> Nat
      BY <1>1, <1>3, AsksAssumption
  <2>2. Data(r) = ask[r].data
      BY <1>3 DEF Data
  <2> QED
      BY <1>1, <1>2, <2>1, <2>2 DEF Target
<1>4. CASE ask[r].kind # "update"
    BY <1>1, <1>2, <1>4 DEF Target, Data
<1> QED
    BY <1>3, <1>4

\* A row with one field overwritten is a row.
LEMMA RowUpdates ==
    ASSUME NEW row \in Row
    PROVE  /\ \A x \in Makers : [row EXCEPT !.password = x] \in Row
           /\ \A x \in Nat : /\ [row EXCEPT !.token_version = x] \in Row
                             /\ [row EXCEPT !.username = x] \in Row
                             /\ [row EXCEPT !.email = x] \in Row
           /\ \A x \in 0..LOGIN_MAX_FAILED_ATTEMPTS :
                [row EXCEPT !.failed_login_attempts = x] \in Row
           /\ \A x \in Int : /\ [row EXCEPT !.locked_until = x] \in Row
                             /\ [row EXCEPT !.last_password_change_at = x] \in Row
                             /\ [row EXCEPT !.last_profile_update_at = x] \in Row
<1>1. \A x \in Makers : [row EXCEPT !.password = x] \in Row
    BY DEF Row
<1>2. \A x \in Nat : [row EXCEPT !.token_version = x] \in Row
    BY DEF Row
<1>3. \A x \in Nat : [row EXCEPT !.username = x] \in Row /\ [row EXCEPT !.email = x] \in Row
    BY DEF Row
<1>4. \A x \in 0..LOGIN_MAX_FAILED_ATTEMPTS : [row EXCEPT !.failed_login_attempts = x] \in Row
    BY DEF Row
<1>5. \A x \in Int : [row EXCEPT !.locked_until = x] \in Row
    BY DEF Row
<1>6. \A x \in Int : /\ [row EXCEPT !.last_password_change_at = x] \in Row
                     /\ [row EXCEPT !.last_profile_update_at = x] \in Row
    BY DEF Row
<1> QED
    BY <1>1, <1>2, <1>3, <1>4, <1>5, <1>6

\* A new version of a row that leaves its lockout alone, or ends it.
Edited(row, new) ==
    /\ new \in Row
    /\ \/ /\ new.locked_until = row.locked_until
          /\ new.failed_login_attempts = row.failed_login_attempts
       \/ new.locked_until = Never /\ new.failed_login_attempts = 0

\* What the handlers write is a row; only logins and resets touch its lockout.
LEMMA RowEdits ==
    ASSUME NEW row \in Row, NEW r \in Makers, NEW x \in Nat, NEW t \in Int
    PROVE  /\ Edited(row, [row EXCEPT !.token_version = @ + 1])
           /\ Edited(row, [row EXCEPT !.password = r, !.token_version = @ + 1,
                                      !.last_password_change_at = t])
           /\ Edited(row, [row EXCEPT !.email = x, !.token_version = @ + 1,
                                      !.last_profile_update_at = t])
           /\ Edited(row, [row EXCEPT !.username = x, !.last_profile_update_at = t])
           /\ Edited(row, AfterReset(row, r))
           /\ Edited(row, AfterSuccess(row))
<1> USE SentinelFacts, LimitFacts
<1> DEFINE logout  == [row EXCEPT !.token_version = @ + 1]
<1> DEFINE changed == [row EXCEPT !.password = r, !.token_version = @ + 1,
                                  !.last_password_change_at = t]
<1> DEFINE moved   == [row EXCEPT !.email = x, !.token_version = @ + 1,
                                  !.last_profile_update_at = t]
<1> DEFINE renamed == [row EXCEPT !.username = x, !.last_profile_update_at = t]
<1>1. row.token_version + 1 \in Nat /\ 0 \in 0..LOGIN_MAX_FAILED_ATTEMPTS
    BY DEF Row
<1>2. logout \in Row /\ renamed \in Row
    BY <1>1, RowUpdates
<1>3. changed \in Row
    BY <1>1, RowUpdates
<1>4. moved \in Row
    BY <1>1, RowUpdates
<1>5. AfterSuccess(row) \in Row
    BY <1>1, RowUpdates DEF AfterSuccess
<1>6. AfterReset(row, r) \in Row
  <2>1. [row EXCEPT !.password = r, !.token_version = @ + 1] \in Row
      BY <1>1, RowUpdates
  <2>2. AfterReset(row, r) =
          AfterSuccess([row EXCEPT !.password = r, !.token_version = @ + 1])
      BY DEF AfterReset, AfterSuccess
  <2>3. \A new \in Row : AfterSuccess(new) \in Row
      BY <1>1, RowUpdates DEF AfterSuccess
  <2> QED
      BY <2>1, <2>2, <2>3
<1>7. \A new \in {logout, changed, moved, renamed} :
         /\ new.locked_until = row.locked_until
         /\ new.failed_login_attempts = row.failed_login_attempts
    BY DEF Row
<1>8. \A new \in {AfterReset(row, r), AfterSuccess(row)} :
         new.locked_until = Never /\ new.failed_login_attempts = 0
    BY DEF Row, AfterReset, AfterSuccess
<1> QED
    BY <1>2, <1>3, <1>4, <1>5, <1>6, <1>7, <1>8 DEF Edited

\* The row that CommitChange saves.
SavedRow(r) ==
    [f \in DOMAIN user[Target(r)] |->
       IF f \in DOMAIN Data(r) THEN Data(r)[f]
       ELSE IF f = "token_version" /\ Changes(r, "is_active") /\ ~Data(r).is_active
            THEN user[Target(r)][f] + 1
       ELSE user[Target(r)][f]]

\* It differs from the row before at most in the fields that a request may name
\* and in the token version.
LEMMA SavedRowFacts ==
    ASSUME Typed, NEW r \in Requests, pc[r] \notin {"idle", "done"}
    PROVE  LET row == user[Target(r)]
               saved == SavedRow(r)
               deactivated == Changes(r, "is_active") /\ ~Data(r).is_active
           IN  /\ saved \in Row
               /\ \A f \in {"password", "failed_login_attempts", "locked_until",
                            "last_password_change_at", "last_profile_update_at"} :
                    saved[f] = row[f]
               /\ \A f \in {"role", "is_active", "username", "email"} :
                    saved[f] = IF f \in DOMAIN Data(r) THEN Data(r)[f] ELSE row[f]
               /\ saved.token_version = row.token_version + IF deactivated THEN 1 ELSE 0
<1> DEFINE row == user[Target(r)]
<1> DEFINE saved == SavedRow(r)
<1>1. /\ Target(r) \in Users /\ row \in Row
      /\ DOMAIN Data(r) \subseteq {"role", "is_active", "username", "email"}
    BY AskFacts DEF Typed, RowsTyped
<1>2. /\ DOMAIN row = {"role", "is_active", "token_version", "password", "failed_login_attempts",
                       "locked_until", "username", "email", "last_password_change_at",
                       "last_profile_update_at"}
      /\ row.token_version \in Nat
    BY <1>1 DEF Row
<1>3. \A f \in {"password", "failed_login_attempts", "locked_until",
                "last_password_change_at", "last_profile_update_at"} : saved[f] = row[f]
    BY <1>1, <1>2 DEF SavedRow
<1>4. \A f \in {"role", "is_active", "username", "email"} :
         saved[f] = IF f \in DOMAIN Data(r) THEN Data(r)[f] ELSE row[f]
    BY <1>1, <1>2 DEF SavedRow
<1>5. saved.token_version =
        row.token_version + IF Changes(r, "is_active") /\ ~Data(r).is_active THEN 1 ELSE 0
    BY <1>1, <1>2 DEF SavedRow
<1>6. saved \in Row
  <2>1. saved = [role |-> saved.role, is_active |-> saved.is_active,
                 token_version |-> saved.token_version, password |-> saved.password,
                 failed_login_attempts |-> saved.failed_login_attempts,
                 locked_until |-> saved.locked_until, username |-> saved.username,
                 email |-> saved.email,
                 last_password_change_at |-> saved.last_password_change_at,
                 last_profile_update_at |-> saved.last_profile_update_at]
      BY <1>2 DEF SavedRow
  <2>2. /\ saved.role \in {"admin", "staff"} /\ saved.is_active \in BOOLEAN
        /\ saved.username \in Nat /\ saved.email \in Nat
      BY <1>1, <1>4, AskFacts DEF Row
  <2>3. /\ saved.token_version \in Nat /\ saved.password \in Makers
        /\ saved.failed_login_attempts \in 0..LOGIN_MAX_FAILED_ATTEMPTS
        /\ saved.locked_until \in Int /\ saved.last_password_change_at \in Int
        /\ saved.last_profile_update_at \in Int
      BY <1>1, <1>2, <1>3, <1>5 DEF Row
  <2> QED
      BY <2>1, <2>2, <2>3 DEF Row
<1> QED
    BY <1>3, <1>4, <1>5, <1>6

\* The first admin made the first login.
LEMMA InitTyped == Init => Typed
<1> SUFFICES ASSUME Init PROVE Typed
    OBVIOUS
<1> USE SentinelFacts, LimitFacts
<1>1. Min(Users) \in Users
    BY LeastNatural, AccountsAssumption
<1>2. RowsTyped
    BY AccountsAssumption DEF Init, RowsTyped, Row, LockoutMatchesFailures
<1>3. CodesTyped /\ LocksTyped
    BY DEF Init, CodesTyped, LocksTyped
<1>4. RequestsTyped
    BY DEF Init, RequestsTyped, Steps
<1>5. SessionsTyped
    BY DEF Init, SessionsTyped
<1>6. TokensTyped
  <2>1. [user |-> Min(Users), version |-> 0, password |-> Old, sid |-> Old, parent |-> Old]
          \in Tokens
      BY <1>1 DEF Tokens
  <2>2. token \in [Makers -> Tokens \union {NoToken}]
      BY <2>1 DEF Init
  <2>3. token[Old] # NoToken /\ \A r \in Requests : token[r] = NoToken
      BY <2>1 DEF Init
  <2> QED
      BY <2>2, <2>3 DEF Init, TokensTyped
<1> QED
    BY <1>2, <1>3, <1>4, <1>5, <1>6 DEF Typed

\* A handler writes well-typed rows.
LEMMA RowsStayTyped == Typed /\ Next => RowsTyped'
<1> SUFFICES ASSUME Typed, Next PROVE RowsTyped'
    OBVIOUS
<1> USE SentinelFacts, LimitFacts DEF RowsTyped, LockoutMatchesFailures
<1>0. /\ RowsTyped
      /\ now \in Int
      /\ \A u \in Users : user[u] \in Row
      /\ \A row \in Row : row.token_version \in Nat
    BY DEF Typed, Row
<1>1. CASE Tick
    BY <1>1, <1>0 DEF Tick
<1>2. ASSUME NEW r \in Requests, UNCHANGED <<now, user>> PROVE RowsTyped'
    BY <1>2, <1>0
<1>3. ASSUME NEW r \in Requests, NEW row \in Row, pc[r] \notin {"idle", "done"},
             user' = [user EXCEPT ![Target(r)] = row], UNCHANGED now,
             row.locked_until # Never <=> row.failed_login_attempts = LOGIN_MAX_FAILED_ATTEMPTS
      PROVE  RowsTyped'
    BY <1>3, <1>0
<1>3a. ASSUME NEW r \in Requests, NEW row, Edited(user[Target(r)], row),
              pc[r] \notin {"idle", "done"}, UNCHANGED now,
              user' = [user EXCEPT ![Target(r)] = row] \/ UNCHANGED user
       PROVE  RowsTyped'
  <2>1. Target(r) \in Users
      BY <1>3a, AskFacts
  <2> QED
      BY <2>1, <1>0, <1>2, <1>3, <1>3a DEF Edited
<1>4. ASSUME NEW r \in Requests, RecordFailedLogin(r) PROVE RowsTyped'
  <2> DEFINE row == user[Target(r)]
  <2>1. Target(r) \in Users /\ row \in Row /\ pc[r] \notin {"idle", "done"}
      BY <1>4, <1>0, AskFacts DEF RecordFailedLogin, At
  <2>2. /\ AfterFailure(row) \in Row
        /\ AfterFailure(row).locked_until # Never <=>
             AfterFailure(row).failed_login_attempts = LOGIN_MAX_FAILED_ATTEMPTS
    <3>1. /\ row.locked_until \in Int /\ row.failed_login_attempts \in 0..LOGIN_MAX_FAILED_ATTEMPTS
          /\ row.locked_until # Never <=> row.failed_login_attempts = LOGIN_MAX_FAILED_ATTEMPTS
        BY <2>1, <1>0 DEF Row
    <3> DEFINE count == 1 + IF row.locked_until # Never THEN 0 ELSE row.failed_login_attempts
    <3> DEFINE until == IF count >= LOGIN_MAX_FAILED_ATTEMPTS THEN now + LOGIN_LOCKOUT ELSE Never
    <3>2. /\ count \in 0..LOGIN_MAX_FAILED_ATTEMPTS
          /\ until \in Int
          /\ until # Never <=> count = LOGIN_MAX_FAILED_ATTEMPTS
        BY <3>1, <1>0 DEF Never
    <3> DEFINE new == [row EXCEPT !.failed_login_attempts = count, !.locked_until = until]
    <3>3. new.failed_login_attempts = count /\ new.locked_until = until
        BY <2>1 DEF Row
    <3>4. new \in Row
        BY <2>1, <3>2, RowUpdates
    <3>5. AfterFailure(row) = IF row.locked_until > now THEN row ELSE new
        BY DEF AfterFailure
    <3> HIDE DEF new, count, until
    <3> QED
        BY <2>1, <3>1, <3>2, <3>3, <3>4, <3>5
  <2>3. user' = [user EXCEPT ![Target(r)] = AfterFailure(row)] /\ UNCHANGED now
      BY <1>4 DEF RecordFailedLogin
  <2> QED
      BY <2>1, <2>2, <2>3, <1>3
<1>5. ASSUME NEW r \in Requests, LoginSucceeds(r) PROVE RowsTyped'
  <2>1. Target(r) \in Users /\ pc[r] \notin {"idle", "done"}
      BY <1>5, AskFacts DEF LoginSucceeds, At
  <2> DEFINE row == AfterSuccess(user[Target(r)])
  <2>2. Edited(user[Target(r)], row)
      BY <2>1, <1>0, RowEdits
  <2>3. user' = [user EXCEPT ![Target(r)] = row] /\ UNCHANGED now
      BY <1>5 DEF LoginSucceeds
  <2> QED
      BY <2>1, <2>2, <2>3, <1>3a
<1>6. ASSUME NEW r \in Requests, Logout(r) PROVE RowsTyped'
  <2>1. Target(r) \in Users /\ pc[r] \notin {"idle", "done"}
      BY <1>6, AskFacts DEF Logout, At, AtRow
  <2> DEFINE row == [user[Target(r)] EXCEPT !.token_version = @ + 1]
  <2>2. Edited(user[Target(r)], row)
      BY <2>1, <1>0, RowEdits
  <2>3. UNCHANGED now /\ (user' = [user EXCEPT ![Target(r)] = row] \/ UNCHANGED user)
      BY <1>6 DEF Logout
  <2> QED
      BY <2>1, <2>2, <2>3, <1>3a
<1>7. ASSUME NEW r \in Requests, ChangePassword(r) PROVE RowsTyped'
  <2>1. Target(r) \in Users /\ pc[r] \notin {"idle", "done"}
      BY <1>7, AskFacts DEF ChangePassword, At, AtRow
  <2> DEFINE row == [user[Target(r)] EXCEPT !.password = r, !.token_version = @ + 1,
                                            !.last_password_change_at = now]
  <2>2. Edited(user[Target(r)], row)
      BY <2>1, <1>0, RowEdits
  <2>3. UNCHANGED now /\ (user' = [user EXCEPT ![Target(r)] = row] \/ UNCHANGED user)
      BY <1>7, <1>0, <2>1 DEF ChangePassword
  <2> QED
      BY <2>1, <2>2, <2>3, <1>3a
<1>8. ASSUME NEW r \in Requests, AdminResetPassword(r) \/ \E otp \in Makers : ResetPassword(r, otp)
      PROVE  RowsTyped'
  <2>1. Target(r) \in Users /\ pc[r] \notin {"idle", "done"}
      BY <1>8, AskFacts DEF AdminResetPassword, ResetPassword, At, AtRow
  <2> DEFINE row == AfterReset(user[Target(r)], r)
  <2>2. Edited(user[Target(r)], row)
      BY <2>1, <1>0, RowEdits
  <2>3. UNCHANGED now /\ (user' = [user EXCEPT ![Target(r)] = row] \/ UNCHANGED user)
      BY <1>8, <1>0, <2>1 DEF AdminResetPassword, ResetPassword
  <2> QED
      BY <2>1, <2>2, <2>3, <1>3a
<1>9. ASSUME NEW r \in Requests, NEW otp \in Makers, ConfirmEmailChange(r, otp) PROVE RowsTyped'
  <2>1. Target(r) \in Users /\ pc[r] \notin {"idle", "done"} /\ ask[r].email \in Nat
      BY <1>9, AskFacts DEF ConfirmEmailChange, At, AtRow
  <2> DEFINE row == [user[Target(r)] EXCEPT !.email = ask[r].email, !.token_version = @ + 1,
                                            !.last_profile_update_at = now]
  <2>2. Edited(user[Target(r)], row)
      BY <2>1, <1>0, RowEdits
  <2>3. UNCHANGED now /\ (user' = [user EXCEPT ![Target(r)] = row] \/ UNCHANGED user)
      BY <1>9, <1>0, <2>1 DEF ConfirmEmailChange
  <2> QED
      BY <2>1, <2>2, <2>3, <1>3a
<1>10. ASSUME NEW r \in Requests, UpdateOwnProfile(r) PROVE RowsTyped'
  <2>1. Target(r) \in Users /\ pc[r] \notin {"idle", "done"} /\ ask[r].username \in Nat
      BY <1>10, AskFacts DEF UpdateOwnProfile, At, AtRow
  <2> DEFINE row == [user[Target(r)] EXCEPT !.username = ask[r].username,
                                            !.last_profile_update_at = now]
  <2>2. Edited(user[Target(r)], row)
      BY <2>1, <1>0, RowEdits
  <2>3. UNCHANGED now /\ (user' = [user EXCEPT ![Target(r)] = row] \/ UNCHANGED user)
      BY <1>10, <1>0, <2>1 DEF UpdateOwnProfile
  <2> QED
      BY <2>1, <2>2, <2>3, <1>3a
<1>11. ASSUME NEW r \in Requests, CommitChange(r) PROVE RowsTyped'
  <2>1. pc[r] \notin {"idle", "done"}
      BY <1>11 DEF CommitChange
  <2>2. Target(r) \in Users
      BY <2>1, AskFacts
  <2>3. /\ UNCHANGED now
        /\ user' = [user EXCEPT ![Target(r)] = SavedRow(r)]
      BY <1>11, <2>2, <1>0 DEF CommitChange, SavedRow
  <2>4. /\ SavedRow(r) \in Row
        /\ SavedRow(r).locked_until = user[Target(r)].locked_until
        /\ SavedRow(r).failed_login_attempts = user[Target(r)].failed_login_attempts
      BY <2>1, SavedRowFacts
  <2> QED
      BY <2>1, <2>2, <2>3, <2>4, <1>0, <1>3
<1>12. ASSUME NEW r \in Requests,
              \/ Start(r) \/ Abort(r)
              \/ Authenticate(r) \/ CreateSession(r) \/ Refresh(r) \/ RecordActivity(r)
              \/ RequestPasswordReset(r) \/ SendMail(r) \/ MailFails(r) \/ RequestEmailChange(r)
              \/ FindAdmins(r) \/ LockAdmin(r) \/ LockTarget(r) \/ CheckChange(r)
       PROVE  RowsTyped'
  <2>1. UNCHANGED <<now, user>>
      BY <1>12 DEF Start, Abort, Authenticate, CreateSession, Refresh, RecordActivity,
           RequestPasswordReset, SendMail, MailFails, RequestEmailChange,
           FindAdmins, LockAdmin, LockTarget, CheckChange
  <2> QED
      BY <2>1, <1>2, <1>12
<1> QED
    BY <1>1, <1>4, <1>5, <1>6, <1>7, <1>8, <1>9, <1>10, <1>11, <1>12
       DEF Next, SessionStep, RecoveryStep, AdminStep

\* A handler leaves at most one well-typed code of each kind per account.
LEMMA CodesStayTyped == Typed /\ Next => CodesTyped'
<1> SUFFICES ASSUME Typed, Next PROVE CodesTyped'
    OBVIOUS
<1> USE SentinelFacts, LimitFacts DEF CodesTyped
<1>0. /\ CodesTyped
      /\ now \in Int
      /\ \A u \in Users : Identity(u) \in Nat \X Nat /\ user[u].password \in Makers
    BY DEF Typed, RowsTyped, Row, Identity
<1>1. /\ \A c \in ResetCodes : AfterWrongCode(c) \in ResetCodes \union {NoCode}
      /\ \A c \in EmailCodes : AfterWrongCode(c) \in EmailCodes \union {NoCode}
    BY DEF AfterWrongCode, ResetCodes, EmailCodes
<1>2. ASSUME NEW u,
             \/ UNCHANGED codeVars
             \/ DeleteCodes(u)
             \/ resetCode' = [resetCode EXCEPT ![u] = NoCode] /\ UNCHANGED emailCode
             \/ emailCode' = [emailCode EXCEPT ![u] = NoCode] /\ UNCHANGED resetCode
      PROVE  CodesTyped'
    BY <1>2, <1>0 DEF codeVars, DeleteCodes
<1>3. ASSUME NEW r \in Requests, RequestPasswordReset(r) PROVE CodesTyped'
  <2>1. Target(r) \in Users /\ at[r] \in Int
      BY <1>3, AskFacts DEF RequestPasswordReset, At, AtRow, Typed, RequestsTyped
  <2>2. StillMatches(r) => typed[r] \in Nat \X Nat
      BY <2>1, <1>0 DEF StillMatches
  <2>3. StillMatches(r) => [code |-> r, to |-> typed[r], expires_at |-> at[r] + OTP_TIMEOUT,
                            sent_at |-> at[r], failed_attempts |-> 0] \in ResetCodes
      BY <2>1, <2>2 DEF ResetCodes
  <2> QED
      BY <1>3, <2>1, <2>3, <1>0 DEF RequestPasswordReset
<1>4. ASSUME NEW r \in Requests, MailFails(r) PROVE CodesTyped'
    BY <1>4, <1>0 DEF MailFails, WithoutCode
<1>5. ASSUME NEW r \in Requests, NEW otp \in Makers, ResetPassword(r, otp) PROVE CodesTyped'
  <2>1. Target(r) \in Users
      BY <1>5, AskFacts DEF ResetPassword, At, AtRow
  <2> DEFINE c == resetCode[Target(r)]
  <2>2. \/ UNCHANGED codeVars
        \/ DeleteCodes(Target(r))
        \/ resetCode' = [resetCode EXCEPT ![Target(r)] = NoCode] /\ UNCHANGED emailCode
        \/ /\ c # NoCode
           /\ resetCode' = [resetCode EXCEPT ![Target(r)] = AfterWrongCode(c)]
           /\ UNCHANGED emailCode
      BY <1>5 DEF ResetPassword
  <2> QED
      BY <2>1, <2>2, <1>0, <1>1, <1>2
<1>6. ASSUME NEW r \in Requests, RequestEmailChange(r) PROVE CodesTyped'
  <2>1. Target(r) \in Users /\ ask[r].email \in Nat
      BY <1>6, AskFacts DEF RequestEmailChange, At, AtRow
  <2>2. Credentials(r) => typed[r] \in Makers
      BY <2>1, <1>0 DEF Credentials
  <2>3. Credentials(r) => [code |-> r, to |-> ask[r].email, password |-> typed[r],
                           expires_at |-> now + OTP_TIMEOUT, sent_at |-> now,
                           failed_attempts |-> 0] \in EmailCodes
      BY <2>1, <2>2, <1>0 DEF EmailCodes
  <2> QED
      BY <1>6, <2>1, <2>3, <1>0 DEF RequestEmailChange
<1>7. ASSUME NEW r \in Requests, NEW otp \in Makers, ConfirmEmailChange(r, otp) PROVE CodesTyped'
  <2>1. Target(r) \in Users
      BY <1>7, AskFacts DEF ConfirmEmailChange, At, AtRow
  <2> DEFINE c == emailCode[Target(r)]
  <2>2. \/ UNCHANGED codeVars
        \/ DeleteCodes(Target(r))
        \/ emailCode' = [emailCode EXCEPT ![Target(r)] = NoCode] /\ UNCHANGED resetCode
        \/ /\ c # NoCode
           /\ emailCode' = [emailCode EXCEPT ![Target(r)] = AfterWrongCode(c)]
           /\ UNCHANGED resetCode
      BY <1>7 DEF ConfirmEmailChange
  <2> QED
      BY <2>1, <2>2, <1>0, <1>1, <1>2
<1>8. ASSUME NEW r \in Requests,
             ChangePassword(r) \/ AdminResetPassword(r) \/ UpdateOwnProfile(r) \/ CommitChange(r)
      PROVE  CodesTyped'
  <2>1. \/ UNCHANGED codeVars
        \/ DeleteCodes(Target(r))
        \/ resetCode' = [resetCode EXCEPT ![Target(r)] = NoCode] /\ UNCHANGED emailCode
      BY <1>8 DEF ChangePassword, AdminResetPassword, UpdateOwnProfile, CommitChange, codeVars
  <2> QED
      BY <2>1, <1>2
<1>9. CASE UNCHANGED codeVars
    BY <1>9, <1>0 DEF codeVars
<1> QED
  <2>1. \/ UNCHANGED codeVars
        \/ \E r \in Requests :
             \/ ChangePassword(r) \/ AdminResetPassword(r) \/ UpdateOwnProfile(r) \/ CommitChange(r)
             \/ RequestPasswordReset(r) \/ MailFails(r) \/ RequestEmailChange(r)
             \/ \E otp \in Makers : ResetPassword(r, otp) \/ ConfirmEmailChange(r, otp)
      BY DEF Next, Tick, Start, Abort, SessionStep, Authenticate, RecordFailedLogin, CreateSession,
             LoginSucceeds, Refresh, Logout, RecordActivity, RecoveryStep, SendMail, AdminStep,
             FindAdmins, LockAdmin, LockTarget, CheckChange, codeVars
  <2> QED
      BY <2>1, <1>3, <1>4, <1>5, <1>6, <1>7, <1>8, <1>9

\* A request goes from step to step of its own handler.
LEMMA RequestsStayTyped == Typed /\ Next => RequestsTyped'
<1> SUFFICES ASSUME Typed, Next PROVE RequestsTyped'
    OBVIOUS
<1> USE SentinelFacts DEF RequestsTyped, Steps
<1>0. RequestsTyped
    BY DEF Typed
<1>1. CASE Tick
    BY <1>1, <1>0 DEF Tick, inputVars
<1>2. ASSUME NEW r \in Requests, Finish(r) PROVE RequestsTyped'
    BY <1>2, <1>0 DEF Finish, Goto, Never
<1>3. ASSUME NEW r \in Requests, NEW step \in Steps, Goto(r, step), UNCHANGED inputVars,
             pc[r] \notin {"idle", "done"}
      PROVE  RequestsTyped'
    BY <1>3, <1>0 DEF Goto, inputVars
<1>4. ASSUME NEW r \in Requests, Start(r) PROVE RequestsTyped'
  <2>1. PICK a \in AsksOf[r] :
           /\ ask' = [ask EXCEPT ![r] = a]
           /\ StartLogin(r, a) \/ StartOwn(r, a) \/ StartReset(r, a) \/ StartAdmin(r, a)
      BY <1>4 DEF Start
  <2>2. a \in UNION {AsksOf[q] : q \in Requests}
      BY <2>1
  <2>3. a.user \in Users /\ (StartAdmin(r, a) => a.by \in Users)
      BY AsksAssumption DEF StartAdmin
  <2>4. now \in Int /\ \A u \in Users : Identity(u) \in Nat \X Nat /\ user[u].password \in Makers
      BY DEF Typed, RowsTyped, Row, Identity
  <2>5. /\ pc' \in [Requests -> Steps] /\ \A q \in Requests : q # r => pc'[q] = pc[q]
        /\ typed' \in [Requests -> Makers \union {Free} \union (Nat \X Nat)]
        /\ held' \in [Requests -> Makers \union {Free}]
        /\ at' \in [Requests -> Int]
    <3>1. CASE StartLogin(r, a)
        BY <3>1, <2>3, <2>4, <1>0 DEF StartLogin, Goto
    <3>2. CASE StartOwn(r, a)
        BY <3>2, <2>3, <2>4, <1>0 DEF StartOwn, Goto
    <3>3. CASE StartReset(r, a)
        BY <3>3, <2>3, <2>4, <1>0 DEF StartReset, Goto
    <3>4. CASE StartAdmin(r, a)
        BY <3>4, <2>3, <2>4, <1>0 DEF StartAdmin, Goto
    <3> QED
        BY <2>1, <3>1, <3>2, <3>3, <3>4
  <2> QED
      BY <2>1, <2>2, <2>5, <1>0
<1>5. ASSUME NEW r \in Requests, SessionStep(r) PROVE RequestsTyped'
  <2>1. Finish(r) \/ \E step \in Steps : Goto(r, step) /\ UNCHANGED inputVars /\ pc[r] \notin {"idle", "done"}
      BY <1>5 DEF SessionStep, Authenticate, RecordFailedLogin, CreateSession, LoginSucceeds,
                  Refresh, Logout, RecordActivity, ChangePassword, AdminResetPassword, At
  <2> QED
      BY <2>1, <1>2, <1>3
<1>6. ASSUME NEW r \in Requests, RecoveryStep(r) PROVE RequestsTyped'
  <2>1. Finish(r) \/ \E step \in Steps : Goto(r, step) /\ UNCHANGED inputVars /\ pc[r] \notin {"idle", "done"}
      BY <1>6 DEF RecoveryStep, RequestPasswordReset, SendMail, MailFails, ResetPassword,
                  RequestEmailChange, ConfirmEmailChange, UpdateOwnProfile, At, AtRow
  <2> QED
      BY <2>1, <1>2, <1>3
<1>7. ASSUME NEW r \in Requests, AdminStep(r) PROVE RequestsTyped'
  <2>1. \/ Finish(r)
        \/ UNCHANGED <<pc, inputVars>>
        \/ \E step \in Steps : Goto(r, step) /\ UNCHANGED inputVars /\ pc[r] \notin {"idle", "done"}
      BY <1>7 DEF AdminStep, FindAdmins, LockAdmin, LockTarget, CheckChange, CommitChange
  <2> QED
      BY <2>1, <1>0, <1>2, <1>3 DEF inputVars
<1> QED
    BY <1>1, <1>2, <1>4, <1>5, <1>6, <1>7 DEF Next, Abort

\* Locks and queues are those of requests.
LEMMA LocksStayTyped == Typed /\ Next => LocksTyped'
<1> SUFFICES ASSUME Typed, Next PROVE LocksTyped'
    OBVIOUS
<1> USE SentinelFacts DEF LocksTyped
<1>0. LocksTyped
    BY DEF Typed
<1>1. CASE UNCHANGED <<lock, queue, grown>>
    BY <1>1, <1>0
<1>2. ASSUME NEW r \in Requests, EndTransaction(r), grown' \in BOOLEAN PROVE LocksTyped'
    BY <1>2, <1>0 DEF EndTransaction
<1>3. ASSUME NEW r \in Requests, FindAdmins(r) PROVE LocksTyped'
    BY <1>3, <1>0 DEF FindAdmins, FoundAdmins
<1>4. ASSUME NEW r \in Requests, LockAdmin(r) PROVE LocksTyped'
    BY <1>4, <1>0 DEF LockAdmin
<1>5. ASSUME NEW r \in Requests, LockTarget(r) PROVE LocksTyped'
    BY <1>5, <1>0 DEF LockTarget, adminVars
<1>6. ASSUME NEW r \in Requests, CheckChange(r) PROVE LocksTyped'
    BY <1>6, <1>0, <1>1, <1>2 DEF CheckChange
<1>7. ASSUME NEW r \in Requests, CommitChange(r) \/ Abort(r) PROVE LocksTyped'
    BY <1>7, <1>0, <1>2 DEF CommitChange, Abort
<1> QED
  <2>1. CASE Tick
      BY <2>1, <1>1 DEF Tick, adminVars
  <2>2. ASSUME NEW r \in Requests, Start(r) PROVE LocksTyped'
      BY <2>2, <1>1 DEF Start, adminVars
  <2>3. ASSUME NEW r \in Requests, SessionStep(r) PROVE LocksTyped'
    <3>1. UNCHANGED <<lock, adminVars>>
        BY <2>3 DEF SessionStep, Authenticate, RecordFailedLogin, CreateSession, LoginSucceeds,
             Refresh, Logout, RecordActivity, ChangePassword, AdminResetPassword
    <3> QED
        BY <3>1, <1>1 DEF adminVars
  <2>4. ASSUME NEW r \in Requests, RecoveryStep(r) PROVE LocksTyped'
    <3>1. UNCHANGED <<lock, adminVars>>
        BY <2>4 DEF RecoveryStep, RequestPasswordReset, SendMail, MailFails, ResetPassword,
             RequestEmailChange, ConfirmEmailChange, UpdateOwnProfile
    <3> QED
        BY <3>1, <1>1 DEF adminVars
  <2> QED
      BY <2>1, <2>2, <2>3, <2>4, <1>3, <1>4, <1>5, <1>6, <1>7 DEF Next, AdminStep

\* A step of a request moves only that request.
LEMMA OneMoves ==
    ASSUME Typed, NEW r \in Requests,
           Start(r) \/ SessionStep(r) \/ RecoveryStep(r) \/ AdminStep(r) \/ Abort(r)
    PROVE  \A q \in Requests : q # r => pc'[q] = pc[q] /\ ask'[q] = ask[q] /\ held'[q] = held[q]
<1>0. /\ DOMAIN pc = Requests /\ DOMAIN ask = Requests /\ DOMAIN held = Requests
      /\ pc = [q \in Requests |-> pc[q]] /\ ask = [q \in Requests |-> ask[q]]
      /\ held = [q \in Requests |-> held[q]]
    BY DEF Typed, RequestsTyped
<1>1. CASE Start(r)
  <2>1. /\ \E a : ask' = [ask EXCEPT ![r] = a]
        /\ \E step : Goto(r, step)
        /\ UNCHANGED held \/ \E t : held' = [held EXCEPT ![r] = t]
      BY <1>1, Zenon DEF Start, StartLogin, StartOwn, StartReset, StartAdmin
  <2> QED
      BY <2>1, <1>0 DEF Goto
<1>2. CASE SessionStep(r) \/ RecoveryStep(r) \/ AdminStep(r) \/ Abort(r)
  <2>1. \/ Finish(r)
        \/ UNCHANGED <<ask, held>> /\ (UNCHANGED pc \/ \E step : Goto(r, step))
      BY <1>2 DEF SessionStep, Authenticate, RecordFailedLogin, CreateSession, LoginSucceeds,
                  Refresh, Logout, RecordActivity, ChangePassword, AdminResetPassword,
                  RecoveryStep, RequestPasswordReset, SendMail, MailFails, ResetPassword,
                  RequestEmailChange, ConfirmEmailChange, UpdateOwnProfile,
                  AdminStep, FindAdmins, LockAdmin, LockTarget, CheckChange, CommitChange,
                  Abort, inputVars
  <2> QED
      BY <2>1, <1>0 DEF Finish, Goto
<1> QED
    BY <1>1, <1>2

\* Which steps make, send or use up tokens, or start and prolong sessions, and
\* where they take their request.
LEMMA TokenSteps ==
    ASSUME Typed, NEW r \in Requests,
           Start(r) \/ SessionStep(r) \/ RecoveryStep(r) \/ AdminStep(r) \/ Abort(r)
    PROVE  \/ Authenticate(r)
           \/ CreateSession(r)
           \/ LoginSucceeds(r)
           \/ Refresh(r)
           \/ Logout(r)
           \/ RecordActivity(r)
           \/ Start(r)
           \/ UNCHANGED tokenVars /\ pc[r] \notin {"idle", "authenticate", "issue", "reset", "done"} /\
              pc'[r] \in {"mail", "lock", "check", "commit", "done"} /\
              revoked' \subseteq Makers
           \/ Abort(r)
<1>0. pc = [q \in Requests |-> pc[q]] /\ revoked \subseteq Makers
    BY DEF Typed, RequestsTyped, TokensTyped
<1>1. ASSUME Finish(r) PROVE pc'[r] = "done"
    BY <1>1, <1>0 DEF Finish, Goto
<1>2. ASSUME NEW step, Goto(r, step) PROVE pc'[r] = step
    BY <1>2, <1>0 DEF Goto
<1>3. CASE RecordFailedLogin(r) \/ ChangePassword(r) \/ AdminResetPassword(r)
    BY <1>3, <1>0, <1>1 DEF RecordFailedLogin, ChangePassword, AdminResetPassword, At, AtRow,
                            Revoke, tokenVars
<1>4. CASE RecoveryStep(r)
    BY <1>4, <1>0, <1>1, <1>2 DEF RecoveryStep, RequestPasswordReset, SendMail, MailFails,
         ResetPassword, RequestEmailChange, ConfirmEmailChange, UpdateOwnProfile, At, AtRow,
         Revoke, tokenVars
<1>5. CASE AdminStep(r)
    BY <1>5, <1>0, <1>1, <1>2 DEF AdminStep, FindAdmins, LockAdmin, LockTarget, CheckChange,
         CommitChange, Revoke, tokenVars
<1> QED
    BY <1>3, <1>4, <1>5 DEF SessionStep

\* Tokens stay what TokensTyped says when nobody makes, sends or revokes one.
LEMMA TokensStand ==
    ASSUME Typed, NEW r \in Requests, UNCHANGED <<token, issued, blacklist>>,
           revoked' \subseteq Makers,
           \A q \in Requests : q # r => pc'[q] = pc[q] /\ ask'[q] = ask[q] /\ held'[q] = held[q],
           token[r] # NoToken => pc'[r] \in {"issue", "reset", "done"},
           pc'[r] \in {"issue", "reset"} => token[r] # NoToken,
           r \in issued => pc'[r] = "done",
           pc'[r] # "run"
    PROVE  TokensTyped'
BY SentinelFacts DEF Typed, TokensTyped, Target

\* A token is made once, and a client sends what it was sent.
LEMMA TokensStayTyped == Typed /\ Next => TokensTyped'
<1> SUFFICES ASSUME Typed, Next PROVE TokensTyped'
    OBVIOUS
<1> USE SentinelFacts
<1>0. TokensTyped /\ pc \in [Requests -> Steps] /\ DOMAIN ask = Requests
    BY DEF Typed, RequestsTyped
<1>1. CASE Tick
    BY <1>1, <1>0 DEF Tick, tokenVars, inputVars, TokensTyped, Target
<1>2. ASSUME NEW r \in Requests,
             Start(r) \/ SessionStep(r) \/ RecoveryStep(r) \/ AdminStep(r) \/ Abort(r)
      PROVE  TokensTyped'
  <2>1. \A q \in Requests : q # r => pc'[q] = pc[q] /\ ask'[q] = ask[q] /\ held'[q] = held[q]
      BY <1>2, OneMoves
  <2>2. ASSUME Finish(r) PROVE pc'[r] = "done"
      BY <2>2, <1>0 DEF Finish, Goto
  <2>3. ASSUME NEW step, Goto(r, step) PROVE pc'[r] = step
      BY <2>3, <1>0 DEF Goto
  <2>4. CASE Authenticate(r)
    <3>1. /\ Target(r) \in Users /\ pc[r] = "authenticate"
          /\ token[r] = NoToken /\ r \notin issued
        BY <2>4, <1>0, AskFacts DEF Authenticate, At, TokensTyped
    <3> DEFINE new == [user |-> Target(r), version |-> user[Target(r)].token_version,
                       password |-> user[Target(r)].password, sid |-> r, parent |-> r]
    <3>2. new \in Tokens
        BY <3>1 DEF Tokens, Typed, RowsTyped, Row
    <3>3. CASE token' = [token EXCEPT ![r] = new] /\ Goto(r, "issue")
      <4>1. /\ token'[r] = new /\ token' \in [Makers -> Tokens \union {NoToken}]
            /\ \A t \in Makers : t # r => token'[t] = token[t]
          BY <3>2, <3>3, <1>0 DEF TokensTyped
      <4>2. pc'[r] = "issue" /\ UNCHANGED <<issued, blacklist, revoked>>
          BY <2>3, <2>4, <3>3 DEF Authenticate
      <4> HIDE DEF new
      <4> QED
          BY <4>1, <4>2, <3>1, <3>2, <2>1, <1>0 DEF TokensTyped, Target
    <3>4. CASE UNCHANGED token /\ Goto(r, "fail")
        BY <3>1, <3>4, <2>1, <2>3, <2>4, <1>0, TokensStand DEF Authenticate, TokensTyped
    <3> QED
        BY <2>4, <3>3, <3>4 DEF Authenticate
  <2>5. CASE CreateSession(r)
      BY <2>5, <2>1, <2>3, <1>0, TokensStand DEF CreateSession, At, TokensTyped
  <2>6. CASE LoginSucceeds(r)
    <3>1. /\ pc[r] = "reset" /\ pc'[r] = "done" /\ token[r] # NoToken
          /\ issued' \subseteq issued \union {r} /\ issued \subseteq issued'
          /\ UNCHANGED <<token, blacklist, revoked>>
        BY <2>6, <2>2, <1>0 DEF LoginSucceeds, At, TokensTyped
    <3> QED
        BY <3>1, <2>1, <1>0 DEF TokensTyped, Target
  <2>7. CASE Refresh(r)
    <3>1. /\ pc[r] = "run" /\ pc'[r] = "done" /\ token[r] = NoToken /\ r \notin issued
          /\ held[r] \in issued /\ held[r] \in Makers
          /\ token[held[r]] \in Tokens
          /\ UNCHANGED revoked
        BY <2>7, <2>2, <1>0 DEF Refresh, At, AtRow, TokensTyped
    <3> DEFINE new == [token[held[r]] EXCEPT !.parent = held[r]]
    <3>2. new \in Tokens
        BY <3>1 DEF Tokens
    <3>3. CASE /\ blacklist' = blacklist \union {held[r]}
               /\ token' = [token EXCEPT ![r] = new]
               /\ issued' = issued \union {r}
      <4>1. /\ token'[r] = new /\ token' \in [Makers -> Tokens \union {NoToken}]
            /\ \A t \in Makers : t # r => token'[t] = token[t]
          BY <3>2, <3>3, <1>0 DEF TokensTyped
      <4> HIDE DEF new
      <4> QED
          BY <4>1, <3>1, <3>2, <3>3, <2>1, <1>0 DEF TokensTyped, Target
    <3>4. CASE UNCHANGED <<blacklist, token, issued>>
        BY <3>1, <3>4, <2>1, <1>0, TokensStand DEF TokensTyped
    <3> QED
        BY <2>7, <3>3, <3>4 DEF Refresh
  <2>8. CASE Logout(r)
    <3>1. /\ pc[r] = "run" /\ pc'[r] = "done" /\ held[r] \in issued
          /\ blacklist' \subseteq blacklist \union {held[r]} /\ revoked' \subseteq Makers
          /\ UNCHANGED <<token, issued>>
        BY <2>8, <2>2, <1>0 DEF Logout, At, AtRow, TokensTyped, Revoke
    <3> QED
        BY <3>1, <2>1, <1>0 DEF TokensTyped, Target
  <2>9. CASE RecordActivity(r)
      BY <2>9, <2>1, <2>2, <1>0, TokensStand DEF RecordActivity, At, TokensTyped
  <2>10. CASE Start(r)
    <3>1. PICK a \in AsksOf[r] :
             /\ ask' = [ask EXCEPT ![r] = a]
             /\ StartLogin(r, a) \/ StartOwn(r, a) \/ StartReset(r, a) \/ StartAdmin(r, a)
        BY <2>10 DEF Start
    <3>2. ask'[r] = a /\ pc[r] = "idle" /\ UNCHANGED <<token, issued, blacklist, revoked>>
        BY <2>10, <3>1, <1>0 DEF Start, tokenVars
    <3>3. pc'[r] \in {"authenticate", "run", "find"}
        BY <2>3, <3>1 DEF StartLogin, StartOwn, StartReset, StartAdmin
    <3>4. ASSUME a.kind \in {"refresh", "logout", "activity"}
          PROVE  held'[r] \in issued /\ token[held'[r]].user = a.user
      <4>1. StartOwn(r, a)
          BY <3>1, <3>4 DEF StartLogin, StartReset, StartAdmin
      <4> QED
          BY <3>4, <4>1 DEF StartOwn, TokenUser, Typed, RequestsTyped
    <3> QED
        BY <3>2, <3>3, <3>4, <2>1, <1>0 DEF TokensTyped, Target
  <2>11. CASE /\ UNCHANGED tokenVars /\ pc[r] \notin {"idle", "authenticate", "issue", "reset", "done"}
              /\ pc'[r] \in {"mail", "lock", "check", "commit", "done"} /\ revoked' \subseteq Makers
    <3>1. token[r] = NoToken /\ r \notin issued
        BY <2>11, <1>0 DEF TokensTyped
    <3> QED
        BY <2>11, <3>1, <2>1, TokensStand DEF tokenVars
  <2>12. CASE Abort(r)
      BY <2>12, <2>1, <2>2, <1>0, TokensStand DEF Abort, TokensTyped, tokenVars
  <2> QED
      BY <1>2, <2>4, <2>5, <2>6, <2>7, <2>8, <2>9, <2>10, <2>11, <2>12, TokenSteps
<1> QED
    BY <1>1, <1>2 DEF Next

\* A session starts with the login it belongs to.
LEMMA SessionsStayTyped == Typed /\ Next => SessionsTyped'
<1> SUFFICES ASSUME Typed, Next PROVE SessionsTyped'
    OBVIOUS
<1> USE SentinelFacts, LimitFacts
<1>0. SessionsTyped /\ pc \in [Requests -> Steps] /\ now \in Nat
    BY DEF Typed, RequestsTyped, RowsTyped
<1>1. CASE Tick
    BY <1>1, <1>0 DEF Tick, tokenVars, SessionsTyped
<1>2. ASSUME NEW r \in Requests,
             Start(r) \/ SessionStep(r) \/ RecoveryStep(r) \/ AdminStep(r) \/ Abort(r)
      PROVE  SessionsTyped'
  <2>1. \A q \in Requests : q # r => pc'[q] = pc[q]
      BY <1>2, OneMoves
  <2>2. ASSUME Finish(r) PROVE pc'[r] = "done"
      BY <2>2, <1>0 DEF Finish, Goto
  <2>3. ASSUME NEW step, Goto(r, step) PROVE pc'[r] = step
      BY <2>3, <1>0 DEF Goto
  <2>4. ASSUME UNCHANGED session, pc[r] \notin {"reset", "done"} \/ pc'[r] = "done" PROVE SessionsTyped'
      BY <2>4, <2>1, <1>0 DEF SessionsTyped
  <2>5. CASE CreateSession(r)
    <3>1. pc'[r] = "reset" /\ session' = [session EXCEPT ![r] = now + AUTH_IDLE_TIMEOUT]
        BY <2>5, <2>3 DEF CreateSession
    <3> QED
        BY <3>1, <2>1, <1>0 DEF SessionsTyped
  <2>6. CASE RecordActivity(r)
    <3>1. pc[r] = "run" /\ pc'[r] = "done"
        BY <2>6, <2>2 DEF RecordActivity, At
    <3>2. CASE UNCHANGED session
        BY <3>1, <3>2, <2>4
    <3>3. CASE /\ SessionLive(held[r])
               /\ session' = [session EXCEPT ![token[held[r]].sid] = now + AUTH_IDLE_TIMEOUT]
      <4> DEFINE s == token[held[r]].sid
      <4>1. session[s] > now
          BY <3>3 DEF SessionLive
      <4>2. \A q \in Requests : q = s => session[q] # Never
          BY <4>1, <1>0 DEF Never, SessionsTyped
      <4>3. \A q \in Requests : session'[q] # Never => session[q] # Never
          BY <3>3, <4>2, <1>0 DEF SessionsTyped
      <4>4. session' \in [Makers -> Int]
        <5>1. session \in [Makers -> Int] /\ now + AUTH_IDLE_TIMEOUT \in Int
            BY <1>0 DEF SessionsTyped
        <5> QED
            BY <3>3, <5>1
      <4> QED
          BY <3>1, <4>3, <4>4, <2>1, <1>0 DEF SessionsTyped
    <3> QED
        BY <2>6, <3>2, <3>3 DEF RecordActivity
  <2>7. CASE Authenticate(r) \/ LoginSucceeds(r) \/ Refresh(r) \/ Logout(r) \/ Start(r) \/ Abort(r)
      BY <2>7, <2>2, <2>3, <2>4 DEF Authenticate, LoginSucceeds, Refresh, Logout, Start, Abort,
                                    At, AtRow, tokenVars
  <2>8. CASE UNCHANGED tokenVars /\ pc[r] \notin {"idle", "authenticate", "issue", "reset", "done"}
      BY <2>8, <2>4 DEF tokenVars
  <2> QED
      BY <1>2, <2>5, <2>6, <2>7, <2>8, TokenSteps
<1> QED
    BY <1>1, <1>2 DEF Next

\* The type invariant is inductive.
LEMMA TypedIsInvariant == Spec => []Typed
<1>1. Typed /\ UNCHANGED vars => Typed'
  <2> SUFFICES ASSUME Typed, UNCHANGED vars PROVE Typed'
      OBVIOUS
  <2>1. RowsTyped' /\ CodesTyped' /\ RequestsTyped' /\ LocksTyped' /\ SessionsTyped'
      BY DEF Typed, RowsTyped, LockoutMatchesFailures, CodesTyped, RequestsTyped, LocksTyped,
             SessionsTyped, vars, codeVars, tokenVars, adminVars, inputVars
  <2>2. TokensTyped'
      BY DEF Typed, TokensTyped, Target, vars, codeVars, tokenVars, adminVars, inputVars
  <2> QED
      BY <2>1, <2>2 DEF Typed
<1>2. Typed /\ [Next]_vars => Typed'
    BY <1>1, RowsStayTyped, CodesStayTyped, RequestsStayTyped, LocksStayTyped, TokensStayTyped,
       SessionsStayTyped DEF Typed
<1> QED
    BY <1>2, InitTyped, PTL DEF Spec

-----------------------------------------------------------------------------
\* What a step does to the rows, as far as admins and tokens are concerned.
RolesKept ==
    \A u \in Users : user'[u].role = user[u].role /\ user'[u].is_active = user[u].is_active

VersionsGrow ==
    /\ \A u \in Users : user'[u].token_version >= user[u].token_version
    /\ \A t \in revoked' \ revoked :
         /\ t \in Makers /\ token[t].user \in Users
         /\ user'[token[t].user].token_version > user[token[t].user].token_version

\* Only update_user and deactivate_user change roles; versions never fall, and
\* whoever revokes the tokens of an account raises its version.
LEMMA RowEffects ==
    ASSUME Typed, Next
    PROVE  /\ VersionsGrow
           /\ RolesKept \/ \E r \in Requests : CommitChange(r)
<1>0. /\ user = [u \in Users |-> user[u]]
      /\ \A u \in Users : user[u] \in Row /\ user[u].token_version \in Nat
      /\ token \in [Makers -> Tokens \union {NoToken}]
    BY DEF Typed, RowsTyped, TokensTyped, Row
<1>1. ASSUME UNCHANGED <<user, revoked>> PROVE VersionsGrow /\ RolesKept
    BY <1>1, <1>0 DEF VersionsGrow, RolesKept
<1>2. ASSUME NEW r \in Requests, NEW row, Target(r) \in Users,
             user' = [user EXCEPT ![Target(r)] = row],
             row.role = user[Target(r)].role, row.is_active = user[Target(r)].is_active
      PROVE  RolesKept
    BY <1>2, <1>0 DEF RolesKept
<1>3. ASSUME NEW r \in Requests, NEW row, Target(r) \in Users,
             user' = [user EXCEPT ![Target(r)] = row],
             row.token_version = user[Target(r)].token_version, UNCHANGED revoked
      PROVE  VersionsGrow
    BY <1>3, <1>0 DEF VersionsGrow
<1>4. ASSUME NEW r \in Requests, NEW row, Target(r) \in Users,
             user' = [user EXCEPT ![Target(r)] = row],
             row.token_version = user[Target(r)].token_version + 1, Revoke(Target(r))
      PROVE  VersionsGrow
  <2>1. \A u \in Users : user'[u].token_version =
                           user[u].token_version + IF u = Target(r) THEN 1 ELSE 0
      BY <1>4, <1>0
  <2> QED
      BY <2>1, <1>4, <1>0 DEF VersionsGrow, Revoke
<1>5. ASSUME NEW r \in Requests, RecordFailedLogin(r) \/ LoginSucceeds(r)
      PROVE  VersionsGrow /\ RolesKept
  <2>1. Target(r) \in Users
      BY <1>5, AskFacts DEF RecordFailedLogin, LoginSucceeds, At
  <2>2. \A row \in {AfterFailure(user[Target(r)]), AfterSuccess(user[Target(r)])} :
           /\ row.role = user[Target(r)].role /\ row.is_active = user[Target(r)].is_active
           /\ row.token_version = user[Target(r)].token_version
      BY <2>1, <1>0 DEF AfterFailure, AfterSuccess, Row
  <2>3. PICK row \in {AfterFailure(user[Target(r)]), AfterSuccess(user[Target(r)])} :
           user' = [user EXCEPT ![Target(r)] = row] /\ UNCHANGED revoked
      BY <1>5 DEF RecordFailedLogin, LoginSucceeds
  <2> QED
      BY <2>1, <2>2, <2>3, <1>2, <1>3
<1>6. ASSUME NEW r \in Requests, Logout(r) PROVE VersionsGrow /\ RolesKept
  <2>1. Target(r) \in Users
      BY <1>6, AskFacts DEF Logout, At, AtRow
  <2> DEFINE row == [user[Target(r)] EXCEPT !.token_version = @ + 1]
  <2>2. /\ row.role = user[Target(r)].role /\ row.is_active = user[Target(r)].is_active
        /\ row.token_version = user[Target(r)].token_version + 1
      BY <2>1, <1>0 DEF Row
  <2>3. \/ user' = [user EXCEPT ![Target(r)] = row] /\ Revoke(Target(r))
        \/ UNCHANGED <<user, revoked>>
      BY <1>6 DEF Logout
  <2> HIDE DEF row
  <2> QED
      BY <2>1, <2>2, <2>3, <1>1, <1>2, <1>4
<1>7. ASSUME NEW r \in Requests, ChangePassword(r) PROVE VersionsGrow /\ RolesKept
  <2>1. Target(r) \in Users
      BY <1>7, AskFacts DEF ChangePassword, At, AtRow
  <2> DEFINE row == [user[Target(r)] EXCEPT !.password = r, !.token_version = @ + 1,
                                            !.last_password_change_at = now]
  <2>2. /\ row.role = user[Target(r)].role /\ row.is_active = user[Target(r)].is_active
        /\ row.token_version = user[Target(r)].token_version + 1
      BY <2>1, <1>0 DEF Row
  <2>3. \/ user' = [user EXCEPT ![Target(r)] = row] /\ Revoke(Target(r))
        \/ UNCHANGED <<user, revoked>>
      BY <1>7, <1>0, <2>1 DEF ChangePassword
  <2> HIDE DEF row
  <2> QED
      BY <2>1, <2>2, <2>3, <1>1, <1>2, <1>4
<1>8. ASSUME NEW r \in Requests, AdminResetPassword(r) \/ \E otp \in Makers : ResetPassword(r, otp)
      PROVE  VersionsGrow /\ RolesKept
  <2>1. Target(r) \in Users
      BY <1>8, AskFacts DEF AdminResetPassword, ResetPassword, At, AtRow
  <2> DEFINE row == AfterReset(user[Target(r)], r)
  <2>2. /\ row.role = user[Target(r)].role /\ row.is_active = user[Target(r)].is_active
        /\ row.token_version = user[Target(r)].token_version + 1
      BY <2>1, <1>0 DEF Row, AfterReset
  <2>3. \/ user' = [user EXCEPT ![Target(r)] = row] /\ Revoke(Target(r))
        \/ UNCHANGED <<user, revoked>>
      BY <1>8, <1>0, <2>1 DEF AdminResetPassword, ResetPassword
  <2> HIDE DEF row
  <2> QED
      BY <2>1, <2>2, <2>3, <1>1, <1>2, <1>4
<1>9. ASSUME NEW r \in Requests, NEW otp \in Makers, ConfirmEmailChange(r, otp)
      PROVE  VersionsGrow /\ RolesKept
  <2>1. Target(r) \in Users
      BY <1>9, AskFacts DEF ConfirmEmailChange, At, AtRow
  <2> DEFINE row == [user[Target(r)] EXCEPT !.email = ask[r].email, !.token_version = @ + 1,
                                            !.last_profile_update_at = now]
  <2>2. /\ row.role = user[Target(r)].role /\ row.is_active = user[Target(r)].is_active
        /\ row.token_version = user[Target(r)].token_version + 1
      BY <2>1, <1>0 DEF Row
  <2>3. \/ user' = [user EXCEPT ![Target(r)] = row] /\ Revoke(Target(r))
        \/ UNCHANGED <<user, revoked>>
      BY <1>9, <1>0, <2>1 DEF ConfirmEmailChange
  <2> HIDE DEF row
  <2> QED
      BY <2>1, <2>2, <2>3, <1>1, <1>2, <1>4
<1>10. ASSUME NEW r \in Requests, UpdateOwnProfile(r) PROVE VersionsGrow /\ RolesKept
  <2>1. Target(r) \in Users
      BY <1>10, AskFacts DEF UpdateOwnProfile, At, AtRow
  <2> DEFINE row == [user[Target(r)] EXCEPT !.username = ask[r].username,
                                            !.last_profile_update_at = now]
  <2>2. /\ row.role = user[Target(r)].role /\ row.is_active = user[Target(r)].is_active
        /\ row.token_version = user[Target(r)].token_version
      BY <2>1, <1>0 DEF Row
  <2>3. (user' = [user EXCEPT ![Target(r)] = row] \/ UNCHANGED user) /\ UNCHANGED revoked
      BY <1>10, <1>0, <2>1 DEF UpdateOwnProfile
  <2> HIDE DEF row
  <2> QED
      BY <2>1, <2>2, <2>3, <1>1, <1>2, <1>3
<1>11. ASSUME NEW r \in Requests, CommitChange(r) PROVE VersionsGrow
  <2>1. pc[r] \notin {"idle", "done"}
      BY <1>11 DEF CommitChange
  <2>2. Target(r) \in Users
      BY <2>1, AskFacts
  <2> DEFINE deactivated == Changes(r, "is_active") /\ ~Data(r).is_active
  <2>3. /\ user' = [user EXCEPT ![Target(r)] = SavedRow(r)]
        /\ IF deactivated THEN Revoke(Target(r)) ELSE UNCHANGED revoked
      BY <1>11, <2>2, <1>0 DEF CommitChange, SavedRow
  <2>4. SavedRow(r).token_version =
          user[Target(r)].token_version + IF deactivated THEN 1 ELSE 0
      BY <2>1, SavedRowFacts
  <2> HIDE DEF deactivated
  <2> QED
      BY <2>2, <2>3, <2>4, <1>0, <1>3, <1>4
<1>12. ASSUME NEW r \in Requests,
              \/ Start(r) \/ Abort(r)
              \/ Authenticate(r) \/ CreateSession(r) \/ Refresh(r) \/ RecordActivity(r)
              \/ RequestPasswordReset(r) \/ SendMail(r) \/ MailFails(r) \/ RequestEmailChange(r)
              \/ FindAdmins(r) \/ LockAdmin(r) \/ LockTarget(r) \/ CheckChange(r)
       PROVE  VersionsGrow /\ RolesKept
  <2>1. UNCHANGED <<user, revoked>>
      BY <1>12 DEF Start, Abort, Authenticate, CreateSession, Refresh, RecordActivity,
           RequestPasswordReset, SendMail, MailFails, RequestEmailChange,
           FindAdmins, LockAdmin, LockTarget, CheckChange
  <2> QED
      BY <2>1, <1>1
<1>13. CASE Tick
    BY <1>13, <1>1 DEF Tick
<1> QED
    BY <1>5, <1>6, <1>7, <1>8, <1>9, <1>10, <1>11, <1>12, <1>13
       DEF Next, SessionStep, RecoveryStep, AdminStep

-----------------------------------------------------------------------------
\* Whoever checks or saves a change holds the row of its target.
TargetHeld == \A r \in Requests : pc[r] \in {"check", "commit"} => lock[Target(r)] = r

\* A change has locked, or found and not yet locked, every admin there is; from
\* its check on it holds all of them.
AdminsHeld ==
    \A r \in Requests, u \in Users : IsAdmin(u) =>
        /\ pc[r] = "lock" => u \in queue[r] \/ lock[u] = r
        /\ pc[r] \in {"check", "commit"} => lock[u] = r

\* What the check found still holds when the change is saved.
AnotherAdmin ==
    \A r \in Requests : pc[r] = "commit" /\ RemovesAdmin(r) =>
        \E w \in Users \ {Target(r)} : IsAdmin(w)

AdminInv == TargetHeld /\ (~grown => AdminsHeld /\ AnotherAdmin /\ AdminRemains)

\* Where roles stay as they are, nobody's part of the invariant is disturbed by
\* a request that leaves the locks of others alone.
LEMMA AdminsStand ==
    ASSUME Typed, AdminInv, RolesKept, NEW r \in Requests,
           grown' = grown,
           \A q \in Requests : q # r => pc'[q] = pc[q] /\ ask'[q] = ask[q] /\ queue'[q] = queue[q],
           \A u \in Users : lock'[u] = lock[u] \/ lock[u] \in {r, Free},
           pc'[r] \in {"check", "commit"} => lock'[Target(r)'] = r,
           ~grown => \A u \in Users : IsAdmin(u) =>
             /\ pc'[r] = "lock" => u \in queue'[r] \/ lock'[u] = r
             /\ pc'[r] \in {"check", "commit"} => lock'[u] = r,
           ~grown /\ pc'[r] = "commit" /\ RemovesAdmin(r)' =>
             \E w \in Users \ {Target(r)'} : IsAdmin(w)
    PROVE  AdminInv'
<1> USE SentinelFacts
<1>1. \A u \in Users : IsAdmin(u)' <=> IsAdmin(u)
    BY DEF RolesKept, IsAdmin, ActiveAdmin
<1>2. \A q \in Requests : q # r => Target(q)' = Target(q)
    BY DEF Target
<1>3. \A q \in Requests : q # r /\ pc[q] = "commit" => (RemovesAdmin(q)' <=> RemovesAdmin(q))
  <2> SUFFICES ASSUME NEW q \in Requests, q # r, pc[q] = "commit"
               PROVE  RemovesAdmin(q)' <=> RemovesAdmin(q)
      OBVIOUS
  <2>1. Target(q) \in Users /\ Target(q)' = Target(q)
      BY <1>2, AskFacts
  <2>2. Data(q)' = Data(q)
      BY DEF Data
  <2>3. /\ user'[Target(q)].role = user[Target(q)].role
        /\ user'[Target(q)].is_active = user[Target(q)].is_active
      BY <2>1 DEF RolesKept
  <2> QED
      BY <2>1, <2>2, <2>3 DEF RemovesAdmin, Changes
<1>4. \A q \in Requests, u \in Users : q # r /\ lock[u] = q => lock'[u] = q
    BY AccountsAssumption
<1>5. TargetHeld'
  <2> SUFFICES ASSUME NEW q \in Requests, q # r, pc[q] \in {"check", "commit"}
               PROVE  lock'[Target(q)] = q
      BY <1>2 DEF TargetHeld
  <2>1. Target(q) \in Users
      BY AskFacts
  <2> QED
      BY <2>1, <1>4 DEF AdminInv, TargetHeld
<1>6. ASSUME ~grown PROVE AdminsHeld'
    BY <1>6, <1>1, <1>4 DEF AdminInv, AdminsHeld
<1>7. ASSUME ~grown PROVE AnotherAdmin'
    BY <1>7, <1>1, <1>2, <1>3 DEF AdminInv, AnotherAdmin
<1>8. ASSUME ~grown PROVE AdminRemains'
    BY <1>8, <1>1 DEF AdminInv, AdminRemains
<1> QED
    BY <1>5, <1>6, <1>7, <1>8 DEF AdminInv

\* Saving a change: nobody else is between check and save when an admin is
\* removed, and one remains.
LEMMA CommitKeepsAdmin ==
    ASSUME Typed, AdminInv, NEW r \in Requests, CommitChange(r),
           \A q \in Requests : q # r => pc'[q] = pc[q] /\ ask'[q] = ask[q] /\ queue'[q] = queue[q],
           pc'[r] = "done"
    PROVE  AdminInv'
<1> USE SentinelFacts
<1>0. /\ pc[r] = "commit" /\ Target(r) \in Users /\ lock[Target(r)] = r
      /\ user = [u \in Users |-> user[u]] /\ \A u \in Users : user[u] \in Row
      /\ lock \in [Users -> Requests \union {Free}] /\ grown \in BOOLEAN
    BY AskFacts DEF CommitChange, AdminInv, TargetHeld, Typed, RowsTyped, LocksTyped
<1>1. /\ user' = [user EXCEPT ![Target(r)] = SavedRow(r)]
      /\ grown' = (grown \/ (~IsAdmin(Target(r)) /\ ActiveAdmin(user'[Target(r)])))
      /\ EndTransaction(r)
    BY <1>0 DEF CommitChange, SavedRow
<1>2. \A u \in Users : user'[u] = IF u = Target(r) THEN SavedRow(r) ELSE user[u]
    BY <1>0, <1>1
<1>3. \A q \in Requests : q # r => Target(q)' = Target(q) /\ Data(q)' = Data(q)
    BY DEF Target, Data
<1>4. \A q \in Requests, u \in Users : q # r /\ lock[u] = q => lock'[u] = q
    BY <1>0, <1>1 DEF EndTransaction
<1>5. TargetHeld'
  <2> SUFFICES ASSUME NEW q \in Requests, q # r, pc[q] \in {"check", "commit"}
               PROVE  lock'[Target(q)] = q
      BY <1>3 DEF TargetHeld
  <2>1. Target(q) \in Users
      BY AskFacts
  <2> QED
      BY <2>1, <1>4 DEF AdminInv, TargetHeld
<1>6. ASSUME ~grown' PROVE AdminsHeld' /\ AnotherAdmin' /\ AdminRemains'
  <2>1. ~grown /\ AdminsHeld /\ AnotherAdmin /\ AdminRemains
      BY <1>6, <1>0, <1>1 DEF AdminInv
  <2>2. \A u \in Users : IsAdmin(u)' => IsAdmin(u)
    <3>1. \A u \in Users : u = Target(r) => (IsAdmin(u)' => IsAdmin(u))
        BY <1>6, <1>0, <1>1, <2>1 DEF IsAdmin
    <3>2. \A u \in Users : u # Target(r) => (IsAdmin(u)' <=> IsAdmin(u))
        BY <1>2 DEF IsAdmin
    <3> QED
        BY <3>1, <3>2
  <2>3. AdminsHeld'
      BY <2>1, <2>2, <1>4 DEF AdminsHeld
  <2>4. \A q \in Requests : q # r /\ pc[q] = "commit" =>
           Target(q) # Target(r) /\ \A u \in Users : IsAdmin(u) => u # Target(r)
      BY <2>1, <1>0 DEF AdminsHeld, AdminInv, TargetHeld
  <2>5. AnotherAdmin'
    <3> SUFFICES ASSUME NEW q \in Requests, q # r, pc[q] = "commit", RemovesAdmin(q)'
                 PROVE  \E w \in Users \ {Target(q)} : IsAdmin(w)'
        BY <1>3 DEF AnotherAdmin
    <3>1. Target(q) \in Users /\ Target(q) # Target(r) /\ user'[Target(q)] = user[Target(q)]
        BY <2>4, <1>2, AskFacts
    <3>2. RemovesAdmin(q)
        BY <3>1, <1>3 DEF RemovesAdmin, Changes
    <3>3. PICK w \in Users \ {Target(q)} : IsAdmin(w)
        BY <2>1, <3>2 DEF AnotherAdmin
    <3> QED
        BY <3>3, <2>4, <1>2 DEF IsAdmin
  <2>6. AdminRemains'
    <3>1. PICK u \in Users : IsAdmin(u)
        BY <2>1 DEF AdminRemains
    <3>2. CASE \E w \in Users \ {Target(r)} : IsAdmin(w)
        BY <3>2, <1>2 DEF AdminRemains, IsAdmin
    <3>3. CASE u = Target(r) /\ ~RemovesAdmin(r)
      <4> DEFINE row == user[Target(r)]
      <4>1. /\ row.role = "admin" /\ row.is_active
            /\ ~Changes(r, "role") /\ ~(Changes(r, "is_active") /\ ~Data(r).is_active)
          BY <3>1, <3>3 DEF RemovesAdmin, IsAdmin, ActiveAdmin
      <4>2. /\ SavedRow(r).role = IF "role" \in DOMAIN Data(r) THEN Data(r).role ELSE row.role
            /\ SavedRow(r).is_active =
                 IF "is_active" \in DOMAIN Data(r) THEN Data(r).is_active ELSE row.is_active
          BY <1>0, SavedRowFacts
      <4>3. "is_active" \in DOMAIN Data(r) => Data(r).is_active \in BOOLEAN
          BY <1>0, AskFacts
      <4>4. SavedRow(r).role = "admin"
          BY <4>1, <4>2 DEF Changes
      <4>5. row.is_active = TRUE
          BY <4>1, <1>0 DEF Row
      <4>6. SavedRow(r).is_active
          BY <4>1, <4>2, <4>3, <4>5 DEF Changes
      <4> QED
          BY <4>4, <4>6, <1>0, <1>2 DEF AdminRemains, IsAdmin, ActiveAdmin
    <3> QED
        BY <3>1, <3>2, <3>3, <2>1, <1>0 DEF AnotherAdmin
  <2> QED
      BY <2>3, <2>5, <2>6
<1> QED
    BY <1>5, <1>6 DEF AdminInv

\* The invariant of the changes of roles is inductive.
LEMMA AdminStepInv == Typed /\ AdminInv /\ Next => AdminInv'
<1> SUFFICES ASSUME Typed, AdminInv, Next PROVE AdminInv'
    OBVIOUS
<1> USE SentinelFacts
<1>0. /\ pc \in [Requests -> Steps]
      /\ lock \in [Users -> Requests \union {Free}] /\ queue \in [Requests -> SUBSET Users]
    BY DEF Typed, RequestsTyped, LocksTyped
<1>1. CASE Tick
  <2>1. UNCHANGED <<user, lock, pc, ask, queue, grown>>
      BY <1>1 DEF Tick, inputVars, adminVars
  <2> QED
      BY <2>1 DEF AdminInv, TargetHeld, AdminsHeld, AnotherAdmin, AdminRemains, IsAdmin, Target,
                  RemovesAdmin, Changes, Data
<1>2. ASSUME NEW r \in Requests,
             Start(r) \/ SessionStep(r) \/ RecoveryStep(r) \/ AdminStep(r) \/ Abort(r)
      PROVE  AdminInv'
  <2>1. \A q \in Requests : q # r => pc'[q] = pc[q] /\ ask'[q] = ask[q]
      BY <1>2, OneMoves
  <2>2. ASSUME Finish(r) PROVE pc'[r] = "done"
      BY <2>2, <1>0 DEF Finish, Goto
  <2>3. ASSUME NEW step, Goto(r, step) PROVE pc'[r] = step
      BY <2>3, <1>0 DEF Goto
  <2>4. CASE CommitChange(r)
    <3>1. \A q \in Requests : q # r => queue'[q] = queue[q]
        BY <2>4, <1>0 DEF CommitChange, EndTransaction
    <3>2. pc'[r] = "done"
        BY <2>4, <2>2 DEF CommitChange
    <3> QED
        BY <2>1, <2>4, <3>1, <3>2, CommitKeepsAdmin
  <2>5. ASSUME UNCHANGED user PROVE RolesKept
      BY <2>5 DEF RolesKept
  <2>6. CASE SessionStep(r) \/ RecoveryStep(r) \/ Start(r)
    <3>1. UNCHANGED <<lock, queue, grown>>
      <4>1. CASE SessionStep(r)
          BY <4>1 DEF SessionStep, Authenticate, RecordFailedLogin, CreateSession, LoginSucceeds,
               Refresh, Logout, RecordActivity, ChangePassword, AdminResetPassword, adminVars
      <4>2. CASE RecoveryStep(r)
          BY <4>2 DEF RecoveryStep, RequestPasswordReset, SendMail, MailFails, ResetPassword,
               RequestEmailChange, ConfirmEmailChange, UpdateOwnProfile, adminVars
      <4>3. CASE Start(r)
          BY <4>3 DEF Start, adminVars
      <4> QED
          BY <2>6, <4>1, <4>2, <4>3
    <3>2. pc'[r] \notin {"lock", "check", "commit"}
      <4>1. CASE SessionStep(r)
          BY <4>1, <2>2, <2>3 DEF SessionStep, Authenticate, RecordFailedLogin, CreateSession,
               LoginSucceeds, Refresh, Logout, RecordActivity, ChangePassword, AdminResetPassword
      <4>2. CASE RecoveryStep(r)
          BY <4>2, <2>2, <2>3 DEF RecoveryStep, RequestPasswordReset, SendMail, MailFails,
               ResetPassword, RequestEmailChange, ConfirmEmailChange, UpdateOwnProfile
      <4>3. CASE Start(r)
          BY <4>3, <2>3 DEF Start, StartLogin, StartOwn, StartReset, StartAdmin
      <4> QED
          BY <2>6, <4>1, <4>2, <4>3
    <3>3. RolesKept
      <4>1. \A q \in Requests : CommitChange(q) => q = r
          BY <2>1, <1>0 DEF CommitChange, Finish, Goto
      <4>2. CASE CommitChange(r)
        <5>1. Target(r) \in Users /\ lock[Target(r)] = r
            BY <4>2, AskFacts DEF CommitChange, AdminInv, TargetHeld
        <5>2. lock'[Target(r)] = Free
            BY <4>2, <5>1 DEF CommitChange, EndTransaction
        <5> QED
            BY <5>1, <5>2, <3>1, AccountsAssumption
      <4> QED
          BY <4>1, <4>2, RowEffects
    <3> QED
        BY <2>1, <3>1, <3>2, <3>3, AdminsStand
  <2>7. CASE Abort(r)
    <3>1. UNCHANGED <<user, grown>> /\ EndTransaction(r) /\ pc'[r] = "done"
        BY <2>7, <2>2 DEF Abort
    <3>2. /\ \A q \in Requests : q # r => queue'[q] = queue[q]
          /\ \A u \in Users : lock'[u] = lock[u] \/ lock[u] = r
        BY <3>1, <1>0 DEF EndTransaction
    <3> QED
        BY <2>1, <2>5, <3>1, <3>2, AdminsStand
  <2>8. CASE FindAdmins(r)
    <3>1. UNCHANGED <<user, lock, ask, grown>> /\ pc'[r] = "lock" /\ queue' = [queue EXCEPT ![r] = FoundAdmins]
        BY <2>8, <2>3 DEF FindAdmins, inputVars
    <3>2. queue'[r] = FoundAdmins /\ \A q \in Requests : q # r => queue'[q] = queue[q]
        BY <3>1, <1>0
    <3>3. \A u \in Users : IsAdmin(u) => u \in queue'[r]
        BY <3>2 DEF FoundAdmins
    <3> QED
        BY <2>1, <2>5, <3>1, <3>2, <3>3, AdminsStand
  <2>9. CASE LockAdmin(r)
    <3> DEFINE m == Min(queue[r])
    <3>1. /\ UNCHANGED <<user, pc, ask, grown>> /\ pc[r] = "lock"
          /\ lock[m] = Free /\ lock' = [lock EXCEPT ![m] = r]
          /\ queue' = [queue EXCEPT ![r] = @ \ {m}]
        BY <2>9 DEF LockAdmin, inputVars
    <3> HIDE DEF m
    <3>2. queue'[r] = queue[r] \ {m} /\ \A q \in Requests : q # r => queue'[q] = queue[q]
        BY <3>1, <1>0
    <3>3. /\ \A u \in Users : u = m => lock'[u] = r /\ lock[u] = Free
          /\ \A u \in Users : u # m => lock'[u] = lock[u]
        BY <3>1, <1>0
    <3>4. ~grown => \A u \in Users : IsAdmin(u) => u \in queue[r] \/ lock[u] = r
        BY <3>1 DEF AdminInv, AdminsHeld
    <3>5. ~grown => \A u \in Users : IsAdmin(u) => u \in queue'[r] \/ lock'[u] = r
        BY <3>2, <3>3, <3>4
    <3> QED
        BY <2>1, <2>5, <3>1, <3>2, <3>3, <3>5, AdminsStand
  <2>10. CASE LockTarget(r)
    <3>1. /\ UNCHANGED <<user, ask, queue, grown>> /\ pc[r] = "lock" /\ queue[r] = {}
          /\ pc'[r] = "check"
          /\ lock[Target(r)] \in {Free, r} /\ lock' = [lock EXCEPT ![Target(r)] = r]
        BY <2>10, <2>3 DEF LockTarget, inputVars, adminVars
    <3>2. Target(r) \in Users /\ Target(r)' = Target(r)
        BY <3>1, AskFacts DEF Target
    <3>3. /\ lock'[Target(r)] = r
          /\ \A u \in Users : u # Target(r) => lock'[u] = lock[u]
        BY <3>1, <3>2, <1>0
    <3>4. ~grown => \A u \in Users : IsAdmin(u) => lock[u] = r
        BY <3>1 DEF AdminInv, AdminsHeld
    <3> QED
        BY <2>1, <2>5, <3>1, <3>2, <3>3, <3>4, AdminsStand
  <2>11. CASE CheckChange(r)
    <3>1. UNCHANGED <<user, grown>> /\ pc[r] = "check"
        BY <2>11 DEF CheckChange
    <3>2. CASE Finish(r) /\ EndTransaction(r)
      <4>1. /\ \A q \in Requests : q # r => queue'[q] = queue[q]
            /\ \A u \in Users : lock'[u] = lock[u] \/ lock[u] = r
          BY <3>2, <1>0 DEF EndTransaction
      <4> QED
          BY <2>1, <2>2, <2>5, <3>1, <3>2, <4>1, AdminsStand
    <3>3. CASE Goto(r, "commit") /\ UNCHANGED <<inputVars, lock, queue>> /\ ~Refused(r)
      <4>1. pc'[r] = "commit" /\ UNCHANGED <<ask, lock, queue>>
          BY <3>3, <2>3 DEF inputVars
      <4>2. Target(r)' = Target(r) /\ (RemovesAdmin(r)' <=> RemovesAdmin(r))
          BY <3>1, <4>1 DEF Target, RemovesAdmin, Changes, Data
      <4>3. /\ lock[Target(r)] = r
            /\ ~grown => \A u \in Users : IsAdmin(u) => lock[u] = r
          BY <3>1 DEF AdminInv, TargetHeld, AdminsHeld
      <4>4. RemovesAdmin(r) => \E w \in Users \ {Target(r)} : IsAdmin(w)
          BY <3>3 DEF Refused
      <4> QED
          BY <2>1, <2>5, <3>1, <4>1, <4>2, <4>3, <4>4, AdminsStand
    <3> QED
        BY <2>11, <3>2, <3>3 DEF CheckChange
  <2> QED
      BY <1>2, <2>4, <2>6, <2>7, <2>8, <2>9, <2>10, <2>11 DEF AdminStep
<1> QED
    BY <1>1, <1>2 DEF Next

\* Until somebody is made an admin, concurrent deactivations and demotions leave
\* an active admin (AdminRemainsOfOld; admin_service.py locks all admins before
\* it counts them).
THEOREM OldAdminsLeaveOne == Spec => []AdminRemainsOfOld
<1>1. Init /\ Typed => AdminInv
  <2> SUFFICES ASSUME Init, Typed PROVE AdminInv
      OBVIOUS
  <2>1. PICK u \in Admins : TRUE
      BY AccountsAssumption
  <2>2. u \in Users /\ IsAdmin(u)
      BY AccountsAssumption DEF Init, IsAdmin, ActiveAdmin
  <2>3. \A r \in Requests : pc[r] = "idle"
      BY DEF Init
  <2> QED
      BY <2>2, <2>3 DEF AdminInv, TargetHeld, AdminsHeld, AnotherAdmin, AdminRemains
<1>2. Typed /\ AdminInv /\ [Next]_vars => AdminInv'
  <2>1. ASSUME AdminInv, UNCHANGED vars PROVE AdminInv'
    <3>1. UNCHANGED <<user, lock, pc, ask, queue, grown>>
        BY <2>1 DEF vars, inputVars, adminVars
    <3> QED
        BY <2>1, <3>1 DEF AdminInv, TargetHeld, AdminsHeld, AnotherAdmin, AdminRemains, IsAdmin,
                          Target, RemovesAdmin, Changes, Data
  <2> QED
      BY <2>1, AdminStepInv
<1>3. AdminInv => AdminRemainsOfOld
    BY DEF AdminInv, AdminRemainsOfOld
<1> QED
    BY <1>1, <1>2, <1>3, TypedIsInvariant, PTL DEF Spec

-----------------------------------------------------------------------------
\* No token is ahead of its account, and a revoked one is behind it.
VersionsBound ==
    /\ \A t \in Makers : token[t] # NoToken =>
         token[t].version <= user[token[t].user].token_version
    /\ \A t \in revoked :
         token[t] # NoToken /\ token[t].version < user[token[t].user].token_version

\* A token is the first of its login, or its parent was used up for it.
Lineage ==
    /\ \A t \in Makers : token[t] # NoToken => token[t].parent = t \/ token[t].parent \in blacklist
    /\ \A r \in Requests : pc[r] \in {"issue", "reset"} => token[r].parent = r

TokenInv == VersionsBound /\ Lineage /\ RotatedOnce

\* Versions stay in order while the tokens stay as they are.
LEMMA VersionsStand ==
    ASSUME Typed, VersionsBound, VersionsGrow, RowsTyped', UNCHANGED token
    PROVE  VersionsBound'
<1> USE SentinelFacts
<1>1. \A t \in Makers : token[t] # NoToken => token[t].user \in Users /\ token[t].version \in Int
    BY DEF Typed, TokensTyped, Tokens
<1>2. \A t \in Makers : token[t].user \in Users => token[t] # NoToken
    BY DEF NoToken
<1>3. \A u \in Users : /\ user[u].token_version \in Int /\ user'[u].token_version \in Int
                       /\ user[u].token_version <= user'[u].token_version
    BY DEF Typed, RowsTyped, Row, VersionsGrow
<1>4. revoked \subseteq Makers
    BY DEF Typed, TokensTyped
<1>5. ASSUME NEW t \in Makers, token[t] # NoToken
      PROVE  token[t].version <= user'[token[t].user].token_version
  <2>1. token[t].version <= user[token[t].user].token_version
      BY <1>5 DEF VersionsBound
  <2> DEFINE u == token[t].user
  <2>2. /\ u \in Users /\ token[t].version \in Int
        /\ user[u].token_version \in Int /\ user'[u].token_version \in Int
        /\ user[u].token_version <= user'[u].token_version
      BY <1>1, <1>3, <1>5
  <2> QED
      BY <2>1, <2>2
<1>6. ASSUME NEW t \in revoked
      PROVE  token[t] # NoToken /\ token[t].version < user'[token[t].user].token_version
  <2>1. token[t] # NoToken /\ token[t].version < user[token[t].user].token_version
      BY <1>6 DEF VersionsBound
  <2> DEFINE u == token[t].user
  <2>2. /\ u \in Users /\ token[t].version \in Int
        /\ user[u].token_version \in Int /\ user'[u].token_version \in Int
        /\ user[u].token_version <= user'[u].token_version
      BY <1>1, <1>3, <1>4, <1>6, <2>1
  <2> QED
      BY <2>1, <2>2
<1>7. ASSUME NEW t \in revoked' \ revoked
      PROVE  token[t] # NoToken /\ token[t].version < user'[token[t].user].token_version
  <2>1. /\ t \in Makers /\ token[t].user \in Users
        /\ user'[token[t].user].token_version > user[token[t].user].token_version
      BY <1>7 DEF VersionsGrow
  <2>2. token[t] # NoToken /\ token[t].version <= user[token[t].user].token_version
      BY <2>1, <1>2 DEF VersionsBound
  <2> DEFINE u == token[t].user
  <2>3. /\ u \in Users /\ token[t].version \in Int
        /\ user[u].token_version \in Int /\ user'[u].token_version \in Int
      BY <1>1, <1>3, <2>1, <2>2
  <2> QED
      BY <2>1, <2>2, <2>3
<1> QED
    BY <1>5, <1>6, <1>7 DEF VersionsBound

\* The order of versions and the lineage of tokens are inductive.
LEMMA TokenStepInv == Typed /\ Typed' /\ TokenInv /\ Next => TokenInv'
<1> SUFFICES ASSUME Typed, Typed', TokenInv, Next PROVE TokenInv'
    OBVIOUS
<1> USE SentinelFacts
<1>0. /\ TokensTyped /\ TokensTyped' /\ RowsTyped' /\ pc \in [Requests -> Steps]
      /\ VersionsBound /\ Lineage /\ RotatedOnce
    BY DEF Typed, RequestsTyped, TokenInv
<1>1. VersionsGrow
    BY RowEffects
<1>2. ASSUME NEW r, UNCHANGED <<token, issued>>, blacklist \subseteq blacklist',
             \A q \in Requests : q # r => pc'[q] = pc[q],
             r \in Requests => pc'[r] \notin {"issue", "reset"} \/ pc[r] \in {"issue", "reset"}
      PROVE  TokenInv'
  <2>1. VersionsBound'
      BY <1>0, <1>1, <1>2, VersionsStand
  <2>2. Lineage' /\ RotatedOnce'
      BY <1>0, <1>2 DEF Lineage, RotatedOnce
  <2> QED
      BY <2>1, <2>2 DEF TokenInv
<1>3. CASE Tick
    BY <1>3, <1>2 DEF Tick, tokenVars
<1>4. ASSUME NEW r \in Requests,
             Start(r) \/ SessionStep(r) \/ RecoveryStep(r) \/ AdminStep(r) \/ Abort(r)
      PROVE  TokenInv'
  <2>1. \A q \in Requests : q # r => pc'[q] = pc[q]
      BY <1>4, OneMoves
  <2>2. ASSUME Finish(r) PROVE pc'[r] = "done"
      BY <2>2, <1>0 DEF Finish, Goto
  <2>3. ASSUME NEW step, Goto(r, step) PROVE pc'[r] = step
      BY <2>3, <1>0 DEF Goto
  <2>4. CASE Authenticate(r) /\ token' # token
    <3> DEFINE new == [user |-> Target(r), version |-> user[Target(r)].token_version,
                       password |-> user[Target(r)].password, sid |-> r, parent |-> r]
    <3>1. /\ pc[r] = "authenticate" /\ pc'[r] = "issue" /\ token[r] = NoToken /\ r \notin issued
          /\ token' = [token EXCEPT ![r] = new]
          /\ UNCHANGED <<user, issued, blacklist, revoked>>
        BY <2>4, <2>3, <1>0 DEF Authenticate, At, TokensTyped
    <3>2. token'[r] = new /\ \A t \in Makers : t # r => token'[t] = token[t]
        BY <3>1, <1>0 DEF TokensTyped
    <3>3. new.parent = r /\ new.user = Target(r) /\ new.version = user[Target(r)].token_version
        OBVIOUS
    <3>4. Target(r) \in Users
        BY <3>1, AskFacts
    <3>5. user[Target(r)].token_version \in Int
      <4>1. user[Target(r)] \in Row
          BY <3>4 DEF Typed, RowsTyped
      <4> QED
          BY <4>1 DEF Row
    <3> HIDE DEF new
    <3>6. r \notin revoked /\ r \notin blacklist /\ revoked \subseteq Makers /\ issued \subseteq Makers
        BY <3>1, <1>0 DEF VersionsBound, TokensTyped
    <3>7. VersionsBound'
        BY <3>1, <3>2, <3>3, <3>5, <3>6, <1>0 DEF VersionsBound
    <3>8. Lineage'
        BY <3>1, <3>2, <3>3, <2>1, <1>0 DEF Lineage
    <3>9. RotatedOnce'
        BY <3>1, <3>2, <3>6, <1>0 DEF RotatedOnce
    <3> QED
        BY <3>7, <3>8, <3>9 DEF TokenInv
  <2>5. CASE Authenticate(r) /\ token' = token
    <3>1. pc'[r] # "issue"
        BY <2>5, <1>0, TokensStayTyped, <2>3 DEF Authenticate, At, TokensTyped
    <3> QED
        BY <2>5, <2>1, <2>3, <3>1, <1>2 DEF Authenticate
  <2>6. CASE Refresh(r)
    <3>1. /\ pc[r] = "run" /\ pc'[r] = "done" /\ token[r] = NoToken /\ r \notin issued
          /\ held[r] \in issued /\ held[r] \in Makers /\ held[r] # r /\ token[held[r]] \in Tokens
          /\ UNCHANGED <<user, revoked>>
        BY <2>6, <2>2, <1>0 DEF Refresh, At, AtRow, TokensTyped
    <3> DEFINE new == [token[held[r]] EXCEPT !.parent = held[r]]
    <3>2. CASE /\ blacklist' = blacklist \union {held[r]}
               /\ token' = [token EXCEPT ![r] = new]
               /\ issued' = issued \union {r}
               /\ Rotatable(held[r])
      <4>1. token'[r] = new /\ \A t \in Makers : t # r => token'[t] = token[t]
          BY <3>2, <1>0 DEF TokensTyped
      <4>2. /\ new.parent = held[r] /\ new.user = token[held[r]].user
            /\ new.version = token[held[r]].version
          BY <3>1 DEF Tokens
      <4> HIDE DEF new
      <4>3. r \notin revoked /\ revoked \subseteq Makers /\ issued \subseteq Makers
          BY <3>1, <1>0 DEF VersionsBound, TokensTyped
      <4>4. VersionsBound'
          BY <3>1, <3>2, <4>1, <4>2, <4>3, <1>0 DEF VersionsBound, TokensTyped
      <4>5. Lineage'
          BY <3>1, <3>2, <4>1, <4>2, <2>1, <1>0 DEF Lineage
      <4>6. \A s \in issued : token[s].parent = held[r] => s = held[r]
        <5>1. held[r] \notin blacklist
            BY <3>2 DEF Rotatable
        <5> QED
            BY <5>1, <1>0 DEF Lineage, TokensTyped
      <4>7. RotatedOnce'
          BY <3>1, <3>2, <4>1, <4>2, <4>3, <4>6, <1>0 DEF RotatedOnce
      <4> QED
          BY <4>4, <4>5, <4>7 DEF TokenInv
    <3>3. CASE UNCHANGED <<blacklist, token, issued>>
        BY <3>1, <3>3, <2>1, <1>2
    <3> QED
        BY <2>6, <3>2, <3>3 DEF Refresh
  <2>7. CASE LoginSucceeds(r)
    <3>1. /\ pc[r] = "reset" /\ pc'[r] = "done"
          /\ issued' \subseteq issued \union {r}
          /\ UNCHANGED <<token, blacklist, revoked>>
        BY <2>7, <2>2, <1>0 DEF LoginSucceeds, At
    <3>2. VersionsBound'
        BY <1>0, <1>1, <3>1, VersionsStand
    <3>3. token[r].parent = r
        BY <3>1, <1>0 DEF Lineage
    <3> QED
        BY <3>1, <3>2, <3>3, <2>1, <1>0 DEF TokenInv, Lineage, RotatedOnce
  <2>8. CASE CreateSession(r)
      BY <2>8, <2>1, <1>2 DEF CreateSession, At
  <2>9. CASE Logout(r) \/ RecordActivity(r) \/ Abort(r)
      BY <2>9, <2>1, <2>2, <1>2 DEF Logout, RecordActivity, Abort, tokenVars
  <2>10. CASE Start(r)
      BY <2>10, <2>1, <2>3, <1>2 DEF Start, StartLogin, StartOwn, StartReset, StartAdmin, tokenVars
  <2>11. CASE UNCHANGED tokenVars /\ pc'[r] \in {"mail", "lock", "check", "commit", "done"}
      BY <2>11, <2>1, <1>2 DEF tokenVars
  <2> QED
      BY <1>4, <2>4, <2>5, <2>6, <2>7, <2>8, <2>9, <2>10, <2>11, TokenSteps
<1> QED
    BY <1>3, <1>4 DEF Next

\* A revoked token is never accepted again, a refresh token is rotated once, and
\* the lockout is that of the failures (SignInSafety; check_token_version,
\* PasswordAwareTokenRefreshSerializer and _record_failed_login).
THEOREM SignInIsSafe == Spec => []SignInSafety
<1>1. Init => TokenInv
  <2> SUFFICES ASSUME Init PROVE TokenInv
      OBVIOUS
  <2>1. Typed
      BY InitTyped
  <2>2. \A t \in Makers : token[t] # NoToken => t = Old
      BY DEF Init
  <2>3. token[Old] # NoToken /\ token[Old].parent = Old /\ token[Old].version = 0 /\ token[Old].user \in Users
      BY <2>1, SentinelFacts DEF Init, Typed, TokensTyped, Tokens
  <2>4. user[token[Old].user].token_version = 0
      BY <2>3 DEF Init
  <2>5. revoked = {} /\ issued = {Old} /\ \A r \in Requests : pc[r] = "idle"
      BY DEF Init
  <2> QED
      BY <2>2, <2>3, <2>4, <2>5 DEF TokenInv, VersionsBound, Lineage, RotatedOnce
<1>2. Typed /\ Typed' /\ TokenInv /\ [Next]_vars => TokenInv'
  <2>1. ASSUME TokenInv, UNCHANGED vars PROVE TokenInv'
    <3>1. UNCHANGED <<user, token, issued, blacklist, revoked, pc>>
        BY <2>1 DEF vars, tokenVars
    <3> QED
        BY <2>1, <3>1 DEF TokenInv, VersionsBound, Lineage, RotatedOnce
  <2> QED
      BY <2>1, TokenStepInv
<1>3. Typed /\ TokenInv => SignInSafety
  <2> SUFFICES ASSUME Typed, TokenInv PROVE SignInSafety
      OBVIOUS
  <2>1. \A t \in revoked : ~CurrentClaims(t)
    <3> SUFFICES ASSUME NEW t \in revoked, CurrentClaims(t) PROVE FALSE
        OBVIOUS
    <3>1. t \in Makers /\ token[t] \in Tokens /\ token[t].version < user[token[t].user].token_version
        BY DEF TokenInv, VersionsBound, Typed, TokensTyped
    <3>2. user[token[t].user].token_version \in Int
        BY <3>1 DEF Typed, RowsTyped, Row, Tokens
    <3> QED
        BY <3>1, <3>2 DEF CurrentClaims
  <2> QED
      BY <2>1 DEF SignInSafety, RevokedForGood, Accepted, TokenInv, Typed, RowsTyped
<1> QED
    BY <1>1, <1>2, <1>3, TypedIsInvariant, PTL DEF Spec

-----------------------------------------------------------------------------
\* The codes of one account fit its row.
CodesFit(u) ==
    /\ resetCode[u] # NoCode => user[u].is_active /\ resetCode[u].to = Identity(u)
    /\ emailCode[u] # NoCode => user[u].is_active /\ emailCode[u].password = user[u].password

\* A code sent to an account belongs to what the account is now: whoever changes
\* the identity, the password or the activity deletes what does not fit.
LEMMA CodesMatchStep == Typed /\ CodesMatchAccount /\ Next => CodesMatchAccount'
<1> SUFFICES ASSUME Typed, CodesMatchAccount, Next PROVE CodesMatchAccount'
    OBVIOUS
<1> USE SentinelFacts
<1>0. /\ user = [u \in Users |-> user[u]] /\ resetCode = [u \in Users |-> resetCode[u]]
      /\ emailCode = [u \in Users |-> emailCode[u]]
      /\ \A u \in Users : /\ user[u] \in Row
                          /\ resetCode[u] \in ResetCodes \union {NoCode}
                          /\ emailCode[u] \in EmailCodes \union {NoCode}
                          /\ CodesFit(u)
    BY DEF Typed, RowsTyped, CodesTyped, CodesMatchAccount, CodesFit
<1>1. CASE UNCHANGED <<user, resetCode, emailCode>>
    BY <1>1, <1>0 DEF CodesMatchAccount, CodesFit, Identity
<1>2. ASSUME NEW r \in Requests, NEW row, Target(r) \in Users,
             UNCHANGED <<resetCode, emailCode>>, user' = [user EXCEPT ![Target(r)] = row],
             row.is_active = user[Target(r)].is_active, row.password = user[Target(r)].password,
             row.username = user[Target(r)].username, row.email = user[Target(r)].email
      PROVE  CodesMatchAccount'
  <2>1. \A u \in Users : u # Target(r) => user'[u] = user[u]
      BY <1>2, <1>0
  <2>2. user'[Target(r)] = row
      BY <1>2, <1>0
  <2> QED
      BY <2>1, <2>2, <1>0, <1>2 DEF CodesMatchAccount, CodesFit, Identity
<1>3. ASSUME NEW r \in Requests, NEW row, Target(r) \in Users,
             DeleteCodes(Target(r)), user' = [user EXCEPT ![Target(r)] = row]
      PROVE  CodesMatchAccount'
  <2>1. \A u \in Users : u # Target(r) =>
           user'[u] = user[u] /\ resetCode'[u] = resetCode[u] /\ emailCode'[u] = emailCode[u]
      BY <1>3, <1>0 DEF DeleteCodes
  <2>2. resetCode'[Target(r)] = NoCode /\ emailCode'[Target(r)] = NoCode
      BY <1>3, <1>0 DEF DeleteCodes
  <2> QED
      BY <2>1, <2>2, <1>0, <1>3 DEF CodesMatchAccount, CodesFit, Identity
<1>4. ASSUME NEW r \in Requests, NEW c, Target(r) \in Users, UNCHANGED <<user, emailCode>>,
             resetCode' = [resetCode EXCEPT ![Target(r)] = c],
             c # NoCode => user[Target(r)].is_active /\ c.to = Identity(Target(r))
      PROVE  CodesMatchAccount'
  <2>1. /\ resetCode'[Target(r)] = c
        /\ \A u \in Users : u # Target(r) => resetCode'[u] = resetCode[u]
      BY <1>4, <1>0
  <2> QED
      BY <2>1, <1>0, <1>4 DEF CodesMatchAccount, CodesFit, Identity
<1>5. ASSUME NEW r \in Requests, NEW c, Target(r) \in Users, UNCHANGED <<user, resetCode>>,
             emailCode' = [emailCode EXCEPT ![Target(r)] = c],
             c # NoCode => user[Target(r)].is_active /\ c.password = user[Target(r)].password
      PROVE  CodesMatchAccount'
  <2>1. /\ emailCode'[Target(r)] = c
        /\ \A u \in Users : u # Target(r) => emailCode'[u] = emailCode[u]
      BY <1>5, <1>0
  <2> QED
      BY <2>1, <1>0, <1>5 DEF CodesMatchAccount, CodesFit, Identity
<1>6. ASSUME NEW r \in Requests, RecordFailedLogin(r) \/ LoginSucceeds(r) \/ Logout(r)
      PROVE  CodesMatchAccount'
  <2>1. Target(r) \in Users
      BY <1>6, AskFacts DEF RecordFailedLogin, LoginSucceeds, Logout, At, AtRow
  <2> DEFINE old == user[Target(r)]
  <2>2. \A row \in {AfterFailure(old), AfterSuccess(old), [old EXCEPT !.token_version = @ + 1]} :
           /\ row.is_active = old.is_active /\ row.password = old.password
           /\ row.username = old.username /\ row.email = old.email
    <3>1. old \in Row
        BY <2>1, <1>0
    <3> HIDE DEF old
    <3>2. \A f \in {"is_active", "password", "username", "email"} :
             /\ AfterSuccess(old)[f] = old[f]
             /\ [old EXCEPT !.token_version = @ + 1][f] = old[f]
        BY <3>1 DEF AfterSuccess, Row
    <3>3. \A f \in {"is_active", "password", "username", "email"} : AfterFailure(old)[f] = old[f]
      <4>1. AfterFailure(old) = old \/ \E x, y :
               AfterFailure(old) = [old EXCEPT !.failed_login_attempts = x, !.locked_until = y]
          BY Zenon DEF AfterFailure
      <4>2. ASSUME NEW x, NEW y,
                   AfterFailure(old) = [old EXCEPT !.failed_login_attempts = x, !.locked_until = y]
            PROVE  \A f \in {"is_active", "password", "username", "email"} :
                      AfterFailure(old)[f] = old[f]
          BY <4>2, <3>1 DEF Row
      <4> QED
          BY <4>1, <4>2, Zenon
    <3> QED
        BY <3>2, <3>3
  <2>3. /\ UNCHANGED <<resetCode, emailCode>>
        /\ \/ \E row \in {AfterFailure(old), AfterSuccess(old), [old EXCEPT !.token_version = @ + 1]} :
                user' = [user EXCEPT ![Target(r)] = row]
           \/ UNCHANGED user
      BY <1>6 DEF RecordFailedLogin, LoginSucceeds, Logout, codeVars
  <2> HIDE DEF old
  <2> QED
      BY <2>1, <2>2, <2>3, <1>1, <1>2 DEF old
<1>7. ASSUME NEW r \in Requests, ChangePassword(r) \/ AdminResetPassword(r) PROVE CodesMatchAccount'
  <2>1. Target(r) \in Users
      BY <1>7, AskFacts DEF ChangePassword, AdminResetPassword, At, AtRow
  <2>2. \/ UNCHANGED <<user, resetCode, emailCode>>
        \/ DeleteCodes(Target(r)) /\ \E row : user' = [user EXCEPT ![Target(r)] = row]
      BY <1>7, <1>0, <2>1 DEF ChangePassword, AdminResetPassword, codeVars
  <2> QED
      BY <2>1, <2>2, <1>1, <1>3
<1>8. ASSUME NEW r \in Requests, NEW otp \in Makers, ResetPassword(r, otp) PROVE CodesMatchAccount'
  <2>1. Target(r) \in Users
      BY <1>8, AskFacts DEF ResetPassword, At, AtRow
  <2> DEFINE c == resetCode[Target(r)]
  <2>2. \/ UNCHANGED <<user, resetCode, emailCode>>
        \/ DeleteCodes(Target(r)) /\ \E row : user' = [user EXCEPT ![Target(r)] = row]
        \/ resetCode' = [resetCode EXCEPT ![Target(r)] = NoCode] /\ UNCHANGED <<user, emailCode>>
        \/ /\ c # NoCode
           /\ resetCode' = [resetCode EXCEPT ![Target(r)] = AfterWrongCode(c)]
           /\ UNCHANGED <<user, emailCode>>
      BY <1>8, <2>1, <1>0 DEF ResetPassword, codeVars
  <2>3. c # NoCode => AfterWrongCode(c) = NoCode \/ AfterWrongCode(c).to = c.to
      BY <2>1, <1>0 DEF AfterWrongCode, ResetCodes
  <2>4. c # NoCode => user[Target(r)].is_active /\ c.to = Identity(Target(r))
      BY <2>1, <1>0 DEF CodesFit
  <2> HIDE DEF c
  <2> QED
      BY <2>1, <2>2, <2>3, <2>4, <1>1, <1>3, <1>4
<1>9. ASSUME NEW r \in Requests, NEW otp \in Makers, ConfirmEmailChange(r, otp) PROVE CodesMatchAccount'
  <2>1. Target(r) \in Users
      BY <1>9, AskFacts DEF ConfirmEmailChange, At, AtRow
  <2> DEFINE c == emailCode[Target(r)]
  <2>2. \/ UNCHANGED <<user, resetCode, emailCode>>
        \/ DeleteCodes(Target(r)) /\ \E row : user' = [user EXCEPT ![Target(r)] = row]
        \/ emailCode' = [emailCode EXCEPT ![Target(r)] = NoCode] /\ UNCHANGED <<user, resetCode>>
        \/ /\ c # NoCode
           /\ emailCode' = [emailCode EXCEPT ![Target(r)] = AfterWrongCode(c)]
           /\ UNCHANGED <<user, resetCode>>
      BY <1>9, <2>1, <1>0 DEF ConfirmEmailChange, codeVars
  <2>3. c # NoCode => AfterWrongCode(c) = NoCode \/ AfterWrongCode(c).password = c.password
      BY <2>1, <1>0 DEF AfterWrongCode, EmailCodes
  <2>4. c # NoCode => user[Target(r)].is_active /\ c.password = user[Target(r)].password
      BY <2>1, <1>0 DEF CodesFit
  <2> HIDE DEF c
  <2> QED
      BY <2>1, <2>2, <2>3, <2>4, <1>1, <1>3, <1>5
<1>10. ASSUME NEW r \in Requests, RequestPasswordReset(r) PROVE CodesMatchAccount'
  <2>1. Target(r) \in Users
      BY <1>10, AskFacts DEF RequestPasswordReset, At, AtRow
  <2> DEFINE c == [code |-> r, to |-> typed[r], expires_at |-> at[r] + OTP_TIMEOUT,
                   sent_at |-> at[r], failed_attempts |-> 0]
  <2>2. \/ UNCHANGED <<user, resetCode, emailCode>>
        \/ /\ StillMatches(r) /\ UNCHANGED <<user, emailCode>>
           /\ resetCode' = [resetCode EXCEPT ![Target(r)] = c]
      BY <1>10 DEF RequestPasswordReset
  <2>3. c.to = typed[r]
      OBVIOUS
  <2> HIDE DEF c
  <2> QED
      BY <2>1, <2>2, <2>3, <1>1, <1>4 DEF StillMatches
<1>11. ASSUME NEW r \in Requests, RequestEmailChange(r) PROVE CodesMatchAccount'
  <2>1. Target(r) \in Users
      BY <1>11, AskFacts DEF RequestEmailChange, At, AtRow
  <2> DEFINE c == [code |-> r, to |-> ask[r].email, password |-> typed[r],
                   expires_at |-> now + OTP_TIMEOUT, sent_at |-> now, failed_attempts |-> 0]
  <2>2. \/ UNCHANGED <<user, resetCode, emailCode>>
        \/ /\ Credentials(r) /\ UNCHANGED <<user, resetCode>>
           /\ emailCode' = [emailCode EXCEPT ![Target(r)] = c]
      BY <1>11 DEF RequestEmailChange
  <2>3. c.password = typed[r]
      OBVIOUS
  <2> HIDE DEF c
  <2> QED
      BY <2>1, <2>2, <2>3, <1>1, <1>5 DEF Credentials
<1>12. ASSUME NEW r \in Requests, MailFails(r) PROVE CodesMatchAccount'
  <2>1. Target(r) \in Users
      BY <1>12, AskFacts DEF MailFails
  <2> DEFINE reset == IF resetCode[Target(r)].code = r THEN NoCode ELSE resetCode[Target(r)]
  <2> DEFINE email == IF emailCode[Target(r)].code = r THEN NoCode ELSE emailCode[Target(r)]
  <2>2. \/ resetCode' = [resetCode EXCEPT ![Target(r)] = reset] /\ UNCHANGED <<user, emailCode>>
        \/ emailCode' = [emailCode EXCEPT ![Target(r)] = email] /\ UNCHANGED <<user, resetCode>>
      BY <1>12 DEF MailFails, WithoutCode
  <2>3. /\ reset # NoCode => user[Target(r)].is_active /\ reset.to = Identity(Target(r))
        /\ email # NoCode => user[Target(r)].is_active /\ email.password = user[Target(r)].password
      BY <2>1, <1>0 DEF CodesFit
  <2> HIDE DEF reset, email
  <2> QED
      BY <2>1, <2>2, <2>3, <1>4, <1>5
<1>13. ASSUME NEW r \in Requests, UpdateOwnProfile(r) PROVE CodesMatchAccount'
  <2>1. Target(r) \in Users
      BY <1>13, AskFacts DEF UpdateOwnProfile, At, AtRow
  <2> DEFINE row == [user[Target(r)] EXCEPT !.username = ask[r].username,
                                            !.last_profile_update_at = now]
  <2>2. UNCHANGED emailCode /\
        \/ UNCHANGED <<user, resetCode>>
        \/ /\ user' = [user EXCEPT ![Target(r)] = row]
           /\ resetCode' = [resetCode EXCEPT ![Target(r)] = NoCode]
      BY <1>13, <2>1, <1>0 DEF UpdateOwnProfile
  <2>3. row.is_active = user[Target(r)].is_active /\ row.password = user[Target(r)].password
      BY <2>1, <1>0 DEF Row
  <2> HIDE DEF row
  <2>4. CASE /\ user' = [user EXCEPT ![Target(r)] = row] /\ UNCHANGED emailCode
             /\ resetCode' = [resetCode EXCEPT ![Target(r)] = NoCode]
    <3>1. /\ user'[Target(r)] = row /\ resetCode'[Target(r)] = NoCode
          /\ \A u \in Users : u # Target(r) => user'[u] = user[u] /\ resetCode'[u] = resetCode[u]
        BY <2>1, <2>4, <1>0
    <3> QED
        BY <3>1, <2>3, <2>4, <1>0 DEF CodesMatchAccount, CodesFit, Identity
  <2> QED
      BY <2>2, <2>4, <1>1
<1>14. ASSUME NEW r \in Requests, CommitChange(r) PROVE CodesMatchAccount'
  <2>1. pc[r] \notin {"idle", "done"}
      BY <1>14 DEF CommitChange
  <2>2. Target(r) \in Users
      BY <2>1, AskFacts
  <2> DEFINE deactivated == Changes(r, "is_active") /\ ~Data(r).is_active
  <2>3. /\ user' = [user EXCEPT ![Target(r)] = SavedRow(r)]
        /\ IF deactivated \/ {"username", "email"} \intersect DOMAIN Data(r) # {}
           THEN DeleteCodes(Target(r)) ELSE UNCHANGED <<resetCode, emailCode>>
      BY <1>14, <2>2, <1>0 DEF CommitChange, SavedRow, codeVars
  <2>4. CASE DeleteCodes(Target(r))
      BY <2>2, <2>3, <2>4, <1>3
  <2>5. CASE /\ ~deactivated /\ "username" \notin DOMAIN Data(r) /\ "email" \notin DOMAIN Data(r)
             /\ UNCHANGED <<resetCode, emailCode>>
    <3> DEFINE old == user[Target(r)]
    <3> DEFINE new == SavedRow(r)
    <3>1. /\ new.password = old.password /\ new.username = old.username /\ new.email = old.email
          /\ new.is_active = IF "is_active" \in DOMAIN Data(r) THEN Data(r).is_active ELSE old.is_active
        BY <2>1, <2>5, SavedRowFacts
    <3>2. "is_active" \in DOMAIN Data(r) => Data(r).is_active \in BOOLEAN
        BY <2>1, AskFacts
    <3>3. old.is_active \in BOOLEAN
        BY <2>2, <1>0 DEF Row
    <3>4. old.is_active => new.is_active
        BY <2>5, <3>1, <3>2, <3>3 DEF Changes
    <3>5. user'[Target(r)] = new /\ \A u \in Users : u # Target(r) => user'[u] = user[u]
        BY <2>2, <2>3, <1>0
    <3> HIDE DEF new
    <3> QED
        BY <2>5, <3>1, <3>4, <3>5, <1>0 DEF CodesMatchAccount, CodesFit, Identity
  <2> QED
      BY <2>3, <2>4, <2>5
<1> QED
  <2>1. CASE Tick
      BY <2>1, <1>1 DEF Tick, codeVars
  <2>2. ASSUME NEW r \in Requests,
               \/ Start(r) \/ Abort(r)
               \/ Authenticate(r) \/ CreateSession(r) \/ Refresh(r) \/ RecordActivity(r)
               \/ SendMail(r) \/ FindAdmins(r) \/ LockAdmin(r) \/ LockTarget(r) \/ CheckChange(r)
        PROVE  UNCHANGED <<user, resetCode, emailCode>>
      BY <2>2 DEF Start, Abort, Authenticate, CreateSession, Refresh, RecordActivity,
           SendMail, FindAdmins, LockAdmin, LockTarget, CheckChange, codeVars
  <2> QED
      BY <2>1, <2>2, <1>1, <1>6, <1>7, <1>8, <1>9, <1>10, <1>11, <1>12, <1>13, <1>14
         DEF Next, SessionStep, RecoveryStep, AdminStep

\* A pending code was sent to the current identity, or made under the current
\* password, of an active account (CodesMatchAccount; password_reset_service and
\* email_change_service).
THEOREM CodesAlwaysMatchAccount == Spec => []CodesMatchAccount
<1>1. Init => CodesMatchAccount
    BY DEF Init, CodesMatchAccount
<1>2. Typed /\ CodesMatchAccount /\ [Next]_vars => CodesMatchAccount'
  <2>1. ASSUME CodesMatchAccount, UNCHANGED vars PROVE CodesMatchAccount'
      BY <2>1 DEF CodesMatchAccount, Identity, vars, codeVars
  <2> QED
      BY <2>1, CodesMatchStep
<1> QED
    BY <1>1, <1>2, TypedIsInvariant, PTL DEF Spec

-----------------------------------------------------------------------------
\* A session is started once, and prolonged only while it is live.
LEMMA ExpiredStep ==
    ASSUME Typed, Next, NEW s \in Makers, session[s] # Never, session[s] <= now
    PROVE  session'[s] = session[s]
<1> USE SentinelFacts
<1>0. /\ session \in [Makers -> Int] /\ now \in Int
      /\ \A r \in Requests : session[r] # Never => pc[r] \in {"reset", "done"}
    BY DEF Typed, SessionsTyped, RowsTyped
<1>1. CASE Tick
    BY <1>1 DEF Tick, tokenVars
<1>2. ASSUME NEW r \in Requests,
             Start(r) \/ SessionStep(r) \/ RecoveryStep(r) \/ AdminStep(r) \/ Abort(r)
      PROVE  session'[s] = session[s]
  <2>1. CASE CreateSession(r)
    <3>1. s # r
        BY <2>1, <1>0 DEF CreateSession, At
    <3> QED
        BY <2>1, <3>1, <1>0 DEF CreateSession
  <2>2. CASE RecordActivity(r)
    <3>1. CASE SessionLive(held[r])
      <4>1. session[token[held[r]].sid] > now
          BY <3>1 DEF SessionLive
      <4>2. s # token[held[r]].sid
          BY <4>1, <1>0
      <4> QED
          BY <2>2, <3>1, <4>2, <1>0 DEF RecordActivity
    <3> QED
        BY <2>2, <3>1 DEF RecordActivity
  <2>3. CASE Authenticate(r) \/ LoginSucceeds(r) \/ Refresh(r) \/ Logout(r) \/ Start(r) \/ Abort(r)
      BY <2>3 DEF Authenticate, LoginSucceeds, Refresh, Logout, Start, Abort, tokenVars
  <2> QED
      BY <1>2, <2>1, <2>2, <2>3, TokenSteps DEF tokenVars
<1> QED
    BY <1>1, <1>2 DEF Next

\* Why a code c of account u may disappear.
MayEnd(u, c) ==
    \/ user'[u] # user[u]
    \/ \E r \in Requests : At(r, "update", "commit") /\ Target(r) = u /\ pc'[r] = "done"
    \/ c.expires_at <= now
    \/ c.failed_attempts + 1 >= OTP_MAX_ATTEMPTS
    \/ pc[c.code] = "mail" /\ pc'[c.code] = "done"

\* Every step that ends a code has one of these reasons.
LEMMA CodeEndsStep ==
    ASSUME Typed, Next, NEW u \in Users
    PROVE  /\ resetCode[u] # NoCode /\ resetCode'[u] = NoCode => MayEnd(u, resetCode[u])
           /\ emailCode[u] # NoCode /\ emailCode'[u] = NoCode => MayEnd(u, emailCode[u])
<1> USE SentinelFacts
<1> DEFINE Ends == /\ resetCode[u] # NoCode /\ resetCode'[u] = NoCode => MayEnd(u, resetCode[u])
                   /\ emailCode[u] # NoCode /\ emailCode'[u] = NoCode => MayEnd(u, emailCode[u])
<1>0. /\ user = [w \in Users |-> user[w]] /\ resetCode = [w \in Users |-> resetCode[w]]
      /\ emailCode = [w \in Users |-> emailCode[w]]
      /\ pc \in [Requests -> Steps]
      /\ \A w \in Users : /\ user[w] \in Row /\ user[w].token_version \in Int
                          /\ resetCode[w] \in ResetCodes \union {NoCode}
                          /\ emailCode[w] \in EmailCodes \union {NoCode}
    BY DEF Typed, RowsTyped, CodesTyped, RequestsTyped, Row
<1>1. ASSUME UNCHANGED <<resetCode, emailCode>> PROVE Ends
    BY <1>1
<1>2. ASSUME NEW r \in Requests, NEW row, Target(r) \in Users,
             row.token_version = user[Target(r)].token_version + 1,
             DeleteCodes(Target(r)), user' = [user EXCEPT ![Target(r)] = row]
      PROVE  Ends
  <2>1. CASE u = Target(r)
    <3>1. user'[u] = row
        BY <1>2, <2>1, <1>0
    <3>2. user'[u] # user[u]
        BY <1>2, <2>1, <3>1, <1>0
    <3> QED
        BY <3>2 DEF MayEnd
  <2>2. CASE u # Target(r)
      BY <1>2, <2>2, <1>0 DEF DeleteCodes
  <2> QED
      BY <2>1, <2>2
<1>3. ASSUME NEW r \in Requests, NEW c, Target(r) \in Users, UNCHANGED emailCode,
             resetCode' = [resetCode EXCEPT ![Target(r)] = c],
             resetCode[Target(r)] # NoCode /\ c = NoCode => MayEnd(Target(r), resetCode[Target(r)])
      PROVE  Ends
    BY <1>3, <1>0
<1>4. ASSUME NEW r \in Requests, NEW c, Target(r) \in Users, UNCHANGED resetCode,
             emailCode' = [emailCode EXCEPT ![Target(r)] = c],
             emailCode[Target(r)] # NoCode /\ c = NoCode => MayEnd(Target(r), emailCode[Target(r)])
      PROVE  Ends
    BY <1>4, <1>0
<1>5. \A c \in ResetCodes \union EmailCodes :
         AfterWrongCode(c) = NoCode => c.failed_attempts + 1 >= OTP_MAX_ATTEMPTS
  <2> SUFFICES ASSUME NEW c \in ResetCodes \union EmailCodes,
                      ~(c.failed_attempts + 1 >= OTP_MAX_ATTEMPTS), AfterWrongCode(c) = NoCode
               PROVE  FALSE
      OBVIOUS
  <2>1. [c EXCEPT !.failed_attempts = @ + 1] = NoCode
      BY DEF AfterWrongCode
  <2>2. [c EXCEPT !.failed_attempts = @ + 1].code = c.code
      BY DEF ResetCodes, EmailCodes
  <2> QED
      BY <2>1, <2>2 DEF NoCode
<1>6. ASSUME NEW r \in Requests, ChangePassword(r) \/ AdminResetPassword(r) PROVE Ends
  <2>1. Target(r) \in Users
      BY <1>6, AskFacts DEF ChangePassword, AdminResetPassword, At, AtRow
  <2> DEFINE row == [user[Target(r)] EXCEPT !.password = r, !.token_version = @ + 1,
                                            !.last_password_change_at = now]
  <2>2. /\ row.token_version = user[Target(r)].token_version + 1
        /\ AfterReset(user[Target(r)], r).token_version = user[Target(r)].token_version + 1
      BY <2>1, <1>0 DEF Row, AfterReset
  <2>3. \/ UNCHANGED <<resetCode, emailCode>>
        \/ DeleteCodes(Target(r)) /\ user' = [user EXCEPT ![Target(r)] = row]
        \/ DeleteCodes(Target(r)) /\ user' = [user EXCEPT ![Target(r)] = AfterReset(user[Target(r)], r)]
      BY <1>6, <1>0, <2>1 DEF ChangePassword, AdminResetPassword, codeVars
  <2> HIDE DEF row, Ends
  <2> QED
      BY <2>1, <2>2, <2>3, <1>1, <1>2
<1>7. ASSUME NEW r \in Requests, NEW otp \in Makers, ResetPassword(r, otp) PROVE Ends
  <2>1. Target(r) \in Users
      BY <1>7, AskFacts DEF ResetPassword, At, AtRow
  <2> DEFINE c == resetCode[Target(r)]
  <2>2. \/ UNCHANGED <<resetCode, emailCode>>
        \/ DeleteCodes(Target(r)) /\ user' = [user EXCEPT ![Target(r)] = AfterReset(user[Target(r)], r)]
        \/ /\ c.expires_at <= now
           /\ resetCode' = [resetCode EXCEPT ![Target(r)] = NoCode] /\ UNCHANGED emailCode
        \/ /\ c # NoCode
           /\ resetCode' = [resetCode EXCEPT ![Target(r)] = AfterWrongCode(c)]
           /\ UNCHANGED emailCode
      BY <1>7, <2>1, <1>0 DEF ResetPassword, codeVars
  <2>3. AfterReset(user[Target(r)], r).token_version = user[Target(r)].token_version + 1
      BY <2>1, <1>0 DEF Row, AfterReset
  <2>4. /\ c.expires_at <= now => MayEnd(Target(r), c)
        /\ c # NoCode /\ AfterWrongCode(c) = NoCode => MayEnd(Target(r), c)
      BY <2>1, <1>0, <1>5 DEF MayEnd
  <2> HIDE DEF Ends
  <2> QED
      BY <2>1, <2>2, <2>3, <2>4, <1>1, <1>2, <1>3
<1>8. ASSUME NEW r \in Requests, NEW otp \in Makers, ConfirmEmailChange(r, otp) PROVE Ends
  <2>1. Target(r) \in Users
      BY <1>8, AskFacts DEF ConfirmEmailChange, At, AtRow
  <2> DEFINE c == emailCode[Target(r)]
  <2> DEFINE row == [user[Target(r)] EXCEPT !.email = ask[r].email, !.token_version = @ + 1,
                                            !.last_profile_update_at = now]
  <2>2. \/ UNCHANGED <<resetCode, emailCode>>
        \/ DeleteCodes(Target(r)) /\ user' = [user EXCEPT ![Target(r)] = row]
        \/ /\ c.expires_at <= now
           /\ emailCode' = [emailCode EXCEPT ![Target(r)] = NoCode] /\ UNCHANGED resetCode
        \/ /\ c # NoCode
           /\ emailCode' = [emailCode EXCEPT ![Target(r)] = AfterWrongCode(c)]
           /\ UNCHANGED resetCode
      BY <1>8, <2>1, <1>0 DEF ConfirmEmailChange, codeVars
  <2>3. row.token_version = user[Target(r)].token_version + 1
      BY <2>1, <1>0 DEF Row
  <2>4. /\ c.expires_at <= now => MayEnd(Target(r), c)
        /\ c # NoCode /\ AfterWrongCode(c) = NoCode => MayEnd(Target(r), c)
      BY <2>1, <1>0, <1>5 DEF MayEnd
  <2> HIDE DEF Ends, row
  <2> QED
      BY <2>1, <2>2, <2>3, <2>4, <1>1, <1>2, <1>4
<1>9. ASSUME NEW r \in Requests, RequestPasswordReset(r) PROVE Ends
  <2>1. Target(r) \in Users
      BY <1>9, AskFacts DEF RequestPasswordReset, At, AtRow
  <2> DEFINE c == [code |-> r, to |-> typed[r], expires_at |-> at[r] + OTP_TIMEOUT,
                   sent_at |-> at[r], failed_attempts |-> 0]
  <2>2. UNCHANGED emailCode /\ (UNCHANGED resetCode \/ resetCode' = [resetCode EXCEPT ![Target(r)] = c])
      BY <1>9 DEF RequestPasswordReset
  <2>3. c # NoCode
      BY AccountsAssumption DEF NoCode
  <2> HIDE DEF Ends, c
  <2> QED
      BY <2>1, <2>2, <2>3, <1>1, <1>3
<1>10. ASSUME NEW r \in Requests, RequestEmailChange(r) PROVE Ends
  <2>1. Target(r) \in Users
      BY <1>10, AskFacts DEF RequestEmailChange, At, AtRow
  <2> DEFINE c == [code |-> r, to |-> ask[r].email, password |-> typed[r],
                   expires_at |-> now + OTP_TIMEOUT, sent_at |-> now, failed_attempts |-> 0]
  <2>2. UNCHANGED resetCode /\ (UNCHANGED emailCode \/ emailCode' = [emailCode EXCEPT ![Target(r)] = c])
      BY <1>10 DEF RequestEmailChange
  <2>3. c # NoCode
      BY AccountsAssumption DEF NoCode
  <2> HIDE DEF Ends, c
  <2> QED
      BY <2>1, <2>2, <2>3, <1>1, <1>4
<1>11. ASSUME NEW r \in Requests, MailFails(r) PROVE Ends
  <2>1. Target(r) \in Users /\ pc[r] = "mail" /\ pc'[r] = "done"
      BY <1>11, <1>0, AskFacts DEF MailFails, Finish, Goto
  <2> DEFINE reset == IF resetCode[Target(r)].code = r THEN NoCode ELSE resetCode[Target(r)]
  <2> DEFINE email == IF emailCode[Target(r)].code = r THEN NoCode ELSE emailCode[Target(r)]
  <2>2. \/ resetCode' = [resetCode EXCEPT ![Target(r)] = reset] /\ UNCHANGED emailCode
        \/ emailCode' = [emailCode EXCEPT ![Target(r)] = email] /\ UNCHANGED resetCode
      BY <1>11 DEF MailFails, WithoutCode
  <2>3. /\ resetCode[Target(r)] # NoCode /\ reset = NoCode => MayEnd(Target(r), resetCode[Target(r)])
        /\ emailCode[Target(r)] # NoCode /\ email = NoCode => MayEnd(Target(r), emailCode[Target(r)])
      BY <2>1 DEF MayEnd
  <2> HIDE DEF Ends, reset, email
  <2> QED
      BY <2>1, <2>2, <2>3, <1>3, <1>4
<1>12. ASSUME NEW r \in Requests, UpdateOwnProfile(r) PROVE Ends
  <2>1. Target(r) \in Users
      BY <1>12, AskFacts DEF UpdateOwnProfile, At, AtRow
  <2> DEFINE row == [user[Target(r)] EXCEPT !.username = ask[r].username,
                                            !.last_profile_update_at = now]
  <2>2. UNCHANGED emailCode /\
        \/ UNCHANGED <<user, resetCode>>
        \/ /\ ask[r].username # user[Target(r)].username
           /\ user' = [user EXCEPT ![Target(r)] = row]
           /\ resetCode' = [resetCode EXCEPT ![Target(r)] = NoCode]
      BY <1>12, <2>1, <1>0 DEF UpdateOwnProfile
  <2>3. row.username = ask[r].username
      BY <2>1, <1>0 DEF Row
  <2> HIDE DEF row
  <2>4. CASE /\ ask[r].username # user[Target(r)].username
             /\ user' = [user EXCEPT ![Target(r)] = row] /\ UNCHANGED emailCode
             /\ resetCode' = [resetCode EXCEPT ![Target(r)] = NoCode]
    <3>1. user'[Target(r)] # user[Target(r)]
        BY <2>1, <2>3, <2>4, <1>0
    <3>2. MayEnd(Target(r), resetCode[Target(r)])
        BY <3>1 DEF MayEnd
    <3> QED
        BY <2>1, <2>4, <3>2, <1>3
  <2> QED
      BY <2>2, <2>4, <1>1
<1>13. ASSUME NEW r \in Requests, CommitChange(r) PROVE Ends
  <2>1. pc[r] = "commit" /\ pc'[r] = "done"
      BY <1>13, <1>0 DEF CommitChange, Finish, Goto
  <2>2. Target(r) \in Users
      BY <2>1, AskFacts
  <2> DEFINE deactivated == Changes(r, "is_active") /\ ~Data(r).is_active
  <2>3. /\ user' = [user EXCEPT ![Target(r)] = SavedRow(r)]
        /\ IF deactivated \/ {"username", "email"} \intersect DOMAIN Data(r) # {}
           THEN DeleteCodes(Target(r)) ELSE UNCHANGED <<resetCode, emailCode>>
      BY <1>13, <2>2, <1>0 DEF CommitChange, SavedRow, codeVars
  <2>4. CASE UNCHANGED <<resetCode, emailCode>>
      BY <2>4, <1>1
  <2>5. CASE u # Target(r) /\ DeleteCodes(Target(r))
      BY <2>5, <1>0 DEF DeleteCodes
  <2>6. CASE u = Target(r) /\ ask[r].kind = "update"
      BY <2>1, <2>6 DEF MayEnd, At
  <2>7. CASE DeleteCodes(Target(r)) /\ deactivated
    <3>1. SavedRow(r).token_version = user[Target(r)].token_version + 1
        BY <2>1, <2>7, SavedRowFacts
    <3> QED
        BY <2>2, <2>3, <2>7, <3>1, <1>2
  <2>8. ask[r].kind # "update" => {"username", "email"} \intersect DOMAIN Data(r) = {}
      BY DEF Data
  <2> QED
      BY <2>3, <2>4, <2>5, <2>6, <2>7, <2>8
<1>14. ASSUME NEW r \in Requests,
              \/ Start(r) \/ Abort(r)
              \/ Authenticate(r) \/ RecordFailedLogin(r) \/ CreateSession(r) \/ LoginSucceeds(r)
              \/ Refresh(r) \/ Logout(r) \/ RecordActivity(r) \/ SendMail(r)
              \/ FindAdmins(r) \/ LockAdmin(r) \/ LockTarget(r) \/ CheckChange(r)
       PROVE  UNCHANGED <<resetCode, emailCode>>
    BY <1>14 DEF Start, Abort, Authenticate, RecordFailedLogin, CreateSession, LoginSucceeds,
         Refresh, Logout, RecordActivity, SendMail, FindAdmins, LockAdmin, LockTarget,
         CheckChange, codeVars
<1>15. ASSUME Tick PROVE Ends
    BY <1>15, <1>1 DEF Tick, codeVars
<1> HIDE DEF Ends
<1>16. Ends
    BY <1>1, <1>6, <1>7, <1>8, <1>9, <1>10, <1>11, <1>12, <1>13, <1>14, <1>15
       DEF Next, SessionStep, RecoveryStep, AdminStep
<1> QED
    BY <1>16 DEF Ends

\* An idle session that has expired is never revived, and a one-time code
\* disappears only for one of the reasons of MayEnd (EndsForAReason;
\* record_activity, password_reset_service, email_change_service).
THEOREM NothingEndsWithoutReason == Spec => EndsForAReason
<1>1. Typed /\ [Next]_vars =>
        [\A s \in Makers : session[s] # Never /\ session[s] <= now => session'[s] = session[s]]_vars
    BY ExpiredStep
<1>2. Typed /\ [Next]_vars =>
        [\A u \in Users :
           \A codes \in {<<resetCode[u], resetCode'[u]>>, <<emailCode[u], emailCode'[u]>>} :
             codes[1] # NoCode /\ codes[2] = NoCode =>
               \/ user'[u] # user[u]
               \/ \E r \in Requests : At(r, "update", "commit") /\ Target(r) = u /\ pc'[r] = "done"
               \/ codes[1].expires_at <= now
               \/ codes[1].failed_attempts + 1 >= OTP_MAX_ATTEMPTS
               \/ pc[codes[1].code] = "mail" /\ pc'[codes[1].code] = "done"]_vars
    BY CodeEndsStep DEF MayEnd
<1>3. Spec => ExpiredStaysExpired
    BY <1>1, TypedIsInvariant, PTL DEF Spec, ExpiredStaysExpired
<1>4. Spec => CodeEndsForAReason
    BY <1>2, TypedIsInvariant, PTL DEF Spec, CodeEndsForAReason
<1> QED
    BY <1>3, <1>4 DEF EndsForAReason

\* Every reachable state of the accounts application is well typed.
THEOREM AccountsTypeCorrect == Spec => []TypeOK
<1>1. Typed => TypeOK
  <2> SUFFICES ASSUME Typed PROVE TypeOK
      OBVIOUS
  <2>1. \A u \in Users :
           /\ user[u].role \in {"admin", "staff"} /\ user[u].is_active \in BOOLEAN
           /\ user[u].token_version \in Nat /\ user[u].password \in Makers
           /\ user[u].failed_login_attempts \in 0..LOGIN_MAX_FAILED_ATTEMPTS
      BY DEF Typed, RowsTyped, Row
  <2>2. \A u \in Users : /\ resetCode[u].code \in Requests \union {Free}
                         /\ emailCode[u].code \in Requests \union {Free}
      BY DEF Typed, CodesTyped, ResetCodes, EmailCodes, NoCode
  <2> QED
      BY <2>1, <2>2 DEF Typed, RowsTyped, LocksTyped, TokensTyped, TypeOK
<1> QED
    BY <1>1, TypedIsInvariant, PTL
=============================================================================
