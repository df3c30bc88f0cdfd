------------------------------- MODULE UserRows -------------------------------
(***************************************************************************)
(* The rows of the accounts application (Users, LoginSession, the two      *)
(* one-time code tables, the refresh token blacklist) and the arrival of   *)
(* requests.  The handlers are in Sessions, Recovery and AdminChanges; the *)
(* composition and its properties are in Accounts.                         *)
(*                                                                         *)
(* A request first reads without a lock (it is authenticated, or its       *)
(* account is looked up) and then works in transactions that hold the row  *)
(* of the account.  A request that its first read refuses has no effect and*)
(* does not appear.                                                        *)
(***************************************************************************)
EXTENDS Integers, FiniteSets, FiniteSetsExt

CONSTANTS
    Users,                 \* primary keys, integers
    Requests,              \* the requests that may arrive
    AsksOf,                \* AsksOf[r]: what request r may ask for
    Old,                   \* a login of user Min(Users) before the model starts
    Admins,                \* users that are admins at first
    Free,                  \* no holder of a row lock
    AUTH_IDLE_TIMEOUT,     \* times are ticks of a clock
    LOGIN_LOCKOUT,
    LOGIN_MAX_FAILED_ATTEMPTS,
    OTP_TIMEOUT,           \* also of e-mail changes
    OTP_RESEND_COOLDOWN,
    OTP_MAX_ATTEMPTS,
    PASSWORD_CHANGE_COOLDOWN,
    PROFILE_EDIT_COOLDOWN,
    MaxTime                \* bound: the last tick

ASSUME AccountsAssumption ==
    /\ Users \subseteq Nat
    /\ Admins # {} /\ Admins \subseteq Users
    /\ Old \notin Requests /\ Free \notin Requests /\ Old # Free
    /\ {LOGIN_MAX_FAILED_ATTEMPTS, OTP_MAX_ATTEMPTS, AUTH_IDLE_TIMEOUT, LOGIN_LOCKOUT}
         \subseteq Nat \ {0}
    /\ {OTP_TIMEOUT, OTP_RESEND_COOLDOWN, PASSWORD_CHANGE_COOLDOWN, PROFILE_EDIT_COOLDOWN, MaxTime}
         \subseteq Nat

\* The serializers let through what has these types; names and addresses are
\* numbers here, like the keys they are initially taken from.
ASSUME AsksAssumption ==
    \A r \in Requests : \A a \in AsksOf[r] :
        /\ a.user \in Users
        /\ a.kind \in {"update", "deactivate", "admin_reset"} => a.by \in Users
        /\ a.kind \in {"email", "confirm_email"} => a.email \in Nat
        /\ a.kind = "profile" => a.username \in Nat
        /\ a.kind = "update" =>
             /\ DOMAIN a.data \subseteq {"role", "is_active", "username", "email"}
             /\ \A f \in DOMAIN a.data :
                  a.data[f] \in CASE f = "role"      -> {"admin", "staff"}
                                  [] f = "is_active" -> BOOLEAN
                                  [] OTHER           -> Nat

\* Refresh tokens, sessions and password hashes are named by the request that
\* made them; Old made the first ones.
Makers == Requests \union {Old}

VARIABLES
    now,        \* timezone.now()
    user,       \* user[u]: the committed row
    lock,       \* lock[u]: the request whose transaction holds the row lock of u
    resetCode,  \* resetCode[u]: PasswordResetChallenge, NoCode when there is none
    emailCode,  \* emailCode[u]: EmailChangeChallenge
    session,    \* session[s]: idle_expires_at, Never when there is no such row
    token,      \* token[t]: claims of a refresh token and its access tokens
    issued,     \* tokens that were sent to the client
    blacklist,  \* refresh tokens that were rotated or logged out
    pc,         \* pc[r]: next step of request r
    ask,        \* ask[r]: what r asks for
    typed,      \* typed[r]: the password (by its hash) or the identity its client typed
    held,       \* held[r]: the token its client sent
    at,         \* at[r]: the time request_password_reset read at its start
    queue,      \* queue[r]: admin rows found and still to be locked
    revoked,    \* history: tokens whose credentials were checked before the
                \*   account was last logged out, deactivated or re-secured
    grown       \* history: somebody was made an active admin

codeVars  == <<resetCode, emailCode>>
tokenVars == <<session, token, issued, blacklist>>
adminVars == <<queue, grown>>
inputVars == <<ask, typed, held, at>>
vars == <<now, user, lock, codeVars, tokenVars, pc, inputVars, adminVars, revoked>>

Never   == -1
NoCode  == [code |-> Free]
NoToken == [user |-> Never]
NoAsk   == [kind |-> "none"]

Init ==
    /\ now = 0
    /\ user = [u \in Users |->
                 [role |-> IF u \in Admins THEN "admin" ELSE "staff", is_active |-> TRUE,
                  token_version |-> 0, password |-> Old,
                  failed_login_attempts |-> 0, locked_until |-> Never,
                  username |-> u, email |-> u,
                  last_password_change_at |-> Never, last_profile_update_at |-> Never]]
    /\ lock = [u \in Users |-> Free]
    /\ resetCode = [u \in Users |-> NoCode]
    /\ emailCode = [u \in Users |-> NoCode]
    /\ session = [s \in Makers |-> IF s = Old THEN AUTH_IDLE_TIMEOUT ELSE Never]
    /\ token = [t \in Makers |->
                  IF t = Old THEN [user |-> Min(Users), version |-> 0, password |-> Old,
                                   sid |-> Old, parent |-> Old]
                  ELSE NoToken]
    /\ issued = {Old}
    /\ blacklist = {}
    /\ pc = [r \in Requests |-> "idle"]
    /\ ask = [r \in Requests |-> NoAsk]
    /\ typed = [r \in Requests |-> Free]
    /\ held = [r \in Requests |-> Free]
    /\ at = [r \in Requests |-> Never]
    /\ queue = [r \in Requests |-> {}]
    /\ revoked = {}
    /\ grown = FALSE

-----------------------------------------------------------------------------
Goto(r, step) == pc' = [pc EXCEPT ![r] = step]

\* The account that request r is about; its transaction needs the row lock.
Target(r) == ask[r].user

At(r, kind, step) ==
    /\ pc[r] = step
    /\ ask[r].kind = kind

AtRow(r, kind) ==
    /\ At(r, kind, "run")
    /\ lock[Target(r)] = Free

\* The request ends and its inputs are forgotten.
Finish(r) ==
    /\ Goto(r, "done")
    /\ ask' = [ask EXCEPT ![r] = NoAsk]
    /\ typed' = [typed EXCEPT ![r] = Free]
    /\ held' = [held EXCEPT ![r] = Free]
    /\ at' = [at EXCEPT ![r] = Never]

\* The account is logged out everywhere: what was admitted before is revoked.
Revoke(u) == revoked' = revoked \union {t \in Makers : token[t].user = u}

DeleteCodes(u) ==
    /\ resetCode' = [resetCode EXCEPT ![u] = NoCode]
    /\ emailCode' = [emailCode EXCEPT ![u] = NoCode]

\* set_password of forgot_password: what a reset writes into the row.
AfterReset(row, hash) ==
    [row EXCEPT !.password = hash, !.token_version = @ + 1,
                !.failed_login_attempts = 0, !.locked_until = Never]

\* check_token_version and, for CHECK_REVOKE_TOKEN, the hash of the password.
CurrentClaims(t) ==
    LET row == user[token[t].user]
    IN  /\ token[t].version = row.token_version
        /\ token[t].password = row.password

\* check_session
SessionLive(t) == session[token[t].sid] > now

\* RevocableJWTAuthentication.get_user
Accepted(t) ==
    /\ t \in issued
    /\ user[token[t].user].is_active
    /\ CurrentClaims(t)
    /\ SessionLive(t)

TokenUser(t, u) == t \in issued /\ token[t].user = u

Locked(u) == user[u].locked_until # Never /\ user[u].locked_until > now

ActiveAdmin(row) == row.role = "admin" /\ row.is_active
IsAdmin(u) == ActiveAdmin(user[u])

Tick ==
    /\ now < MaxTime
    /\ now' = now + 1
    /\ UNCHANGED <<user, lock, codeVars, tokenVars, pc, inputVars, adminVars, revoked>>
=============================================================================
