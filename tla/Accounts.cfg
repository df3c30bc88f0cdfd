CONSTANTS
    Users = {1, 2}
    Requests = {r1, r2, r3}
    AsksOf <- MCAsksOf
    Old = Old
    Admins = {1, 2}
    Free = Free
    AUTH_IDLE_TIMEOUT = 2
    LOGIN_LOCKOUT = 1
    LOGIN_MAX_FAILED_ATTEMPTS = 2
    OTP_TIMEOUT = 2
    OTP_RESEND_COOLDOWN = 1
    OTP_MAX_ATTEMPTS = 2
    PASSWORD_CHANGE_COOLDOWN = 1
    PROFILE_EDIT_COOLDOWN = 1
    MaxTime = 3
SPECIFICATION Spec
INVARIANTS
    SignInSafety
    CodesMatchAccount
    AdminRemainsOfOld
PROPERTY
    EndsForAReason
SYMMETRY Symmetry
CHECK_DEADLOCK FALSE
