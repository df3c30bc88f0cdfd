CONSTANTS
    Users = {1, 2, 3}
    Requests = {1, 2, 3, 4, 5}
    AsksOf <- MCPromotions
    Old = Old
    Admins = {1}
    Free = Free
    AUTH_IDLE_TIMEOUT = 1
    LOGIN_LOCKOUT = 1
    LOGIN_MAX_FAILED_ATTEMPTS = 2
    OTP_TIMEOUT = 2
    OTP_RESEND_COOLDOWN = 1
    OTP_MAX_ATTEMPTS = 2
    PASSWORD_CHANGE_COOLDOWN = 1
    PROFILE_EDIT_COOLDOWN = 1
    MaxTime = 0
SPECIFICATION Spec
INVARIANT AdminRemains
CHECK_DEADLOCK FALSE
