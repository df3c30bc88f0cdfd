------------------------------ MODULE MCAccounts ------------------------------
(* Requests for Accounts: three of any kind about user 1, and the five        *)
(* changes of roles that meet in the run on the last admin.                   *)
EXTENDS Accounts, TLC

Symmetry == Permutations(Requests)

own(kind) == [kind |-> kind, user |-> 1]
change(u, by, data) == [kind |-> "update", user |-> u, by |-> by, data |-> data]

MCAsks ==
    { own(kind) : kind \in {"refresh", "logout", "activity", "password", "forgot", "confirm_reset"} }
    \union { [kind |-> "login", user |-> 1, right |-> right] : right \in BOOLEAN }
    \union { [kind |-> kind, user |-> 1, email |-> 9] : kind \in {"email", "confirm_email"} }
    \union { [kind |-> "profile", user |-> 1, username |-> 9],
             [kind |-> "admin_reset", user |-> 1, by |-> 2],
             [kind |-> "deactivate", user |-> 2, by |-> 1],
             change(1, 2, [is_active |-> FALSE]),
             change(1, 2, [is_active |-> TRUE]),
             change(2, 1, [role |-> "staff"]),
             change(1, 2, [email |-> 8, username |-> 8]) }

MCAsksOf == [r \in Requests |-> MCAsks]

MCPromotions ==
    [r \in Requests |->
       CASE r = 1 -> {[kind |-> "deactivate", user |-> 3, by |-> 1]}
         [] r = 2 -> {change(2, 1, [role |-> "admin"])}
         [] r = 3 -> {change(1, 2, [role |-> "staff"])}
         [] r = 4 -> {change(3, 2, [role |-> "admin"])}
         [] r = 5 -> {change(2, 1, [role |-> "staff"])}]
=============================================================================
