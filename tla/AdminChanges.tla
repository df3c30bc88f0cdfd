----------------------------- MODULE AdminChanges -----------------------------
(***************************************************************************)
(* update_user and deactivate_user, statement by statement.  Both lock the *)
(* rows of the active admins in the order of their keys, then the target.  *)
(* At READ COMMITTED the rows to lock are those that matched when the query*)
(* started; the number of remaining admins is counted later, in the state  *)
(* that is committed then.                                                 *)
(***************************************************************************)
EXTENDS UserRows

\* The view is entered by an active admin, ask.by.
StartAdmin(r, a) ==
    /\ a.kind \in {"update", "deactivate", "admin_reset"}
    /\ IsAdmin(a.by)
    /\ typed' = [typed EXCEPT ![r] = user[a.by].password]
    /\ Goto(r, IF a.kind = "admin_reset" THEN "run" ELSE "find")
    /\ UNCHANGED <<held, at>>

\* Mutation: only the target is locked.
FoundNothing == {}

FoundAdmins == {u \in Users : IsAdmin(u)}

FindAdmins(r) ==
    /\ pc[r] = "find"
    /\ queue' = [queue EXCEPT ![r] = FoundAdmins]
    /\ Goto(r, "lock")
    /\ UNCHANGED <<now, user, lock, codeVars, tokenVars, inputVars, revoked, grown>>

\* SELECT ... FOR UPDATE ORDER BY pk: a row is locked also when it no longer matches.
LockAdmin(r) ==
    /\ pc[r] = "lock"
    /\ queue[r] # {}
    /\ LET u == Min(queue[r])
       IN  /\ lock[u] = Free
           /\ lock' = [lock EXCEPT ![u] = r]
           /\ queue' = [queue EXCEPT ![r] = @ \ {u}]
    /\ UNCHANGED <<now, user, codeVars, tokenVars, pc, inputVars, revoked, grown>>

LockTarget(r) ==
    /\ pc[r] = "lock"
    /\ queue[r] = {}
    /\ lock[Target(r)] \in {Free, r}
    /\ lock' = [lock EXCEPT ![Target(r)] = r]
    /\ Goto(r, "check")
    /\ UNCHANGED <<now, user, codeVars, tokenVars, inputVars, adminVars, revoked>>

Data(r) == IF ask[r].kind = "update" THEN ask[r].data ELSE [is_active |-> FALSE]

Changes(r, field) == field \in DOMAIN Data(r) /\ Data(r)[field] # user[Target(r)][field]

\* You cannot change your own role or status, nor your e-mail unverified, nor
\* your username without the password.
OwnChangeRefused(r) ==
    /\ ask[r].by = Target(r)
    /\ \/ {"role", "is_active"} \intersect DOMAIN Data(r) # {}
       \/ Changes(r, "email")
       \/ Changes(r, "username") /\ typed[r] # user[Target(r)].password

RemovesAdmin(r) ==
    /\ user[Target(r)].role = "admin"
    /\ \/ Changes(r, "role")
       \/ Changes(r, "is_active") /\ ~Data(r).is_active

Refused(r) ==
    \/ OwnChangeRefused(r)
    \/ \E field \in {"username", "email"} :
         /\ field \in DOMAIN Data(r)
         /\ \E w \in Users \ {Target(r)} : user[w][field] = Data(r)[field]
    \/ ask[r].kind = "deactivate" /\ ~user[Target(r)].is_active
    \/ RemovesAdmin(r) /\ ~\E w \in Users \ {Target(r)} : IsAdmin(w)

EndTransaction(r) ==
    /\ lock' = [u \in Users |-> IF lock[u] = r THEN Free ELSE lock[u]]
    /\ queue' = [queue EXCEPT ![r] = {}]

\* The checks and the count of the other active admins.
CheckChange(r) ==
    /\ pc[r] = "check"
    /\ IF Refused(r)
       THEN Finish(r) /\ EndTransaction(r)
       ELSE Goto(r, "commit") /\ UNCHANGED <<inputVars, lock, queue>>
    /\ UNCHANGED <<now, user, codeVars, tokenVars, revoked, grown>>

\* The row is saved; a deactivation also raises the token version.
CommitChange(r) ==
    /\ pc[r] = "commit"
    /\ LET u == Target(r)
           data == Data(r)
           deactivated == Changes(r, "is_active") /\ ~data.is_active
       IN  /\ user' = [user EXCEPT ![u] =
                         [f \in DOMAIN @ |->
                            IF f \in DOMAIN data THEN data[f]
                            ELSE IF f = "token_version" /\ deactivated THEN @[f] + 1
                            ELSE @[f]]]
           /\ IF deactivated \/ {"username", "email"} \intersect DOMAIN data # {}
              THEN DeleteCodes(u) ELSE UNCHANGED codeVars
           /\ IF deactivated THEN Revoke(u) ELSE UNCHANGED revoked
           /\ grown' = (grown \/ (~IsAdmin(u) /\ ActiveAdmin(user'[u])))
    /\ Finish(r)
    /\ EndTransaction(r)
    /\ UNCHANGED <<now, tokenVars>>

AdminStep(r) ==
    \/ FindAdmins(r)
    \/ LockAdmin(r)
    \/ LockTarget(r)
    \/ CheckChange(r)
    \/ CommitChange(r)
=============================================================================
