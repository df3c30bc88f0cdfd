-------------------------- MODULE MCKeyedSubmission --------------------------
(* Attempts for KeyedSubmission: one request ID used with the same and with  *)
(* another payload, by two accounts, over every route, and without key.      *)
EXTENDS KeyedSubmission

attempt(kind, user, key, qty) == [kind |-> kind, user |-> user, key |-> key, qty |-> qty]

MCAttempts ==
    { attempt("checkout", "ana", "k", 1),
      attempt("checkout", "ana", "k", 2),
      attempt("order", "ana", "k", 1),
      attempt("checkout", "ben", "k", 2),
      attempt("encoding", "ana", "k", 2),
      attempt("encoding", "ben", "k", 2),
      attempt("adjustment", "ana", "k", 1),
      attempt("checkout", "ana", NoKey, 1) }
=============================================================================
