-------------------------- MODULE SubmissionService --------------------------
(***************************************************************************)
(* What the keyed write endpoints promise: each submission is answered in  *)
(* one atomic step, and a request ID takes effect at most once.  Module    *)
(* KeyedSubmission, which models the locks, lookups, rollbacks and crashes *)
(* of the code, is shown to implement this specification.                  *)
(***************************************************************************)
EXTENDS Integers

CONSTANTS
    Requests,   \* submissions that reach the server, retries included
    Attempts,   \* what a submission may contain
    NoKey,      \* the key of a submission without request ID
    Units       \* bound: units of stock, initially and after a delivery

ASSUME ServiceAssumption ==
    /\ Units \in Nat
    /\ \A a \in Attempts : /\ a.kind \in {"checkout", "order", "encoding", "adjustment"}
                           /\ a.qty \in Nat \ {0}
                           /\ a.kind = "encoding" => a.key # NoKey

VARIABLES
    sellable,   \* the product and customer of the submissions are active
    stock,      \* committed stock
    ledger,     \* ledger: the committed writes, [by: Requests, of: Attempts]
    asked,      \* asked[r]: the attempt that r submitted
    reply       \* reply[r]: what r was answered, "none" while it is not

serviceVars == <<sellable, stock, ledger, asked, reply>>

Unasked == [kind |-> "none", user |-> "none", key |-> NoKey, qty |-> 0]

\* Two attempts compete for one request ID: checkout and order share the
\* SaleSubmission table, per account; adjustments have their own, per account;
\* encoding_request_id is unique across accounts.
SameKey(a, b) ==
    /\ a.key # NoKey
    /\ a.key = b.key
    /\ \/ /\ a.kind = "encoding"
          /\ b.kind = "encoding"
       \/ /\ a.user = b.user
          /\ \/ {a.kind, b.kind} \subseteq {"checkout", "order"}
             \/ a.kind = "adjustment" /\ b.kind = "adjustment"

ServiceInit ==
    /\ sellable = TRUE
    /\ stock = Units
    /\ ledger = {}
    /\ asked = [r \in Requests |-> Unasked]
    /\ reply = [r \in Requests |-> "none"]

Ask(r, a) ==
    /\ asked[r] = Unasked
    /\ asked' = [asked EXCEPT ![r] = a]
    /\ UNCHANGED <<sellable, stock, ledger, reply>>

\* The only step that has an effect: the first submission of a request ID.
Create(r) ==
    /\ \A w \in ledger : ~SameKey(w.of, asked[r])
    /\ asked[r].qty <= stock
    /\ stock' = stock - asked[r].qty
    /\ ledger' = ledger \union {[by |-> r, of |-> asked[r]]}
    /\ reply' = [reply EXCEPT ![r] = "created"]
    /\ UNCHANGED <<sellable, asked>>

\* Every other answer leaves stock and ledger alone and tells the truth.
Refuse(r) ==
    /\ \/ /\ \E w \in ledger : w.of = asked[r] /\ SameKey(w.of, asked[r])
          /\ reply' = [reply EXCEPT ![r] = "replayed"]
       \/ /\ \E w \in ledger : w.of # asked[r] /\ SameKey(w.of, asked[r])
          /\ reply' = [reply EXCEPT ![r] = "conflict"]
       \/ /\ \A w \in ledger : ~SameKey(w.of, asked[r])
          /\ asked[r].qty > stock
          /\ reply' = [reply EXCEPT ![r] = "insufficient"]
       \/ /\ ~sellable
          /\ reply' = [reply EXCEPT ![r] = "invalid"]
       \/ reply' = [reply EXCEPT ![r] = "lost"]
    /\ UNCHANGED <<sellable, stock, ledger, asked>>

\* The rest of the system: the catalogue changes, stock is delivered.
Environment ==
    \/ /\ sellable' = ~sellable
       /\ UNCHANGED <<stock, ledger, asked, reply>>
    \/ /\ stock' = Units
       /\ UNCHANGED <<sellable, ledger, asked, reply>>

ServiceNext ==
    \/ \E r \in Requests :
         \/ \E a \in Attempts : Ask(r, a)
         \/ /\ asked[r] # Unasked
            /\ reply[r] = "none"
            /\ Create(r) \/ Refuse(r)
    \/ Environment

ServiceSpec == ServiceInit /\ [][ServiceNext]_serviceVars
=============================================================================
