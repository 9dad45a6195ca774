----------------------------- MODULE Directory -----------------------------
(***************************************************************************)
(* What UsersService promises about the accounts: a directory that holds   *)
(* one account for a tenant and address.  An account keeps its tenant, its *)
(* address and its role for life, and one that was closed never opens      *)
(* again: a new account at its address has another id.  Each request opens *)
(* or closes at most one.                                                  *)
(***************************************************************************)
CONSTANTS Requests, Tenants, Emails, Roles, NoTenant

VARIABLES
  open,    \* the accounts: [id, tenant, email, role]
  served   \* the requests that are through; the id of an account is that
           \* of the request that opened it

Init == open = {} /\ served = {}

Serve(r) ==
  /\ r \notin served
  /\ served' = served \cup {r}

Vacant(t, e) == \A a \in open : a.tenant # t \/ a.email # e

Open(r) ==
  /\ Serve(r)
  /\ \E t \in Tenants \cup {NoTenant}, e \in Emails, role \in Roles :
       /\ Vacant(t, e)
       /\ t = NoTenant => role = "SUPER_ADMIN"
       /\ open' = open \cup {[id |-> r, tenant |-> t, email |-> e, role |-> role]}

Close(r) ==
  /\ Serve(r)
  /\ \E a \in open : open' = open \ {a}

\* Answered without a change of the directory.
Answer(r) ==
  /\ Serve(r)
  /\ UNCHANGED open

Next == \E r \in Requests : Open(r) \/ Close(r) \/ Answer(r)

Spec == Init /\ [][Next]_<<open, served>>
============================================================================
