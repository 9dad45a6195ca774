---------------------------- MODULE ResetLedger ----------------------------
(***************************************************************************)
(* What the password reset links of the system promise: a link is redeemed *)
(* at most once, and redeeming one kills every link issued before.  Links  *)
(* are abstracted to the version they carry.  Only the links of version    *)
(* next[u] of user u are alive; redeeming one of them moves next[u] on, and *)
(* the ledger remembers who redeemed what.  A request redeems one link.    *)
(***************************************************************************)
EXTENDS Integers

CONSTANTS Users, Requests

VARIABLES ledger, next

Init ==
  /\ ledger = {}
  /\ next = [u \in Users |-> 0]

Redeem(u, q) ==
  /\ \A e \in ledger : e.by # q
  /\ ledger' = ledger \cup {[user |-> u, version |-> next[u], by |-> q]}
  /\ next' = [next EXCEPT ![u] = @ + 1]

Next == \E u \in Users, q \in Requests : Redeem(u, q)

Spec == Init /\ [][Next]_<<ledger, next>>
============================================================================
