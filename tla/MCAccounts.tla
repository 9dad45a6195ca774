----------------------------- MODULE MCAccounts -----------------------------
(* Instances of Accounts for TLC: four requests are enough for a creator, an *)
(* administrator, a second creator of the same address and a guest between   *)
(* them.                                                                     *)
EXTENDS Accounts, TLC
CONSTANTS r1, r2, r3, r4, t1, b1
Sym == Permutations(Requests)
=============================================================================
