----------------------------- MODULE MCTenants -----------------------------
(* Instances of Tenants for TLC: the requests are interchangeable.           *)
EXTENDS Tenants, TLC
CONSTANTS r1, r2, r3
Sym == Permutations(Requests)
============================================================================
