-------------------------- MODULE MCPasswordReset --------------------------
(* Instance of PasswordReset for TLC.                                        *)
EXTENDS PasswordReset, TLC
CONSTANTS u1, u2, q1, q2, q3, q4, q5
Sym == Permutations(Requests) \cup Permutations(Users)
============================================================================
