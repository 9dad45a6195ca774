----------------------------- MODULE MCBooking -----------------------------
(* Instances of Booking for TLC: one professional, a short and a long        *)
(* service; the long one is the only one offered to the public, and the      *)
(* working day ends at 3.                                                    *)
EXTENDS Booking, TLC
CONSTANTS r1, r2, r3, p1, short, long
MCDuration == [s \in Services |-> IF s = short THEN 1 ELSE 2]
MCOffers == [p \in Professionals |-> Services \ {short}]
MCBookable == {<<p, s, e>> \in Professionals \X (1..2) \X (2..3) : s < e}
MCMinMinutes == [p \in Professionals |-> 1]
Sym == Permutations(Requests)
============================================================================
