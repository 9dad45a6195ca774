--------------------------- MODULE MCAvailability ---------------------------
(* Instance of Availability for TLC: days of six ticks, hours before and     *)
(* after a break, one full day but for its last tick, and no hours at all.   *)
EXTENDS Availability
R(s, e) == [start |-> s, end |-> e]
MCRanges == {{}, {R(1, 4)}, {R(0, 2), R(3, 5)}, {R(1, 3), R(3, 5)}}
============================================================================
