--------------------------- MODULE MCBookVersions ---------------------------
(* Instance of BookVersions for TLC, over the catalogue of MCBooking.  It is  *)
(* too late to cancel what starts at 1, not what starts at 2.                 *)
EXTENDS BookVersions, MCBooking
MCMinCancel == [p \in Professionals |-> 2]
============================================================================
