-------------------------- MODULE MCAnnouncements --------------------------
(* Instances of Announcements for TLC: requests are interchangeable, and so  *)
(* are professionals; the client reads the administrator's mailbox.          *)
EXTENDS Announcements, TLC
CONSTANTS r1, r2, a1, p1, p2, s1, admin, staff, guest, box1, box2
Boxes == [u \in Users |-> IF u = staff THEN box1 ELSE box2]
Sym == {f @@ g : f \in Permutations(Requests), g \in Permutations(Professionals)}
============================================================================
