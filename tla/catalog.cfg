SPECIFICATION NewsSpec
CONSTANTS
  r1 = r1  r2 = r2  a1 = a1  p1 = p1  p2 = p2  s1 = s1
  admin = admin  staff = staff  guest = guest  box1 = box1  box2 = box2
  None = None
  Requests = {r1, r2}
  Booked = {a1}
  Professionals = {p1, p2}
  Services = {s1}
  Users = {admin, staff, guest}
  Clients = {guest}
  Admins = {admin}
  Phones = {guest}
  Mailboxes = {box1, box2}
  Mailbox <- Boxes
INVARIANTS
  AllTypeOK
  BlindOffersOnly
  BookedWasThere
  NewsIsCurrent
  OnlyTheConcernedAreTold
  EverybodyIsTold
SYMMETRY Sym
CHECK_DEADLOCK FALSE
