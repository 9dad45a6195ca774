SPECIFICATION Spec
CONSTANTS
  r1 = r1  r2 = r2  r3 = r3  p1 = p1  short = short  long = long
  Requests = {r1, r2, r3}
  Ops = {"create", "public", "reschedule", "cancel", "confirm", "noShow", "notes", "remove"}
  Professionals = {p1}
  Services = {short, long}
  Times = {1, 2}
  MaxNow = 1
  MaxFaults = 1
  Duration <- MCDuration
  Offers <- MCOffers
  Bookable <- MCBookable
  MinCancel <- MCMinMinutes
  MinReschedule <- MCMinMinutes
  Lead = 0
  NoDoc = NoDoc
INVARIANT NoDoubleBooking
SYMMETRY Sym
CHECK_DEADLOCK FALSE
