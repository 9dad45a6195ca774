SPECIFICATION Spec
CONSTANTS
  u1 = u1  u2 = u2
  q1 = q1  q2 = q2  q3 = q3  q4 = q4  q5 = q5
  Users = {u1, u2}
  Requests = {q1, q2, q3, q4, q5}
  Absent = Absent
  TTL = 2
  MaxNow = 2
INVARIANTS
  TypeOK
  SingleUse
PROPERTIES
  RefusedOnlyForCause
  NoResetWhileInactive
  LedgerSpec
SYMMETRY Sym
CHECK_DEADLOCK FALSE
