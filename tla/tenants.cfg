SPECIFICATION Spec
CONSTANTS
  r1 = r1  r2 = r2  r3 = r3
  Requests = {r1, r2, r3}
  Ops = {"create", "status", "delete", "send", "settings", "profile", "logo", "background"}
  MaxChanges = 2
INVARIANTS
  TypeOK
  StatusFollowsInstance
  NamesMatchInstances
PROPERTY FormsKeepTheirFields
SYMMETRY Sym
CHECK_DEADLOCK FALSE
