SPECIFICATION Spec
CONSTANTS
  r1 = r1  r2 = r2  r3 = r3  r4 = r4  t1 = t1  b1 = b1
  Requests = {r1, r2, r3, r4}
  Tenants = {t1}
  Mailboxes = {b1}
  NoTenant = NoTenant
  Null = Null
INVARIANTS
  TypeOK
  ServedOnOwnAccount
  DuplicateOnlyByRace
PROPERTIES
  GuestsWriteOnlyClients
  DirectorySpec
SYMMETRY Sym
CHECK_DEADLOCK FALSE
