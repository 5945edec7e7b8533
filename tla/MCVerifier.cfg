CONSTANTS
  m1 = m1  m2 = m2  d1 = d1  v1 = v1  p1 = p1  p2 = p2  p3 = p3
  c1 = c1  c2 = c2
  Members = {m1}
  Devices = {d1}
  Vouchers = {v1}
  Passkeys = {p1}
  Callers = {c1, c2}
  VoucherExpiry <- MCVoucherExpiry
  MaxVoucherSpends = 1
  MaxCredentials = 2
  MaxPerMember = 2
  MaxCounter = 1
  MaxTime = 3
  CeremonyLifetime = 1
  MaxCeremonies = 1
  LoginLifetime = 1
  GrantLifetime = 2
  MaxLogins = 2
  MaxTokens = 2
  MaxBoots = 0
SPECIFICATION Spec
SYMMETRY Symmetry
CHECK_DEADLOCK FALSE
INVARIANTS AnsweredOnce CountersAcceptedOnce
PROPERTIES AdmissionsHonoured
