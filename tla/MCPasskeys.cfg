CONSTANTS
  m1 = m1  m2 = m2  d1 = d1  v1 = v1  p1 = p1  p2 = p2  p3 = p3
  c1 = c1  c2 = c2
  Members = {m1, m2}
  Devices = {d1}
  Vouchers = {v1}
  Passkeys = {p1, p2, p3}
  Callers = {c1, c2}
  VoucherExpiry <- MCVoucherExpiry
  MaxVoucherSpends = 2
  MaxCredentials = 3
  MaxPerMember = 2
  MaxCounter = 1
  MaxTime = 3
  CeremonyLifetime = 1
  MaxCeremonies = 2
  LoginLifetime = 1
  GrantLifetime = 2
  MaxLogins = 1
  MaxTokens = 2
  MaxBoots = 1
SPECIFICATION PasskeySpec
SYMMETRY JoinedSymmetry
CHECK_DEADLOCK FALSE
INVARIANTS TypeOK FurtherPasskeysSignedFor
