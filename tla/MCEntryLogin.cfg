CONSTANTS
  m1 = m1  d1 = d1  d2 = d2  v1 = v1  p1 = p1
  c1 = c1  c2 = c2
  None = None
  Members = {m1}
  Devices = {d1, d2}
  Vouchers = {v1}
  Passkeys = {p1}
  Callers = {c1, c2}
  VoucherExpiry <- MCVoucherExpiry
  Authorizations <- MCAuthorizations
  MaxVoucherSpends = 2
  MaxCredentials = 2
  MaxPerMember = 1
  MaxCounter = 1
  MaxTime = 3
  ChallengeLifetime = 2
  SessionLifetime = 2
  GrantLifetime = 2
  OfferLifetime = 1
  CredentialLifetime = 1
  MaxOffers = 1
  MaxPending = 2
  MaxSessions = 2
  MaxTokens = 3
  MaxBoots = 1
SPECIFICATION LoginSpec
SYMMETRY Symmetry
CHECK_DEADLOCK FALSE
INVARIANTS CounterOnce CertificatesHonoured
PROPERTIES LoginsAreCounted GrantsOnlyLiveSessions
