CONSTANTS
  m1 = m1  d1 = d1  v1 = v1  p1 = p1
  c1 = c1  c2 = c2
  None = None
  Members = {m1}
  Devices = {d1}
  Vouchers = {v1}
  Passkeys = {p1}
  Callers = {c1, c2}
  VoucherExpiry <- MCVoucherExpiry
  Authorizations <- MCAuthorizations
  MaxVoucherSpends = 1
  MaxCredentials = 1
  MaxPerMember = 1
  MaxCounter = 0
  MaxTime = 2
  ChallengeLifetime = 1
  SessionLifetime = 1
  GrantLifetime = 1
  OfferLifetime = 1
  CredentialLifetime = 1
  MaxOffers = 1
  MaxPending = 1
  MaxSessions = 1
  MaxTokens = 2
  MaxBoots = 0
SPECIFICATION FairSpec
CHECK_DEADLOCK FALSE
INVARIANTS SessionCapacity
PROPERTIES EveryCallEnds
