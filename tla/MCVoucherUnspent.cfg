CONSTANTS
  m1 = m1  m2 = m2  d1 = d1  v1 = v1  v2 = v2  p1 = p1  p2 = p2
  c1 = c1  c2 = c2
  None = None
  Members = {m1, m2}
  Devices = {d1}
  Vouchers = {v1, v2}
  Passkeys = {p1, p2}
  Callers = {c1, c2}
  VoucherExpiry <- MCVoucherExpiry
  Authorizations <- MCAuthorizations
  MaxVoucherSpends = 2
  MaxCredentials = 2
  MaxPerMember = 1
  MaxCounter = 0
  MaxTime = 4
  ChallengeLifetime = 2
  SessionLifetime = 1
  GrantLifetime = 2
  OfferLifetime = 1
  CredentialLifetime = 1
  MaxOffers = 1
  MaxPending = 1
  MaxSessions = 1
  MaxTokens = 2
  MaxBoots = 1
SPECIFICATION JoinSpec
SYMMETRY Symmetry
CHECK_DEADLOCK FALSE
PROPERTIES FailureLeavesVoucherUnspent
