CONSTANTS
  m1 = m1  m2 = m2  d1 = d1  v1 = v1  p1 = p1  p2 = p2  c1 = c1  a1 = a1
  None = None
  Members = {m1, m2}
  Devices = {d1}
  Vouchers = {v1}
  Passkeys = {p1, p2}
  EntryCallers = {c1}
  AccountCallers = {a1}
  VoucherExpiry <- MCVoucherExpiry
  Authorizations <- MCAuthorizations
  MaxVoucherSpends = 1
  MaxCredentials = 2
  MaxPerMember = 2
  MaxCounter = 1
  MaxTime = 2
  ChallengeLifetime = 1
  SessionLifetime = 1
  CertificateLifetime = 1
  OfferLifetime = 1
  CredentialLifetime = 2
  MaxPending = 1
  MaxSessions = 1
  MaxOffers = 1
  CeremonyLifetime = 1
  MaxCeremonies = 1
  LoginLifetime = 1
  AdmissionLifetime = 2
  MaxLogins = 1
  MaxEntryTokens = 1
  MaxAccountTokens = 2
  MaxBoots = 1
SPECIFICATION JoinedSpec
CHECK_DEADLOCK FALSE
INVARIANTS CountersAcceptedOnceByAll AdmissionsEarned DrawnNeverAdmitted
PROPERTIES NothingNewOnRetired
