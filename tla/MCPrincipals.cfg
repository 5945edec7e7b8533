CONSTANTS
  m1 = m1  m2 = m2  r1 = r1  r2 = r2
  Callers = {r1, r2}
  Members = {m1, m2}
  Scopes = {"credentials:issue", "api-key:manage"}
  MemberUntil <- MCMemberUntil
  MaxKeys = 2
  MaxKeysPerMember = 1
  MaxLifetime = 1
  MaxCreated = 2
  MaxTime = 2
  SessionLifetime = 1
  MaxOpened = 1
SPECIFICATION MadeSpec
SYMMETRY Symmetry
INVARIANTS KeyCapacity
PROPERTIES KeysNeedASession ExpiredStaysExpired RevokedNeverAgain
