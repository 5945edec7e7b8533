CONSTANTS
  m1 = m1  m2 = m2  m3 = m3
  d1 = d1  d2 = d2
  v1 = v1  v2 = v2  v3 = v3
  p1 = p1  p2 = p2  p3 = p3  p4 = p4
  Members = {m1, m2, m3}
  Devices = {d1, d2}
  Vouchers = {v1, v2, v3}
  Passkeys = {p1, p2, p3, p4}
  VoucherExpiry <- MCVoucherExpiry
  MaxVoucherSpends = 2
  MaxCredentials = 3
  MaxPerMember = 2
  MaxCounter = 2
  MaxTime = 3
SPECIFICATION StoreSpec
SYMMETRY Symmetry
CHECK_DEADLOCK FALSE
INVARIANTS TablesAgree WithinCapacity
PROPERTIES NeverUndone
