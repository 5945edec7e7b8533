CONSTANTS
  r1 = r1  r2 = r2  r3 = r3
  o1 = o1  o2 = o2  o3 = o3  o4 = o4
  w1 = w1  w2 = w2
  Workers = {w1, w2}
  Receipts = {r1, r2, r3}
  Operations = {o1, o2, o3, o4}
  Attested <- MCAttested
  MaxLifetime = 3
  MaxReceipts = 2
  MaxSerial = 4
  MaxBoots = 1
  MaxTime = 5
SPECIFICATION Spec
SYMMETRY Symmetry
CHECK_DEADLOCK FALSE
INVARIANTS NoReplayWindow ExactRetry ReceiptCapacity RetryFindsResult
PROPERTIES ImplementsRedemption
