\* One charge at a time; calls fail and answers get lost.
SPECIFICATION Spec
CONSTANTS
  t1 = t1
  t2 = t2
  t3 = t3
  s1 = s1
  s2 = s2
  s3 = s3
  h1 = h1
  h2 = h2
  NoOne = NoOne
  Transactions = {t1, t2}
  Sales = {s1, s2}
  Handlers = {h1}
  Settling = FALSE
  Calls <- AllCalls
INVARIANTS OneCapturePerSecret PaidRowCaptured DispatchedMeansFeeCaptured
SYMMETRY SymCharging
CHECK_DEADLOCK FALSE
