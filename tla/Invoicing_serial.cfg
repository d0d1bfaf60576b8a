\* Two orders and two carriers, one request at a time.
SPECIFICATION Spec
CONSTANTS
  Orders = {o1, o2}
  Carriers = {c1, c2}
  Shippers = {s1}
  Handlers = {h1}
  NoOne = NoOne
  Prices = {2}
  MaxTime = 1
  MaxFiles = 2
INVARIANTS BilledOnOneTab OneInvoice ReportsAgree
PROPERTY DueDateKept
SYMMETRY SymIds
CHECK_DEADLOCK FALSE
