\* A client cancels while the pick-up is being signed.
SPECIFICATION Spec
CONSTANTS
  o1 = o1
  o2 = o2
  t1 = t1
  t2 = t2
  c1 = c1
  d1 = d1
  h1 = h1
  h2 = h2
  NoOne = NoOne
  Orders = {o1}
  Trips = {t1}
  Drivers = {d1}
  Companies = {c1}
  Handlers = {h1, h2}
  Internal = {o1}
  PayOnDelivery = {}
  CompanyOf <- MCCompanyOf
  Calls <- CancelRaceCalls
PROPERTY LoadedNeverReleased
CHECK_DEADLOCK FALSE
