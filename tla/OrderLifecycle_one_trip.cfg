\* Two orders and two trips of one driver, one request at a time.
SPECIFICATION Spec
CONSTANTS
  o1 = o1
  o2 = o2
  t1 = t1
  t2 = t2
  c1 = c1
  d1 = d1
  h1 = h1
  h2 = h2
  NoOne = NoOne
  Orders = {o1, o2}
  Trips = {t1, t2}
  Drivers = {d1}
  Companies = {c1}
  Handlers = {h1}
  Internal = {}
  PayOnDelivery = {}
  CompanyOf <- MCCompanyOf
  Calls <- TripCalls
INVARIANT OneActiveTripPerDriver
SYMMETRY SymTables
CHECK_DEADLOCK FALSE
