\* Two orders of one trip, two requests at a time, to the end of the trip.
SPECIFICATION FairSpec
CONSTANTS
  o1 = o1
  o2 = o2
  t1 = t1
  t2 = t2
  c1 = c1
  d1 = d1
  h1 = h1
  h2 = h2
  NoOne = NoOne
  Orders = {o1, o2}
  Trips = {t1}
  Drivers = {d1}
  Companies = {c1}
  Handlers = {h1, h2}
  Internal = {}
  PayOnDelivery = {}
  CompanyOf <- MCCompanyOf
  Calls <- DeliveryCalls
INVARIANT InOnePlace
PROPERTY DeliveredTripCompletes
CHECK_DEADLOCK FALSE
