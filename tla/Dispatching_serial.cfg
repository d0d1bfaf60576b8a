\* Two carriers, one of them invited; one request at a time.
SPECIFICATION Spec
CONSTANTS
  o1 = o1
  o2 = o2
  c1 = c1
  c2 = c2
  r1 = r1
  r2 = r2
  r3 = r3
  h1 = h1
  h2 = h2
  NoOne = NoOne
  Orders = {o1}
  Companies = {c1, c2}
  Invitees = {c2}
  Requests = {r1, r2, r3}
  Handlers = {h1}
  Calls <- DispatchCalls
INVARIANTS AcceptedIsHolder OneRequestPerCompany AtMostOneAccepted FeeBeforeDispatched OffersAreOpen
PROPERTY RunsTender
CHECK_DEADLOCK FALSE
