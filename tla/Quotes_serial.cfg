\* Two quotes of two clients, one of them by a link, and two orders, whose
\* senders and receivers are customers as well; one request at a time.
SPECIFICATION Spec
CONSTANTS
  Clients = {p1, p2}
  Parties = {p1, p2}
  Quotes = {q1, q2}
  Customers = {k1, k2}
  Orders = {o1, o2}
  TemporaryLeads = {t1}
  Handlers = {h1}
  NoOne = NoOne
CONSTRAINT Bounded
INVARIANTS LeadHasCustomer OwnerAsked OneLeadPerLink BookedOnce
SYMMETRY SymIds
CHECK_DEADLOCK FALSE
