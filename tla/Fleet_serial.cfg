SPECIFICATION Spec
CONSTANTS
  Drivers = {d1}
  Dispatchers = {p1, p2}
  Companies = {c1, c2}
  Requests = {r1, r2}
  Handlers = {h1}
  NoOne = NoOne
  MaxCrashes = 1
  Flagged = {d1}
  Calls <- CarrierCalls
INVARIANTS WorksWhereAsked DispatcherOfOwnCompany OneOpenRequest
PROPERTIES AnswersAreFinal
