\* One request at a time, one of which may be cut off.
SPECIFICATION Spec
CONSTANTS
  c1 = c1
  c2 = c2
  a1 = a1
  a2 = a2
  i1 = i1
  i2 = i2
  i3 = i3
  e1 = e1
  e2 = e2
  n1 = n1
  h1 = h1
  NoOne = NoOne
  Companies = {c1, c2}
  Accounts = {a1, a2}
  Invites = {i1, i2, i3}
  Emails = {e1, e2}
  Numbers = {n1}
  Handlers = {h1}
  MaxCrashes = 1
  Calls <- AllCalls
INVARIANTS OneCarrierPerNumber AcceptedHasAccount
PROPERTIES OnlyPendingMakesAccounts AnswersAreFinal
SYMMETRY SymRegistration
CHECK_DEADLOCK FALSE
