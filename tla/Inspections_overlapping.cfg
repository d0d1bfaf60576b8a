\* One car and one driver: the client's requests overlap with the others'.
SPECIFICATION Spec
CONSTANTS
  car1 = car1
  d1 = d1
  p1 = p1
  h1 = h1
  h2 = h2
  NoOne = NoOne
  Cars = {car1}
  Drivers = {d1}
  Photos = {p1}
  Handlers = {h1, h2}
  Calls <- TwoSidesCalls
INVARIANTS RequestsAreReported PickupPhotosKept
CHECK_DEADLOCK FALSE
PROPERTY SignedReportsAreFinal
