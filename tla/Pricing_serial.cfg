\* A quote, the order it becomes and every edit, one request at a time.
SPECIFICATION PricingSpec
CONSTANTS
  k1 = k1
  k2 = k2
  near = near
  far = far
  NoOne = NoOne
  h1 = h1
  Handlers = {h1}
  Cars = {k1}
  Extras = {"lifted"}
  Trailers = {FALSE}
  Optional = {"lifted"}
  Routes = {near, far}
  Miles <- MCMiles
  Rates <- MCRates
  Terms <- MCTerms
  Discounts = {0, 5}
  HandPrice <- MCHandPrice
  MaxShown = 1
  Calls <- AllCalls
CONSTRAINT Bounded
INVARIANTS PricesTypeOK MarginKept DiscountShown LongerNeverCheaper
PROPERTIES ConfirmedBeforeRaised BookedAtMostQuoted
CHECK_DEADLOCK FALSE
