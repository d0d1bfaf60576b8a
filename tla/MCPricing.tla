------------------------------ MODULE MCPricing ------------------------------
(* The instance of Pricing that TLC checks. *)
EXTENDS Pricing, TLC

CONSTANTS k1, k2, near, far, h1

MCMiles == near :> 800 @@ far :> 1600

\* A profit that leaves room for a discount of five percent, and one that
\* leaves none and charges more for a car that is lifted.
MCTerms ==
  {[recommended |-> r, minimum |-> 15, fee |-> 100 * Dollar, minimalSale |-> 100 * Dollar,
    enclosed |-> 10, extra |-> ("lifted" :> 70 - 2 * r)] : r \in {15, 20}}

MCRates == {Dollar}
MCHandPrice == 700 * Dollar

AllCalls == {"quote", "patchQuote", "editCar", "quoteDiscount", "book", "create", "import",
             "publish", "take", "discount", "calculatePrice", "edit", "settings", "policy"}

\* Bounds: a quote is for the short way, prices are shown while an edit has
\* to be confirmed, and discounts change before a quote is booked or for
\* orders that were made without one.
Bounded ==
  /\ quote.route # far
  /\ shown # {} => MustConfirm(theOrder)
  /\ quote.status = "booked" => quote.price.discount = theOrder.price.discount

SymCars == Permutations(Cars)
=============================================================================
