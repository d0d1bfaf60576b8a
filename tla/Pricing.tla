------------------------------- MODULE Pricing -------------------------------
(***************************************************************************)
(* What a shipment costs: CalculatorService, the price of one quote, of    *)
(* the order it becomes or that is made without one, and every request     *)
(* that changes one of them: edits of the quote, of its cars and of the    *)
(* order, discounts, and the super admin's settings and policies.          *)
(*                                                                         *)
(* There is one type of vehicle, hence one policy, `rate'.  An address is  *)
(* abstracted to the route it makes, a request for cars to a function from *)
(* cars to their extras.  Money counts in 1/100000 of a dollar.            *)
(* Names differ from Invoicing's, so that one module can extend both.      *)
(***************************************************************************)
EXTENDS Requests, Integers, FiniteSetsExt

CONSTANTS
  Cars,           \* ids of cars
  Extras,         \* what makes a car dearer: inop, lifted, headRack ...
  Optional,       \* the extras a request may leave out
  Routes, Miles,  \* pairs of addresses, and how far apart they are
  Trailers,       \* whether trailers are enclosed, of those that are asked for
  Rates,          \* prices per mile that a policy may have
  Terms,          \* rows that the general settings may hold
  Discounts,      \* percentages a super admin may offer
  HandPrice,      \* a sale price somebody types in
  MaxShown,       \* bound: prices shown before an edit
  Calls           \* the endpoints that are called in this instance

Dollar == 100000
Percents == 0..100
TermsRow == [recommended : Percents, minimum : Percents, fee : Nat, minimalSale : Nat,
             enclosed : Percents, extra : [Extras -> Percents]]

ASSUME NoPriceAssumption == NoOne \notin Rates \cup {HandPrice}
ASSUME ExtrasAssumption == Optional \subseteq Extras /\ Trailers \subseteq BOOLEAN
ASSUME DiscountsAssumption == Discounts \subseteq Percents
ASSUME RoutesAssumption == Miles \in [Routes -> Nat]
ASSUME RatesAssumption == Rates \subseteq Nat /\ Dollar \in Rates /\ HandPrice \in Nat
ASSUME CarsAssumption == IsFiniteSet(Cars) /\ IsFiniteSet(Extras)
ASSUME TermsAssumption == Terms # {} /\ Terms \subseteq TermsRow

VARIABLES
  settings, rate,        \* the general row; the policy of the type, or NoOne
  quote, theOrder, car,  \* the rows of the quote, the order and their cars
  shown,                 \* tempPrice: prices shown before an edit
  request,               \* the locals of each request in flight
  terms,                 \* history: the settings the order was priced under
  byHand,                \* history: the sale price was typed in since
  asQuoted               \* history: the quote is priced under what is in force

history == <<terms, byHand, asQuoted>>
pricingVars == <<settings, rate, quote, theOrder, car, shown, request, history>>

PriceRow == [discount : Percents, initial : Int, withDiscount : Int, sale : Int]
NoCar == [quote |-> FALSE, order |-> FALSE, extras |-> {}]
NoPrices == [discount |-> 0, initial |-> 0, withDiscount |-> 0, sale |-> 0]
NoQuote == [status |-> "absent", route |-> NoOne, enclosed |-> FALSE, price |-> NoPrices]
NoOrder == [source |-> "absent", published |-> FALSE, taken |-> FALSE, route |-> NoOne,
            enclosed |-> FALSE, price |-> NoPrices]
NoRequest == [step |-> "idle", order |-> NoOrder, price |-> NoPrices]

PricesTypeOK ==
  /\ settings \in Terms /\ terms \in Terms /\ byHand \in BOOLEAN
  /\ rate \in Rates \cup {NoOne}
  /\ quote \in [status : {"absent", "open", "booked"}, route : Routes \cup {NoOne},
                enclosed : BOOLEAN, price : PriceRow]
  /\ theOrder \in [source : {"absent", "internal", "external"}, published : BOOLEAN,
                taken : BOOLEAN, route : Routes \cup {NoOne}, enclosed : BOOLEAN,
                price : PriceRow]
  /\ car \in [Cars -> [quote : BOOLEAN, order : BOOLEAN, extras : SUBSET Extras]]
  /\ shown \subseteq Int /\ asQuoted \in BOOLEAN
  /\ \A h \in Handlers : request[h].step \in {"idle", "edit", "discount", "quoteDiscount"}

PricingInit ==
  /\ settings \in Terms /\ terms = settings /\ byHand = FALSE
  /\ rate \in Rates
  /\ quote = NoQuote /\ theOrder = NoOrder
  /\ car = [c \in Cars |-> NoCar]
  /\ shown = {}
  /\ request = [h \in Handlers |-> NoRequest]
  /\ asQuoted = FALSE

-----------------------------------------------------------------------------
(* CalculatorService.  A percentage is exact for amounts in cents.          *)

Percent(amount, n) == (amount \div 100) * n

\* Mutant: the rebate on a long way has no end.
EndlessRebate(price, miles) == IF miles < 900 THEN price ELSE price - 17 * (miles - 900)

\* getPriceByVehicleType: from 900 miles on a mile costs less.
RatePerMile(price, miles) ==
  IF miles < 900 THEN price ELSE price - 17 * Min({1000, miles - 900})

\* The body of getCarsDeliveryPrice's map.
CarPrice(extras, enclosed, miles) ==
  LET fare == miles * RatePerMile(rate, miles)
      more == MapThenSumSet(LAMBDA e : settings.extra[e], extras)
                + (IF enclosed THEN settings.enclosed ELSE 0)
  IN  fare + Percent(fare, more)

\* getCarsDeliveryPrice of a list of cars.
CarsDeliveryPrice(list, enclosed, miles) ==
  LET price == MapThenSumSet(LAMBDA c : CarPrice(list[c], enclosed, miles), DOMAIN list)
  IN  Max({price, settings.minimalSale + settings.fee})

\* A vehicle type without a policy cannot be priced.
Priceable(list) == DOMAIN list # {} => rate # NoOne

\* Mutant: the minimum is what may be given away.
DiscountableDownToNothing(discount) == settings.recommended - discount >= 0

\* getDiscountPrice refuses a discount that is too big.
Discountable(discount) == settings.recommended - discount >= settings.minimum

DiscountPrice(initial, discount) == initial - Percent(initial, discount)
SalePrice(initial) == initial - Percent(initial, settings.recommended) - settings.fee

PriceColumns(initial, discount) ==
  [discount |-> discount, initial |-> initial,
   withDiscount |-> DiscountPrice(initial, discount),
   sale |-> SalePrice(initial)]

-----------------------------------------------------------------------------
(* Cars and the requests that name them. *)

Lists == UNION {[S -> SUBSET Extras] : S \in SUBSET Cars}

CarsOf(owner) == {c \in Cars : car[c][owner]}
ListOf(owner) == [c \in CarsOf(owner) |-> car[c].extras]

\* The row of a car after a save of what the request says of it: a request
\* that is not whole leaves the optional extras out, and they stay.
Saved(c, given, whole) ==
  given \cup (IF whole THEN {} ELSE car[c].extras \cap Optional)

\* updateOrderCars and updateQuoteCars: the cars that the list leaves out are
\* removed, with or without the other owner.
Replaced(owner, list, whole) ==
  [c \in Cars |->
     CASE c \in DOMAIN list -> [car[c] EXCEPT ![owner] = TRUE, !.extras = Saved(c, list[c], whole)]
       [] c \notin DOMAIN list /\ car[c][owner] -> NoCar
       [] OTHER -> car[c]]

\* A list names cars of the owner and new ones.
Lawful(owner, list, whole) ==
  /\ \A c \in DOMAIN list : car[c][owner] \/ car[c] = NoCar
  /\ ~whole => \A c \in DOMAIN list : car[c][owner] /\ list[c] \cap Optional = {}

-----------------------------------------------------------------------------
Called(h, call) == request[h] = NoRequest /\ call \in Calls
Answered(h) == request' = [request EXCEPT ![h] = NoRequest]

\* What patch of a quote and updateLead write.
Requoted(price) ==
  quote' = [quote EXCEPT !.price = [PriceColumns(price, 0) EXCEPT !.discount = quote.price.discount]]

\* QuoteService.create.
CreateQuote(h, list, route, enclosed) ==
  /\ Called(h, "quote") /\ quote.status = "absent" /\ theOrder.source = "absent"
  /\ DOMAIN list # {} /\ Priceable(list) /\ Lawful("quote", list, TRUE)
  /\ quote' = [status |-> "open", route |-> route, enclosed |-> enclosed,
               price |-> PriceColumns(CarsDeliveryPrice(list, enclosed, Miles[route]), 0)]
  /\ car' = Replaced("quote", list, TRUE)
  /\ asQuoted' = TRUE
  /\ UNCHANGED <<settings, rate, theOrder, shown, request, terms, byHand>>

\* QuoteService.patch: priced by the list as it came, at the distance of the
\* quote.  getFullByWhere and getFullById find no quote that is booked.
PatchQuote(h, list, whole) ==
  /\ Called(h, "patchQuote") /\ quote.status = "open"
  /\ Priceable(list) /\ Lawful("quote", list, whole)
  /\ Requoted(CarsDeliveryPrice(list, quote.enclosed, Miles[quote.route]))
  /\ car' = Replaced("quote", list, whole)
  /\ asQuoted' = whole
  /\ UNCHANGED <<settings, rate, theOrder, shown, request, terms, byHand>>

\* CarService.editCar and updateLead: the quote is priced by its cars' rows.
EditCar(h, c, extras) ==
  LET row == extras \cup (car[c].extras \cap Optional)
  IN  /\ Called(h, "editCar") /\ quote.status = "open" /\ car[c].quote /\ extras \cap Optional = {}
      /\ Priceable(ListOf("quote"))
      /\ car' = [car EXCEPT ![c].extras = row]
      /\ Requoted(CarsDeliveryPrice([ListOf("quote") EXCEPT ![c] = row],
                                    quote.enclosed, Miles[quote.route]))
      /\ asQuoted' = TRUE
      /\ UNCHANGED <<settings, rate, theOrder, shown, request, terms, byHand>>

\* QuoteService.addQuoteDiscount; the update by id may come after a booking.
QuoteDiscountRead(h) ==
  /\ Called(h, "quoteDiscount") /\ quote.status = "open"
  /\ request' = [request EXCEPT ![h] =
       [NoRequest EXCEPT !.step = "quoteDiscount", !.price = quote.price]]
  /\ UNCHANGED <<settings, rate, quote, theOrder, car, shown, history>>

QuoteDiscountWrite(h, discount) ==
  /\ request[h].step = "quoteDiscount"
  /\ Discountable(discount)
  /\ quote' = [quote EXCEPT
       !.price.discount = discount,
       !.price.withDiscount = DiscountPrice(request[h].price.initial, discount)]
  /\ Answered(h)
  /\ UNCHANGED <<settings, rate, theOrder, car, shown, history>>

-----------------------------------------------------------------------------
(* Orders. *)

\* Mutant: the client gets the recommended price.
PricedWithoutDiscount(list, route, enclosed, discount) ==
  [PriceColumns(CarsDeliveryPrice(list, enclosed, Miles[route]), 0) EXCEPT !.discount = discount]

\* OrderService.create, its prices.
Priced(list, route, enclosed, discount) ==
  PriceColumns(CarsDeliveryPrice(list, enclosed, Miles[route]), discount)

\* QuoteService.publish: the order is priced anew, by the rows of the cars,
\* and shares them with the quote.
Book(h) ==
  /\ Called(h, "book") /\ quote.status = "open" /\ theOrder.source = "absent"
  /\ Priceable(ListOf("quote")) /\ Discountable(quote.price.discount)
  /\ theOrder' = [source |-> "internal", published |-> TRUE, taken |-> FALSE,
                  route |-> quote.route, enclosed |-> quote.enclosed,
                  price |-> Priced(ListOf("quote"), quote.route, quote.enclosed, quote.price.discount)]
  /\ quote' = [quote EXCEPT !.status = "booked"]
  /\ car' = [c \in Cars |-> [car[c] EXCEPT !.order = car[c].quote]]
  /\ terms' = settings /\ byHand' = FALSE /\ asQuoted' = FALSE
  /\ UNCHANGED <<settings, rate, shown, request>>

\* createTransactional (an order of the marketplace, not published yet) and
\* createOrder (a carrier's own order).
CreateOrder(h, list, route, enclosed, source) ==
  /\ Called(h, "create") /\ quote.status = "absent" /\ theOrder.source = "absent"
  /\ DOMAIN list # {} /\ Priceable(list) /\ Discountable(0) /\ Lawful("order", list, TRUE)
  /\ theOrder' = [source |-> source, published |-> source = "external", taken |-> source = "external",
                  route |-> route, enclosed |-> enclosed, price |-> Priced(list, route, enclosed, 0)]
  /\ car' = Replaced("order", list, TRUE)
  /\ terms' = settings /\ byHand' = FALSE
  /\ UNCHANGED <<settings, rate, quote, shown, request, asQuoted>>

\* ImportOrderBuilder.build and saveImportedOrder: the price is the paper's;
\* a type without a policy gets one of a dollar a mile.
ImportOrder(h, list, route, enclosed) ==
  /\ Called(h, "import") /\ quote.status = "absent" /\ theOrder.source = "absent"
  /\ Lawful("order", list, TRUE)
  /\ theOrder' = [source |-> "external", published |-> TRUE, taken |-> TRUE, route |-> route,
                  enclosed |-> enclosed,
                  price |-> [discount |-> 0, initial |-> HandPrice, withDiscount |-> HandPrice,
                             sale |-> HandPrice]]
  /\ car' = Replaced("order", list, TRUE)
  /\ rate' = IF rate = NoOne /\ DOMAIN list # {} THEN Dollar ELSE rate
  /\ byHand' = TRUE
  /\ UNCHANGED <<settings, quote, shown, request, terms, asQuoted>>

\* publish and unpublish.
Publish(h, published) ==
  /\ Called(h, "publish") /\ theOrder.source # "absent"
  /\ theOrder' = [theOrder EXCEPT !.published = published]
  /\ UNCHANGED <<settings, rate, quote, car, shown, request, history>>

\* A carrier gets the order, or it is cancelled (module OrderLifecycle).
Take(h, taken) ==
  /\ Called(h, "take") /\ theOrder.source = "internal"
  /\ theOrder' = [theOrder EXCEPT !.taken = taken]
  /\ UNCHANGED <<settings, rate, quote, car, shown, request, history>>

\* addOrderDiscount.
DiscountRead(h) ==
  /\ Called(h, "discount") /\ theOrder.source # "absent"
  /\ request' = [request EXCEPT ![h] = [NoRequest EXCEPT !.step = "discount", !.price = theOrder.price]]
  /\ UNCHANGED <<settings, rate, quote, theOrder, car, shown, history>>

DiscountWrite(h, discount) ==
  LET initial == request[h].price.initial
  IN  /\ request[h].step = "discount"
      /\ Discountable(discount)
      /\ theOrder' = [theOrder EXCEPT !.price.discount = discount,
                                   !.price.withDiscount = DiscountPrice(initial, discount),
                                   !.price.sale = SalePrice(initial)]
      /\ terms' = settings /\ byHand' = FALSE
      /\ Answered(h)
      /\ UNCHANGED <<settings, rate, quote, car, shown, asQuoted>>

\* calculatePrice: what an edit would cost, kept with a hash to confirm it.
ShowPrice(h, list, route, enclosed) ==
  LET price == Priced(list, route, enclosed, theOrder.price.discount).withDiscount
  IN  /\ Called(h, "calculatePrice") /\ theOrder.source # "absent"
      /\ Cardinality(shown) < MaxShown
      /\ Priceable(list) /\ Discountable(theOrder.price.discount)
      /\ shown' = shown \cup {price}
      /\ UNCHANGED <<settings, rate, quote, theOrder, car, request, history>>

\* hashTTL: thirty minutes pass, and what was shown confirms nothing.  They
\* are long against a request.
Expire ==
  /\ shown # {}
  /\ \A h \in Handlers : request[h] = NoRequest
  /\ shown' = {}
  /\ UNCHANGED <<settings, rate, quote, theOrder, car, request, history>>

\* checkHashIsValid, for some hash the client has.
Confirmed(price) ==
  \E s \in shown : s - price <= Dollar /\ price - s <= Dollar

\* patch reads the order it edits.
EditRead(h) ==
  /\ Called(h, "edit") /\ theOrder.source # "absent"
  /\ request' = [request EXCEPT ![h] = [NoRequest EXCEPT !.step = "edit", !.order = theOrder]]
  /\ UNCHANGED <<settings, rate, quote, theOrder, car, shown, history>>

\* carsUpdated: another number of cars, or one that differs from its row.
CarsUpdated(list, whole) ==
  \/ DOMAIN list # CarsOf("order")
  \/ \E c \in DOMAIN list : Saved(c, list[c], whole) # car[c].extras

\* Mutant: who edits an order with a carrier has to confirm.
MustConfirmTaken(o) == o.published /\ o.taken

\* The client of an order that carriers can see confirms its new price.
MustConfirm(o) == o.published /\ ~o.taken

\* patchInternal.  Without cars in the request all cars are removed.  The
\* super admin may keep the prices (`keep') and type in a sale price.
EditInternal(h, list, whole, route, enclosed, keep, sale) ==
  LET o == request[h].order
      reprice == (route # o.route \/ CarsUpdated(list, whole)) /\ ~keep
      priced == Priced(list, route, enclosed, o.price.discount)
      typed == IF sale = NoOne THEN o.price.sale ELSE sale
  IN  /\ request[h].step = "edit" /\ o.source = "internal"
      /\ Lawful("order", list, whole)
      /\ reprice => Priceable(list) /\ Discountable(o.price.discount)
      /\ reprice /\ MustConfirm(o) => Confirmed(priced.withDiscount)
      /\ theOrder' = [theOrder EXCEPT !.route = route, !.enclosed = enclosed,
                        !.price = IF reprice THEN priced ELSE
                          [o.price EXCEPT !.discount = theOrder.price.discount, !.sale = typed]]
      /\ car' = IF CarsUpdated(list, whole) THEN Replaced("order", list, whole) ELSE car
      /\ terms' = IF reprice THEN settings ELSE terms
      /\ byHand' = IF reprice THEN FALSE ELSE byHand \/ sale # NoOne
      /\ Answered(h)
      /\ UNCHANGED <<settings, rate, quote, shown, asQuoted>>

\* patchExternal: no price is computed.
EditExternal(h, list, whole, route, enclosed, sale) ==
  LET o == request[h].order
  IN  /\ request[h].step = "edit" /\ o.source = "external"
      /\ Lawful("order", list, whole)
      /\ theOrder' = [theOrder EXCEPT !.route = route, !.enclosed = enclosed,
                        !.price.sale = IF sale = NoOne THEN @ ELSE sale]
      /\ car' = IF CarsUpdated(list, whole) THEN Replaced("order", list, whole) ELSE car
      /\ byHand' = (byHand \/ sale # NoOne)
      /\ Answered(h)
      /\ UNCHANGED <<settings, rate, quote, shown, terms, asQuoted>>

\* A request fails and is rolled back.
Refuse(h) ==
  /\ request[h] # NoRequest
  /\ Answered(h)
  /\ UNCHANGED <<settings, rate, quote, theOrder, car, shown, history>>

-----------------------------------------------------------------------------
(* The super admin's settings. *)

\* Mutant: the row is saved without what the request leaves out.
PatchGeneralOnly(h, row) ==
  /\ Called(h, "settings") /\ row # settings
  /\ settings' = [recommended |-> row.recommended] /\ asQuoted' = FALSE
  /\ UNCHANGED <<rate, quote, theOrder, car, shown, request, terms, byHand>>

\* GeneralService.patch.
PatchGeneral(h, row) ==
  /\ Called(h, "settings") /\ row # settings
  /\ settings' = row /\ asQuoted' = FALSE
  /\ UNCHANGED <<rate, quote, theOrder, car, shown, request, terms, byHand>>

\* PolicyService.post, patch and delete.  The type of a car refers to its
\* policy, which cannot be deleted under it.
SetPolicy(h, price) ==
  /\ Called(h, "policy") /\ price # rate
  /\ price = NoOne => \A c \in Cars : car[c] = NoCar
  /\ rate' = price /\ asQuoted' = FALSE
  /\ UNCHANGED <<settings, quote, theOrder, car, shown, request, terms, byHand>>

\* PolicyService.sync: a type that has no policy gets one of a dollar a mile.
SyncPolicies(h) ==
  /\ Called(h, "policy") /\ rate = NoOne
  /\ rate' = Dollar /\ asQuoted' = FALSE
  /\ UNCHANGED <<settings, quote, theOrder, car, shown, request, terms, byHand>>

\* The quote (quote and client controllers).
Quoting(h) ==
  \/ \E list \in Lists :
       \/ \E r \in Routes, e \in Trailers : CreateQuote(h, list, r, e)
       \/ \E whole \in BOOLEAN : PatchQuote(h, list, whole)
  \/ \E c \in Cars, extras \in SUBSET Extras : EditCar(h, c, extras)
  \/ QuoteDiscountRead(h)
  \/ \E d \in Discounts : QuoteDiscountWrite(h, d)

\* The order, its discount and its publication (order controller).
Ordering(h) ==
  \/ Book(h)
  \/ \E list \in Lists, r \in Routes, e \in Trailers :
       \/ \E source \in {"internal", "external"} : CreateOrder(h, list, r, e, source)
       \/ ImportOrder(h, list, r, e)
       \/ ShowPrice(h, list, r, e)
  \/ \E b \in BOOLEAN : Publish(h, b) \/ Take(h, b)
  \/ DiscountRead(h)
  \/ \E d \in Discounts : DiscountWrite(h, d)

\* Its edits (order controller).
Editing(h) ==
  \/ EditRead(h)
  \/ \E list \in Lists, whole \in BOOLEAN, r \in Routes, e \in Trailers, sale \in {NoOne, HandPrice} :
       \/ \E keep \in BOOLEAN : EditInternal(h, list, whole, r, e, keep, sale)
       \/ EditExternal(h, list, whole, r, e, sale)
  \/ Refuse(h)

\* The super admin's settings (policy and general controllers).
Setting(h) ==
  \/ \E row \in Terms : PatchGeneral(h, row)
  \/ \E price \in Rates \cup {NoOne} : SetPolicy(h, price)
  \/ SyncPolicies(h)

PricingNext == Expire \/ \E h \in Handlers : Quoting(h) \/ Ordering(h) \/ Editing(h) \/ Setting(h)

PricingSpec == PricingInit /\ [][PricingNext]_pricingVars

-----------------------------------------------------------------------------
(* Properties. *)

\* minimumProfitPercentage: whatever quotes, discounts, edits and settings an
\* order went through, what the client pays, less what the carrier gets and
\* the fee, is at least the least profit of the settings it was priced under,
\* unless somebody typed the carrier's price in.
MarginKept ==
  theOrder.source # "absent" /\ ~byHand =>
    theOrder.price.withDiscount - theOrder.price.sale - terms.fee
      >= Percent(theOrder.price.initial, terms.minimum)

\* 'it's price show to de client: original estimate - discount'
\* (orderBase.entity.ts:79): for an order the three columns agree after every
\* request that writes some of them.
DiscountShown ==
  LET p == theOrder.price
  IN  p.withDiscount = DiscountPrice(p.initial, p.discount)

\* checkHashIsValid (order.service.ts:1202): while carriers can see an order
\* and none has it, its price rises only to one that its client was shown,
\* give or take a dollar, unless the super admin changes the discount.
ConfirmedBeforeRaised ==
  [][theOrder.published /\ ~theOrder.taken
       /\ theOrder'.price.withDiscount > theOrder.price.withDiscount
       /\ theOrder'.price.discount = theOrder.price.discount
     => Confirmed(theOrder'.price.withDiscount)]_pricingVars

\* QuoteService.publish prices the order anew: under the settings and the
\* policy its quote was priced under, it costs no more than the quote said,
\* also after discounts and edits of the quote, unless the last edit left
\* some extras of a car out.
BookedAtMostQuoted ==
  [][quote.status = "open" /\ quote'.status = "booked" /\ asQuoted
     => theOrder'.price.withDiscount <= quote.price.withDiscount]_pricingVars

\* The rebate of getPriceByVehicleType: under the policy in force five
\* hundred miles more never make a car cheaper.  (It would below 37.4 cents a mile.)
LongerNeverCheaper ==
  rate # NoOne =>
    \A k \in 0..7 : CarPrice({}, FALSE, 500 * k) <= CarPrice({}, FALSE, 500 * (k + 1))
=============================================================================
