# Verification of the car-shipping backend

The repository is the backend of a car-shipping broker: one NestJS process over
PostgreSQL (TypeORM, READ COMMITTED), with a payment gateway (Braintree), a map
service (HERE) and e-mail at its edges. Clients ask for quotes and book orders;
carriers' companies ask for the orders or are invited; dispatchers plan them on
trips; drivers pick the cars up, have the client sign, deliver them and have
them signed for again; companies are billed.

What is hard to test in it is not any single handler. It is that nearly every
handler *reads* rows, decides, waits (for a query, the gateway, a mail), and
then *updates by id without a condition*, often by several statements without a
transaction: at each `await` another handler runs, or the process stops, and
what was read may be gone when it is used. This project models that, checks it
on small instances with TLC, and proves what matters for every instance with
TLAPS.

## 1. Inventory

Paths are below `src/src/`.

| Component | Source | State it keeps | Operations | Talks to |
|---|---|---|---|---|
| Orders | `app/order`, `repositories/order.repository.ts` | `order`: status, published, company, payment status | create, publish, cancel (company, client), decline, delete, archive, assign to a trip, driver's moves, request a signature, sign, mark paid | trips, payments, inspections |
| Trips | `app/trip`, `repositories/trip.repository.ts` | `trip`: status, driver, route; `orderToTrip` | create, patch, assign/unassign, draft, publish, start, delete, driver to pick-up | orders, HERE |
| Dispatch requests | `app/dispatch` | `dispatch`: status, company, order | create, accept, cancel, retry of failed fees | orders, payments, invitations |
| Registration | `app/register`, approvals in `app/company`, `app/account` | `invite`, `company`, `account` | invite, resend, decline, retrieve, expire, register, approve, edit | orders, payments, leads |
| Join requests, who works for whom | `app/joinRequest`, `app/account` | `joinRequest`; carrier, dispatcher and flags of an account | ask, accept, decline, cancel; leave, remove, link, patch, block | registration |
| Payments | `app/transaction`, `app/wallet`, `app/payment` | `transaction`, `wallet`; sales at the gateway | charge, authorize, submit, set/remove a wallet | gateway, event `order_charge` |
| Inspections, signatures | `app/inspection`, parts of `app/order` | `inspection`, details, images | create, edit, add damage, photos, request a signature, sign, copy to the delivery, delete | orders |
| Quotes, leads | `app/quote`, `app/lead`, `app/temporaryLead` | `quote`, `virtualAccount`, `temporaryLead` | create, import, edit, mail, delete, adopt, accept, decline, publish as an order | orders, registration |
| Prices | `app/shared/calculator.service.ts`, `app/general`, `app/policy`, parts of order, quote, car | prices, discounts, `tempPrice`, `general`, `policy` | estimate, edit, discount, show and confirm a price, book, settings | quotes, orders |
| Invoices, reports | parts of `app/order`, `repositories/order.repository.ts` | invoice, bill, due date, payment | make, mail, bill, mark paid; tabs and reports | orders, mail |
| Lists | `repositories/order.repository.ts` | none | the carrier's load board, the market, the super admin's lists | orders, dispatch |
| Driver positions | `app/driver`, `app/driverLocation` | last positions | insert a position, which may move an order | orders |
| Schedule, notifications | `app/services/schedule.service.ts`, `app/notification` | `notification` | daily and hourly jobs; create, list | invitations, leads |
| Routes, import, notes, timeline, files, PDF, mail, sessions | `app/here`, ... | rows nothing else decides on | storage, calls of services, formatting | - |

Per component, what makes it correct and what makes that hard:

- **Orders.** A status is only as far along as what happened to the order; a
  loaded order is not released; the fare is taken before the pick-up. About
  thirty endpoints write the status, each from what it read earlier.
- **Trips.** A driver has one active trip; a trip ends when its orders are
  delivered. The end is computed by promises nobody awaits.
- **Dispatch and invitations.** One carrier per order, chosen from a request
  that stands, after the fee; what is offered is still free. Two ways to get an
  order, each with a network charge in the middle and an update by id at the end.
- **Payments.** Money is taken once, and what is marked paid was taken. Lost
  answers, charges that overwrite each other's rows, sales that age.
- **Inspections.** What was signed stays; a signature is asked for complete
  reports; photos are not lost. Reports are copied and edited by several
  statements, some of them outside a transaction.
- **Registration, fleet.** An answer is final; an accepted invitation has an
  account; a driver works where he asked to. Accounts are made and employed
  by statements that a crash can separate; whole rows are written back.
- **Quotes.** A quote stays the person's it was made for and is booked once.
  Leads change hands between tables while mails are on their way.
- **Prices.** The margin is kept and nobody pays more than he was shown, while
  settings, discounts and edits change in any order.
- **Invoices.** One invoice and one due date however often mailing fails, and
  lists and reports that agree.

`PROJECT.json` lists every component with its status, and every hazard with the
line where it bites and the properties aimed at it.

## 2. Modules

| Module | What it is |
|---|---|
| `OrderLifecycle` | orders, trips, their links and the requests in flight |
| `OrderJourney` | abstract: the phases of an order and the moves between them |
| `OrderBoards` | the carrier's load board over `OrderLifecycle` |
| `Dispatching` | requests, acceptance, invitations, claims, cancellations |
| `Tender` | abstract: who has an order, who bids for it |
| `MarketBoards` | the carriers' market and the super admin's lists over `Dispatching` |
| `Charging` | one order's money: transactions, wallet, gateway, callers |
| `Inspections` | the reports of an order and their signatures |
| `Registration` | invitations, companies, accounts, approvals |
| `Fleet` | who works for which carrier, under which dispatcher |
| `Invoicing`, `Revenue` | invoice, mail, bill, payment; the two reports |
| `Quotes` | leads, quotes, the people they are made for, booking |
| `Pricing` | prices of a quote, its order, cars, settings, policies |
| `Requests` | the constants that `Invoicing` and `Pricing` share |
| `MoneyProofs` | theorems of `Invoicing`, `Revenue` and `Pricing`, which share lemmas on sums |
| `*Proofs` | theorems of the module they are named after |
| `MC*` | instances for TLC |

The components overlap on purpose, each with the detail its questions need.
`OrderLifecycle` has all endpoints of an order but one row of dispatching
(`Accept`, `AcceptInvite`) and a charge that succeeds or not: `Dispatching`
opens the first, `Charging` the second. `Inspections` and `Invoicing` take the
order's way from `OrderLifecycle` in single steps; `Registration` leaves what
an invitation does to its order to `Dispatching`; `Quotes` says which order a
quote becomes, `Pricing` at what price.

**How a handler is modelled.** A request occupies a slot of `handler`, its
locals: the step it is at and what it keeps from its reads. A handler that
decides on what it read is two steps, the read with its guards and early
returns, and the commit with everything it writes; a call over the network is a
step of its own, and a handler without a transaction is a step per statement.
`Abort` (or `Stop`, `Throw`) ends a request before its next statement; where
statements commit one by one, what was written before stays. `Crash`, in
`Registration` and `Fleet`, is the process that stops; `MaxCrashes` bounds how
often in a run. A handler whose only precondition is that the row exists is one
step. Names are those of the source: `SignRead` is `signInspection` up to the
charge, `ChargeOrder` its charge, `SignWrite` its update and commit. The groups
of a next-state relation (`Planning`, `Accepting`, `InviteStep`, ...) are the
endpoints of a controller.

**`OrderLifecycle`.** `order`, `trip`, `link` are the tables; `reached` and
`charged` are history. Simplifications, all on the side of more behaviours
unless said: the link table is a function of order and trip (the code never
keeps two rows of one pair); `TripCreate`, `TripPatch` and `Accept` are single
steps; a trip's id is not used again after deletion; the guard of inspections
and positions are nondeterministic; a super admin cancels as company "none", a
company as itself; `order.preStatus` is left out because the comparison at
order.service.ts:2017 is with DECLINED and no line of the repository ever writes
that value (inspection.service.ts:402 writes CLAIMED); `charged` means that
`chargeOrder` returned without an error, which is not that money was taken
(section 3). `hidden` is `hiddenForCompnay`, set when the carrier archives the order
(`Archive`), not when the super admin does (`AdminArchive`).

**`Dispatching`, `MarketBoards`.** "dispatched" stands for dispatched and what
the carrier does next; "fare" for both CAR_PICKUP statuses; the invitation of a
carrier to an order is one value per pair, its latest. The updates of `accept`'s
transaction are one step because they hold row locks until the commit. A retry
of the fee is possible in every failed state (the code also wants a transaction
row: `Charging` has that). The lists are those of orders that are the firm's
own, published and not hidden; the filters by place, car and price select among
them and are left out.

**`Charging`.** One order; the status stands for the secret `uuid_status`, an
amount is "fee" or "fare". The gateway (`GatewaySale`, `Submit`, `SaleAges`) may
authorize or reject, do what it was asked and lose the answer, let an
authorization expire, forget an uncaptured sale, settle. A charge works on its
copy of the row and saves the whole copy, as `save` of a spread object does.

**`Inspections`.** The table is a function of car and type, by its unique
constraint. The check that a driver's trip has the car is modelled as intended.
`edit` is a step per statement, and so is the driver's request for a signature, up
to its first write: the order is read with its cars (`RequestRead`), the finished
reports are counted against them (`RequestFind`), and the order and all reports of
the type are updated whatever their status is by then (`RequestWrite`: the two
updates hold row locks until the commit). `PatchCars` adds and removes cars at any
time; only a foreign key keeps a car that has a report. `asked` is history: the cars
that the order had for the request it waits on.

**`Registration`.** One number stands for MC and DOT number together; reset
tokens and confirmation codes are "was sent one". The call "renumber"
(`carrierEdit` with other numbers) is in the module and not in the instance,
and `OneCarrierPerNumberHolds` assumes it is not called (`KeepsNumbers`):
`carrierEdit` does not look for the new numbers elsewhere.

**`Fleet`.** A row read and written back whole is a step that restores what was
read. "superLink", the super admin's link of a driver to a dispatcher of another
company, is in the module and not in the instance (`OwnLinks` in the proofs).

**`Invoicing`, `Revenue`.** The bill of lading is left out; the order's trip is
the carrier's. Archiving, deletion and publication have no guard on the status and
are single steps; both lists show published orders that the carrier did not archive
(`Shown`), the reports count all. The condition of the BILLED tab binds as AND/OR does in
order.repository.ts:254. An order that awaits a signature is on no tab, and a
delivered order taken off its trip is on none.

**`Quotes`.** Left out: how often and when a lead was mailed (any may be due),
prices, cars. Foreign keys are those of the entities; removing a customer may
fail on one. The batch of `checkSendEmails` is taken lead by lead. Accounts with
one e-mail address count as one. The rows of `virtualAccount` that leads name are
also the senders and receivers of orders: `SaveParty` is what making, importing and
patching an order does to them, and a patch may write another address over a row
that a lead names. `carried` is history, the addresses a row has had; `Parties` are
the addresses that orders give. Registration finds the row by its address, then the
leads by the row (`FindRow`, `FindLeads`), and a patch may come in between. An order
made directly with a `quoteId` (POST /orders) is not modelled.

**`Pricing`.** One type of vehicle, hence one policy; a route is its distance;
money is exact in 1/100000 of a dollar. The order is `theOrder` and the requests
are `request`, so that one module can speak of `Invoicing` too. `terms` is
history: the settings the order was priced under. What the code does and the
model keeps, though it may surprise: a patch of an order without the field
`cars` removes all its cars; a car patched in part is priced without what the
patch leaves out; cars are shared by a quote and the order it became; a booked
quote is found by no request (quote.repository.ts:144), but a discount that was
read before the booking is written after it; patching a quote keeps its discount
and writes the undiscounted price to `priceWithDiscount`; the hash of a shown
price is not tied to its order; a change of the trailer alone never reprices.

## 3. What is checked

Every property of a passing run has a mutant: a plausible slip in the code (the
operators marked *Mutant* in the modules) that TLC refutes.

| Run | Instance | Shows |
|---|---|---|
| `serial` | 1 order, 1 trip, 1 driver, 1 company, all endpoints, one request at a time | `MilestonesInOrder`, `PickupCharged`; **`FollowsJourney`**: the services implement `OrderJourney` |
| `one_trip` | 2 orders, 2 trips, 1 driver | `OneActiveTripPerDriver` |
| `completion` | 2 orders on a trip, requests for signatures and signatures, two interleaved | liveness **`DeliveredTripCompletes`**; `InOnePlace`: all the way an order is in one place of the load board, and in none while a signature is waited for |
| `tender` | 1 order, a registered and an invited carrier, 3 requests, all calls, one at a time | `AcceptedIsHolder`, `OneRequestPerCompany`, `AtMostOneAccepted`, `FeeBeforeDispatched`, `OffersAreOpen`; **`RunsTender`**: dispatching implements `Tender` |
| `charging` | 2 transactions, 2 sales, one charge at a time, every failure | `OneCapturePerSecret`, `PaidRowCaptured`, `DispatchedMeansFeeCaptured` |
| `inspections` | 1 car, 1 driver, 1 photo, two requests interleaved (a client's and another's) | `RequestsAreReported`, `PickupPhotosKept`, `SignedReportsAreFinal` |
| `registration` | 2 companies, 2 accounts, 3 invitations, 2 addresses, 1 number, one crash | `OneCarrierPerNumber`, `AcceptedHasAccount`, `OnlyPendingMakesAccounts`, `AnswersAreFinal` |
| `fleet` | 1 driver, 2 dispatchers, 2 carriers, 2 join requests, one crash | `WorksWhereAsked`, `DispatcherOfOwnCompany`, `OneOpenRequest`, `AnswersAreFinal`; no deadlock |
| `invoicing` | 2 orders, 2 carriers, 1 shipper or none, 2 days, 2 invoice files | `BilledOnOneTab`, `OneInvoice`, `DueDateKept`; `ReportsAgree` |
| `pricing` | 1 car, 1 extra, routes of 800 and 1600 miles, settings with and without room for a 5% discount | types; `MarginKept`, `DiscountShown`, `LongerNeverCheaper`, `ConfirmedBeforeRaised`, `BookedAtMostQuoted` |
| `quotes` | 2 clients, who may both be parties of orders, 2 quotes, 2 customers, 2 orders, 1 link | `LeadHasCustomer`, `OwnerAsked`, `OneLeadPerLink`, `BookedOnce` |

One run shows where the code does not do what it says: `cancel_race` refutes
`LoadedNeverReleased`. A client's cancellation that read the order before the
pick-up signature committed cancels a loaded order (order.service.ts:412).

Other disagreements met while modelling, without a run of their own:

- order.repository.ts:777 counts DELIVERED and CLAIMED only: an order billed
  before the last one of its trip is delivered keeps the trip active. Nothing is
  billed in the instance of `completion`.
- A failed fare retried after the order was published again finds the fee's paid
  transaction under the same secret (transaction.service.ts:53,
  order.service.ts:2822): the order is marked CAR_PICKUP_PAID with no fare taken.
- A charge repeated while its sale is "settling" is taken for failed
  (transaction.service.ts:135, against transaction.service.spec.ts:216);
  `OneCapturePerSecret` fails with `Settling = TRUE`.
- While a signature is waited for, an order is on no tab of the load board:
  ORDERS_CONDITION has none for that status (order.service.ts:103), and an order
  waits so on its ordinary way, twice. `InOnePlace` says it.
- A request for a signature that counted its reports before a decline deleted them,
  or before the client signed, still writes: the order waits for a signature of no
  reports, or signed reports go back to SIGNATURE_REQUESTED (order.service.ts:1831,
  :1851). `RequestsAreReported` is for a driver's requests that come one at a time
  (`DriverSerial`: none that asks overlaps one that begins a report or declines), and
  `SignedReportsAreFinal` excepts the request that had found the reports unsigned.
- A carrier that archives a billed order loses it from both lists of bills, while
  the reports go on counting it (order.repository.ts:216): `BilledOnOneTab` and
  `ReportsAgree` name the exception.
- A patch of an order may write another client's address over a row that a lead
  names (order.service.ts:712, lead.service.ts:110): when that client registers, the
  quote becomes his. `OwnerAsked` says only that the lead's row has carried both
  addresses.
- A PATCH of an order passes `companyId` through `...data` (order.service.ts:798), so
  that it can change the carrier without a dispatch; no module has that.
- requestSignature asks for inspections that addInspections refuses to add
  (inspection.service.ts:355, order.service.ts:1842).
- The labels of due and past-due amounts are swapped in the general report
  (order.repository.ts:878) against the report by shipper (:926).
- `lateDate` passes a bare id to `createNotificationAdmin` (order.service.ts:2768),
  so that the super admin is not told; `trip.calculateRoute`'s
  `path(['0', 'pickLocationId'], object)` leaves the ids of stops as they are;
  `here.getDistance` with a virtual start overwrites the way points.

**Bounds.** One order is enough for what is said of one order: no handler of one
reads another's row, except through a trip (two orders in `one_trip` and
`completion`), a customer (`quotes`), an e-mail address (`registration`) or a
report (`invoicing`). Two rows are the least for "one per", two requests in
flight the least that race. `fleet` has one driver because no statement relates
two; its flags are varied for that driver only (`Flagged`). `inspections` lets
the client's calls overlap with the others' rather than all with all; the driver's own
requests do not overlap there, as `DriverSerial` has it. `pricing`
is cut by its constraint `Bounded`: the quote is not for the far route, prices
are shown only while one must be confirmed, and once the order is booked the
discounts of quote and order agree; `MaxShown` prices are remembered at a time.
The dates of `invoicing` end at `MaxTime`. `quotes` is cut by its own `Bounded`:
once a customer is, or was, a party of an order, no link is mailed, no quote gets
old and one order is booked; `OneLeadPerLink` and `BookedOnce` look at no customer. `CHECK_DEADLOCK FALSE`: ids are given
once, so an instance runs out of them, and an order may come to rest; `fleet`
never rests and is checked. Symmetry is used where the properties do not name
the permuted values, and never with liveness.

**What holds only one request at a time.** `FollowsJourney`, `RunsTender`,
`OffersAreOpen`, `OneActiveTripPerDriver`, `AcceptedIsHolder`,
`OneRequestPerCompany`, `OneCapturePerSecret`, `OneCarrierPerNumber`,
`OnlyPendingMakesAccounts`, both `AnswersAreFinal`, `DispatcherOfOwnCompany`,
`OneOpenRequest`, `RequestsAreReported` (as far as `DriverSerial` says), `OneInvoice`, `DueDateKept`, `LeadHasCustomer`,
`OneLeadPerLink` and `BookedOnce` fail when requests overlap: a request withdrawn
while its fee is charged is accepted; an order accepted while an invited
carrier's fee is charged is given to the second; a second carrier is invited
while the first takes the order (`OffersAreOpen`, with two invited); two members of a company can
both ask; two trips started at once are both active; a second charge makes a
second sale; two registrations answer one invitation; two mails make two
invoices; two publishes make two orders. The hazards name the lines.
`OneActiveTripPerDriver` also fails with the calls 'assign' and patch, which
`one_trip` leaves out, because they put a driver on a started trip without
counting. What holds whatever overlaps is proved (section 4).

**Fairness.** `completion` uses `FairSpec`: weak fairness of `Completing` only,
the promise chain `completedTrip` that the event loop runs by itself once it is
started. A promise that is ready stays ready, so weak fairness is right. Nothing
is assumed of clients, drivers or the gateway. A stop of the process in the
middle of the chain is not covered: the code does not recover from it. No other
component has something that must happen by itself: the jobs of the schedule
only close or remind.

## 4. What is proved

For every value of the constants; the assumptions are that `NoOne` is none of
the values and the typing of the constants, that tables which are summed over are
finite, and what a theorem names itself (`OneAtATime`, `OneHandler`,
`KeepsNumbers`, `OwnLinks`, `BoardCalls`, `DearMiles`, `~Settling`). Each
module has an inductive invariant `IInv` for requests that overlap. For one
request at a time it is strengthened by what the request in flight has read and
still holds when it commits (`AllFresh`, `OffersOK`, `JourneyOK`, `SInv`): the
very fact that overlap breaks.

- **`OrderLifecycleProofs`**: `TypeCorrect`, `MilestonesTheorem`,
  `PickupChargedTheorem`, whatever overlaps. A request in flight writes a status
  it chose earlier; `IInv` adds that what it holds is *backed* by the order's
  history, which only grows.

  `OnePlaceTheorem` (`InOnePlace`), whatever overlaps, for the endpoints
  `BoardCalls`, the requests for signatures among them, and if a carrier is given an
  order only while it is on no trip and in no request (`FreshAccept`). `BoardOK` adds that an order is only on trips of its carrier, that
  from the way to the pick-up on it has a trip for as long as it has a carrier, and
  that what a request holds to write keeps that so; no other request can take the
  place away, which is why two that race do no harm. The six endpoints left out do
  break it, each alone: `assign` and the patch of a trip put it on a trip of any
  carrier; deleting a trip or taking an order off it does not look how far the order
  is; deletion, and the super admin's archiving, give it a status that no tab lists.
  So does an acceptance that `FreshAccept` excludes: the order stays on the former
  carrier's trip, or a request that read it before writes how far it was.

  One at a time: `JourneyTheorem`, `Spec => FollowsJourney`, for all endpoints.
  `JourneyOK` adds that the status a request holds to write is a move from the one
  its order is at, and that no order is CLAIMED (the one status from which the
  guard of cancellation would let a delivered order go; nothing writes it).
  `LoadedTheorem` follows: what run `cancel_race` refutes is due to overlap alone.
  `OneTripTheorem`, without `assignDriver`: `TripsOK` adds that the driver of a
  trip about to start has no active trip (`start`) or only this one (`pickup`).
- **`DispatchingProofs`**: `TypeCorrect`, `FeeTheorem`, `AcceptedTheorem`,
  whatever overlaps: the fee once taken stays taken, and rows never change their
  order. One at a time: `TenderTheorem`, `Spec => RunsTender`, where each action
  is a bid, a withdrawal, an award, a claim, a release or a stutter;
  `OffersTheorem`, as an awaited carrier's order is nobody's and a registration
  in flight closes its invitation before it takes the order; `HolderTheorem` and
  `RequestTheorem`, where `RowsOK` says which rows an order can have by who has it
  and what the request in flight found of them.
- **`ChargingProofs`**: `TypeCorrect`, `PaidRowTheorem`, `FeeCapturedTheorem`,
  whatever overlaps. The gateway only goes forward (`Grows`); no open row and no
  request that can still submit names a rejected sale. One charge at a time, if
  the gateway never says "settling": `OneCaptureTheorem`, through every lost answer,
  failed save and stop. `CapturesOK` adds that a secret has one open row, that a
  captured sale is in it, and that a charge which asks for a new sale, or gives up
  its row, has none captured.
- **`InspectionsProofs`**: `TypeCorrect`, `PhotosTheorem`, `FinalTheorem`, whatever
  overlaps: the report a request has read is still there, and nobody copied the
  pick-up's over it. `ReportedTheorem` assumes `DriverSerial`; the client's requests,
  edits and patches may overlap with everything. Equal numbers are enough there:
  all reports there are belong to cars that the request has read, since the foreign
  key keeps a car with a report on its order and no report begins in between.
- **`RegistrationProofs`**: whatever overlaps or is cut off, `TypeCorrect` and
  `AcceptedHasAccountHolds`; one at a time (crashes included)
  `OneCarrierPerNumberHolds`, `OnlyPendingMakesAccountsHolds`,
  `AnswersAreFinalHolds`.
- **`FleetProofs`**: whatever overlaps, `TypeCorrect` and `WorksWhereAskedHolds`:
  a row that is written back names a carrier that was asked when it was read, and
  what was asked stays asked. One at a time `DispatcherOfOwnCompanyHolds`,
  `OneOpenRequestHolds`, `AnswersAreFinalHolds`.
- **`MoneyProofs`**, invoices: whatever overlaps, `TypeCorrect`,
  `BilledOnOneTabHolds` (a bill has an invoice and a due date before it is a bill;
  what is not shown is on neither list) and `ReportsAgreeHolds`, for any finite
  number of orders and shippers. One at a time
  `OneInvoiceHolds`, `DueDateKeptHolds`.

  A sum of the library is a recursive function that takes any element next, and
  that one exists is itself to be proved, without an induction theorem. The
  section "Sums over finite sets" does so. A sum of natural numbers is the number
  of elements of a union of disjoint sets, of integers the difference of two
  (`SumExists`); such a total is independent of the order, and the function that
  picks elements is that total, or a smallest subset would differ (`FoldIsTotal`,
  by the well-foundedness of inclusion on finite sets). `GroupsAddUp`: the groups of
  the report by shipper are disjoint, so their sums add up to that of all orders.

  Prices: whatever overlaps, `PricesTypeCorrect`, by `PInv` (a car of a quote has
  a quote; what a request holds has a type), and `LongerNeverCheaperHolds`,
  if every mile costs at least 37.4 cents: below, the rebate does outweigh some
  five hundred miles. One at a time `MarginKeptHolds`, `DiscountShownHolds`,
  `ConfirmedBeforeRaisedHolds` and `BookedAtMostQuotedHolds`. `SerialPrices` adds
  that what an edit or a discount has read is still in the row, that there is no
  order while a quote is open, and that a quote priced under the settings in force
  costs what its cars do, less its discount or, after a patch, not. The
  discount that the code allows is at most what the recommended profit exceeds the
  least one by (`Discountable`), which is all that `MarginOf` needs.
- **`QuotesProofs`**: whatever overlaps, `TypeCorrect` and `OwnerAskedHolds`: what a
  row has carried it has carried for good, so a request that found a row by an address
  may adopt its leads however the row was written over since. One at a time `LeadHasCustomerHolds`, `BookedOnceHolds`, `OneLeadPerLinkHolds`.

Only model-checked: liveness (`DeliveredTripCompletes`; fairness and ENABLED are
beyond the prover), and the one property that the code refutes.

## 5. Not modelled, and why

- **Pure input and output**: formatting, mail, PDF, files, parsing of imported
  orders and leads (strings in, a row out), the VIN decoder, HERE. DTOs,
  validation of fields, API documentation, entities' annotations, fixtures,
  tables of makes and logos, migrations and configuration are most of what no
  definition stands for: they have no behaviour over time.
- **Single-row storage** nothing decides on: notes, attachments, the timeline,
  trucks, trailers, profiles; notifications, which only the user interface reads.
- **Stored routes** and the order of stops: nothing reads them to decide
  something. That a cancellation recalculates a route before its transaction
  commits (order.service.ts:364) and that `verifyOrderTrip` is not awaited (:421)
  are listed as hazards.
- **Sessions, passwords, access control**: out of scope.
- **The pool of connections**, which signature handlers that fail leak from
  (order.service.ts:1911): the driver's and PostgreSQL's, listed as a hazard.

Next, in order of importance: that `Dispatching` implements the one row that
`OrderLifecycle` keeps of it; the safety half of `DeliveredTripCompletes`, that an
order of a trip delivered to its end never leaves it; prices for several types of
vehicle.
