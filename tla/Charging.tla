------------------------------ MODULE Charging ------------------------------
(***************************************************************************)
(* How a client pays for an order: TransactionService, its callers (the    *)
(* acceptance of a request, the signature at the pick-up, the retries after *)
(* a new wallet) and the payment gateway.  One order, whose uuid is in the *)
(* secret of each of its transactions.                                     *)
(*                                                                         *)
(* A charge looks for a transaction with the secret, makes one if there is *)
(* none, has the gateway authorize a sale and then submit it.  Every call  *)
(* of the database or the gateway is a step; the gateway may do what it is *)
(* asked and its answer be lost.  A charge works on its own copy of the    *)
(* row and saves the whole copy.                                           *)
(***************************************************************************)
EXTENDS Naturals, FiniteSets

CONSTANTS
  Transactions,  \* ids of the transaction table, given once
  Sales,         \* ids of the gateway, given once
  Handlers,      \* slots for requests that run at the same time
  NoOne,         \* null
  Settling,      \* whether the gateway ever says that a sale is settling
  Calls          \* the calls that are made in this instance

ASSUME NoOneAssumption == NoOne \notin Transactions \cup Sales
ASSUME SettlingAssumption == Settling \in BOOLEAN

VARIABLES
  status,         \* order.status
  pay,            \* order.clientPaymentStatus
  wallet,         \* the client's wallet: unusable when there is none or its status
                  \* is not verified, deleted when the gateway forgot its token
  paymentFailed,  \* account.paymentFailed
  due,            \* retries that the event order_charge started
  transaction,    \* the transaction table
  sale,           \* the sales at the gateway
  handler         \* the locals of each request in flight

money == <<transaction, sale>>
client == <<wallet, paymentFailed, due>>
vars == <<status, pay, wallet, paymentFailed, due, transaction, sale, handler>>

\* The statuses at which an order is charged, or may be.
Statuses == {"published", "dispatched", "on_pickup", "signature_requested", "picked_up"}
Payments == {"none", "service_fee_paid", "service_fee_failed", "car_pickup_paid", "car_pickup_failed"}
WALLET_STATUSES == {"unusable", "verified", "deleted"}
TRANSACTION_STATUSES == {"new", "pending", "failed", "paid"}
SaleStates == {"none", "authorized", "expired", "rejected", "submitted", "settling", "settled", "gone"}

\* What a transaction is for stands for its amount.
Amounts == {"fee", "fare"}
Callers == {"accept", "sign", "retryFee", "retryFare"}

Transaction == [status : TRANSACTION_STATUSES \cup {"absent"}, secret : Statuses \cup {NoOne},
                amount : Amounts \cup {NoOne}, externalId : Sales \cup {NoOne}]
Sale == [state : SaleStates, amount : Amounts \cup {NoOne}, secret : Statuses \cup {NoOne}]
Steps == {"find", "insert", "sale", "saveSale", "saveRejected", "submit", "savePaid",
          "saveFailed", "charged", "failed", "commit"}
Locals == [step : Steps, by : Callers, secret : Statuses, row : Transactions \cup {NoOne},
           amount : Amounts, externalId : Sales \cup {NoOne}]

TypeOK ==
  /\ status \in Statuses
  /\ pay \in Payments
  /\ wallet \in WALLET_STATUSES
  /\ paymentFailed \in BOOLEAN
  /\ due \subseteq {"retryFee", "retryFare"}
  /\ transaction \in [Transactions -> Transaction]
  /\ sale \in [Sales -> Sale]
  /\ handler \in [Handlers -> Locals \cup {NoOne}]

Init ==
  /\ status = "published" /\ pay = "none"
  /\ wallet = "unusable"
  /\ paymentFailed = FALSE
  /\ due = {}
  /\ transaction = [t \in Transactions |-> [status |-> "absent", secret |-> NoOne,
                                            amount |-> NoOne, externalId |-> NoOne]]
  /\ sale = [s \in Sales |-> [state |-> "none", amount |-> NoOne, secret |-> NoOne]]
  /\ handler = [h \in Handlers |-> NoOne]

-----------------------------------------------------------------------------
At(h, s) == handler[h] # NoOne /\ handler[h].step = s
To(h, s) == handler' = [handler EXCEPT ![h].step = s]
Done(h) == handler' = [handler EXCEPT ![h] = NoOne]

Start(h, s, caller, amount) ==
  handler' = [handler EXCEPT ![h] = [step |-> s, by |-> caller, secret |-> status, row |-> NoOne,
                                     amount |-> amount, externalId |-> NoOne]]

\* transactionRepository.save of the copy of request h.
Save(h, s) ==
  transaction' = [transaction EXCEPT ![handler[h].row] =
    [status |-> s, secret |-> handler[h].secret, amount |-> handler[h].amount,
     externalId |-> handler[h].externalId]]

-----------------------------------------------------------------------------
(* The callers. *)

\* accept of DispatchService: the fee is charged unless the order says it was.
AcceptRead(h) ==
  /\ handler[h] = NoOne /\ "accept" \in Calls
  /\ Start(h, IF pay = "service_fee_paid" THEN "commit" ELSE "find", "accept", "fee")
  /\ UNCHANGED <<status, pay, client, money>>

\* signInspection at the pick-up: the fare, unless it was paid.
SignRead(h) ==
  /\ handler[h] = NoOne /\ "sign" \in Calls
  /\ status \in {"on_pickup", "signature_requested"}
  /\ Start(h, IF pay = "car_pickup_paid" THEN "commit" ELSE "find", "sign", "fare")
  /\ UNCHANGED <<status, pay, client, money>>

\* chargeOrdersFailed of OrderService and of DispatchService.  The latter
\* takes the company from the order's first transaction: when there is none it
\* throws and the order is passed over.
Retries(caller) ==
  IF caller = "retryFare" THEN pay = "car_pickup_failed"
  ELSE pay = "service_fee_failed" /\ \E t \in Transactions : transaction[t].status # "absent"

RetryRead(h, caller) ==
  /\ handler[h] = NoOne /\ caller \in due
  /\ due' = due \ {caller}
  /\ IF Retries(caller)
     THEN Start(h, "find", caller, IF caller = "retryFare" THEN "fare" ELSE "fee")
     ELSE UNCHANGED handler
  /\ UNCHANGED <<status, pay, wallet, paymentFailed, money>>

\* The charge went well: chargeServiceFee, chargeOrder.
Charged(h) ==
  /\ At(h, "charged")
  /\ pay' = IF handler[h].by \in {"accept", "retryFee"} THEN "service_fee_paid" ELSE "car_pickup_paid"
  /\ IF handler[h].by \in {"accept", "sign"} THEN To(h, "commit") ELSE Done(h)
  /\ UNCHANGED <<status, client, money>>

\* Mutant: the caller goes on although the charge failed.
ChargeFailsSilently(h) ==
  /\ At(h, "failed")
  /\ pay' = IF handler[h].by \in {"accept", "retryFee"} THEN "service_fee_failed" ELSE "car_pickup_failed"
  /\ paymentFailed' = TRUE
  /\ IF handler[h].by \in {"accept", "sign"} THEN To(h, "commit") ELSE Done(h)
  /\ UNCHANGED <<status, wallet, due, money>>

\* ... or failed, and the caller with it.
ChargeFails(h) ==
  /\ At(h, "failed")
  /\ pay' = IF handler[h].by \in {"accept", "retryFee"} THEN "service_fee_failed" ELSE "car_pickup_failed"
  /\ paymentFailed' = TRUE
  /\ Done(h)
  /\ UNCHANGED <<status, wallet, due, money>>

\* The transaction of the caller; accept says again that the fee is paid.
Commit(h) ==
  /\ At(h, "commit")
  /\ IF handler[h].by = "accept"
     THEN status' = "dispatched" /\ pay' = "service_fee_paid"
     ELSE status' = "picked_up" /\ UNCHANGED pay
  /\ Done(h)
  /\ UNCHANGED <<client, money>>

\* The way of the order to its pick-up, and back when its carrier cancels.
OrderMoves ==
  /\ \/ status = "dispatched" /\ status' = "on_pickup"
     \/ status = "on_pickup" /\ status' = "signature_requested"
     \/ /\ status \in {"dispatched", "on_pickup", "signature_requested"} /\ status' = "published"
        /\ "cancel" \in Calls
  /\ UNCHANGED <<pay, client, money, handler>>

-----------------------------------------------------------------------------
(* WalletService. *)

\* addWallet and editWallet.
SetWallet(s) ==
  /\ wallet = "unusable" \/ "editWallet" \in Calls
  /\ wallet' = s
  /\ paymentFailed' = FALSE
  /\ due' = IF paymentFailed THEN {"retryFee", "retryFare"} \cap Calls ELSE due
  /\ UNCHANGED <<status, pay, money, handler>>

\* removeWallet keeps the row and its status; editWallet deletes the payment
\* method at the gateway before it asks for the new one, and may fail then.
DeletePaymentMethod ==
  /\ "deleteWallet" \in Calls
  /\ wallet = "verified" /\ wallet' = "deleted"
  /\ UNCHANGED <<status, pay, paymentFailed, due, money, handler>>

-----------------------------------------------------------------------------
(* TransactionService.charge. *)

\* Mutant: only a transaction that is new or paid is looked for.
ReusableNewOrPaid(secret) ==
  {t \in Transactions : transaction[t].secret = secret /\ transaction[t].status \in {"new", "paid"}}

\* The transactions findOne looks among.
Reusable(secret) ==
  {t \in Transactions : transaction[t].secret = secret /\ transaction[t].status \notin {"absent", "failed"}}

NoWallet(h) ==
  /\ At(h, "find") /\ wallet = "unusable"
  /\ To(h, "failed")
  /\ UNCHANGED <<status, pay, client, money>>

\* A transaction of the secret is taken up again.  One without a sale gets one
\* of the amount of this charge.
FindTransaction(h, t) ==
  /\ At(h, "find") /\ wallet # "unusable"
  /\ t \in Reusable(handler[h].secret)
  /\ handler' = [handler EXCEPT
       ![h].row = t,
       ![h].externalId = transaction[t].externalId,
       ![h].amount = IF transaction[t].externalId = NoOne THEN @ ELSE transaction[t].amount,
       ![h].step = IF transaction[t].externalId = NoOne THEN "sale" ELSE "submit"]
  /\ UNCHANGED <<status, pay, client, money>>

FindNone(h) ==
  /\ At(h, "find") /\ wallet # "unusable"
  /\ Reusable(handler[h].secret) = {}
  /\ To(h, "insert")
  /\ UNCHANGED <<status, pay, client, money>>

InsertTransaction(h, t) ==
  /\ At(h, "insert") /\ transaction[t].status = "absent"
  /\ transaction' = [transaction EXCEPT ![t] =
       [status |-> "new", secret |-> handler[h].secret, amount |-> handler[h].amount, externalId |-> NoOne]]
  /\ handler' = [handler EXCEPT ![h].row = t, ![h].step = "sale"]
  /\ UNCHANGED <<status, pay, client, sale>>

\* paymentService.sale: the gateway knows a new sale and answers, or not.
GatewaySale(h, s, state) ==
  /\ At(h, "sale") /\ wallet = "verified"
  /\ sale[s].state = "none"
  /\ sale' = [sale EXCEPT ![s] = [state |-> state, amount |-> handler[h].amount, secret |-> handler[h].secret]]
  /\ \/ handler' = [handler EXCEPT ![h].externalId = s,
                      ![h].step = IF state = "authorized" THEN "saveSale" ELSE "saveRejected"]
     \/ To(h, "failed")
  /\ UNCHANGED <<status, pay, client, transaction>>

SaveSale(h) ==
  /\ At(h, "saveSale")
  /\ Save(h, "pending") /\ To(h, "submit")
  /\ UNCHANGED <<status, pay, client, sale>>

\* Mutant: a rejected sale leaves the transaction open.
SaveRejectedPending(h) ==
  /\ At(h, "saveRejected")
  /\ Save(h, "pending") /\ To(h, "failed")
  /\ UNCHANGED <<status, pay, client, sale>>

SaveRejected(h) ==
  /\ At(h, "saveRejected")
  /\ Save(h, "failed") /\ To(h, "failed")
  /\ UNCHANGED <<status, pay, client, sale>>

\* What submitForSettlement makes of the gateway's answer for a sale in this
\* state.  The only sale rejected by the gateway that it may ask for is a
\* duplicate, which is taken for paid.
NextStep(state) ==
  CASE state \in {"authorized", "submitted", "settled", "rejected"} -> "savePaid"
    [] state = "gone"                                               -> "sale"
    [] OTHER                                                        -> "saveFailed"

Submit(h) ==
  LET s == handler[h].externalId
  IN  /\ At(h, "submit")
      /\ sale' = IF sale[s].state = "authorized" THEN [sale EXCEPT ![s].state = "submitted"] ELSE sale
      /\ To(h, NextStep(sale[s].state)) \/ To(h, "failed")
      /\ UNCHANGED <<status, pay, client, transaction>>

SavePaid(h) ==
  /\ At(h, "savePaid")
  /\ Save(h, "paid") /\ To(h, "charged")
  /\ UNCHANGED <<status, pay, client, sale>>

SaveFailed(h) ==
  /\ At(h, "saveFailed")
  /\ Save(h, "failed") /\ To(h, "failed")
  /\ UNCHANGED <<status, pay, client, sale>>

\* A call of the database throws, or the gateway does not answer.
Throw(h) ==
  /\ handler[h] # NoOne /\ handler[h].step \notin {"charged", "failed", "commit"}
  /\ To(h, "failed")
  /\ UNCHANGED <<status, pay, client, money>>

\* The request ends here: the process stops, or the caller is rolled back.
Stop(h) ==
  /\ handler[h] # NoOne
  /\ Done(h)
  /\ UNCHANGED <<status, pay, client, money>>

-----------------------------------------------------------------------------
\* Sales age at the gateway.
Ages(from, to) ==
  \/ from = "authorized" /\ to \in {"expired", "gone"}
  \/ from = "submitted" /\ to = (IF Settling THEN "settling" ELSE "settled")
  \/ from = "settling" /\ to = "settled"

SaleAges(s, to) ==
  /\ Ages(sale[s].state, to)
  /\ sale' = [sale EXCEPT ![s].state = to]
  /\ UNCHANGED <<status, pay, client, transaction, handler>>

-----------------------------------------------------------------------------
Calling(h) ==
  \/ AcceptRead(h) \/ SignRead(h) \/ \E caller \in due : RetryRead(h, caller)
  \/ Charged(h) \/ ChargeFails(h) \/ Commit(h)

Looking(h) ==
  \/ NoWallet(h) \/ FindNone(h)
  \/ \E t \in Transactions : FindTransaction(h, t) \/ InsertTransaction(h, t)

Paying(h) ==
  \/ \E s \in Sales, state \in {"authorized", "rejected"} : GatewaySale(h, s, state)
  \/ SaveSale(h) \/ SaveRejected(h)
  \/ Submit(h) \/ SavePaid(h) \/ SaveFailed(h)

Next ==
  \/ \E h \in Handlers : Calling(h) \/ Looking(h) \/ Paying(h) \/ Throw(h) \/ Stop(h)
  \/ OrderMoves
  \/ \E s \in {"unusable", "verified"} : SetWallet(s)
  \/ DeletePaymentMethod
  \/ \E s \in Sales, to \in SaleStates : SaleAges(s, to)

Spec == Init /\ [][Next]_vars

-----------------------------------------------------------------------------
(* Properties. *)

Captured(s) == sale[s].state \in {"submitted", "settling", "settled"}

\* A transaction that is paid (transaction.service.ts:126 and 136) has a sale
\* that the gateway was told to settle, however charges of one secret overlap
\* and overwrite each other: the branch that takes a rejected duplicate for
\* paid is never taken for a sale that was not captured.
PaidRowCaptured ==
  \A t \in Transactions :
    transaction[t].status = "paid" => \E s \in Sales : transaction[t].externalId = s /\ Captured(s)

\* A secret takes the client's money once: a charge that is repeated after an
\* answer was lost, a save failed or the process stopped finds its sale again
\* (transaction.service.ts:64, and the test of a sale that is settled,
\* transaction.service.spec.ts:216).
OneCapturePerSecret ==
  \A s1, s2 \in Sales :
    Captured(s1) /\ Captured(s2) /\ sale[s1].secret = sale[s2].secret => s1 = s2

\* No order leaves the market before the gateway has the client's service fee.
DispatchedMeansFeeCaptured ==
  status # "published" \/ pay \in {"service_fee_paid", "car_pickup_paid"}
    => \E s \in Sales : Captured(s) /\ sale[s].amount = "fee"

=============================================================================
