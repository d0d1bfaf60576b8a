--------------------------- MODULE ChargingProofs ---------------------------
(***************************************************************************)
(* Charging for any number of overlapping requests: a transaction that is  *)
(* paid has a captured sale, and an order that left the market has paid    *)
(* its fee.  The invariant says what a request presupposes of the gateway  *)
(* at each of its steps; it survives because the gateway never undoes a    *)
(* capture and a sale it has rejected is never in an open transaction.     *)
(*                                                                         *)
(* And for one charge at a time, whatever fails: a secret is captured      *)
(* once, because a captured sale is in an open row of its secret, and the  *)
(* next charge of the secret finds that row before it asks for a sale.     *)
(***************************************************************************)
EXTENDS Charging, TLAPS

\* sl is the table of sales: the gateway once accepted s; it captured s; it
\* captured a fee.
Accepted(sl, s) == s \in Sales /\ sl[s].state \notin {"none", "rejected"}
InBank(sl, s) == s \in Sales /\ sl[s].state \in {"submitted", "settling", "settled"}
FeeTaken(sl) == \E s \in Sales : InBank(sl, s) /\ sl[s].amount = "fee"

\* A charge of the fare presupposes the fee, and so does a charge that went well.
LocalOK(r, sl) ==
  /\ r.step \in {"sale", "saveSale", "saveRejected", "submit", "savePaid", "saveFailed"}
       => r.row \in Transactions
  /\ r.step \in {"saveRejected", "saveFailed"} => r.externalId \in Sales
  /\ r.step \in {"saveSale", "submit"} => Accepted(sl, r.externalId)
  /\ r.step = "savePaid" => InBank(sl, r.externalId)
  /\ r.amount = "fare" \/ r.by \in {"sign", "retryFare"} \/ r.step \in {"savePaid", "charged", "commit"}
       => FeeTaken(sl)

HandlersOK(hs, sl) ==
  /\ hs \in [Handlers -> Locals \cup {NoOne}]
  /\ \A h \in Handlers : hs[h] # NoOne => LocalOK(hs[h], sl)

RowOK(row, sl) ==
  /\ row.status # "absent" => row.amount \in Amounts
  /\ row.status \in {"new", "pending"} /\ row.externalId # NoOne => Accepted(sl, row.externalId)
  /\ row.status = "paid" => InBank(sl, row.externalId)
  /\ row.amount = "fare" => FeeTaken(sl)

RowsOK(ts, sl) ==
  /\ ts \in [Transactions -> Transaction]
  /\ \A t \in Transactions : ts[t].status # "absent" => RowOK(ts[t], sl)

SalesOK(sl) ==
  /\ sl \in [Sales -> Sale]
  /\ \A s \in Sales : sl[s].state # "none" =>
       sl[s].amount \in Amounts /\ (sl[s].amount = "fare" => FeeTaken(sl))

OrderOK(st, p, sl) ==
  /\ st \in Statuses /\ p \in Payments
  /\ st # "published" \/ p \in {"service_fee_paid", "car_pickup_paid", "car_pickup_failed"} => FeeTaken(sl)

ClientOK(w, f, d) ==
  w \in WALLET_STATUSES /\ f \in BOOLEAN /\ d \subseteq {"retryFee", "retryFare"}

IInv ==
  /\ HandlersOK(handler, sale)
  /\ RowsOK(transaction, sale)
  /\ SalesOK(sale)
  /\ OrderOK(status, pay, sale)
  /\ ClientOK(wallet, paymentFailed, due)

-----------------------------------------------------------------------------
(* The gateway only goes forward. *)

Grows(a, b) ==
  \A s \in Sales :
    /\ Accepted(a, s) => Accepted(b, s)
    /\ InBank(a, s) => InBank(b, s) /\ b[s].amount = a[s].amount

LEMMA GrowsFee ==
  ASSUME NEW a, NEW b, Grows(a, b), FeeTaken(a)
  PROVE  FeeTaken(b)
BY DEF Grows, FeeTaken

LEMMA GrowsLocal ==
  ASSUME NEW a, NEW b, Grows(a, b), NEW r, LocalOK(r, a)
  PROVE  LocalOK(r, b)
<1>1. \A s : (Accepted(a, s) => Accepted(b, s)) /\ (InBank(a, s) => InBank(b, s))
  BY DEF Grows, Accepted, InBank
<1> QED BY <1>1, GrowsFee DEF LocalOK

LEMMA GrowsRow ==
  ASSUME NEW a, NEW b, Grows(a, b), NEW row, RowOK(row, a)
  PROVE  RowOK(row, b)
<1>1. \A s : (Accepted(a, s) => Accepted(b, s)) /\ (InBank(a, s) => InBank(b, s))
  BY DEF Grows, Accepted, InBank
<1> QED BY <1>1, GrowsFee DEF RowOK

LEMMA GrowsTables ==
  ASSUME NEW a, NEW b, Grows(a, b), NEW ts, RowsOK(ts, a), NEW st, NEW p, OrderOK(st, p, a)
  PROVE  RowsOK(ts, b) /\ OrderOK(st, p, b)
BY GrowsRow, GrowsFee DEF RowsOK, OrderOK

\* One request moves on, or ends.
LEMMA HandlerStep ==
  ASSUME NEW sl, Grows(sale, sl), IInv, NEW h \in Handlers, NEW r \in Locals \cup {NoOne},
         r # NoOne => LocalOK(r, sl)
  PROVE  HandlersOK([handler EXCEPT ![h] = r], sl)
<1> DEFINE hs == [handler EXCEPT ![h] = r]
<1>1. hs \in [Handlers -> Locals \cup {NoOne}]
  BY DEF IInv, HandlersOK
<1>2. ASSUME NEW g \in Handlers, hs[g] # NoOne PROVE LocalOK(hs[g], sl)
  <2>1. CASE g = h
    BY <1>2, <2>1 DEF IInv, HandlersOK
  <2>2. CASE g # h
    <3>1. hs[g] = handler[g] /\ LocalOK(handler[g], sale)
      BY <1>2, <2>2 DEF IInv, HandlersOK
    <3> QED BY <3>1, GrowsLocal
  <2> QED BY <2>1, <2>2
<1> HIDE DEF hs
<1>3. HandlersOK(hs, sl)
  BY <1>1, <1>2 DEF HandlersOK
<1> QED BY <1>3 DEF hs

LEMMA Same == Grows(sale, sale)
BY DEF Grows

\* Steps that leave the gateway and the transactions alone: the request may go
\* on, and the order may change, as the invariant allows.
LEMMA LocalStep ==
  ASSUME IInv, NEW h \in Handlers, NEW r \in Locals \cup {NoOne}, r # NoOne => LocalOK(r, sale),
         handler' = [handler EXCEPT ![h] = r], UNCHANGED money,
         OrderOK(status', pay', sale), ClientOK(wallet', paymentFailed', due')
  PROVE  IInv'
BY HandlerStep, Same DEF IInv, money

\* A step of the request's own, with nothing else changed.
LEMMA StepTo ==
  ASSUME IInv, NEW h \in Handlers, NEW r \in Locals \cup {NoOne}, r # NoOne => LocalOK(r, sale),
         handler' = [handler EXCEPT ![h] = r], UNCHANGED <<status, pay, client, money>>
  PROVE  IInv'
BY LocalStep DEF IInv, client

\* A row is written, and the request goes on.
LEMMA RowStep ==
  ASSUME IInv, NEW h \in Handlers, NEW r \in Locals \cup {NoOne}, r # NoOne => LocalOK(r, sale),
         handler' = [handler EXCEPT ![h] = r], UNCHANGED <<status, pay, client, sale>>,
         NEW t \in Transactions, NEW row \in Transaction, RowOK(row, sale),
         transaction' = [transaction EXCEPT ![t] = row]
  PROVE  IInv'
<1>1. RowsOK(transaction', sale)
  BY DEF IInv, RowsOK
<1> QED BY <1>1, HandlerStep, Same DEF IInv, client

\* The locals of a request in flight.
LEMMA InFlight ==
  ASSUME IInv, NEW h \in Handlers, handler[h] # NoOne
  PROVE  handler[h] \in Locals /\ LocalOK(handler[h], sale)
BY DEF IInv, HandlersOK

\* A request gives up: it fails, or ends.
LEMMA GivesUp ==
  ASSUME IInv, NEW h \in Handlers, handler[h] # NoOne, To(h, "failed") \/ Done(h),
         UNCHANGED <<status, pay, client, money>>
  PROVE  IInv'
<1> DEFINE r == [handler[h] EXCEPT !.step = "failed"]
<1>1. CASE To(h, "failed")
  <2>1. handler' = [handler EXCEPT ![h] = r]
    BY <1>1 DEF To
  <2>2. r \in Locals /\ LocalOK(r, sale)
    BY InFlight DEF Locals, Steps, LocalOK
  <2> HIDE DEF r
  <2> QED BY <2>1, <2>2, StepTo
<1>2. CASE Done(h)
  BY <1>2, StepTo DEF Done
<1> QED BY <1>1, <1>2

-----------------------------------------------------------------------------
\* A charge begins: what it presupposes of the fee follows from the order.
LEMMA Started ==
  ASSUME IInv, NEW h \in Handlers, NEW st \in {"find", "commit"}, NEW by \in Callers, NEW a \in Amounts,
         Start(h, st, by, a), UNCHANGED <<status, pay, money>>, ClientOK(wallet', paymentFailed', due'),
         a = "fare" \/ by \in {"sign", "retryFare"} \/ st = "commit" => FeeTaken(sale)
  PROVE  IInv'
<1> DEFINE r == [step |-> st, by |-> by, secret |-> status, row |-> NoOne, amount |-> a, externalId |-> NoOne]
<1>1. handler' = [handler EXCEPT ![h] = r]
  BY DEF Start
<1>2. status \in Statuses /\ OrderOK(status', pay', sale)
  BY DEF IInv, OrderOK
<1>3. r \in Locals
  BY <1>2 DEF Locals, Steps
<1>4. LocalOK(r, sale)
  BY DEF LocalOK
<1> HIDE DEF r
<1> QED BY <1>1, <1>2, <1>3, <1>4, LocalStep

LEMMA CallingStep ==
  ASSUME IInv, NEW h \in Handlers, Calling(h)
  PROVE  IInv'
<1>0. OrderOK(status, pay, sale) /\ ClientOK(wallet, paymentFailed, due)
  BY DEF IInv
<1>1. CASE AcceptRead(h)
  <2>1. CASE pay = "service_fee_paid"
    BY <1>0, <1>1, <2>1, Started DEF AcceptRead, client, Callers, Amounts, OrderOK
  <2>2. CASE pay # "service_fee_paid"
    BY <1>0, <1>1, <2>2, Started DEF AcceptRead, client, Callers, Amounts
  <2> QED BY <2>1, <2>2
<1>2. CASE SignRead(h)
  <2>1. FeeTaken(sale)
    BY <1>0, <1>2 DEF SignRead, OrderOK
  <2>2. CASE pay = "car_pickup_paid"
    BY <1>0, <1>2, <2>1, <2>2, Started DEF SignRead, client, Callers, Amounts
  <2>3. CASE pay # "car_pickup_paid"
    BY <1>0, <1>2, <2>1, <2>3, Started DEF SignRead, client, Callers, Amounts
  <2> QED BY <2>2, <2>3
<1>3. ASSUME NEW caller \in due, RetryRead(h, caller)
      PROVE  IInv'
  <2>1. caller \in {"retryFee", "retryFare"} /\ ClientOK(wallet', paymentFailed', due')
    BY <1>0, <1>3 DEF RetryRead, ClientOK
  <2>2. CASE Retries(caller) /\ caller = "retryFare"
    <3>1. FeeTaken(sale)
      BY <1>0, <2>2 DEF Retries, OrderOK
    <3> QED BY <1>3, <2>1, <2>2, <3>1, Started DEF RetryRead, Callers, Amounts
  <2>3. CASE Retries(caller) /\ caller # "retryFare"
    BY <1>3, <2>1, <2>3, Started DEF RetryRead, Callers, Amounts
  <2>4. CASE ~Retries(caller)
    BY <1>3, <2>1, <2>4 DEF RetryRead, IInv, money
  <2> QED BY <2>2, <2>3, <2>4
<1>4. CASE Charged(h)
  <2>1. handler[h] \in Locals /\ FeeTaken(sale)
    BY <1>4, InFlight DEF Charged, At, LocalOK
  <2>2. OrderOK(status', pay', sale) /\ ClientOK(wallet', paymentFailed', due')
    BY <1>0, <1>4, <2>1 DEF Charged, OrderOK, Payments, client
  <2>3. CASE handler[h].by \in {"accept", "sign"}
    <3> DEFINE r == [handler[h] EXCEPT !.step = "commit"]
    <3>1. handler' = [handler EXCEPT ![h] = r]
      BY <1>4, <2>3 DEF Charged, To
    <3>2. r \in Locals /\ LocalOK(r, sale)
      BY <2>1 DEF Locals, Steps, LocalOK
    <3> HIDE DEF r
    <3> QED BY <1>4, <2>2, <3>1, <3>2, LocalStep DEF Charged
  <2>4. CASE handler[h].by \notin {"accept", "sign"}
    BY <1>4, <2>2, <2>4, LocalStep DEF Charged, Done
  <2> QED BY <2>3, <2>4
<1>5. CASE ChargeFails(h)
  <2>1. handler[h] \in Locals /\ LocalOK(handler[h], sale)
    BY <1>5, InFlight DEF ChargeFails, At
  <2>2. handler[h].by \notin {"accept", "retryFee"} => FeeTaken(sale)
    BY <2>1 DEF LocalOK, Locals, Callers
  <2>3. OrderOK(status', pay', sale)
    BY <1>0, <1>5, <2>2 DEF ChargeFails, OrderOK, Payments
  <2>4. ClientOK(wallet', paymentFailed', due')
    BY <1>0, <1>5 DEF ChargeFails, ClientOK
  <2> QED BY <1>5, <2>3, <2>4, LocalStep DEF ChargeFails, Done
<1>6. CASE Commit(h)
  <2>1. FeeTaken(sale)
    BY <1>6, InFlight DEF Commit, At, LocalOK
  <2>2. OrderOK(status', pay', sale) /\ ClientOK(wallet', paymentFailed', due')
    BY <1>0, <1>6, <2>1 DEF Commit, OrderOK, Statuses, Payments, client
  <2> QED BY <1>6, <2>2, LocalStep DEF Commit, Done
<1> QED BY <1>1, <1>2, <1>3, <1>4, <1>5, <1>6 DEF Calling

-----------------------------------------------------------------------------
LEMMA LookingStep ==
  ASSUME IInv, NEW h \in Handlers, Looking(h)
  PROVE  IInv'
<1>1. CASE NoWallet(h)
  BY <1>1, GivesUp DEF NoWallet, At
<1>2. CASE FindNone(h)
  <2> DEFINE r == [handler[h] EXCEPT !.step = "insert"]
  <2>1. handler' = [handler EXCEPT ![h] = r]
    BY <1>2 DEF FindNone, To
  <2>2. r \in Locals /\ LocalOK(r, sale)
    BY <1>2, InFlight DEF FindNone, At, Locals, Steps, LocalOK
  <2> HIDE DEF r
  <2> QED BY <1>2, <2>1, <2>2, StepTo DEF FindNone
<1>3. ASSUME NEW t \in Transactions, FindTransaction(h, t)
      PROVE  IInv'
  <2>0. handler[h] \in Locals /\ LocalOK(handler[h], sale)
    BY <1>3, InFlight DEF FindTransaction, At
  <2>1. /\ transaction[t] \in Transaction /\ RowOK(transaction[t], sale)
        /\ transaction[t].status \notin {"absent", "failed"}
    BY <1>3 DEF FindTransaction, Reusable, IInv, RowsOK
  <2> DEFINE x == transaction[t].externalId
             r == [handler[h] EXCEPT !.row = t, !.externalId = x,
                     !.amount = IF x = NoOne THEN @ ELSE transaction[t].amount,
                     !.step = IF x = NoOne THEN "sale" ELSE "submit"]
  <2>2. handler' = [handler EXCEPT ![h] = r]
    BY <1>3, <2>0 DEF FindTransaction, IInv, HandlersOK, Locals
  <2>3. r \in Locals
    BY <2>0, <2>1 DEF Locals, Steps, Transaction, RowOK
  <2>4. x # NoOne => Accepted(sale, x)
    BY <2>1 DEF RowOK, Accepted, InBank, Transaction, TRANSACTION_STATUSES
  <2>5. LocalOK(r, sale)
    <3>1. CASE x = NoOne
      BY <2>0, <3>1 DEF LocalOK, Locals
    <3>2. CASE x # NoOne
      <4>1. transaction[t].amount = "fare" => FeeTaken(sale)
        BY <2>1 DEF RowOK
      <4> QED BY <2>0, <2>4, <3>2, <4>1 DEF LocalOK, Locals
    <3> QED BY <3>1, <3>2
  <2> HIDE DEF r
  <2> QED BY <1>3, <2>2, <2>3, <2>5, StepTo DEF FindTransaction
<1>4. ASSUME NEW t \in Transactions, InsertTransaction(h, t)
      PROVE  IInv'
  <2>0. handler[h] \in Locals /\ LocalOK(handler[h], sale)
    BY <1>4, InFlight DEF InsertTransaction, At
  <2> DEFINE r == [handler[h] EXCEPT !.row = t, !.step = "sale"]
             row == [status |-> "new", secret |-> handler[h].secret, amount |-> handler[h].amount,
                     externalId |-> NoOne]
  <2>1. handler' = [handler EXCEPT ![h] = r] /\ transaction' = [transaction EXCEPT ![t] = row]
    BY <1>4, <2>0 DEF InsertTransaction, IInv, HandlersOK, Locals
  <2>2. r \in Locals /\ LocalOK(r, sale)
    BY <2>0 DEF Locals, Steps, LocalOK
  <2>3. row \in Transaction /\ RowOK(row, sale)
    BY <2>0 DEF Locals, Transaction, TRANSACTION_STATUSES, RowOK, LocalOK
  <2> HIDE DEF r, row
  <2> QED BY <1>4, <2>1, <2>2, <2>3, RowStep DEF InsertTransaction
<1> QED BY <1>1, <1>2, <1>3, <1>4 DEF Looking

-----------------------------------------------------------------------------
\* A request saves its copy of the row, and goes on.
LEMMA SaveStep ==
  ASSUME IInv, NEW h \in Handlers, handler[h] # NoOne,
         handler[h].row \in Transactions, handler[h].externalId \in Sales,
         NEW st \in TRANSACTION_STATUSES, Save(h, st), UNCHANGED <<status, pay, client, sale>>,
         st = "paid" => InBank(sale, handler[h].externalId),
         st \in {"new", "pending"} => Accepted(sale, handler[h].externalId),
         NEW to \in {"submit", "charged", "failed"}, To(h, to),
         to = "submit" => Accepted(sale, handler[h].externalId),
         to = "charged" => FeeTaken(sale)
  PROVE  IInv'
<1>0. handler[h] \in Locals /\ LocalOK(handler[h], sale)
  BY InFlight
<1> DEFINE r == [handler[h] EXCEPT !.step = to]
           row == [status |-> st, secret |-> handler[h].secret, amount |-> handler[h].amount,
                   externalId |-> handler[h].externalId]
<1>1. handler' = [handler EXCEPT ![h] = r] /\ transaction' = [transaction EXCEPT ![handler[h].row] = row]
  BY DEF To, Save
<1>2. r \in Locals /\ LocalOK(r, sale)
  BY <1>0 DEF Locals, Steps, LocalOK
<1>3. row \in Transaction
  BY <1>0 DEF Locals, Transaction
<1>4. RowOK(row, sale)
  BY <1>0 DEF Locals, RowOK, LocalOK
<1> HIDE DEF r, row
<1> QED BY <1>1, <1>2, <1>3, <1>4, RowStep

\* One sale changes, forward, and the request goes on.
LEMMA SaleStep ==
  ASSUME IInv, NEW s \in Sales, NEW x \in Sale, sale' = [sale EXCEPT ![s] = x],
         Grows(sale, sale'), x.state # "none",
         x.amount \in Amounts, x.amount = "fare" => FeeTaken(sale),
         HandlersOK(handler', sale'), UNCHANGED <<status, pay, client, transaction>>
  PROVE  IInv'
<1>1. SalesOK(sale')
  <2>1. sale' \in [Sales -> Sale]
    BY DEF IInv, SalesOK
  <2>2. FeeTaken(sale) => FeeTaken(sale')
    BY GrowsFee
  <2>3. ASSUME NEW q \in Sales, sale'[q].state # "none"
        PROVE  sale'[q].amount \in Amounts /\ (sale'[q].amount = "fare" => FeeTaken(sale'))
    <3>1. CASE q = s
      BY <2>2, <3>1 DEF IInv, SalesOK
    <3>2. CASE q # s
      BY <2>2, <2>3, <3>2 DEF IInv, SalesOK
    <3> QED BY <3>1, <3>2
  <2> QED BY <2>1, <2>3 DEF SalesOK
<1>2. RowsOK(transaction, sale') /\ OrderOK(status, pay, sale')
  BY GrowsTables DEF IInv
<1> QED BY <1>1, <1>2 DEF IInv, client

LEMMA GatewaySaleStep ==
  ASSUME IInv, NEW h \in Handlers, NEW s \in Sales, NEW state \in {"authorized", "rejected"},
         GatewaySale(h, s, state)
  PROVE  IInv'
<1>0. handler[h] \in Locals /\ LocalOK(handler[h], sale) /\ handler[h].row \in Transactions
  BY InFlight DEF GatewaySale, At, LocalOK
<1> DEFINE x == [state |-> state, amount |-> handler[h].amount, secret |-> handler[h].secret]
           to == IF state = "authorized" THEN "saveSale" ELSE "saveRejected"
<1>1. sale' = [sale EXCEPT ![s] = x] /\ sale[s].state = "none"
  BY DEF GatewaySale
<1>2. x \in Sale /\ x.state = state /\ x.amount = handler[h].amount
  BY <1>0 DEF Sale, SaleStates, Locals
<1>3. sale \in [Sales -> Sale]
  BY DEF IInv, SalesOK
<1>4. sale'[s] = x /\ \A q \in Sales : q # s => sale'[q] = sale[q]
  BY <1>1, <1>3
<1> HIDE DEF x
<1>5. Grows(sale, sale')
  BY <1>1, <1>4 DEF Grows, Accepted, InBank
<1>6. HandlersOK(handler', sale')
  <2>1. CASE To(h, "failed")
    <3> DEFINE r == [handler[h] EXCEPT !.step = "failed"]
    <3>1. handler' = [handler EXCEPT ![h] = r]
      BY <2>1 DEF To
    <3>2. r \in Locals
      BY <1>0 DEF Locals, Steps
    <3>3. LocalOK(r, sale)
      BY <1>0 DEF Locals, LocalOK
    <3>4. LocalOK(r, sale')
      BY <1>5, <3>3, GrowsLocal
    <3> HIDE DEF r
    <3> QED BY <1>5, <3>1, <3>2, <3>4, HandlerStep
  <2>2. CASE handler' = [handler EXCEPT ![h].externalId = s, ![h].step = to]
    <3> DEFINE r == [handler[h] EXCEPT !.externalId = s, !.step = to]
    <3>1. handler' = [handler EXCEPT ![h] = r]
      BY <1>0, <2>2 DEF IInv, HandlersOK, Locals
    <3>2. r \in Locals
      BY <1>0 DEF Locals, Steps
    <3>3. LocalOK(r, sale')
      <4>1. FeeTaken(sale) => FeeTaken(sale')
        BY <1>5, GrowsFee
      <4>2. state = "authorized" => Accepted(sale', s)
        BY <1>2, <1>4 DEF Accepted
      <4> QED BY <1>0, <4>1, <4>2 DEF Locals, LocalOK
    <3> HIDE DEF r
    <3> QED BY <1>5, <3>1, <3>2, <3>3, HandlerStep
  <2> QED BY <2>1, <2>2 DEF GatewaySale
<1>7. x.amount \in Amounts /\ (x.amount = "fare" => FeeTaken(sale))
  BY <1>0, <1>2 DEF Locals, LocalOK
<1>8. UNCHANGED <<status, pay, client, transaction>>
  BY DEF GatewaySale
<1> QED BY <1>1, <1>2, <1>5, <1>6, <1>7, <1>8, SaleStep

\* A sale in a state that follows: nothing the invariant says is lost.
LEMMA Forward ==
  ASSUME IInv, NEW s \in Sales, NEW to \in {"expired", "gone", "submitted", "settling", "settled"},
         sale[s].state \in {"authorized", "submitted", "settling"},
         sale[s].state \in {"submitted", "settling"} => to \in {"settling", "settled"},
         sale' = [sale EXCEPT ![s].state = to]
  PROVE  /\ Grows(sale, sale')
         /\ \E x \in Sale : /\ sale' = [sale EXCEPT ![s] = x] /\ x.state # "none"
                            /\ x.amount \in Amounts /\ (x.amount = "fare" => FeeTaken(sale))
<1>0. sale \in [Sales -> Sale] /\ sale[s].amount \in Amounts /\ (sale[s].amount = "fare" => FeeTaken(sale))
  BY DEF IInv, SalesOK
<1> DEFINE x == [sale[s] EXCEPT !.state = to]
<1>1. sale' = [sale EXCEPT ![s] = x]
  OBVIOUS
<1>2. x \in Sale /\ x.state = to /\ x.amount = sale[s].amount
  BY <1>0 DEF Sale, SaleStates
<1>3. sale'[s] = x /\ \A q \in Sales : q # s => sale'[q] = sale[q]
  BY <1>0, <1>1
<1> HIDE DEF x
<1>4. Grows(sale, sale')
  BY <1>2, <1>3 DEF Grows, Accepted, InBank
<1> QED BY <1>0, <1>1, <1>2, <1>4

LEMMA SubmitStep ==
  ASSUME IInv, NEW h \in Handlers, Submit(h)
  PROVE  IInv'
<1>0. handler[h] # NoOne /\ handler[h].step = "submit"
  BY DEF Submit, At
<1>1. /\ handler[h] \in Locals /\ LocalOK(handler[h], sale) /\ Accepted(sale, handler[h].externalId)
      /\ handler[h].row \in Transactions
  BY <1>0, InFlight DEF LocalOK
<1> PICK s \in Sales : s = handler[h].externalId
  BY <1>1 DEF Accepted
<1>2. sale' = IF sale[s].state = "authorized" THEN [sale EXCEPT ![s].state = "submitted"] ELSE sale
  BY DEF Submit
<1>3. Grows(sale, sale')
  BY <1>2, Forward, Same
<1>4. sale \in [Sales -> Sale] /\ sale[s].state \in SaleStates \ {"none", "rejected"}
  BY <1>1 DEF IInv, SalesOK, Sale, Accepted
<1>5. NextStep(sale[s].state) = "savePaid" => InBank(sale', s)
  BY <1>2, <1>4 DEF NextStep, SaleStates, InBank
<1>6. ASSUME NextStep(sale[s].state) = "savePaid" PROVE FeeTaken(sale')
  <2>1. sale[s].amount \in Amounts /\ (sale[s].amount = "fare" => FeeTaken(sale))
    BY <1>4 DEF IInv, SalesOK
  <2>2. sale'[s].amount = sale[s].amount
    BY <1>2, <1>4 DEF Sale
  <2>3. CASE sale[s].amount = "fee"
    BY <1>5, <1>6, <2>2, <2>3 DEF FeeTaken
  <2>4. CASE sale[s].amount = "fare"
    BY <1>3, <2>1, <2>4, GrowsFee
  <2> QED BY <2>1, <2>3, <2>4 DEF Amounts
<1>7. HandlersOK(handler', sale')
  <2> DEFINE moved(to) == [handler[h] EXCEPT !.step = to]
  <2>1. PICK to \in {"savePaid", "sale", "saveFailed", "failed"} :
          To(h, to) /\ (to = "savePaid" => NextStep(sale[s].state) = "savePaid")
    BY DEF Submit, NextStep
  <2>2. handler' = [handler EXCEPT ![h] = moved(to)]
    BY <2>1 DEF To
  <2>3. moved(to) \in Locals
    BY <1>1 DEF Locals, Steps
  <2>4. LocalOK(moved(to), sale')
    <3>1. FeeTaken(sale) => FeeTaken(sale')
      BY <1>3, GrowsFee
    <3>2. /\ moved(to).step = to /\ moved(to).row \in Transactions /\ moved(to).externalId = s
          /\ moved(to).amount = handler[h].amount /\ moved(to).by = handler[h].by
      BY <1>1 DEF Locals
    <3>3. handler[h].amount = "fare" \/ handler[h].by \in {"sign", "retryFare"} => FeeTaken(sale)
      BY <1>1 DEF LocalOK
    <3> HIDE DEF moved
    <3> QED BY <1>5, <1>6, <2>1, <3>1, <3>2, <3>3 DEF LocalOK
  <2> HIDE DEF moved
  <2> QED BY <1>3, <2>2, <2>3, <2>4, HandlerStep
<1>8. CASE sale[s].state = "authorized"
  <2>1. PICK x \in Sale : /\ sale' = [sale EXCEPT ![s] = x] /\ x.state # "none"
                          /\ x.amount \in Amounts /\ (x.amount = "fare" => FeeTaken(sale))
    BY <1>2, <1>8, Forward
  <2> QED BY <1>3, <1>7, <2>1, SaleStep DEF Submit
<1>9. CASE sale[s].state # "authorized"
  BY <1>2, <1>7, <1>9 DEF Submit, IInv, client
<1> QED BY <1>8, <1>9

LEMMA PayingStep ==
  ASSUME IInv, NEW h \in Handlers, Paying(h)
  PROVE  IInv'
<1>1. ASSUME NEW s \in Sales, NEW state \in {"authorized", "rejected"}, GatewaySale(h, s, state)
      PROVE  IInv'
  BY <1>1, GatewaySaleStep
<1>2. CASE SaveSale(h)
  BY <1>2, InFlight, SaveStep DEF SaveSale, At, LocalOK, Accepted, TRANSACTION_STATUSES
<1>3. CASE SaveRejected(h)
  BY <1>3, InFlight, SaveStep DEF SaveRejected, At, LocalOK, TRANSACTION_STATUSES
<1>4. CASE Submit(h)
  BY <1>4, SubmitStep
<1>5. CASE SavePaid(h)
  BY <1>5, InFlight, SaveStep DEF SavePaid, At, LocalOK, InBank, TRANSACTION_STATUSES
<1>6. CASE SaveFailed(h)
  BY <1>6, InFlight, SaveStep DEF SaveFailed, At, LocalOK, TRANSACTION_STATUSES
<1> QED BY <1>1, <1>2, <1>3, <1>4, <1>5, <1>6 DEF Paying

-----------------------------------------------------------------------------
LEMMA InitIInv == Init => IInv
<1> SUFFICES ASSUME Init PROVE IInv
  OBVIOUS
<1>1. HandlersOK(handler, sale)
  BY DEF Init, HandlersOK
<1>2. RowsOK(transaction, sale)
  BY DEF Init, RowsOK, Transaction
<1>3. SalesOK(sale)
  BY DEF Init, SalesOK, Sale, SaleStates
<1>4. OrderOK(status, pay, sale) /\ ClientOK(wallet, paymentFailed, due)
  BY DEF Init, OrderOK, ClientOK, Statuses, Payments, WALLET_STATUSES
<1> QED BY <1>1, <1>2, <1>3, <1>4 DEF IInv

LEMMA NextIInv == IInv /\ [Next]_vars => IInv'
<1> SUFFICES ASSUME IInv, [Next]_vars PROVE IInv'
  OBVIOUS
<1>0. OrderOK(status, pay, sale) /\ ClientOK(wallet, paymentFailed, due)
  BY DEF IInv
<1>1. ASSUME NEW h \in Handlers, Throw(h) \/ Stop(h)
      PROVE  IInv'
  BY <1>1, GivesUp DEF Throw, Stop
<1>2. CASE OrderMoves
  <2>1. OrderOK(status', pay', sale)
    BY <1>0, <1>2 DEF OrderMoves, OrderOK, Statuses
  <2> QED BY <1>2, <2>1 DEF OrderMoves, IInv, client, money
<1>3. ASSUME NEW s \in {"unusable", "verified"}, SetWallet(s)
      PROVE  IInv'
  <2>1. ClientOK(wallet', paymentFailed', due')
    BY <1>0, <1>3 DEF SetWallet, ClientOK, WALLET_STATUSES
  <2> QED BY <1>3, <2>1 DEF SetWallet, IInv, money
<1>4. CASE DeletePaymentMethod
  <2>1. ClientOK(wallet', paymentFailed', due')
    BY <1>0, <1>4 DEF DeletePaymentMethod, ClientOK, WALLET_STATUSES
  <2> QED BY <1>4, <2>1 DEF DeletePaymentMethod, IInv, money
<1>5. ASSUME NEW s \in Sales, NEW to \in SaleStates, SaleAges(s, to)
      PROVE  IInv'
  <2>1. /\ sale[s].state \in {"authorized", "submitted", "settling"}
        /\ to \in {"expired", "gone", "submitted", "settling", "settled"}
        /\ sale[s].state \in {"submitted", "settling"} => to \in {"settling", "settled"}
        /\ sale' = [sale EXCEPT ![s].state = to]
    BY <1>5 DEF SaleAges, Ages
  <2>2. /\ Grows(sale, sale')
        /\ \E x \in Sale : /\ sale' = [sale EXCEPT ![s] = x] /\ x.state # "none"
                           /\ x.amount \in Amounts /\ (x.amount = "fare" => FeeTaken(sale))
    BY <2>1, Forward
  <2>3. HandlersOK(handler', sale')
    BY <1>5, <2>2, GrowsLocal DEF SaleAges, IInv, HandlersOK
  <2> QED BY <1>5, <2>2, <2>3, SaleStep DEF SaleAges
<1>6. CASE UNCHANGED vars
  BY <1>6 DEF vars, IInv
<1> QED BY <1>1, <1>2, <1>3, <1>4, <1>5, <1>6, CallingStep, LookingStep, PayingStep DEF Next

\* The invariant holds for every instance.
THEOREM Invariance == Spec => []IInv
BY InitIInv, NextIInv, PTL DEF Spec

\* Types of the tables, the order and the requests in flight.
THEOREM TypeCorrect == Spec => []TypeOK
<1>1. IInv => TypeOK
  BY DEF IInv, TypeOK, HandlersOK, RowsOK, SalesOK, OrderOK, ClientOK
<1> QED BY <1>1, Invariance, PTL

\* However charges overlap, fail and overwrite each other's rows, a transaction
\* that is marked paid names a sale the gateway has captured.
THEOREM PaidRowTheorem == Spec => []PaidRowCaptured
<1>1. IInv => PaidRowCaptured
  BY DEF IInv, RowsOK, RowOK, InBank, PaidRowCaptured, Captured
<1> QED BY <1>1, Invariance, PTL

\* However charges overlap, no order has left the market before the gateway
\* captured its service fee.
THEOREM FeeCapturedTheorem == Spec => []DispatchedMeansFeeCaptured
<1>1. IInv => DispatchedMeansFeeCaptured
  BY DEF IInv, OrderOK, FeeTaken, InBank, DispatchedMeansFeeCaptured, Captured
<1> QED BY <1>1, Invariance, PTL

-----------------------------------------------------------------------------
(* One charge at a time, and no sale ever settling: a secret takes the      *)
(* money once.  An order's charge that is repeated, whatever was lost       *)
(* before, finds the one open transaction of its secret, and with it the    *)
(* sale, if there is one that the gateway was told to capture.              *)

OneAtATime == \A g, h \in Handlers : g = h

Open(row) == row.status \in {"new", "pending", "paid"}

\* The tables: a secret has one open transaction; its sale is of that secret;
\* a captured sale has an open transaction; no sale lingers.
LedgerOK(ts, sl) ==
  /\ \A t, u \in Transactions : Open(ts[t]) /\ Open(ts[u]) /\ ts[t].secret = ts[u].secret => t = u
  /\ \A t \in Transactions : Open(ts[t]) /\ ts[t].externalId # NoOne =>
       sl[ts[t].externalId].secret = ts[t].secret
  /\ \A s \in Sales : InBank(sl, s) =>
       \E t \in Transactions : Open(ts[t]) /\ ts[t].secret = sl[s].secret /\ ts[t].externalId = s
  /\ \A s \in Sales : sl[s].state # "settling"

\* The request in flight: it makes a row when its secret has none; the row it
\* works on is open and of its secret, as is its sale; it asks for a new sale,
\* or gives up the row, only when the row's sale was not captured.
CopyOK(r, ts, sl) ==
  /\ r.step = "insert" => \A t \in Transactions : Open(ts[t]) => ts[t].secret # r.secret
  /\ r.step \in {"sale", "saveSale", "saveRejected", "submit", "savePaid", "saveFailed"} =>
       Open(ts[r.row]) /\ ts[r.row].secret = r.secret
  /\ r.step \in {"sale", "saveSale", "saveRejected", "saveFailed"} => ~InBank(sl, ts[r.row].externalId)
  /\ r.step \in {"saveSale", "submit", "savePaid"} => sl[r.externalId].secret = r.secret
  /\ r.step \in {"submit", "savePaid", "saveFailed"} => ts[r.row].externalId = r.externalId

CapturesOK ==
  /\ LedgerOK(transaction, sale)
  /\ \A h \in Handlers : handler[h] # NoOne => CopyOK(handler[h], transaction, sale)

\* The request in flight moves on, to r, or is over.
LEMMA CopyStep ==
  ASSUME OneAtATime, IInv, NEW h \in Handlers, NEW r, handler' = [handler EXCEPT ![h] = r],
         r # NoOne => CopyOK(r, transaction', sale'), LedgerOK(transaction', sale')
  PROVE  CapturesOK'
<1>1. ASSUME NEW g \in Handlers, handler'[g] # NoOne PROVE CopyOK(handler'[g], transaction', sale')
  <2>1. g = h /\ handler'[h] = r
    BY DEF OneAtATime, IInv, HandlersOK
  <2> QED BY <1>1, <2>1
<1> QED BY <1>1 DEF CapturesOK, LedgerOK, CopyOK, Open, InBank

\* A request that begins, or is no longer at its charge.
LEMMA OutsideStep ==
  ASSUME OneAtATime, IInv, CapturesOK, NEW h \in Handlers, UNCHANGED money, NEW r,
         handler' = [handler EXCEPT ![h] = r],
         r # NoOne => r.step \in {"find", "charged", "failed", "commit"}
  PROVE  CapturesOK'
BY CopyStep DEF CapturesOK, CopyOK, money

LEMMA OutsideTo ==
  ASSUME OneAtATime, IInv, CapturesOK, NEW h \in Handlers, UNCHANGED money, handler[h] # NoOne,
         Done(h) \/ \E s \in {"find", "charged", "failed", "commit"} : To(h, s)
  PROVE  CapturesOK'
<1>1. CASE Done(h)
  BY <1>1, OutsideStep DEF Done
<1>2. ASSUME NEW s \in {"find", "charged", "failed", "commit"}, To(h, s) PROVE CapturesOK'
  <2> DEFINE r == [handler[h] EXCEPT !.step = s]
  <2>1. handler' = [handler EXCEPT ![h] = r] /\ r.step = s
    BY <1>2, InFlight DEF To, Locals
  <2> HIDE DEF r
  <2> QED BY <2>1, OutsideStep
<1> QED BY <1>1, <1>2

LEMMA CallingCaptures ==
  ASSUME OneAtATime, IInv, CapturesOK, NEW h \in Handlers, Calling(h)
  PROVE  CapturesOK'
<1>1. ASSUME NEW s \in {"find", "commit"}, NEW by, NEW a, Start(h, s, by, a), UNCHANGED money
      PROVE  CapturesOK'
  <2> DEFINE r == [step |-> s, by |-> by, secret |-> status, row |-> NoOne, amount |-> a, externalId |-> NoOne]
  <2>1. handler' = [handler EXCEPT ![h] = r] /\ r.step = s
    BY <1>1 DEF Start
  <2> HIDE DEF r
  <2> QED BY <1>1, <2>1, OutsideStep
<1>2. CASE AcceptRead(h)
  BY <1>1, <1>2 DEF AcceptRead
<1>3. CASE SignRead(h)
  BY <1>1, <1>3 DEF SignRead
<1>4. ASSUME NEW caller \in due, RetryRead(h, caller) PROVE CapturesOK'
  <2>1. CASE Retries(caller)
    BY <1>1, <1>4, <2>1 DEF RetryRead
  <2>2. CASE ~Retries(caller)
    BY <1>4, <2>2 DEF RetryRead, CapturesOK, money
  <2> QED BY <2>1, <2>2
<1>5. CASE Charged(h)
  BY <1>5, OutsideTo DEF Charged, At
<1>6. CASE ChargeFails(h)
  BY <1>6, OutsideTo DEF ChargeFails, At
<1>7. CASE Commit(h)
  BY <1>7, OutsideTo DEF Commit, At
<1> QED BY <1>2, <1>3, <1>4, <1>5, <1>6, <1>7 DEF Calling

\* What findOne looks among are the open transactions of the secret.
LEMMA ReusableOpen ==
  ASSUME IInv, NEW x
  PROVE  Reusable(x) = {t \in Transactions : Open(transaction[t]) /\ transaction[t].secret = x}
BY DEF IInv, RowsOK, Transaction, TRANSACTION_STATUSES, Reusable, Open

\* A sale that an open transaction names is known to the gateway.
LEMMA OpenSale ==
  ASSUME IInv, NEW t \in Transactions, Open(transaction[t]), transaction[t].externalId # NoOne
  PROVE  /\ transaction[t].externalId \in Sales
         /\ sale[transaction[t].externalId].state \notin {"none", "rejected"}
BY DEF IInv, RowsOK, RowOK, Open, Accepted, InBank

LEMMA LookingCaptures ==
  ASSUME OneAtATime, IInv, CapturesOK, NEW h \in Handlers, Looking(h)
  PROVE  CapturesOK'
<1>0. LedgerOK(transaction, sale) /\ transaction \in [Transactions -> Transaction]
  BY DEF CapturesOK, IInv, RowsOK
<1>1. CASE NoWallet(h)
  BY <1>1, OutsideTo DEF NoWallet, At
<1>2. CASE FindNone(h)
  <2> DEFINE r == [handler[h] EXCEPT !.step = "insert"]
  <2>1. /\ handler' = [handler EXCEPT ![h] = r] /\ UNCHANGED <<transaction, sale>>
        /\ r.step = "insert" /\ r.secret = handler[h].secret
    BY <1>2, InFlight DEF FindNone, To, At, money, Locals
  <2>2. CopyOK(r, transaction', sale')
    BY <1>2, <2>1, ReusableOpen DEF FindNone, CopyOK
  <2> HIDE DEF r
  <2> QED BY <1>0, <2>1, <2>2, CopyStep
<1>3. ASSUME NEW t \in Transactions, FindTransaction(h, t) PROVE CapturesOK'
  <2> DEFINE x == transaction[t].externalId
             r == [handler[h] EXCEPT !.row = t, !.externalId = x,
                     !.amount = IF x = NoOne THEN @ ELSE transaction[t].amount,
                     !.step = IF x = NoOne THEN "sale" ELSE "submit"]
  <2>0. handler[h] \in Locals
    BY <1>3, InFlight DEF FindTransaction, At
  <2>1. /\ handler' = [handler EXCEPT ![h] = r] /\ UNCHANGED <<transaction, sale>>
    BY <1>3, <2>0 DEF FindTransaction, IInv, HandlersOK, Locals, money
  <2>2. /\ r.row = t /\ r.externalId = x /\ r.secret = handler[h].secret
        /\ r.step = IF x = NoOne THEN "sale" ELSE "submit"
    BY <2>0 DEF Locals
  <2>3. Open(transaction[t]) /\ transaction[t].secret = r.secret
    BY <1>3, <2>2, ReusableOpen DEF FindTransaction
  <2> HIDE DEF r
  <2>4. CopyOK(r, transaction', sale')
    <3>1. CASE x = NoOne
      BY <2>1, <2>2, <2>3, <3>1, NoOneAssumption DEF CopyOK, InBank
    <3>2. CASE x # NoOne
      BY <1>0, <2>1, <2>2, <2>3, <3>2 DEF CopyOK, LedgerOK
    <3> QED BY <3>1, <3>2
  <2> QED BY <1>0, <2>1, <2>4, CopyStep
<1>4. ASSUME NEW t \in Transactions, InsertTransaction(h, t) PROVE CapturesOK'
  <2> DEFINE r == [handler[h] EXCEPT !.row = t, !.step = "sale"]
             row == [status |-> "new", secret |-> handler[h].secret, amount |-> handler[h].amount,
                     externalId |-> NoOne]
  <2>0. handler[h] \in Locals
    BY <1>4, InFlight DEF InsertTransaction, At
  <2>1. /\ handler' = [handler EXCEPT ![h] = r] /\ transaction' = [transaction EXCEPT ![t] = row]
        /\ sale' = sale /\ ~Open(transaction[t])
    BY <1>4, <2>0 DEF InsertTransaction, IInv, HandlersOK, Locals, Open
  <2>2. /\ r.row = t /\ r.step = "sale" /\ r.secret = handler[h].secret
        /\ Open(row) /\ row.secret = handler[h].secret /\ row.externalId = NoOne
    BY <2>0 DEF Locals, Open
  <2>3. \A u \in Transactions : Open(transaction[u]) => transaction[u].secret # handler[h].secret
    BY <1>4 DEF InsertTransaction, At, CapturesOK, CopyOK
  <2> HIDE DEF r, row
  <2>4. transaction'[t] = row /\ \A u \in Transactions \ {t} : transaction'[u] = transaction[u]
    BY <1>0, <2>1
  <2>5. LedgerOK(transaction', sale')
    <3>1. \A u, v \in Transactions : Open(transaction'[u]) /\ Open(transaction'[v])
            /\ transaction'[u].secret = transaction'[v].secret => u = v
      BY <1>0, <2>2, <2>3, <2>4 DEF LedgerOK
    <3>2. \A s \in Sales : InBank(sale, s) => \E u \in Transactions :
            Open(transaction'[u]) /\ transaction'[u].secret = sale[s].secret /\ transaction'[u].externalId = s
      <4> TAKE s \in Sales
      <4> HAVE InBank(sale, s)
      <4>1. PICK u \in Transactions :
              Open(transaction[u]) /\ transaction[u].secret = sale[s].secret /\ transaction[u].externalId = s
        BY <1>0 DEF LedgerOK
      <4>2. transaction'[u] = transaction[u]
        BY <2>1, <2>4, <4>1
      <4> QED BY <4>1, <4>2
    <3> QED BY <1>0, <2>1, <2>2, <2>4, <3>1, <3>2 DEF LedgerOK
  <2>6. CopyOK(r, transaction', sale')
    BY <2>1, <2>2, <2>4, NoOneAssumption DEF CopyOK, InBank
  <2> QED BY <2>1, <2>5, <2>6, CopyStep
<1> QED BY <1>1, <1>2, <1>3, <1>4 DEF Looking

\* A row of a secret is saved again: it keeps a sale that was captured.
LEMMA SavedLedger ==
  ASSUME IInv, LedgerOK(transaction, sale), NEW t \in Transactions, NEW row,
         transaction' = [transaction EXCEPT ![t] = row],
         Open(transaction[t]),
         Open(row) => row.secret = transaction[t].secret /\ sale[row.externalId].secret = row.secret,
         InBank(sale, transaction[t].externalId) =>
           Open(row) /\ row.externalId = transaction[t].externalId
  PROVE  LedgerOK(transaction', sale)
<1>1. transaction'[t] = row /\ \A u \in Transactions \ {t} : transaction'[u] = transaction[u]
  BY DEF IInv, RowsOK
<1>2. \A u, v \in Transactions : Open(transaction'[u]) /\ Open(transaction'[v])
        /\ transaction'[u].secret = transaction'[v].secret => u = v
  BY <1>1 DEF LedgerOK
<1>3. \A u \in Transactions : Open(transaction'[u]) /\ transaction'[u].externalId # NoOne =>
        sale[transaction'[u].externalId].secret = transaction'[u].secret
  BY <1>1 DEF LedgerOK
<1>4. ASSUME NEW s \in Sales, InBank(sale, s)
      PROVE  \E u \in Transactions :
               Open(transaction'[u]) /\ transaction'[u].secret = sale[s].secret /\ transaction'[u].externalId = s
  <2>1. PICK u \in Transactions :
          Open(transaction[u]) /\ transaction[u].secret = sale[s].secret /\ transaction[u].externalId = s
    BY <1>4 DEF LedgerOK
  <2>2. CASE u = t
    BY <1>1, <1>4, <2>1, <2>2
  <2>3. CASE u # t
    BY <1>1, <2>1, <2>3
  <2> QED BY <2>2, <2>3
<1> QED BY <1>2, <1>3, <1>4 DEF LedgerOK

LEMMA SavingCaptures ==
  ASSUME OneAtATime, IInv, CapturesOK, NEW h \in Handlers,
         SaveSale(h) \/ SaveRejected(h) \/ SavePaid(h) \/ SaveFailed(h)
  PROVE  CapturesOK'
<1> DEFINE L == handler[h]
           copy(st) == [status |-> st, secret |-> L.secret, amount |-> L.amount, externalId |-> L.externalId]
<1>0. L # NoOne /\ L.step \in {"saveSale", "saveRejected", "savePaid", "saveFailed"} /\ sale' = sale
  BY DEF SaveSale, SaveRejected, SavePaid, SaveFailed, At
<1>1. L \in Locals /\ LocalOK(L, sale) /\ CopyOK(L, transaction, sale) /\ LedgerOK(transaction, sale)
  BY <1>0, InFlight DEF CapturesOK
<1>2. /\ L.row \in Transactions /\ Open(transaction[L.row]) /\ transaction[L.row].secret = L.secret
  BY <1>0, <1>1 DEF LocalOK, CopyOK
<1>3. \A st : Open(copy(st)) <=> st \in {"new", "pending", "paid"}
  BY DEF Open
<1>4. \A st : copy(st).secret = L.secret /\ copy(st).externalId = L.externalId
  OBVIOUS
<1>5. PICK st \in {"pending", "paid", "failed"}, to \in {"submit", "charged", "failed"} :
        /\ transaction' = [transaction EXCEPT ![L.row] = copy(st)] /\ To(h, to)
        /\ L.step = "saveSale" => st = "pending" /\ to = "submit"
        /\ L.step = "savePaid" => st = "paid" /\ to = "charged"
        /\ L.step \in {"saveRejected", "saveFailed"} => st = "failed" /\ to = "failed"
  BY DEF SaveSale, SaveRejected, SavePaid, SaveFailed, At, Save
<1> HIDE DEF copy
<1>6. LedgerOK(transaction', sale')
  <2>1. Open(copy(st)) => sale[L.externalId].secret = L.secret
    BY <1>0, <1>1, <1>3, <1>5 DEF CopyOK
  <2>2. InBank(sale, transaction[L.row].externalId) =>
          Open(copy(st)) /\ L.externalId = transaction[L.row].externalId
    BY <1>0, <1>1, <1>3, <1>5 DEF CopyOK
  <2> QED BY <1>0, <1>1, <1>2, <1>4, <1>5, <2>1, <2>2, SavedLedger
<1>7. ASSUME to = "submit" PROVE CapturesOK'
  <2> DEFINE r == [L EXCEPT !.step = "submit"]
  <2>1. /\ handler' = [handler EXCEPT ![h] = r] /\ r.step = "submit" /\ r.row = L.row
        /\ r.secret = L.secret /\ r.externalId = L.externalId
    BY <1>1, <1>5, <1>7 DEF To, Locals
  <2>2. L.step = "saveSale" /\ st = "pending"
    BY <1>0, <1>5, <1>7
  <2>3. transaction'[L.row] = copy(st)
    BY <1>2, <1>5 DEF IInv, RowsOK
  <2> HIDE DEF r, L
  <2>4. CopyOK(r, transaction', sale')
    BY <1>0, <1>1, <1>3, <1>4, <2>1, <2>2, <2>3 DEF CopyOK
  <2> QED BY <1>6, <2>1, <2>4, CopyStep
<1>8. ASSUME to # "submit" PROVE CapturesOK'
  <2> DEFINE r == [L EXCEPT !.step = to]
  <2>1. handler' = [handler EXCEPT ![h] = r] /\ r.step = to
    BY <1>1, <1>5 DEF To, Locals
  <2>2. CopyOK(r, transaction', sale')
    BY <1>8, <2>1 DEF CopyOK
  <2> HIDE DEF r
  <2> QED BY <1>6, <2>1, <2>2, CopyStep
<1> QED BY <1>7, <1>8

\* A sale changes: it keeps its secret and whether it was captured, or it has
\* an open transaction of its secret.
LEMMA SaleLedger ==
  ASSUME IInv, LedgerOK(transaction, sale), NEW s \in Sales, NEW x \in Sale,
         sale' = [sale EXCEPT ![s] = x], x.state # "settling",
         x.secret = sale[s].secret \/ sale[s].state = "none",
         InBank(sale', s) =>
           \/ InBank(sale, s)
           \/ \E t \in Transactions : Open(transaction[t]) /\ transaction[t].secret = x.secret
                                      /\ transaction[t].externalId = s
  PROVE  LedgerOK(transaction, sale')
<1>1. sale'[s] = x /\ \A q \in Sales \ {s} : sale'[q] = sale[q]
  BY DEF IInv, SalesOK
<1>2. \A t \in Transactions : Open(transaction[t]) /\ transaction[t].externalId # NoOne =>
        sale'[transaction[t].externalId].secret = transaction[t].secret
  BY <1>1, OpenSale DEF LedgerOK
<1>3. ASSUME NEW q \in Sales, InBank(sale', q)
      PROVE  \E t \in Transactions :
               Open(transaction[t]) /\ transaction[t].secret = sale'[q].secret /\ transaction[t].externalId = q
  <2>1. CASE q = s
    BY <1>1, <1>3, <2>1 DEF LedgerOK, InBank
  <2>2. CASE q # s
    BY <1>1, <1>3, <2>2 DEF LedgerOK, InBank
  <2> QED BY <2>1, <2>2
<1>4. \A q \in Sales : sale'[q].state # "settling"
  BY <1>1 DEF LedgerOK
<1>5. \A t, u \in Transactions :
        Open(transaction[t]) /\ Open(transaction[u]) /\ transaction[t].secret = transaction[u].secret
          => t = u
  BY DEF LedgerOK
<1> QED BY ONLY <1>2, <1>3, <1>4, <1>5 DEF LedgerOK

LEMMA GatewaySaleCaptures ==
  ASSUME OneAtATime, IInv, CapturesOK, NEW h \in Handlers, NEW s \in Sales,
         NEW state \in {"authorized", "rejected"}, GatewaySale(h, s, state)
  PROVE  CapturesOK'
<1> DEFINE L == handler[h]
           x == [state |-> state, amount |-> L.amount, secret |-> L.secret]
           to == IF state = "authorized" THEN "saveSale" ELSE "saveRejected"
<1>0. /\ L \in Locals /\ L.step = "sale" /\ L.row \in Transactions /\ CopyOK(L, transaction, sale)
      /\ LedgerOK(transaction, sale) /\ transaction' = transaction
  BY InFlight DEF GatewaySale, At, LocalOK, CapturesOK
<1>1. sale[s].state = "none" /\ sale' = [sale EXCEPT ![s] = x] /\ sale \in [Sales -> Sale]
  BY DEF GatewaySale, IInv, SalesOK
<1>2. x \in Sale /\ x.state = state /\ x.secret = L.secret
  BY <1>0 DEF Sale, SaleStates, Locals
<1> HIDE DEF x
<1>3. sale'[s] = x /\ \A q : InBank(sale', q) <=> InBank(sale, q)
  BY <1>1, <1>2 DEF InBank
<1>4. LedgerOK(transaction', sale')
  BY <1>0, <1>1, <1>2, <1>3, SaleLedger
<1>5. CASE To(h, "failed")
  <2> DEFINE r == [L EXCEPT !.step = "failed"]
  <2>1. handler' = [handler EXCEPT ![h] = r] /\ r.step = "failed"
    BY <1>0, <1>5 DEF To, Locals
  <2>2. CopyOK(r, transaction', sale')
    BY <2>1 DEF CopyOK
  <2> HIDE DEF r
  <2> QED BY <1>4, <2>1, <2>2, CopyStep
<1>6. CASE handler' = [handler EXCEPT ![h].externalId = s, ![h].step = to]
  <2> DEFINE r == [L EXCEPT !.externalId = s, !.step = to]
  <2>1. handler' = [handler EXCEPT ![h] = r]
    BY <1>0, <1>6 DEF IInv, HandlersOK, Locals
  <2>2. /\ r.step = to /\ r.externalId = s /\ r.row = L.row /\ r.secret = L.secret
    BY <1>0 DEF Locals
  <2> HIDE DEF r, L
  <2>3. CopyOK(r, transaction', sale')
    BY <1>0, <1>2, <1>3, <2>2 DEF CopyOK
  <2> QED BY <1>4, <2>1, <2>3, CopyStep
<1> QED BY <1>5, <1>6 DEF GatewaySale

LEMMA SubmitCaptures ==
  ASSUME OneAtATime, IInv, CapturesOK, NEW h \in Handlers, Submit(h)
  PROVE  CapturesOK'
<1> DEFINE L == handler[h]
<1>0. /\ L \in Locals /\ L.step = "submit" /\ L.row \in Transactions /\ Accepted(sale, L.externalId)
      /\ CopyOK(L, transaction, sale) /\ LedgerOK(transaction, sale) /\ transaction' = transaction
  BY InFlight DEF Submit, At, LocalOK, CapturesOK
<1> PICK s \in Sales : s = L.externalId
  BY <1>0 DEF Accepted
<1>1. /\ sale \in [Sales -> Sale] /\ sale[s].state \in SaleStates \ {"none", "rejected", "settling"}
      /\ Open(transaction[L.row]) /\ transaction[L.row].secret = L.secret
      /\ transaction[L.row].externalId = s /\ sale[s].secret = L.secret
  BY <1>0 DEF Accepted, IInv, SalesOK, Sale, LedgerOK, CopyOK
<1>2. sale' = IF sale[s].state = "authorized" THEN [sale EXCEPT ![s].state = "submitted"] ELSE sale
  BY DEF Submit
<1>3. LedgerOK(transaction', sale')
  <2>1. CASE sale[s].state = "authorized"
    <3> DEFINE x == [sale[s] EXCEPT !.state = "submitted"]
    <3>1. sale' = [sale EXCEPT ![s] = x]
      BY <1>2, <2>1
    <3>2. x \in Sale /\ x.state = "submitted" /\ x.secret = sale[s].secret
      BY <1>1 DEF Sale, SaleStates
    <3> HIDE DEF x
    <3> QED BY <1>0, <1>1, <3>1, <3>2, SaleLedger
  <2>2. CASE sale[s].state # "authorized"
    BY <1>0, <1>2, <2>2
  <2> QED BY <2>1, <2>2
<1>4. PICK to \in {"savePaid", "sale", "saveFailed", "failed"} :
        To(h, to) /\ (to # "failed" => to = NextStep(sale[s].state))
  BY DEF Submit, NextStep
<1> DEFINE r == [L EXCEPT !.step = to]
<1>5. /\ handler' = [handler EXCEPT ![h] = r] /\ r.step = to
      /\ r.row = L.row /\ r.secret = L.secret /\ r.externalId = s
  BY <1>0, <1>4 DEF To, Locals
<1>6. to \in {"sale", "saveFailed"} => ~InBank(sale', s)
  BY <1>1, <1>2, <1>4 DEF NextStep, InBank
<1>7. sale'[s].secret = L.secret
  BY <1>1, <1>2 DEF Sale
<1> HIDE DEF r, L
<1>8. CopyOK(r, transaction', sale')
  BY <1>0, <1>1, <1>4, <1>5, <1>6, <1>7 DEF CopyOK
<1> QED BY <1>3, <1>5, <1>8, CopyStep

\* Sales age: none is captured by it, none settles.
LEMMA AgingCaptures ==
  ASSUME ~Settling, OneAtATime, IInv, CapturesOK, NEW s \in Sales, NEW to \in SaleStates, SaleAges(s, to)
  PROVE  CapturesOK'
<1> DEFINE x == [sale[s] EXCEPT !.state = to]
<1>0. sale \in [Sales -> Sale] /\ LedgerOK(transaction, sale)
  BY DEF IInv, SalesOK, CapturesOK
<1>1. sale' = [sale EXCEPT ![s] = x] /\ Ages(sale[s].state, to) /\ transaction' = transaction /\ handler' = handler
  BY DEF SaleAges
<1>2. x \in Sale /\ x.state = to /\ x.secret = sale[s].secret
  BY <1>0 DEF Sale
<1> HIDE DEF x
<1>3. to # "settling" /\ (to \in {"submitted", "settled"} <=> sale[s].state \in {"submitted", "settling"})
  BY <1>0, <1>1, SettlingAssumption DEF Ages, LedgerOK
<1>4. sale'[s] = x /\ \A q \in Sales \ {s} : sale'[q] = sale[q]
  BY <1>0, <1>1
<1>5. \A q : InBank(sale', q) <=> InBank(sale, q)
  BY <1>1, <1>2, <1>3, <1>4 DEF InBank, Ages
<1>6. LedgerOK(transaction', sale')
  BY <1>0, <1>1, <1>2, <1>3, <1>5, SaleLedger
<1>7. ASSUME NEW h \in Handlers, handler[h] # NoOne
      PROVE  CopyOK(handler[h], transaction, sale')
  <2>1. CopyOK(handler[h], transaction, sale) /\ LocalOK(handler[h], sale)
    BY <1>7, InFlight DEF CapturesOK
  <2>2. \A q \in Sales : sale'[q].secret = sale[q].secret
    BY <1>2, <1>4
  <2>3. handler[h].step \in {"saveSale", "submit", "savePaid"} => handler[h].externalId \in Sales
    BY <2>1 DEF LocalOK, Accepted, InBank
  <2> QED BY <1>5, <2>1, <2>2, <2>3 DEF CopyOK
<1> QED BY <1>1, <1>6, <1>7 DEF CapturesOK, LedgerOK, CopyOK, Open, InBank

LEMMA CapturesStep ==
  ASSUME ~Settling, OneAtATime, IInv, CapturesOK, [Next]_vars
  PROVE  CapturesOK'
<1>1. ASSUME NEW h \in Handlers, Paying(h) PROVE CapturesOK'
  BY <1>1, GatewaySaleCaptures, SavingCaptures, SubmitCaptures DEF Paying
<1>2. ASSUME NEW h \in Handlers, Throw(h) \/ Stop(h) PROVE CapturesOK'
  BY <1>2, OutsideTo DEF Throw, Stop
<1>3. CASE UNCHANGED <<transaction, sale, handler>>
  BY <1>3 DEF CapturesOK, LedgerOK, CopyOK, Open, InBank
<1>4. OrderMoves \/ (\E s \in {"unusable", "verified"} : SetWallet(s)) \/ DeletePaymentMethod \/ UNCHANGED vars
        => UNCHANGED <<transaction, sale, handler>>
  BY DEF OrderMoves, SetWallet, DeletePaymentMethod, vars, money
<1> QED BY <1>1, <1>2, <1>3, <1>4, CallingCaptures, LookingCaptures, AgingCaptures DEF Next

\* One charge at a time, whatever calls fail and whatever answers are lost, the
\* client's money is taken once for a secret, if no sale is ever found to be
\* settling, a state that submitForSettlement takes for a failure.
THEOREM OneCaptureTheorem ==
  ASSUME OneAtATime, ~Settling
  PROVE  Spec => []OneCapturePerSecret
<1>1. Init => CapturesOK
  BY DEF Init, CapturesOK, LedgerOK, Open, InBank
<1>2. CapturesOK => OneCapturePerSecret
  <2> SUFFICES ASSUME CapturesOK, NEW s1 \in Sales, NEW s2 \in Sales, Captured(s1), Captured(s2),
                      sale[s1].secret = sale[s2].secret
               PROVE  s1 = s2
    BY DEF OneCapturePerSecret
  <2>1. PICK t \in Transactions :
          Open(transaction[t]) /\ transaction[t].secret = sale[s1].secret /\ transaction[t].externalId = s1
    BY DEF CapturesOK, LedgerOK, Captured, InBank
  <2>2. PICK u \in Transactions :
          Open(transaction[u]) /\ transaction[u].secret = sale[s2].secret /\ transaction[u].externalId = s2
    BY DEF CapturesOK, LedgerOK, Captured, InBank
  <2> QED BY <2>1, <2>2 DEF CapturesOK, LedgerOK
<1> QED BY <1>1, <1>2, CapturesStep, Invariance, PTL DEF Spec
=============================================================================
