----------------------------- MODULE MoneyProofs -----------------------------
(***************************************************************************)
(* Invoicing and Pricing for every number of orders, carriers, cars,       *)
(* prices and times.  For requests that overlap: types, a billed order is  *)
(* on one of the two lists of bills, and the two reports, which sum up the *)
(* orders, agree.  For one request at a time: every mail of an order       *)
(* carries the same invoice, a due date is never moved, and prices keep    *)
(* the margin, the discount and the customer's word.                       *)
(***************************************************************************)
EXTENDS Revenue, Pricing, FiniteSetTheorems, WellFoundedInduction, TLAPS

\* An order that was billed has an invoice and a due date.
RowOK(row) ==
  /\ row \in OrderRow
  /\ row.status \in {"billed", "paid"} => row.invoice # NoOne /\ row.due # NoOne

\* The locals a step relies on.
LocalOK(r) ==
  /\ r \in Locals
  /\ r.step # "idle" => r.order \in Orders
  /\ r.step = "mail" => r.invoice # NoOne
  /\ r.step \in {"mail", "bill"} => order[r.order].invoice # NoOne
  /\ r.step = "pay" => order[r.order].invoice # NoOne /\ order[r.order].due # NoOne

IInv ==
  /\ TypeOK
  /\ \A o \in Orders : RowOK(order[o])
  /\ \A h \in Handlers : LocalOK(handler[h])

-----------------------------------------------------------------------------
(* Requests in flight. *)

LEMMA NoOneOutside == NoOne \notin Orders \cup Times \cup Files
BY NoOneAssumption

LEMMA IdleOK == LocalOK(Idle) /\ Idle.step = "idle" /\ Idle.order = NoOne
BY DEF LocalOK, Idle, Locals, Steps

LEMMA KeepOK ==
  ASSUME TypeOK, \A h \in Handlers : LocalOK(handler[h]),
         NEW h \in Handlers, NEW r, LocalOK(r), Keep(h, r)
  PROVE  /\ handler' \in [Handlers -> Locals]
         /\ handler'[h] = r
         /\ \A g \in Handlers : g # h => handler'[g] = handler[g]
         /\ \A g \in Handlers : LocalOK(handler'[g])
<1>1. r \in Locals
  BY DEF LocalOK
<1>2. handler' \in [Handlers -> Locals]
  BY <1>1 DEF Keep, TypeOK
<1>3. handler'[h] = r /\ \A g \in Handlers : g # h => handler'[g] = handler[g]
  BY DEF Keep, TypeOK
<1> QED BY <1>2, <1>3

\* What a step does to an order: an invoice and a due date stay.
Kept(row, o) ==
  /\ order[o].invoice # NoOne => row.invoice # NoOne
  /\ order[o].due # NoOne => row.due # NoOne

LEMMA Persists ==
  ASSUME \A o \in Orders : Kept(order'[o], o), NEW r, LocalOK(r)
  PROVE  /\ r \in Locals
         /\ r.step # "idle" => r.order \in Orders
         /\ r.step = "mail" => r.invoice # NoOne
         /\ r.step \in {"mail", "bill"} => order'[r.order].invoice # NoOne
         /\ r.step = "pay" => order'[r.order].invoice # NoOne /\ order'[r.order].due # NoOne
BY DEF LocalOK, Kept

LEMMA ReadInv ==
  ASSUME IInv, NEW h \in Handlers, NEW r, LocalOK(r), Read(h, r)
  PROVE  IInv'
<1>1. UNCHANGED <<order, now, files, mailed>> /\ Keep(h, r)
  BY DEF Read
<1>2. handler' \in [Handlers -> Locals] /\ \A g \in Handlers : LocalOK(handler'[g])
  BY <1>1, KeepOK DEF IInv
<1>3. TypeOK'
  BY <1>1, <1>2 DEF IInv, TypeOK
<1>4. (\A g \in Handlers : LocalOK(handler[g]))'
  BY <1>1, <1>2 DEF LocalOK
<1>5. (\A o \in Orders : RowOK(order[o]))'
  BY <1>1 DEF IInv, RowOK
<1> QED BY <1>3, <1>4, <1>5 DEF IInv

\* The end of a step that wrote one order, whoever did it.
LEMMA WriteInv ==
  ASSUME IInv, NEW o \in Orders, NEW row, RowOK(row), Kept(row, o),
         order' = [order EXCEPT ![o] = row],
         now' \in Times, files' \in 0..MaxFiles, mailed' \in [Orders -> SUBSET Files],
         handler' \in [Handlers -> Locals],
         \A g \in Handlers :
           LocalOK(handler'[g])
           \/ /\ handler'[g] \in Locals /\ handler'[g].order = o
              /\ handler'[g].step = "mail" /\ handler'[g].invoice # NoOne
              /\ row.invoice # NoOne
  PROVE  IInv'
<1>1. order \in [Orders -> OrderRow] /\ row \in OrderRow
  BY DEF IInv, TypeOK, RowOK
<1>2. order' \in [Orders -> OrderRow]
  BY <1>1
<1>3. \A p \in Orders : order'[p] = IF p = o THEN row ELSE order[p]
  BY <1>1
<1>4. \A p \in Orders : Kept(order'[p], p) /\ RowOK(order'[p])
  BY <1>3 DEF Kept, IInv
<1>5. TypeOK'
  BY <1>2 DEF TypeOK
<1>6. ASSUME NEW g \in Handlers PROVE LocalOK(handler[g])'
  <2>1. CASE LocalOK(handler'[g])
    BY <2>1, <1>4, Persists DEF LocalOK
  <2>2. CASE /\ handler'[g] \in Locals /\ handler'[g].order = o
             /\ handler'[g].step = "mail" /\ handler'[g].invoice # NoOne
             /\ row.invoice # NoOne
    BY <2>2, <1>3 DEF LocalOK
  <2> QED BY <2>1, <2>2
<1>7. (\A p \in Orders : RowOK(order[p]))'
  BY <1>4 DEF RowOK
<1> QED BY <1>5, <1>6, <1>7 DEF IInv

\* A step that writes no order.
LEMMA OrdersKeptInv ==
  ASSUME IInv, UNCHANGED order,
         now' \in Times, files' \in 0..MaxFiles, mailed' \in [Orders -> SUBSET Files],
         handler' \in [Handlers -> Locals], \A g \in Handlers : LocalOK(handler'[g])
  PROVE  IInv'
<1>1. TypeOK'
  BY DEF IInv, TypeOK
<1>2. (\A g \in Handlers : LocalOK(handler[g]))'
  BY DEF LocalOK
<1>3. (\A o \in Orders : RowOK(order[o]))'
  BY DEF IInv, RowOK
<1> QED BY <1>1, <1>2, <1>3 DEF IInv

-----------------------------------------------------------------------------
(* The locals that each read leaves. *)

InvoiceLocals(o, send, asked) ==
  [step |-> IF order[o].invoice = NoOne THEN "generate" ELSE "mail",
   order |-> o, send |-> send, invoice |-> order[o].invoice,
   due |-> IF order[o].due = NoOne THEN asked ELSE order[o].due]

LEMMA InvoiceLocalsOK ==
  ASSUME IInv, NEW o \in Orders, NEW send \in BOOLEAN, NEW asked \in Times \cup {NoOne}
  PROVE  LocalOK(InvoiceLocals(o, send, asked))
BY DEF IInv, TypeOK, OrderRow, LocalOK, InvoiceLocals, Locals, Steps

StepLocals(s, o) == [Idle EXCEPT !.step = s, !.order = o]

LEMMA StepLocalsOK ==
  ASSUME NEW s \in {"pay", "release", "cancel"}, NEW o \in Orders,
         s = "pay" => order[o].invoice # NoOne /\ order[o].due # NoOne
  PROVE  /\ LocalOK(StepLocals(s, o))
         /\ StepLocals(s, o).step = s /\ StepLocals(s, o).order = o
<1>1. StepLocals(s, o).step = s /\ StepLocals(s, o).order = o
  BY DEF StepLocals, Idle
<1>2. StepLocals(s, o) \in Locals
  BY DEF StepLocals, Idle, Locals, Steps
<1>3. s \notin {"mail", "bill"}
  OBVIOUS
<1> HIDE DEF StepLocals
<1> QED BY <1>1, <1>2, <1>3 DEF LocalOK

-----------------------------------------------------------------------------
(* Each write keeps the invariant. *)

WithStatus(o, s) == [order[o] EXCEPT !.status = s]

\* A write of the status alone, by a request that ends or by none.
LEMMA StatusInv ==
  ASSUME IInv, NEW o \in Orders, NEW s \in Statuses, SetStatus(o, s),
         s \in {"billed", "paid"} => order[o].invoice # NoOne /\ order[o].due # NoOne,
         UNCHANGED <<now, files, mailed>>,
         UNCHANGED handler \/ \E h \in Handlers : Done(h)
  PROVE  IInv'
<1>1. order \in [Orders -> OrderRow] /\ order[o] \in OrderRow
  BY DEF IInv, TypeOK
<1>2. /\ WithStatus(o, s) \in OrderRow /\ WithStatus(o, s).status = s
      /\ WithStatus(o, s).invoice = order[o].invoice
      /\ WithStatus(o, s).due = order[o].due
  BY <1>1 DEF WithStatus, OrderRow
<1>3. order' = [order EXCEPT ![o] = WithStatus(o, s)]
  BY <1>1 DEF SetStatus, WithStatus
<1>4. RowOK(WithStatus(o, s)) /\ Kept(WithStatus(o, s), o)
  BY <1>2 DEF RowOK, Kept
<1>5. handler' \in [Handlers -> Locals] /\ \A g \in Handlers : LocalOK(handler'[g])
  BY KeepOK, IdleOK DEF IInv, TypeOK, Done
<1>6. now' \in Times /\ files' \in 0..MaxFiles /\ mailed' \in [Orders -> SUBSET Files]
  BY DEF IInv, TypeOK
<1> HIDE DEF WithStatus
<1> QED BY <1>3, <1>4, <1>5, <1>6, WriteInv

LEMMA InvoiceReadInv ==
  ASSUME IInv, NEW h \in Handlers, NEW o \in Orders, NEW send \in BOOLEAN,
         NEW asked \in Times \cup {NoOne}, InvoiceRead(h, o, send, asked)
  PROVE  IInv'
<1>1. Read(h, InvoiceLocals(o, send, asked))
  BY DEF InvoiceRead, InvoiceLocals
<1> QED BY <1>1, InvoiceLocalsOK, ReadInv

WithInvoice(o, f) == [order[o] EXCEPT !.invoice = f]

LEMMA SaveInvoiceInv ==
  ASSUME IInv, NEW h \in Handlers, SaveInvoice(h)
  PROVE  IInv'
<1> DEFINE me == handler[h]
           f == files + 1
           mail == [me EXCEPT !.step = "mail", !.invoice = f]
<1>1. /\ me \in Locals /\ me.order \in Orders /\ me.step = "generate"
      /\ f \in Files /\ files' = f /\ LocalOK(me)
      /\ UNCHANGED <<now, mailed>>
  BY BoundsAssumption DEF IInv, TypeOK, LocalOK, SaveInvoice, Files
<1>2. /\ order' = [order EXCEPT ![me.order] = WithInvoice(me.order, f)]
      /\ order[me.order] \in OrderRow
  BY <1>1 DEF SaveInvoice, WithInvoice, IInv, TypeOK
<1>3. /\ WithInvoice(me.order, f) \in OrderRow
      /\ WithInvoice(me.order, f).invoice = f
      /\ WithInvoice(me.order, f).due = order[me.order].due
      /\ WithInvoice(me.order, f).status = order[me.order].status
  BY <1>1, <1>2 DEF WithInvoice, OrderRow
<1>4. f # NoOne
  BY <1>1, NoOneOutside
<1>5. RowOK(WithInvoice(me.order, f)) /\ Kept(WithInvoice(me.order, f), me.order)
  BY <1>1, <1>3, <1>4 DEF RowOK, Kept, IInv
<1>6. /\ mail \in Locals /\ mail.order = me.order /\ mail.step = "mail"
      /\ mail.invoice = f
  BY <1>1 DEF Locals, Steps
<1>7. /\ handler' = [handler EXCEPT ![h] = mail] \/ handler' = [handler EXCEPT ![h] = Idle]
      /\ handler \in [Handlers -> Locals]
  BY DEF SaveInvoice, Keep, Done, IInv, TypeOK
<1> HIDE DEF mail, f
<1>8. handler' \in [Handlers -> Locals]
  BY <1>6, <1>7, IdleOK DEF LocalOK
<1>9. ASSUME NEW g \in Handlers
      PROVE  LocalOK(handler'[g]) \/ handler'[g] = mail
  BY <1>7, IdleOK DEF IInv
<1>10. now' \in Times /\ files' \in 0..MaxFiles /\ mailed' \in [Orders -> SUBSET Files]
  BY <1>1, BoundsAssumption DEF IInv, TypeOK, Files
<1>11. \A g \in Handlers :
         LocalOK(handler'[g])
         \/ /\ handler'[g] \in Locals /\ handler'[g].order = me.order
            /\ handler'[g].step = "mail" /\ handler'[g].invoice # NoOne
            /\ WithInvoice(me.order, f).invoice # NoOne
  BY <1>3, <1>4, <1>6, <1>9
<1> HIDE DEF WithInvoice
<1> QED BY <1>1, <1>2, <1>5, <1>8, <1>10, <1>11, WriteInv

LEMMA MailInv ==
  ASSUME IInv, NEW h \in Handlers, Mail(h)
  PROVE  IInv'
<1> DEFINE me == handler[h]
           bill == [me EXCEPT !.step = "bill"]
<1>1. /\ me \in Locals /\ LocalOK(me) /\ me.step = "mail" /\ me.order \in Orders
      /\ order[me.order].invoice # NoOne /\ me.invoice \in Files
      /\ UNCHANGED <<order, now, files>>
  BY DEF IInv, TypeOK, LocalOK, Mail, Locals
<1>2. bill \in Locals /\ bill.step = "bill" /\ bill.order = me.order
  BY <1>1 DEF Locals, Steps
<1>3. LocalOK(bill)
  BY <1>1, <1>2 DEF LocalOK
<1>4. Keep(h, bill) /\ mailed' = [mailed EXCEPT ![me.order] = @ \cup {me.invoice}]
  BY DEF Mail
<1> HIDE DEF bill
<1>5. handler' \in [Handlers -> Locals] /\ \A g \in Handlers : LocalOK(handler'[g])
  BY <1>3, <1>4, KeepOK DEF IInv
<1>6. mailed' \in [Orders -> SUBSET Files]
  BY <1>1, <1>4 DEF IInv, TypeOK
<1>7. now' \in Times /\ files' \in 0..MaxFiles
  BY <1>1 DEF IInv, TypeOK
<1> QED BY <1>1, <1>5, <1>6, <1>7, OrdersKeptInv

WithBill(o, d) == [order[o] EXCEPT !.status = "billed", !.due = d]

LEMMA BillInv ==
  ASSUME IInv, NEW h \in Handlers, Bill(h)
  PROVE  IInv'
<1> DEFINE me == handler[h]
           d == IF me.due = NoOne THEN now ELSE me.due
<1>1. /\ me \in Locals /\ me.step = "bill" /\ me.order \in Orders
      /\ order[me.order].invoice # NoOne
      /\ UNCHANGED <<now, files, mailed>> /\ Done(h)
  BY DEF IInv, TypeOK, LocalOK, Bill
<1>2. d \in Times /\ d # NoOne
  BY <1>1, NoOneOutside DEF IInv, TypeOK, Locals
<1>3. /\ order' = [order EXCEPT ![me.order] = WithBill(me.order, d)]
      /\ order[me.order] \in OrderRow
  BY <1>1 DEF Bill, WithBill, IInv, TypeOK
<1> HIDE DEF d
<1>4. /\ WithBill(me.order, d) \in OrderRow
      /\ WithBill(me.order, d).invoice = order[me.order].invoice
      /\ WithBill(me.order, d).due = d
  BY <1>2, <1>3 DEF WithBill, OrderRow, Statuses
<1>5. RowOK(WithBill(me.order, d)) /\ Kept(WithBill(me.order, d), me.order)
  BY <1>1, <1>2, <1>4 DEF RowOK, Kept
<1>6. handler' \in [Handlers -> Locals] /\ \A g \in Handlers : LocalOK(handler'[g])
  BY <1>1, KeepOK, IdleOK DEF IInv, Done
<1>7. now' \in Times /\ files' \in 0..MaxFiles /\ mailed' \in [Orders -> SUBSET Files]
  BY <1>1 DEF IInv, TypeOK
<1> HIDE DEF WithBill
<1> QED BY <1>1, <1>3, <1>5, <1>6, <1>7, WriteInv


LEMMA DeliverInv ==
  ASSUME IInv, NEW o \in Orders, Deliver(o)
  PROVE  IInv'
BY StatusInv DEF Deliver, Statuses

LEMMA MarkPaidReadInv ==
  ASSUME IInv, NEW h \in Handlers, NEW o \in Orders, MarkPaidRead(h, o)
  PROVE  IInv'
<1>1. Read(h, StepLocals("pay", o)) /\ order[o].status = "billed"
  BY DEF MarkPaidRead, StepLocals
<1>2. LocalOK(StepLocals("pay", o))
  BY <1>1, StepLocalsOK DEF IInv, RowOK
<1> QED BY <1>1, <1>2, ReadInv

LEMMA MarkPaidWriteInv ==
  ASSUME IInv, NEW h \in Handlers, MarkPaidWrite(h)
  PROVE  IInv'
<1>1. /\ handler[h].order \in Orders
      /\ order[handler[h].order].invoice # NoOne /\ order[handler[h].order].due # NoOne
  BY DEF IInv, LocalOK, MarkPaidWrite
<1> QED BY <1>1, StatusInv DEF MarkPaidWrite, Statuses

LEMMA CancelReadInv ==
  ASSUME IInv, NEW h \in Handlers, NEW o \in Orders, CancelRead(h, o) \/ ClientCancelRead(h, o)
  PROVE  IInv'
<1>1. Read(h, StepLocals("release", o)) \/ Read(h, StepLocals("cancel", o))
  BY DEF CancelRead, ClientCancelRead, StepLocals
<1>2. LocalOK(StepLocals("release", o)) /\ LocalOK(StepLocals("cancel", o))
  BY StepLocalsOK
<1> QED BY <1>1, <1>2, ReadInv

Released(o) == [order[o] EXCEPT !.status = "published", !.carrier = NoOne]
Accepted(o, c) == [order[o] EXCEPT !.status = "dispatched", !.carrier = c]

LEMMA CancelWriteInv ==
  ASSUME IInv, NEW h \in Handlers, CancelWrite(h)
  PROVE  IInv'
<1> DEFINE o == handler[h].order
<1>1. o \in Orders /\ UNCHANGED <<now, files, mailed>> /\ Done(h)
  BY DEF IInv, LocalOK, CancelWrite
<1>2. order[o] \in OrderRow /\ order' = [order EXCEPT ![o] = Released(o)]
  BY <1>1 DEF CancelWrite, Released, IInv, TypeOK
<1>3. /\ Released(o) \in OrderRow /\ Released(o).status = "published"
      /\ Released(o).invoice = order[o].invoice /\ Released(o).due = order[o].due
  BY <1>2 DEF Released, OrderRow, Statuses
<1>4. RowOK(Released(o)) /\ Kept(Released(o), o)
  BY <1>3 DEF RowOK, Kept
<1>5. handler' \in [Handlers -> Locals] /\ \A g \in Handlers : LocalOK(handler'[g])
  BY <1>1, KeepOK, IdleOK DEF IInv, Done
<1>6. now' \in Times /\ files' \in 0..MaxFiles /\ mailed' \in [Orders -> SUBSET Files]
  BY <1>1 DEF IInv, TypeOK
<1> HIDE DEF Released
<1> QED BY <1>1, <1>2, <1>4, <1>5, <1>6, WriteInv

LEMMA ClientCancelWriteInv ==
  ASSUME IInv, NEW h \in Handlers, ClientCancelWrite(h)
  PROVE  IInv'
<1>1. handler[h].order \in Orders
  BY DEF IInv, LocalOK, ClientCancelWrite
<1> QED BY <1>1, StatusInv DEF ClientCancelWrite, Statuses

LEMMA AcceptInv ==
  ASSUME IInv, NEW o \in Orders, NEW c \in Carriers, Accept(o, c)
  PROVE  IInv'
<1>1. UNCHANGED <<now, files, mailed, handler>>
  BY DEF Accept
<1>2. order[o] \in OrderRow /\ order' = [order EXCEPT ![o] = Accepted(o, c)]
  BY <1>1 DEF Accept, Accepted, IInv, TypeOK
<1>3. /\ Accepted(o, c) \in OrderRow /\ Accepted(o, c).status = "dispatched"
      /\ Accepted(o, c).invoice = order[o].invoice /\ Accepted(o, c).due = order[o].due
  BY <1>2 DEF Accepted, OrderRow, Statuses
<1>4. RowOK(Accepted(o, c)) /\ Kept(Accepted(o, c), o)
  BY <1>3 DEF RowOK, Kept
<1>5. handler' \in [Handlers -> Locals] /\ \A g \in Handlers : LocalOK(handler'[g])
  BY <1>1 DEF IInv, TypeOK
<1>6. now' \in Times /\ files' \in 0..MaxFiles /\ mailed' \in [Orders -> SUBSET Files]
  BY <1>1 DEF IInv, TypeOK
<1> HIDE DEF Accepted
<1> QED BY <1>2, <1>4, <1>5, <1>6, WriteInv

\* A write that leaves the invoice and the due date, and bills nothing.
LEMMA PlainInv ==
  ASSUME IInv, NEW o \in Orders, NEW row \in OrderRow,
         order' = [order EXCEPT ![o] = row], UNCHANGED <<now, files, mailed, handler>>,
         row.status = order[o].status \/ row.status \notin {"billed", "paid"},
         row.invoice = order[o].invoice, row.due = order[o].due
  PROVE  IInv'
<1>1. RowOK(row) /\ Kept(row, o)
  BY DEF RowOK, Kept, IInv
<1>2. /\ handler' \in [Handlers -> Locals] /\ \A g \in Handlers : LocalOK(handler'[g])
      /\ now' \in Times /\ files' \in 0..MaxFiles /\ mailed' \in [Orders -> SUBSET Files]
  BY DEF IInv, TypeOK
<1> QED BY <1>1, <1>2, WriteInv

Archived(o, account) ==
  [order[o] EXCEPT !.status = "archived", !.hidden = @ \/ account # NoOne]
Deleted(o) == [order[o] EXCEPT !.status = "deleted", !.published = FALSE]
Published(o, p) == [order[o] EXCEPT !.published = p]

LEMMA ShowingInv ==
  ASSUME IInv, NEW o \in Orders,
         \/ Delete(o)
         \/ \E a \in Carriers \cup {NoOne} : Archive(o, a)
         \/ \E p \in BOOLEAN : SetPublished(o, p)
  PROVE  IInv'
<1>1. order[o] \in OrderRow
  BY DEF IInv, TypeOK
<1>2. CASE Delete(o)
  <2>1. /\ Deleted(o) \in OrderRow /\ Deleted(o).status = "deleted"
        /\ Deleted(o).invoice = order[o].invoice /\ Deleted(o).due = order[o].due
    BY <1>1 DEF Deleted, OrderRow, Statuses
  <2>2. order' = [order EXCEPT ![o] = Deleted(o)] /\ UNCHANGED <<now, files, mailed, handler>>
    BY <1>1, <1>2 DEF Delete, Deleted, IInv, TypeOK
  <2> HIDE DEF Deleted
  <2> QED BY <2>1, <2>2, PlainInv
<1>3. ASSUME NEW a \in Carriers \cup {NoOne}, Archive(o, a)
      PROVE  IInv'
  <2>1. /\ Archived(o, a) \in OrderRow /\ Archived(o, a).status = "archived"
        /\ Archived(o, a).invoice = order[o].invoice /\ Archived(o, a).due = order[o].due
    BY <1>1 DEF Archived, OrderRow, Statuses
  <2>2. order' = [order EXCEPT ![o] = Archived(o, a)] /\ UNCHANGED <<now, files, mailed, handler>>
    BY <1>1, <1>3 DEF Archive, Archived, IInv, TypeOK
  <2> HIDE DEF Archived
  <2> QED BY <2>1, <2>2, PlainInv
<1>4. ASSUME NEW p \in BOOLEAN, SetPublished(o, p)
      PROVE  IInv'
  <2>1. /\ Published(o, p) \in OrderRow /\ Published(o, p).status = order[o].status
        /\ Published(o, p).invoice = order[o].invoice /\ Published(o, p).due = order[o].due
    BY <1>1 DEF Published, OrderRow
  <2>2. order' = [order EXCEPT ![o] = Published(o, p)] /\ UNCHANGED <<now, files, mailed, handler>>
    BY <1>4 DEF SetPublished, Published
  <2> HIDE DEF Published
  <2> QED BY <2>1, <2>2, PlainInv
<1> QED BY <1>2, <1>3, <1>4

LEMMA TickInv ==
  ASSUME IInv, Tick
  PROVE  IInv'
<1>1. now' \in Times /\ UNCHANGED <<order, files, mailed, handler>>
  BY BoundsAssumption DEF Tick, IInv, TypeOK, Times
<1> QED BY <1>1, OrdersKeptInv DEF IInv, TypeOK

LEMMA AbortInv ==
  ASSUME IInv, NEW h \in Handlers, Abort(h)
  PROVE  IInv'
<1>1. handler' \in [Handlers -> Locals] /\ \A g \in Handlers : LocalOK(handler'[g])
  BY KeepOK, IdleOK DEF IInv, Abort, Done
<1> QED BY <1>1, OrdersKeptInv DEF IInv, TypeOK, Abort

-----------------------------------------------------------------------------
LEMMA InitInv == Init => IInv
<1> SUFFICES ASSUME Init PROVE IInv
  OBVIOUS
<1> DEFINE Row(c, s, p) ==
             [status |-> "dispatched", published |-> TRUE, hidden |-> FALSE,
              carrier |-> c, shipper |-> s, price |-> p, invoice |-> NoOne, due |-> NoOne]
           Rows == {Row(c, s, p) : c \in Carriers, s \in Shippers \cup {NoOne}, p \in Prices}
<1>a. order \in [Orders -> Rows]
  BY DEF Init
<1>b. \A c \in Carriers, s \in Shippers \cup {NoOne}, p \in Prices :
        Row(c, s, p) \in OrderRow /\ Row(c, s, p).status = "dispatched"
  BY DEF OrderRow, Statuses
<1>c. /\ now = 0 /\ files = 0
      /\ mailed = [o \in Orders |-> {}] /\ handler = [h \in Handlers |-> Idle]
  BY DEF Init
<1>d. \A row \in Rows : row \in OrderRow /\ row.status = "dispatched"
  <2> HIDE DEF Row
  <2> QED BY <1>b
<1> HIDE DEF Rows
<1>2. \A o \in Orders : order[o] \in OrderRow /\ order[o].status = "dispatched"
  BY <1>a, <1>d
<1>1. TypeOK
  BY <1>a, <1>c, <1>2, BoundsAssumption, IdleOK DEF TypeOK, Times, LocalOK
<1>3. \A o \in Orders : RowOK(order[o])
  BY <1>2 DEF RowOK
<1>4. \A h \in Handlers : LocalOK(handler[h])
  BY IdleOK DEF Init
<1> QED BY <1>1, <1>3, <1>4 DEF IInv

LEMMA StepInv ==
  ASSUME IInv, NEW h \in Handlers, Step(h)
  PROVE  IInv'
<1>1. CASE \E o \in Orders, send \in BOOLEAN, asked \in Times \cup {NoOne} :
             InvoiceRead(h, o, send, asked)
  BY <1>1, InvoiceReadInv
<1>2. CASE \E o \in Orders : MarkPaidRead(h, o)
  BY <1>2, MarkPaidReadInv
<1>3. CASE \E o \in Orders : CancelRead(h, o) \/ ClientCancelRead(h, o)
  BY <1>3, CancelReadInv
<1>4. CASE SaveInvoice(h) \/ Mail(h) \/ Bill(h)
  BY <1>4, SaveInvoiceInv, MailInv, BillInv
<1>5. CASE MarkPaidWrite(h) \/ CancelWrite(h) \/ ClientCancelWrite(h) \/ Abort(h)
  BY <1>5, MarkPaidWriteInv, CancelWriteInv, ClientCancelWriteInv, AbortInv
<1> QED BY <1>1, <1>2, <1>3, <1>4, <1>5 DEF Step

LEMMA NextInv == IInv /\ [Next]_vars => IInv'
<1> SUFFICES ASSUME IInv, [Next]_vars PROVE IInv'
  OBVIOUS
<1>1. CASE \E h \in Handlers : Step(h)
  BY <1>1, StepInv
<1>2. CASE \E o \in Orders : OrderStep(o)
  BY <1>2, DeliverInv, AcceptInv, ShowingInv DEF OrderStep
<1>3. CASE Tick
  BY <1>3, TickInv
<1>4. CASE UNCHANGED vars
  BY <1>4, OrdersKeptInv DEF vars, IInv, TypeOK
<1> QED BY <1>1, <1>2, <1>3, <1>4 DEF Next

\* Whatever requests overlap, a billed order has an invoice and a due date.
THEOREM Invariance == Spec => []IInv
BY InitInv, NextInv, PTL DEF Spec

\* Types of orders, mails and requests in flight (order.service.ts:2194-2265).
THEOREM TypeCorrect == Spec => []TypeOK
<1>1. IInv => TypeOK
  BY DEF IInv
<1> QED BY <1>1, Invariance, PTL

\* Whatever overlaps and fails, a billed order that is shown is on exactly one
\* of its carrier's two lists of bills, one that is not on neither
\* (order.repository.ts:194-276).
THEOREM BilledOnOneTabHolds == Spec => []BilledOnOneTab
<1>1. ASSUME IInv PROVE BilledOnOneTab
  <2> SUFFICES ASSUME NEW o \in Orders, NEW c, c = order[o].carrier,
                      order[o].status = "billed", c # NoOne, order[o].due # now
               PROVE  /\ Shown(o) <=> o \in PastDue(c) \cup Billed(c)
                      /\ o \notin PastDue(c) \cap Billed(c)
    BY DEF BilledOnOneTab
  <2>1. /\ Invoiced(o) /\ order[o].due # NoOne
        /\ order[o].due \in Times /\ now \in Times
    BY <1>1, NoOneOutside DEF IInv, RowOK, TypeOK, OrderRow, Invoiced
  <2>2. (order[o].due < now) # (order[o].due > now)
    BY <2>1, BoundsAssumption DEF Times
  <2>3. o \in PastDue(c) <=> Shown(o) /\ order[o].due < now
    BY <2>1 DEF PastDue, DueBeforeNow
  <2>4. o \in Billed(c) <=> Shown(o) /\ order[o].due > now
    BY <2>1 DEF Billed, DueAfterNow
  <2> QED BY <2>2, <2>3, <2>4
<1> QED BY <1>1, Invariance, PTL


-----------------------------------------------------------------------------
(* One request at a time. *)

OneHandler == \A g, h \in Handlers : g = h

\* What a mail in the making knows of its order is still so.
Fresh(r) ==
  /\ r.step = "generate" => order[r.order].invoice = NoOne
  /\ r.step \in {"mail", "bill"} => r.invoice = order[r.order].invoice
  /\ r.step \in {"generate", "mail", "bill"} /\ order[r.order].due # NoOne =>
       r.due = order[r.order].due

SInv ==
  /\ IInv
  /\ OneInvoice
  /\ \A h \in Handlers : Fresh(handler[h])

\* A step that leaves the invoices and the due dates alone.
Quiet ==
  /\ UNCHANGED mailed
  /\ \A o \in Orders : order'[o].invoice = order[o].invoice /\ order'[o].due = order[o].due

\* The end of a request, or the start of one that mails nothing.
Silent(r) == r.step \notin {"generate", "mail", "bill"}

LEMMA SilentSerial ==
  ASSUME SInv, IInv', OneHandler, NEW h \in Handlers, NEW r, Silent(r), Keep(h, r), Quiet
  PROVE  SInv'
<1>1. handler'[h] = r /\ \A g \in Handlers : g = h
  BY DEF SInv, IInv, TypeOK, Keep, OneHandler
<1>2. (\A g \in Handlers : Fresh(handler[g]))'
  BY <1>1 DEF Fresh, Silent
<1>3. OneInvoice'
  BY DEF SInv, Quiet, OneInvoice
<1> QED BY <1>2, <1>3 DEF SInv

LEMMA UnchangedSerial ==
  ASSUME SInv, IInv', Quiet, UNCHANGED handler
  PROVE  SInv'
<1>1. (\A g \in Handlers : Fresh(handler[g]))'
  <2> SUFFICES ASSUME NEW g \in Handlers PROVE Fresh(handler[g])'
    OBVIOUS
  <2>1. Fresh(handler[g]) /\ handler'[g] = handler[g] /\ LocalOK(handler[g])
    BY DEF SInv, IInv
  <2>2. handler[g].step \in {"generate", "mail", "bill"} =>
          /\ order'[handler[g].order].invoice = order[handler[g].order].invoice
          /\ order'[handler[g].order].due = order[handler[g].order].due
    BY <2>1 DEF LocalOK, Quiet
  <2> QED BY <2>1, <2>2 DEF Fresh
<1>2. OneInvoice'
  BY DEF SInv, Quiet, OneInvoice
<1> QED BY <1>1, <1>2 DEF SInv

LEMMA IdleSilent == Silent(Idle)
BY DEF Silent, Idle

LEMMA InvoiceReadSerial ==
  ASSUME SInv, IInv', OneHandler, NEW h \in Handlers, NEW o \in Orders,
         NEW send \in BOOLEAN, NEW asked \in Times \cup {NoOne}, InvoiceRead(h, o, send, asked)
  PROVE  SInv'
<1>1. /\ Read(h, InvoiceLocals(o, send, asked)) /\ UNCHANGED <<order, mailed>>
      /\ Keep(h, InvoiceLocals(o, send, asked))
  BY DEF InvoiceRead, InvoiceLocals, Read
<1>2. \A g \in Handlers : handler'[g] = InvoiceLocals(o, send, asked)
  BY <1>1 DEF SInv, IInv, TypeOK, Keep, OneHandler
<1>3. (\A g \in Handlers : Fresh(handler[g]))'
  BY <1>1, <1>2 DEF Fresh, InvoiceLocals
<1>4. OneInvoice'
  BY <1>1 DEF SInv, OneInvoice
<1> QED BY <1>3, <1>4 DEF SInv

\* The first invoice of an order: nothing was mailed before it.
LEMMA SaveInvoiceSerial ==
  ASSUME SInv, IInv', OneHandler, NEW h \in Handlers, SaveInvoice(h)
  PROVE  SInv'
<1> DEFINE me == handler[h]
           f == files + 1
           mail == [me EXCEPT !.step = "mail", !.invoice = f]
<1>1. /\ me \in Locals /\ me.order \in Orders /\ me.step = "generate"
      /\ order[me.order].invoice = NoOne /\ UNCHANGED mailed /\ Fresh(me)
  BY DEF SInv, IInv, TypeOK, LocalOK, SaveInvoice, Fresh
<1>2. \A p \in Orders : mailed[p] \subseteq {order[p].invoice} /\ mailed[p] \in SUBSET Files
  BY DEF SInv, IInv, TypeOK, OneInvoice
<1>3. mailed[me.order] = {}
  BY <1>1, <1>2, NoOneOutside
<1>4. order \in [Orders -> OrderRow] /\ order[me.order] \in OrderRow
  BY <1>1 DEF SInv, IInv, TypeOK
<1>5. /\ order'[me.order].invoice = f /\ order'[me.order].due = order[me.order].due
      /\ \A p \in Orders : p # me.order => order'[p] = order[p]
  BY <1>1, <1>4 DEF SaveInvoice, OrderRow
<1>6. OneInvoice'
  BY <1>1, <1>2, <1>3, <1>5 DEF OneInvoice
<1>7. /\ mail.step = "mail" /\ mail.order = me.order /\ mail.invoice = f
      /\ mail.due = me.due
  BY <1>1 DEF Locals
<1>8. \A g \in Handlers : handler'[g] = mail \/ handler'[g] = Idle
  BY DEF SaveInvoice, Keep, Done, SInv, IInv, TypeOK, OneHandler
<1>9. order[me.order].due # NoOne => me.due = order[me.order].due
  BY <1>1 DEF Fresh
<1> HIDE DEF mail
<1>10. (\A g \in Handlers : Fresh(handler[g]))'
  BY <1>5, <1>7, <1>8, <1>9, IdleSilent DEF Fresh, Silent
<1> QED BY <1>6, <1>10 DEF SInv

LEMMA MailSerial ==
  ASSUME SInv, IInv', OneHandler, NEW h \in Handlers, Mail(h)
  PROVE  SInv'
<1> DEFINE me == handler[h]
           bill == [me EXCEPT !.step = "bill"]
<1>1. /\ me \in Locals /\ me.order \in Orders /\ me.step = "mail"
      /\ me.invoice = order[me.order].invoice /\ UNCHANGED order /\ Fresh(me)
  BY DEF SInv, IInv, TypeOK, LocalOK, Mail, Fresh
<1>2. mailed' = [mailed EXCEPT ![me.order] = @ \cup {me.invoice}]
  BY DEF Mail
<1>3. OneInvoice'
  BY <1>1, <1>2 DEF SInv, IInv, TypeOK, OneInvoice
<1>4. /\ bill.step = "bill" /\ bill.order = me.order /\ bill.invoice = me.invoice
      /\ bill.due = me.due
  BY <1>1 DEF Locals
<1>5. \A g \in Handlers : handler'[g] = bill
  BY DEF Mail, Keep, SInv, IInv, TypeOK, OneHandler
<1> HIDE DEF bill
<1>6. (\A g \in Handlers : Fresh(handler[g]))'
  BY <1>1, <1>4, <1>5 DEF Fresh
<1> QED BY <1>3, <1>6 DEF SInv

\* What the update that bills an order does to the due dates.
LEMMA BillDoes ==
  ASSUME SInv, NEW h \in Handlers, Bill(h)
  PROVE  /\ UNCHANGED mailed /\ Done(h)
         /\ \A p \in Orders : /\ order'[p].invoice = order[p].invoice
                              /\ order[p].due # NoOne => order'[p].due = order[p].due
<1> DEFINE me == handler[h]
<1>1. /\ me.order \in Orders /\ me.step = "bill" /\ Fresh(me)
      /\ order \in [Orders -> OrderRow] /\ order[me.order] \in OrderRow
  BY DEF SInv, IInv, TypeOK, LocalOK, Bill
<1>2. /\ order'[me.order].invoice = order[me.order].invoice
      /\ order'[me.order].due = (IF me.due = NoOne THEN now ELSE me.due)
      /\ \A p \in Orders : p # me.order => order'[p] = order[p]
  BY <1>1 DEF Bill, OrderRow
<1>3. order[me.order].due # NoOne => me.due = order[me.order].due
  BY <1>1 DEF Fresh
<1> QED BY <1>1, <1>2, <1>3 DEF Bill

LEMMA BillSerial ==
  ASSUME SInv, IInv', OneHandler, NEW h \in Handlers, Bill(h)
  PROVE  SInv'
<1>1. UNCHANGED mailed /\ Done(h) /\ \A p \in Orders : order'[p].invoice = order[p].invoice
  BY BillDoes
<1>2. \A g \in Handlers : handler'[g] = Idle
  BY <1>1 DEF Done, Keep, SInv, IInv, TypeOK, OneHandler
<1>3. (\A g \in Handlers : Fresh(handler[g]))'
  BY <1>2, IdleSilent DEF Fresh, Silent
<1>4. OneInvoice'
  BY <1>1 DEF SInv, OneInvoice
<1> QED BY <1>3, <1>4 DEF SInv

\* The other steps of requests.
OtherStep(h) ==
  \/ \E o \in Orders : MarkPaidRead(h, o) \/ CancelRead(h, o) \/ ClientCancelRead(h, o)
  \/ MarkPaidWrite(h) \/ CancelWrite(h) \/ ClientCancelWrite(h) \/ Abort(h)

\* The steps of no request.
FreeStep == (\E o \in Orders : OrderStep(o)) \/ Tick

LEMMA OtherQuiet ==
  ASSUME SInv, NEW h \in Handlers, OtherStep(h)
  PROVE  Quiet
<1>1. order \in [Orders -> OrderRow]
  BY DEF SInv, IInv, TypeOK
<1>2. CASE Abort(h) \/ \E o \in Orders : MarkPaidRead(h, o) \/ CancelRead(h, o) \/ ClientCancelRead(h, o)
  BY <1>2 DEF MarkPaidRead, CancelRead, ClientCancelRead, Abort, Read, Quiet
<1>3. CASE MarkPaidWrite(h) \/ ClientCancelWrite(h)
  BY <1>1, <1>3 DEF MarkPaidWrite, ClientCancelWrite, SetStatus, Quiet, OrderRow
<1>4. CASE CancelWrite(h)
  BY <1>1, <1>4 DEF CancelWrite, Quiet, OrderRow
<1> QED BY <1>2, <1>3, <1>4 DEF OtherStep

LEMMA FreeQuiet ==
  ASSUME SInv, FreeStep
  PROVE  Quiet /\ UNCHANGED handler
<1>1. order \in [Orders -> OrderRow]
  BY DEF SInv, IInv, TypeOK
<1>2. CASE \E o \in Orders : Deliver(o)
  BY <1>1, <1>2 DEF Deliver, SetStatus, Quiet, OrderRow
<1>3. CASE \E o \in Orders, c \in Carriers : Accept(o, c)
  BY <1>1, <1>3 DEF Accept, Quiet, OrderRow
<1>4. CASE Tick
  BY <1>4 DEF Tick, Quiet
<1>5. CASE \E o \in Orders : Delete(o)
  BY <1>1, <1>5 DEF Delete, Quiet, OrderRow
<1>6. CASE \E o \in Orders, a \in Carriers \cup {NoOne} : Archive(o, a)
  BY <1>1, <1>6 DEF Archive, Quiet, OrderRow
<1>7. CASE \E o \in Orders, p \in BOOLEAN : SetPublished(o, p)
  BY <1>1, <1>7 DEF SetPublished, Quiet, OrderRow
<1> QED BY <1>2, <1>3, <1>4, <1>5, <1>6, <1>7 DEF FreeStep, OrderStep

LEMMA OtherSerial ==
  ASSUME SInv, IInv', OneHandler, NEW h \in Handlers, OtherStep(h)
  PROVE  SInv'
<1>1. Quiet
  BY OtherQuiet
<1>2. CASE MarkPaidWrite(h) \/ CancelWrite(h) \/ ClientCancelWrite(h) \/ Abort(h)
  <2>1. Keep(h, Idle)
    BY <1>2 DEF MarkPaidWrite, CancelWrite, ClientCancelWrite, Abort, Done
  <2> QED BY <1>1, <2>1, IdleSilent, SilentSerial
<1>3. CASE \E o \in Orders : MarkPaidRead(h, o) \/ CancelRead(h, o) \/ ClientCancelRead(h, o)
  <2>1. PICK o \in Orders, s \in {"pay", "release", "cancel"} : Keep(h, StepLocals(s, o))
    BY <1>3 DEF MarkPaidRead, CancelRead, ClientCancelRead, Read, StepLocals
  <2>2. StepLocals(s, o).step = s
    BY DEF StepLocals, Idle
  <2>3. Silent(StepLocals(s, o))
    BY <2>2 DEF Silent
  <2> QED BY <1>1, <2>1, <2>3, SilentSerial
<1> QED BY <1>2, <1>3 DEF OtherStep

LEMMA SerialInit == Init => SInv
<1> SUFFICES ASSUME Init PROVE SInv
  OBVIOUS
<1>1. OneInvoice
  BY DEF Init, OneInvoice
<1>2. \A g \in Handlers : Fresh(handler[g])
  BY IdleSilent DEF Init, Fresh, Silent
<1> QED BY <1>1, <1>2, InitInv DEF SInv

LEMMA Kinds ==
  ASSUME [Next]_vars
  PROVE  \/ UNCHANGED vars
         \/ FreeStep
         \/ \E h \in Handlers :
              \/ \E o \in Orders, send \in BOOLEAN, asked \in Times \cup {NoOne} :
                   InvoiceRead(h, o, send, asked)
              \/ SaveInvoice(h) \/ Mail(h) \/ Bill(h) \/ OtherStep(h)
<1>1. CASE UNCHANGED vars \/ FreeStep
  BY <1>1
<1>2. CASE \E h \in Handlers : Step(h)
  BY <1>2 DEF Step, OtherStep
<1> QED BY <1>1, <1>2 DEF Next, FreeStep

LEMMA SerialNext == OneHandler /\ SInv /\ [Next]_vars => SInv'
<1> SUFFICES ASSUME OneHandler, SInv, [Next]_vars PROVE SInv'
  OBVIOUS
<1>1. IInv'
  BY NextInv DEF SInv
<1>2. CASE UNCHANGED vars
  BY <1>1, <1>2, UnchangedSerial DEF vars, Quiet
<1>3. CASE FreeStep
  BY <1>1, <1>3, FreeQuiet, UnchangedSerial
<1>4. ASSUME NEW h \in Handlers, SaveInvoice(h) \/ Mail(h) \/ Bill(h) \/ OtherStep(h)
      PROVE  SInv'
  BY <1>1, <1>4, SaveInvoiceSerial, MailSerial, BillSerial, OtherSerial
<1>5. ASSUME NEW h \in Handlers, NEW o \in Orders, NEW send \in BOOLEAN,
             NEW asked \in Times \cup {NoOne}, InvoiceRead(h, o, send, asked)
      PROVE  SInv'
  BY <1>1, <1>5, InvoiceReadSerial
<1> QED BY <1>2, <1>3, <1>4, <1>5, Kinds

\* With one request at a time, the invoice a request has made or found is the
\* one its order names (order.service.ts:2194-2265).
THEOREM SerialInvariance ==
  ASSUME OneHandler
  PROVE  Spec => []SInv
<1>1. SInv /\ [Next]_vars => SInv'
  BY SerialNext
<1> QED BY <1>1, SerialInit, PTL DEF Spec

\* With one request at a time the mails of an order carry one invoice, the
\* one it names, wherever an attempt to send it was cut off.
THEOREM OneInvoiceHolds ==
  ASSUME OneHandler
  PROVE  Spec => []OneInvoice
<1>1. SInv => OneInvoice
  BY DEF SInv
<1> QED BY <1>1, SerialInvariance, PTL

LEMMA DueKept ==
  ASSUME SInv, [Next]_vars
  PROVE  \A o \in Orders : order[o].due # NoOne => order'[o].due = order[o].due
<1>1. CASE UNCHANGED vars
  BY <1>1 DEF vars
<1>2. CASE FreeStep \/ \E h \in Handlers : OtherStep(h)
  BY <1>2, FreeQuiet, OtherQuiet DEF Quiet
<1>3. CASE \E h \in Handlers : Bill(h)
  BY <1>3, BillDoes
<1>4. CASE \E h \in Handlers : SaveInvoice(h)
  BY <1>4 DEF SaveInvoice, SInv, IInv, TypeOK, OrderRow
<1>5. CASE \E h \in Handlers : Mail(h)
  BY <1>5 DEF Mail
<1>6. CASE \E h \in Handlers, o \in Orders, send \in BOOLEAN, asked \in Times \cup {NoOne} :
             InvoiceRead(h, o, send, asked)
  BY <1>6 DEF InvoiceRead, Read
<1> QED BY <1>1, <1>2, <1>3, <1>4, <1>5, <1>6, Kinds

\* With one request at a time a due date that was set is never moved.
THEOREM DueDateKeptHolds ==
  ASSUME OneHandler
  PROVE  Spec => DueDateKept
<1>1. SInv /\ [Next]_vars =>
        [\A o \in Orders : order[o].due # NoOne => order'[o].due = order[o].due]_vars
  BY DueKept
<1> QED BY <1>1, SerialInvariance, PTL DEF Spec, DueDateKept

-----------------------------------------------------------------------------
(* Sums over finite sets. *)

\* A set of subsets of a finite set has a least one.
LEMMA SmallestSubset ==
  ASSUME NEW U, IsFiniteSet(U), NEW B \in SUBSET (SUBSET U), B # {}
  PROVE  \E S \in B : \A x \in S : S \ {x} \notin B
<1>1. B \subseteq FiniteSubsetsOf(U)
  BY FS_Subset DEF FiniteSubsetsOf
<1>2. PICK S \in B : \A T \in B : ~ (<<T, S>> \in StrictSubsetOrdering(U))
  <2> HIDE DEF StrictSubsetOrdering
  <2> QED BY <1>1, FS_StrictSubsetOrderingWellFounded, WFMin
<1>3. ASSUME NEW x \in S, S \ {x} \in B PROVE FALSE
  BY <1>2, <1>3 DEF StrictSubsetOrdering
<1> QED BY <1>3

\* The element that the library's sum takes next.
Pick(s) == CHOOSE x \in s : TRUE

\* it sums the weights w over the subsets of S, one picked element at a time.
AddsUp(w, S, it) ==
  it = [s \in SUBSET S |-> IF s = {} THEN 0 ELSE w[Pick(s)] + it[s \ {Pick(s)}]]

\* g sums the weights w over the subsets of U, whatever element is added last.
Totals(w, U, g) ==
  /\ w \in [U -> Int] /\ g \in [SUBSET U -> Int]
  /\ g[{}] = 0
  /\ \A S \in SUBSET U : \A x \in S : g[S] = w[x] + g[S \ {x}]

Within(g, S) == [s \in SUBSET S |-> g[s]]

LEMMA PickIn == ASSUME NEW s, s # {} PROVE Pick(s) \in s
BY DEF Pick

\* There is one such sum, and picking is no part of it.
LEMMA FoldIsTotal ==
  ASSUME NEW U, IsFiniteSet(U), NEW w, NEW g, Totals(w, U, g), NEW S \in SUBSET U, NEW it
  PROVE  AddsUp(w, S, it) <=> it = Within(g, S)
<1>1. ASSUME AddsUp(w, S, it) PROVE it = Within(g, S)
  <2> DEFINE B == {s \in SUBSET S : it[s] # g[s]}
  <2>1. \A s \in SUBSET S : it[s] = IF s = {} THEN 0 ELSE w[Pick(s)] + it[s \ {Pick(s)}]
    BY <1>1 DEF AddsUp
  <2>2. ASSUME NEW s \in B, \A x \in s : s \ {x} \notin B PROVE FALSE
    <3>1. s # {}
      BY <2>1, <2>2 DEF Totals
    <3>2. Pick(s) \in s /\ s \ {Pick(s)} \in SUBSET S
      BY <3>1, PickIn
    <3>3. it[s \ {Pick(s)}] = g[s \ {Pick(s)}]
      BY <2>2, <3>2
    <3>4. g[s] = w[Pick(s)] + g[s \ {Pick(s)}]
      BY <3>2 DEF Totals
    <3> QED BY <2>1, <2>2, <3>1, <3>3, <3>4
  <2>3. IsFiniteSet(S)
    BY FS_Subset
  <2>4. B = {}
    BY <2>2, <2>3, SmallestSubset
  <2> QED BY <1>1, <2>4 DEF AddsUp, Within
<1>2. ASSUME it = Within(g, S) PROVE AddsUp(w, S, it)
  <2>1. ASSUME NEW s \in SUBSET S
        PROVE  g[s] = IF s = {} THEN 0 ELSE w[Pick(s)] + it[s \ {Pick(s)}]
    BY <1>2, PickIn DEF Totals, Within
  <2> QED BY <1>2, <2>1 DEF AddsUp, Within
<1> QED BY <1>1, <1>2

\* The union of the sets D[u].
Together(D, S) == UNION {D[u] : u \in S}

LEMMA TogetherFinite ==
  ASSUME NEW U, IsFiniteSet(U), NEW D, \A u \in U : IsFiniteSet(D[u]), NEW S \in SUBSET U
  PROVE  IsFiniteSet(Together(D, S))
<1>1. IsFiniteSet(S)
  BY FS_Subset
<1>2. IsFiniteSet({D[u] : u \in S})
  <2> DEFINE f == [u \in S |-> D[u]]
  <2>1. f \in Surjection(S, {D[u] : u \in S})
    BY DEF Surjection
  <2> QED BY <1>1, <2>1, FS_Surjection
<1> QED BY <1>2, FS_UNION DEF Together

\* The cardinalities of disjoint sets add up to that of their union: this is
\* the sum that an induction would construct.
LEMMA Counted ==
  ASSUME NEW U, IsFiniteSet(U), NEW D, \A u \in U : IsFiniteSet(D[u]),
         \A u, v \in U : u # v => D[u] \cap D[v] = {}
  PROVE  Totals([u \in U |-> Cardinality(D[u])], U, [S \in SUBSET U |-> Cardinality(Together(D, S))])
<1> DEFINE w == [u \in U |-> Cardinality(D[u])]
           g == [S \in SUBSET U |-> Cardinality(Together(D, S))]
<1>1. ASSUME NEW S \in SUBSET U PROVE IsFiniteSet(Together(D, S))
  BY TogetherFinite
<1>2. w \in [U -> Int]
  BY FS_CardinalityType
<1>3. g \in [SUBSET U -> Int]
  BY <1>1, FS_CardinalityType
<1>4. g[{}] = 0
  <2>1. Together(D, {}) = {}
    BY DEF Together
  <2> QED BY <2>1, FS_EmptySet
<1>5. ASSUME NEW S \in SUBSET U, NEW x \in S PROVE g[S] = w[x] + g[S \ {x}]
  <2>1. Together(D, S) = D[x] \cup Together(D, S \ {x})
    BY DEF Together
  <2>2. D[x] \cap Together(D, S \ {x}) = {}
    BY DEF Together
  <2>3. IsFiniteSet(D[x]) /\ IsFiniteSet(Together(D, S \ {x}))
    BY <1>1
  <2>4. Cardinality(D[x] \cup Together(D, S \ {x}))
          = Cardinality(D[x]) + Cardinality(Together(D, S \ {x}))
    <3> DEFINE A == D[x]
               C == Together(D, S \ {x})
    <3>1. Cardinality(A) \in Nat /\ Cardinality(C) \in Nat
      BY <2>3, FS_CardinalityType
    <3>2. Cardinality(A \cap C) = 0
      BY <2>2, FS_EmptySet, Zenon
    <3> HIDE DEF A, C
    <3>3. IsFiniteSet(A) /\ IsFiniteSet(C)
      BY <2>3 DEF A, C
    <3>4. Cardinality(A \cup C) = Cardinality(A) + Cardinality(C) - Cardinality(A \cap C)
      BY <3>3, FS_Union
    <3>5. Cardinality(A \cup C) = Cardinality(A) + Cardinality(C)
      BY <3>1, <3>2, <3>4
    <3> QED BY <3>5 DEF A, C
  <2>5. g[S] = Cardinality(Together(D, S)) /\ g[S \ {x}] = Cardinality(Together(D, S \ {x}))
        /\ w[x] = Cardinality(D[x])
    OBVIOUS
  <2> QED BY <2>1, <2>4, <2>5
<1> QED BY <1>2, <1>3, <1>4, <1>5 DEF Totals

\* n copies of u.
LEMMA Column ==
  ASSUME NEW u, NEW n \in Nat
  PROVE  IsFiniteSet({u} \X (1..n)) /\ Cardinality({u} \X (1..n)) = n
<1>1. IsFiniteSet(1..n) /\ Cardinality(1..n) = IF 1 > n THEN 0 ELSE n - 1 + 1
  BY FS_Interval
<1>2. Cardinality(1..n) = n
  BY <1>1
<1>3. IsFiniteSet({u}) /\ Cardinality({u}) = 1
  BY FS_Singleton
<1>4. IsFiniteSet({u} \X (1..n)) /\ Cardinality({u} \X (1..n)) = Cardinality({u}) * Cardinality(1..n)
  BY <1>1, <1>3, FS_Product, Zenon
<1> QED BY <1>2, <1>3, <1>4

-----------------------------------------------------------------------------
\* A dollar of an order: the revenue of some orders counts them.
Coins == [o \in Orders |-> {o} \X (1..order[o].price)]
CoinsOf(X) == Together(Coins, X)

LEMMA CoinsFinite ==
  ASSUME IsFiniteSet(Orders), TypeOK
  PROVE  /\ \A o \in Orders : IsFiniteSet(Coins[o]) /\ Cardinality(Coins[o]) = order[o].price
         /\ \A o, p \in Orders : o # p => Coins[o] \cap Coins[p] = {}
         /\ \A X \in SUBSET Orders : IsFiniteSet(CoinsOf(X))
<1>1. ASSUME NEW o \in Orders PROVE IsFiniteSet(Coins[o]) /\ Cardinality(Coins[o]) = order[o].price
  <2>1. order[o].price \in Nat
    BY PricesAssumption DEF TypeOK, OrderRow
  <2> QED BY <2>1, Column DEF Coins
<1>2. ASSUME NEW o \in Orders, NEW p \in Orders, o # p PROVE Coins[o] \cap Coins[p] = {}
  BY <1>2 DEF Coins
<1>3. ASSUME NEW X \in SUBSET Orders PROVE IsFiniteSet(CoinsOf(X))
  BY <1>1, TogetherFinite DEF CoinsOf
<1> QED BY <1>1, <1>2, <1>3

\* The library's sum of the prices of X is how many coins they are.
LEMMA SumCounts ==
  ASSUME IsFiniteSet(Orders), TypeOK, NEW X \in SUBSET Orders
  PROVE  Sum(X) = Cardinality(CoinsOf(X))
<1> DEFINE w == [o \in Orders |-> Cardinality(Coins[o])]
           g == [S \in SUBSET Orders |-> Cardinality(CoinsOf(S))]
           Iter(it) == it = [s \in SUBSET X |->
                               IF s = {} THEN 0 ELSE order[Pick(s)].price + it[s \ {Pick(s)}]]
<1>1. Sum(X) = (CHOOSE it : Iter(it))[X]
  BY DEF Sum, MapThenSumSet, MapThenFoldSet, Pick
<1>2. Totals(w, Orders, g)
  <2>1. Totals([o \in Orders |-> Cardinality(Coins[o])], Orders,
               [S \in SUBSET Orders |-> Cardinality(Together(Coins, S))])
    BY CoinsFinite, Counted
  <2> QED BY <2>1 DEF CoinsOf
<1>3. ASSUME NEW it PROVE Iter(it) <=> it = Within(g, X)
  <2>1. \A s \in SUBSET X : s # {} => w[Pick(s)] = order[Pick(s)].price
    BY PickIn, CoinsFinite
  <2> HIDE DEF w, g
  <2>2. Iter(it) <=> AddsUp(w, X, it)
    BY <2>1 DEF AddsUp
  <2>3. AddsUp(w, X, it) <=> it = Within(g, X)
    BY <1>2, FoldIsTotal
  <2> QED BY <2>2, <2>3
<1> HIDE DEF Iter
<1>4. Iter(Within(g, X))
  BY <1>3
<1>5. Iter(CHOOSE it : Iter(it))
  BY <1>4
<1>6. (CHOOSE it : Iter(it)) = Within(g, X)
  BY <1>3, <1>5
<1> QED BY <1>1, <1>6 DEF Within

\* Orders without a shipper are a group of their own.
Groups == Shippers \cup {NoOne}
OfShipper(X, s) == {o \in X : order[o].shipper = s}
Figures == {"revenue", "paid", "due", "pastDue"}

\* A figure of the report by shipper adds up, over the groups, to the sum
\* over all the orders it counts.
LEMMA GroupsAddUp ==
  ASSUME IsFiniteSet(Orders), IsFiniteSet(Shippers), TypeOK,
         NEW c, NEW f \in Figures, NEW X \in SUBSET Orders,
         \A s \in Groups : ShipperReport(c, s)[f] = Sum(OfShipper(X, s))
  PROVE  OfShippers(c)[f] = Sum(X)
<1> DEFINE D == [s \in Groups |-> CoinsOf(OfShipper(X, s))]
           w == [s \in Groups |-> Cardinality(D[s])]
           g == [S \in SUBSET Groups |-> Cardinality(Together(D, S))]
           Iter(it) == it = [t \in SUBSET Groups |->
                               IF t = {} THEN 0
                               ELSE ShipperReport(c, Pick(t))[f] + it[t \ {Pick(t)}]]
<1>1. OfShippers(c)[f] = (CHOOSE it : Iter(it))[Groups]
  BY DEF OfShippers, MapThenSumSet, MapThenFoldSet, Pick, Groups, Figures
<1>2. IsFiniteSet(Groups)
  BY FS_AddElement DEF Groups
<1>3. Totals(w, Groups, g)
  <2>1. \A s \in Groups : IsFiniteSet(D[s])
    BY CoinsFinite DEF OfShipper
  <2>2. \A s, t \in Groups : s # t => D[s] \cap D[t] = {}
    BY CoinsFinite DEF OfShipper, CoinsOf, Together
  <2> HIDE DEF D
  <2> QED BY <1>2, <2>1, <2>2, Counted
<1>4. ASSUME NEW it PROVE Iter(it) <=> it = Within(g, Groups)
  <2>1. \A t \in SUBSET Groups : t # {} => w[Pick(t)] = ShipperReport(c, Pick(t))[f]
    <3>1. ASSUME NEW s \in Groups PROVE w[s] = ShipperReport(c, s)[f]
      <4>1. OfShipper(X, s) \in SUBSET Orders
        BY DEF OfShipper
      <4> QED BY <4>1, SumCounts
    <3> HIDE DEF w
    <3> QED BY <3>1, PickIn
  <2> HIDE DEF w, g
  <2>2. Iter(it) <=> AddsUp(w, Groups, it)
    BY <2>1 DEF AddsUp
  <2>3. AddsUp(w, Groups, it) <=> it = Within(g, Groups)
    BY <1>2, <1>3, FoldIsTotal
  <2> QED BY <2>2, <2>3
<1> HIDE DEF Iter
<1>5. Iter(Within(g, Groups))
  BY <1>4
<1>6. Iter(CHOOSE it : Iter(it))
  BY <1>5
<1>7. (CHOOSE it : Iter(it)) = Within(g, Groups)
  BY <1>4, <1>6
<1>8. Together(D, Groups) = CoinsOf(X)
  <2>1. \A o \in X : order[o].shipper \in Groups
    BY DEF Groups, TypeOK, OrderRow
  <2>2. \A k : k \in CoinsOf(X) <=> \E o \in X : k \in Coins[o]
    BY DEF CoinsOf, Together
  <2>3. \A k : k \in Together(D, Groups) <=> \E s \in Groups : \E o \in OfShipper(X, s) : k \in Coins[o]
    BY DEF CoinsOf, Together
  <2>4. \A k : k \in Together(D, Groups) <=> k \in CoinsOf(X)
    BY <2>1, <2>2, <2>3 DEF OfShipper
  <2> QED BY <2>4
<1>9. OfShippers(c)[f] = Cardinality(CoinsOf(X))
  BY <1>1, <1>7, <1>8 DEF Within
<1> QED BY <1>9, SumCounts

LEMMA SumIsNat ==
  ASSUME IsFiniteSet(Orders), TypeOK, NEW X \in SUBSET Orders PROVE Sum(X) \in Nat
BY SumCounts, CoinsFinite, FS_CardinalityType

\* Each figure is a sum over one set of orders, in both reports.
LEMMA ReportsAgreeNow ==
  ASSUME IsFiniteSet(Orders), IsFiniteSet(Shippers), TypeOK
  PROVE  ReportsAgree
<1> SUFFICES ASSUME NEW c \in Carriers
             PROVE LET all == GeneralReport(c)
    IN  /\ all.revenue = OfShippers(c).revenue
        /\ all.paid = OfShippers(c).paid
        /\ all.due + all.pastDue = OfShippers(c).due + OfShippers(c).pastDue
        /\ (\A o \in OwnOrders(c) : order[o].status # "canceled" /\ Shown(o))
             => OfShippers(c).pastDue = Sum(PastDue(c))
  BY DEF ReportsAgree
<1> DEFINE own == OwnOrders(c)
           later == {o \in Unpaid(own) : DueAfterNow(o)}
           sooner == {o \in Unpaid(own) : DueBeforeNow(o)}
<1>1. /\ own \in SUBSET Orders /\ Paid(own) \in SUBSET Orders
      /\ later \in SUBSET Orders /\ sooner \in SUBSET Orders
  BY DEF OwnOrders, Paid, Unpaid
<1>2. OfShippers(c)["revenue"] = Sum(own)
  <2>1. ASSUME NEW s \in Groups PROVE ShipperReport(c, s)["revenue"] = Sum(OfShipper(own, s))
    BY DEF ShipperReport, OfShipper
  <2> QED BY <1>1, <2>1, GroupsAddUp DEF Figures
<1>3. OfShippers(c)["paid"] = Sum(Paid(own))
  <2>1. ASSUME NEW s \in Groups PROVE ShipperReport(c, s)["paid"] = Sum(OfShipper(Paid(own), s))
    <3>1. OfShipper(Paid(own), s) = Paid({o \in own : order[o].shipper = s})
      BY DEF OfShipper, Paid
    <3> QED BY <3>1 DEF ShipperReport
  <2> QED BY <1>1, <2>1, GroupsAddUp DEF Figures
<1>4. OfShippers(c)["due"] = Sum(later)
  <2>1. ASSUME NEW s \in Groups PROVE ShipperReport(c, s)["due"] = Sum(OfShipper(later, s))
    <3>1. OfShipper(later, s) = {o \in Unpaid({p \in own : order[p].shipper = s}) : DueAfterNow(o)}
      BY DEF OfShipper, Unpaid
    <3> QED BY <3>1 DEF ShipperReport
  <2> QED BY <1>1, <2>1, GroupsAddUp DEF Figures
<1>5. OfShippers(c)["pastDue"] = Sum(sooner)
  <2>1. ASSUME NEW s \in Groups PROVE ShipperReport(c, s)["pastDue"] = Sum(OfShipper(sooner, s))
    <3>1. OfShipper(sooner, s) = {o \in Unpaid({p \in own : order[p].shipper = s}) : DueBeforeNow(o)}
      BY DEF OfShipper, Unpaid
    <3> QED BY <3>1 DEF ShipperReport
  <2> QED BY <1>1, <2>1, GroupsAddUp DEF Figures
<1>6. ASSUME \A o \in own : order[o].status # "canceled" /\ Shown(o) PROVE sooner = PastDue(c)
  BY <1>6 DEF PastDue, OwnOrders, Unpaid
<1>7. /\ GeneralReport(c).revenue = Sum(own) /\ GeneralReport(c).paid = Sum(Paid(own))
      /\ GeneralReport(c).pastDue = Sum(later) /\ GeneralReport(c).due = Sum(sooner)
  BY DEF GeneralReport
<1>8. Sum(later) \in Nat /\ Sum(sooner) \in Nat
  BY <1>1, SumIsNat
<1> HIDE DEF own, later, sooner
<1> QED BY <1>2, <1>3, <1>4, <1>5, <1>6, <1>7, <1>8 DEF own

\* Whatever requests overlap, and for any finite number of orders and
\* shippers, the general report and the report by shipper add up to the same
\* figures, and to the list of what is past due if it leaves out no order of
\* the carrier (order.repository.ts, getGeneralReport and getByShipperReport).
THEOREM ReportsAgreeHolds ==
  Spec => []ReportsAgree
<1>1. TypeOK => ReportsAgree
  BY ReportsAgreeNow, TablesAssumption
<1> QED BY <1>1, TypeCorrect, PTL

\* Integers add up over every finite set: the sum of the positive ones less
\* that of the negative ones, each counted.
LEMMA SumExists ==
  ASSUME NEW U, IsFiniteSet(U), NEW w \in [U -> Int]
  PROVE  \E g : Totals(w, U, g)
<1> DEFINE Pos(n) == IF n > 0 THEN n ELSE 0
           up == [u \in U |-> Pos(w[u])]
           down == [u \in U |-> Pos(0 - w[u])]
<1>1. ASSUME NEW n \in [U -> Nat] PROVE \E g : Totals(n, U, g)
  <2> DEFINE D == [u \in U |-> {u} \X (1..n[u])]
  <2>1. \A u \in U : IsFiniteSet(D[u]) /\ Cardinality(D[u]) = n[u]
    BY Column
  <2>2. \A u, v \in U : u # v => D[u] \cap D[v] = {}
    OBVIOUS
  <2> DEFINE count == [u \in U |-> Cardinality(D[u])]
  <2>3. count = n
    BY <2>1
  <2> HIDE DEF D
  <2>4. \E g : Totals(count, U, g)
    BY <2>1, <2>2, Counted
  <2> QED BY <2>3, <2>4
<1>2. up \in [U -> Nat] /\ down \in [U -> Nat]
  OBVIOUS
<1>3. PICK a, b : Totals(up, U, a) /\ Totals(down, U, b)
  <2> HIDE DEF up, down
  <2> QED BY <1>1, <1>2
<1> DEFINE g == [S \in SUBSET U |-> a[S] - b[S]]
<1>4. \A u \in U : w[u] = up[u] - down[u]
  OBVIOUS
<1> HIDE DEF up, down
<1>5. a \in [SUBSET U -> Int] /\ b \in [SUBSET U -> Int] /\ a[{}] = 0 /\ b[{}] = 0
  BY <1>3 DEF Totals
<1>6. g \in [SUBSET U -> Int] /\ g[{}] = 0
  BY <1>5
<1>7. ASSUME NEW S \in SUBSET U, NEW x \in S PROVE g[S] = w[x] + g[S \ {x}]
  <2>1. a[S] = up[x] + a[S \ {x}] /\ b[S] = down[x] + b[S \ {x}]
    BY <1>3 DEF Totals
  <2>2. up[x] \in Nat /\ down[x] \in Nat /\ S \ {x} \in SUBSET U
    BY <1>2
  <2> QED BY <1>4, <1>5, <2>1, <2>2
<1> QED BY <1>6, <1>7 DEF Totals

-----------------------------------------------------------------------------
(* Prices: sums over cars and extras. *)

\* What the assumptions say, unfolded.
LEMMA Facts ==
  /\ NoOne \notin Rates \cup {HandPrice} /\ HandPrice \in Nat
  /\ Optional \subseteq Extras /\ Trailers \subseteq BOOLEAN
  /\ Discounts \subseteq Percents
  /\ Miles \in [Routes -> Nat] /\ Rates \subseteq Nat /\ Dollar \in Rates
  /\ Terms # {} /\ Terms \subseteq TermsRow
  /\ IsFiniteSet(Cars) /\ IsFiniteSet(Extras)
BY NoPriceAssumption, ExtrasAssumption, DiscountsAssumption, RoutesAssumption, RatesAssumption,
   TermsAssumption, CarsAssumption

\* The price of a car and of a list of cars under given settings and rate.
CarPriceAt(st, r, extras, enclosed, miles) ==
  LET fare == miles * RatePerMile(r, miles)
      more == MapThenSumSet(LAMBDA e : st.extra[e], extras)
                + (IF enclosed THEN st.enclosed ELSE 0)
  IN  fare + Percent(fare, more)

CarsPriceAt(st, r, list, enclosed, miles) ==
  LET price == MapThenSumSet(LAMBDA c : CarPriceAt(st, r, list[c], enclosed, miles), DOMAIN list)
  IN  Max({price, st.minimalSale + st.fee})

\* Prices depend on nothing else of the state.
LEMMA PricedAtNow ==
  \A list, enclosed, miles :
    CarsDeliveryPrice(list, enclosed, miles) = CarsPriceAt(settings, rate, list, enclosed, miles)
BY DEF CarsDeliveryPrice, CarPrice, CarsPriceAt, CarPriceAt

LEMMA PricedAt ==
  /\ \A list, enclosed, miles :
       CarsDeliveryPrice(list, enclosed, miles) = CarsPriceAt(settings, rate, list, enclosed, miles)
  /\ \A list, enclosed, miles :
       CarsDeliveryPrice(list, enclosed, miles)' = CarsPriceAt(settings', rate', list, enclosed, miles)
<1>1. (\A list, enclosed, miles :
        CarsDeliveryPrice(list, enclosed, miles) = CarsPriceAt(settings, rate, list, enclosed, miles))'
  BY PricedAtNow, PTL
<1> QED BY <1>1, PricedAtNow

\* What the extras of a car add, in percent.
LEMMA ExtrasAdd ==
  ASSUME NEW st \in TermsRow, NEW extras \in SUBSET Extras
  PROVE  /\ MapThenSumSet(LAMBDA e : st.extra[e], extras) \in Int
         /\ extras = {} => MapThenSumSet(LAMBDA e : st.extra[e], extras) = 0
<1> DEFINE w == st.extra
           Iter(it) == it = [s \in SUBSET extras |->
                               IF s = {} THEN 0 ELSE st.extra[Pick(s)] + it[s \ {Pick(s)}]]
<1>1. MapThenSumSet(LAMBDA e : st.extra[e], extras) = (CHOOSE it : Iter(it))[extras]
  BY DEF MapThenSumSet, MapThenFoldSet, Pick
<1>2. w \in [Extras -> Int]
  BY DEF TermsRow, Percents
<1>3. PICK g : Totals(w, Extras, g)
  BY Facts, <1>2, SumExists
<1>4. ASSUME NEW it PROVE Iter(it) <=> it = Within(g, extras)
  <2>1. Iter(it) <=> AddsUp(w, extras, it)
    BY DEF AddsUp
  <2>2. AddsUp(w, extras, it) <=> it = Within(g, extras)
    BY Facts, <1>3, FoldIsTotal
  <2> QED BY <2>1, <2>2
<1> HIDE DEF Iter
<1>5. Iter(Within(g, extras))
  BY <1>4
<1>6. (CHOOSE it : Iter(it)) = Within(g, extras)
  BY <1>4, <1>5
<1>7. g[extras] \in Int /\ g[{}] = 0
  BY <1>3 DEF Totals
<1> QED BY <1>1, <1>6, <1>7 DEF Within

\* What one car costs is a number; a rebate or an extra may be negative.
LEMMA CarPriceInt ==
  ASSUME NEW st \in TermsRow, NEW r \in Nat, NEW extras \in SUBSET Extras,
         NEW enclosed \in BOOLEAN, NEW miles \in Nat
  PROVE  CarPriceAt(st, r, extras, enclosed, miles) \in Int
<1>1. RatePerMile(r, miles) \in Int
  <2>1. Min({1000, miles - 900}) \in {1000, miles - 900}
    <3>1. \E x \in {1000, miles - 900} : \A y \in {1000, miles - 900} : x <= y
      OBVIOUS
    <3> QED BY <3>1 DEF Min
  <2> QED BY <2>1 DEF RatePerMile
<1>2. st.enclosed \in Int
  BY DEF TermsRow, Percents
<1> DEFINE fare == miles * RatePerMile(r, miles)
           more == MapThenSumSet(LAMBDA e : st.extra[e], extras)
                     + (IF enclosed THEN st.enclosed ELSE 0)
           added == MapThenSumSet(LAMBDA e : st.extra[e], extras)
<1>3. fare \in Int /\ more \in Int
  <2>1. added \in Int
    BY ExtrasAdd
  <2> HIDE DEF added
  <2>2. more = added + (IF enclosed THEN st.enclosed ELSE 0)
    BY DEF added
  <2>3. more \in Int
    BY <1>2, <2>1, <2>2
  <2> HIDE DEF more
  <2>4. fare \in Int
    BY <1>1
  <2> QED BY <2>3, <2>4
<1>4. CarPriceAt(st, r, extras, enclosed, miles) = fare + (fare \div 100) * more
  BY DEF CarPriceAt, Percent
<1> HIDE DEF fare, more
<1>5. fare \div 100 \in Int
  BY <1>3
<1> QED BY <1>3, <1>4, <1>5

\* What a list of cars costs is an amount, and not negative.
LEMMA CarsPriceNat ==
  ASSUME NEW st \in TermsRow, NEW r, NEW list, DOMAIN list \in SUBSET Cars,
         \A c \in DOMAIN list : list[c] \in SUBSET Extras, DOMAIN list # {} => r \in Nat,
         NEW enclosed \in BOOLEAN, NEW miles \in Nat
  PROVE  CarsPriceAt(st, r, list, enclosed, miles) \in Nat
<1> DEFINE U == DOMAIN list
           w == [c \in U |-> CarPriceAt(st, r, list[c], enclosed, miles)]
           price == MapThenSumSet(LAMBDA c : CarPriceAt(st, r, list[c], enclosed, miles), U)
           Iter(it) == it = [s \in SUBSET U |->
                               IF s = {} THEN 0
                               ELSE CarPriceAt(st, r, list[Pick(s)], enclosed, miles)
                                      + it[s \ {Pick(s)}]]
<1>1. price = (CHOOSE it : Iter(it))[U]
  BY DEF MapThenSumSet, MapThenFoldSet, Pick
<1>2. IsFiniteSet(U)
  BY Facts, FS_Subset
<1>3. w \in [U -> Int]
  BY CarPriceInt
<1>4. PICK g : Totals(w, U, g)
  BY <1>2, <1>3, SumExists
<1>5. ASSUME NEW it PROVE Iter(it) <=> it = Within(g, U)
  <2>1. \A s \in SUBSET U : s # {} => w[Pick(s)] = CarPriceAt(st, r, list[Pick(s)], enclosed, miles)
    BY PickIn
  <2> HIDE DEF w
  <2>2. Iter(it) <=> AddsUp(w, U, it)
    BY <2>1 DEF AddsUp
  <2> HIDE DEF U
  <2>3. AddsUp(w, U, it) <=> it = Within(g, U)
    BY <1>2, <1>4, FoldIsTotal
  <2> QED BY <2>2, <2>3
<1> HIDE DEF Iter
<1>6. (CHOOSE it : Iter(it)) = Within(g, U)
  <2>1. Iter(Within(g, U))
    BY <1>5
  <2> QED BY <1>5, <2>1
<1>7. price \in Int
  <2>1. g[U] \in Int
    BY <1>4 DEF Totals
  <2> QED BY <1>1, <1>6, <2>1 DEF Within
<1> DEFINE least == st.minimalSale + st.fee
<1>8. least \in Nat
  BY DEF TermsRow
<1>9. CarsPriceAt(st, r, list, enclosed, miles) = Max({price, least})
  BY DEF CarsPriceAt
<1> HIDE DEF price, least
<1>10. \E x \in {price, least} : \A y \in {price, least} : x >= y
  BY <1>7, <1>8
<1>11. Max({price, least}) \in {price, least} /\ Max({price, least}) >= least
  BY <1>10 DEF Max
<1> QED BY <1>7, <1>8, <1>9, <1>11

\* A plain car costs its miles.
LEMMA PlainCar ==
  ASSUME settings \in Terms, NEW miles \in Nat, NEW n \in Int,
         RatePerMile(rate, miles) = n
  PROVE  CarPrice({}, FALSE, miles) = miles * n
<1> DEFINE fare == miles * n
           added == MapThenSumSet(LAMBDA e : settings.extra[e], {})
<1>1. added = 0
  <2>1. settings \in TermsRow /\ {} \in SUBSET Extras
    BY Facts
  <2> QED BY <2>1, ExtrasAdd
<1>2. CarPrice({}, FALSE, miles) = fare + (fare \div 100) * (added + 0)
  BY DEF CarPrice, Percent
<1>3. fare \in Int
  OBVIOUS
<1> HIDE DEF fare, added
<1>4. fare \div 100 \in Int
  BY <1>3
<1>5. \A d \in Int : d * 0 = 0
  OBVIOUS
<1>6. (fare \div 100) * (added + 0) = 0
  BY <1>1, <1>4, <1>5
<1>7. fare + (fare \div 100) * (added + 0) = fare
  BY <1>3, <1>6
<1> QED BY <1>2, <1>7, Zenon DEF fare

\* What the rate of a mile loses on a way of m miles.
Rebate(m) == IF m < 900 THEN 0 ELSE IF m - 900 > 1000 THEN 17000 ELSE 17 * (m - 900)

LEMMA RebateOfMile ==
  ASSUME rate \in Nat, NEW m \in Nat
  PROVE  RatePerMile(rate, m) = rate - Rebate(m)
<1> DEFINE n == m - 900
<1>1. n \in Int
  OBVIOUS
<1> HIDE DEF n
<1>2. \E x \in {1000, n} : \A y \in {1000, n} : x <= y
  BY <1>1
<1>3. /\ Min({1000, n}) \in {1000, n}
      /\ \A y \in {1000, n} : Min({1000, n}) <= y
  BY <1>2 DEF Min
<1>4. Min({1000, n}) = IF n > 1000 THEN 1000 ELSE n
  BY <1>1, <1>3
<1> QED BY <1>4 DEF n, RatePerMile, Rebate

\* A mile costs more than any rebate on the next ones.
DearMiles == \A p \in Rates : p >= 37400

\* The nine ways that the property compares, one by one.
LEMMA LongerNeverCheaperNow ==
  ASSUME DearMiles, PricesTypeOK
  PROVE  LongerNeverCheaper
<1> SUFFICES ASSUME rate # NoOne
             PROVE  \A k \in 0..7 :
                      CarPrice({}, FALSE, 500 * k) <= CarPrice({}, FALSE, 500 * (k + 1))
  BY DEF LongerNeverCheaper
<1>1. settings \in Terms /\ rate \in Nat /\ rate >= 37400
  BY Facts DEF DearMiles, PricesTypeOK
<1>2. ASSUME NEW m \in Nat PROVE CarPrice({}, FALSE, m) = m * (rate - Rebate(m))
  <2> DEFINE n == rate - Rebate(m)
  <2>1. n \in Int
    BY <1>1 DEF Rebate
  <2>2. RatePerMile(rate, m) = n
    BY <1>1, RebateOfMile
  <2>3. settings \in Terms
    BY <1>1
  <2> HIDE DEF n
  <2>4. CarPrice({}, FALSE, m) = m * n
    BY <2>1, <2>2, <2>3, PlainCar
  <2> QED BY <2>4 DEF n
<1>3. ASSUME NEW k \in 0..7
      PROVE  (500 * k) * (rate - Rebate(500 * k)) <= (500 * (k + 1)) * (rate - Rebate(500 * (k + 1)))
  <2> DEFINE At(j) == (500 * j) * (rate - Rebate(500 * j)) <= (500 * (j + 1)) * (rate - Rebate(500 * (j + 1)))
  <2>1. At(0) /\ At(1) /\ At(2) /\ At(3)
    BY <1>1 DEF Rebate
  <2>2. At(4) /\ At(5) /\ At(6) /\ At(7)
    BY <1>1 DEF Rebate
  <2>3. k = 0 \/ k = 1 \/ k = 2 \/ k = 3 \/ k = 4 \/ k = 5 \/ k = 6 \/ k = 7
    OBVIOUS
  <2> HIDE DEF At
  <2>4. At(k)
    BY <2>1, <2>2, <2>3
  <2> QED BY <2>4 DEF At
<1> DEFINE Plain(m) == CarPrice({}, FALSE, m)
           Fare(m) == m * (rate - Rebate(m))
<1>4. \A m \in Nat : Plain(m) = Fare(m)
  BY <1>2
<1>5. \A k \in 0..7 : Fare(500 * k) <= Fare(500 * (k + 1))
  BY <1>3
<1> HIDE DEF Plain, Fare
<1>6. \A k \in 0..7 : 500 * k \in Nat /\ 500 * (k + 1) \in Nat
  OBVIOUS
<1>7. \A k \in 0..7 : Plain(500 * k) <= Plain(500 * (k + 1))
  BY <1>4, <1>5, <1>6
<1> QED BY <1>7 DEF Plain

-----------------------------------------------------------------------------
(* Prices: types. *)

QuoteRows == [status : {"absent", "open", "booked"}, route : Routes \cup {NoOne},
              enclosed : BOOLEAN, price : PriceRow]
OrderRows == [source : {"absent", "internal", "external"}, published : BOOLEAN,
              taken : BOOLEAN, route : Routes \cup {NoOne}, enclosed : BOOLEAN,
              price : PriceRow]
CarRows == [quote : BOOLEAN, order : BOOLEAN, extras : SUBSET Extras]
RequestRows == [step : {"idle", "edit", "discount", "quoteDiscount"}, order : OrderRows,
             price : PriceRow]

\* Types, those of the requests in flight among them; a quote has a route.
PricesTyped ==
  /\ settings \in Terms /\ terms \in Terms /\ byHand \in BOOLEAN /\ asQuoted \in BOOLEAN
  /\ rate \in Rates \cup {NoOne}
  /\ quote \in QuoteRows /\ (quote.status # "absent" => quote.route \in Routes)
  /\ theOrder \in OrderRows
  /\ car \in [Cars -> CarRows]
  /\ shown \subseteq Int
  /\ request \in [Handlers -> RequestRows]

LEMMA PricesType ==
  ASSUME settings \in Terms, NEW initial \in Int, NEW discount \in Percents
  PROVE  PriceColumns(initial, discount) \in PriceRow
<1>1. settings.recommended \in Int /\ settings.fee \in Int
  BY Facts DEF TermsRow, Percents
<1>2. discount \in Int /\ initial \div 100 \in Int
  BY DEF Percents
<1>3. DiscountPrice(initial, discount) \in Int
  BY <1>2 DEF DiscountPrice, Percent
<1>4. SalePrice(initial) \in Int
  BY <1>1, <1>2 DEF SalePrice, Percent
<1> QED BY <1>3, <1>4 DEF PriceColumns, PriceRow

\* What a request or the rows say of cars.
ListOK(list) == DOMAIN list \in SUBSET Cars /\ \A c \in DOMAIN list : list[c] \in SUBSET Extras

LEMMA ListsOK ==
  ASSUME NEW list \in Lists
  PROVE  ListOK(list)
BY DEF Lists, ListOK

LEMMA ListOfOK ==
  ASSUME car \in [Cars -> CarRows], NEW owner
  PROVE  ListOK(ListOf(owner))
BY DEF ListOf, CarsOf, CarRows, ListOK

LEMMA PriceNat ==
  ASSUME settings \in Terms, rate \in Rates \cup {NoOne}, NEW list, ListOK(list),
         Priceable(list), NEW enclosed \in BOOLEAN, NEW route \in Routes
  PROVE  CarsDeliveryPrice(list, enclosed, Miles[route]) \in Nat
<1>1. settings \in TermsRow /\ Miles[route] \in Nat
  BY Facts
<1>2. DOMAIN list # {} => rate \in Nat
  BY Facts DEF Priceable
<1>3. CarsPriceAt(settings, rate, list, enclosed, Miles[route]) \in Nat
  BY <1>1, <1>2, CarsPriceNat DEF ListOK
<1> QED BY <1>3, PricedAt

LEMMA ReplacedType ==
  ASSUME car \in [Cars -> CarRows], NEW owner \in {"quote", "order"},
         NEW list, ListOK(list), NEW whole \in BOOLEAN
  PROVE  Replaced(owner, list, whole) \in [Cars -> CarRows]
<1>1. ASSUME NEW c \in Cars
      PROVE  Replaced(owner, list, whole)[c] \in CarRows
  <2>1. NoCar \in CarRows /\ car[c] \in CarRows
    BY DEF NoCar, CarRows
  <2>2. ASSUME c \in DOMAIN list PROVE Saved(c, list[c], whole) \in SUBSET Extras
    BY <2>1, <2>2 DEF Saved, CarRows, ListOK
  <2>3. ASSUME NEW x \in SUBSET Extras
        PROVE  [car[c] EXCEPT ![owner] = TRUE, !.extras = x] \in CarRows
    BY <2>1 DEF CarRows
  <2> QED BY <2>1, <2>2, <2>3 DEF Replaced
<1> QED BY <1>1 DEF Replaced

LEMMA NoOrderTyped == NoOrder \in OrderRows /\ NoPrices \in PriceRow /\ NoRequest \in RequestRows
BY DEF NoOrder, NoPrices, NoRequest, OrderRows, PriceRow, RequestRows, Percents

LEMMA PricesTypedInit ==
  ASSUME PricingInit
  PROVE  PricesTyped
<1>1. quote \in QuoteRows /\ quote.status = "absent"
  BY NoOrderTyped DEF PricingInit, NoQuote, QuoteRows
<1>2. car \in [Cars -> CarRows]
  BY DEF PricingInit, NoCar, CarRows
<1> QED BY <1>1, <1>2, NoOrderTyped DEF PricingInit, PricesTyped

-----------------------------------------------------------------------------
(* Prices: quotes and their cars keep the types. *)

LEMMA RequestTyped ==
  ASSUME PricesTyped, NEW h \in Handlers, NEW r \in RequestRows, request' = [request EXCEPT ![h] = r]
  PROVE  request' \in [Handlers -> RequestRows]
BY DEF PricesTyped

LEMMA DoneTyped ==
  ASSUME PricesTyped, NEW h \in Handlers, Answered(h)
  PROVE  request' \in [Handlers -> RequestRows]
BY RequestTyped, NoOrderTyped DEF Answered

LEMMA CreateQuoteTyped ==
  ASSUME PricesTyped, NEW h \in Handlers, NEW list \in Lists,
         NEW route \in Routes, NEW enclosed \in Trailers, CreateQuote(h, list, route, enclosed)
  PROVE  PricesTyped'
<1> DEFINE price == CarsDeliveryPrice(list, enclosed, Miles[route])
<1>1. enclosed \in BOOLEAN /\ ListOK(list) /\ Priceable(list)
  BY Facts, ListsOK DEF CreateQuote
<1>2. price \in Nat
  BY <1>1, PriceNat DEF PricesTyped
<1> HIDE DEF price
<1>3. PriceColumns(price, 0) \in PriceRow
  BY <1>2, PricesType DEF PricesTyped, Percents
<1>4. quote' \in QuoteRows /\ quote'.route \in Routes
  BY <1>1, <1>3 DEF CreateQuote, QuoteRows, price
<1>5. car' \in [Cars -> CarRows]
  BY <1>1, ReplacedType DEF CreateQuote, PricesTyped
<1> QED BY <1>4, <1>5 DEF CreateQuote, PricesTyped

LEMMA RequotedTyped ==
  ASSUME PricesTyped, NEW price \in Nat, Requoted(price)
  PROVE  /\ quote' \in QuoteRows /\ quote'.status = quote.status /\ quote'.route = quote.route
         /\ quote'.enclosed = quote.enclosed
         /\ quote'.price = [PriceColumns(price, 0) EXCEPT !.discount = quote.price.discount]
<1>1. PriceColumns(price, 0) \in PriceRow
  BY PricesType DEF PricesTyped, Percents
<1> QED BY <1>1 DEF Requoted, PricesTyped, QuoteRows, PriceRow

LEMMA PatchQuoteTyped ==
  ASSUME PricesTyped, NEW h \in Handlers, NEW list \in Lists,
         NEW whole \in BOOLEAN, PatchQuote(h, list, whole)
  PROVE  PricesTyped'
<1> DEFINE price == CarsDeliveryPrice(list, quote.enclosed, Miles[quote.route])
<1>1. ListOK(list) /\ Priceable(list) /\ quote.enclosed \in BOOLEAN /\ quote.route \in Routes
  BY ListsOK DEF PatchQuote, PricesTyped, QuoteRows
<1>2. price \in Nat
  BY <1>1, PriceNat DEF PricesTyped
<1>3. Requoted(price)
  BY DEF PatchQuote
<1> HIDE DEF price
<1>4. quote' \in QuoteRows /\ quote'.route \in Routes
  BY <1>1, <1>2, <1>3, RequotedTyped
<1>5. car' \in [Cars -> CarRows]
  BY <1>1, ReplacedType DEF PatchQuote, PricesTyped
<1> QED BY <1>1, <1>4, <1>5 DEF PatchQuote, PricesTyped

LEMMA EditCarTyped ==
  ASSUME PricesTyped, quote.status = "absent" => \A k \in Cars : ~car[k].quote,
         NEW h \in Handlers, NEW c \in Cars,
         NEW extras \in SUBSET Extras, EditCar(h, c, extras)
  PROVE  PricesTyped'
<1> DEFINE row == extras \cup (car[c].extras \cap Optional)
           list == [ListOf("quote") EXCEPT ![c] = row]
           price == CarsDeliveryPrice(list, quote.enclosed, Miles[quote.route])
<1>1. row \in SUBSET Extras
  BY Facts
<1>2. ListOK(list) /\ Priceable(list) /\ quote.enclosed \in BOOLEAN /\ quote.route \in Routes
  <2>1. ListOK(ListOf("quote")) /\ Priceable(ListOf("quote"))
    BY ListOfOK DEF EditCar, PricesTyped
  <2>2. ListOK(list) /\ Priceable(list)
    BY <1>1, <2>1 DEF ListOK, Priceable
  <2> QED BY <2>2 DEF EditCar, PricesTyped, QuoteRows
<1>3. price \in Nat
  BY <1>2, PriceNat DEF PricesTyped
<1>4. Requoted(price) /\ car' = [car EXCEPT ![c].extras = row]
  BY DEF EditCar
<1> HIDE DEF price, row
<1>5. quote' \in QuoteRows /\ quote'.route \in Routes
  BY <1>2, <1>3, <1>4, RequotedTyped
<1>6. car' \in [Cars -> CarRows]
  BY <1>1, <1>4 DEF PricesTyped, CarRows
<1> QED BY <1>2, <1>5, <1>6 DEF EditCar, PricesTyped

LEMMA QuoteDiscountTyped ==
  ASSUME PricesTyped, NEW h \in Handlers,
         \/ QuoteDiscountRead(h)
         \/ \E discount \in Discounts : QuoteDiscountWrite(h, discount)
  PROVE  PricesTyped'
<1>1. CASE QuoteDiscountRead(h)
  <2>1. [NoRequest EXCEPT !.step = "quoteDiscount", !.price = quote.price] \in RequestRows
    BY NoOrderTyped DEF PricesTyped, QuoteRows, RequestRows
  <2>2. request' \in [Handlers -> RequestRows]
    BY <1>1, <2>1, RequestTyped DEF QuoteDiscountRead
  <2> QED BY <1>1, <2>2 DEF QuoteDiscountRead, history, PricesTyped
<1>2. CASE \E discount \in Discounts : QuoteDiscountWrite(h, discount)
  <2>1. PICK discount \in Discounts : QuoteDiscountWrite(h, discount)
    BY <1>2
  <2>2. DiscountPrice(request[h].price.initial, discount) \in Int /\ discount \in Percents
    BY Facts DEF DiscountPrice, Percent, Percents, PricesTyped, RequestRows, PriceRow
  <2>3. quote' \in QuoteRows /\ quote'.status = quote.status /\ quote'.route = quote.route
    BY <2>1, <2>2 DEF QuoteDiscountWrite, PricesTyped, QuoteRows, PriceRow
  <2>4. request' \in [Handlers -> RequestRows]
    BY <2>1, DoneTyped DEF QuoteDiscountWrite
  <2> QED BY <2>1, <2>3, <2>4 DEF QuoteDiscountWrite, history, PricesTyped
<1> QED BY <1>1, <1>2

-----------------------------------------------------------------------------
(* Prices: orders and the settings keep the types. *)

LEMMA PricedTyped ==
  ASSUME PricesTyped, NEW list, ListOK(list), Priceable(list),
         NEW route \in Routes, NEW enclosed \in BOOLEAN, NEW discount \in Percents
  PROVE  Priced(list, route, enclosed, discount) \in PriceRow
BY PriceNat, PricesType DEF Priced, PricesTyped

LEMMA BookTyped ==
  ASSUME PricesTyped, NEW h \in Handlers, Book(h)
  PROVE  PricesTyped'
<1> DEFINE prices == Priced(ListOf("quote"), quote.route, quote.enclosed, quote.price.discount)
<1>1. prices \in PriceRow
  BY PricedTyped, ListOfOK DEF Book, PricesTyped, QuoteRows, PriceRow
<1>2. theOrder' = [source |-> "internal", published |-> TRUE, taken |-> FALSE, route |-> quote.route,
                enclosed |-> quote.enclosed, price |-> prices]
  BY DEF Book
<1> HIDE DEF prices
<1>3. theOrder' \in OrderRows
  BY <1>1, <1>2 DEF PricesTyped, QuoteRows, OrderRows
<1>4. quote' \in QuoteRows /\ quote'.route \in Routes
  BY DEF Book, PricesTyped, QuoteRows
<1>5. car' \in [Cars -> CarRows]
  BY DEF Book, PricesTyped, CarRows
<1> QED BY <1>3, <1>4, <1>5 DEF Book, PricesTyped

LEMMA CreateOrderTyped ==
  ASSUME PricesTyped, NEW h \in Handlers, NEW list \in Lists,
         NEW route \in Routes, NEW enclosed \in Trailers, NEW source \in {"internal", "external"},
         CreateOrder(h, list, route, enclosed, source)
  PROVE  PricesTyped'
<1> DEFINE prices == Priced(list, route, enclosed, 0)
<1>1. enclosed \in BOOLEAN /\ ListOK(list) /\ Priceable(list)
  BY Facts, ListsOK DEF CreateOrder
<1>2. prices \in PriceRow
  BY <1>1, PricedTyped DEF Percents
<1>3. theOrder' = [source |-> source, published |-> source = "external", taken |-> source = "external",
                route |-> route, enclosed |-> enclosed, price |-> prices]
  BY DEF CreateOrder
<1> HIDE DEF prices
<1>4. theOrder' \in OrderRows
  BY <1>1, <1>2, <1>3 DEF OrderRows
<1>5. car' \in [Cars -> CarRows]
  BY <1>1, ReplacedType DEF CreateOrder, PricesTyped
<1> QED BY <1>4, <1>5 DEF CreateOrder, PricesTyped

LEMMA ImportOrderTyped ==
  ASSUME PricesTyped, NEW h \in Handlers, NEW list \in Lists,
         NEW route \in Routes, NEW enclosed \in Trailers,
         ImportOrder(h, list, route, enclosed)
  PROVE  PricesTyped'
<1>1. enclosed \in BOOLEAN /\ ListOK(list)
  BY Facts, ListsOK
<1>2. theOrder' \in OrderRows
  BY Facts, <1>1 DEF ImportOrder, OrderRows, PriceRow, Percents
<1>3. car' \in [Cars -> CarRows]
  BY <1>1, ReplacedType DEF ImportOrder, PricesTyped
<1>4. rate' \in Rates \cup {NoOne}
  BY Facts DEF ImportOrder, PricesTyped
<1> QED BY <1>2, <1>3, <1>4 DEF ImportOrder, PricesTyped

LEMMA ShowPriceTyped ==
  ASSUME PricesTyped, NEW h \in Handlers, NEW list \in Lists,
         NEW route \in Routes, NEW enclosed \in Trailers, ShowPrice(h, list, route, enclosed)
  PROVE  PricesTyped'
<1>1. enclosed \in BOOLEAN /\ ListOK(list) /\ Priceable(list) /\ theOrder.price.discount \in Percents
  BY Facts, ListsOK DEF ShowPrice, PricesTyped, OrderRows, PriceRow
<1>2. Priced(list, route, enclosed, theOrder.price.discount) \in PriceRow
  BY <1>1, PricedTyped
<1>3. shown' \subseteq Int
  BY <1>2 DEF ShowPrice, PriceRow, PricesTyped
<1> QED BY <1>3 DEF ShowPrice, history, PricesTyped

LEMMA PublishTyped ==
  ASSUME PricesTyped, NEW h \in Handlers, NEW b \in BOOLEAN,
         Publish(h, b) \/ Take(h, b)
  PROVE  PricesTyped'
<1>1. theOrder' \in OrderRows
  BY DEF Publish, Take, PricesTyped, OrderRows
<1> QED BY <1>1 DEF Publish, Take, history, PricesTyped

LEMMA DiscountTyped ==
  ASSUME PricesTyped, NEW h \in Handlers,
         DiscountRead(h) \/ \E discount \in Discounts : DiscountWrite(h, discount)
  PROVE  PricesTyped'
<1>1. CASE DiscountRead(h)
  <2>1. [NoRequest EXCEPT !.step = "discount", !.price = theOrder.price] \in RequestRows
    BY NoOrderTyped DEF PricesTyped, OrderRows, RequestRows
  <2>2. request' \in [Handlers -> RequestRows]
    BY <1>1, <2>1, RequestTyped DEF DiscountRead
  <2> QED BY <1>1, <2>2 DEF DiscountRead, history, PricesTyped
<1>2. CASE \E discount \in Discounts : DiscountWrite(h, discount)
  <2>1. PICK discount \in Discounts : DiscountWrite(h, discount)
    BY <1>2
  <2> DEFINE initial == request[h].price.initial
  <2>2. initial \in Int /\ discount \in Percents
    BY Facts DEF PricesTyped, RequestRows, PriceRow
  <2> HIDE DEF initial
  <2>3. PriceColumns(initial, discount) \in PriceRow
    BY <2>2, PricesType DEF PricesTyped
  <2>4. DiscountPrice(initial, discount) \in Int /\ SalePrice(initial) \in Int
    BY <2>3 DEF PriceColumns, PriceRow
  <2>5. theOrder' \in OrderRows
    BY <2>1, <2>2, <2>4 DEF DiscountWrite, PricesTyped, OrderRows, PriceRow, initial
  <2>6. request' \in [Handlers -> RequestRows]
    BY <2>1, DoneTyped DEF DiscountWrite
  <2> QED BY <2>1, <2>5, <2>6 DEF DiscountWrite, PricesTyped
<1> QED BY <1>1, <1>2

LEMMA EditReadTyped ==
  ASSUME PricesTyped, NEW h \in Handlers, EditRead(h) \/ Refuse(h)
  PROVE  PricesTyped'
<1>1. [NoRequest EXCEPT !.step = "edit", !.order = theOrder] \in RequestRows
  BY NoOrderTyped DEF PricesTyped, RequestRows
<1>2. request' \in [Handlers -> RequestRows]
  BY <1>1, RequestTyped, DoneTyped DEF EditRead, Refuse
<1> QED BY <1>2 DEF EditRead, Refuse, history, PricesTyped

LEMMA EditInternalTyped ==
  ASSUME PricesTyped, NEW h \in Handlers, NEW list \in Lists,
         NEW whole \in BOOLEAN, NEW route \in Routes, NEW enclosed \in Trailers,
         NEW keep \in BOOLEAN, NEW sale \in {NoOne, HandPrice},
         EditInternal(h, list, whole, route, enclosed, keep, sale)
  PROVE  PricesTyped'
<1> DEFINE o == request[h].order
           reprice == (route # o.route \/ CarsUpdated(list, whole)) /\ ~keep
           priced == Priced(list, route, enclosed, o.price.discount)
           typed == IF sale = NoOne THEN o.price.sale ELSE sale
           kept == [o.price EXCEPT !.discount = theOrder.price.discount, !.sale = typed]
<1>1. enclosed \in BOOLEAN /\ ListOK(list) /\ o.price \in PriceRow /\ theOrder.price \in PriceRow
  BY Facts, ListsOK DEF PricesTyped, RequestRows, OrderRows
<1>2. reprice => priced \in PriceRow
  <2>1. o.price.discount \in Percents
    BY <1>1 DEF PriceRow
  <2>2. reprice => Priceable(list)
    BY DEF EditInternal
  <2> QED BY <1>1, <2>1, <2>2, PricedTyped
<1>3. kept \in PriceRow
  <2>1. typed \in Int
    BY Facts, <1>1 DEF PriceRow
  <2> HIDE DEF typed
  <2> QED BY <1>1, <2>1 DEF PriceRow
<1>4. theOrder' = [theOrder EXCEPT !.route = route, !.enclosed = enclosed,
                             !.price = IF reprice THEN priced ELSE kept]
  BY DEF EditInternal
<1> HIDE DEF reprice, priced, kept
<1>5. theOrder' \in OrderRows
  BY <1>1, <1>2, <1>3, <1>4 DEF PricesTyped, OrderRows
<1>6. car' \in [Cars -> CarRows]
  BY <1>1, ReplacedType DEF EditInternal, PricesTyped
<1>7. request' \in [Handlers -> RequestRows]
  BY DoneTyped DEF EditInternal
<1>8. terms' \in Terms /\ byHand' \in BOOLEAN
  BY DEF EditInternal, PricesTyped
<1> QED BY <1>5, <1>6, <1>7, <1>8 DEF EditInternal, PricesTyped

LEMMA EditExternalTyped ==
  ASSUME PricesTyped, NEW h \in Handlers, NEW list \in Lists,
         NEW whole \in BOOLEAN, NEW route \in Routes, NEW enclosed \in Trailers,
         NEW sale \in {NoOne, HandPrice}, EditExternal(h, list, whole, route, enclosed, sale)
  PROVE  PricesTyped'
<1>1. enclosed \in BOOLEAN /\ ListOK(list)
  BY Facts, ListsOK
<1> DEFINE typed == IF sale = NoOne THEN theOrder.price.sale ELSE sale
<1>2. theOrder' \in OrderRows
  <2>1. typed \in Int
    BY Facts DEF PricesTyped, OrderRows, PriceRow
  <2>2. theOrder' = [theOrder EXCEPT !.route = route, !.enclosed = enclosed, !.price.sale = typed]
    BY DEF EditExternal
  <2> HIDE DEF typed
  <2> QED BY <1>1, <2>1, <2>2 DEF PricesTyped, OrderRows, PriceRow
<1>3. car' \in [Cars -> CarRows]
  BY <1>1, ReplacedType DEF EditExternal, PricesTyped
<1>4. request' \in [Handlers -> RequestRows]
  BY DoneTyped DEF EditExternal
<1>5. byHand' \in BOOLEAN
  BY DEF EditExternal, PricesTyped
<1> QED BY <1>2, <1>3, <1>4, <1>5 DEF EditExternal, PricesTyped

LEMMA SettingTyped ==
  ASSUME PricesTyped, NEW h \in Handlers, Setting(h)
  PROVE  PricesTyped'
BY Facts DEF Setting, PatchGeneral, SetPolicy, SyncPolicies, PricesTyped

LEMMA ExpireTyped ==
  ASSUME PricesTyped, Expire
  PROVE  PricesTyped'
BY DEF Expire, history, PricesTyped

-----------------------------------------------------------------------------
(* Prices: every step keeps the types. *)

\* Cars of a quote go with a quote.
QuoteCars == \A k \in Cars : car[k].quote => quote.status # "absent"
PInv == PricesTyped /\ QuoteCars

\* An edit of an order makes no car one of a quote's.
LEMMA ReplacedOrder ==
  ASSUME car \in [Cars -> CarRows], NEW list, NEW whole, NEW k \in Cars,
         Replaced("order", list, whole)[k].quote
  PROVE  car[k].quote
BY DEF Replaced, NoCar, CarRows

\* The kinds of steps, each with the values it is taken for.
Listed(h, list, route, enclosed) ==
  \/ CreateQuote(h, list, route, enclosed)
  \/ \E source \in {"internal", "external"} : CreateOrder(h, list, route, enclosed, source)
  \/ ImportOrder(h, list, route, enclosed)
  \/ ShowPrice(h, list, route, enclosed)

Edited(h, list, whole, route, enclosed, sale) ==
  \/ \E keep \in BOOLEAN : EditInternal(h, list, whole, route, enclosed, keep, sale)
  \/ EditExternal(h, list, whole, route, enclosed, sale)

Plainly(h) ==
  \/ QuoteDiscountRead(h) \/ \E d \in Discounts : QuoteDiscountWrite(h, d)
  \/ \E b \in BOOLEAN : Publish(h, b) \/ Take(h, b)
  \/ DiscountRead(h) \/ \E d \in Discounts : DiscountWrite(h, d)
  \/ EditRead(h) \/ Refuse(h)
  \/ Setting(h)

LEMMA PricingSteps ==
  ASSUME PricingNext
  PROVE  \/ Expire
         \/ \E h \in Handlers : Plainly(h) \/ Book(h)
         \/ \E h \in Handlers, list \in Lists, route \in Routes, enclosed \in Trailers :
              Listed(h, list, route, enclosed)
         \/ \E h \in Handlers, list \in Lists, whole \in BOOLEAN : PatchQuote(h, list, whole)
         \/ \E h \in Handlers, c \in Cars, extras \in SUBSET Extras : EditCar(h, c, extras)
         \/ \E h \in Handlers, list \in Lists, whole \in BOOLEAN, route \in Routes,
               enclosed \in Trailers, sale \in {NoOne, HandPrice} :
              Edited(h, list, whole, route, enclosed, sale)
<1>1. CASE Expire
  BY <1>1
<1>2. CASE \E h \in Handlers : Quoting(h)
  BY <1>2 DEF Quoting, Plainly, Listed
<1>3. CASE \E h \in Handlers : Ordering(h)
  BY <1>3 DEF Ordering, Plainly, Listed
<1>4. CASE \E h \in Handlers : Editing(h)
  BY <1>4 DEF Editing, Plainly, Edited
<1>5. CASE \E h \in Handlers : Setting(h)
  BY <1>5 DEF Plainly
<1> QED BY <1>1, <1>2, <1>3, <1>4, <1>5 DEF PricingNext

LEMMA ListedTyped ==
  ASSUME PInv, NEW h \in Handlers, NEW list \in Lists, NEW route \in Routes,
         NEW enclosed \in Trailers, Listed(h, list, route, enclosed)
  PROVE  PInv'
<1>1. PricesTyped'
  BY CreateQuoteTyped, CreateOrderTyped, ImportOrderTyped, ShowPriceTyped DEF Listed, PInv
<1>2. CASE CreateQuote(h, list, route, enclosed)
  BY <1>1, <1>2 DEF CreateQuote, PInv, QuoteCars
<1>3. CASE \/ \E source \in {"internal", "external"} : CreateOrder(h, list, route, enclosed, source)
           \/ ImportOrder(h, list, route, enclosed)
  <2>1. car' = Replaced("order", list, TRUE) /\ quote' = quote
    BY <1>3 DEF CreateOrder, ImportOrder
  <2> QED BY <1>1, <2>1, ReplacedOrder DEF PInv, QuoteCars, PricesTyped
<1>4. CASE ShowPrice(h, list, route, enclosed)
  BY <1>1, <1>4 DEF ShowPrice, PInv, QuoteCars
<1> QED BY <1>2, <1>3, <1>4 DEF Listed

LEMMA EditedTyped ==
  ASSUME PInv, NEW h \in Handlers, NEW list \in Lists, NEW whole \in BOOLEAN,
         NEW route \in Routes, NEW enclosed \in Trailers, NEW sale \in {NoOne, HandPrice},
         Edited(h, list, whole, route, enclosed, sale)
  PROVE  PInv'
<1>1. PricesTyped'
  BY EditInternalTyped, EditExternalTyped DEF Edited, PInv
<1>2. quote' = quote /\ (car' = Replaced("order", list, whole) \/ car' = car)
  BY DEF Edited, EditInternal, EditExternal
<1> QED BY <1>1, <1>2, ReplacedOrder DEF PInv, QuoteCars, PricesTyped

LEMMA PlainlyTyped ==
  ASSUME PInv, NEW h \in Handlers, Plainly(h)
  PROVE  PInv'
<1>1. PricesTyped'
  BY QuoteDiscountTyped, PublishTyped, DiscountTyped, EditReadTyped, SettingTyped DEF Plainly, PInv
<1>2. car' = car
  BY DEF Plainly, QuoteDiscountRead, QuoteDiscountWrite, Publish, Take, DiscountRead,
         DiscountWrite, EditRead, Refuse, Setting, PatchGeneral, SetPolicy, SyncPolicies
<1>3. quote'.status = quote.status
  <2>1. quote' = quote \/ \E d \in Discounts : QuoteDiscountWrite(h, d)
    BY DEF Plainly, QuoteDiscountRead, Publish, Take, DiscountRead,
         DiscountWrite, EditRead, Refuse, Setting, PatchGeneral, SetPolicy, SyncPolicies
  <2> QED BY <2>1 DEF QuoteDiscountWrite, PInv, PricesTyped, QuoteRows
<1> QED BY <1>1, <1>2, <1>3 DEF PInv, QuoteCars

LEMMA PricingNextTyped ==
  ASSUME PInv, [PricingNext]_pricingVars
  PROVE  PInv'
<1>1. CASE UNCHANGED pricingVars
  BY <1>1 DEF pricingVars, history, PInv, PricesTyped, QuoteCars
<1>2. CASE Expire
  BY <1>2, ExpireTyped DEF Expire, PInv, QuoteCars
<1>3. ASSUME NEW h \in Handlers, Plainly(h) PROVE PInv'
  BY <1>3, PlainlyTyped
<1>4. ASSUME NEW h \in Handlers, Book(h) PROVE PInv'
  <2>1. PricesTyped'
    BY <1>4, BookTyped DEF PInv
  <2>2. quote'.status = "booked"
    BY <1>4 DEF Book, PInv, PricesTyped, QuoteRows
  <2> QED BY <2>1, <2>2 DEF PInv, QuoteCars
<1>5. ASSUME NEW h \in Handlers, NEW list \in Lists, NEW route \in Routes,
             NEW enclosed \in Trailers, Listed(h, list, route, enclosed)
      PROVE  PInv'
  BY <1>5, ListedTyped
<1>6. ASSUME NEW h \in Handlers, NEW list \in Lists, NEW whole \in BOOLEAN, PatchQuote(h, list, whole)
      PROVE  PInv'
  <2>1. PricesTyped'
    BY <1>6, PatchQuoteTyped DEF PInv
  <2>2. quote'.status = quote.status /\ quote.status # "absent"
    BY <1>6 DEF PatchQuote, Requoted, PInv, PricesTyped, QuoteRows
  <2> QED BY <2>1, <2>2 DEF PInv, QuoteCars
<1>7. ASSUME NEW h \in Handlers, NEW c \in Cars, NEW extras \in SUBSET Extras, EditCar(h, c, extras)
      PROVE  PInv'
  <2>1. quote.status # "absent"
    BY <1>7 DEF EditCar, PInv, QuoteCars
  <2>2. PricesTyped'
    BY <1>7, <2>1, EditCarTyped DEF PInv
  <2>3. quote'.status = quote.status
    BY <1>7 DEF EditCar, Requoted, PInv, PricesTyped, QuoteRows
  <2> QED BY <2>1, <2>2, <2>3 DEF PInv, QuoteCars
<1>8. ASSUME NEW h \in Handlers, NEW list \in Lists, NEW whole \in BOOLEAN, NEW route \in Routes,
             NEW enclosed \in Trailers, NEW sale \in {NoOne, HandPrice},
             Edited(h, list, whole, route, enclosed, sale)
      PROVE  PInv'
  BY <1>8, EditedTyped
<1>9. CASE PricingNext
  BY <1>2, <1>3, <1>4, <1>5, <1>6, <1>7, <1>8, <1>9, PricingSteps
<1> QED BY <1>1, <1>9

LEMMA PricingInvariance ==
  PricingSpec => []PInv
<1>1. PricingInit => PInv
  <2>1. PricingInit => PricesTyped
    BY PricesTypedInit
  <2>2. PricingInit => QuoteCars
    BY DEF QuoteCars, PricingInit, NoCar
  <2> QED BY <2>1, <2>2 DEF PInv
<1>2. PInv /\ [PricingNext]_pricingVars => PInv'
  BY PricingNextTyped
<1> QED BY <1>1, <1>2, PTL DEF PricingSpec

\* Whatever requests overlap, every price is an amount, every row and what
\* every request holds has its type.
THEOREM PricesTypeCorrect ==
  PricingSpec => []PricesTypeOK
<1>1. PInv => PricesTypeOK
  BY DEF PInv, PricesTyped, PricesTypeOK, QuoteRows, OrderRows, CarRows, RequestRows
<1> QED BY <1>1, PricingInvariance, PTL

\* Whatever requests overlap, five hundred miles more never make a car
\* cheaper, though getPriceByVehicleType takes 0.00017 dollars off the rate
\* for every mile from 900 to 1900, where a mile costs at least 37.4 cents.
THEOREM LongerNeverCheaperHolds ==
  ASSUME DearMiles
  PROVE  PricingSpec => []LongerNeverCheaper
<1>1. PricesTypeOK => LongerNeverCheaper
  BY LongerNeverCheaperNow
<1> QED BY <1>1, PricesTypeCorrect, PTL

-----------------------------------------------------------------------------
(* Prices, one request at a time. *)

\* One request at a time: what a request has read is still so.
Snapshots ==
  \A h \in Handlers :
    /\ request[h].step = "edit" => request[h].order = theOrder /\ theOrder.source # "absent"
    /\ request[h].step = "discount" => request[h].price = theOrder.price /\ theOrder.source # "absent"
    /\ request[h].step = "quoteDiscount" => request[h].price = quote.price

\* A quote priced under what is in force costs what its cars do, less its
\* discount or not yet.
AsQuotedOK ==
  LET p == quote.price
  IN  /\ p.initial = CarsPriceAt(settings, rate, ListOf("quote"), quote.enclosed, Miles[quote.route])
      /\ p.withDiscount = p.initial \/ p.withDiscount = DiscountPrice(p.initial, p.discount)

QuoteOK ==
  /\ quote.price.initial \in Nat
  /\ quote.status = "open" => theOrder.source = "absent"
  /\ quote.status = "open" /\ asQuoted => AsQuotedOK

OrderOK ==
  /\ theOrder.price.initial \in Nat
  /\ theOrder.source = "absent" => theOrder = NoOrder
  /\ MarginKept /\ DiscountShown

SerialPrices == PInv /\ Snapshots /\ QuoteOK /\ OrderOK

\* A discount that is allowed leaves the least profit.
LEMMA MarginOf ==
  ASSUME settings \in Terms, NEW initial \in Nat, NEW discount \in Percents,
         Discountable(discount)
  PROVE  DiscountPrice(initial, discount) - SalePrice(initial) - settings.fee
           >= Percent(initial, settings.minimum)
<1> DEFINE y == initial \div 100
           r == settings.recommended
           m == settings.minimum
           f == settings.fee
<1>1. y \in Nat /\ r \in Int /\ m \in Int /\ f \in Int /\ discount \in Int /\ r - discount >= m
  BY Facts DEF TermsRow, Percents, Discountable
<1> HIDE DEF y, r, m, f
<1>2. \A z \in Nat : y * z >= 0
  BY <1>1
<1>3. r - discount - m \in Nat
  BY <1>1
<1>4. y * (r - discount - m) >= 0
  BY <1>2, <1>3
<1>5. y * (r - discount - m) = y * r - y * discount - y * m
  BY <1>1
<1>6. (initial - y * discount) - (initial - y * r - f) - f >= y * m
  BY <1>1, <1>4, <1>5
<1> QED BY <1>6 DEF DiscountPrice, SalePrice, Percent, y, r, m, f

\* A discount raises no price, and none changes none.
LEMMA DiscountLowers ==
  ASSUME NEW initial \in Nat, NEW discount \in Percents
  PROVE  DiscountPrice(initial, discount) <= initial /\ DiscountPrice(initial, 0) = initial
<1> DEFINE y == initial \div 100
<1>1. y \in Nat /\ discount \in Nat
  BY DEF Percents
<1> HIDE DEF y
<1>2. y * discount \in Nat /\ y * 0 = 0
  BY <1>1
<1>3. initial - y * discount <= initial /\ initial - y * 0 = initial
  BY <1>2
<1> QED BY <1>3 DEF DiscountPrice, Percent, y

\* A new price of an order keeps the margin and shows its discount.
LEMMA RepricedOK ==
  ASSUME settings \in Terms, NEW initial \in Nat, NEW discount \in Percents,
         Discountable(discount), theOrder'.price.initial = initial,
         theOrder'.price.discount = discount,
         theOrder'.price.withDiscount = DiscountPrice(initial, discount),
         theOrder'.price.sale = SalePrice(initial), terms' = settings, theOrder'.source # "absent"
  PROVE  OrderOK'
<1>1. MarginKept'
  BY MarginOf DEF MarginKept, Percent
<1>2. DiscountShown'
  BY DEF DiscountShown, DiscountPrice, Percent
<1> QED BY <1>1, <1>2 DEF OrderOK

\* What leaves a price and its settings alone.
LEMMA OrderSame ==
  ASSUME OrderOK, UNCHANGED <<theOrder, terms, byHand>>
  PROVE  OrderOK'
BY DEF OrderOK, MarginKept, DiscountShown, DiscountPrice, Percent

LEMMA SamePrice ==
  ASSUME OrderOK, UNCHANGED <<terms, byHand>>, theOrder'.price = theOrder.price,
         theOrder'.source # "absent", theOrder.source # "absent"
  PROVE  OrderOK'
BY DEF OrderOK, MarginKept, DiscountShown, DiscountPrice, Percent

LEMMA QuoteSame ==
  ASSUME QuoteOK, UNCHANGED <<quote, theOrder, settings, rate, car, asQuoted>>
  PROVE  QuoteOK'
BY DEF QuoteOK, AsQuotedOK, ListOf, CarsOf, DiscountPrice, Percent

LEMMA QuoteClosed ==
  ASSUME QuoteOK, quote' = quote, quote.status # "open"
  PROVE  QuoteOK'
BY DEF QuoteOK

\* Nobody else has read anything.
LEMMA Alone ==
  ASSUME OneHandler, NEW h \in Handlers, request'[h].step = "idle"
  PROVE  Snapshots'
BY DEF OneHandler, Snapshots

LEMMA CalledAlone ==
  ASSUME OneHandler, NEW h \in Handlers, NEW call, Called(h, call), request' = request
  PROVE  Snapshots'
BY Alone DEF Called, NoRequest

LEMMA DoneAlone ==
  ASSUME OneHandler, PricesTyped, NEW h \in Handlers, Answered(h)
  PROVE  Snapshots'
BY Alone DEF Answered, NoRequest, PricesTyped

-----------------------------------------------------------------------------
(* Prices, one request at a time: quotes. *)

\* A list that is whole is what the rows of the quote's cars say afterwards.
LEMMA ListReplaced ==
  ASSUME PricesTyped, NEW list \in Lists, Lawful("quote", list, TRUE),
         car' = Replaced("quote", list, TRUE)
  PROVE  ListOf("quote")' = list
<1>1. \A c \in DOMAIN list : c \in Cars /\ car'[c].quote /\ car'[c].extras = list[c]
  <2> SUFFICES ASSUME NEW c \in DOMAIN list
               PROVE  c \in Cars /\ car'[c].quote /\ car'[c].extras = list[c]
    OBVIOUS
  <2>1. c \in Cars
    BY DEF Lists
  <2>2. Saved(c, list[c], TRUE) = list[c]
    BY DEF Saved
  <2>3. car'[c] = [car[c] EXCEPT !.quote = TRUE, !.extras = Saved(c, list[c], TRUE)]
    BY <2>1 DEF Replaced
  <2> QED BY <2>1, <2>2, <2>3 DEF PricesTyped, CarRows
<1>2. \A c \in Cars \ DOMAIN list : ~car'[c].quote
  BY DEF Replaced, NoCar, PricesTyped, CarRows
<1>3. {c \in Cars : car'[c].quote} = DOMAIN list
  BY <1>1, <1>2
<1>4. list = [c \in DOMAIN list |-> list[c]]
  BY DEF Lists
<1>5. ListOf("quote")' = [c \in {k \in Cars : car'[k].quote} |-> car'[c].extras]
  BY DEF ListOf, CarsOf
<1> QED BY <1>1, <1>3, <1>4, <1>5

LEMMA EditedListOf ==
  ASSUME PricesTyped, NEW c \in Cars, car[c].quote, NEW row, car' = [car EXCEPT ![c].extras = row]
  PROVE  ListOf("quote")' = [ListOf("quote") EXCEPT ![c] = row]
<1>1. \A k \in Cars : car'[k].quote = car[k].quote
                      /\ car'[k].extras = IF k = c THEN row ELSE car[k].extras
  BY DEF PricesTyped, CarRows
<1>2. {k \in Cars : car'[k].quote} = {k \in Cars : car[k].quote}
  BY <1>1
<1> QED BY <1>1, <1>2 DEF ListOf, CarsOf

\* What a quote is priced at when its list is what its cars' rows say.
LEMMA RequotedOK ==
  ASSUME PInv, QuoteOK, NEW list, NEW price \in Nat,
         price = CarsDeliveryPrice(list, quote.enclosed, Miles[quote.route]),
         Requoted(price), asQuoted' => ListOf("quote")' = list,
         UNCHANGED <<settings, rate, theOrder>>
  PROVE  QuoteOK'
<1>1. /\ quote'.status = quote.status /\ quote'.route = quote.route /\ quote'.enclosed = quote.enclosed
      /\ quote'.price = [PriceColumns(price, 0) EXCEPT !.discount = quote.price.discount]
  BY RequotedTyped DEF PInv
<1>2. quote'.price.initial = price /\ quote'.price.withDiscount = DiscountPrice(price, 0)
  BY <1>1 DEF PriceColumns
<1>3. quote'.price.withDiscount = quote'.price.initial
  BY <1>2, DiscountLowers DEF Percents
<1>4. price = CarsPriceAt(settings, rate, list, quote.enclosed, Miles[quote.route])
  BY PricedAt
<1>5. asQuoted' => AsQuotedOK'
  BY <1>1, <1>2, <1>3, <1>4 DEF AsQuotedOK
<1> QED BY <1>1, <1>2, <1>5 DEF QuoteOK

LEMMA CreateQuoteSerial ==
  ASSUME OneHandler, SerialPrices, NEW h \in Handlers, NEW list \in Lists,
         NEW route \in Routes, NEW enclosed \in Trailers, CreateQuote(h, list, route, enclosed)
  PROVE  Snapshots' /\ QuoteOK' /\ OrderOK'
<1> DEFINE price == CarsDeliveryPrice(list, enclosed, Miles[route])
<1>1. price \in Nat
  BY Facts, ListsOK, PriceNat DEF CreateQuote, SerialPrices, PInv, PricesTyped
<1>2. price = CarsPriceAt(settings, rate, list, enclosed, Miles[route])
  BY PricedAt
<1>3. quote' = [status |-> "open", route |-> route, enclosed |-> enclosed, price |-> PriceColumns(price, 0)]
  BY DEF CreateQuote
<1> HIDE DEF price
<1>4. quote'.price.initial = price /\ quote'.price.withDiscount = price
  BY <1>1, <1>3, DiscountLowers DEF PriceColumns, Percents
<1>5. ListOf("quote")' = list
  BY ListReplaced DEF CreateQuote, SerialPrices, PInv
<1>6. UNCHANGED <<settings, rate, theOrder, request, terms, byHand>> /\ theOrder.source = "absent"
      /\ Called(h, "quote")
  BY DEF CreateQuote
<1>7. AsQuotedOK'
  BY <1>2, <1>3, <1>4, <1>5, <1>6 DEF AsQuotedOK
<1>8. QuoteOK'
  BY <1>1, <1>4, <1>6, <1>7 DEF QuoteOK
<1> QED BY <1>6, <1>8, CalledAlone, OrderSame DEF SerialPrices

LEMMA PatchQuoteSerial ==
  ASSUME OneHandler, SerialPrices, NEW h \in Handlers, NEW list \in Lists,
         NEW whole \in BOOLEAN, PatchQuote(h, list, whole)
  PROVE  Snapshots' /\ QuoteOK' /\ OrderOK'
<1> DEFINE price == CarsDeliveryPrice(list, quote.enclosed, Miles[quote.route])
<1>1. price \in Nat
  BY ListsOK, PriceNat DEF PatchQuote, SerialPrices, PInv, PricesTyped, QuoteRows
<1>2. Requoted(price) /\ UNCHANGED <<settings, rate, theOrder, request, terms, byHand>>
      /\ Called(h, "patchQuote")
  BY DEF PatchQuote
<1>3. asQuoted' => ListOf("quote")' = list
  BY ListReplaced DEF PatchQuote, SerialPrices, PInv
<1> HIDE DEF price
<1>4. QuoteOK'
  BY <1>1, <1>2, <1>3, RequotedOK DEF SerialPrices, price
<1> QED BY <1>2, <1>4, CalledAlone, OrderSame DEF SerialPrices

LEMMA EditCarSerial ==
  ASSUME OneHandler, SerialPrices, NEW h \in Handlers, NEW c \in Cars,
         NEW extras \in SUBSET Extras, EditCar(h, c, extras)
  PROVE  Snapshots' /\ QuoteOK' /\ OrderOK'
<1> DEFINE row == extras \cup (car[c].extras \cap Optional)
           list == [ListOf("quote") EXCEPT ![c] = row]
           price == CarsDeliveryPrice(list, quote.enclosed, Miles[quote.route])
<1>1. quote.status # "absent"
  BY DEF EditCar, SerialPrices, PInv, QuoteCars
<1>2. ListOK(list) /\ Priceable(list) /\ quote.enclosed \in BOOLEAN /\ quote.route \in Routes
  <2>1. ListOK(ListOf("quote")) /\ Priceable(ListOf("quote"))
    BY ListOfOK DEF EditCar, SerialPrices, PInv, PricesTyped
  <2>2. row \in SUBSET Extras
    BY Facts
  <2> HIDE DEF row
  <2>3. ListOK(list) /\ Priceable(list)
    BY <2>1, <2>2 DEF ListOK, Priceable
  <2> QED BY <1>1, <2>3 DEF SerialPrices, PInv, PricesTyped, QuoteRows
<1>3. price \in Nat
  BY <1>2, PriceNat DEF SerialPrices, PInv, PricesTyped
<1>4. /\ Requoted(price) /\ UNCHANGED <<settings, rate, theOrder, request, terms, byHand>>
      /\ Called(h, "editCar") /\ car[c].quote /\ car' = [car EXCEPT ![c].extras = row]
  BY DEF EditCar
<1> HIDE DEF row
<1>5. ListOf("quote")' = list
  BY <1>4, EditedListOf DEF SerialPrices, PInv
<1> HIDE DEF list
<1>6. price = CarsDeliveryPrice(list, quote.enclosed, Miles[quote.route])
  OBVIOUS
<1> HIDE DEF price
<1>7. QuoteOK'
  BY <1>3, <1>4, <1>5, <1>6, RequotedOK DEF SerialPrices
<1> QED BY <1>4, <1>7, CalledAlone, OrderSame DEF SerialPrices

LEMMA QuoteDiscountSerial ==
  ASSUME OneHandler, SerialPrices, NEW h \in Handlers,
         NEW discount \in Discounts, QuoteDiscountWrite(h, discount)
  PROVE  Snapshots' /\ QuoteOK' /\ OrderOK'
<1>1. Answered(h) /\ UNCHANGED <<settings, rate, theOrder, car, terms, byHand, asQuoted>>
  BY DEF QuoteDiscountWrite, history
<1>2. request[h].price = quote.price
  BY DEF QuoteDiscountWrite, SerialPrices, Snapshots
<1>3. /\ quote'.status = quote.status /\ quote'.route = quote.route /\ quote'.enclosed = quote.enclosed
      /\ quote'.price.initial = quote.price.initial /\ quote'.price.discount = discount
      /\ quote'.price.withDiscount = DiscountPrice(quote.price.initial, discount)
  BY <1>2 DEF QuoteDiscountWrite, SerialPrices, PInv, PricesTyped, QuoteRows, PriceRow
<1>4. ListOf("quote")' = ListOf("quote")
  BY <1>1 DEF ListOf, CarsOf
<1>5. AsQuotedOK => AsQuotedOK'
  BY <1>1, <1>3, <1>4 DEF AsQuotedOK, DiscountPrice, Percent
<1>6. QuoteOK'
  BY <1>1, <1>3, <1>5 DEF QuoteOK, SerialPrices
<1> QED BY <1>1, <1>6, DoneAlone, OrderSame DEF SerialPrices, PInv

-----------------------------------------------------------------------------
(* Prices, one request at a time: orders. *)

LEMMA BookSerial ==
  ASSUME OneHandler, SerialPrices, NEW h \in Handlers, Book(h)
  PROVE  Snapshots' /\ QuoteOK' /\ OrderOK'
<1> DEFINE price == CarsDeliveryPrice(ListOf("quote"), quote.enclosed, Miles[quote.route])
           discount == quote.price.discount
<1>1. price \in Nat /\ discount \in Percents /\ settings \in Terms
  BY ListOfOK, PriceNat DEF Book, SerialPrices, PInv, PricesTyped, QuoteRows, PriceRow
<1>2. theOrder'.price = PriceColumns(price, discount) /\ theOrder'.source = "internal"
  BY DEF Book, Priced
<1>3. Discountable(discount) /\ terms' = settings /\ request' = request /\ Called(h, "book")
  BY DEF Book
<1>4. quote'.status = "booked" /\ quote'.price = quote.price
  BY DEF Book, SerialPrices, PInv, PricesTyped, QuoteRows
<1> HIDE DEF price, discount
<1>5. OrderOK'
  BY <1>1, <1>2, <1>3, RepricedOK DEF PriceColumns
<1>6. QuoteOK'
  BY <1>4 DEF SerialPrices, QuoteOK
<1> QED BY <1>3, <1>5, <1>6, CalledAlone

LEMMA CreateOrderSerial ==
  ASSUME OneHandler, SerialPrices, NEW h \in Handlers, NEW list \in Lists,
         NEW route \in Routes, NEW enclosed \in Trailers, NEW source \in {"internal", "external"},
         CreateOrder(h, list, route, enclosed, source)
  PROVE  Snapshots' /\ QuoteOK' /\ OrderOK'
<1> DEFINE price == CarsDeliveryPrice(list, enclosed, Miles[route])
<1>1. price \in Nat /\ settings \in Terms /\ 0 \in Percents
  BY Facts, ListsOK, PriceNat DEF CreateOrder, SerialPrices, PInv, PricesTyped, Percents
<1>2. theOrder'.price = PriceColumns(price, 0) /\ theOrder'.source # "absent"
  BY DEF CreateOrder, Priced
<1>3. Discountable(0) /\ terms' = settings /\ request' = request /\ Called(h, "create")
      /\ quote' = quote /\ quote.status = "absent"
  BY DEF CreateOrder
<1> HIDE DEF price
<1>4. OrderOK'
  BY <1>1, <1>2, <1>3, RepricedOK DEF PriceColumns
<1> QED BY <1>3, <1>4, CalledAlone, QuoteClosed DEF SerialPrices

LEMMA ImportOrderSerial ==
  ASSUME OneHandler, SerialPrices, NEW h \in Handlers, NEW list \in Lists,
         NEW route \in Routes, NEW enclosed \in Trailers, ImportOrder(h, list, route, enclosed)
  PROVE  Snapshots' /\ QuoteOK' /\ OrderOK'
<1>1. byHand' /\ request' = request /\ Called(h, "import") /\ quote' = quote
      /\ quote.status = "absent"
  BY DEF ImportOrder
<1>2. HandPrice \in Nat /\ DiscountPrice(HandPrice, 0) = HandPrice
  BY Facts, DiscountLowers DEF Percents
<1>3. theOrder'.source = "external" /\ theOrder'.price.initial = HandPrice /\ theOrder'.price.discount = 0
      /\ theOrder'.price.withDiscount = HandPrice
  BY DEF ImportOrder
<1>4. MarginKept'
  BY <1>1 DEF MarginKept
<1>5. DiscountShown'
  BY <1>2, <1>3 DEF DiscountShown, DiscountPrice, Percent
<1> QED BY <1>1, <1>2, <1>3, <1>4, <1>5, CalledAlone, QuoteClosed DEF SerialPrices, OrderOK

LEMMA ListedSerial ==
  ASSUME OneHandler, SerialPrices, NEW h \in Handlers, NEW list \in Lists,
         NEW route \in Routes, NEW enclosed \in Trailers, Listed(h, list, route, enclosed)
  PROVE  Snapshots' /\ QuoteOK' /\ OrderOK'
<1>1. CASE ShowPrice(h, list, route, enclosed)
  <2>1. request' = request /\ Called(h, "calculatePrice")
        /\ UNCHANGED <<quote, theOrder, settings, rate, car, asQuoted, terms, byHand>>
    BY <1>1 DEF ShowPrice, history
  <2> QED BY <2>1, CalledAlone, QuoteSame, OrderSame DEF SerialPrices
<1> QED BY <1>1, CreateQuoteSerial, CreateOrderSerial, ImportOrderSerial DEF Listed

LEMMA DiscountSerial ==
  ASSUME OneHandler, SerialPrices, NEW h \in Handlers,
         NEW discount \in Discounts, DiscountWrite(h, discount)
  PROVE  Snapshots' /\ QuoteOK' /\ OrderOK'
<1> DEFINE initial == theOrder.price.initial
<1>1. request[h].price = theOrder.price /\ theOrder.source # "absent"
  BY DEF DiscountWrite, SerialPrices, Snapshots
<1>2. initial \in Nat /\ discount \in Percents /\ settings \in Terms
  BY Facts DEF SerialPrices, OrderOK, PInv, PricesTyped
<1>3. Discountable(discount) /\ Answered(h) /\ terms' = settings /\ quote' = quote
  BY DEF DiscountWrite
<1>4. quote.status # "open"
  BY <1>1 DEF SerialPrices, QuoteOK
<1>5. /\ theOrder'.price.initial = initial /\ theOrder'.price.discount = discount
      /\ theOrder'.price.withDiscount = DiscountPrice(initial, discount)
      /\ theOrder'.price.sale = SalePrice(initial) /\ theOrder'.source = theOrder.source
  BY <1>1 DEF DiscountWrite, SerialPrices, PInv, PricesTyped, OrderRows, PriceRow
<1> HIDE DEF initial
<1>6. OrderOK'
  BY <1>1, <1>2, <1>3, <1>5, RepricedOK
<1> QED BY <1>3, <1>4, <1>6, DoneAlone, QuoteClosed DEF SerialPrices, PInv

LEMMA EditInternalSerial ==
  ASSUME OneHandler, SerialPrices, NEW h \in Handlers, NEW list \in Lists,
         NEW whole \in BOOLEAN, NEW route \in Routes, NEW enclosed \in Trailers,
         NEW keep \in BOOLEAN, NEW sale \in {NoOne, HandPrice},
         EditInternal(h, list, whole, route, enclosed, keep, sale)
  PROVE  Snapshots' /\ QuoteOK' /\ OrderOK'
<1> DEFINE reprice == (route # theOrder.route \/ CarsUpdated(list, whole)) /\ ~keep
           price == CarsDeliveryPrice(list, enclosed, Miles[route])
           discount == theOrder.price.discount
           typed == IF sale = NoOne THEN theOrder.price.sale ELSE sale
           kept == [theOrder.price EXCEPT !.discount = theOrder.price.discount, !.sale = typed]
<1>1. request[h].order = theOrder /\ theOrder.source # "absent"
  BY DEF EditInternal, SerialPrices, Snapshots
<1>2. /\ theOrder' = [theOrder EXCEPT !.route = route, !.enclosed = enclosed,
                     !.price = IF reprice THEN PriceColumns(price, discount) ELSE kept]
      /\ reprice => Priceable(list) /\ Discountable(discount) /\ terms' = settings
      /\ ~reprice => terms' = terms /\ byHand' = (byHand \/ sale # NoOne)
      /\ Answered(h) /\ quote' = quote
  BY <1>1 DEF EditInternal, Priced
<1>3. discount \in Percents /\ settings \in Terms /\ theOrder.price \in PriceRow /\ theOrder \in OrderRows
  BY DEF SerialPrices, PInv, PricesTyped, OrderRows, PriceRow
<1>4. theOrder'.source # "absent" /\ theOrder'.price = IF reprice THEN PriceColumns(price, discount) ELSE kept
  BY <1>1, <1>2, <1>3 DEF OrderRows
<1>5. ASSUME reprice PROVE OrderOK'
  <2>1. price \in Nat
    BY <1>2, <1>5, Facts, ListsOK, PriceNat DEF SerialPrices, PInv, PricesTyped
  <2> HIDE DEF price, discount, reprice
  <2> QED BY <1>2, <1>3, <1>4, <1>5, <2>1, RepricedOK DEF PriceColumns
<1>6. ASSUME ~reprice, sale = NoOne PROVE OrderOK'
  <2>1. kept = theOrder.price
    BY <1>3, <1>6 DEF PriceRow
  <2>2. byHand' = byHand
    BY <1>2, <1>6 DEF SerialPrices, PInv, PricesTyped
  <2> HIDE DEF kept, reprice
  <2>3. theOrder'.price = theOrder.price /\ terms' = terms
    BY <1>2, <1>4, <1>6, <2>1
  <2> QED BY <1>1, <1>4, <2>2, <2>3, SamePrice DEF SerialPrices
<1>7. ASSUME ~reprice, sale # NoOne PROVE OrderOK'
  <2>1. byHand'
    BY <1>2, <1>7
  <2>2. /\ theOrder'.price.initial = theOrder.price.initial /\ theOrder'.price.discount = theOrder.price.discount
        /\ theOrder'.price.withDiscount = theOrder.price.withDiscount
    BY <1>3, <1>4, <1>7 DEF PriceRow
  <2>3. MarginKept'
    BY <2>1 DEF MarginKept
  <2>4. DiscountShown'
    BY <2>2 DEF DiscountShown, DiscountPrice, Percent, SerialPrices, OrderOK
  <2> QED BY <1>4, <2>2, <2>3, <2>4 DEF SerialPrices, OrderOK
<1>8. quote.status # "open"
  BY <1>1 DEF SerialPrices, QuoteOK
<1> QED BY <1>2, <1>5, <1>6, <1>7, <1>8, DoneAlone, QuoteClosed DEF SerialPrices, PInv

LEMMA EditExternalSerial ==
  ASSUME OneHandler, SerialPrices, NEW h \in Handlers, NEW list \in Lists,
         NEW whole \in BOOLEAN, NEW route \in Routes, NEW enclosed \in Trailers,
         NEW sale \in {NoOne, HandPrice}, EditExternal(h, list, whole, route, enclosed, sale)
  PROVE  Snapshots' /\ QuoteOK' /\ OrderOK'
<1>1. theOrder.source # "absent"
  BY DEF EditExternal, SerialPrices, Snapshots
<1>2. Answered(h) /\ quote' = quote /\ terms' = terms /\ byHand' = (byHand \/ sale # NoOne)
      /\ theOrder \in OrderRows /\ theOrder.price \in PriceRow
  BY DEF EditExternal, SerialPrices, PInv, PricesTyped, OrderRows
<1>3. theOrder'.source = theOrder.source
      /\ theOrder'.price = [theOrder.price EXCEPT !.sale = IF sale = NoOne THEN theOrder.price.sale ELSE sale]
  BY <1>2 DEF EditExternal, OrderRows
<1>4. ASSUME sale = NoOne PROVE OrderOK'
  <2>1. theOrder'.price = theOrder.price
    BY <1>2, <1>3, <1>4 DEF PriceRow
  <2>2. byHand' = byHand
    BY <1>2, <1>4 DEF SerialPrices, PInv, PricesTyped
  <2> QED BY <1>1, <1>2, <1>3, <2>1, <2>2, SamePrice DEF SerialPrices
<1>5. ASSUME sale # NoOne PROVE OrderOK'
  <2>1. byHand'
    BY <1>2, <1>5
  <2>2. /\ theOrder'.price.initial = theOrder.price.initial /\ theOrder'.price.discount = theOrder.price.discount
        /\ theOrder'.price.withDiscount = theOrder.price.withDiscount
    BY <1>2, <1>3 DEF PriceRow
  <2>3. MarginKept'
    BY <2>1 DEF MarginKept
  <2>4. DiscountShown'
    BY <2>2 DEF DiscountShown, DiscountPrice, Percent, SerialPrices, OrderOK
  <2> QED BY <1>1, <1>3, <2>2, <2>3, <2>4 DEF SerialPrices, OrderOK
<1>6. quote.status # "open"
  BY <1>1 DEF SerialPrices, QuoteOK
<1> QED BY <1>2, <1>4, <1>5, <1>6, DoneAlone, QuoteClosed DEF SerialPrices, PInv

-----------------------------------------------------------------------------
(* Prices, one request at a time: every step. *)

\* A request reads a row: nothing else changes.
LEMMA ReadSerial ==
  ASSUME OneHandler, SerialPrices, NEW h \in Handlers,
         QuoteDiscountRead(h) \/ DiscountRead(h) \/ EditRead(h) \/ Refuse(h)
  PROVE  Snapshots' /\ QuoteOK' /\ OrderOK'
<1>1. UNCHANGED <<quote, theOrder, settings, rate, car, asQuoted, terms, byHand>>
  BY DEF QuoteDiscountRead, DiscountRead, EditRead, Refuse, history
<1>2. ASSUME QuoteDiscountRead(h) PROVE Snapshots'
  <2>1. request'[h].step = "quoteDiscount" /\ request'[h].price = quote.price
    BY <1>2 DEF QuoteDiscountRead, NoRequest, SerialPrices, PInv, PricesTyped
  <2> QED BY <1>1, <2>1 DEF OneHandler, Snapshots
<1>3. ASSUME DiscountRead(h) PROVE Snapshots'
  <2>1. request'[h].step = "discount" /\ request'[h].price = theOrder.price /\ theOrder.source # "absent"
    BY <1>3 DEF DiscountRead, NoRequest, SerialPrices, PInv, PricesTyped
  <2> QED BY <1>1, <2>1 DEF OneHandler, Snapshots
<1>4. ASSUME EditRead(h) PROVE Snapshots'
  <2>1. request'[h].step = "edit" /\ request'[h].order = theOrder /\ theOrder.source # "absent"
    BY <1>4 DEF EditRead, NoRequest, SerialPrices, PInv, PricesTyped
  <2> QED BY <1>1, <2>1 DEF OneHandler, Snapshots
<1>5. ASSUME Refuse(h) PROVE Snapshots'
  BY <1>5, DoneAlone DEF Refuse, SerialPrices, PInv
<1>6. Snapshots'
  BY <1>2, <1>3, <1>4, <1>5
<1> QED BY <1>1, <1>6, QuoteSame, OrderSame DEF SerialPrices

LEMMA PlainlySerial ==
  ASSUME OneHandler, SerialPrices, NEW h \in Handlers, Plainly(h)
  PROVE  Snapshots' /\ QuoteOK' /\ OrderOK'
<1>1. CASE QuoteDiscountRead(h) \/ DiscountRead(h) \/ EditRead(h) \/ Refuse(h)
  BY <1>1, ReadSerial
<1>2. CASE (\E d \in Discounts : QuoteDiscountWrite(h, d)) \/ \E d \in Discounts : DiscountWrite(h, d)
  BY <1>2, QuoteDiscountSerial, DiscountSerial
<1>3. ASSUME NEW b \in BOOLEAN, Publish(h, b) \/ Take(h, b) PROVE Snapshots' /\ QuoteOK' /\ OrderOK'
  <2>1. /\ quote' = quote /\ request' = request /\ UNCHANGED <<terms, byHand>>
        /\ Called(h, "publish") \/ Called(h, "take")
    BY <1>3 DEF Publish, Take, history
  <2>2. theOrder.source # "absent" /\ theOrder'.source = theOrder.source /\ theOrder'.price = theOrder.price
    BY <1>3 DEF Publish, Take, SerialPrices, PInv, PricesTyped, OrderRows
  <2>3. quote.status # "open"
    BY <2>2 DEF SerialPrices, QuoteOK
  <2>4. Snapshots'
    BY <2>1, CalledAlone
  <2> QED BY <2>1, <2>2, <2>3, <2>4, QuoteClosed, SamePrice DEF SerialPrices
<1>4. CASE Setting(h)
  <2>1. /\ quote' = quote /\ request' = request /\ UNCHANGED <<theOrder, terms, byHand>> /\ ~asQuoted'
        /\ Called(h, "settings") \/ Called(h, "policy")
    BY <1>4 DEF Setting, PatchGeneral, SetPolicy, SyncPolicies
  <2>2. QuoteOK'
    BY <2>1 DEF SerialPrices, QuoteOK
  <2>3. Snapshots'
    BY <2>1, CalledAlone
  <2> QED BY <2>1, <2>2, <2>3, OrderSame DEF SerialPrices
<1> QED BY <1>1, <1>2, <1>3, <1>4 DEF Plainly

LEMMA UnchangedPrices ==
  ASSUME SerialPrices, UNCHANGED <<quote, theOrder, settings, rate, car, asQuoted, terms, byHand, request>>
  PROVE  Snapshots' /\ QuoteOK' /\ OrderOK'
<1>1. Snapshots'
  BY DEF SerialPrices, Snapshots
<1> QED BY <1>1, QuoteSame, OrderSame DEF SerialPrices

LEMMA PricingSerialNext ==
  ASSUME OneHandler, SerialPrices, [PricingNext]_pricingVars
  PROVE  SerialPrices'
<1> DEFINE Good == Snapshots' /\ QuoteOK' /\ OrderOK'
<1>1. PInv'
  BY PricingNextTyped DEF SerialPrices
<1>2. CASE UNCHANGED pricingVars
  <2>1. UNCHANGED <<quote, theOrder, settings, rate, car, asQuoted, terms, byHand, request>>
    BY <1>2 DEF pricingVars, history
  <2> QED BY <1>1, <2>1, UnchangedPrices DEF SerialPrices
<1>3. CASE Expire
  <2>1. UNCHANGED <<quote, theOrder, settings, rate, car, asQuoted, terms, byHand, request>>
    BY <1>3 DEF Expire, history
  <2> QED BY <1>1, <2>1, UnchangedPrices DEF SerialPrices
<1>4. ASSUME NEW h \in Handlers, Plainly(h) \/ Book(h) PROVE Good
  BY <1>4, PlainlySerial, BookSerial
<1>5. ASSUME NEW h \in Handlers, NEW list \in Lists, NEW route \in Routes,
             NEW enclosed \in Trailers, Listed(h, list, route, enclosed)
      PROVE  Good
  BY <1>5, ListedSerial
<1>6. ASSUME NEW h \in Handlers, NEW list \in Lists, NEW whole \in BOOLEAN, PatchQuote(h, list, whole)
      PROVE  Good
  BY <1>6, PatchQuoteSerial
<1>7. ASSUME NEW h \in Handlers, NEW c \in Cars, NEW extras \in SUBSET Extras, EditCar(h, c, extras)
      PROVE  Good
  BY <1>7, EditCarSerial
<1>8. ASSUME NEW h \in Handlers, NEW list \in Lists, NEW whole \in BOOLEAN, NEW route \in Routes,
             NEW enclosed \in Trailers, NEW sale \in {NoOne, HandPrice},
             Edited(h, list, whole, route, enclosed, sale)
      PROVE  Good
  BY <1>8, EditInternalSerial, EditExternalSerial DEF Edited
<1>9. CASE PricingNext
  <2> HIDE DEF Good
  <2>1. Expire \/ Good
    BY <1>4, <1>5, <1>6, <1>7, <1>8, <1>9, PricingSteps
  <2> QED BY <1>1, <1>3, <2>1 DEF SerialPrices, Good
<1> QED BY <1>2, <1>9

LEMMA PricingSerialInit ==
  ASSUME PricingInit
  PROVE  SerialPrices
<1>1. PInv
  <2>1. QuoteCars
    BY DEF QuoteCars, PricingInit, NoCar
  <2> QED BY <2>1, PricesTypedInit DEF PInv
<1>2. quote = NoQuote /\ theOrder = NoOrder /\ \A h \in Handlers : request[h] = NoRequest
  BY DEF PricingInit
<1>3. Snapshots /\ QuoteOK
  BY <1>2 DEF Snapshots, QuoteOK, NoQuote, NoPrices, NoRequest
<1>4. DiscountPrice(0, 0) = 0
  BY DiscountLowers DEF Percents
<1>5. OrderOK
  BY <1>2, <1>4 DEF OrderOK, MarginKept, DiscountShown, NoOrder, NoPrices
<1> QED BY <1>1, <1>3, <1>5 DEF SerialPrices

LEMMA PricingSerial ==
  ASSUME OneHandler
  PROVE  PricingSpec => []SerialPrices
<1>1. PricingInit => SerialPrices
  BY PricingSerialInit
<1>2. SerialPrices /\ [PricingNext]_pricingVars => SerialPrices'
  BY PricingSerialNext
<1> QED BY <1>1, <1>2, PTL DEF PricingSpec

\* One request at a time, what an order is priced at leaves, after the
\* carrier's price and the fee, the least profit of the settings it was
\* priced under, through every discount and edit, unless the carrier's price
\* was entered by hand.
THEOREM MarginKeptHolds ==
  ASSUME OneHandler
  PROVE  PricingSpec => []MarginKept
<1>1. SerialPrices => MarginKept
  BY DEF SerialPrices, OrderOK
<1> QED BY <1>1, PricingSerial, PTL

\* One request at a time, the discounted price of an order is its price less
\* the discount that it names.
THEOREM DiscountShownHolds ==
  ASSUME OneHandler
  PROVE  PricingSpec => []DiscountShown
<1>1. SerialPrices => DiscountShown
  BY DEF SerialPrices, OrderOK
<1> QED BY <1>1, PricingSerial, PTL

-----------------------------------------------------------------------------
(* Prices, one request at a time: what a step may not do. *)

\* Unless the discount changes, only an edit of an order in progress raises
\* its price, and only a new price does.
LEMMA RaisedByEdit ==
  ASSUME OneHandler, SerialPrices, [PricingNext]_pricingVars,
         theOrder.published, ~theOrder.taken, theOrder'.price.withDiscount > theOrder.price.withDiscount,
         theOrder'.price.discount = theOrder.price.discount
  PROVE  Confirmed(theOrder'.price.withDiscount)
<1>1. theOrder.source # "absent" /\ quote.status # "open" /\ theOrder \in OrderRows
      /\ theOrder.price \in PriceRow
  BY DEF SerialPrices, QuoteOK, OrderOK, NoOrder, PInv, PricesTyped, OrderRows
<1>2. theOrder'.price.withDiscount # theOrder.price.withDiscount
  BY <1>1 DEF PriceRow
<1>3. theOrder' # theOrder
  BY <1>2
<1>4. PricingNext /\ ~Expire
  BY <1>3 DEF pricingVars, history, Expire
<1>5. ASSUME NEW h \in Handlers, Plainly(h) \/ Book(h) PROVE FALSE
  <2>1. ASSUME NEW d \in Discounts, DiscountWrite(h, d) PROVE FALSE
    <3>1. request[h].price = theOrder.price
      BY <2>1 DEF DiscountWrite, SerialPrices, Snapshots
    <3>2. theOrder'.price.discount = d
          /\ theOrder'.price.withDiscount = DiscountPrice(theOrder.price.initial, d)
      BY <1>1, <2>1, <3>1 DEF DiscountWrite, OrderRows, PriceRow
    <3> QED BY <1>2, <3>2 DEF SerialPrices, OrderOK, DiscountShown
  <2>2. ASSUME NEW b \in BOOLEAN, Publish(h, b) \/ Take(h, b) PROVE FALSE
    BY <1>1, <1>2, <2>2 DEF Publish, Take, OrderRows
  <2>3. CASE Book(h)
    BY <1>1, <2>3 DEF Book
  <2>4. CASE QuoteDiscountRead(h) \/ DiscountRead(h) \/ EditRead(h) \/ Refuse(h)
             \/ (\E d \in Discounts : QuoteDiscountWrite(h, d)) \/ Setting(h)
    BY <1>3, <2>4 DEF QuoteDiscountRead, DiscountRead, EditRead, Refuse,
         QuoteDiscountWrite, Setting, PatchGeneral, SetPolicy, SyncPolicies
  <2> QED BY <1>5, <2>1, <2>2, <2>3, <2>4 DEF Plainly
<1>6. ASSUME NEW h \in Handlers, NEW list \in Lists, NEW route \in Routes,
             NEW enclosed \in Trailers, Listed(h, list, route, enclosed)
      PROVE  FALSE
  BY <1>1, <1>3, <1>6 DEF Listed, CreateQuote, CreateOrder, ImportOrder, ShowPrice
<1>7. ASSUME NEW h \in Handlers, NEW list \in Lists, NEW whole \in BOOLEAN, PatchQuote(h, list, whole)
      PROVE  FALSE
  BY <1>3, <1>7 DEF PatchQuote
<1>8. ASSUME NEW h \in Handlers, NEW c \in Cars, NEW extras \in SUBSET Extras, EditCar(h, c, extras)
      PROVE  FALSE
  BY <1>3, <1>8 DEF EditCar
<1>9. ASSUME NEW h \in Handlers, NEW list \in Lists, NEW whole \in BOOLEAN, NEW route \in Routes,
             NEW enclosed \in Trailers, NEW sale \in {NoOne, HandPrice},
             Edited(h, list, whole, route, enclosed, sale)
      PROVE  Confirmed(theOrder'.price.withDiscount)
  <2>1. CASE EditExternal(h, list, whole, route, enclosed, sale)
    BY <1>1, <1>2, <2>1 DEF EditExternal, OrderRows, PriceRow
  <2>2. ASSUME NEW keep \in BOOLEAN, EditInternal(h, list, whole, route, enclosed, keep, sale)
        PROVE  Confirmed(theOrder'.price.withDiscount)
    <3> DEFINE reprice == (route # theOrder.route \/ CarsUpdated(list, whole)) /\ ~keep
               priced == Priced(list, route, enclosed, theOrder.price.discount)
    <3>1. request[h].order = theOrder
      BY <2>2 DEF EditInternal, SerialPrices, Snapshots
    <3>2. reprice /\ MustConfirm(theOrder) => Confirmed(priced.withDiscount)
      BY <2>2, <3>1 DEF EditInternal
    <3>3. ~reprice => theOrder'.price.withDiscount = theOrder.price.withDiscount
      BY <1>1, <2>2, <3>1 DEF EditInternal, OrderRows, PriceRow
    <3>4. reprice => theOrder'.price = priced
      BY <1>1, <2>2, <3>1 DEF EditInternal, OrderRows
    <3> HIDE DEF reprice, priced
    <3> QED BY <1>2, <3>2, <3>3, <3>4 DEF MustConfirm
  <2> QED BY <1>9, <2>1, <2>2 DEF Edited
<1> QED BY <1>4, <1>5, <1>6, <1>7, <1>8, <1>9, PricingSteps

LEMMA BookedCheaply ==
  ASSUME OneHandler, SerialPrices, [PricingNext]_pricingVars,
         quote.status = "open", quote'.status = "booked", asQuoted
  PROVE  theOrder'.price.withDiscount <= quote.price.withDiscount
<1>1. \E h \in Handlers : Book(h)
  <2>1. quote' # quote
    OBVIOUS
  <2>2. PricingNext /\ ~Expire
    BY <2>1 DEF pricingVars, history, Expire
  <2>3. ASSUME NEW h \in Handlers, Plainly(h) PROVE FALSE
    BY <2>1, <2>3 DEF Plainly, QuoteDiscountRead, DiscountRead, EditRead, Refuse, Publish,
         Take, DiscountWrite, QuoteDiscountWrite, Setting, PatchGeneral, SetPolicy,
         SyncPolicies, SerialPrices, PInv, PricesTyped, QuoteRows
  <2>4. ASSUME NEW h \in Handlers, NEW list \in Lists, NEW route \in Routes,
               NEW enclosed \in Trailers, Listed(h, list, route, enclosed)
        PROVE  FALSE
    BY <2>1, <2>4 DEF Listed, CreateQuote, CreateOrder, ImportOrder, ShowPrice
  <2>5. ASSUME NEW h \in Handlers, NEW list \in Lists, NEW whole \in BOOLEAN,
               PatchQuote(h, list, whole)
        PROVE  FALSE
    BY <2>5 DEF PatchQuote, Requoted, SerialPrices, PInv, PricesTyped, QuoteRows
  <2>6. ASSUME NEW h \in Handlers, NEW c \in Cars, NEW extras \in SUBSET Extras, EditCar(h, c, extras)
        PROVE  FALSE
    BY <2>6 DEF EditCar, Requoted, SerialPrices, PInv, PricesTyped, QuoteRows
  <2>7. ASSUME NEW h \in Handlers, NEW list \in Lists, NEW whole \in BOOLEAN, NEW route \in Routes,
               NEW enclosed \in Trailers, NEW sale \in {NoOne, HandPrice},
               Edited(h, list, whole, route, enclosed, sale)
        PROVE  FALSE
    BY <2>1, <2>7 DEF Edited, EditInternal, EditExternal
  <2> QED BY <2>2, <2>3, <2>4, <2>5, <2>6, <2>7, PricingSteps
<1>2. PICK h \in Handlers : Book(h)
  BY <1>1
<1> DEFINE p == quote.price
           price == CarsDeliveryPrice(ListOf("quote"), quote.enclosed, Miles[quote.route])
<1>3. p.initial = price
  BY PricedAt DEF SerialPrices, QuoteOK, AsQuotedOK
<1>4. theOrder'.price.withDiscount = DiscountPrice(price, p.discount)
  BY <1>2 DEF Book, Priced, PriceColumns
<1>5. p.initial \in Nat /\ p.discount \in Percents
  BY DEF SerialPrices, QuoteOK, PInv, PricesTyped, QuoteRows, PriceRow
<1>6. p.withDiscount = p.initial \/ p.withDiscount = DiscountPrice(p.initial, p.discount)
  BY DEF SerialPrices, QuoteOK, AsQuotedOK
<1> HIDE DEF price, p
<1>7. DiscountPrice(p.initial, p.discount) <= p.initial
      /\ DiscountPrice(p.initial, p.discount) \in Int
  BY <1>5, DiscountLowers DEF DiscountPrice, Percent, Percents
<1>8. theOrder'.price.withDiscount <= p.withDiscount
  BY <1>3, <1>4, <1>5, <1>6, <1>7
<1> QED BY <1>8 DEF p

\* One request at a time, an order that waits on the load board gets dearer,
\* unless its discount changes, only by a price its customer was shown
\* (OrderService.patchInternal, checkHashIsValid).
THEOREM ConfirmedBeforeRaisedHolds ==
  ASSUME OneHandler
  PROVE  PricingSpec => ConfirmedBeforeRaised
<1>1. SerialPrices /\ [PricingNext]_pricingVars =>
        [theOrder.published /\ ~theOrder.taken
           /\ theOrder'.price.withDiscount > theOrder.price.withDiscount
           /\ theOrder'.price.discount = theOrder.price.discount
         => Confirmed(theOrder'.price.withDiscount)]_pricingVars
  BY RaisedByEdit
<1> QED BY <1>1, PricingSerial, PTL DEF PricingSpec, ConfirmedBeforeRaised

\* One request at a time, a quote that was priced under the settings in force
\* is booked at no more than it quoted, discounted or not yet.
THEOREM BookedAtMostQuotedHolds ==
  ASSUME OneHandler
  PROVE  PricingSpec => BookedAtMostQuoted
<1>1. SerialPrices /\ [PricingNext]_pricingVars =>
        [quote.status = "open" /\ quote'.status = "booked" /\ asQuoted
         => theOrder'.price.withDiscount <= quote.price.withDiscount]_pricingVars
  BY BookedCheaply
<1> QED BY <1>1, PricingSerial, PTL DEF PricingSpec, BookedAtMostQuoted
=============================================================================
