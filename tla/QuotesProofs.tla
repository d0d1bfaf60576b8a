----------------------------- MODULE QuotesProofs -----------------------------
(***************************************************************************)
(* Quotes for any number of clients, rows and requests.  For requests that *)
(* overlap: types, and nobody gets another's quote.  For one request at a  *)
(* time: a lead names a customer, a link makes one lead, and a quote is    *)
(* booked once.                                                            *)
(***************************************************************************)
EXTENDS Quotes, FiniteSetTheorems, TLAPS

\* Row k of cu has, or had, the address p.
IsOf(k, p, cu) == p \in cu[k].carried

\* A quote of client p: the one it was made for, or the one whose address its
\* customer row carries or carried.
Theirs(q, p, cu, or) ==
  IF or[q].customer = NoOne THEN p = or[q].client
  ELSE IsOf(or[q].customer, or[q].client, cu) /\ IsOf(or[q].customer, p, cu)

\* The owner and the customer of a row, now in the table or read from it
\* before, are those the quote was made for.
RowFor(row, q, cu, ac, or) ==
  /\ row.owner # NoOne => row.owner \in ac /\ Theirs(q, row.owner, cu, or)
  /\ row.customer # NoOne => row.customer = or[q].customer
                            /\ IsOf(row.customer, or[q].client, cu)

\* A row in the table: its foreign key holds.
QuoteFor(row, q, cu, ac, or) ==
  /\ RowFor(row, q, cu, ac, or)
  /\ row.customer # NoOne => cu[row.customer].status = "live"
  /\ row.status \in {"absent", "removed"} => row.customer = NoOne

\* The locals a step relies on.
LocalFor(r, qu, cu, ac, or) ==
  /\ r.step # "insert" => \A q \in r.quotes : qu[q].status # "absent"
  /\ r.step \in {"insert", "look"} /\ r.customer # NoOne => IsOf(r.customer, r.client, cu)
  /\ r.step = "name" => r.temp # NoOne
  /\ r.step \in {"adopt", "send"} => \A q \in r.quotes : Theirs(q, r.client, cu, or)
  /\ r.step \in {"find", "look", "adopt"} => r.client \in ac
  /\ r.step = "edit" => /\ r.row.status \notin {"absent", "removed"}
                        /\ \A q \in r.quotes : RowFor(r.row, q, cu, ac, or)

Tables == <<quote, customer, account, origin>>

\* The address of a row is one it has carried, and a row to come has none.
Blank(cu) == \A k \in Customers : cu[k].status = "absent" => cu[k].carried = {}
Carries(cu) ==
  Blank(cu) /\ \A k \in Customers : cu[k].status = "live" => IsOf(k, cu[k].email, cu)

IInv ==
  /\ TypeOK
  /\ Carries(customer)
  /\ \A q \in Quotes : QuoteFor(quote[q], q, customer, account, origin)
  /\ \A h \in Handlers : LocalFor(handler[h], quote, customer, account, origin)

\* What no step undoes.
Grown ==
  /\ account \subseteq account'
  /\ \A q \in Quotes : quote[q].status # "absent" =>
       quote'[q].status # "absent" /\ origin'[q] = origin[q]
  /\ \A k \in Customers : \A p : IsOf(k, p, customer) => IsOf(k, p, customer')

-----------------------------------------------------------------------------
LEMMA IdleTyped == Idle \in Locals /\ NoQuote \in QuoteRow /\ Idle.step = "idle" /\ Idle.quotes = {}
BY DEF Idle, NoQuote, Locals, Steps, QuoteRow, QUOTE_STATUS

LEMMA IdleFor ==
  ASSUME NEW qu, NEW cu, NEW ac, NEW or
  PROVE  LocalFor(Idle, qu, cu, ac, or)
BY IdleTyped DEF LocalFor

\* A row that was right stays right.
LEMMA RowGrows ==
  ASSUME IInv, Grown, NEW q \in Quotes, quote[q].status # "absent", NEW row \in QuoteRow,
         RowFor(row, q, customer, account, origin)
  PROVE  RowFor(row, q, customer', account', origin')
<1>1. /\ origin'[q] = origin[q] /\ account \subseteq account'
      /\ \A k \in Customers : \A p : IsOf(k, p, customer) => IsOf(k, p, customer')
  BY DEF Grown
<1>2. origin[q].customer \in Customers \cup {NoOne} /\ row.customer \in Customers \cup {NoOne}
  BY DEF IInv, TypeOK, Origin, QuoteRow
<1> QED BY <1>1, <1>2 DEF RowFor, Theirs

\* Who has a quote keeps it.
LEMMA TheirsGrows ==
  ASSUME IInv, Grown, NEW q \in Quotes, quote[q].status # "absent", NEW p,
         Theirs(q, p, customer, origin)
  PROVE  Theirs(q, p, customer', origin')
<1>1. origin[q].customer \in Customers \cup {NoOne}
  BY DEF IInv, TypeOK, Origin
<1> QED BY <1>1 DEF Grown, Theirs

LEMMA LocalGrows ==
  ASSUME IInv, Grown, NEW r \in Locals, LocalFor(r, quote, customer, account, origin)
  PROVE  LocalFor(r, quote', customer', account', origin')
<1>1. r.quotes \subseteq Quotes /\ r.row \in QuoteRow /\ r.customer \in Customers \cup {NoOne}
  BY DEF Locals
<1>2. r.step # "insert" => \A q \in r.quotes : quote'[q].status # "absent" /\ origin'[q] = origin[q]
  BY <1>1 DEF LocalFor, Grown
<1>2a. r.step \in {"adopt", "send"} => \A q \in r.quotes : Theirs(q, r.client, customer', origin')
  BY <1>1, TheirsGrows DEF LocalFor
<1>3. r.step \in {"insert", "look"} /\ r.customer # NoOne => IsOf(r.customer, r.client, customer')
  BY <1>1 DEF LocalFor, Grown
<1>4. r.step \in {"find", "look", "adopt"} => r.client \in account'
  BY DEF LocalFor, Grown
<1>5. r.step = "edit" => /\ r.row.status \notin {"absent", "removed"}
                       /\ \A q \in r.quotes : RowFor(r.row, q, customer', account', origin')
  BY <1>1, RowGrows DEF LocalFor
<1> QED BY <1>2, <1>2a, <1>3, <1>4, <1>5 DEF LocalFor

LEMMA StandStill ==
  ASSUME UNCHANGED Tables PROVE Grown
BY DEF Grown, Tables, IsOf

\* The end of every step: h keeps the locals r.
LEMMA StepInv ==
  ASSUME IInv, Grown, NEW h \in Handlers, NEW r \in Locals,
         handler' = [handler EXCEPT ![h] = r],
         LocalFor(r, quote', customer', account', origin'),
         \A q \in Quotes : QuoteFor(quote'[q], q, customer', account', origin'),
         quote' \in [Quotes -> QuoteRow],
         customer' \in [Customers -> CustomerRow],
         account' \subseteq Clients,
         orderQuote' \in [Orders -> Quotes \cup {NoOne}],
         temp' \in [TemporaryLeads -> TempRow],
         origin' \in [Quotes -> Origin], Carries(customer'),
         lost' \subseteq TemporaryLeads, again' \subseteq Quotes
  PROVE  IInv'
<1>1. handler' \in [Handlers -> Locals] /\ handler \in [Handlers -> Locals]
  BY DEF IInv, TypeOK
<1>2. TypeOK'
  BY <1>1 DEF TypeOK
<1>3. ASSUME NEW g \in Handlers
      PROVE  LocalFor(handler'[g], quote', customer', account', origin')
  BY <1>1, LocalGrows DEF IInv
<1> QED BY <1>2, <1>3 DEF IInv

\* A step of nobody's: the locals stay.
LEMMA TableInv ==
  ASSUME IInv, Grown, UNCHANGED handler,
         \A q \in Quotes : QuoteFor(quote'[q], q, customer', account', origin'),
         Carries(customer'), TypeOK'
  PROVE  IInv'
<1>1. handler \in [Handlers -> Locals]
  BY DEF IInv, TypeOK
<1>2. \A g \in Handlers : LocalFor(handler'[g], quote', customer', account', origin')
  BY <1>1, LocalGrows DEF IInv
<1> QED BY <1>2 DEF IInv

\* A step that reads, or ends.
LEMMA KeepInv ==
  ASSUME IInv, NEW h \in Handlers, NEW r \in Locals, Keep(h, r),
         LocalFor(r, quote, customer, account, origin),
         UNCHANGED <<quote, customer, account, orderQuote, origin, again>>,
         temp' \in [TemporaryLeads -> TempRow], lost' \subseteq TemporaryLeads
  PROVE  IInv'
<1>1. Grown
  BY StandStill DEF Tables
<1>2. handler' = [handler EXCEPT ![h] = r]
  BY DEF Keep
<1>3. /\ LocalFor(r, quote', customer', account', origin')
      /\ \A q \in Quotes : QuoteFor(quote'[q], q, customer', account', origin')
  BY DEF IInv
<1> QED BY <1>1, <1>2, <1>3, StepInv DEF IInv, TypeOK

-----------------------------------------------------------------------------
(* What the steps write. *)

LEMMA QuoteTyped ==
  ASSUME IInv, NEW q \in Quotes
  PROVE  /\ quote[q] \in QuoteRow /\ quote \in [Quotes -> QuoteRow]
         /\ QuoteFor(quote[q], q, customer, account, origin)
BY DEF IInv, TypeOK

\* One row of the quote table.
LEMMA OneQuote ==
  ASSUME IInv, NEW q \in Quotes, NEW row \in QuoteRow, row.status # "absent",
         QuoteFor(row, q, customer, account, origin),
         quote' = [quote EXCEPT ![q] = row], UNCHANGED <<customer, account, origin>>
  PROVE  /\ Grown /\ quote' \in [Quotes -> QuoteRow]
         /\ \A p \in Quotes : QuoteFor(quote'[p], p, customer', account', origin')
<1>1. quote \in [Quotes -> QuoteRow]
  BY QuoteTyped
<1>2. \A p \in Quotes : quote'[p] = IF p = q THEN row ELSE quote[p]
  BY <1>1
<1>3. Grown
  BY <1>2 DEF Grown
<1>4. \A p \in Quotes : QuoteFor(quote'[p], p, customer', account', origin')
  BY <1>2 DEF IInv
<1> QED BY <1>1, <1>3, <1>4

\* The rows that become a client's.
LEMMA AdoptedRows ==
  ASSUME IInv, NEW p \in account, NEW S \in SUBSET Quotes,
         \A q \in S : Theirs(q, p, customer, origin),
         quote' = Adopted(S, p), UNCHANGED <<customer, account, origin>>
  PROVE  /\ Grown /\ quote' \in [Quotes -> QuoteRow]
         /\ \A q \in Quotes : QuoteFor(quote'[q], q, customer', account', origin')
<1>0. p \in Clients /\ p # NoOne
  BY NoOneAssumption DEF IInv, TypeOK
<1>1. ASSUME NEW q \in Quotes
      PROVE  /\ quote'[q] \in QuoteRow
             /\ quote[q].status # "absent" => quote'[q].status # "absent"
             /\ QuoteFor(quote'[q], q, customer, account, origin)
  <2>1. CASE q \in S /\ Exists(q)
    <3>1. quote'[q] = [quote[q] EXCEPT !.owner = p, !.status = "new", !.customer = NoOne]
      BY <2>1 DEF Adopted
    <3>2. quote'[q] \in QuoteRow
      BY <1>0, <3>1, QuoteTyped DEF QuoteRow, QUOTE_STATUS
    <3>3. quote'[q].owner = p /\ quote'[q].status = "new" /\ quote'[q].customer = NoOne
      BY <3>1, QuoteTyped DEF QuoteRow
    <3> QED BY <2>1, <3>2, <3>3 DEF QuoteFor, RowFor
  <2>2. CASE ~(q \in S /\ Exists(q))
    BY <2>2, QuoteTyped DEF Adopted
  <2> QED BY <2>1, <2>2
<1>2. quote' \in [Quotes -> QuoteRow]
  BY <1>1 DEF Adopted
<1>3. Grown
  BY <1>1 DEF Grown
<1> QED BY <1>1, <1>2, <1>3

\* A new row for an address: no id in use was absent.
LEMMA NewCustomerGrows ==
  ASSUME IInv, NEW k \in Customers, NEW p \in Clients \cup {NoOne}, NEW b \in BOOLEAN,
         NewCustomer(k, p, b)
  PROVE  /\ Carries(customer')
         /\ customer' \in [Customers -> CustomerRow]
         /\ customer'[k].status = "live" /\ IsOf(k, p, customer')
         /\ \A j \in Customers : \A x : IsOf(j, x, customer) => IsOf(j, x, customer')
         /\ \A j \in Customers : customer[j].status = "live" => customer'[j].status = "live"
<1> DEFINE row == [status |-> "live", email |-> p, party |-> b, carried |-> {p}]
<1>1. customer \in [Customers -> CustomerRow] /\ Carries(customer) /\ Blank(customer)
  BY DEF IInv, TypeOK, Carries
<1>2. customer[k].status = "absent" /\ customer' = [customer EXCEPT ![k] = row]
  BY DEF NewCustomer
<1>3. /\ row \in CustomerRow /\ row.status = "live" /\ row.email = p /\ row.carried = {p}
  BY DEF CustomerRow
<1> HIDE DEF row
<1>4. /\ customer' \in [Customers -> CustomerRow]
      /\ \A j \in Customers : customer'[j] = IF j = k THEN row ELSE customer[j]
  BY <1>1, <1>2, <1>3
<1>5. Carries(customer')
  BY <1>1, <1>3, <1>4 DEF Carries, IsOf, Blank
<1>6. \A j \in Customers : \A x : IsOf(j, x, customer) => IsOf(j, x, customer')
  BY <1>1, <1>2, <1>4 DEF IsOf, Blank
<1> QED BY <1>2, <1>3, <1>4, <1>5, <1>6 DEF IsOf, Blank

\* A row of the table that no step writes stays right while customers do.
LEMMA QuoteGrows ==
  ASSUME IInv, NEW q \in Quotes, NEW row \in QuoteRow,
         QuoteFor(row, q, customer, account, origin),
         account \subseteq account', origin'[q] = origin[q],
         \A k \in Customers : \A x : IsOf(k, x, customer) => IsOf(k, x, customer'),
         row.customer # NoOne => customer'[row.customer].status = "live"
  PROVE  QuoteFor(row, q, customer', account', origin')
<1>1. origin[q].customer \in Customers \cup {NoOne} /\ row.customer \in Customers \cup {NoOne}
  BY DEF IInv, TypeOK, Origin, QuoteRow
<1>2. row.owner # NoOne => row.owner \in account' /\ Theirs(q, row.owner, customer', origin')
  BY <1>1 DEF QuoteFor, RowFor, Theirs
<1>3. row.customer # NoOne => row.customer = origin'[q].customer
                             /\ IsOf(row.customer, origin'[q].client, customer')
  BY <1>1 DEF QuoteFor, RowFor
<1> QED BY <1>2, <1>3 DEF QuoteFor, RowFor

\* A step that writes customers and neither accounts nor origins.
LEMMA CustomersInv ==
  ASSUME IInv, UNCHANGED <<account, origin, quote>>,
         \A k \in Customers : \A x : IsOf(k, x, customer) => IsOf(k, x, customer'),
         \A q \in Quotes : quote[q].customer # NoOne => customer'[quote[q].customer].status = "live"
  PROVE  /\ Grown
         /\ \A q \in Quotes : QuoteFor(quote'[q], q, customer', account', origin')
<1>1. Grown
  BY DEF Grown
<1>2. ASSUME NEW q \in Quotes
      PROVE  QuoteFor(quote[q], q, customer', account', origin')
  BY QuoteTyped, QuoteGrows
<1> QED BY <1>1, <1>2


-----------------------------------------------------------------------------
(* Each action keeps the invariant. *)

\* An action that writes quote q by another row and ends or goes on with r.
LEMMA QuoteStep ==
  ASSUME IInv, NEW h \in Handlers, NEW r \in Locals, Keep(h, r),
         NEW q \in Quotes, NEW row \in QuoteRow, row.status # "absent",
         QuoteFor(row, q, customer, account, origin),
         quote' = [quote EXCEPT ![q] = row],
         r.quotes \in {{}, {q}}, r.step \in {"idle", "drop"},
         UNCHANGED <<customer, account, temp, origin, lost, again>>,
         orderQuote' \in [Orders -> Quotes \cup {NoOne}]
  PROVE  IInv'
<1>1. /\ Grown /\ quote' \in [Quotes -> QuoteRow]
      /\ \A p \in Quotes : QuoteFor(quote'[p], p, customer', account', origin')
  BY OneQuote
<1>2. r.quotes \subseteq Quotes /\ quote \in [Quotes -> QuoteRow]
  BY QuoteTyped DEF Locals
<1>3. \A g \in r.quotes : quote'[g].status # "absent"
  BY <1>2
<1>4. LocalFor(r, quote', customer', account', origin')
  BY <1>3 DEF LocalFor
<1> QED BY <1>1, <1>4, StepInv DEF Keep, IInv, TypeOK

LEMMA DoneInv ==
  ASSUME IInv, NEW h \in Handlers, Done(h),
         UNCHANGED <<quote, customer, account, orderQuote, origin, again>>,
         temp' \in [TemporaryLeads -> TempRow], lost' \subseteq TemporaryLeads
  PROVE  IInv'
BY KeepInv, IdleFor, IdleTyped DEF Done

LEMMA TemporaryInv ==
  ASSUME IInv, UNCHANGED <<quote, customer, account, orderQuote, handler, origin, lost, again>>,
         temp' \in [TemporaryLeads -> TempRow]
  PROVE  IInv'
<1>1. Grown
  BY StandStill DEF Tables
<1> QED BY <1>1, TableInv DEF IInv, TypeOK

LEMMA TemporaryStepsInv ==
  ASSUME IInv,
         \/ \E t \in TemporaryLeads : (\E p \in Clients : CreateTemporary(t, p)) \/ Expire(t)
         \/ RemoveExpired
  PROVE  IInv'
<1>1. temp \in [TemporaryLeads -> TempRow]
  BY DEF IInv, TypeOK
<1>2. temp' \in [TemporaryLeads -> TempRow]
  BY <1>1 DEF CreateTemporary, Expire, RemoveExpired, TempRow, NoTemp
<1> QED BY <1>2, TemporaryInv DEF CreateTemporary, Expire, RemoveExpired

\* A row with the address was found, or none.
LEMMA FoundIsOf ==
  ASSUME IInv, NEW p, NEW k \in FindCustomer(p)
  PROVE  k # NoOne => k \in Customers /\ IsOf(k, p, customer)
BY DEF FindCustomer, CustomersOf, IInv, Carries

LEMMA InsertingOK ==
  ASSUME IInv, NEW q \in Quotes, NEW p \in Clients \cup {NoOne}, NEW k \in Customers \cup {NoOne},
         k \in FindCustomer(p), NEW t \in TemporaryLeads \cup {NoOne}
  PROVE  /\ Inserting(q, k, p, t) \in Locals
         /\ LocalFor(Inserting(q, k, p, t), quote, customer, account, origin)
<1>1. Inserting(q, k, p, t) \in Locals
  BY IdleTyped DEF Inserting, Idle, Locals, Steps
<1>2. /\ Inserting(q, k, p, t).step = "insert" /\ Inserting(q, k, p, t).customer = k
      /\ Inserting(q, k, p, t).client = p
  BY DEF Inserting, Idle
<1> HIDE DEF Inserting
<1> QED BY <1>1, <1>2, FoundIsOf DEF LocalFor

LEMMA AskInv ==
  ASSUME IInv, NEW h \in Handlers, NEW q \in Quotes, NEW k \in Customers \cup {NoOne},
         \/ \E t \in TemporaryLeads : OpenLink(h, q, t, k)
         \/ \E p \in Clients : ImportLead(h, q, p, k)
  PROVE  IInv'
<1>1. ASSUME NEW p \in Clients \cup {NoOne}, NEW t \in TemporaryLeads \cup {NoOne}, k \in FindCustomer(p),
             Read(h, Inserting(q, k, p, t))
      PROVE  IInv'
  BY <1>1, InsertingOK, KeepInv DEF Read, tables, IInv, TypeOK
<1>2. CASE \E t \in TemporaryLeads : OpenLink(h, q, t, k)
  <2> PICK t \in TemporaryLeads : OpenLink(h, q, t, k)
    BY <1>2
  <2>1. temp[t] \in TempRow /\ temp[t].status = "open" /\ k \in FindCustomer(temp[t].email)
    BY DEF OpenLink, IInv, TypeOK
  <2>2. temp[t].email \in Clients \cup {NoOne}
    BY <2>1 DEF TempRow
  <2>3. Read(h, Inserting(q, k, temp[t].email, t))
    BY DEF OpenLink
  <2> QED BY <1>1, <2>1, <2>2, <2>3
<1>3. CASE \E p \in Clients : ImportLead(h, q, p, k)
  <2> PICK p \in Clients : ImportLead(h, q, p, k)
    BY <1>3
  <2>1. Read(h, Inserting(q, k, p, NoOne))
    BY DEF ImportLead
  <2> QED BY <1>1, <2>1 DEF ImportLead
<1> QED BY <1>2, <1>3


\* insertLead: the lead names the row found, or a new one.
LEMMA InsertLeadInv ==
  ASSUME IInv, NEW h \in Handlers, NEW q \in Quotes, NEW k \in Customers,
         InsertLead(h, q, k)
  PROVE  IInv'
<1> DEFINE me == handler[h]
           row == [status |-> "lead", owner |-> NoOne, customer |-> k,
                   order |-> NoOne, fresh |-> TRUE]
           made == [client |-> me.client, customer |-> k, temp |-> me.temp]
           r == IF me.temp = NoOne THEN Idle ELSE [me EXCEPT !.step = "name"]
<1>1. /\ me \in Locals /\ LocalFor(me, quote, customer, account, origin)
      /\ me.step = "insert" /\ me.quotes = {q} /\ quote[q].status = "absent"
      /\ me.client \in Clients \cup {NoOne} /\ me.temp \in TemporaryLeads \cup {NoOne}
  BY DEF IInv, TypeOK, InsertLead, Locals
<1>2. /\ Carries(customer') /\ customer' \in [Customers -> CustomerRow]
      /\ customer'[k].status = "live" /\ IsOf(k, me.client, customer')
      /\ \A j \in Customers : \A x : IsOf(j, x, customer) => IsOf(j, x, customer')
      /\ \A j \in Customers : customer[j].status = "live" => customer'[j].status = "live"
  <2>1. CASE me.customer = NoOne
    BY <1>1, <2>1, NewCustomerGrows DEF InsertLead
  <2>2. CASE me.customer # NoOne
    BY <1>1, <2>2, NoOneAssumption DEF InsertLead, LocalFor, IInv, TypeOK
  <2> QED BY <2>1, <2>2
<1>3. /\ quote' = [quote EXCEPT ![q] = row] /\ origin' = [origin EXCEPT ![q] = made]
      /\ handler' = [handler EXCEPT ![h] = r]
      /\ UNCHANGED <<account, orderQuote, temp, lost, again>>
  BY DEF InsertLead, Keep, Done
<1>4. row \in QuoteRow /\ row.status = "lead" /\ row.owner = NoOne /\ row.customer = k
  BY DEF QuoteRow, QUOTE_STATUS
<1>5. made \in Origin /\ made.client = me.client /\ made.customer = k
  BY <1>1 DEF Origin
<1>6. r \in Locals /\ r.step \in {"idle", "name"} /\ r.quotes \in {{}, {q}}
      /\ (r.step = "name" => r.temp # NoOne)
  BY <1>1, IdleTyped DEF Locals, Steps
<1> HIDE DEF row, made, r
<1>7. /\ quote' \in [Quotes -> QuoteRow]
      /\ \A p \in Quotes : quote'[p] = IF p = q THEN row ELSE quote[p]
      /\ origin' \in [Quotes -> Origin]
      /\ \A p \in Quotes : origin'[p] = IF p = q THEN made ELSE origin[p]
  BY <1>3, <1>4, <1>5 DEF IInv, TypeOK
<1>8. Grown
  BY <1>1, <1>2, <1>3, <1>4, <1>7 DEF Grown
<1>9. ASSUME NEW p \in Quotes
      PROVE  QuoteFor(quote'[p], p, customer', account', origin')
  <2>1. CASE p = q
    BY <1>2, <1>4, <1>5, <1>7, <2>1, NoOneAssumption DEF QuoteFor, RowFor
  <2>2. CASE p # q
    <3>1. /\ quote[p] \in QuoteRow /\ QuoteFor(quote[p], p, customer, account, origin)
          /\ quote'[p] = quote[p] /\ origin'[p] = origin[p] /\ account' = account
      BY <1>3, <1>7, <2>2, QuoteTyped
    <3>2. quote[p].customer # NoOne => customer'[quote[p].customer].status = "live"
      BY <1>2, <3>1 DEF QuoteFor, QuoteRow
    <3> QED BY <1>2, <3>1, <3>2, QuoteGrows
  <2> QED BY <2>1, <2>2
<1>10. LocalFor(r, quote', customer', account', origin')
  BY <1>4, <1>6, <1>7 DEF LocalFor
<1> QED BY <1>2, <1>3, <1>6, <1>7, <1>8, <1>9, <1>10, StepInv DEF IInv, TypeOK

LEMMA NameLeadInv ==
  ASSUME IInv, NEW h \in Handlers, NEW q \in Quotes, NameLead(h, q)
  PROVE  IInv'
<1> DEFINE t == handler[h].temp
           lead == IF temp[t].status = "removed" THEN temp[t].lead ELSE q
<1>1. temp \in [TemporaryLeads -> TempRow] /\ temp' = [temp EXCEPT ![t].lead = lead]
  BY DEF NameLead, IInv, TypeOK
<1>2. t \in TemporaryLeads => lead \in Quotes \cup {NoOne}
  BY <1>1 DEF TempRow
<1> HIDE DEF lead
<1>3. temp' \in [TemporaryLeads -> TempRow]
  BY <1>1, <1>2 DEF TempRow
<1> QED BY <1>3, DoneInv DEF NameLead, IInv, TypeOK

\* Locals of a step on quote q that need nothing but that it exists.
LEMMA PlainLocals ==
  ASSUME NEW r \in Locals, NEW q \in Quotes, quote[q].status # "absent",
         r.quotes \in {{}, {q}},
         r.step \in {"idle", "delete", "drop", "mark", "publish"}
  PROVE  LocalFor(r, quote, customer, account, origin)
BY DEF LocalFor

EditLocals(q) == [Idle EXCEPT !.step = "edit", !.quotes = {q}, !.row = quote[q]]
DeleteLocals(q) == [Idle EXCEPT !.step = "delete", !.quotes = {q}, !.customer = quote[q].customer]
SendLocals(q, k) == [Idle EXCEPT !.step = "send", !.quotes = {q}, !.customer = k,
                                 !.client = customer[k].email]

LEMMA EditReadInv ==
  ASSUME IInv, NEW h \in Handlers, NEW q \in Quotes, EditRead(h, q)
  PROVE  IInv'
<1>1. EditLocals(q) \in Locals
  BY IdleTyped, QuoteTyped DEF EditLocals, Idle, Locals, Steps
<1>2. /\ EditLocals(q).step = "edit" /\ EditLocals(q).quotes = {q}
      /\ EditLocals(q).row = quote[q]
  BY DEF EditLocals, Idle
<1>3. Read(h, EditLocals(q)) /\ quote[q].status \notin {"absent", "removed"}
  BY DEF EditRead, EditLocals, Exists
<1> HIDE DEF EditLocals
<1>4. LocalFor(EditLocals(q), quote, customer, account, origin)
  BY <1>2, <1>3, QuoteTyped DEF LocalFor, QuoteFor
<1> QED BY <1>1, <1>3, <1>4, KeepInv DEF Read, tables, IInv, TypeOK

LEMMA DeleteReadInv ==
  ASSUME IInv, NEW h \in Handlers, NEW q \in Quotes, DeleteRead(h, q)
  PROVE  IInv'
<1>1. DeleteLocals(q) \in Locals
  BY IdleTyped, QuoteTyped DEF DeleteLocals, Idle, Locals, Steps, QuoteRow
<1>2. DeleteLocals(q).step = "delete" /\ DeleteLocals(q).quotes = {q}
  BY DEF DeleteLocals, Idle
<1>3. Read(h, DeleteLocals(q)) /\ quote[q].status # "absent"
  BY DEF DeleteRead, DeleteLocals, Leads
<1> HIDE DEF DeleteLocals
<1> QED BY <1>1, <1>2, <1>3, PlainLocals, KeepInv DEF Read, tables, IInv, TypeOK

LEMMA SendReadInv ==
  ASSUME IInv, NEW h \in Handlers, NEW q \in Quotes, NEW k \in Customers, SendRead(h, q, k)
  PROVE  IInv'
<1>1. /\ customer[k] \in CustomerRow /\ quote[q].status # "absent"
      /\ Theirs(q, customer[k].email, customer, origin)
  <2>1. /\ customer[k] \in CustomerRow /\ quote[q].status # "absent" /\ Carries(customer)
        /\ k = quote[q].customer /\ k # NoOne
    BY DEF IInv, TypeOK, SendRead, Leads
  <2>2. /\ k = origin[q].customer /\ IsOf(k, origin[q].client, customer)
        /\ customer[k].status = "live"
    BY <2>1, QuoteTyped DEF QuoteFor, RowFor
  <2> QED BY <2>1, <2>2 DEF Carries, Theirs
<1>2. SendLocals(q, k) \in Locals
  BY <1>1, IdleTyped DEF SendLocals, Idle, Locals, Steps, CustomerRow
<1>3. /\ SendLocals(q, k).step = "send" /\ SendLocals(q, k).quotes = {q}
      /\ SendLocals(q, k).client = customer[k].email
  BY DEF SendLocals, Idle
<1>4. Read(h, SendLocals(q, k))
  BY DEF SendRead, SendLocals
<1> HIDE DEF SendLocals
<1>5. LocalFor(SendLocals(q, k), quote, customer, account, origin)
  BY <1>1, <1>3 DEF LocalFor
<1> QED BY <1>2, <1>4, <1>5, KeepInv DEF Read, tables, IInv, TypeOK


\* The locals of a request in flight, for one of its quotes.
LEMMA Mine ==
  ASSUME IInv, NEW h \in Handlers
  PROVE  /\ handler[h] \in Locals
         /\ LocalFor(handler[h], quote, customer, account, origin)
BY DEF IInv, TypeOK

Edited(q, row) == IF Exists(q) THEN [row EXCEPT !.fresh = quote[q].fresh] ELSE quote[q]

LEMMA EditWriteInv ==
  ASSUME IInv, NEW h \in Handlers, NEW q \in Quotes, EditWrite(h, q)
  PROVE  IInv'
<1> DEFINE me == handler[h]
<1>1. /\ me.row \in QuoteRow /\ me.row.status \notin {"absent", "removed"}
      /\ RowFor(me.row, q, customer, account, origin)
      /\ me.row.customer # NoOne => customer[me.row.customer].status = "live"
      /\ quote[q].status # "absent"
  BY Mine DEF EditWrite, Locals, LocalFor
<1>2. /\ quote' = [quote EXCEPT ![q] = Edited(q, me.row)] /\ Keep(h, Idle)
      /\ UNCHANGED <<customer, account, orderQuote, temp, origin, lost, again>>
  BY QuoteTyped DEF EditWrite, Edited, Done
<1>3. /\ Edited(q, me.row) \in QuoteRow /\ Edited(q, me.row).status # "absent"
      /\ Edited(q, me.row) # quote[q] => /\ Edited(q, me.row).owner = me.row.owner
                                         /\ Edited(q, me.row).customer = me.row.customer
                                         /\ Edited(q, me.row).status = me.row.status
  BY <1>1, QuoteTyped DEF Edited, QuoteRow
<1> HIDE DEF Edited
<1>4. QuoteFor(Edited(q, me.row), q, customer, account, origin)
  BY <1>1, <1>3, QuoteTyped DEF QuoteFor, RowFor
<1>5. orderQuote' \in [Orders -> Quotes \cup {NoOne}]
  BY <1>2 DEF IInv, TypeOK
<1> QED BY <1>2, <1>3, <1>4, <1>5, IdleTyped, QuoteStep

Removed == [NoQuote EXCEPT !.status = "removed"]

LEMMA DeleteQuoteInv ==
  ASSUME IInv, NEW h \in Handlers, NEW q \in Quotes, DeleteQuote(h, q)
  PROVE  IInv'
<1> DEFINE r == IF handler[h].customer = NoOne THEN Idle ELSE [handler[h] EXCEPT !.step = "drop"]
<1>1. /\ Removed \in QuoteRow /\ Removed.status = "removed" /\ Removed.owner = NoOne
      /\ Removed.customer = NoOne
  BY IdleTyped DEF Removed, NoQuote, QuoteRow, QUOTE_STATUS
<1>2. /\ r \in Locals /\ r.step \in {"idle", "drop"} /\ r.quotes \in {{}, {q}}
  BY Mine, IdleTyped DEF DeleteQuote, Locals, Steps
<1>3. /\ quote' = [quote EXCEPT ![q] = Removed] /\ Keep(h, r)
      /\ UNCHANGED <<customer, account, orderQuote, temp, origin, lost, again>>
  BY DEF DeleteQuote, Removed, Done
<1> HIDE DEF Removed, r
<1>4. QuoteFor(Removed, q, customer, account, origin)
  BY <1>1 DEF QuoteFor, RowFor
<1>5. orderQuote' \in [Orders -> Quotes \cup {NoOne}]
  BY <1>3 DEF IInv, TypeOK
<1> QED BY <1>1, <1>2, <1>3, <1>4, <1>5, QuoteStep

LEMMA DropCustomerInv ==
  ASSUME IInv, NEW h \in Handlers, NEW k \in Customers, DropCustomer(h, k)
  PROVE  IInv'
<1>1. /\ customer \in [Customers -> CustomerRow] /\ Unused(k)
      /\ customer' = [customer EXCEPT ![k] = [NoCustomer EXCEPT !.status = "removed",
                                                                  !.carried = customer[k].carried]]
      /\ UNCHANGED <<quote, account, orderQuote, temp, origin, lost, again>> /\ Keep(h, Idle)
  BY DEF IInv, TypeOK, DropCustomer, Done
<1>2. /\ customer' \in [Customers -> CustomerRow] /\ customer'[k].status = "removed"
      /\ customer'[k].carried = customer[k].carried
      /\ \A j \in Customers : j # k => customer'[j] = customer[j]
  BY <1>1 DEF CustomerRow, NoCustomer
<1>3. \A j \in Customers : \A x : IsOf(j, x, customer) => IsOf(j, x, customer')
  BY <1>2 DEF IsOf
<1>4. ASSUME NEW q \in Quotes, quote[q].customer # NoOne
      PROVE  customer'[quote[q].customer].status = "live"
  <2>1. quote[q].customer \in Customers /\ customer[quote[q].customer].status = "live"
    BY <1>4, QuoteTyped DEF QuoteFor, QuoteRow
  <2>2. Exists(q)
    BY <1>4, QuoteTyped DEF QuoteFor, Exists
  <2>3. quote[q].customer # k
    BY <1>1, <2>2 DEF Unused
  <2> QED BY <1>2, <2>1, <2>3
<1>5. Grown /\ \A q \in Quotes : QuoteFor(quote'[q], q, customer', account', origin')
  BY <1>1, <1>3, <1>4, CustomersInv
<1>6. Carries(customer')
  BY <1>2 DEF IInv, Carries, Blank, IsOf
<1> QED BY <1>1, <1>2, <1>5, <1>6, IdleFor, IdleTyped, StepInv DEF Keep, IInv, TypeOK

LEMMA AdoptInv ==
  ASSUME IInv, NEW h \in Handlers, SendAdopt(h) \/ AdoptLeads(h)
  PROVE  IInv'
<1> DEFINE me == handler[h]
           r == [me EXCEPT !.step = "drop"]
<1>1. /\ me.quotes \in SUBSET Quotes /\ me.client \in account
      /\ \A q \in me.quotes : Theirs(q, me.client, customer, origin) /\ quote[q].status # "absent"
  BY Mine DEF SendAdopt, AdoptLeads, LocalFor, Locals
<1>2. /\ quote' = Adopted(me.quotes, me.client) /\ Keep(h, r)
      /\ UNCHANGED <<customer, account, orderQuote, temp, origin, lost, again>>
  BY DEF SendAdopt, AdoptLeads
<1>3. r \in Locals /\ r.step = "drop" /\ r.quotes = me.quotes
  BY Mine DEF Locals, Steps
<1> HIDE DEF r
<1>4. /\ Grown /\ quote' \in [Quotes -> QuoteRow]
      /\ \A q \in Quotes : QuoteFor(quote'[q], q, customer', account', origin')
  BY <1>1, <1>2, AdoptedRows
<1>5. LocalFor(r, quote', customer', account', origin')
  BY <1>1, <1>3, <1>4 DEF LocalFor, Grown
<1> QED BY <1>2, <1>3, <1>4, <1>5, StepInv DEF Keep, IInv, TypeOK

LEMMA SendMailInv ==
  ASSUME IInv, NEW h \in Handlers, SendMail(h)
  PROVE  IInv'
<1> DEFINE r == [handler[h] EXCEPT !.step = "mark"]
<1>1. r \in Locals /\ r.step = "mark" /\ r.quotes = handler[h].quotes
  BY Mine DEF Locals, Steps
<1>2. Keep(h, r) /\ UNCHANGED tables /\ handler[h].step = "send"
  BY DEF SendMail
<1> HIDE DEF r
<1>3. LocalFor(r, quote, customer, account, origin)
  BY <1>1, <1>2, Mine DEF LocalFor
<1> QED BY <1>1, <1>2, <1>3, KeepInv DEF tables, IInv, TypeOK

Restatus(q, s) == [quote[q] EXCEPT !.status = s]

LEMMA RestatusOK ==
  ASSUME IInv, NEW q \in Quotes, NEW s \in QUOTE_STATUS, s # "absent",
         s = "removed" => s = quote[q].status
  PROVE  /\ Restatus(q, s) \in QuoteRow /\ Restatus(q, s).status = s
         /\ Restatus(q, s).owner = quote[q].owner /\ Restatus(q, s).customer = quote[q].customer
         /\ Restatus(q, s).order = quote[q].order
         /\ QuoteFor(Restatus(q, s), q, customer, account, origin)
<1>1. /\ Restatus(q, s) \in QuoteRow /\ Restatus(q, s).status = s
      /\ Restatus(q, s).owner = quote[q].owner /\ Restatus(q, s).customer = quote[q].customer
      /\ Restatus(q, s).order = quote[q].order
  BY QuoteTyped DEF Restatus, QuoteRow
<1> HIDE DEF Restatus
<1> QED BY <1>1, QuoteTyped DEF QuoteFor, RowFor

LEMMA MarkQuotedInv ==
  ASSUME IInv, NEW h \in Handlers, NEW q \in Quotes, MarkQuoted(h, q)
  PROVE  IInv'
<1>1. quote[q].status # "absent" /\ quote[q].status \in QUOTE_STATUS
  BY Mine, QuoteTyped DEF MarkQuoted, LocalFor, QuoteRow
<1> DEFINE s == IF Exists(q) THEN "quoted" ELSE quote[q].status
<1>2. s \in QUOTE_STATUS /\ s # "absent"
  BY <1>1 DEF QUOTE_STATUS
<1>3. s = "removed" => s = quote[q].status
  OBVIOUS
<1>4. /\ quote' = [quote EXCEPT ![q] = Restatus(q, s)] /\ Keep(h, Idle)
      /\ UNCHANGED <<customer, account, orderQuote, temp, origin, lost, again>>
  BY QuoteTyped DEF MarkQuoted, Restatus, Done
<1> HIDE DEF Restatus, s
<1>5. orderQuote' \in [Orders -> Quotes \cup {NoOne}]
  BY <1>4 DEF IInv, TypeOK
<1> QED BY <1>2, <1>3, <1>4, <1>5, RestatusOK, IdleTyped, QuoteStep


FindingLocals(p) == [Idle EXCEPT !.step = "find", !.client = p]

LEMMA RegisterInv ==
  ASSUME IInv, NEW h \in Handlers, NEW p \in Clients, Register(h, p)
  PROVE  IInv'
<1>1. /\ FindingLocals(p) \in Locals /\ FindingLocals(p).step = "find"
      /\ FindingLocals(p).quotes = {} /\ FindingLocals(p).client = p
  BY IdleTyped DEF FindingLocals, Idle, Locals, Steps
<1>2. /\ Keep(h, FindingLocals(p)) /\ account' = account \cup {p}
      /\ UNCHANGED <<quote, customer, orderQuote, temp, origin, lost, again>>
  BY DEF Register, FindingLocals
<1> HIDE DEF FindingLocals
<1>3. Grown
  BY <1>2 DEF Grown
<1>4. ASSUME NEW q \in Quotes
      PROVE  QuoteFor(quote'[q], q, customer', account', origin')
  BY <1>2, QuoteTyped DEF QuoteFor, RowFor
<1>5. LocalFor(FindingLocals(p), quote', customer', account', origin')
  BY <1>1, <1>2 DEF LocalFor
<1> QED BY <1>1, <1>2, <1>3, <1>4, <1>5, StepInv DEF Keep, IInv, TypeOK

LEMMA FindRowInv ==
  ASSUME IInv, NEW h \in Handlers, NEW k \in Customers \cup {NoOne}, FindRow(h, k)
  PROVE  IInv'
<1> DEFINE me == handler[h]
           r == [me EXCEPT !.step = "look", !.customer = k]
<1>1. me.step = "find" /\ k \in FindCustomer(me.client) /\ UNCHANGED tables /\ me.client \in account
  BY Mine DEF FindRow, LocalFor
<1>2. CASE Done(h)
  BY <1>1, <1>2, DoneInv DEF tables, IInv, TypeOK
<1>3. CASE Keep(h, r) /\ k # NoOne
  <2>1. /\ r \in Locals /\ r.step = "look" /\ r.quotes = me.quotes
        /\ r.client = me.client /\ r.customer = k
    BY Mine DEF Locals, Steps
  <2>2. IsOf(k, me.client, customer) /\ k \in Customers
    BY <1>1, <1>3, FoundIsOf
  <2> HIDE DEF r
  <2>3. LocalFor(r, quote, customer, account, origin)
    BY <1>1, <2>1, <2>2, Mine DEF LocalFor
  <2> QED BY <1>1, <1>3, <2>1, <2>3, KeepInv DEF tables, IInv, TypeOK
<1> QED BY <1>1, <1>2, <1>3 DEF FindRow

LEMMA FindLeadsInv ==
  ASSUME IInv, NEW h \in Handlers, NEW k \in Customers, FindLeads(h, k)
  PROVE  IInv'
<1> DEFINE me == handler[h]
           S == {q \in Quotes : Exists(q) /\ quote[q].customer = k}
           r == [me EXCEPT !.step = "adopt", !.quotes = S]
<1>1. /\ me.step = "look" /\ k = me.customer /\ k # NoOne /\ UNCHANGED tables
      /\ me.client \in account /\ IsOf(k, me.client, customer)
  BY Mine, NoOneAssumption DEF FindLeads, LocalFor
<1>2. CASE Done(h)
  BY <1>1, <1>2, DoneInv DEF tables, IInv, TypeOK
<1>3. CASE Keep(h, r)
  <2>1. r \in Locals /\ r.step = "adopt" /\ r.quotes = S /\ r.client = me.client
    BY Mine DEF Locals, Steps
  <2>2. \A q \in S : quote[q].status # "absent" /\ Theirs(q, me.client, customer, origin)
    BY <1>1, QuoteTyped DEF QuoteFor, RowFor, Theirs, Exists
  <2> HIDE DEF r
  <2>3. LocalFor(r, quote, customer, account, origin)
    BY <1>1, <2>1, <2>2 DEF LocalFor
  <2> QED BY <1>1, <1>3, <2>1, <2>3, KeepInv DEF tables, IInv, TypeOK
<1> QED BY <1>1, <1>2, <1>3 DEF FindLeads

\* A party of an order: no row loses an address.
LEMMA SavePartyInv ==
  ASSUME IInv, NEW j \in Customers \cup {NoOne}, NEW k \in Customers, NEW p \in Parties,
         SaveParty(j, k, p)
  PROVE  IInv'
<1> DEFINE saved == [status |-> "live", email |-> p, party |-> TRUE,
                     carried |-> customer[k].carried \cup {p}]
           left(i) == [customer[i] EXCEPT !.party = FALSE]
<1>1. /\ customer \in [Customers -> CustomerRow] /\ Carries(customer) /\ p \in Clients
      /\ UNCHANGED <<quote, account, orderQuote, temp, handler, origin, lost, again>>
  BY PartiesAssumption DEF SaveParty, IInv, TypeOK
<1>2. /\ saved \in CustomerRow /\ saved.status = "live" /\ saved.email = p
      /\ saved.carried = customer[k].carried \cup {p}
  BY <1>1 DEF CustomerRow
<1>3. \A i \in Customers : /\ left(i) \in CustomerRow /\ left(i).status = customer[i].status
                            /\ left(i).email = customer[i].email
                            /\ left(i).carried = customer[i].carried
  BY <1>1 DEF CustomerRow
<1>4. \A i \in Customers : customer'[i] = IF i = k THEN saved ELSE IF i = j THEN left(i) ELSE customer[i]
  BY DEF SaveParty
<1> HIDE DEF saved, left
<1>5. customer' \in [Customers -> CustomerRow]
  <2>1. customer' = [i \in Customers |-> customer'[i]]
    BY DEF SaveParty
  <2> QED BY <1>1, <1>2, <1>3, <1>4, <2>1
<1>6. Carries(customer')
  BY <1>1, <1>2, <1>3, <1>4 DEF Carries, Blank, IsOf
<1>7. \A i \in Customers : \A x : IsOf(i, x, customer) => IsOf(i, x, customer')
  BY <1>2, <1>3, <1>4 DEF IsOf
<1>8. ASSUME NEW q \in Quotes, quote[q].customer # NoOne
      PROVE  customer'[quote[q].customer].status = "live"
  <2>1. quote[q].customer \in Customers /\ customer[quote[q].customer].status = "live"
    BY <1>8, QuoteTyped DEF QuoteFor, QuoteRow
  <2> QED BY <1>2, <1>3, <1>4, <2>1
<1>9. Grown /\ \A q \in Quotes : QuoteFor(quote'[q], q, customer', account', origin')
  BY <1>1, <1>7, <1>8, CustomersInv
<1> QED BY <1>1, <1>5, <1>6, <1>9, TableInv DEF IInv, TypeOK

GivenTo(p) == [status |-> "new", owner |-> p, customer |-> NoOne, order |-> NoOne, fresh |-> TRUE]

LEMMA CreateQuoteInv ==
  ASSUME IInv, NEW q \in Quotes, NEW p \in Clients, CreateQuote(q, p)
  PROVE  IInv'
<1>1. /\ GivenTo(p) \in QuoteRow /\ GivenTo(p).status = "new" /\ GivenTo(p).owner = p
      /\ GivenTo(p).customer = NoOne
  BY DEF GivenTo, QuoteRow, QUOTE_STATUS
<1>2. /\ quote[q].status = "absent" /\ p \in account
      /\ quote' = [quote EXCEPT ![q] = GivenTo(p)]
      /\ origin' = [origin EXCEPT ![q].client = p, ![q].customer = NoOne]
      /\ UNCHANGED <<customer, account, orderQuote, temp, handler, lost, again>>
  BY DEF CreateQuote, GivenTo
<1> HIDE DEF GivenTo
<1>3. /\ quote' \in [Quotes -> QuoteRow]
      /\ \A x \in Quotes : quote'[x] = IF x = q THEN GivenTo(p) ELSE quote[x]
      /\ origin' \in [Quotes -> Origin]
      /\ origin'[q].client = p /\ origin'[q].customer = NoOne
      /\ \A x \in Quotes : x # q => origin'[x] = origin[x]
  <2>1. /\ quote \in [Quotes -> QuoteRow] /\ origin \in [Quotes -> Origin]
        /\ account \subseteq Clients
    BY DEF IInv, TypeOK
  <2>2. origin[q] \in Origin /\ p \in Clients
    BY <2>1
  <2>3. DOMAIN origin = Quotes
    BY <2>1
  <2>4. [[origin[q] EXCEPT !.client = p] EXCEPT !.customer = NoOne] \in Origin
    BY <2>2 DEF Origin
  <2> QED BY <1>1, <1>2, <2>1, <2>2, <2>4 DEF Origin
<1>4. Grown
  BY <1>1, <1>2, <1>3 DEF Grown
<1>5. ASSUME NEW x \in Quotes
      PROVE  QuoteFor(quote'[x], x, customer', account', origin')
  <2>1. CASE x = q
    BY <1>1, <1>2, <1>3, <2>1 DEF QuoteFor, RowFor, Theirs
  <2>2. CASE x # q
    BY <1>2, <1>3, <2>2, QuoteTyped DEF QuoteFor, RowFor, Theirs
  <2> QED BY <2>1, <2>2
<1>6. TypeOK'
  BY <1>2, <1>3 DEF IInv, TypeOK
<1>7. Carries(customer')
  BY <1>2 DEF IInv
<1> QED BY <1>2, <1>4, <1>5, <1>6, <1>7, TableInv

LEMMA AnswerInv ==
  ASSUME IInv, NEW q \in Quotes, NEW s \in {"accepted", "canceled"}, Answer(q, s)
  PROVE  IInv'
<1>1. s \in QUOTE_STATUS /\ s \notin {"absent", "removed"}
  BY DEF QUOTE_STATUS
<1>2. /\ quote' = [quote EXCEPT ![q] = Restatus(q, s)]
      /\ UNCHANGED <<customer, account, orderQuote, temp, handler, origin, lost>>
      /\ again' \in SUBSET Quotes
  BY DEF Answer, Restatus, IInv, TypeOK
<1> HIDE DEF Restatus
<1>3. /\ Grown /\ quote' \in [Quotes -> QuoteRow]
      /\ \A p \in Quotes : QuoteFor(quote'[p], p, customer', account', origin')
  BY <1>1, <1>2, RestatusOK, OneQuote
<1> QED BY <1>2, <1>3, TableInv DEF IInv, TypeOK

Aged(q) == [quote[q] EXCEPT !.fresh = FALSE]

LEMMA AgeInv ==
  ASSUME IInv, NEW q \in Quotes, Age(q)
  PROVE  IInv'
<1>1. /\ quote' = [quote EXCEPT ![q] = Aged(q)]
      /\ UNCHANGED <<customer, account, orderQuote, temp, handler, origin, lost, again>>
  BY DEF Age, Aged
<1>2. /\ Aged(q) \in QuoteRow /\ Aged(q).status = quote[q].status
      /\ Aged(q).owner = quote[q].owner /\ Aged(q).customer = quote[q].customer
  BY QuoteTyped DEF Aged, QuoteRow
<1> HIDE DEF Aged
<1>3. /\ quote' \in [Quotes -> QuoteRow]
      /\ \A p \in Quotes : quote'[p] = IF p = q THEN Aged(q) ELSE quote[p]
  BY <1>1, <1>2, QuoteTyped
<1>4. Grown
  BY <1>1, <1>2, <1>3 DEF Grown
<1>5. \A p \in Quotes : QuoteFor(quote'[p], p, customer', account', origin')
  BY <1>1, <1>2, <1>3, QuoteTyped DEF QuoteFor, RowFor
<1>6. TypeOK'
  BY <1>1, <1>3 DEF IInv, TypeOK
<1>7. Carries(customer')
  BY <1>1 DEF IInv
<1> QED BY <1>1, <1>4, <1>5, <1>6, <1>7, TableInv


PublishLocals(q) == [Idle EXCEPT !.step = "publish", !.quotes = {q}, !.client = quote[q].owner]

LEMMA PublishReadInv ==
  ASSUME IInv, NEW h \in Handlers, NEW q \in Quotes, PublishRead(h, q)
  PROVE  IInv'
<1>1. PublishLocals(q) \in Locals
  BY IdleTyped, QuoteTyped DEF PublishLocals, Idle, Locals, Steps, QuoteRow
<1>2. PublishLocals(q).step = "publish" /\ PublishLocals(q).quotes = {q}
  BY DEF PublishLocals, Idle
<1>3. Read(h, PublishLocals(q)) /\ quote[q].status # "absent"
  BY DEF PublishRead, PublishLocals, Visible
<1> HIDE DEF PublishLocals
<1> QED BY <1>1, <1>2, <1>3, PlainLocals, KeepInv DEF Read, tables, IInv, TypeOK

Booked(q, o) ==
  IF Exists(q) THEN [quote[q] EXCEPT !.status = "booked", !.order = o] ELSE quote[q]

LEMMA BookedOK ==
  ASSUME IInv, NEW q \in Quotes, NEW o \in Orders
  PROVE  /\ Booked(q, o) \in QuoteRow
         /\ Booked(q, o).owner = quote[q].owner /\ Booked(q, o).customer = quote[q].customer
         /\ Exists(q) => Booked(q, o).status = "booked" /\ Booked(q, o).order = o
         /\ ~Exists(q) => Booked(q, o) = quote[q]
         /\ QuoteFor(Booked(q, o), q, customer, account, origin)
<1>1. /\ Booked(q, o) \in QuoteRow
      /\ Booked(q, o).owner = quote[q].owner /\ Booked(q, o).customer = quote[q].customer
      /\ Exists(q) => Booked(q, o).status = "booked" /\ Booked(q, o).order = o
      /\ ~Exists(q) => Booked(q, o) = quote[q]
  BY QuoteTyped DEF Booked, QuoteRow, QUOTE_STATUS
<1> HIDE DEF Booked
<1> QED BY <1>1, QuoteTyped DEF QuoteFor, RowFor

LEMMA PublishWriteInv ==
  ASSUME IInv, NEW h \in Handlers, NEW q \in Quotes, NEW o \in Orders, NEW k \in Customers,
         NEW sender \in Parties \cup {NoOne}, PublishWrite(h, q, o, k, sender)
  PROVE  IInv'
<1>1. /\ quote' = [quote EXCEPT ![q] = Booked(q, o)] /\ Keep(h, Idle)
      /\ orderQuote' = [orderQuote EXCEPT ![o] = q]
      /\ UNCHANGED <<account, temp, origin, lost, again>>
  BY QuoteTyped DEF PublishWrite, Booked, Done
<1>2. /\ Carries(customer') /\ customer' \in [Customers -> CustomerRow]
      /\ \A j \in Customers : \A x : IsOf(j, x, customer) => IsOf(j, x, customer')
      /\ \A j \in Customers : customer[j].status = "live" => customer'[j].status = "live"
  <2>1. CASE sender = NoOne
    BY <2>1 DEF PublishWrite, IInv, TypeOK
  <2>2. CASE sender # NoOne
    BY <2>2, NewCustomerGrows, PartiesAssumption DEF PublishWrite
  <2> QED BY <2>1, <2>2
<1> HIDE DEF Booked
<1>3. /\ quote' \in [Quotes -> QuoteRow]
      /\ \A p \in Quotes : quote'[p] = IF p = q THEN Booked(q, o) ELSE quote[p]
  BY <1>1, BookedOK, QuoteTyped
<1>4. \A p \in Quotes : /\ QuoteFor(quote'[p], p, customer, account, origin)
                        /\ quote[p].status # "absent" => quote'[p].status # "absent"
  BY <1>3, BookedOK, QuoteTyped
<1>5. Grown
  BY <1>1, <1>2, <1>4 DEF Grown
<1>6. ASSUME NEW p \in Quotes
      PROVE  QuoteFor(quote'[p], p, customer', account', origin')
  <2>1. /\ quote'[p] \in QuoteRow /\ account' = account /\ origin' = origin
        /\ QuoteFor(quote'[p], p, customer, account, origin)
    BY <1>1, <1>3, <1>4
  <2>2. quote'[p].customer # NoOne => customer'[quote'[p].customer].status = "live"
    BY <1>2, <2>1 DEF QuoteFor, QuoteRow
  <2> DEFINE row == quote'[p]
  <2>3. row \in QuoteRow /\ QuoteFor(row, p, customer, account, origin)
    BY <2>1
  <2> QED BY <1>2, <2>1, <2>2, QuoteGrows
<1>7. orderQuote' \in [Orders -> Quotes \cup {NoOne}]
  BY <1>1 DEF IInv, TypeOK
<1> QED BY <1>1, <1>2, <1>3, <1>5, <1>6, <1>7, IdleFor, IdleTyped, StepInv DEF Keep, IInv, TypeOK

LEMMA AbortInv ==
  ASSUME IInv, NEW h \in Handlers, Abort(h)
  PROVE  IInv'
<1>1. lost' \subseteq TemporaryLeads
  <2>1. CASE handler[h].temp \in TemporaryLeads
    BY <2>1 DEF Abort, IInv, TypeOK
  <2>2. CASE handler[h].step # "name"
    BY <2>2 DEF Abort, IInv, TypeOK
  <2> QED BY <2>1, <2>2, Mine DEF Locals, LocalFor
<1> QED BY <1>1, DoneInv DEF Abort, IInv, TypeOK

-----------------------------------------------------------------------------
LEMMA InitInv == Init => IInv
<1> SUFFICES ASSUME Init PROVE IInv
  OBVIOUS
<1>1. TypeOK
  BY IdleTyped DEF Init, TypeOK, Origin, CustomerRow, NoCustomer, TempRow, NoTemp
<1>1a. Carries(customer)
  BY DEF Init, Carries, Blank, NoCustomer
<1>2. \A q \in Quotes : QuoteFor(quote[q], q, customer, account, origin)
  BY DEF Init, QuoteFor, RowFor, NoQuote
<1>3. \A h \in Handlers : LocalFor(handler[h], quote, customer, account, origin)
  BY IdleFor DEF Init
<1> QED BY <1>1, <1>1a, <1>2, <1>3 DEF IInv

LEMMA NextInv ==
  ASSUME IInv, Next PROVE IInv'
<1>1. ASSUME NEW h \in Handlers, Leading(h) PROVE IInv'
  BY <1>1, AskInv, InsertLeadInv, SendReadInv, NameLeadInv, EditReadInv, EditWriteInv,
     DeleteReadInv, DeleteQuoteInv, MarkQuotedInv, DropCustomerInv, AdoptInv, SendMailInv
  DEF Leading
<1>2. ASSUME NEW h \in Handlers, Registering(h) PROVE IInv'
  BY <1>2, RegisterInv, FindRowInv, FindLeadsInv, AdoptInv DEF Registering
<1>3. ASSUME NEW h \in Handlers, Publishing(h) PROVE IInv'
  BY <1>3, PublishReadInv, PublishWriteInv DEF Publishing
<1>4. ASSUME NEW q \in Quotes,
             \/ \E p \in Clients : CreateQuote(q, p)
             \/ \E s \in {"accepted", "canceled"} : Answer(q, s)
             \/ Age(q)
      PROVE  IInv'
  BY <1>4, CreateQuoteInv, AnswerInv, AgeInv
<1> QED BY <1>1, <1>2, <1>3, <1>4, AbortInv, TemporaryStepsInv, SavePartyInv DEF Next

\* Types, owners, customers and what every request in flight relies on,
\* whatever requests overlap and wherever they are cut off.
THEOREM Invariance == Spec => []IInv
<1>1. IInv /\ UNCHANGED vars => IInv'
  <2> SUFFICES ASSUME IInv, UNCHANGED vars PROVE IInv'
    OBVIOUS
  <2>1. Grown
    BY StandStill DEF vars, Tables
  <2> QED BY <2>1, TableInv DEF vars, IInv, TypeOK
<1> QED BY <1>1, InitInv, NextInv, PTL DEF Spec

\* Types of the tables and of the requests in flight.
THEOREM TypeCorrect == Spec => []TypeOK
<1>1. IInv => TypeOK
  BY DEF IInv
<1> QED BY <1>1, Invariance, PTL

\* The owner of a quote has registered, and is the one it was made for or one
\* whose address was written over the lead's customer.
THEOREM OwnerAskedHolds == Spec => []OwnerAsked
<1>1. IInv => OwnerAsked
  BY DEF IInv, OwnerAsked, QuoteFor, RowFor, Theirs, IsOf
<1> QED BY <1>1, Invariance, PTL


-----------------------------------------------------------------------------
(* One request at a time: leads and bookings. *)

OneAtATime == \A g, h \in Handlers : g = h

\* A lead names a customer, any other quote an owner.
Addressed(row) ==
  /\ row.status \in Leads => row.owner = NoOne /\ row.customer # NoOne
  /\ row.status \in Given => row.owner # NoOne /\ row.customer = NoOne

Ordered(q, oq) == \E o \in Orders : oq[o] = q

\* A quote with an order is booked, or its client changed his mind.
Settled(row, q, oq, ag) ==
  Ordered(q, oq) => /\ row.status \in Given /\ row.order # NoOne
                    /\ q \notin ag => row.status \in {"booked", "canceled"}

\* What a request read still stands.
Stands(r, qu, oq, ag) ==
  \A q \in r.quotes :
    /\ r.step = "edit" => Addressed(r.row) /\ Settled(r.row, q, oq, ag)
    /\ r.step \in {"delete", "send", "mark", "adopt"} => qu[q].status \in Leads
    /\ r.step = "publish" => qu[q].status \in Given /\ (Ordered(q, oq) => q \in ag)

SInv ==
  /\ \A q \in Quotes : Addressed(quote[q]) /\ Settled(quote[q], q, orderQuote, again)
  /\ \A h \in Handlers : Stands(handler[h], quote, orderQuote, again)
  /\ BookedOnce

LEMMA IdleStands ==
  ASSUME NEW qu, NEW oq, NEW ag PROVE Stands(Idle, qu, oq, ag)
BY DEF Stands, Idle

\* The end of a step of the one request in flight.
LEMMA SerialStep ==
  ASSUME OneAtATime, IInv, SInv, NEW h \in Handlers, NEW r, Keep(h, r),
         Stands(r, quote', orderQuote', again'),
         \A q \in Quotes : Addressed(quote'[q]) /\ Settled(quote'[q], q, orderQuote', again'),
         BookedOnce'
  PROVE  SInv'
<1>1. \A g \in Handlers : handler'[g] = r
  BY DEF OneAtATime, Keep, IInv, TypeOK
<1>2. \A g \in Handlers : Stands(handler'[g], quote', orderQuote', again')
  BY <1>1
<1> QED BY <1>2 DEF SInv

\* A step that reads, or ends without a write.
LEMMA SerialKeep ==
  ASSUME OneAtATime, IInv, SInv, NEW h \in Handlers, NEW r, Keep(h, r),
         Stands(r, quote, orderQuote, again), UNCHANGED <<quote, orderQuote, again>>
  PROVE  SInv'
<1>1. BookedOnce'
  BY DEF SInv, BookedOnce
<1> QED BY <1>1, SerialStep DEF SInv

\* A step that writes quotes only.
LEMMA SerialWrite ==
  ASSUME OneAtATime, IInv, SInv, NEW h \in Handlers, NEW r, Keep(h, r),
         r.step \in {"idle", "drop", "name"}, UNCHANGED <<orderQuote, again>>,
         \A q \in Quotes : quote'[q] = quote[q]
                           \/ (Addressed(quote'[q]) /\ Settled(quote'[q], q, orderQuote, again))
  PROVE  SInv'
<1>1. BookedOnce'
  BY DEF SInv, BookedOnce
<1>2. Stands(r, quote', orderQuote', again')
  BY DEF Stands
<1>3. \A q \in Quotes : Addressed(quote'[q]) /\ Settled(quote'[q], q, orderQuote', again')
  BY DEF SInv
<1> QED BY <1>1, <1>2, <1>3, SerialStep

\* The locals of the request in flight.
LEMMA Standing ==
  ASSUME SInv, NEW h \in Handlers, NEW q, q \in handler[h].quotes
  PROVE  /\ handler[h].step = "edit" =>
              Addressed(handler[h].row) /\ Settled(handler[h].row, q, orderQuote, again)
         /\ handler[h].step \in {"delete", "send", "mark", "adopt"} => quote[q].status \in Leads
         /\ handler[h].step = "publish" =>
              quote[q].status \in Given /\ (Ordered(q, orderQuote) => q \in again)
BY DEF SInv, Stands

\* A lead has no order.
LEMMA LeadsFree ==
  ASSUME SInv, NEW q \in Quotes, quote[q].status \in Leads
  PROVE  ~Ordered(q, orderQuote)
BY DEF SInv, Settled, Leads, Given

LEMMA SerialRead ==
  ASSUME OneAtATime, IInv, SInv, NEW h \in Handlers,
         NEW q \in Quotes, NEW k \in Customers \cup {NoOne},
         \/ \E t \in TemporaryLeads : OpenLink(h, q, t, k)
         \/ \E p \in Clients : ImportLead(h, q, p, k)
         \/ EditRead(h, q) \/ DeleteRead(h, q) \/ SendRead(h, q, k) \/ PublishRead(h, q)
  PROVE  SInv'
<1>1. ASSUME NEW r, Read(h, r), Stands(r, quote, orderQuote, again) PROVE SInv'
  BY <1>1, SerialKeep DEF Read, tables
<1>2. ASSUME NEW p, NEW t
      PROVE  Stands(Inserting(q, k, p, t), quote, orderQuote, again)
  BY DEF Stands, Inserting, Idle
<1>3. CASE \E t \in TemporaryLeads : OpenLink(h, q, t, k)
  BY <1>1, <1>2, <1>3 DEF OpenLink
<1>4. CASE \E p \in Clients : ImportLead(h, q, p, k)
  BY <1>1, <1>2, <1>4 DEF ImportLead
<1>5. CASE EditRead(h, q)
  <2>1. /\ EditLocals(q).step = "edit" /\ EditLocals(q).quotes = {q}
        /\ EditLocals(q).row = quote[q] /\ Read(h, EditLocals(q))
    BY <1>5 DEF EditLocals, Idle, EditRead
  <2> HIDE DEF EditLocals
  <2>2. Stands(EditLocals(q), quote, orderQuote, again)
    BY <2>1 DEF Stands, SInv
  <2> QED BY <1>1, <2>1, <2>2
<1>6. CASE DeleteRead(h, q)
  <2>1. DeleteLocals(q).step = "delete" /\ DeleteLocals(q).quotes = {q} /\ Read(h, DeleteLocals(q))
    BY <1>6 DEF DeleteLocals, Idle, DeleteRead
  <2> HIDE DEF DeleteLocals
  <2>2. Stands(DeleteLocals(q), quote, orderQuote, again)
    BY <1>6, <2>1 DEF Stands, DeleteRead
  <2> QED BY <1>1, <2>1, <2>2
<1>7. CASE SendRead(h, q, k)
  <2>1. SendLocals(q, k).step = "send" /\ SendLocals(q, k).quotes = {q} /\ Read(h, SendLocals(q, k))
    BY <1>7 DEF SendLocals, Idle, SendRead
  <2> HIDE DEF SendLocals
  <2>2. Stands(SendLocals(q, k), quote, orderQuote, again)
    BY <1>7, <2>1 DEF Stands, SendRead
  <2> QED BY <1>1, <2>1, <2>2
<1>8. CASE PublishRead(h, q)
  <2>1. /\ PublishLocals(q).step = "publish" /\ PublishLocals(q).quotes = {q}
        /\ Read(h, PublishLocals(q)) /\ quote[q].status \in Visible
    BY <1>8 DEF PublishLocals, Idle, PublishRead
  <2> HIDE DEF PublishLocals
  <2>2. Settled(quote[q], q, orderQuote, again)
    BY DEF SInv
  <2>3. Stands(PublishLocals(q), quote, orderQuote, again)
    BY <2>1, <2>2 DEF Stands, Settled, Visible, Given
  <2> QED BY <1>1, <2>1, <2>3
<1> QED BY <1>3, <1>4, <1>5, <1>6, <1>7, <1>8


LEMMA SerialLead ==
  ASSUME OneAtATime, IInv, SInv, NEW h \in Handlers, NEW q \in Quotes, NEW k \in Customers,
         InsertLead(h, q, k)
  PROVE  SInv'
<1> DEFINE row == [status |-> "lead", owner |-> NoOne, customer |-> k,
                   order |-> NoOne, fresh |-> TRUE]
           r == IF handler[h].temp = NoOne THEN Idle ELSE [handler[h] EXCEPT !.step = "name"]
<1>1. /\ quote' = [quote EXCEPT ![q] = row] /\ Keep(h, r) /\ quote[q].status = "absent"
      /\ UNCHANGED <<orderQuote, again>>
  BY DEF InsertLead, Keep, Done
<1>2. Addressed(row) /\ ~Ordered(q, orderQuote)
  BY <1>1, NoOneAssumption DEF Addressed, Given, SInv, Settled
<1>3. r.step \in {"idle", "name"}
  BY Mine, IdleTyped DEF Locals
<1> HIDE DEF row, r
<1>4. \A p \in Quotes : quote'[p] = IF p = q THEN row ELSE quote[p]
  BY <1>1, QuoteTyped
<1>5. \A p \in Quotes : quote'[p] = quote[p]
                     \/ (Addressed(quote'[p]) /\ Settled(quote'[p], p, orderQuote, again))
  BY <1>2, <1>4 DEF Settled
<1> QED BY <1>1, <1>3, <1>5, SerialWrite

LEMMA SerialEdit ==
  ASSUME OneAtATime, IInv, SInv, NEW h \in Handlers, NEW q \in Quotes, EditWrite(h, q)
  PROVE  SInv'
<1> DEFINE row == handler[h].row
<1>0. handler[h].step = "edit" /\ q \in handler[h].quotes /\ row \in QuoteRow
  BY Mine DEF EditWrite, Locals
<1>1. /\ quote' = [quote EXCEPT ![q] = Edited(q, row)] /\ Keep(h, Idle)
      /\ UNCHANGED <<orderQuote, again>>
      /\ Addressed(row) /\ Settled(row, q, orderQuote, again)
  <2>1. Addressed(row) /\ Settled(row, q, orderQuote, again)
    BY <1>0, Standing
  <2> QED BY <2>1, QuoteTyped DEF EditWrite, Edited, Done
<1>2. \/ Edited(q, row) = quote[q]
      \/ /\ Edited(q, row).status = row.status /\ Edited(q, row).owner = row.owner
         /\ Edited(q, row).customer = row.customer /\ Edited(q, row).order = row.order
  BY <1>0 DEF Edited, QuoteRow
<1> HIDE DEF Edited, row
<1>3. \/ Edited(q, row) = quote[q]
      \/ Addressed(Edited(q, row)) /\ Settled(Edited(q, row), q, orderQuote, again)
  BY <1>1, <1>2 DEF Addressed, Settled
<1>4. \A p \in Quotes : quote'[p] = IF p = q THEN Edited(q, row) ELSE quote[p]
  BY <1>1, QuoteTyped
<1>5. \A p \in Quotes : quote'[p] = quote[p]
                     \/ (Addressed(quote'[p]) /\ Settled(quote'[p], p, orderQuote, again))
  BY <1>3, <1>4
<1> QED BY <1>1, <1>5, IdleTyped, SerialWrite

LEMMA SerialDelete ==
  ASSUME OneAtATime, IInv, SInv, NEW h \in Handlers, NEW q \in Quotes, DeleteQuote(h, q)
  PROVE  SInv'
<1> DEFINE r == IF handler[h].customer = NoOne THEN Idle ELSE [handler[h] EXCEPT !.step = "drop"]
<1>1. /\ quote' = [quote EXCEPT ![q] = Removed] /\ Keep(h, r) /\ UNCHANGED <<orderQuote, again>>
      /\ ~Ordered(q, orderQuote)
  <2>1. handler[h].step = "delete" /\ q \in handler[h].quotes
    BY DEF DeleteQuote
  <2>2. quote[q].status \in Leads
    BY <2>1, Standing
  <2> QED BY <2>2, LeadsFree DEF DeleteQuote, Removed, Done
<1>2. Removed.status = "removed" /\ r.step \in {"idle", "drop"}
  BY Mine, IdleTyped DEF Removed, NoQuote, Locals
<1> HIDE DEF Removed, r
<1>3. Addressed(Removed) /\ Settled(Removed, q, orderQuote, again)
  BY <1>1, <1>2 DEF Addressed, Settled, Leads, Given
<1>4. \A p \in Quotes : quote'[p] = IF p = q THEN Removed ELSE quote[p]
  BY <1>1, QuoteTyped
<1>5. \A p \in Quotes : quote'[p] = quote[p]
                     \/ (Addressed(quote'[p]) /\ Settled(quote'[p], p, orderQuote, again))
  BY <1>3, <1>4
<1> QED BY <1>1, <1>2, <1>5, SerialWrite

LEMMA SerialAdopt ==
  ASSUME OneAtATime, IInv, SInv, NEW h \in Handlers, SendAdopt(h) \/ AdoptLeads(h)
  PROVE  SInv'
<1> DEFINE me == handler[h]
           r == [me EXCEPT !.step = "drop"]
<1>1. /\ quote' = Adopted(me.quotes, me.client) /\ Keep(h, r) /\ UNCHANGED <<orderQuote, again>>
      /\ me.client \in account /\ me.quotes \in SUBSET Quotes
      /\ \A q \in me.quotes : quote[q].status \in Leads
  <2>1. me.step \in {"send", "adopt"}
    BY DEF SendAdopt, AdoptLeads
  <2>2. me.client \in account /\ me.quotes \in SUBSET Quotes
    BY Mine DEF SendAdopt, AdoptLeads, LocalFor, Locals
  <2>3. \A q \in me.quotes : quote[q].status \in Leads
    BY <2>1, Standing
  <2> QED BY <2>2, <2>3 DEF SendAdopt, AdoptLeads
<1>2. me.client # NoOne
  BY <1>1, NoOneAssumption DEF IInv, TypeOK
<1>3. r.step = "drop"
  BY Mine DEF Locals
<1> HIDE DEF r
<1>4. ASSUME NEW q \in Quotes
      PROVE  \/ quote'[q] = quote[q]
             \/ (Addressed(quote'[q]) /\ Settled(quote'[q], q, orderQuote, again))
  <2>1. CASE q \in me.quotes /\ Exists(q)
    <3>1. quote'[q] = [quote[q] EXCEPT !.owner = me.client, !.status = "new", !.customer = NoOne]
      BY <1>1, <2>1 DEF Adopted
    <3>2. quote'[q].status = "new" /\ quote'[q].owner # NoOne /\ quote'[q].customer = NoOne
      BY <1>2, <3>1, QuoteTyped DEF QuoteRow
    <3>3. ~Ordered(q, orderQuote)
      BY <1>1, <2>1, LeadsFree
    <3> QED BY <3>2, <3>3 DEF Addressed, Settled, Leads
  <2>2. CASE ~(q \in me.quotes /\ Exists(q))
    BY <1>1, <2>2 DEF Adopted
  <2> QED BY <2>1, <2>2
<1> QED BY <1>1, <1>3, <1>4, SerialWrite

LEMMA SerialMark ==
  ASSUME OneAtATime, IInv, SInv, NEW h \in Handlers, NEW q \in Quotes, MarkQuoted(h, q)
  PROVE  SInv'
<1>1. /\ quote[q].status \in Leads /\ Keep(h, Idle) /\ UNCHANGED <<orderQuote, again>>
      /\ ~Ordered(q, orderQuote)
  <2>1. handler[h].step = "mark" /\ q \in handler[h].quotes
    BY DEF MarkQuoted
  <2>2. quote[q].status \in Leads
    BY <2>1, Standing
  <2> QED BY <2>2, LeadsFree DEF MarkQuoted, Done
<1>2. quote' = [quote EXCEPT ![q] = Restatus(q, "quoted")]
  BY <1>1, QuoteTyped DEF MarkQuoted, Restatus, Exists, Leads
<1>3. "quoted" \in QUOTE_STATUS
  BY DEF QUOTE_STATUS
<1> HIDE DEF Restatus
<1>4. Addressed(Restatus(q, "quoted")) /\ Settled(Restatus(q, "quoted"), q, orderQuote, again)
  BY <1>1, <1>3, RestatusOK DEF SInv, Addressed, Settled, Given
<1>5. \A p \in Quotes : quote'[p] = IF p = q THEN Restatus(q, "quoted") ELSE quote[p]
  BY <1>2, QuoteTyped
<1>6. \A p \in Quotes : quote'[p] = quote[p]
                     \/ (Addressed(quote'[p]) /\ Settled(quote'[p], p, orderQuote, again))
  BY <1>4, <1>5
<1> QED BY <1>1, <1>6, IdleTyped, SerialWrite

LEMMA SerialRow ==
  ASSUME OneAtATime, IInv, SInv, NEW h \in Handlers, NEW k \in Customers \cup {NoOne}, FindRow(h, k)
  PROVE  SInv'
<1> DEFINE r == [handler[h] EXCEPT !.step = "look", !.customer = k]
<1>1. UNCHANGED <<quote, orderQuote, again>> /\ (Keep(h, Idle) \/ Keep(h, r))
  BY DEF FindRow, tables, Done
<1>2. r.step = "look"
  BY Mine DEF Locals
<1> HIDE DEF r
<1>3. Stands(r, quote, orderQuote, again)
  BY <1>2 DEF Stands
<1> QED BY <1>1, <1>3, IdleStands, SerialKeep

LEMMA SerialFind ==
  ASSUME OneAtATime, IInv, SInv, NEW h \in Handlers, NEW k \in Customers, FindLeads(h, k)
  PROVE  SInv'
<1> DEFINE me == handler[h]
           S == {q \in Quotes : Exists(q) /\ quote[q].customer = k}
           r == [me EXCEPT !.step = "adopt", !.quotes = S]
<1>1. UNCHANGED <<quote, orderQuote, again>> /\ k # NoOne
  BY NoOneAssumption DEF FindLeads, tables
<1>2. CASE Keep(h, Idle)
  BY <1>1, <1>2, IdleStands, SerialKeep
<1>3. CASE Keep(h, r)
  <2>1. r.step = "adopt" /\ r.quotes = S
    BY Mine DEF Locals
  <2>2. ASSUME NEW q \in S PROVE quote[q].status \in Leads
    BY <1>1, QuoteTyped DEF SInv, Addressed, Exists, QuoteRow, QUOTE_STATUS, Leads, Given
  <2> HIDE DEF r
  <2>3. Stands(r, quote, orderQuote, again)
    BY <2>1, <2>2 DEF Stands
  <2> QED BY <1>1, <1>3, <2>3, SerialKeep
<1> QED BY <1>2, <1>3 DEF FindLeads, Done

LEMMA SerialMail ==
  ASSUME OneAtATime, IInv, SInv, NEW h \in Handlers, SendMail(h)
  PROVE  SInv'
<1> DEFINE r == [handler[h] EXCEPT !.step = "mark"]
<1>1. r.step = "mark" /\ r.quotes = handler[h].quotes
  BY Mine DEF Locals
<1>2. Keep(h, r) /\ UNCHANGED <<quote, orderQuote, again>> /\ handler[h].step = "send"
  BY DEF SendMail, tables
<1> HIDE DEF r
<1>3. Stands(r, quote, orderQuote, again)
  BY <1>1, <1>2, Standing DEF Stands
<1> QED BY <1>2, <1>3, SerialKeep

LEMMA SerialEnds ==
  ASSUME OneAtATime, IInv, SInv, NEW h \in Handlers,
         \/ \E q \in Quotes : NameLead(h, q)
         \/ \E k \in Customers : DropCustomer(h, k)
         \/ Abort(h)
  PROVE  SInv'
BY IdleStands, SerialKeep DEF NameLead, DropCustomer, Abort, Done

LEMMA SerialRegister ==
  ASSUME OneAtATime, IInv, SInv, NEW h \in Handlers, NEW p \in Clients, Register(h, p)
  PROVE  SInv'
<1>1. Keep(h, FindingLocals(p)) /\ UNCHANGED <<quote, orderQuote, again>>
  BY DEF Register, FindingLocals
<1>2. FindingLocals(p).quotes = {}
  BY DEF FindingLocals, Idle
<1> HIDE DEF FindingLocals
<1>3. Stands(FindingLocals(p), quote, orderQuote, again)
  BY <1>2 DEF Stands
<1> QED BY <1>1, <1>3, SerialKeep


LEMMA SerialPublish ==
  ASSUME OneAtATime, IInv, SInv, NEW h \in Handlers, NEW q \in Quotes, NEW o \in Orders,
         NEW k \in Customers, NEW sender \in Parties \cup {NoOne}, PublishWrite(h, q, o, k, sender)
  PROVE  SInv'
<1>1. handler[h].step = "publish" /\ q \in handler[h].quotes
  BY DEF PublishWrite
<1>2. quote[q].status \in Given /\ (Ordered(q, orderQuote) => q \in again)
  BY <1>1, Standing
<1>3. /\ quote' = [quote EXCEPT ![q] = Booked(q, o)] /\ Keep(h, Idle)
      /\ orderQuote[o] = NoOne /\ orderQuote' = [orderQuote EXCEPT ![o] = q]
      /\ orderQuote \in [Orders -> Quotes \cup {NoOne}] /\ UNCHANGED again
  BY QuoteTyped DEF PublishWrite, Booked, Done, IInv, TypeOK
<1>4. /\ Booked(q, o).status = "booked" /\ Booked(q, o).order = o
      /\ Booked(q, o).owner = quote[q].owner /\ Booked(q, o).customer = quote[q].customer
  BY <1>2, BookedOK DEF Exists, Given
<1> HIDE DEF Booked
<1>5. /\ \A p \in Quotes : quote'[p] = IF p = q THEN Booked(q, o) ELSE quote[p]
      /\ \A a \in Orders : orderQuote'[a] = IF a = o THEN q ELSE orderQuote[a]
  BY <1>3, QuoteTyped
<1>6. q # NoOne /\ o # NoOne
  BY NoOneAssumption
<1>7. ASSUME NEW p \in Quotes
      PROVE  Addressed(quote'[p]) /\ Settled(quote'[p], p, orderQuote', again')
  <2>0. Addressed(quote[p]) /\ Settled(quote[p], p, orderQuote, again) /\ Addressed(quote[q])
    BY DEF SInv
  <2>1. CASE p = q
    BY <1>2, <1>4, <1>5, <1>6, <2>0, <2>1 DEF Addressed, Settled, Given, Leads
  <2>2. CASE p # q
    <3>1. Ordered(p, orderQuote') => Ordered(p, orderQuote)
      BY <1>5, <2>2 DEF Ordered
    <3> QED BY <1>3, <1>5, <2>0, <2>2, <3>1 DEF Settled
  <2> QED BY <2>1, <2>2
<1>8. BookedOnce'
  <2> SUFFICES ASSUME NEW a \in Orders, NEW b \in Orders, a # b, orderQuote'[a] = orderQuote'[b]
               PROVE  orderQuote'[a] \in again \cup {NoOne}
    BY <1>3 DEF BookedOnce
  <2>1. CASE a = o \/ b = o
    <3>1. Ordered(q, orderQuote)
      BY <1>5, <2>1 DEF Ordered
    <3> QED BY <1>2, <1>5, <2>1, <3>1
  <2>2. CASE a # o /\ b # o
    BY <1>5, <2>2 DEF SInv, BookedOnce
  <2> QED BY <2>1, <2>2
<1> QED BY <1>3, <1>7, <1>8, IdleStands, SerialStep

\* A step of nobody's that writes quote q.
LEMMA SerialTable ==
  ASSUME IInv, SInv, NEW q \in Quotes, NEW row, quote' = [quote EXCEPT ![q] = row],
         UNCHANGED <<handler, orderQuote>>, again \subseteq again',
         Addressed(row), Settled(row, q, orderQuote, again'),
         quote[q].status \notin Leads \/ row.status = quote[q].status,
         quote[q].status \in Given => row.status \in Given,
         \A p \in again' : p \in again \/ p = q
  PROVE  SInv'
<1>1. \A p \in Quotes : quote'[p] = IF p = q THEN row ELSE quote[p]
  BY QuoteTyped
<1>2. \A p \in Quotes : Addressed(quote'[p]) /\ Settled(quote'[p], p, orderQuote', again')
  BY <1>1 DEF SInv, Settled
<1>3. ASSUME NEW h \in Handlers
      PROVE  Stands(handler'[h], quote', orderQuote', again')
  <2>1. handler[h].quotes \subseteq Quotes
    BY Mine DEF Locals
  <2>2. Stands(handler[h], quote, orderQuote, again)
    BY DEF SInv
  <2> QED BY <1>1, <2>1, <2>2 DEF Stands, Settled
<1>4. BookedOnce'
  BY DEF SInv, BookedOnce
<1> QED BY <1>2, <1>3, <1>4 DEF SInv

LEMMA SerialClients ==
  ASSUME IInv, SInv, NEW q \in Quotes,
         \/ \E p \in Clients : CreateQuote(q, p)
         \/ \E s \in {"accepted", "canceled"} : Answer(q, s)
         \/ Age(q)
  PROVE  SInv'
<1>0. Addressed(quote[q]) /\ Settled(quote[q], q, orderQuote, again) /\ again \subseteq Quotes
  BY DEF SInv, IInv, TypeOK
<1>1. CASE \E p \in Clients : CreateQuote(q, p)
  <2> PICK p \in Clients : CreateQuote(q, p)
    BY <1>1
  <2>1. GivenTo(p).status = "new" /\ GivenTo(p).owner = p /\ GivenTo(p).customer = NoOne
    BY DEF GivenTo
  <2>2. /\ quote[q].status = "absent" /\ quote' = [quote EXCEPT ![q] = GivenTo(p)]
        /\ UNCHANGED <<handler, orderQuote, again>>
    BY DEF CreateQuote, GivenTo
  <2> HIDE DEF GivenTo
  <2>3. ~Ordered(q, orderQuote)
    BY <1>0, <2>2 DEF Settled, Given
  <2>4. Addressed(GivenTo(p)) /\ Settled(GivenTo(p), q, orderQuote, again')
    BY <2>1, <2>3, NoOneAssumption DEF Addressed, Settled, Leads
  <2>5. quote[q].status \notin Leads /\ quote[q].status \notin Given
    BY <2>2 DEF Leads, Given
  <2> QED BY <2>2, <2>4, <2>5, SerialTable
<1>2. CASE \E s \in {"accepted", "canceled"} : Answer(q, s)
  <2> PICK s \in {"accepted", "canceled"} : Answer(q, s)
    BY <1>2
  <2>1. s \in QUOTE_STATUS /\ s \notin {"absent", "removed"} /\ s \in Given
    BY DEF QUOTE_STATUS, Given
  <2>2. /\ Restatus(q, s).status = s /\ Restatus(q, s).owner = quote[q].owner
        /\ Restatus(q, s).customer = quote[q].customer /\ Restatus(q, s).order = quote[q].order
    BY <2>1, RestatusOK
  <2>3. /\ quote' = [quote EXCEPT ![q] = Restatus(q, s)] /\ UNCHANGED <<handler, orderQuote>>
        /\ again' = IF s = "accepted" /\ quote[q].order # NoOne THEN again \cup {q} ELSE again
        /\ Exists(q) /\ quote[q].owner # NoOne
    BY DEF Answer, Restatus
  <2> HIDE DEF Restatus
  <2>4. quote[q].status \in Given /\ quote[q].status \notin Leads
    BY <1>0, <2>3, QuoteTyped DEF Addressed, Exists, QuoteRow, QUOTE_STATUS, Leads, Given
  <2>5. Addressed(Restatus(q, s))
    BY <1>0, <2>1, <2>2, <2>4 DEF Addressed, Leads
  <2>6. Settled(Restatus(q, s), q, orderQuote, again')
    BY <1>0, <2>1, <2>2, <2>3 DEF Settled
  <2> QED BY <2>1, <2>2, <2>3, <2>4, <2>5, <2>6, SerialTable
<1>3. CASE Age(q)
  <2>1. quote' = [quote EXCEPT ![q] = Aged(q)] /\ UNCHANGED <<handler, orderQuote, again>>
    BY <1>3 DEF Age, Aged
  <2>2. /\ Aged(q).status = quote[q].status /\ Aged(q).owner = quote[q].owner
        /\ Aged(q).customer = quote[q].customer /\ Aged(q).order = quote[q].order
    BY QuoteTyped DEF Aged, QuoteRow
  <2> HIDE DEF Aged
  <2>3. Addressed(Aged(q)) /\ Settled(Aged(q), q, orderQuote, again')
    BY <1>0, <2>1, <2>2 DEF Addressed, Settled
  <2> QED BY <2>1, <2>2, <2>3, SerialTable
<1> QED BY <1>1, <1>2, <1>3

LEMMA SerialUnchanged ==
  ASSUME SInv, UNCHANGED <<quote, orderQuote, handler, again>>
  PROVE  SInv'
BY DEF SInv, BookedOnce

LEMMA SerialNext ==
  ASSUME OneAtATime, IInv, SInv, Next PROVE SInv'
<1>1. ASSUME NEW h \in Handlers, Leading(h) PROVE SInv'
  BY <1>1, SerialRead, SerialLead, SerialEdit, SerialDelete, SerialMark, SerialAdopt,
     SerialMail, SerialEnds DEF Leading
<1>2. ASSUME NEW h \in Handlers, Registering(h) PROVE SInv'
  BY <1>2, SerialRegister, SerialRow, SerialFind, SerialAdopt DEF Registering
<1>3. ASSUME NEW h \in Handlers, Publishing(h) PROVE SInv'
  <2>1. CASE \E q \in Quotes : PublishRead(h, q)
    BY <2>1, SerialRead
  <2>2. CASE \E q \in Quotes, o \in Orders, k \in Customers, sender \in Parties \cup {NoOne} :
               PublishWrite(h, q, o, k, sender)
    BY <2>2, SerialPublish
  <2> QED BY <1>3, <2>1, <2>2 DEF Publishing
<1>4. ASSUME NEW q \in Quotes,
             \/ \E p \in Clients : CreateQuote(q, p)
             \/ \E s \in {"accepted", "canceled"} : Answer(q, s)
             \/ Age(q)
      PROVE  SInv'
  BY <1>4, SerialClients
<1>5. CASE \/ \E t \in TemporaryLeads : (\E p \in Clients : CreateTemporary(t, p)) \/ Expire(t)
           \/ RemoveExpired
           \/ \E j \in Customers \cup {NoOne}, k \in Customers, p \in Parties : SaveParty(j, k, p)
  BY <1>5, SerialUnchanged DEF CreateTemporary, Expire, RemoveExpired, SaveParty
<1> QED BY <1>1, <1>2, <1>3, <1>4, <1>5, SerialEnds DEF Next

\* What the statuses of quotes say, and what the one request in flight has
\* read, still stands when it commits.
THEOREM SerialInvariance ==
  ASSUME OneAtATime
  PROVE  Spec => []SInv
<1>1. Init => SInv
  <2> SUFFICES ASSUME Init PROVE SInv
    OBVIOUS
  <2>1. \A q \in Quotes : quote[q].status = "absent" /\ ~Ordered(q, orderQuote)
    BY NoOneAssumption DEF Init, NoQuote, Ordered
  <2>2. BookedOnce
    BY DEF Init, BookedOnce
  <2> QED BY <2>1, <2>2, IdleStands DEF Init, SInv, Addressed, Settled, Leads, Given
<1>2. IInv /\ SInv /\ [Next]_vars => SInv'
  BY SerialNext, SerialUnchanged DEF vars
<1> QED BY <1>1, <1>2, Invariance, PTL DEF Spec

\* With one request at a time every lead names a live customer and every other
\* quote an owner.
THEOREM LeadHasCustomerHolds ==
  ASSUME OneAtATime
  PROVE  Spec => []LeadHasCustomer
<1>1. IInv /\ SInv => LeadHasCustomer
  BY DEF IInv, SInv, LeadHasCustomer, QuoteFor, Addressed
<1> QED BY <1>1, Invariance, SerialInvariance, PTL

\* With one request at a time a quote is booked as one order, unless its
\* client accepted it again.
THEOREM BookedOnceHolds ==
  ASSUME OneAtATime
  PROVE  Spec => []BookedOnce
<1>1. SInv => BookedOnce
  BY DEF SInv
<1> QED BY <1>1, SerialInvariance, PTL


-----------------------------------------------------------------------------
(* One request at a time: links. *)

Naming(q, t) ==
  \E h \in Handlers : handler[h].step = "name" /\ handler[h].temp = t /\ handler[h].quotes = {q}

\* A temporary lead that made a lead knows it, or is about to, or is gone, or
\* was cut off.
Noted(q) ==
  LET t == origin[q].temp
  IN  t # NoOne => /\ temp[t].status # "absent"
                   /\ t \in lost \/ temp[t].status = "removed" \/ temp[t].lead = q \/ Naming(q, t)

\* A request that makes a lead from a temporary lead makes its first.
First(r) ==
  r.step \in {"insert", "name"} /\ r.temp # NoOne =>
    /\ temp[r.temp].status # "absent"
    /\ r.step = "insert" =>
         r.temp \in lost \/ \A q \in Quotes : origin[q].temp # r.temp
    /\ r.step = "name" => \A q \in Quotes : r.quotes = {q} => origin[q].temp = r.temp

OneLead ==
  \A p, q \in Quotes :
    origin[p].temp = origin[q].temp /\ origin[p].temp # NoOne /\ origin[p].temp \notin lost => p = q

LInv ==
  /\ \A q \in Quotes : Noted(q)
  /\ \A h \in Handlers : First(handler[h])
  /\ OneLead

LEMMA TempTyped ==
  ASSUME IInv
  PROVE  /\ temp \in [TemporaryLeads -> TempRow]
         /\ \A q \in Quotes : origin[q].temp \in TemporaryLeads \cup {NoOne}
         /\ \A t \in TemporaryLeads : temp[t].lead \in Quotes \cup {NoOne}
BY DEF IInv, TypeOK, TempRow, Origin

\* A step that makes no lead, while no link is being followed or before the
\* lead is noted.
LEMMA LinksKept ==
  ASSUME OneAtATime, IInv, LInv, NEW h \in Handlers, NEW r, Keep(h, r),
         handler[h].step # "name", r.step \notin {"insert", "name"},
         UNCHANGED <<temp, lost>>, \A q \in Quotes : origin'[q].temp = origin[q].temp
  PROVE  LInv'
<1>1. \A g \in Handlers : handler'[g] = r /\ handler[g].step # "name"
  BY DEF OneAtATime, Keep, IInv, TypeOK
<1>2. ASSUME NEW q \in Quotes PROVE Noted(q)'
  BY <1>1 DEF LInv, Noted, Naming
<1>3. (\A g \in Handlers : First(handler[g]))'
  BY <1>1 DEF First
<1>4. OneLead'
  BY DEF LInv, OneLead
<1> QED BY <1>2, <1>3, <1>4 DEF LInv

LEMMA LinksFollowed ==
  ASSUME OneAtATime, IInv, LInv, NEW h \in Handlers, NEW q \in Quotes,
         NEW p, NEW t \in TemporaryLeads \cup {NoOne}, NEW k,
         t # NoOne => temp[t].status = "open" /\ temp[t].lead = NoOne,
         Read(h, Inserting(q, k, p, t))
  PROVE  LInv'
<1>1. /\ Inserting(q, k, p, t).step = "insert" /\ Inserting(q, k, p, t).temp = t
  BY DEF Inserting, Idle
<1> HIDE DEF Inserting
<1>2. \A g \in Handlers : handler'[g] = Inserting(q, k, p, t) /\ handler[g].step # "name"
  BY IdleTyped DEF OneAtATime, Read, Keep, IInv, TypeOK
<1>3. UNCHANGED <<temp, lost, origin>>
  BY DEF Read, tables
<1>4. ASSUME NEW x \in Quotes PROVE Noted(x)'
  BY <1>2, <1>3 DEF LInv, Noted, Naming
<1>5. ASSUME t # NoOne, t \notin lost, NEW x \in Quotes, origin[x].temp = t PROVE FALSE
  <2>1. Noted(x) /\ x # NoOne
    BY NoOneAssumption DEF LInv
  <2> QED BY <1>2, <1>5, <2>1 DEF Noted, Naming
<1>6. (\A g \in Handlers : First(handler[g]))'
  BY <1>1, <1>2, <1>3, <1>5 DEF First
<1>7. OneLead'
  BY <1>3 DEF LInv, OneLead
<1> QED BY <1>4, <1>6, <1>7 DEF LInv

LEMMA LinksInserted ==
  ASSUME OneAtATime, IInv, LInv, NEW h \in Handlers, NEW q \in Quotes, NEW k \in Customers,
         InsertLead(h, q, k)
  PROVE  LInv'
<1> DEFINE me == handler[h]
           r == IF me.temp = NoOne THEN Idle ELSE [me EXCEPT !.step = "name"]
<1>1. /\ me \in Locals /\ me.step = "insert" /\ me.quotes = {q} /\ First(me)
      /\ me.temp \in TemporaryLeads \cup {NoOne}
  BY DEF InsertLead, IInv, TypeOK, LInv, Locals
<1>2. Keep(h, r) /\ UNCHANGED <<temp, lost>>
  BY DEF InsertLead, Done
<1>3. \A x \in Quotes : origin'[x].temp = IF x = q THEN me.temp ELSE origin[x].temp
  BY DEF InsertLead, IInv, TypeOK
<1>4. /\ r.step = IF me.temp = NoOne THEN "idle" ELSE "name"
      /\ me.temp # NoOne => r.temp = me.temp /\ r.quotes = {q}
  BY <1>1, IdleTyped DEF Locals
<1> HIDE DEF r
<1>5. \A g \in Handlers : handler'[g] = r /\ handler[g] = me
  BY <1>2 DEF OneAtATime, Keep, IInv, TypeOK
<1>6. ASSUME NEW x \in Quotes PROVE Noted(x)'
  <2>1. CASE x = q
    <3>1. me.temp # NoOne =>
            \E g \in Handlers :
              handler'[g].step = "name" /\ handler'[g].temp = me.temp /\ handler'[g].quotes = {q}
      BY <1>4, <1>5
    <3>2. me.temp # NoOne => temp[me.temp].status # "absent"
      BY <1>1 DEF First
    <3>3. origin'[x].temp = me.temp
      BY <1>3, <2>1
    <3>4. me.temp # NoOne => temp'[me.temp].status # "absent"
      BY <1>2, <3>2
    <3> HIDE DEF me
    <3> QED BY <2>1, <3>1, <3>3, <3>4 DEF Noted, Naming
  <2>2. CASE x # q
    <3>1. Noted(x) /\ \A t : ~Naming(x, t)
      BY <1>1, <1>5 DEF LInv, Naming
    <3> QED BY <1>2, <1>3, <2>2, <3>1 DEF Noted
  <2> QED BY <2>1, <2>2
<1>7. (\A g \in Handlers : First(handler[g]))'
  BY <1>1, <1>2, <1>3, <1>4, <1>5 DEF First
<1>8. OneLead'
  BY <1>1, <1>2, <1>3 DEF LInv, OneLead, First
<1> QED BY <1>6, <1>7, <1>8 DEF LInv

LEMMA LinksNamed ==
  ASSUME OneAtATime, IInv, LInv, NEW h \in Handlers, NEW q \in Quotes, NameLead(h, q)
  PROVE  LInv'
<1> DEFINE t == handler[h].temp
<1>1. /\ handler[h].step = "name" /\ handler[h].quotes = {q} /\ t \in TemporaryLeads
      /\ UNCHANGED <<origin, lost>> /\ Keep(h, Idle)
  BY Mine DEF NameLead, Done, Locals, LocalFor
<1>2. \A g \in Handlers : handler'[g] = Idle /\ handler[g] = handler[h]
  BY <1>1 DEF OneAtATime, Keep, IInv, TypeOK
<1>3. /\ temp'[t].status = temp[t].status
      /\ temp[t].status # "removed" => temp'[t].lead = q
      /\ \A u \in TemporaryLeads : u # t => temp'[u] = temp[u]
  BY <1>1, TempTyped DEF NameLead, TempRow
<1>4. ASSUME NEW x \in Quotes PROVE Noted(x)'
  <2>1. Noted(x) /\ origin[x].temp \in TemporaryLeads \cup {NoOne}
    BY TempTyped DEF LInv
  <2>2. CASE origin[x].temp = t /\ t \notin lost
    <3>1. origin[q].temp = t /\ t # NoOne
      BY <1>1, NoOneAssumption DEF LInv, First
    <3>2. x = q
      BY <2>2, <3>1 DEF LInv, OneLead
    <3>3. temp[t].status # "absent"
      BY <2>1, <2>2, <3>1 DEF Noted
    <3> HIDE DEF t
    <3> QED BY <1>1, <1>3, <2>2, <3>2, <3>3 DEF Noted
  <2>3. CASE ~(origin[x].temp = t /\ t \notin lost)
    BY <1>1, <1>2, <1>3, <2>1, <2>3 DEF Noted, Naming
  <2> QED BY <2>2, <2>3
<1>5. (\A g \in Handlers : First(handler[g]))'
  BY <1>2, IdleTyped DEF First
<1>6. OneLead'
  BY <1>1 DEF LInv, OneLead
<1> QED BY <1>4, <1>5, <1>6 DEF LInv

LEMMA LinksAborted ==
  ASSUME OneAtATime, IInv, LInv, NEW h \in Handlers, Abort(h)
  PROVE  LInv'
<1>1. /\ UNCHANGED <<temp, origin>> /\ Keep(h, Idle) /\ lost \subseteq lost'
      /\ handler[h].step = "name" => handler[h].temp \in lost'
  BY DEF Abort, Done
<1>2. \A g \in Handlers : handler'[g] = Idle /\ handler[g] = handler[h]
  BY <1>1 DEF OneAtATime, Keep, IInv, TypeOK
<1>3. ASSUME NEW x \in Quotes PROVE Noted(x)'
  <2>1. Naming(x, origin[x].temp) => origin[x].temp \in lost'
    BY <1>1, <1>2 DEF Naming
  <2> QED BY <1>1, <2>1 DEF Noted, LInv
<1>4. (\A g \in Handlers : First(handler[g]))'
  BY <1>2, IdleTyped DEF First
<1>5. OneLead'
  BY <1>1 DEF LInv, OneLead
<1> QED BY <1>3, <1>4, <1>5 DEF LInv

\* A step that makes no lead and moves no request.
LEMMA LinksBeside ==
  ASSUME IInv, LInv, UNCHANGED <<handler, lost>>,
         \A q \in Quotes : origin'[q].temp = origin[q].temp,
         \A t \in TemporaryLeads :
           temp[t].status # "absent" =>
             /\ temp'[t].status # "absent"
             /\ temp[t].status = "removed" => temp'[t].status = "removed"
             /\ temp'[t].status = "removed" \/ temp'[t].lead = temp[t].lead
  PROVE  LInv'
<1>1. ASSUME NEW x \in Quotes PROVE Noted(x)'
  <2> DEFINE t == origin[x].temp
  <2>1. t \in TemporaryLeads \cup {NoOne} /\ origin'[x].temp = t
    BY TempTyped
  <2>2. Noted(x)
    BY DEF LInv
  <2>3. t # NoOne => /\ temp'[t].status # "absent"
                     /\ t \in lost' \/ temp'[t].status = "removed" \/ temp'[t].lead = x
                        \/ Naming(x, t)
    BY <2>1, <2>2 DEF Noted
  <2> HIDE DEF t
  <2> QED BY <2>1, <2>3 DEF Noted, Naming
<1>2. ASSUME NEW h \in Handlers PROVE First(handler[h])'
  <2>1. handler[h].temp \in TemporaryLeads \cup {NoOne} /\ First(handler[h])
    BY DEF IInv, TypeOK, Locals, LInv
  <2> QED BY <2>1 DEF First
<1>3. OneLead'
  BY DEF LInv, OneLead
<1> QED BY <1>1, <1>2, <1>3 DEF LInv

LEMMA LinksTable ==
  ASSUME IInv, LInv,
         \/ \E t \in TemporaryLeads : (\E p \in Clients : CreateTemporary(t, p)) \/ Expire(t)
         \/ RemoveExpired
  PROVE  LInv'
<1>1. UNCHANGED <<handler, lost, origin>>
  BY DEF CreateTemporary, Expire, RemoveExpired
<1>2. ASSUME NEW u \in TemporaryLeads, temp[u].status # "absent"
      PROVE  /\ temp'[u].status # "absent"
             /\ temp[u].status = "removed" => temp'[u].status = "removed"
             /\ temp'[u].status = "removed" \/ temp'[u].lead = temp[u].lead
  <2>1. temp \in [TemporaryLeads -> TempRow] /\ temp[u] \in TempRow
    BY TempTyped
  <2>2. CASE \E t \in TemporaryLeads, p \in Clients : CreateTemporary(t, p)
    BY <1>2, <2>1, <2>2 DEF CreateTemporary
  <2>3. CASE \E t \in TemporaryLeads : Expire(t)
    BY <1>2, <2>1, <2>3 DEF Expire, TempRow
  <2>4. CASE RemoveExpired
    BY <1>2, <2>1, <2>4 DEF RemoveExpired, NoTemp
  <2> QED BY <2>2, <2>3, <2>4
<1> QED BY <1>1, <1>2, LinksBeside

LEMMA LinksClients ==
  ASSUME IInv, LInv, NEW q \in Quotes,
         \/ \E p \in Clients : CreateQuote(q, p)
         \/ \E s \in {"accepted", "canceled"} : Answer(q, s)
         \/ Age(q)
  PROVE  LInv'
<1>1. UNCHANGED <<handler, lost, temp>> /\ \A x \in Quotes : origin'[x].temp = origin[x].temp
  <2>1. origin \in [Quotes -> Origin]
    BY DEF IInv, TypeOK
  <2>2. CASE \E p \in Clients : CreateQuote(q, p)
    <3> PICK p \in Clients : CreateQuote(q, p)
      BY <2>2
    <3>1. /\ UNCHANGED <<handler, lost, temp>>
          /\ origin' = [origin EXCEPT ![q].client = p, ![q].customer = NoOne]
      BY DEF CreateQuote
    <3>2. ASSUME NEW x \in Quotes PROVE origin'[x].temp = origin[x].temp
      <4>1. origin[q] \in Origin
        BY <2>1
      <4>2. [[origin[q] EXCEPT !.client = p] EXCEPT !.customer = NoOne].temp = origin[q].temp
        BY <4>1 DEF Origin
      <4> QED BY <2>1, <3>1, <4>1, <4>2 DEF Origin
    <3> QED BY <3>1, <3>2
  <2> QED BY <2>2 DEF Answer, Age
<1> QED BY <1>1, LinksBeside

\* What a request of another kind keeps is not about a link.
LEMMA LinksElsewhere ==
  ASSUME OneAtATime, IInv, LInv, NEW h \in Handlers, NEW q \in Quotes,
         NEW k \in Customers \cup {NoOne}, NEW o, NEW sender,
         \/ EditRead(h, q) \/ EditWrite(h, q) \/ DeleteRead(h, q) \/ DeleteQuote(h, q)
         \/ SendRead(h, q, k) \/ MarkQuoted(h, q)
         \/ PublishRead(h, q) \/ PublishWrite(h, q, o, k, sender)
  PROVE  LInv'
<1>1. /\ handler[h].step # "name" /\ UNCHANGED <<temp, lost, origin>>
      /\ \E r : Keep(h, r) /\ r.step \notin {"insert", "name"}
  <2>0. handler[h] \in Locals /\ Idle.step = "idle"
    BY IdleTyped DEF IInv, TypeOK
  <2>1. CASE EditRead(h, q)
    <3>1. Read(h, EditLocals(q)) /\ EditLocals(q).step = "edit"
      BY <2>1 DEF EditRead, EditLocals, Idle
    <3> HIDE DEF EditLocals
    <3> QED BY <2>0, <3>1 DEF Read, tables
  <2>2. CASE DeleteRead(h, q)
    <3>1. Read(h, DeleteLocals(q)) /\ DeleteLocals(q).step = "delete"
      BY <2>2 DEF DeleteRead, DeleteLocals, Idle
    <3> HIDE DEF DeleteLocals
    <3> QED BY <2>0, <3>1 DEF Read, tables
  <2>3. CASE SendRead(h, q, k)
    <3>1. Read(h, SendLocals(q, k)) /\ SendLocals(q, k).step = "send"
      BY <2>3 DEF SendRead, SendLocals, Idle
    <3> HIDE DEF SendLocals
    <3> QED BY <2>0, <3>1 DEF Read, tables
  <2>4. CASE PublishRead(h, q)
    <3>1. Read(h, PublishLocals(q)) /\ PublishLocals(q).step = "publish"
      BY <2>4 DEF PublishRead, PublishLocals, Idle
    <3> HIDE DEF PublishLocals
    <3> QED BY <2>0, <3>1 DEF Read, tables
  <2>5. CASE DeleteQuote(h, q)
    <3>1. UNCHANGED <<temp, lost, origin>> /\ handler[h].step = "delete"
      BY <2>5 DEF DeleteQuote
    <3>2. Keep(h, Idle) \/ Keep(h, [handler[h] EXCEPT !.step = "drop"])
      BY <2>5 DEF DeleteQuote, Done
    <3>3. [handler[h] EXCEPT !.step = "drop"].step = "drop"
      BY <2>0 DEF Locals
    <3> QED BY <2>0, <3>1, <3>2, <3>3
  <2>6. CASE EditWrite(h, q) \/ MarkQuoted(h, q) \/ PublishWrite(h, q, o, k, sender)
    BY <2>0, <2>6 DEF EditWrite, MarkQuoted, PublishWrite, Done
  <2> QED BY <2>1, <2>2, <2>3, <2>4, <2>5, <2>6
<1> QED BY <1>1, LinksKept

LEMMA LinksEnded ==
  ASSUME OneAtATime, IInv, LInv, NEW h \in Handlers, NEW k, NEW p,
         \/ DropCustomer(h, k) \/ SendAdopt(h) \/ SendMail(h)
         \/ Register(h, p) \/ FindRow(h, k) \/ FindLeads(h, k) \/ AdoptLeads(h)
  PROVE  LInv'
<1>1. /\ handler[h].step # "name" /\ UNCHANGED <<temp, lost, origin>>
      /\ \E r : Keep(h, r) /\ r.step \notin {"insert", "name"}
  <2>0. handler[h] \in Locals /\ Idle.step = "idle"
    BY IdleTyped DEF IInv, TypeOK
  <2>1. CASE SendAdopt(h) \/ SendMail(h) \/ AdoptLeads(h)
    <3>1. UNCHANGED <<temp, lost, origin>> /\ handler[h].step \in {"send", "adopt"}
      BY <2>1 DEF SendAdopt, SendMail, AdoptLeads, tables
    <3>2. \/ Keep(h, [handler[h] EXCEPT !.step = "drop"])
          \/ Keep(h, [handler[h] EXCEPT !.step = "mark"])
      BY <2>1 DEF SendAdopt, SendMail, AdoptLeads
    <3>3. /\ [handler[h] EXCEPT !.step = "drop"].step = "drop"
          /\ [handler[h] EXCEPT !.step = "mark"].step = "mark"
      BY <2>0 DEF Locals
    <3> QED BY <3>1, <3>2, <3>3
  <2>2. CASE Register(h, p)
    <3>1. Keep(h, FindingLocals(p)) /\ FindingLocals(p).step = "find"
      BY <2>2 DEF Register, FindingLocals, Idle
    <3> HIDE DEF FindingLocals
    <3> QED BY <2>0, <2>2, <3>1 DEF Register
  <2>3. CASE FindLeads(h, k)
    <3>1. UNCHANGED <<temp, lost, origin>> /\ handler[h].step = "look"
      BY <2>3 DEF FindLeads, tables
    <3>2. Keep(h, Idle) \/ \E S : Keep(h, [handler[h] EXCEPT !.step = "adopt", !.quotes = S])
      BY <2>3 DEF FindLeads, Done
    <3>3. \A S : [handler[h] EXCEPT !.step = "adopt", !.quotes = S].step = "adopt"
      BY <2>0 DEF Locals
    <3> QED BY <2>0, <3>1, <3>2, <3>3
  <2>5. CASE FindRow(h, k)
    <3>1. UNCHANGED <<temp, lost, origin>> /\ handler[h].step = "find"
      BY <2>5 DEF FindRow, tables
    <3>2. Keep(h, Idle) \/ Keep(h, [handler[h] EXCEPT !.step = "look", !.customer = k])
      BY <2>5 DEF FindRow, Done
    <3>3. [handler[h] EXCEPT !.step = "look", !.customer = k].step = "look"
      BY <2>0 DEF Locals
    <3> QED BY <2>0, <3>1, <3>2, <3>3
  <2>4. CASE DropCustomer(h, k)
    BY <2>0, <2>4 DEF DropCustomer, Done
  <2> QED BY <2>1, <2>2, <2>3, <2>4, <2>5
<1> QED BY <1>1, LinksKept

LEMMA LinksNext ==
  ASSUME OneAtATime, IInv, LInv, Next PROVE LInv'
<1>1. ASSUME NEW h \in Handlers, NEW q \in Quotes, NEW k \in Customers \cup {NoOne}, NEW t \in TemporaryLeads,
             OpenLink(h, q, t, k)
      PROVE  LInv'
  BY <1>1, LinksFollowed DEF OpenLink
<1>2. ASSUME NEW h \in Handlers, NEW q \in Quotes, NEW k \in Customers \cup {NoOne}, NEW p \in Clients,
             ImportLead(h, q, p, k)
      PROVE  LInv'
  BY <1>2, LinksFollowed DEF ImportLead
<1>3. ASSUME NEW h \in Handlers, Leading(h) PROVE LInv'
  <2>1. CASE \E q \in Quotes : \E k \in Customers \cup {NoOne} :
               \/ \E t \in TemporaryLeads : OpenLink(h, q, t, k)
               \/ \E p \in Clients : ImportLead(h, q, p, k)
    BY <1>1, <1>2, <2>1
  <2>2. CASE \E q \in Quotes, k \in Customers : InsertLead(h, q, k) \/ SendRead(h, q, k)
    BY <2>2, LinksInserted, LinksElsewhere
  <2>3. CASE \E q \in Quotes : \/ NameLead(h, q) \/ EditRead(h, q) \/ EditWrite(h, q)
                              \/ DeleteRead(h, q) \/ DeleteQuote(h, q) \/ MarkQuoted(h, q)
    BY <2>3, LinksNamed, LinksElsewhere
  <2>4. CASE (\E k \in Customers : DropCustomer(h, k)) \/ SendAdopt(h) \/ SendMail(h)
    BY <2>4, LinksEnded
  <2> QED BY <1>3, <2>1, <2>2, <2>3, <2>4 DEF Leading
<1>4. ASSUME NEW h \in Handlers, Registering(h) PROVE LInv'
  BY <1>4, LinksEnded DEF Registering
<1>5. ASSUME NEW h \in Handlers, Publishing(h) PROVE LInv'
  BY <1>5, LinksElsewhere DEF Publishing
<1>6. ASSUME NEW j, NEW k, NEW p, SaveParty(j, k, p) PROVE LInv'
  BY <1>6, LinksBeside DEF SaveParty
<1> QED BY <1>3, <1>4, <1>5, <1>6, LinksAborted, LinksTable, LinksClients DEF Next

\* With one request at a time a link makes one lead, unless the request that
\* made it was cut off before it was noted.
THEOREM OneLeadPerLinkHolds ==
  ASSUME OneAtATime
  PROVE  Spec => []OneLeadPerLink
<1>1. Init => LInv
  BY IdleTyped DEF Init, LInv, Noted, First, OneLead
<1>2. IInv /\ LInv /\ [Next]_vars => LInv'
  <2>1. ASSUME IInv, LInv, UNCHANGED vars PROVE LInv'
    BY <2>1, LinksBeside DEF vars
  <2> QED BY <2>1, LinksNext
<1>3. LInv => OneLeadPerLink
  <2> SUFFICES ASSUME LInv, NEW t \in TemporaryLeads \ lost
               PROVE  Cardinality({q \in Quotes : origin[q].temp = t}) <= 1
    BY DEF OneLeadPerLink
  <2> DEFINE S == {q \in Quotes : origin[q].temp = t}
  <2>1. t # NoOne
    BY NoOneAssumption
  <2>2. CASE S = {}
    BY <2>2, FS_EmptySet
  <2>3. CASE S # {}
    <3> PICK q \in S : TRUE
      BY <2>3
    <3>1. S = {q}
      BY <2>1 DEF LInv, OneLead
    <3>2. Cardinality(S) = 1
      BY <3>1, FS_Singleton
    <3> QED BY <3>2
  <2> QED BY <2>2, <2>3
<1> QED BY <1>1, <1>2, <1>3, Invariance, PTL DEF Spec

=============================================================================
