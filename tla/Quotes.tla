-------------------------------- MODULE Quotes --------------------------------
(***************************************************************************)
(* A client's quote from the first estimate to the order it is booked as:  *)
(* LeadService, TemporaryLeadService and its controller, QuoteService and  *)
(* RegisterService.client.                                                 *)
(*                                                                         *)
(* A lead is a quote of somebody who has no account yet: it names a row of *)
(* the table virtualAccount, found by its e-mail address.  It becomes the  *)
(* client's when he registers, or when the admin mails it and finds that   *)
(* he did.  Rows of virtualAccount are also the senders and receivers of   *)
(* orders, and a patch of an order writes over them, the address included. *)
(* The foreign keys are those of the entities: a row that a quote *)
(* or an order names cannot be removed, and the statement that tries       *)
(* fails.                                                                  *)
(*                                                                         *)
(* Left out: prices, cars and notes; how often and when a lead was mailed  *)
(* (any lead may be due); the hash in the link of a mail.  Whether a quote *)
(* is younger than 72 hours is a flag that time clears.  Two accounts with *)
(* one address count as one.                                               *)
(***************************************************************************)
EXTENDS Naturals, FiniteSets

CONSTANTS
  Clients,     \* people, by their e-mail address
  Parties,     \* those whose address orders give to a sender or a receiver
  Quotes, Customers, Orders, TemporaryLeads,   \* ids of rows
  Handlers,    \* slots for requests that run at the same time
  NoOne        \* the null of a nullable column or of an unused local

ASSUME NoOneAssumption ==
  NoOne \notin Clients \cup Quotes \cup Customers \cup Orders \cup TemporaryLeads
ASSUME PartiesAssumption == Parties \subseteq Clients

VARIABLES
  quote,       \* the quote table
  customer,    \* the virtualAccount table
  account,     \* the clients who have registered
  orderQuote,  \* order.quoteId
  temp,        \* the temporaryLead table
  handler,     \* the locals of each request in flight
  origin,      \* history: for whom, under which customer and from which temporary
               \* lead a quote was made
  lost,        \* history: temporary leads whose new lead was never noted down
  again        \* history: quotes accepted after they had been booked

vars == <<quote, customer, account, orderQuote, temp, handler, origin, lost, again>>

QUOTE_STATUS == {"absent", "lead", "quoted", "new", "accepted", "canceled", "booked", "removed"}
Leads == {"lead", "quoted"}
Visible == {"new", "accepted"}
Given == {"new", "accepted", "canceled", "booked"}

QuoteRow == [status : QUOTE_STATUS, owner : Clients \cup {NoOne},
             customer : Customers \cup {NoOne}, order : Orders \cup {NoOne}, fresh : BOOLEAN]
\* `party': some order names the row; `carried' is history: its addresses.
CustomerRow == [status : {"absent", "live", "removed"}, email : Clients \cup {NoOne},
                party : BOOLEAN, carried : SUBSET (Clients \cup {NoOne})]
TempRow == [status : {"absent", "open", "expired", "removed"}, email : Clients \cup {NoOne},
            lead : Quotes \cup {NoOne}]
Steps == {"idle", "insert", "name", "edit", "delete", "drop", "send", "mark",
          "find", "look", "adopt", "publish"}
Origin == [client : Clients \cup {NoOne}, customer : Customers \cup {NoOne},
           temp : TemporaryLeads \cup {NoOne}]
Locals == [step : Steps, quotes : SUBSET Quotes, customer : Customers \cup {NoOne},
           client : Clients \cup {NoOne}, temp : TemporaryLeads \cup {NoOne},
           row : QuoteRow]

NoQuote == [status |-> "absent", owner |-> NoOne, customer |-> NoOne,
            order |-> NoOne, fresh |-> FALSE]
NoCustomer == [status |-> "absent", email |-> NoOne, party |-> FALSE, carried |-> {}]
NoTemp == [status |-> "absent", email |-> NoOne, lead |-> NoOne]
Idle == [step |-> "idle", quotes |-> {}, customer |-> NoOne, client |-> NoOne,
         temp |-> NoOne, row |-> NoQuote]

TypeOK ==
  /\ quote \in [Quotes -> QuoteRow]
  /\ customer \in [Customers -> CustomerRow]
  /\ account \subseteq Clients
  /\ orderQuote \in [Orders -> Quotes \cup {NoOne}]
  /\ temp \in [TemporaryLeads -> TempRow]
  /\ handler \in [Handlers -> Locals]
  /\ origin \in [Quotes -> Origin]
  /\ lost \subseteq TemporaryLeads
  /\ again \subseteq Quotes

Init ==
  /\ quote = [q \in Quotes |-> NoQuote]
  /\ customer = [k \in Customers |-> NoCustomer]
  /\ account = {}
  /\ orderQuote = [o \in Orders |-> NoOne]
  /\ temp = [t \in TemporaryLeads |-> NoTemp]
  /\ handler = [h \in Handlers |-> Idle]
  /\ origin = [q \in Quotes |-> [client |-> NoOne, customer |-> NoOne, temp |-> NoOne]]
  /\ lost = {}
  /\ again = {}

-----------------------------------------------------------------------------
Keep(h, locals) == handler' = [handler EXCEPT ![h] = locals]
Done(h) == Keep(h, Idle)
tables == <<quote, customer, account, orderQuote, temp, origin, lost, again>>
Read(h, locals) == handler[h] = Idle /\ Keep(h, locals) /\ UNCHANGED tables

Exists(q) == quote[q].status \notin {"absent", "removed"}

\* virtualAccountRepository.findOne({ email }): any row with the address.
CustomersOf(p) == {k \in Customers : customer[k].status = "live" /\ customer[k].email = p}

\* Mutant: findOne without the address.
FindCustomerAny(p) ==
  IF CustomersOf(p) = {} THEN {NoOne} ELSE {k \in Customers : customer[k].status = "live"}

FindCustomer(p) == IF CustomersOf(p) = {} THEN {NoOne} ELSE CustomersOf(p)

\* A new row for the address p.
NewCustomer(k, p, party) ==
  /\ customer[k].status = "absent"
  /\ customer' = [customer EXCEPT ![k] =
                    [status |-> "live", email |-> p, party |-> party, carried |-> {p}]]

\* No foreign key forbids to remove row k.
Unused(k) == ~customer[k].party /\ \A q \in Quotes : Exists(q) => quote[q].customer # k

\* Mutant: the status is forgotten.
AdoptedAsLeads(S, p) ==
  [q \in Quotes |-> IF q \in S /\ Exists(q)
                    THEN [quote[q] EXCEPT !.owner = p, !.customer = NoOne]
                    ELSE quote[q]]

\* The quotes of S become quotes of client p.
Adopted(S, p) ==
  [q \in Quotes |-> IF q \in S /\ Exists(q)
                    THEN [quote[q] EXCEPT !.owner = p, !.status = "new", !.customer = NoOne]
                    ELSE quote[q]]

-----------------------------------------------------------------------------
(* Temporary leads: an estimate on the web site, and the link to the app. *)

\* TemporaryLeadService.create; send mails the link.
CreateTemporary(t, p) ==
  /\ temp[t].status = "absent"
  /\ temp' = [temp EXCEPT ![t] = [status |-> "open", email |-> p, lead |-> NoOne]]
  /\ UNCHANGED <<quote, customer, account, orderQuote, handler, origin, lost, again>>

\* Three days pass.
Expire(t) ==
  /\ temp[t].status = "open"
  /\ temp' = [temp EXCEPT ![t].status = "expired"]
  /\ UNCHANGED <<quote, customer, account, orderQuote, handler, origin, lost, again>>

\* The daily job.
RemoveExpired ==
  /\ \E t \in TemporaryLeads : temp[t].status = "expired"
  /\ temp' = [t \in TemporaryLeads |->
                IF temp[t].status = "expired" THEN [NoTemp EXCEPT !.status = "removed"]
                                              ELSE temp[t]]
  /\ UNCHANGED <<quote, customer, account, orderQuote, handler, origin, lost, again>>

\* What insertLead keeps of its request.
Inserting(q, k, p, t) ==
  [Idle EXCEPT !.step = "insert", !.quotes = {q}, !.customer = k, !.client = p, !.temp = t]

\* Mutant: a link that was used makes another lead.
OpenLinkAgain(h, q, t, k) ==
  /\ temp[t].status = "open"
  /\ k \in FindCustomer(temp[t].email)
  /\ quote[q].status = "absent"
  /\ Read(h, Inserting(q, k, temp[t].email, t))

\* createLeadFromDownloadAppUrl up to insertLead's findOne.  A link that was
\* used changes nothing.
OpenLink(h, q, t, k) ==
  /\ temp[t].status = "open" /\ temp[t].lead = NoOne
  /\ quote[q].status = "absent"
  /\ k \in FindCustomer(temp[t].email)
  /\ Read(h, Inserting(q, k, temp[t].email, t))

\* importCsv, for one line of the file.
ImportLead(h, q, p, k) ==
  /\ quote[q].status = "absent"
  /\ k \in FindCustomer(p)
  /\ Read(h, Inserting(q, k, p, NoOne))

\* insertLead, for customer row k, new if none was found.
InsertLead(h, q, k) ==
  LET me == handler[h]
  IN  /\ me.step = "insert" /\ me.quotes = {q} /\ quote[q].status = "absent"
      /\ IF me.customer = NoOne
         THEN NewCustomer(k, me.client, FALSE)
         ELSE k = me.customer /\ customer[k].status = "live" /\ UNCHANGED customer
      /\ quote' = [quote EXCEPT ![q] = [status |-> "lead", owner |-> NoOne, customer |-> k,
                                        order |-> NoOne, fresh |-> TRUE]]
      /\ origin' = [origin EXCEPT ![q] = [client |-> me.client, customer |-> k, temp |-> me.temp]]
      /\ IF me.temp = NoOne THEN Done(h) ELSE Keep(h, [me EXCEPT !.step = "name"])
      /\ UNCHANGED <<account, orderQuote, temp, lost, again>>

\* temporaryLeadService.update: the temporary lead names the lead.
NameLead(h, q) ==
  LET me == handler[h]
  IN  /\ me.step = "name" /\ me.quotes = {q}
      /\ temp' = [temp EXCEPT ![me.temp].lead =
                  IF temp[me.temp].status = "removed" THEN @ ELSE q]
      /\ Done(h)
      /\ UNCHANGED <<quote, customer, account, orderQuote, origin, lost, again>>

-----------------------------------------------------------------------------
(* What the admin does with leads. *)

\* updateLead: its guard on the status never applies.
EditRead(h, q) ==
  /\ Exists(q)
  /\ Read(h, [Idle EXCEPT !.step = "edit", !.quotes = {q}, !.row = quote[q]])

\* The whole row as it was read is written back; time goes on.
EditWrite(h, q) ==
  LET me == handler[h]
  IN  /\ me.step = "edit" /\ me.quotes = {q}
      /\ me.row.customer # NoOne => customer[me.row.customer].status = "live"
      /\ quote' = [quote EXCEPT ![q] = IF Exists(q) THEN [me.row EXCEPT !.fresh = quote[q].fresh]
                                                    ELSE @]
      /\ Done(h)
      /\ UNCHANGED <<customer, account, orderQuote, temp, origin, lost, again>>

\* delete: leads are removed by id, then their customers.
DeleteRead(h, q) ==
  /\ quote[q].status \in Leads
  /\ Read(h, [Idle EXCEPT !.step = "delete", !.quotes = {q}, !.customer = quote[q].customer])

DeleteQuote(h, q) ==
  LET me == handler[h]
  IN  /\ me.step = "delete" /\ me.quotes = {q}
      /\ quote' = [quote EXCEPT ![q] = [NoQuote EXCEPT !.status = "removed"]]
      /\ IF me.customer = NoOne THEN Done(h) ELSE Keep(h, [me EXCEPT !.step = "drop"])
      /\ UNCHANGED <<customer, account, orderQuote, temp, origin, lost, again>>

\* The last statement of delete, of checkSendEmails for a client and of the
\* registration: when a foreign key forbids it, it fails, and when the row was
\* written since it was read, it may find none (Abort).
DropCustomer(h, k) ==
  /\ handler[h].step = "drop" /\ k = handler[h].customer
  /\ Unused(k)
  /\ customer' = [customer EXCEPT ![k] = [NoCustomer EXCEPT !.status = "removed",
                                                              !.carried = customer[k].carried]]
  /\ Done(h)
  /\ UNCHANGED <<quote, account, orderQuote, temp, origin, lost, again>>

\* checkSendEmails, for one of the leads: `customer' is joined when it is read.
SendRead(h, q, k) ==
  /\ quote[q].status \in Leads /\ k = quote[q].customer /\ k # NoOne
  /\ Read(h, [Idle EXCEPT !.step = "send", !.quotes = {q}, !.customer = k,
                          !.client = customer[k].email])

\* The lead's address is a client's by now.
SendAdopt(h) ==
  LET me == handler[h]
  IN  /\ me.step = "send" /\ me.client \in account
      /\ quote' = Adopted(me.quotes, me.client)
      /\ Keep(h, [me EXCEPT !.step = "drop"])
      /\ UNCHANGED <<customer, account, orderQuote, temp, origin, lost, again>>

\* It is nobody's: the mail goes out ...
SendMail(h) ==
  /\ handler[h].step = "send" /\ handler[h].client \notin account
  /\ Keep(h, [handler[h] EXCEPT !.step = "mark"])
  /\ UNCHANGED tables

\* ... and the lead is updated by id.
MarkQuoted(h, q) ==
  /\ handler[h].step = "mark" /\ handler[h].quotes = {q}
  /\ quote' = [quote EXCEPT ![q].status = IF Exists(q) THEN "quoted" ELSE @]
  /\ Done(h)
  /\ UNCHANGED <<customer, account, orderQuote, temp, origin, lost, again>>

-----------------------------------------------------------------------------
(* Orders that are made without a quote, or patched. *)

\* create, saveImportedOrder, patchInternal and patchExternal save an order's
\* sender or receiver: as a new row, or over row k, which a patch finds by the
\* id of the party or by that of its request.  Row j, if any, was that party and
\* is in no other order.
SaveParty(j, k, p) ==
  /\ j # k /\ (j # NoOne => customer[j].party)
  /\ customer[k].status # "removed"
  /\ customer' = [i \in Customers |->
       CASE i = k -> [status |-> "live", email |-> p, party |-> TRUE,
                      carried |-> customer[k].carried \cup {p}]
         [] i = j -> [customer[j] EXCEPT !.party = FALSE]
         [] OTHER -> customer[i]]
  /\ UNCHANGED <<quote, account, orderQuote, temp, handler, origin, lost, again>>

-----------------------------------------------------------------------------
(* Clients. *)

\* RegisterService.client: the account is saved, ...
Register(h, p) ==
  /\ p \notin account /\ handler[h] = Idle
  /\ account' = account \cup {p}
  /\ Keep(h, [Idle EXCEPT !.step = "find", !.client = p])
  /\ UNCHANGED <<quote, customer, orderQuote, temp, origin, lost, again>>

\* ... one row with his address is looked for, ...
FindRow(h, k) ==
  LET me == handler[h]
  IN  /\ me.step = "find" /\ k \in FindCustomer(me.client)
      /\ IF k = NoOne THEN Done(h) ELSE Keep(h, [me EXCEPT !.step = "look", !.customer = k])
      /\ UNCHANGED tables

\* ... and the leads under it; with none the update is `IN ()' and fails; ...
FindLeads(h, k) ==
  LET me == handler[h]
      S == {q \in Quotes : Exists(q) /\ quote[q].customer = k}
  IN  /\ me.step = "look" /\ k = me.customer
      /\ IF S = {} THEN Done(h) ELSE Keep(h, [me EXCEPT !.step = "adopt", !.quotes = S])
      /\ UNCHANGED tables

\* ... and become his, by id.
AdoptLeads(h) ==
  LET me == handler[h]
  IN  /\ me.step = "adopt"
      /\ quote' = Adopted(me.quotes, me.client)
      /\ Keep(h, [me EXCEPT !.step = "drop"])
      /\ UNCHANGED <<customer, account, orderQuote, temp, origin, lost, again>>

\* QuoteService.create.
CreateQuote(q, p) ==
  /\ p \in account /\ quote[q].status = "absent"
  /\ quote' = [quote EXCEPT ![q] = [status |-> "new", owner |-> p, customer |-> NoOne,
                                    order |-> NoOne, fresh |-> TRUE]]
  /\ origin' = [origin EXCEPT ![q].client = p, ![q].customer = NoOne]
  /\ UNCHANGED <<customer, account, orderQuote, temp, handler, lost, again>>

\* accept and decline, whatever the status of the client's quote.
Answer(q, s) ==
  /\ Exists(q) /\ quote[q].fresh /\ quote[q].owner # NoOne
  /\ quote' = [quote EXCEPT ![q].status = s]
  /\ again' = IF s = "accepted" /\ quote[q].order # NoOne THEN again \cup {q} ELSE again
  /\ UNCHANGED <<customer, account, orderQuote, temp, handler, origin, lost>>

Age(q) ==
  /\ quote[q].fresh
  /\ quote' = [quote EXCEPT ![q].fresh = FALSE]
  /\ UNCHANGED <<customer, account, orderQuote, temp, handler, origin, lost, again>>

PublishRead(h, q) ==
  /\ quote[q].status \in Visible /\ quote[q].fresh /\ quote[q].owner # NoOne
  /\ Read(h, [Idle EXCEPT !.step = "publish", !.quotes = {q}, !.client = quote[q].owner])

\* Mutant: the quote is found by the id of the order.
PublishWriteOrder(h, q, o, k, sender) ==
  /\ handler[h].step = "publish" /\ handler[h].quotes = {q}
  /\ orderQuote[o] = NoOne
  /\ orderQuote' = [orderQuote EXCEPT ![o] = q]
  /\ Done(h)
  /\ UNCHANGED <<quote, customer, account, temp, origin, lost, again>>

\* publish commits: the order with its sender, whose address may be given,
\* and the quote, by id.
PublishWrite(h, q, o, k, sender) ==
  /\ handler[h].step = "publish" /\ handler[h].quotes = {q}
  /\ orderQuote[o] = NoOne
  /\ orderQuote' = [orderQuote EXCEPT ![o] = q]
  /\ IF sender = NoOne THEN UNCHANGED customer ELSE NewCustomer(k, sender, TRUE)
  /\ quote' = [quote EXCEPT ![q] = IF Exists(q) THEN [@ EXCEPT !.status = "booked", !.order = o]
                                                ELSE @]
  /\ Done(h)
  /\ UNCHANGED <<account, temp, origin, lost, again>>

\* A statement fails, or the process stops, before the next one.
Abort(h) ==
  /\ handler[h] # Idle
  /\ lost' = IF handler[h].step = "name" THEN lost \cup {handler[h].temp} ELSE lost
  /\ Done(h)
  /\ UNCHANGED <<quote, customer, account, orderQuote, temp, origin, again>>

-----------------------------------------------------------------------------
\* Leads (lead and temporaryLead controllers).
Leading(h) ==
  \/ \E q \in Quotes :
       \/ \E k \in Customers \cup {NoOne} :
            \/ \E t \in TemporaryLeads : OpenLink(h, q, t, k)
            \/ \E p \in Clients : ImportLead(h, q, p, k)
       \/ \E k \in Customers : InsertLead(h, q, k) \/ SendRead(h, q, k)
       \/ NameLead(h, q) \/ EditRead(h, q) \/ EditWrite(h, q)
       \/ DeleteRead(h, q) \/ DeleteQuote(h, q) \/ MarkQuoted(h, q)
  \/ \E k \in Customers : DropCustomer(h, k)
  \/ SendAdopt(h) \/ SendMail(h)

Registering(h) ==
  \/ \E p \in Clients : Register(h, p)
  \/ \E k \in Customers \cup {NoOne} : FindRow(h, k)
  \/ \E k \in Customers : FindLeads(h, k)
  \/ AdoptLeads(h)

\* Booking (client controller).
Publishing(h) ==
  \E q \in Quotes :
    \/ PublishRead(h, q)
    \/ \E o \in Orders, k \in Customers, sender \in Parties \cup {NoOne} :
         PublishWrite(h, q, o, k, sender)

Next ==
  \/ \E h \in Handlers : Leading(h) \/ Registering(h) \/ Publishing(h) \/ Abort(h)
  \/ \E q \in Quotes :
       \/ \E p \in Clients : CreateQuote(q, p)
       \/ \E s \in {"accepted", "canceled"} : Answer(q, s)
       \/ Age(q)
  \/ \E t \in TemporaryLeads : (\E p \in Clients : CreateTemporary(t, p)) \/ Expire(t)
  \/ \E j \in Customers \cup {NoOne}, k \in Customers, p \in Parties : SaveParty(j, k, p)
  \/ RemoveExpired

Spec == Init /\ [][Next]_vars

-----------------------------------------------------------------------------
(* Properties. *)

\* One request at a time, wherever it is cut off, a lead can be mailed: it
\* names a customer with an address and is nobody's quote yet, which
\* checkSendEmails takes for granted (lead.service.ts:377).  Any other quote is
\* a client's and names no customer.
LeadHasCustomer ==
  \A q \in Quotes :
    /\ quote[q].status \in Leads => /\ quote[q].owner = NoOne
                                   /\ quote[q].customer # NoOne
                                   /\ customer[quote[q].customer].status = "live"
    /\ quote[q].status \in Given => quote[q].owner # NoOne /\ quote[q].customer = NoOne

\* Whatever requests overlap, the owner of a quote that was a lead has
\* registered, with an address that the lead's customer row has carried, and so
\* has the one it was made for: they are the same client unless an order's
\* patch wrote another address over that row (register.service.ts:287,
\* lead.service.ts:381, order.service.ts:712).  The owner of any other quote
\* is the client who asked for it.
OwnerAsked ==
  \A q \in Quotes :
    LET made == origin[q]
    IN  quote[q].owner # NoOne =>
          /\ quote[q].owner \in account
          /\ IF made.customer = NoOne THEN quote[q].owner = made.client
             ELSE {made.client, quote[q].owner} \subseteq customer[made.customer].carried

\* One request at a time, a link in a mail makes one lead, however often it is
\* followed, unless a request was cut off right after it had made it
\* (temporaryLead.controller.ts:46).
OneLeadPerLink ==
  \A t \in TemporaryLeads \ lost : Cardinality({q \in Quotes : origin[q].temp = t}) <= 1

\* One request at a time, a quote is booked as one order, unless the client
\* accepts it again after it was booked, which nothing forbids
\* (quote.service.ts:145, 175).
BookedOnce ==
  \A a, b \in Orders :
    a # b /\ orderQuote[a] = orderQuote[b] => orderQuote[a] \in again \cup {NoOne}

=============================================================================
