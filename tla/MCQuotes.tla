------------------------------- MODULE MCQuotes -------------------------------
(* Instances of Quotes for TLC. *)
EXTENDS Quotes, TLC

\* A bound: links are mailed, two orders are booked and quotes get old only
\* while no order has a sender or receiver among the customers, or had one.
Patched == \E k \in Customers : customer[k].party \/ Cardinality(customer[k].carried) > 1
Bounded ==
  Patched => /\ \A t \in TemporaryLeads : temp[t] = NoTemp
             /\ Cardinality({o \in Orders : orderQuote[o] # NoOne}) <= 1
             /\ \A q \in Quotes : Exists(q) => quote[q].fresh

\* Ids are all alike, and so are clients.
SymIds == Permutations(Clients) \cup Permutations(Quotes) \cup
          Permutations(Customers) \cup Permutations(Orders)

=============================================================================
