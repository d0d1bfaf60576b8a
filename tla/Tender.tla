-------------------------------- MODULE Tender --------------------------------
(***************************************************************************)
(* What the dispatching of orders promises: an order has one holder at a   *)
(* time; the holder is a bidder whose bid stood when it was accepted, or   *)
(* an invited carrier that found the order free; accepting closes the      *)
(* other bids.                                                             *)
(***************************************************************************)
CONSTANTS Orders, Companies, NoOne

VARIABLES
  holder,  \* the company that has the order
  bids     \* the companies with an open request for it

vars == <<holder, bids>>

Init ==
  /\ holder = [o \in Orders |-> NoOne]
  /\ bids = [o \in Orders |-> {}]

Bid(o, c) ==
  /\ bids' = [bids EXCEPT ![o] = @ \cup {c}]
  /\ UNCHANGED holder

Withdraw(o, c) ==
  /\ bids' = [bids EXCEPT ![o] = @ \ {c}]
  /\ UNCHANGED holder

Award(o, c) ==
  /\ c \in bids[o]
  /\ holder' = [holder EXCEPT ![o] = c]
  /\ bids' = [bids EXCEPT ![o] = {}]

Claim(o, c) ==
  /\ holder[o] = NoOne
  /\ holder' = [holder EXCEPT ![o] = c]
  /\ UNCHANGED bids

\* The bids go too when the order is published again.
Release(o) ==
  /\ holder' = [holder EXCEPT ![o] = NoOne]
  /\ bids' \in {bids, [bids EXCEPT ![o] = {}]}

Next ==
  \E o \in Orders :
    \/ \E c \in Companies : Bid(o, c) \/ Withdraw(o, c) \/ Award(o, c) \/ Claim(o, c)
    \/ Release(o)

Spec == Init /\ [][Next]_vars
=============================================================================
