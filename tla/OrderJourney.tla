---------------------------- MODULE OrderJourney ----------------------------
(***************************************************************************)
(* What the order and driver services promise about the way of an order:   *)
(* the phases it goes through and the moves between them.  An order can be *)
(* booked (again) or removed in any phase; everything else has its place:  *)
(* only a car at its pick-up, or one somebody is about to sign for, is     *)
(* signed for; what is loaded is not released, only signed for again; what *)
(* is delivered is billed, and only a bill is paid.                        *)
(*                                                                         *)
(* OrderLifecycle implements it when requests run one after the other.     *)
(***************************************************************************)
CONSTANT Orders
VARIABLE phase

Phases == {"absent", "released", "booked", "arrived", "signing", "loaded",
           "delivered", "billed", "paid", "removed"}

TypeOK == phase \in [Orders -> Phases]

Init == phase = [o \in Orders |-> "absent"]

Move(o, from, to) ==
  /\ phase[o] \in from
  /\ phase' = [phase EXCEPT ![o] = to]

Open(o) == Move(o, {"absent"}, "released")
Book(o) == Move(o, Phases, "booked")
Arrive(o) == Move(o, {"booked"}, "arrived")
AskSignature(o) == Move(o, {"arrived", "loaded"}, "signing")
Load(o) == Move(o, {"arrived", "signing"}, "loaded")
Deliver(o) == Move(o, {"arrived", "signing"}, "delivered")
Bill(o) == Move(o, {"delivered"}, "billed")
Pay(o) == Move(o, {"billed"}, "paid")
Release(o) ==
  Move(o, {"booked", "arrived", "signing", "billed", "paid", "removed"}, "released")
Remove(o) == Move(o, Phases \ {"absent"}, "removed")

Next ==
  \E o \in Orders :
    \/ Open(o) \/ Book(o) \/ Arrive(o) \/ AskSignature(o) \/ Load(o)
    \/ Deliver(o) \/ Bill(o) \/ Pay(o) \/ Release(o) \/ Remove(o)

Spec == Init /\ [][Next]_phase
=============================================================================
