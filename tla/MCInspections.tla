----------------------------- MODULE MCInspections -----------------------------
(* Instances of Inspections for TLC. *)
EXTENDS Inspections, TLC

CONSTANTS car1, d1, p1, h1, h2

\* The client's requests and the others', one of each at a time.
TwoSidesCalls ==
  (h1 :> {"create", "edit", "damage", "request", "sign", "decline", "cancel",
          "send", "assign", "arrive"})
  @@ (h2 :> {"view", "damage", "clientDelivery", "sign", "patch"})

=============================================================================
