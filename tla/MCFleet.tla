------------------------------- MODULE MCFleet -------------------------------
(* The instance of Fleet that TLC checks. *)
EXTENDS Fleet

\* Every endpoint of a carrier's own people; drivers can be blocked.
CarrierCalls == {"joinRequest", "answer", "leave", "kickOut", "link", "edit", "blocked"}

=============================================================================
