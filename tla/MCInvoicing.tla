----------------------------- MODULE MCInvoicing -----------------------------
(* Instances of Invoicing and its reports for TLC. *)
EXTENDS Revenue, TLC

\* Orders are all alike, and so are carriers.
SymIds == Permutations(Orders) \cup Permutations(Carriers)

=============================================================================
