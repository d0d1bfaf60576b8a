------------------------------ MODULE Requests -------------------------------
(* What Invoicing and Pricing share, so that MoneyProofs can speak of both. *)

CONSTANTS
  Handlers,    \* slots for requests that run at the same time
  NoOne        \* the null of a nullable column or of an unused local
=============================================================================
