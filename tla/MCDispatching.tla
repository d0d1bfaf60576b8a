---------------------------- MODULE MCDispatching ----------------------------
(* Instances of Dispatching and its lists for TLC. *)
EXTENDS MarketBoards, TLC

CONSTANTS o1, o2, c1, c2, r1, r2, r3, h1, h2

DispatchCalls ==
  {"create", "withdraw", "removeRequests", "accept", "retryFee", "invite",
   "closeInvite", "register", "cancel", "clientCancel", "drop", "fare"}

=============================================================================
