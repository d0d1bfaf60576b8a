-------------------------- MODULE MCOrderLifecycle --------------------------
(* Instances of OrderLifecycle for TLC: the CONSTANTs of the .cfg files that *)
(* are not model values.                                                     *)
EXTENDS OrderBoards, TLC

CONSTANTS o1, o2, t1, t2, c1, d1, h1, h2

MCCompanyOf == [t \in Trips |-> c1]

AllCalls == {"create", "accept", "publish", "delete", "archive",
             "adminArchive", "cancel", "clientCancel", "decline", "deleteOrder", "tripCreate",
             "tripPatch", "assignDriver", "moveToDraft", "tripPublish",
             "tripStart", "tripDelete", "assign", "deleteFromTrip",
             "setDriverOnPickup", "driverAction", "location",
             "requestSignature", "deliveryInspection", "clientSign",
             "driverSign", "retryCharge", "sendInvoice", "markPaid"}

\* What moves trips.  No driver is put on a trip after its creation: the two
\* calls that do it, tripPatch and assignDriver, do not look at the driver's
\* other trips, and OneActiveTripPerDriver does not hold with them.
TripCalls ==
  {"create", "tripCreate", "tripPublish", "tripStart", "assign",
   "setDriverOnPickup", "driverAction", "clientSign"}

\* The way of two orders to their delivery, without billing.
DeliveryCalls ==
  {"create", "tripCreate", "tripPublish", "setDriverOnPickup",
   "driverAction", "requestSignature", "deliveryInspection", "clientSign"}

CancelRaceCalls ==
  {"create", "accept", "tripCreate", "tripPublish", "setDriverOnPickup",
   "driverAction", "requestSignature", "clientCancel", "driverSign"}

\* Orders are all alike, and so are trips.
SymTables == Permutations(Orders) \cup Permutations(Trips)
=============================================================================
