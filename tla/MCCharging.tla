----------------------------- MODULE MCCharging -----------------------------
(* Instances of Charging for TLC. *)
EXTENDS Charging, TLC

CONSTANTS t1, t2, t3, s1, s2, s3, h1, h2

AllCalls == {"accept", "sign", "retryFee", "retryFare", "cancel", "editWallet", "deleteWallet"}

SymCharging == Permutations(Transactions) \cup Permutations(Sales) \cup Permutations(Handlers)
=============================================================================
