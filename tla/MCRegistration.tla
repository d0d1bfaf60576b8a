---------------------------- MODULE MCRegistration ----------------------------
(* Instances of Registration for TLC. *)
EXTENDS Registration, TLC

CONSTANTS c1, c2, a1, a2, i1, i2, i3, e1, e2, n1, h1

AllCalls == {"inviteAccount", "inviteCarrier", "resend", "decline", "retrieve",
             "expireInvite", "job", "carrier", "carrierNew", "common", "driver",
             "register", "confirm", "approve", "carrierEdit", "patchCompany"}

SymRegistration == Permutations(Companies) \cup Permutations(Accounts)
                     \cup Permutations(Invites) \cup Permutations(Emails)
=============================================================================
